------------------------------- MODULE IrWalk -------------------------------
(***************************************************************************)
(* project4 as a process (src/project4/main.c, tac.c, mips32.c): it reads  *)
(* the lines of the buffer into a doubly linked list, walking to the end   *)
(* of the list for each, and then walks the list once and prints the       *)
(* assembly.  Nodes are numbered in the order of their allocation; 1 is    *)
(* the empty instruction at the head and 0 is NULL.                        *)
(***************************************************************************)
EXTENDS Ir

CONSTANTS
  Lines,    \* the lines a file may have
  MaxLines  \* bound: how many lines the file has at most

ASSUME LinesAssumption ==
  Lines \subseteq [tokens : Seq([pre : STRING, rest : STRING, num : Int]),
                   gaps : Nat, length : Nat]

ASSUME MaxLinesAssumption == MaxLines \in Nat

VARIABLES
  pc,     \* "read", "seek", "emit" or how the program ended
  lines,  \* history: the terminated lines of the buffer read so far
  code,   \* code[i]: the instruction of node i
  prev,
  next,
  inst,   \* the node tac_append is to put at the end
  p,      \* where tac_append is
  cur,    \* tac_code of emit_code
  out     \* what has been printed: the preamble, then a text per instruction

vars == <<pc, lines, code, prev, next, inst, p, cur, out>>

NONE == <<"NONE", << >>>>

(* emit_preamble and the two library functions. *)
Preamble == <<<<"preamble">>, <<"function", "read">>, <<"function", "write">>>>

Init ==
  /\ pc = "read"
  /\ lines = << >>
  /\ code = <<NONE>> /\ prev = <<0>> /\ next = <<0>>
  /\ inst = 0 /\ p = 0 /\ cur = 0
  /\ out = << >>

-----------------------------------------------------------------------------
(* The number after the node's (for the mutation runs). *)
ReadLine_next(line) ==
  /\ pc = "read" /\ Len(lines) < MaxLines
  /\ Outcome(line) = "read"
  /\ lines' = Append(lines, line)
  /\ code' = Append(code, OfTokens(line.tokens))
  /\ prev' = Append(prev, 0)
  /\ next' = Append(next, 0)
  /\ inst' = Len(code) + 2
  /\ p' = 1
  /\ pc' = "seek"
  /\ UNCHANGED <<cur, out>>

(* A line becomes a node; tac_append starts at the head. *)
ReadLine(line) ==
  /\ pc = "read" /\ Len(lines) < MaxLines
  /\ Outcome(line) = "read"
  /\ lines' = Append(lines, line)
  /\ code' = Append(code, OfTokens(line.tokens))
  /\ prev' = Append(prev, 0)
  /\ next' = Append(next, 0)
  /\ inst' = Len(code) + 1
  /\ p' = 1
  /\ pc' = "seek"
  /\ UNCHANGED <<cur, out>>

(* A line that fails an assertion, or that the reader is not made for. *)
RejectLine(line) ==
  /\ pc = "read" /\ Len(lines) < MaxLines
  /\ Outcome(line) # "read"
  /\ lines' = Append(lines, line)
  /\ pc' = Outcome(line)
  /\ UNCHANGED <<code, prev, next, inst, p, cur, out>>

(* The walk that goes back to where it is (for the mutation runs). *)
tac_append_stays ==
  /\ pc = "seek" /\ next[p] # 0
  /\ p' = p
  /\ UNCHANGED <<pc, lines, code, prev, next, inst, cur, out>>

(* One turn of the loop of tac_append. *)
tac_append ==
  /\ pc = "seek" /\ next[p] # 0
  /\ p' = next[p]
  /\ UNCHANGED <<pc, lines, code, prev, next, inst, cur, out>>

(* Without the pointer back (for the mutation runs). *)
tac_insert_one_way ==
  /\ pc = "seek" /\ next[p] = 0
  /\ next' = [next EXCEPT ![p] = inst, ![inst] = next[p]]
  /\ pc' = "read"
  /\ UNCHANGED <<lines, code, prev, inst, p, cur, out>>

(***************************************************************************)
(* tac_insert of the one node behind p, at the end: the node that followed *)
(* p follows the new one.                                                  *)
(***************************************************************************)
tac_insert ==
  /\ pc = "seek" /\ next[p] = 0
  /\ next' = [next EXCEPT ![p] = inst, ![inst] = next[p]]
  /\ prev' = [i \in DOMAIN prev |-> CASE i = inst    -> p
                                      [] i = next[p] -> inst
                                      [] OTHER       -> prev[i]]
  /\ pc' = "read"
  /\ UNCHANGED <<lines, code, inst, p, cur, out>>

(***************************************************************************)
(* The end mark: what follows the last line break is dropped, and          *)
(* mips32_gen starts.                                                      *)
(***************************************************************************)
EndOfBuffer ==
  /\ pc = "read"
  /\ pc' = "emit"
  /\ cur' = 1
  /\ out' = <<Preamble>>
  /\ UNCHANGED <<lines, code, prev, next, inst, p>>

SkipNone ==
  /\ pc = "emit" /\ cur # 0 /\ code[cur][1] = "NONE"
  /\ cur' = next[cur]
  /\ UNCHANGED <<pc, lines, code, prev, next, inst, p, out>>

(* The emitters return the node after the next (for the mutation runs). *)
EmitCode_skips ==
  /\ pc = "emit" /\ cur # 0 /\ code[cur][1] # "NONE"
  /\ emit(code[cur]).ok
  /\ out' = Append(out, emit(code[cur]).text)
  /\ cur' = IF next[cur] = 0 THEN 0 ELSE next[next[cur]]
  /\ UNCHANGED <<pc, lines, code, prev, next, inst, p>>

(* One turn of emit_code. *)
EmitCode ==
  /\ pc = "emit" /\ cur # 0 /\ code[cur][1] # "NONE"
  /\ emit(code[cur]).ok
  /\ out' = Append(out, emit(code[cur]).text)
  /\ cur' = next[cur]
  /\ UNCHANGED <<pc, lines, code, prev, next, inst, p>>

(* get_register asserts that its operand is a variable. *)
FailAssertion ==
  /\ pc = "emit" /\ cur # 0 /\ code[cur][1] # "NONE"
  /\ ~ emit(code[cur]).ok
  /\ pc' = "aborted"
  /\ UNCHANGED <<lines, code, prev, next, inst, p, cur, out>>

Return ==
  /\ pc = "emit" /\ cur = 0
  /\ pc' = "done"
  /\ UNCHANGED <<lines, code, prev, next, inst, p, cur, out>>

Next ==
  \/ \E line \in Lines : ReadLine(line) \/ RejectLine(line)
  \/ tac_append \/ tac_insert \/ EndOfBuffer
  \/ SkipNone \/ EmitCode \/ FailAssertion \/ Return

Spec == Init /\ [][Next]_vars

(* The program is one thread, and the buffer is read to its end. *)
FairSpec == Spec /\ WF_vars(Next)

-----------------------------------------------------------------------------
TypeOK ==
  /\ pc \in {"read", "seek", "emit", "done", "aborted", "undefined"}
  /\ lines \in Seq(Lines) /\ Len(lines) <= MaxLines
  /\ DOMAIN code = 1 .. Len(code)
  /\ prev \in [1 .. Len(code) -> 0 .. Len(code)]
  /\ next \in [1 .. Len(code) -> 0 .. Len(code)]
  /\ inst \in 0 .. Len(code) /\ p \in 0 .. Len(code) /\ cur \in 0 .. Len(code)
  /\ DOMAIN out = 1 .. Len(out)

(* The nodes that hang on the head: all, but for the one just read. *)
Linked == IF pc = "seek" THEN Len(code) - 1 ELSE Len(code)

Instruction(i) == OfTokens(lines[i].tokens)

(***************************************************************************)
(* The list is the lines, in their order, forwards and backwards, however  *)
(* far tac_append has walked; a line is lost only if it stops the program. *)
(***************************************************************************)
ListIsLines ==
  /\ Len(code) = 1 + Len(lines) \/ (cur = 0 /\ pc \in {"aborted", "undefined"})
  /\ \A i \in 1 .. Linked : next[i] = (IF i = Linked THEN 0 ELSE i + 1) /\ prev[i] = i - 1
  /\ \A i \in 2 .. Len(code) : code[i] = Instruction(i - 1)

(***************************************************************************)
(* What has been printed is the translation of the first lines, each once  *)
(* and in order, and of all of them when the program returns.              *)
(***************************************************************************)
OutIsLines ==
  /\ \A i \in 2 .. Len(out) : out[i] = emit(Instruction(i - 1)).text
  /\ pc = "done" => Len(out) = 1 + Len(lines)

(***************************************************************************)
(* The instructions mips32.c translates, or leaves out, without an         *)
(* assertion: operands are variables, one operand of a sum or difference   *)
(* and the source of an assignment may be a literal.  An address is not    *)
(* among them, nor is a variable whose name starts with "label".           *)
(***************************************************************************)
Translatable(c) ==
  LET o          == c[2]
      Variable(i) == o[i][1] = "OP_VARIABLE"
      Literal(i)  == o[i][1] = "OP_CONSTANT"
  IN  CASE c[1] \in {"ADD", "SUB"} ->
             Variable(1) /\ (\/ Variable(2) /\ Variable(3)
                             \/ Variable(2) /\ Literal(3)
                             \/ Literal(2) /\ Variable(3))
        [] c[1] = "ASSIGN" -> Variable(1) /\ (Variable(2) \/ Literal(2))
        [] c[1] \in {"MUL", "DIV", "FETCH", "DEREF", "READ", "WRITE"} ->
             \A i \in DOMAIN o : Variable(i)
        [] OTHER -> c[1] # "ADDR"

(* The back end stops at the first instruction it does not translate. *)
StopsAtTheFirst ==
  /\ pc = "done" => \A i \in DOMAIN lines : Translatable(Instruction(i))
  /\ (pc = "aborted" /\ cur # 0) =>
       /\ ~ Translatable(code[cur])
       /\ \A i \in 2 .. cur - 1 : Translatable(code[i])

(***************************************************************************)
(* What the left side of an assignment has to be for its line to be found  *)
(* again in print: no variable is called like the first word of another    *)
(* line, and what takes an address or a value from memory is a variable    *)
(* (tac_print writes its name without a look at its kind).                 *)
(***************************************************************************)
PlainTargets ==
  \A line \in Lines :
    LET t == line.tokens
    IN  (Len(t) = 3 /\ t[1] \notin Headers) =>
          /\ t[1].rest \in {"LABEL", "FUNCTION", "DEC"} => t[1].pre \in {"#", "&", "*", "label"}
          /\ t[3].pre \in {"*", "&"} => t[1].pre \notin {"#", "&", "label"}

(***************************************************************************)
(* Reading what tac_print writes of an instruction gives the instruction:  *)
(* a list that was printed can be read again.                              *)
(***************************************************************************)
PrintsBack == \A i \in 2 .. Len(code) : OfTokens(tac_print(code[i])) = code[i]

(***************************************************************************)
(* Every walk to the end of the list ends, and so does that of emit_code:  *)
(* the program returns or stops.                                           *)
(***************************************************************************)
Terminates == <>(pc \in {"done", "aborted", "undefined"})

=============================================================================
