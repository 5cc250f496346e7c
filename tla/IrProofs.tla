------------------------------ MODULE IrProofs ------------------------------
(***************************************************************************)
(* Proofs about IrWalk, for every set of lines and every number of them:   *)
(* the list is always the lines read so far, and the output is always the  *)
(* translation of the first of them.                                       *)
(*                                                                         *)
(* The invariant has to say what the properties need not: where tac_append *)
(* is on its way through the list (IAppend), and how much has been printed *)
(* when emit_code is at a node (IEmit).                                    *)
(***************************************************************************)
EXTENDS IrWalk, TLAPS

Instrs == {NONE} \cup {OfTokens(line.tokens) : line \in Lines}

Texts == {Preamble} \cup {emit(c).text : c \in Instrs}

(* The program ended with a line it could not read. *)
Rejected == pc \in {"aborted", "undefined"} /\ cur = 0

Started == pc \in {"emit", "done"} \/ (pc = "aborted" /\ cur # 0)

ITypes ==
  /\ pc \in {"read", "seek", "emit", "done", "aborted", "undefined"}
  /\ lines \in Seq(Lines) /\ Len(lines) <= MaxLines
  /\ code \in Seq(Instrs) /\ Len(code) >= 1
  /\ prev \in Seq(Nat) /\ Len(prev) = Len(code)
  /\ next \in Seq(Nat) /\ Len(next) = Len(code)
  /\ inst \in 0 .. Len(code) /\ p \in 0 .. Len(code) /\ cur \in 0 .. Len(code)
  /\ out \in Seq(Texts)

ICode ==
  /\ Len(code) = IF Rejected THEN Len(lines) ELSE 1 + Len(lines)
  /\ code[1] = NONE
  /\ \A i \in 2 .. Len(code) : /\ code[i] = OfTokens(lines[i - 1].tokens)
                              /\ code[i][1] # "NONE"
                              /\ Outcome(lines[i - 1]) = "read"

IList ==
  \A i \in 1 .. Linked : next[i] = (IF i = Linked THEN 0 ELSE i + 1) /\ prev[i] = i - 1

IAppend ==
  pc = "seek" => /\ Len(code) >= 2 /\ inst = Len(code)
                 /\ next[inst] = 0 /\ prev[inst] = 0
                 /\ p \in 1 .. Len(code) - 1

(* The nodes emit_code is done with. *)
Passed == IF cur = 0 THEN Len(code) ELSE cur - 1

IEmit ==
  /\ ~ Started => cur = 0 /\ out = << >>
  /\ pc = "done" => cur = 0
  /\ Started => /\ Len(out) = IF cur = 1 THEN 1 ELSE Passed
                /\ \A i \in 2 .. Passed : emit(code[i]).ok
  /\ \A i \in 2 .. Len(out) : out[i] = emit(code[i]).text
  /\ (pc = "aborted" /\ cur # 0) => cur >= 2 /\ ~ emit(code[cur]).ok

IInv == ITypes /\ ICode /\ IList /\ IAppend /\ IEmit

-----------------------------------------------------------------------------
LEMMA HeaderIs ==
  ASSUME NEW t1 \in Headers
  PROVE  t1.rest \in {"LABEL", "FUNCTION", "DEC"}
<1>1. Word("LABEL").rest = "LABEL" /\ Word("FUNCTION").rest = "FUNCTION" /\ Word("DEC").rest = "DEC"
  BY DEF Word, Tok
<1> QED
  BY <1>1 DEF Headers

(* No line that is read gives the empty instruction. *)
LEMMA ReadIsSome ==
  ASSUME NEW line \in Lines, Outcome(line) = "read"
  PROVE  OfTokens(line.tokens)[1] # "NONE"
<1> DEFINE t == line.tokens
<1>1. t \in Seq([pre : STRING, rest : STRING, num : Int])
  BY LinesAssumption
<1>2. CASE Len(t) = 2
  <2>1. t[1].rest \in Keywords
    BY <1>2, <1>1 DEF Outcome
  <2> QED
    BY <1>2, <2>1 DEF OfTokens, Keywords
<1>3. CASE Len(t) = 3
  <2>1. CASE t[1] \in Headers
    BY <1>3, <2>1, HeaderIs DEF OfTokens, OfHeader
  <2>2. CASE t[1] \notin Headers
    BY <1>3, <2>2 DEF OfTokens, OfAssignment
  <2> QED
    BY <2>1, <2>2
<1>4. CASE Len(t) = 4
  BY <1>4 DEF OfTokens
<1>5. CASE Len(t) = 5
  <2>1. t[4].rest \in Operators
    BY <1>5, <1>1 DEF Outcome
  <2> QED
    BY <1>5, <2>1 DEF OfTokens, Operators, ArithKind
<1>6. CASE Len(t) \notin {2, 3, 4, 5}
  BY <1>6 DEF OfTokens, IfKind
<1> QED
  BY <1>2, <1>3, <1>4, <1>5, <1>6

LEMMA OutcomeIsKnown ==
  ASSUME NEW line, Outcome(line) # "read"
  PROVE  Outcome(line) \in {"aborted", "undefined"}
BY DEF Outcome

LEMMA Appended ==
  ASSUME NEW S, NEW s \in Seq(S), NEW e
  PROVE  /\ Len(Append(s, e)) = Len(s) + 1 /\ Len(s) \in Nat
         /\ Append(s, e)[Len(s) + 1] = e
         /\ \A i \in 1 .. Len(s) : Append(s, e)[i] = s[i]
         /\ e \in S => Append(s, e) \in Seq(S)
OBVIOUS

(* The lengths are numbers. *)
LEMMA Sizes ==
  ASSUME IInv
  PROVE  /\ Len(code) \in Nat /\ Len(code) >= 1 /\ Len(lines) \in Nat /\ Len(out) \in Nat
         /\ Linked = (IF pc = "seek" THEN Len(code) - 1 ELSE Len(code))
         /\ inst \in Nat /\ p \in Nat /\ cur \in 0 .. Len(code)
         /\ DOMAIN next = 1 .. Len(code) /\ DOMAIN prev = 1 .. Len(code)
BY DEF IInv, ITypes, Linked

LEMMA InitIInv == Init => IInv
<1> SUFFICES ASSUME Init PROVE IInv
  OBVIOUS
<1>1. ITypes
  BY MaxLinesAssumption DEF Init, ITypes, Instrs
<1>2. ICode /\ IList /\ IAppend /\ IEmit
  BY DEF Init, ICode, IList, IAppend, IEmit, Linked, Rejected, Started, Passed
<1> QED
  BY <1>1, <1>2 DEF IInv

LEMMA ReadLineIInv ==
  ASSUME IInv, NEW line \in Lines, ReadLine(line)
  PROVE  IInv'
<1> USE DEF IInv, ReadLine
<1>1. OfTokens(line.tokens) \in Instrs /\ OfTokens(line.tokens)[1] # "NONE"
  BY ReadIsSome DEF Instrs
<1>2. ITypes'
  BY <1>1, MaxLinesAssumption DEF ITypes
<1>3. Len(lines') = Len(lines) + 1 /\ Len(code') = Len(code) + 1 /\ ~ Rejected /\ ~ Rejected'
  BY DEF ITypes, Rejected
<1>4. ICode'
  <2>1. Len(code') = 1 + Len(lines')
    BY <1>3 DEF ICode, ITypes
  <2>2. code'[1] = NONE
    BY DEF ICode, ITypes
  <2>4. Len(code) = 1 + Len(lines) /\ Len(lines) \in Nat
    BY <1>3, Sizes DEF ICode
  <2>5. code \in Seq(Instrs) /\ lines \in Seq(Lines)
    BY DEF ITypes
  <2>6. code' = Append(code, OfTokens(line.tokens)) /\ lines' = Append(lines, line)
    OBVIOUS
  <2>7. ICode
    OBVIOUS
  <2> HIDE DEF IInv, ReadLine
  <2>3. ASSUME NEW i \in 2 .. Len(code')
        PROVE  /\ code'[i] = OfTokens(lines'[i - 1].tokens)
               /\ code'[i][1] # "NONE"
               /\ Outcome(lines'[i - 1]) = "read"
    <3>1. CASE i = Len(code')
      <4>1. i - 1 = Len(lines) + 1 /\ i = Len(code) + 1
        BY <3>1, <2>4, <1>3
      <4>2. lines'[i - 1] = line /\ code'[i] = OfTokens(line.tokens)
        BY <4>1, <2>5, <2>6, Appended
      <4>3. Outcome(line) = "read"
        BY DEF ReadLine
      <4> QED
        BY <4>2, <4>3, <1>1
    <3>2. CASE i # Len(code')
      <4>1. i \in 2 .. Len(code) /\ i - 1 \in 1 .. Len(lines)
        BY <3>2, <2>4, <1>3
      <4>2. lines'[i - 1] = lines[i - 1] /\ code'[i] = code[i]
        BY <4>1, <2>4, <2>5, <2>6, Appended
      <4> QED
        BY <4>1, <4>2, <2>7 DEF ICode
    <3> QED
      BY <3>1, <3>2
  <2> QED
    BY <2>1, <2>2, <2>3, <1>3 DEF ICode
<1>5. IList'
  <2>1. Linked' = Len(code) /\ Linked = Len(code) /\ Len(code) \in Nat
    BY <1>3, Sizes DEF Linked
  <2>2. \A i \in 1 .. Len(code) : next'[i] = next[i] /\ prev'[i] = prev[i]
    BY <2>1, Appended DEF ITypes
  <2>3. IList
    OBVIOUS
  <2> HIDE DEF IInv, ReadLine
  <2> QED
    BY <2>1, <2>2, <2>3 DEF IList
<1>6. IAppend'
  BY <1>3 DEF IAppend, ITypes
<1>7. IEmit'
  BY <1>3 DEF IEmit, ITypes, Started, Passed
<1> QED
  BY <1>2, <1>4, <1>5, <1>6, <1>7

LEMMA RejectLineIInv ==
  ASSUME IInv, NEW line \in Lines, RejectLine(line)
  PROVE  IInv'
<1> USE DEF IInv, RejectLine
<1>1. pc' \in {"aborted", "undefined"} /\ cur' = 0 /\ cur = 0 /\ ~ Started
  BY OutcomeIsKnown DEF IEmit, Started
<1>2. ITypes'
  BY <1>1, MaxLinesAssumption DEF ITypes
<1>3. Rejected' /\ ~ Rejected /\ ~ Started'
  BY <1>1 DEF Rejected, Started
<1>4. ICode'
  <2>1. Len(lines') = Len(lines) + 1 /\ Len(code) = 1 + Len(lines) /\ Len(lines) \in Nat
    BY <1>3, Appended DEF ICode, ITypes
  <2>2. \A i \in 2 .. Len(code) : lines'[i - 1] = lines[i - 1]
    <3> SUFFICES ASSUME NEW i \in 2 .. Len(code) PROVE lines'[i - 1] = lines[i - 1]
      OBVIOUS
    <3>1. i - 1 \in 1 .. Len(lines)
      BY <2>1
    <3> QED
      BY <3>1, Appended DEF ITypes
  <2>3. ICode /\ code' = code
    OBVIOUS
  <2> HIDE DEF IInv, RejectLine
  <2> QED
    BY <1>3, <2>1, <2>2, <2>3 DEF ICode
<1>5. IList' /\ IAppend'
  BY <1>1 DEF IList, IAppend, Linked
<1>6. IEmit'
  BY <1>1, <1>3 DEF IEmit
<1> QED
  BY <1>2, <1>4, <1>5, <1>6

LEMMA tac_appendIInv ==
  ASSUME IInv, tac_append
  PROVE  IInv'
<1> USE DEF IInv, tac_append
<1>1. Linked = Len(code) - 1 /\ p \in 1 .. Linked /\ next[p] = p + 1 /\ p < Linked
  <2>1. Linked = Len(code) - 1 /\ Len(code) \in Nat /\ p \in 1 .. Linked /\ next[p] # 0
    BY Sizes DEF IAppend
  <2>2. next[p] = IF p = Linked THEN 0 ELSE p + 1
    BY <2>1 DEF IList
  <2> QED
    BY <2>1, <2>2
<1>2. ITypes' /\ IAppend'
  BY <1>1 DEF ITypes, IAppend
<1>3. ICode' /\ IList' /\ IEmit'
  BY DEF ICode, IList, IEmit, Rejected, Started, Passed, Linked
<1> QED
  BY <1>2, <1>3

LEMMA tac_insertIInv ==
  ASSUME IInv, tac_insert
  PROVE  IInv'
<1> USE DEF IInv, tac_insert
<1>1. Linked = Len(code) - 1 /\ p = Linked /\ inst = Len(code) /\ Linked' = Len(code) /\ p # inst
  <2>1. /\ Linked = Len(code) - 1 /\ Len(code) \in Nat /\ inst = Len(code)
        /\ p \in 1 .. Linked /\ next[p] = 0
    BY Sizes DEF IAppend
  <2>2. next[p] = IF p = Linked THEN 0 ELSE p + 1
    BY <2>1 DEF IList
  <2>3. Linked' = Len(code)
    BY DEF Linked
  <2> QED
    BY <2>1, <2>2, <2>3
<1>2. p \in DOMAIN next /\ inst \in DOMAIN next /\ inst \in DOMAIN prev
  BY <1>1 DEF ITypes, IAppend
<1>3. \A i \in 1 .. Len(code) : next'[i] = IF i = p THEN inst ELSE IF i = inst THEN 0 ELSE next[i]
  BY <1>1, <1>2 DEF ITypes
<1>4. \A i \in 1 .. Len(code) : prev'[i] = IF i = inst THEN p ELSE prev[i]
  BY <1>1, <1>2 DEF ITypes
<1>5. next' \in Seq(Nat) /\ Len(next') = Len(code)
  BY <1>1, <1>2 DEF ITypes
<1>6. prev' \in Seq(Nat) /\ Len(prev') = Len(code)
  <2>1. DOMAIN prev = 1 .. Len(code) /\ Len(code) \in Nat
    BY DEF ITypes
  <2>2. prev' = [i \in 1 .. Len(code) |-> CASE i = inst -> p [] i = next[p] -> inst [] OTHER -> prev[i]]
    BY <2>1
  <2>3. \A i \in 1 .. Len(code) : prev'[i] \in Nat
    BY <1>4, <2>1 DEF ITypes
  <2>4. prev' \in [1 .. Len(code) -> Nat]
    BY <2>2, <2>3
  <2> QED
    BY <2>1, <2>4, <2>2
<1>7. ITypes' /\ IAppend'
  BY <1>5, <1>6 DEF ITypes, IAppend
<1>8. IList'
  <2>0. IList
    OBVIOUS
  <2>1. Len(code) \in Nat
    BY Sizes
  <2> HIDE DEF IInv, tac_insert
  <2> SUFFICES ASSUME NEW i \in 1 .. Len(code)
               PROVE  next'[i] = (IF i = Len(code) THEN 0 ELSE i + 1) /\ prev'[i] = i - 1
    BY <1>1 DEF IList
  <2>2. CASE i = inst
    BY <2>2, <2>1, <1>1, <1>3, <1>4
  <2>3. CASE i # inst
    <3>1. i \in 1 .. Linked /\ i # Len(code)
      BY <2>1, <2>3, <1>1
    <3>2. next[i] = (IF i = Linked THEN 0 ELSE i + 1) /\ prev[i] = i - 1
      BY <3>1, <2>0 DEF IList
    <3>3. next'[i] = (IF i = p THEN inst ELSE next[i]) /\ prev'[i] = prev[i]
      BY <2>3, <1>3, <1>4
    <3>4. inst = p + 1
      BY <2>1, <1>1
    <3> QED
      BY <3>1, <3>2, <3>3, <3>4, <1>1
  <2> QED
    BY <2>2, <2>3
<1>9. ICode' /\ IEmit'
  BY DEF ICode, IEmit, Rejected, Started, Passed
<1> QED
  BY <1>7, <1>8, <1>9

LEMMA EndOfBufferIInv ==
  ASSUME IInv, EndOfBuffer
  PROVE  IInv'
<1> USE DEF IInv, EndOfBuffer
<1>1. ITypes'
  BY DEF ITypes, Texts
<1>2. ICode' /\ IList' /\ IAppend'
  BY DEF ICode, IList, IAppend, Rejected, Linked
<1>3. IEmit'
  BY DEF IEmit, Started, Passed, ITypes
<1> QED
  BY <1>1, <1>2, <1>3

(* From a node the walk goes to the one with the next number, or ends. *)
LEMMA Following ==
  ASSUME IInv, pc = "emit", cur # 0
  PROVE  /\ cur \in 1 .. Len(code)
         /\ next[cur] = IF cur = Len(code) THEN 0 ELSE cur + 1
         /\ code[cur][1] = "NONE" <=> cur = 1
<1>1. cur \in 1 .. Len(code) /\ Len(code) \in Nat
  BY DEF IInv, ITypes
<1>2. next[cur] = IF cur = Len(code) THEN 0 ELSE cur + 1
  BY <1>1 DEF IInv, IList, Linked
<1>3. code[1][1] = "NONE"
  BY DEF IInv, ICode, NONE
<1>4. cur # 1 => code[cur][1] # "NONE"
  BY <1>1 DEF IInv, ICode
<1> QED
  BY <1>1, <1>2, <1>3, <1>4

LEMMA SkipNoneIInv ==
  ASSUME IInv, SkipNone
  PROVE  IInv'
<1> USE DEF IInv, SkipNone
<1>0. Len(code) \in Nat /\ Len(code) >= 1
  BY DEF ITypes
<1>1. cur = 1 /\ cur' = IF Len(code) = 1 THEN 0 ELSE 2
  BY Following
<1>2. ITypes'
  <2> HIDE DEF IInv, SkipNone
  <2>1. cur' \in 0 .. Len(code)
    <3>1. CASE Len(code) = 1
      BY <3>1, <1>1
    <3>2. CASE Len(code) # 1
      <4>1. cur' = 2
        BY <3>2, <1>1
      <4>2. Len(code) >= 2
        BY <3>2, <1>0
      <4> QED
        BY <4>1, <4>2, <1>0
    <3> QED
      BY <3>1, <3>2
  <2> QED
    BY <2>1 DEF IInv, SkipNone, ITypes
<1>3. ICode' /\ IList' /\ IAppend'
  BY DEF ICode, IList, IAppend, Rejected, Linked
<1>4. IEmit'
  <2>1. Len(out) = 1 /\ Started /\ Started'
    BY <1>1 DEF IEmit, Started
  <2>2. Passed' = 1
    BY <1>1 DEF Passed
  <2> QED
    BY <1>1, <2>1, <2>2 DEF IEmit
<1> QED
  BY <1>2, <1>3, <1>4

LEMMA EmitCodeIInv ==
  ASSUME IInv, EmitCode
  PROVE  IInv'
<1> USE DEF IInv, EmitCode
<1>1. cur \in 2 .. Len(code) /\ cur' = IF cur = Len(code) THEN 0 ELSE cur + 1
  BY Following DEF ITypes
<1>2. code[cur] \in Instrs /\ emit(code[cur]).text \in Texts
  BY <1>1 DEF ITypes, Texts
<1>3. ITypes'
  BY <1>1, <1>2 DEF ITypes
<1>4. ICode' /\ IList' /\ IAppend'
  BY DEF ICode, IList, IAppend, Rejected, Linked
<1>5. Len(out) = cur - 1 /\ Len(out') = cur /\ Passed' = cur /\ Passed = cur - 1
  <2>1. Len(code) \in Nat /\ cur \in Nat /\ cur # 0 /\ cur # 1
    BY <1>1 DEF ITypes
  <2>2. Passed = cur - 1 /\ Len(out) = cur - 1
    BY <2>1 DEF IEmit, Started, Passed
  <2>3. Len(out') = Len(out) + 1
    BY <1>2 DEF ITypes
  <2>4. Passed' = cur
    BY <1>1, <2>1 DEF Passed
  <2> QED
    BY <2>1, <2>2, <2>3, <2>4
<1>6. \A i \in 2 .. Len(out') : out'[i] = emit(code'[i]).text
  <2>1. Len(out) \in Nat /\ Len(out) + 1 = cur /\ Len(out') = cur /\ code' = code
    BY <1>1, <1>5, Sizes
  <2>2. out'[cur] = emit(code[cur]).text /\ \A i \in 1 .. Len(out) : out'[i] = out[i]
    BY <2>1, Appended DEF ITypes
  <2>3. \A i \in 2 .. Len(out) : out[i] = emit(code[i]).text
    BY DEF IEmit
  <2> HIDE DEF IInv, EmitCode
  <2> QED
    BY <2>1, <2>2, <2>3
<1>7. \A i \in 2 .. Passed' : emit(code'[i]).ok
  BY <1>1, <1>5 DEF IEmit, Started
<1>8. IEmit'
  BY <1>1, <1>5, <1>6, <1>7 DEF IEmit, Started
<1> QED
  BY <1>3, <1>4, <1>8

LEMMA FailAssertionIInv ==
  ASSUME IInv, FailAssertion
  PROVE  IInv'
<1> USE DEF IInv, FailAssertion
<1>1. cur \in 2 .. Len(code)
  BY Following DEF ITypes
<1>2. ITypes'
  BY DEF ITypes
<1>3. ICode' /\ IList' /\ IAppend'
  BY <1>1 DEF ICode, IList, IAppend, Rejected, Linked
<1>4. IEmit'
  BY <1>1 DEF IEmit, Started, Passed, ITypes
<1> QED
  BY <1>2, <1>3, <1>4

LEMMA ReturnIInv ==
  ASSUME IInv, Return
  PROVE  IInv'
<1> USE DEF IInv, Return
<1>1. ITypes'
  BY DEF ITypes
<1>2. ICode' /\ IList' /\ IAppend'
  BY DEF ICode, IList, IAppend, Rejected, Linked
<1>3. IEmit'
  BY DEF IEmit, Started, Passed
<1> QED
  BY <1>1, <1>2, <1>3

LEMMA StutterIInv ==
  ASSUME IInv, UNCHANGED vars
  PROVE  IInv'
BY DEF IInv, vars, ITypes, ICode, IList, IAppend, IEmit, Rejected, Started, Passed,
       Linked

LEMMA NextIInv == IInv /\ [Next]_vars => IInv'
<1> SUFFICES ASSUME IInv, [Next]_vars PROVE IInv'
  OBVIOUS
<1>1. ASSUME NEW line \in Lines, ReadLine(line) PROVE IInv'
  BY <1>1, ReadLineIInv
<1>2. ASSUME NEW line \in Lines, RejectLine(line) PROVE IInv'
  BY <1>2, RejectLineIInv
<1>3. CASE tac_append
  BY <1>3, tac_appendIInv
<1>4. CASE tac_insert
  BY <1>4, tac_insertIInv
<1>5. CASE EndOfBuffer
  BY <1>5, EndOfBufferIInv
<1>6. CASE SkipNone
  BY <1>6, SkipNoneIInv
<1>7. CASE EmitCode
  BY <1>7, EmitCodeIInv
<1>8. CASE FailAssertion
  BY <1>8, FailAssertionIInv
<1>9. CASE Return
  BY <1>9, ReturnIInv
<1>10. CASE UNCHANGED vars
  BY <1>10, StutterIInv
<1> QED
  BY <1>1, <1>2, <1>3, <1>4, <1>5, <1>6, <1>7, <1>8, <1>9, <1>10 DEF Next

LEMMA IInvAlways == Spec => []IInv
BY InitIInv, NextIInv, PTL DEF Spec

-----------------------------------------------------------------------------
(* The table of emitters is in the order of the kinds. *)
LEMMA EntryIsKind ==
  ASSUME NEW j \in DOMAIN Kinds
  PROVE  emitter[CHOOSE k \in DOMAIN Kinds : Kinds[k] = Kinds[j]] = Kinds[j]
<1>1. emitter = Kinds
  BY DEF emitter, Kinds
<1>2. Kinds[CHOOSE k \in DOMAIN Kinds : Kinds[k] = Kinds[j]] = Kinds[j]
  OBVIOUS
<1> QED
  BY <1>1, <1>2

LEMMA KindsAre ==
  /\ DOMAIN Kinds = 1 .. 24
  /\ Kinds[1] = "LABEL" /\ Kinds[2] = "FUNCTION" /\ Kinds[3] = "ASSIGN"
  /\ Kinds[4] = "ADD" /\ Kinds[5] = "SUB" /\ Kinds[6] = "MUL" /\ Kinds[7] = "DIV"
  /\ Kinds[8] = "ADDR" /\ Kinds[9] = "FETCH" /\ Kinds[10] = "DEREF" /\ Kinds[11] = "GOTO"
  /\ Kinds[12] = "IFLT" /\ Kinds[13] = "IFLE" /\ Kinds[14] = "IFGT" /\ Kinds[15] = "IFGE"
  /\ Kinds[16] = "IFNE" /\ Kinds[17] = "IFEQ" /\ Kinds[18] = "RETURN" /\ Kinds[19] = "DEC"
  /\ Kinds[20] = "ARG" /\ Kinds[21] = "CALL" /\ Kinds[22] = "PARAM" /\ Kinds[23] = "READ"
  /\ Kinds[24] = "WRITE"
BY DEF Kinds

AllKinds ==
  {"LABEL", "FUNCTION", "ASSIGN", "ADD", "SUB", "MUL", "DIV", "ADDR", "FETCH", "DEREF",
   "GOTO", "IFLT", "IFLE", "IFGT", "IFGE", "IFNE", "IFEQ", "RETURN", "DEC", "ARG",
   "CALL", "PARAM", "READ", "WRITE"}

LEMMA Entry ==
  ASSUME NEW kind \in AllKinds
  PROVE  emitter[CHOOSE k \in DOMAIN Kinds : Kinds[k] = kind] = kind
<1>1. \E j \in DOMAIN Kinds : Kinds[j] = kind
  BY KindsAre DEF AllKinds
<1> QED
  BY <1>1, EntryIsKind

(***************************************************************************)
(* What the emitters assert is what Translatable says, for an instruction  *)
(* whose operands are pairs of a kind and a value.                         *)
(***************************************************************************)
LEMMA OkIsTranslatable ==
  ASSUME NEW kind \in AllKinds, NEW o, kind = "ADDR" => o[2][1] # "OP_VARIABLE",
         kind \in {"MUL", "DIV"} => DOMAIN o = 1 .. 3,
         kind \in {"FETCH", "DEREF"} => DOMAIN o = 1 .. 2,
         kind \in {"READ", "WRITE"} => DOMAIN o = 1 .. 1
  PROVE  emit(<<kind, o>>).ok <=> Translatable(<<kind, o>>)
<1> DEFINE c == <<kind, o>>
<1>1. emitter[CHOOSE k \in DOMAIN Kinds : Kinds[k] = c[1]] = kind
  BY Entry
<1>2. CASE kind \in {"ADD", "SUB"}
  BY <1>1, <1>2 DEF emit, Translatable, emit_add, emit_sub, Emits, IsConstant
<1>3. CASE kind = "ASSIGN"
  BY <1>1, <1>3 DEF emit, Translatable, emit_assign, Emits, IsConstant
<1>4. CASE kind \in {"MUL", "DIV"}
  <2>1. emit(c).ok <=> o[1][1] = "OP_VARIABLE" /\ o[2][1] = "OP_VARIABLE" /\ o[3][1] = "OP_VARIABLE"
    BY <1>1, <1>4 DEF emit, emit_mul, emit_div, Emits
  <2>2. Translatable(c) <=> \A i \in 1 .. 3 : o[i][1] = "OP_VARIABLE"
    BY <1>4 DEF Translatable
  <2> QED
    BY <2>1, <2>2
<1>5. CASE kind \in {"FETCH", "DEREF"}
  <2>1. emit(c).ok <=> o[1][1] = "OP_VARIABLE" /\ o[2][1] = "OP_VARIABLE"
    BY <1>1, <1>5 DEF emit, emit_fetch, emit_deref, Emits
  <2>2. Translatable(c) <=> \A i \in 1 .. 2 : o[i][1] = "OP_VARIABLE"
    BY <1>5 DEF Translatable
  <2> QED
    BY <2>1, <2>2
<1>6. CASE kind \in {"READ", "WRITE"}
  <2>1. emit(c).ok <=> o[1][1] = "OP_VARIABLE"
    BY <1>1, <1>6 DEF emit, emit_read, emit_write, Emits
  <2>2. Translatable(c) <=> \A i \in 1 .. 1 : o[i][1] = "OP_VARIABLE"
    BY <1>6 DEF Translatable
  <2> QED
    BY <2>1, <2>2
<1>7. CASE kind = "ADDR"
  BY <1>1, <1>7 DEF emit, Translatable, emit_addr, Emits
<1>8. CASE kind \notin {"ADD", "SUB", "ASSIGN", "MUL", "DIV", "FETCH", "DEREF", "READ",
                       "WRITE", "ADDR"}
  BY <1>1, <1>8 DEF emit, Translatable, emit_label, emit_function, emit_goto, Emits, AllKinds
<1> QED
  BY <1>2, <1>3, <1>4, <1>5, <1>6, <1>7, <1>8 DEF AllKinds

(* The same of an instruction that was read. *)
LEMMA ReadOkIsTranslatable ==
  ASSUME NEW line \in Lines, Outcome(line) = "read"
  PROVE  emit(OfTokens(line.tokens)).ok <=> Translatable(OfTokens(line.tokens))
<1> DEFINE t == line.tokens
<1>1. t \in Seq([pre : STRING, rest : STRING, num : Int])
  BY LinesAssumption
<1>2. CASE Len(t) = 2
  <2>1. t[1].rest \in Keywords
    BY <1>2, <1>1 DEF Outcome
  <2>2. OfTokens(t) = <<t[1].rest, <<_tac_opd_from_str(t[2])>>>>
    BY <1>2 DEF OfTokens
  <2> QED
    BY <2>1, <2>2, OkIsTranslatable DEF Keywords, AllKinds
<1>3. CASE Len(t) = 3
  <2>1. CASE t[1] \in Headers
    <3>1. OfTokens(t) = OfHeader(t[1], t[2], t[3])
      BY <1>3, <2>1 DEF OfTokens
    <3>2. t[1].rest \in {"LABEL", "FUNCTION", "DEC"}
      BY <2>1, HeaderIs
    <3>3. CASE t[1].rest = "LABEL"
      <4>1. OfTokens(t) = <<"LABEL", <<_tac_opd_from_str(t[2])>>>>
        BY <3>1, <3>3 DEF OfHeader
      <4> QED
        BY <4>1, OkIsTranslatable DEF AllKinds
    <3>4. CASE t[1].rest = "FUNCTION"
      <4>1. OfTokens(t) = <<"FUNCTION", <<FuncName(t[2].rest)>>>>
        BY <3>1, <3>4 DEF OfHeader
      <4> QED
        BY <4>1, OkIsTranslatable DEF AllKinds
    <3>5. CASE t[1].rest = "DEC"
      <4>1. OfTokens(t) = <<"DEC", <<tac_opd_pointer(t[2].rest), Bytes(t[3].num)>>>>
        BY <3>1, <3>5 DEF OfHeader
      <4> QED
        BY <4>1, OkIsTranslatable DEF AllKinds
    <3> QED
      BY <3>2, <3>3, <3>4, <3>5
  <2>2. CASE t[1] \notin Headers
    <3>1. OfTokens(t) = OfAssignment(t[1], t[3])
      BY <1>3, <2>2 DEF OfTokens
    <3>2. CASE t[1].pre = "*"
      <4>1. OfTokens(t) = <<"DEREF", <<tac_opd_variable(t[1].rest), _tac_opd_from_str(t[3])>>>>
        BY <3>1, <3>2 DEF OfAssignment
      <4> QED
        BY <4>1, OkIsTranslatable DEF AllKinds
    <3>3. CASE t[1].pre # "*" /\ t[3].pre = "*"
      <4>1. OfTokens(t) = <<"FETCH", <<_tac_opd_from_str(t[1]), tac_opd_variable(t[3].rest)>>>>
        BY <3>1, <3>3 DEF OfAssignment
      <4> QED
        BY <4>1, OkIsTranslatable DEF AllKinds
    <3>4. CASE t[1].pre # "*" /\ t[3].pre = "&"
      <4>1. OfTokens(t) = <<"ADDR", <<_tac_opd_from_str(t[1]), _tac_opd_from_str(t[3])>>>>
        BY <3>1, <3>4 DEF OfAssignment
      <4>2. _tac_opd_from_str(t[3])[1] # "OP_VARIABLE"
        BY <3>4 DEF _tac_opd_from_str, tac_opd_pointer
      <4> QED
        BY <4>1, <4>2, OkIsTranslatable DEF AllKinds
    <3>5. CASE t[1].pre # "*" /\ t[3].pre \notin {"*", "&"}
      <4>1. OfTokens(t) = <<"ASSIGN", <<_tac_opd_from_str(t[1]), _tac_opd_from_str(t[3])>>>>
        BY <3>1, <3>5 DEF OfAssignment
      <4> QED
        BY <4>1, OkIsTranslatable DEF AllKinds
    <3> QED
      BY <3>2, <3>3, <3>4, <3>5
  <2> QED
    BY <2>1, <2>2
<1>4. CASE Len(t) = 4
  <2>1. OfTokens(t) = <<"CALL", <<_tac_opd_from_str(t[1]), FuncName(t[4].rest)>>>>
    BY <1>4 DEF OfTokens
  <2> QED
    BY <2>1, OkIsTranslatable DEF AllKinds
<1>5. CASE Len(t) = 5
  <2>1. t[4].rest \in Operators
    BY <1>5, <1>1 DEF Outcome
  <2>2. ArithKind(t[4].rest) \in {"ADD", "SUB", "MUL", "DIV"}
    BY <2>1 DEF Operators, ArithKind
  <2>3. OfTokens(t) = <<ArithKind(t[4].rest),
                        <<_tac_opd_from_str(t[1]), _tac_opd_from_str(t[3]), _tac_opd_from_str(t[5])>>>>
    BY <1>5 DEF OfTokens
  <2> QED
    BY <2>2, <2>3, OkIsTranslatable DEF AllKinds
<1>6. CASE Len(t) \notin {2, 3, 4, 5}
  <2>1. IfKind(t[3].rest) \in {"IFLT", "IFLE", "IFGT", "IFGE", "IFNE", "IFEQ"}
    BY DEF IfKind
  <2>2. OfTokens(t) = <<IfKind(t[3].rest),
                        <<_tac_opd_from_str(t[2]), _tac_opd_from_str(t[4]), _tac_opd_from_str(t[6])>>>>
    BY <1>6 DEF OfTokens
  <2> QED
    BY <2>1, <2>2, OkIsTranslatable DEF AllKinds
<1> QED
  BY <1>2, <1>3, <1>4, <1>5, <1>6

-----------------------------------------------------------------------------
(* The state is always of its type: nodes point at nodes. *)
THEOREM TypesAlways == Spec => []TypeOK
<1>1. IInv => TypeOK
  <2> SUFFICES ASSUME IInv PROVE TypeOK
    OBVIOUS
  <2>1. ITypes /\ Len(code) \in Nat /\ DOMAIN code = 1 .. Len(code)
    BY DEF IInv, ITypes
  <2>2. ASSUME NEW i \in 1 .. Len(code)
        PROVE  next[i] \in 0 .. Len(code) /\ prev[i] \in 0 .. Len(code)
    <3>1. CASE i \in 1 .. Linked
      <4>1. next[i] = (IF i = Linked THEN 0 ELSE i + 1) /\ prev[i] = i - 1
        BY <3>1 DEF IInv, IList
      <4>2. Linked = Len(code) - 1 \/ Linked = Len(code)
        BY DEF Linked
      <4>3. Linked \in Nat /\ i \in Nat /\ i <= Linked /\ Linked <= Len(code) /\ i >= 1
        <5>1. Linked \in Int
          BY <4>2, <2>1
        <5>2. i \in Int /\ 1 <= i /\ i <= Linked
          BY <3>1, <5>1
        <5>3. Linked <= Len(code)
          <6>1. CASE Linked = Len(code) - 1
            BY <6>1, <2>1
          <6>2. CASE Linked = Len(code)
            BY <6>2, <2>1
          <6> QED
            BY <4>2, <6>1, <6>2
        <5>4. Linked >= 1
          BY <5>1, <5>2
        <5> QED
          BY <5>1, <5>2, <5>3, <5>4
      <4>4. next[i] \in 0 .. Len(code)
        BY <4>1, <4>3, <2>1
      <4> QED
        BY <4>1, <4>3, <4>4, <2>1
    <3>2. CASE i \notin 1 .. Linked
      BY <3>2, <2>1 DEF IInv, IAppend, Linked
    <3> QED
      BY <3>1, <3>2
  <2>3. next \in [1 .. Len(code) -> 0 .. Len(code)] /\ prev \in [1 .. Len(code) -> 0 .. Len(code)]
    <3>1. next \in [1 .. Len(code) -> Nat] /\ prev \in [1 .. Len(code) -> Nat]
      BY <2>1 DEF ITypes
    <3> QED
      BY <2>2, <3>1
  <2> QED
    BY <2>1, <2>3 DEF TypeOK, ITypes
<1> QED
  BY <1>1, IInvAlways, PTL

(* The list is always the lines read so far, in both directions. *)
THEOREM ListIsLinesAlways == Spec => []ListIsLines
<1>1. IInv => ListIsLines
  BY DEF IInv, ITypes, ICode, IList, Rejected, Instruction, Linked, ListIsLines
<1> QED
  BY <1>1, IInvAlways, PTL

(* The output is always the translation of the first lines, in order. *)
THEOREM OutIsLinesAlways == Spec => []OutIsLines
<1>1. IInv => OutIsLines
  <2> SUFFICES ASSUME IInv PROVE OutIsLines
    OBVIOUS
  <2>1. Len(code) \in Nat /\ Len(code) >= 1 /\ cur \in 0 .. Len(code)
    BY DEF IInv, ITypes
  <2>2. Len(out) <= Len(code)
    <3>1. CASE Started
      BY <3>1, <2>1 DEF IInv, IEmit, Passed
    <3>2. CASE ~ Started
      BY <3>2, <2>1 DEF IInv, IEmit
    <3> QED
      BY <3>1, <3>2
  <2>3. \A i \in 2 .. Len(out) : out[i] = emit(Instruction(i - 1)).text
    <3> SUFFICES ASSUME NEW i \in 2 .. Len(out) PROVE out[i] = emit(Instruction(i - 1)).text
      OBVIOUS
    <3>1. Len(out) \in Nat
      BY DEF IInv, ITypes
    <3>2. i \in 2 .. Len(code)
      BY <3>1, <2>1, <2>2
    <3>3. code[i] = OfTokens(lines[i - 1].tokens)
      BY <3>2 DEF IInv, ICode
    <3> QED
      BY <3>3 DEF IInv, IEmit, Instruction
  <2>4. pc = "done" => Len(out) = 1 + Len(lines)
    BY <2>1 DEF IInv, IEmit, Started, Passed, ICode, Rejected
  <2> QED
    BY <2>3, <2>4 DEF OutIsLines
<1> QED
  BY <1>1, IInvAlways, PTL

(* The back end stops at the first line it does not translate, no other. *)
THEOREM StopsAtTheFirstAlways == Spec => []StopsAtTheFirst
<1>1. IInv => StopsAtTheFirst
  <2> SUFFICES ASSUME IInv PROVE StopsAtTheFirst
    OBVIOUS
  <2>1. Len(code) \in Nat /\ Len(code) >= 1 /\ cur \in 0 .. Len(code) /\ Len(lines) \in Nat
    BY DEF IInv, ITypes
  <2>2. ASSUME NEW i \in 2 .. Len(code)
        PROVE  /\ code[i] = Instruction(i - 1)
               /\ emit(code[i]).ok <=> Translatable(code[i])
    <3>1. code[i] = OfTokens(lines[i - 1].tokens) /\ Outcome(lines[i - 1]) = "read"
      BY DEF IInv, ICode
    <3>2. i - 1 \in 1 .. Len(lines)
      BY <2>1 DEF IInv, ICode
    <3>3. lines[i - 1] \in Lines
      <4>1. lines \in Seq(Lines)
        BY DEF IInv, ITypes
      <4> QED
        BY <3>2, <4>1
    <3> QED
      BY <3>1, <3>3, ReadOkIsTranslatable DEF Instruction
  <2>3. ASSUME pc = "done", NEW i \in DOMAIN lines
        PROVE  Translatable(Instruction(i))
    <3>1. Passed = Len(code) /\ Len(code) = 1 + Len(lines) /\ Started
      BY <2>3, <2>1 DEF IInv, IEmit, ICode, Passed, Started, Rejected
    <3>2. i \in 1 .. Len(lines)
      BY DEF IInv, ITypes
    <3>3. i + 1 \in 2 .. Len(code) /\ (i + 1) - 1 = i
      BY <3>1, <3>2, <2>1
    <3>4. emit(code[i + 1]).ok
      BY <3>1, <3>3 DEF IInv, IEmit
    <3> QED
      BY <3>3, <3>4, <2>2
  <2>4. ASSUME pc = "aborted", cur # 0
        PROVE  /\ ~ Translatable(code[cur])
               /\ \A i \in 2 .. cur - 1 : Translatable(code[i])
    <3>1. Started /\ Passed = cur - 1 /\ cur >= 2 /\ ~ emit(code[cur]).ok
      BY <2>4, <2>1 DEF IInv, IEmit, Passed, Started
    <3>2. cur \in 2 .. Len(code) /\ \A i \in 2 .. cur - 1 : i \in 2 .. Len(code)
      BY <3>1, <2>1
    <3>3. \A i \in 2 .. cur - 1 : emit(code[i]).ok
      BY <3>1 DEF IInv, IEmit
    <3> QED
      BY <3>1, <3>2, <3>3, <2>2
  <2> QED
    BY <2>3, <2>4 DEF StopsAtTheFirst
<1> QED
  BY <1>1, IInvAlways, PTL

-----------------------------------------------------------------------------
(* The three fields of a token, and the parts of an operand. *)
LEMMA Parts ==
  /\ \A pre, rest, num : /\ Tok(pre, rest, num).pre = pre
                          /\ Tok(pre, rest, num).rest = rest
                          /\ Tok(pre, rest, num).num = num
  /\ \A text : Word(text).pre = "" /\ Word(text).rest = text /\ Word(text).num = 0
BY DEF Tok, Word

(* What a token is read as, by its mark. *)
LEMMA OperandOf ==
  ASSUME NEW tk
  PROVE  /\ tk.pre = "#" => _tac_opd_from_str(tk) = <<"OP_CONSTANT", tk.num>>
         /\ tk.pre = "&" => _tac_opd_from_str(tk) = <<"OP_POINTER", tk.rest>>
         /\ tk.pre = "label" => _tac_opd_from_str(tk) = <<"OP_LABEL", tk.num>>
         /\ tk.pre \notin {"#", "&", "label"} => _tac_opd_from_str(tk) = <<"OP_VARIABLE", tk.rest>>
BY DEF _tac_opd_from_str, tac_opd_constant, tac_opd_pointer, tac_opd_label, tac_opd_variable

(* What an operand is printed as, by its kind. *)
LEMMA PrintOf ==
  ASSUME NEW o
  PROVE  /\ o[1] = "OP_CONSTANT" => tac_opd_print(o) = Tok("#", "", o[2])
         /\ o[1] = "OP_POINTER" => tac_opd_print(o) = Tok("&", o[2], 0)
         /\ o[1] = "OP_LABEL" => tac_opd_print(o) = Tok("label", "", o[2])
         /\ o[1] = "OP_VARIABLE" => tac_opd_print(o) = Word(o[2])
BY DEF tac_opd_print

(* q is the print of the operand that tk is read as, and is read as it again. *)
Back(tk, o, q) ==
  /\ o = _tac_opd_from_str(tk)
  /\ q = tac_opd_print(o)
  /\ _tac_opd_from_str(q) = o
  /\ q.pre = IF tk.pre \in {"#", "&", "label"} THEN tk.pre ELSE ""
  /\ q.pre = "" => q.rest = tk.rest

LEMMA OperandBack ==
  ASSUME NEW tk
  PROVE  \E o, q : Back(tk, o, q)
<1>1. PICK o : o = _tac_opd_from_str(tk)
  OBVIOUS
<1>2. PICK q : q = tac_opd_print(o)
  OBVIOUS
<1>3. CASE tk.pre = "#"
  <2>1. o = <<"OP_CONSTANT", tk.num>>
    BY <1>1, <1>3, OperandOf
  <2>2. q = Tok("#", "", tk.num)
    <3>1. o[1] = "OP_CONSTANT" /\ o[2] = tk.num
      BY <2>1
    <3> QED
      BY <1>2, <3>1, PrintOf
  <2>3. q.pre = "#" /\ q.num = tk.num
    BY <2>2 DEF Tok, Word
  <2>4. _tac_opd_from_str(q) = o
    BY <2>1, <2>3, OperandOf
  <2> QED
    BY <1>1, <1>2, <1>3, <2>3, <2>4 DEF Back
<1>4. CASE tk.pre = "&"
  <2>1. o = <<"OP_POINTER", tk.rest>>
    BY <1>1, <1>4, OperandOf
  <2>2. q = Tok("&", tk.rest, 0)
    <3>1. o[1] = "OP_POINTER" /\ o[2] = tk.rest
      BY <2>1
    <3> QED
      BY <1>2, <3>1, PrintOf
  <2>3. q.pre = "&" /\ q.rest = tk.rest
    BY <2>2 DEF Tok, Word
  <2>4. _tac_opd_from_str(q) = o
    BY <2>1, <2>3, OperandOf
  <2> QED
    BY <1>1, <1>2, <1>4, <2>3, <2>4 DEF Back
<1>5. CASE tk.pre = "label"
  <2>1. o = <<"OP_LABEL", tk.num>>
    BY <1>1, <1>5, OperandOf
  <2>2. q = Tok("label", "", tk.num)
    <3>1. o[1] = "OP_LABEL" /\ o[2] = tk.num
      BY <2>1
    <3> QED
      BY <1>2, <3>1, PrintOf
  <2>3. q.pre = "label" /\ q.num = tk.num
    BY <2>2 DEF Tok, Word
  <2>4. _tac_opd_from_str(q) = o
    BY <2>1, <2>3, OperandOf
  <2> QED
    BY <1>1, <1>2, <1>5, <2>3, <2>4 DEF Back
<1>6. CASE tk.pre \notin {"#", "&", "label"}
  <2>1. o = <<"OP_VARIABLE", tk.rest>>
    BY <1>1, <1>6, OperandOf
  <2>2. q = Word(tk.rest)
    <3>1. o[1] = "OP_VARIABLE" /\ o[2] = tk.rest
      BY <2>1
    <3> QED
      BY <1>2, <3>1, PrintOf
  <2>3. q.pre = "" /\ q.rest = tk.rest
    BY <2>2 DEF Tok, Word
  <2>4. _tac_opd_from_str(q) = o
    BY <2>1, <2>3, OperandOf
  <2> QED
    BY <1>1, <1>2, <1>6, <2>3, <2>4 DEF Back
<1> QED
  BY <1>3, <1>4, <1>5, <1>6

(* The instruction of a line, by the number of its tokens. *)
LEMMA ReadCases ==
  ASSUME NEW t
  PROVE  /\ Len(t) = 2 => OfTokens(t) = <<t[1].rest, <<_tac_opd_from_str(t[2])>>>>
         /\ Len(t) = 3 /\ t[1] \in Headers => OfTokens(t) = OfHeader(t[1], t[2], t[3])
         /\ Len(t) = 3 /\ t[1] \notin Headers => OfTokens(t) = OfAssignment(t[1], t[3])
         /\ Len(t) = 4 => OfTokens(t) = <<"CALL", <<_tac_opd_from_str(t[1]), <<"NAME", t[4].rest>>>>>>
         /\ Len(t) = 5 => OfTokens(t) = <<ArithKind(t[4].rest), <<_tac_opd_from_str(t[1]),
                                          _tac_opd_from_str(t[3]), _tac_opd_from_str(t[5])>>>>
         /\ Len(t) \notin {2, 3, 4, 5} =>
              OfTokens(t) = <<IfKind(t[3].rest), <<_tac_opd_from_str(t[2]),
                              _tac_opd_from_str(t[4]), _tac_opd_from_str(t[6])>>>>
BY DEF OfTokens, FuncName

(* The line of an instruction, by its kind. *)
LEMMA PrintCases ==
  ASSUME NEW c
  PROVE  /\ c[1] = "LABEL" => tac_print(c) = <<Word("LABEL"), tac_opd_print(c[2][1]), Word(":")>>
         /\ c[1] = "FUNCTION" => tac_print(c) = <<Word("FUNCTION"), Word(c[2][1][2]), Word(":")>>
         /\ c[1] = "DEC" =>
                tac_print(c) = <<Word("DEC"), Word(c[2][1][2]), Tok("", "", c[2][2][2])>>
         /\ c[1] = "DEREF" =>
                tac_print(c) = <<Tok("*", c[2][1][2], 0), Word(":="), tac_opd_print(c[2][2])>>
         /\ c[1] = "FETCH" =>
                tac_print(c) = <<Word(c[2][1][2]), Word(":="), Tok("*", c[2][2][2], 0)>>
         /\ c[1] = "ADDR" =>
                tac_print(c) = <<Word(c[2][1][2]), Word(":="), Tok("&", c[2][2][2], 0)>>
         /\ c[1] = "ASSIGN" =>
                tac_print(c) = <<tac_opd_print(c[2][1]), Word(":="), tac_opd_print(c[2][2])>>
         /\ c[1] = "CALL" =>
                tac_print(c) =
                  <<tac_opd_print(c[2][1]), Word(":="), Word("CALL"), Word(c[2][2][2])>>
         /\ c[1] \in Keywords => tac_print(c) = <<Word(c[1]), tac_opd_print(c[2][1])>>
         /\ c[1] \in {"ADD", "SUB", "MUL", "DIV"} =>
                tac_print(c) =
                  <<tac_opd_print(c[2][1]), Word(":="), tac_opd_print(c[2][2]), Word(Symbol(c[1])), tac_opd_print(c[2][3])>>
         /\ c[1] \in {"IFLT", "IFGT", "IFLE", "IFGE", "IFNE", "IFEQ"} =>
                tac_print(c) =
                  <<Word("IF"), tac_opd_print(c[2][1]), Word(Symbol(c[1])), tac_opd_print(c[2][2]), Word("GOTO"), tac_opd_print(c[2][3])>>
<1>1. c[1] = "LABEL" => tac_print(c) = <<Word("LABEL"), tac_opd_print(c[2][1]), Word(":")>>
  BY DEF tac_print, Keywords
<1>2. c[1] = "FUNCTION" => tac_print(c) = <<Word("FUNCTION"), Word(c[2][1][2]), Word(":")>>
  BY DEF tac_print, Keywords
<1>3. c[1] = "DEC" => tac_print(c) = <<Word("DEC"), Word(c[2][1][2]), Tok("", "", c[2][2][2])>>
  BY DEF tac_print, Keywords
<1>4. c[1] = "DEREF" =>
           tac_print(c) = <<Tok("*", c[2][1][2], 0), Word(":="), tac_opd_print(c[2][2])>>
  BY DEF tac_print, Keywords
<1>5. c[1] = "FETCH" => tac_print(c) = <<Word(c[2][1][2]), Word(":="), Tok("*", c[2][2][2], 0)>>
  BY DEF tac_print, Keywords
<1>6. c[1] = "ADDR" => tac_print(c) = <<Word(c[2][1][2]), Word(":="), Tok("&", c[2][2][2], 0)>>
  BY DEF tac_print, Keywords
<1>7. c[1] = "ASSIGN" =>
           tac_print(c) = <<tac_opd_print(c[2][1]), Word(":="), tac_opd_print(c[2][2])>>
  BY DEF tac_print, Keywords
<1>8. c[1] = "CALL" =>
           tac_print(c) = <<tac_opd_print(c[2][1]), Word(":="), Word("CALL"), Word(c[2][2][2])>>
  BY DEF tac_print, Keywords
<1>9. c[1] \in Keywords => tac_print(c) = <<Word(c[1]), tac_opd_print(c[2][1])>>
  BY DEF tac_print, Keywords
<1>10. c[1] \in {"ADD", "SUB", "MUL", "DIV"} =>
           tac_print(c) =
             <<tac_opd_print(c[2][1]), Word(":="), tac_opd_print(c[2][2]), Word(Symbol(c[1])), tac_opd_print(c[2][3])>>
  BY DEF tac_print, Keywords
<1>11. c[1] \in {"IFLT", "IFGT", "IFLE", "IFGE", "IFNE", "IFEQ"} =>
           tac_print(c) =
             <<Word("IF"), tac_opd_print(c[2][1]), Word(Symbol(c[1])), tac_opd_print(c[2][2]), Word("GOTO"), tac_opd_print(c[2][3])>>
  BY DEF tac_print, Keywords
<1> QED
  BY <1>1, <1>2, <1>3, <1>4, <1>5, <1>6, <1>7, <1>8, <1>9, <1>10, <1>11

LEMMA PrintedTwo ==
  ASSUME NEW t, Len(t) = 2, t[1].rest \in Keywords
  PROVE  OfTokens(tac_print(OfTokens(t))) = OfTokens(t)
<1>1. PICK o, q : Back(t[2], o, q)
  BY OperandBack
<1>2. PICK c : c = OfTokens(t)
  OBVIOUS
<1>3. c = <<t[1].rest, <<o>>>>
  BY <1>1, <1>2, ReadCases DEF Back
<1>4. c[1] = t[1].rest /\ c[2] = <<o>> /\ c[2][1] = o
  BY <1>3
<1>5. PICK s : s = tac_print(c)
  OBVIOUS
<1>6. s = <<Word(c[1]), q>>
  <2>1. s = <<Word(c[1]), tac_opd_print(c[2][1])>>
    BY <1>4, <1>5, PrintCases
  <2> QED
    BY <1>1, <1>4, <2>1 DEF Back
<1>7. Len(s) = 2 /\ s[1] = Word(c[1]) /\ s[2] = q
  BY <1>6
<1>8. s[1].rest = t[1].rest
  <2>1. Word(c[1]).rest = c[1]
    BY Parts
  <2> QED
    BY <1>4, <1>7, <2>1
<1>9. OfTokens(s) = c
  BY <1>1, <1>3, <1>7, <1>8, ReadCases DEF Back
<1> QED
  BY <1>2, <1>5, <1>9

LEMMA PrintedFour ==
  ASSUME NEW t, Len(t) = 4
  PROVE  OfTokens(tac_print(OfTokens(t))) = OfTokens(t)
<1>1. PICK o, q : Back(t[1], o, q)
  BY OperandBack
<1>2. PICK c : c = OfTokens(t)
  OBVIOUS
<1>3. c = <<"CALL", <<o, <<"NAME", t[4].rest>>>>>>
  BY <1>1, <1>2, ReadCases DEF Back
<1>4. c[1] = "CALL" /\ c[2][1] = o /\ c[2][2][2] = t[4].rest
  BY <1>3
<1>5. PICK s : s = tac_print(c)
  OBVIOUS
<1>6. s = <<q, Word(":="), Word("CALL"), Word(t[4].rest)>>
  BY <1>1, <1>4, <1>5, PrintCases DEF Back
<1>7. Len(s) = 4 /\ s[1] = q /\ s[4] = Word(t[4].rest)
  BY <1>6
<1>8. s[4].rest = t[4].rest
  <2>1. Word(t[4].rest).rest = t[4].rest
    BY Parts
  <2> QED
    BY <1>7, <2>1
<1>9. OfTokens(s) = c
  BY <1>1, <1>3, <1>7, <1>8, ReadCases DEF Back
<1> QED
  BY <1>2, <1>5, <1>9

LEMMA PrintedFive ==
  ASSUME NEW t, Len(t) = 5, t[4].rest \in Operators
  PROVE  OfTokens(tac_print(OfTokens(t))) = OfTokens(t)
<1>1. PICK o1, q1 : Back(t[1], o1, q1)
  BY OperandBack
<1>2. PICK o2, q2 : Back(t[3], o2, q2)
  BY OperandBack
<1>3. PICK o3, q3 : Back(t[5], o3, q3)
  BY OperandBack
<1>4. PICK k : k = ArithKind(t[4].rest)
  OBVIOUS
<1>5. k \in {"ADD", "SUB", "MUL", "DIV"} /\ ArithKind(Symbol(k)) = k
  BY <1>4 DEF ArithKind, Symbol, Operators
<1>6. PICK c : c = OfTokens(t)
  OBVIOUS
<1>7. c = <<k, <<o1, o2, o3>>>>
  BY <1>1, <1>2, <1>3, <1>4, <1>6, ReadCases DEF Back
<1>8. c[1] = k /\ c[2][1] = o1 /\ c[2][2] = o2 /\ c[2][3] = o3
  BY <1>7
<1>9. PICK s : s = tac_print(c)
  OBVIOUS
<1>10. s = <<tac_opd_print(c[2][1]), Word(":="), tac_opd_print(c[2][2]), Word(Symbol(k)),
             tac_opd_print(c[2][3])>>
  BY <1>5, <1>8, <1>9, PrintCases
<1>11. s = <<q1, Word(":="), q2, Word(Symbol(k)), q3>>
  BY <1>1, <1>2, <1>3, <1>8, <1>10 DEF Back
<1>12. Len(s) = 5 /\ s[1] = q1 /\ s[3] = q2 /\ s[4] = Word(Symbol(k)) /\ s[5] = q3
  BY <1>11
<1>13. s[4].rest = Symbol(k)
  <2>1. Word(Symbol(k)).rest = Symbol(k)
    BY Parts
  <2> QED
    BY <1>12, <2>1
<1>14. OfTokens(s) = <<ArithKind(s[4].rest), <<_tac_opd_from_str(s[1]), _tac_opd_from_str(s[3]),
                       _tac_opd_from_str(s[5])>>>>
  BY <1>12, ReadCases
<1>15. OfTokens(s) = c
  BY <1>1, <1>2, <1>3, <1>5, <1>7, <1>12, <1>13, <1>14 DEF Back
<1> QED
  BY <1>6, <1>9, <1>15

LEMMA PrintedMore ==
  ASSUME NEW t, Len(t) \notin {2, 3, 4, 5}
  PROVE  OfTokens(tac_print(OfTokens(t))) = OfTokens(t)
<1>1. PICK o1, q1 : Back(t[2], o1, q1)
  BY OperandBack
<1>2. PICK o2, q2 : Back(t[4], o2, q2)
  BY OperandBack
<1>3. PICK o3, q3 : Back(t[6], o3, q3)
  BY OperandBack
<1>4. PICK k : k = IfKind(t[3].rest)
  OBVIOUS
<1>5. k \in {"IFLT", "IFGT", "IFLE", "IFGE", "IFNE", "IFEQ"} /\ IfKind(Symbol(k)) = k
  BY <1>4 DEF IfKind, Symbol
<1>6. PICK c : c = OfTokens(t)
  OBVIOUS
<1>7. c = <<k, <<o1, o2, o3>>>>
  BY <1>1, <1>2, <1>3, <1>4, <1>6, ReadCases DEF Back
<1>8. c[1] = k /\ c[2][1] = o1 /\ c[2][2] = o2 /\ c[2][3] = o3
  BY <1>7
<1>9. PICK s : s = tac_print(c)
  OBVIOUS
<1>10. s = <<Word("IF"), tac_opd_print(c[2][1]), Word(Symbol(k)), tac_opd_print(c[2][2]),
             Word("GOTO"), tac_opd_print(c[2][3])>>
  BY <1>5, <1>8, <1>9, PrintCases
<1>11. s = <<Word("IF"), q1, Word(Symbol(k)), q2, Word("GOTO"), q3>>
  BY <1>1, <1>2, <1>3, <1>8, <1>10 DEF Back
<1>12. Len(s) = 6 /\ s[2] = q1 /\ s[3] = Word(Symbol(k)) /\ s[4] = q2 /\ s[6] = q3
  BY <1>11
<1>13. s[3].rest = Symbol(k)
  <2>1. Word(Symbol(k)).rest = Symbol(k)
    BY Parts
  <2> QED
    BY <1>12, <2>1
<1>14. OfTokens(s) = <<IfKind(s[3].rest), <<_tac_opd_from_str(s[2]), _tac_opd_from_str(s[4]),
                       _tac_opd_from_str(s[6])>>>>
  <2>1. Len(s) \notin {2, 3, 4, 5}
    BY <1>12
  <2> QED
    BY <2>1, ReadCases
<1>15. OfTokens(s) = c
  BY <1>1, <1>2, <1>3, <1>5, <1>7, <1>12, <1>13, <1>14 DEF Back
<1> QED
  BY <1>6, <1>9, <1>15

(* The three headers, printed and read. *)
LEMMA HeaderBack ==
  ASSUME NEW s, Len(s) = 3
  PROVE  /\ s[1] = Word("LABEL") => OfTokens(s) = <<"LABEL", <<_tac_opd_from_str(s[2])>>>>
         /\ s[1] = Word("FUNCTION") => OfTokens(s) = <<"FUNCTION", <<<<"NAME", s[2].rest>>>>>>
         /\ s[1] = Word("DEC") =>
              OfTokens(s) = <<"DEC", <<<<"OP_POINTER", s[2].rest>>, <<"SIZE", s[3].num>>>>>>
<1>1. Word("LABEL") \in Headers /\ Word("FUNCTION") \in Headers /\ Word("DEC") \in Headers
  BY DEF Headers
<1>2. s[1] \in Headers => OfTokens(s) = OfHeader(s[1], s[2], s[3])
  BY ReadCases
<1>3. /\ s[1] = Word("LABEL") => s[1].rest = "LABEL"
      /\ s[1] = Word("FUNCTION") => s[1].rest = "FUNCTION"
      /\ s[1] = Word("DEC") => s[1].rest = "DEC"
  BY Parts
<1> QED
  BY <1>1, <1>2, <1>3 DEF OfHeader, FuncName, tac_opd_pointer, Bytes

LEMMA PrintedHeader ==
  ASSUME NEW t, Len(t) = 3, t[1] \in Headers
  PROVE  OfTokens(tac_print(OfTokens(t))) = OfTokens(t)
<1>1. PICK c : c = OfTokens(t)
  OBVIOUS
<1>2. PICK s : s = tac_print(c)
  OBVIOUS
<1>3. CASE t[1] = Word("LABEL")
  <2>1. PICK o, q : Back(t[2], o, q)
    BY OperandBack
  <2>2. c = <<"LABEL", <<o>>>>
    BY <1>1, <1>3, <2>1, HeaderBack DEF Back
  <2>3. c[1] = "LABEL" /\ c[2][1] = o
    BY <2>2
  <2>4. s = <<Word("LABEL"), q, Word(":")>>
    BY <1>2, <2>1, <2>3, PrintCases DEF Back
  <2>5. Len(s) = 3 /\ s[1] = Word("LABEL") /\ s[2] = q
    BY <2>4
  <2>6. OfTokens(s) = c
    BY <2>1, <2>2, <2>5, HeaderBack DEF Back
  <2> QED
    BY <1>1, <1>2, <2>6
<1>4. CASE t[1] = Word("FUNCTION")
  <2>1. c = <<"FUNCTION", <<<<"NAME", t[2].rest>>>>>>
    BY <1>1, <1>4, HeaderBack
  <2>2. c[1] = "FUNCTION" /\ c[2][1][2] = t[2].rest
    BY <2>1
  <2>3. s = <<Word("FUNCTION"), Word(t[2].rest), Word(":")>>
    BY <1>2, <2>2, PrintCases
  <2>4. Len(s) = 3 /\ s[1] = Word("FUNCTION") /\ s[2] = Word(t[2].rest)
    BY <2>3
  <2>5. s[2].rest = t[2].rest
    <3>1. Word(t[2].rest).rest = t[2].rest
      BY Parts
    <3> QED
      BY <2>4, <3>1
  <2>6. OfTokens(s) = c
    BY <2>1, <2>4, <2>5, HeaderBack
  <2> QED
    BY <1>1, <1>2, <2>6
<1>5. CASE t[1] = Word("DEC")
  <2>1. c = <<"DEC", <<<<"OP_POINTER", t[2].rest>>, <<"SIZE", t[3].num>>>>>>
    BY <1>1, <1>5, HeaderBack
  <2>2. c[1] = "DEC" /\ c[2][1][2] = t[2].rest /\ c[2][2][2] = t[3].num
    BY <2>1
  <2>3. s = <<Word("DEC"), Word(t[2].rest), Tok("", "", t[3].num)>>
    BY <1>2, <2>2, PrintCases
  <2>4. Len(s) = 3 /\ s[1] = Word("DEC") /\ s[2] = Word(t[2].rest) /\ s[3] = Tok("", "", t[3].num)
    BY <2>3
  <2>5. s[2].rest = t[2].rest /\ s[3].num = t[3].num
    <3>1. Word(t[2].rest).rest = t[2].rest
      BY Parts
    <3>2. Tok("", "", t[3].num).num = t[3].num
      BY DEF Tok
    <3> QED
      BY <2>4, <3>1, <3>2
  <2>6. OfTokens(s) = c
    BY <2>1, <2>4, <2>5, HeaderBack
  <2> QED
    BY <1>1, <1>2, <2>6
<1> QED
  BY <1>3, <1>4, <1>5 DEF Headers

(* What is printed with a mark, or is no such word, is no header. *)
LEMMA NoHeader ==
  ASSUME NEW tk, tk.pre # "" \/ tk.rest \notin {"LABEL", "FUNCTION", "DEC"}
  PROVE  tk \notin Headers
BY Parts DEF Headers

(* The four kinds of assignment, by the marks of their sides. *)
LEMMA AssignmentCases ==
  ASSUME NEW x, NEW z
  PROVE  /\ x.pre = "*" => OfAssignment(x, z) = <<"DEREF", <<<<"OP_VARIABLE", x.rest>>, _tac_opd_from_str(z)>>>>
         /\ x.pre # "*" /\ z.pre = "*" =>
              OfAssignment(x, z) = <<"FETCH", <<_tac_opd_from_str(x), <<"OP_VARIABLE", z.rest>>>>>>
         /\ x.pre # "*" /\ z.pre = "&" =>
              OfAssignment(x, z) = <<"ADDR", <<_tac_opd_from_str(x), _tac_opd_from_str(z)>>>>
         /\ x.pre # "*" /\ z.pre \notin {"*", "&"} =>
              OfAssignment(x, z) = <<"ASSIGN", <<_tac_opd_from_str(x), _tac_opd_from_str(z)>>>>
BY DEF OfAssignment, tac_opd_variable

(* A line whose left side is no header is an assignment. *)
LEMMA AssignmentRead ==
  ASSUME NEW s, NEW x, NEW y, NEW z, s = <<x, y, z>>, x \notin Headers
  PROVE  OfTokens(s) = OfAssignment(x, z)
<1>1. Len(s) = 3 /\ s[1] = x /\ s[3] = z
  OBVIOUS
<1> QED
  BY <1>1, ReadCases

LEMMA PrintedAssignment ==
  ASSUME NEW t, Len(t) = 3, t[1] \notin Headers,
         t[1].rest \in {"LABEL", "FUNCTION", "DEC"} => t[1].pre \in {"#", "&", "*", "label"},
         t[3].pre \in {"*", "&"} => t[1].pre \notin {"#", "&", "label"}
  PROVE  OfTokens(tac_print(OfTokens(t))) = OfTokens(t)
<1>1. PICK c : c = OfTokens(t)
  OBVIOUS
<1>2. PICK s : s = tac_print(c)
  OBVIOUS
<1>3. PICK x, z : x = t[1] /\ z = t[3]
  OBVIOUS
<1>4. c = OfAssignment(x, z)
  BY <1>1, <1>3, ReadCases
<1>5. PICK b, q : Back(z, b, q)
  BY OperandBack
<1>6. PICK a, l : Back(x, a, l)
  BY OperandBack
<1>7. PICK is : is = Word(":=")
  OBVIOUS
<1>8. CASE x.pre = "*"
  <2>1. c = <<"DEREF", <<<<"OP_VARIABLE", x.rest>>, b>>>>
    BY <1>4, <1>5, <1>8, AssignmentCases DEF Back
  <2>2. c[1] = "DEREF" /\ c[2][1][2] = x.rest /\ c[2][2] = b
    BY <2>1
  <2>3. PICK u : u = Tok("*", x.rest, 0)
    OBVIOUS
  <2>4. u.pre = "*" /\ u.rest = x.rest
    BY <2>3 DEF Tok, Word
  <2>5. u \notin Headers
    BY <2>4, NoHeader
  <2>6. s = <<u, is, q>>
    <3>1. s = <<Tok("*", c[2][1][2], 0), Word(":="), tac_opd_print(c[2][2])>>
      BY <1>2, <2>2, PrintCases
    <3> QED
      BY <1>5, <1>7, <2>2, <2>3, <3>1 DEF Back
  <2>7. OfTokens(s) = OfAssignment(u, q)
    BY <2>5, <2>6, AssignmentRead
  <2>8. OfAssignment(u, q) = c
    <3>1. OfAssignment(u, q) = <<"DEREF", <<<<"OP_VARIABLE", u.rest>>, _tac_opd_from_str(q)>>>>
      BY <2>4, AssignmentCases
    <3> QED
      BY <1>5, <2>1, <2>4, <3>1 DEF Back
  <2> QED
    BY <1>1, <1>2, <2>7, <2>8
<1>9. CASE x.pre # "*" /\ z.pre \in {"*", "&"}
  <2>1. x.pre \notin {"#", "&", "label"} /\ x.rest \notin {"LABEL", "FUNCTION", "DEC"}
    BY <1>3, <1>9
  <2>2. a = <<"OP_VARIABLE", x.rest>>
    BY <1>6, <2>1, OperandOf DEF Back
  <2>3. PICK w : w = Word(x.rest)
    OBVIOUS
  <2>4. w.pre = "" /\ w.rest = x.rest
    BY <2>3 DEF Tok, Word
  <2>5. w \notin Headers
    BY <2>1, <2>4, NoHeader
  <2>6. _tac_opd_from_str(w) = a
    BY <2>2, <2>4, OperandOf
  <2>7. CASE z.pre = "*"
    <3>1. c = <<"FETCH", <<a, <<"OP_VARIABLE", z.rest>>>>>>
      BY <1>4, <1>6, <1>9, <2>7, AssignmentCases DEF Back
    <3>2. c[1] = "FETCH" /\ c[2][1] = a /\ c[2][2][2] = z.rest
      BY <3>1
    <3>3. a[2] = x.rest
      BY <2>2
    <3>4. PICK u : u = Tok("*", z.rest, 0)
      OBVIOUS
    <3>5. u.pre = "*" /\ u.rest = z.rest
      BY <3>4 DEF Tok, Word
    <3>6. s = <<w, is, u>>
      <4>1. s = <<Word(c[2][1][2]), Word(":="), Tok("*", c[2][2][2], 0)>>
        BY <1>2, <3>2, PrintCases
      <4> QED
        BY <1>7, <2>3, <3>2, <3>3, <3>4, <4>1
    <3>7. OfTokens(s) = OfAssignment(w, u)
      BY <2>5, <3>6, AssignmentRead
    <3>8. OfAssignment(w, u) = c
      BY <2>4, <2>6, <3>1, <3>5, AssignmentCases
    <3> QED
      BY <1>1, <1>2, <3>7, <3>8
  <2>8. CASE z.pre = "&"
    <3>1. b = <<"OP_POINTER", z.rest>>
      BY <1>5, <2>8, OperandOf DEF Back
    <3>2. c = <<"ADDR", <<a, b>>>>
      BY <1>4, <1>5, <1>6, <1>9, <2>8, AssignmentCases DEF Back
    <3>3. c[1] = "ADDR" /\ c[2][1] = a /\ c[2][2] = b
      BY <3>2
    <3>4. a[2] = x.rest /\ b[2] = z.rest
      BY <2>2, <3>1
    <3>5. PICK u : u = Tok("&", z.rest, 0)
      OBVIOUS
    <3>6. u.pre = "&" /\ u.rest = z.rest
      BY <3>5 DEF Tok, Word
    <3>7. _tac_opd_from_str(u) = b
      BY <3>1, <3>6, OperandOf
    <3>8. s = <<w, is, u>>
      <4>1. s = <<Word(c[2][1][2]), Word(":="), Tok("&", c[2][2][2], 0)>>
        BY <1>2, <3>3, PrintCases
      <4> QED
        BY <1>7, <2>3, <3>3, <3>4, <3>5, <4>1
    <3>9. OfTokens(s) = OfAssignment(w, u)
      BY <2>5, <3>8, AssignmentRead
    <3>10. OfAssignment(w, u) = c
      BY <2>4, <2>6, <3>2, <3>6, <3>7, AssignmentCases
    <3> QED
      BY <1>1, <1>2, <3>9, <3>10
  <2> QED
    BY <1>9, <2>7, <2>8
<1>10. CASE x.pre # "*" /\ z.pre \notin {"*", "&"}
  <2>1. c = <<"ASSIGN", <<a, b>>>>
    BY <1>4, <1>5, <1>6, <1>10, AssignmentCases DEF Back
  <2>2. c[1] = "ASSIGN" /\ c[2][1] = a /\ c[2][2] = b
    BY <2>1
  <2>3. s = <<l, is, q>>
    <3>1. s = <<tac_opd_print(c[2][1]), Word(":="), tac_opd_print(c[2][2])>>
      BY <1>2, <2>2, PrintCases
    <3> QED
      BY <1>5, <1>6, <1>7, <2>2, <3>1 DEF Back
  <2>4. l.pre # "*" /\ q.pre \notin {"*", "&"}
    BY <1>5, <1>6, <1>10 DEF Back
  <2>5. l \notin Headers
    <3>1. l.pre = "" => x.rest \notin {"LABEL", "FUNCTION", "DEC"} /\ l.rest = x.rest
      <4>1. l.pre = "" => x.pre \notin {"#", "&", "label"} /\ l.rest = x.rest
        BY <1>6 DEF Back
      <4> QED
        BY <1>3, <1>10, <4>1
    <3> QED
      BY <3>1, NoHeader
  <2>6. OfTokens(s) = OfAssignment(l, q)
    BY <2>3, <2>5, AssignmentRead
  <2>7. OfAssignment(l, q) = c
    <3>1. OfAssignment(l, q) = <<"ASSIGN", <<_tac_opd_from_str(l), _tac_opd_from_str(q)>>>>
      BY <2>4, AssignmentCases
    <3> QED
      BY <1>5, <1>6, <2>1, <3>1 DEF Back
  <2> QED
    BY <1>1, <1>2, <2>6, <2>7
<1> QED
  BY <1>8, <1>9, <1>10

(***************************************************************************)
(* The round trip, for every file whose left sides are plain: a list that  *)
(* was printed is read as the same one, whatever literals, addresses,      *)
(* labels and blank-separated words its lines have.                        *)
(***************************************************************************)
THEOREM PrintsBackAlways ==
  ASSUME PlainTargets
  PROVE  Spec => []PrintsBack
<1>1. ASSUME NEW line \in Lines, Outcome(line) = "read"
      PROVE  OfTokens(tac_print(OfTokens(line.tokens))) = OfTokens(line.tokens)
  <2>1. PICK t : t = line.tokens
    OBVIOUS
  <2>2. Len(t) = 2 => t[1].rest \in Keywords
    BY <1>1, <2>1 DEF Outcome
  <2>3. Len(t) = 5 => t[4].rest \in Operators
    BY <1>1, <2>1 DEF Outcome
  <2>4. (Len(t) = 3 /\ t[1] \notin Headers) =>
          /\ t[1].rest \in {"LABEL", "FUNCTION", "DEC"} => t[1].pre \in {"#", "&", "*", "label"}
          /\ t[3].pre \in {"*", "&"} => t[1].pre \notin {"#", "&", "label"}
    BY <1>1, <2>1, PlainTargets DEF PlainTargets
  <2>5. OfTokens(tac_print(OfTokens(t))) = OfTokens(t)
    BY <2>2, <2>3, <2>4, PrintedTwo, PrintedHeader, PrintedAssignment, PrintedFour, PrintedFive,
       PrintedMore
  <2> QED
    BY <2>1, <2>5
<1>2. IInv => PrintsBack
  <2> SUFFICES ASSUME IInv, NEW i \in 2 .. Len(code)
               PROVE  OfTokens(tac_print(code[i])) = code[i]
    BY DEF PrintsBack
  <2>1. Len(code) \in Nat /\ Len(lines) \in Nat /\ lines \in Seq(Lines)
    BY DEF IInv, ITypes
  <2>2. code[i] = OfTokens(lines[i - 1].tokens) /\ Outcome(lines[i - 1]) = "read"
    BY DEF IInv, ICode
  <2>3. i - 1 \in 1 .. Len(lines)
    BY <2>1 DEF IInv, ICode
  <2>4. lines[i - 1] \in Lines
    BY <2>1, <2>3
  <2> QED
    BY <1>1, <2>2, <2>4
<1> QED
  BY <1>2, IInvAlways, PTL

=============================================================================
