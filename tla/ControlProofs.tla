--------------------------- MODULE ControlProofs ---------------------------
(***************************************************************************)
(* Proofs about ControlHist and ControlSource for every value of their     *)
(* constants: programs of any size, any set of productions, and is_swap    *)
(* flags that start with any value.                                        *)
(***************************************************************************)
EXTENDS ControlSource, SequenceTheorems, TLAPS

-----------------------------------------------------------------------------
(* What appending to the code, and to the labels, leaves and adds. *)
LEMMA Extend ==
  ASSUME NEW S, NEW s \in Seq(S), NEW t \in Seq(S)
  PROVE  /\ s \o t \in Seq(S)
         /\ Len(s \o t) = Len(s) + Len(t)
         /\ \A i \in 1 .. Len(s) : (s \o t)[i] = s[i]
         /\ \A i \in 1 .. Len(t) : (s \o t)[Len(s) + i] = t[i]
BY ConcatProperties

(* The code of a comparison: loads, an IF and a GOTO. *)
LEMMA LoadCode ==
  ASSUME NEW S, NEW u \in Seq(S), NEW y \in S, NEW z \in S,
         NEW v, v = <<y, z>>, NEW t, t = u \o v
  PROVE  /\ t \in Seq(S)
         /\ Len(t) = Len(u) + 2
         /\ \A i \in 1 .. Len(u) : t[i] = u[i]
         /\ t[Len(u) + 1] = y
         /\ t[Len(u) + 2] = z
<1>1. v \in Seq(S) /\ Len(v) = 2 /\ v[1] = y /\ v[2] = z
  OBVIOUS
<1>2. u \in Seq(S) /\ v \in Seq(S)
  BY <1>1
<1>3. /\ t \in Seq(S)
      /\ Len(t) = Len(u) + Len(v)
      /\ \A i \in 1 .. Len(u) : t[i] = u[i]
      /\ \A i \in 1 .. Len(v) : t[Len(u) + i] = v[i]
  BY <1>2, Extend
<1> QED
  BY <1>1, <1>3

LEMMA Emit1 ==
  ASSUME tac_list \in Seq(TAC), NEW c \in TAC, Emit(<<c>>)
  PROVE  /\ tac_list' \in Seq(TAC)
         /\ Len(tac_list') = Len(tac_list) + 1
         /\ \A i \in 1 .. Len(tac_list) : tac_list'[i] = tac_list[i]
         /\ tac_list'[Len(tac_list) + 1] = c
<1>1. <<c>> \in Seq(TAC) /\ Len(<<c>>) = 1 /\ <<c>>[1] = c
  OBVIOUS
<1>2. tac_list' = tac_list \o <<c>>
  BY DEF Emit
<1> QED
  BY <1>1, <1>2, Extend

LEMMA Emit2 ==
  ASSUME tac_list \in Seq(TAC), NEW c \in TAC, NEW d \in TAC, Emit(<<c, d>>)
  PROVE  /\ tac_list' \in Seq(TAC)
         /\ Len(tac_list') = Len(tac_list) + 2
         /\ \A i \in 1 .. Len(tac_list) : tac_list'[i] = tac_list[i]
         /\ tac_list'[Len(tac_list) + 1] = c
         /\ tac_list'[Len(tac_list) + 2] = d
<1>1. /\ <<c, d>> \in Seq(TAC) /\ Len(<<c, d>>) = 2
      /\ <<c, d>>[1] = c /\ <<c, d>>[2] = d
  OBVIOUS
<1>2. tac_list' = tac_list \o <<c, d>>
  BY DEF Emit
<1> QED
  BY <1>1, <1>2, Extend

(* The stack after the innermost calls return and one frame is pushed. *)
LEMMA KeepN ==
  ASSUME stack \in Seq(Frame), NEW n \in 0 .. Depth
  PROVE  /\ Keep(n) \in Seq(Frame)
         /\ Len(Keep(n)) = n
         /\ \A i \in 1 .. n : Keep(n)[i] = stack[i]
<1>1. \A i \in 1 .. n : stack[i] \in Frame
  BY DEF Depth
<1>2. Len(stack) \in Nat
  OBVIOUS
<1> QED
  BY <1>1, <1>2, SubSeqProperties DEF Keep, Depth

LEMMA PushN ==
  ASSUME stack \in Seq(Frame), NEW n \in 0 .. Depth, NEW fr \in Frame
  PROVE  /\ Append(Keep(n), fr) \in Seq(Frame)
         /\ Len(Append(Keep(n), fr)) = n + 1
         /\ \A i \in 1 .. n : Append(Keep(n), fr)[i] = stack[i]
         /\ Append(Keep(n), fr)[n + 1] = fr
<1>1. /\ Keep(n) \in Seq(Frame) /\ Len(Keep(n)) = n
      /\ \A i \in 1 .. n : Keep(n)[i] = stack[i]
  BY KeepN
<1> QED
  BY <1>1

LEMMA Push ==
  ASSUME stack \in Seq(Frame), NEW fr \in Frame
  PROVE  /\ Append(stack, fr) \in Seq(Frame)
         /\ Len(Append(stack, fr)) = Depth + 1
         /\ \A i \in 1 .. Depth : Append(stack, fr)[i] = stack[i]
         /\ Append(stack, fr)[Depth + 1] = fr
BY DEF Depth

(* The constructors build instructions and frames. *)
LEMMA Constructors ==
  /\ \A a \in Atoms, s \in FreshSwap, p \in Nat : IfCode(a, s, p) \in TAC
  /\ \A p \in Nat : GotoCode(p) \in TAC
  /\ LabelCode \in TAC
  /\ ReturnCode \in TAC
  /\ \A s \in BOOLEAN : AssignCode(s) \in TAC
  /\ \A m \in Marks : WriteCode(m) \in TAC
BY FreshSwapAssumption
   DEF IfCode, GotoCode, LabelCode, ReturnCode, AssignCode, WriteCode, TAC, Ops

LEMMA Frames ==
  ASSUME NEW k \in Kinds, NEW e \in Nat, NEW a \in Nat, NEW s \in Nat,
         NEW w \in BOOLEAN
  PROVE  \E fr \in Frame : /\ fr = MkFrame(k, e, a, s, w)
                           /\ fr.kind = k /\ fr.exp = e /\ fr.at = a
                           /\ fr.start = s /\ fr.swap = w
<1>1. PICK fr : fr = MkFrame(k, e, a, s, w)
  OBVIOUS
<1>2. /\ fr \in Frame
      /\ fr.kind = k /\ fr.exp = e /\ fr.at = a
      /\ fr.start = s /\ fr.swap = w
  BY <1>1 DEF MkFrame, Frame
<1> QED
  BY <1>1, <1>2

LEMMA ExpFrames ==
  ASSUME NEW e \in Nat
  PROVE  \E fr \in Frame : fr = ExpFrame(e) /\ fr.kind = "exp" /\ fr.exp = e
<1>1. PICK fr : fr = ExpFrame(e)
  OBVIOUS
<1>2. fr \in Frame /\ fr.kind = "exp" /\ fr.exp = e
  BY <1>1 DEF MkFrame, ExpFrame, Frame, Kinds
<1> QED
  BY <1>1, <1>2

-----------------------------------------------------------------------------
(***************************************************************************)
(* What every action does to the code and the labels: old instructions     *)
(* keep their class, and a label cell changes only to the number of a      *)
(* LABEL.                                                                  *)
(***************************************************************************)
Grows ==
  /\ tac_list' \in Seq(TAC)
  /\ Len(tac_list) <= Len(tac_list')
  /\ \A i \in 1 .. Len(tac_list) : tac_list'[i].op = tac_list[i].op

Relabels ==
  /\ label' \in Seq(Int)
  /\ Len(label) <= Len(label')
  /\ \A c \in 1 .. Len(label) :
        label'[c] = label[c] \/ IsLabel(tac_list', label'[c])

SameJump(i) == tac_list'[i].label = tac_list[i].label

LEMMA ClassKept ==
  ASSUME TypeOK, Grows, NEW i \in Nat
  PROVE  /\ IsIf(tac_list, i) => IsIf(tac_list, i)'
         /\ IsGoto(tac_list, i) => IsGoto(tac_list, i)'
         /\ IsLabel(tac_list, i) => IsLabel(tac_list, i)'
BY DEF TypeOK, Grows, IsIf, IsGoto, IsLabel

LEMMA ResolvedKept ==
  ASSUME TypeOK, Grows, Relabels, NEW i \in Jumps, SameJump(i), Resolved(i)
  PROVE  Resolved(i)'
<1>1. tac_list[i].label \in 1 .. Len(label)
  BY DEF TypeOK
<1>2. label[tac_list[i].label] \in Nat
  BY DEF Resolved, IsLabel, TypeOK
<1>3. CASE label'[tac_list[i].label] = label[tac_list[i].label]
  BY <1>1, <1>2, <1>3, ClassKept DEF Resolved, SameJump
<1>4. CASE IsLabel(tac_list', label'[tac_list[i].label])
  BY <1>4 DEF Resolved, SameJump
<1> QED
  BY <1>1, <1>3, <1>4 DEF Relabels

LEMMA Pair ==
  ASSUME NEW S, NEW x \in S, NEW y \in S
  PROVE  <<x, y>> \in Seq(S) /\ Len(<<x, y>>) = 2
OBVIOUS

LEMMA ConstantSeq ==
  ASSUME NEW S, NEW x \in S, NEW n \in Nat
  PROVE  /\ [i \in 1 .. n |-> x] \in Seq(S)
         /\ Len([i \in 1 .. n |-> x]) = n
         /\ \A i \in 1 .. n : [j \in 1 .. n |-> x][i] = x
OBVIOUS

LEMMA LoadFacts ==
  ASSUME NEW a \in Atoms, NEW q \in Arity, NEW d, d = IF q = 0 THEN Literals[a] ELSE 0
  PROVE  /\ d \in Nat
         /\ \E u \in Seq(TAC) : /\ u = Load(a, q)
                                /\ Len(u) = d
                                /\ \A i \in 1 .. d : u[i].op = "ASSIGN" /\ u[i].label = 0
<1>1. d \in Nat
  BY LiteralsAssumption
<1>2. PICK x \in TAC : x = AssignCode(FALSE)
  BY Constructors
<1>3. x.op = "ASSIGN" /\ x.label = 0
  BY <1>2 DEF AssignCode
<1>4. PICK u : u = [i \in 1 .. d |-> x]
  OBVIOUS
<1>5. u \in Seq(TAC) /\ Len(u) = d /\ \A i \in 1 .. d : u[i] = x
  BY <1>1, <1>4, ConstantSeq
<1>6. Load(a, q) = u
  BY <1>2, <1>4 DEF Load
<1> QED
  BY <1>1, <1>3, <1>5, <1>6

(* A comparison of q operands with code appends d loads, an IF and its GOTO, and two cells. *)
RelopDid(n, d, c, q) ==
  /\ n \in Nat /\ d \in Nat /\ c \in Nat
  /\ tac_list' \in Seq(TAC)
  /\ Len(tac_list') = n + d + 2
  /\ \A i \in 1 .. n : tac_list'[i] = tac_list[i]
  /\ \A i \in n + 1 .. n + d : tac_list'[i].op = "ASSIGN"
  /\ tac_list'[n + d + 1].op = "IF" /\ tac_list'[n + d + 1].label = c + 1
  /\ tac_list'[n + d + 2].op = "GOTO" /\ tac_list'[n + d + 2].label = c + 2
  /\ label' \in Seq(Int)
  /\ Len(label') = c + 2
  /\ \A i \in 1 .. c : label'[i] = label[i]
  /\ stack' = Append(Keep(Depth - q), ExpFrame(n + d + 1))
  /\ UNCHANGED status
  /\ Operands(q)

LEMMA RelopEffect ==
  ASSUME TypeOK, NEW a \in Atoms, NEW q \in Arity, Relop(a, q),
         NEW n, n = Len(tac_list), NEW d, d = IF q = 0 THEN Literals[a] ELSE 0,
         NEW c, c = Len(label)
  PROVE  RelopDid(n, d, c, q)
<1>1. /\ n \in Nat /\ c \in Nat
      /\ tac_list \in Seq(TAC) /\ label \in Seq(Int)
  BY DEF TypeOK
<1>2. d \in Nat
  BY LoadFacts
<1>3. PICK u \in Seq(TAC) : /\ u = Load(a, q)
                            /\ Len(u) = d
                            /\ \A i \in 1 .. d : u[i].op = "ASSIGN" /\ u[i].label = 0
  BY LoadFacts
<1>4. Next_addr + Len(Load(a, q)) = n + d + 1
  <2>1. Next_addr = n + 1 /\ Len(Load(a, q)) = d
    BY <1>3 DEF Next_addr
  <2>2. \A x, y \in Nat : x + 1 + y = x + y + 1
    OBVIOUS
  <2>3. n + 1 + d = n + d + 1
    BY <1>1, <1>2, <2>2
  <2> QED
    BY <2>1, <2>3, Zenon
<1>5. PICK s \in FreshSwap :
        tac_list' = tac_list \o (Load(a, q) \o <<IfCode(a, s, c + 1), GotoCode(c + 2)>>)
  BY DEF Relop, Emit
<1>6. PICK y \in TAC : y = IfCode(a, s, c + 1) /\ y.op = "IF" /\ y.label = c + 1
  <2>1. IfCode(a, s, c + 1) \in TAC
    BY <1>1, Constructors
  <2> QED
    BY <2>1 DEF IfCode
<1>7. PICK z \in TAC : z = GotoCode(c + 2) /\ z.op = "GOTO" /\ z.label = c + 2
  <2>1. GotoCode(c + 2) \in TAC
    BY <1>1, Constructors
  <2> QED
    BY <2>1 DEF GotoCode
<1>8. PICK v, t : v = <<y, z>> /\ t = u \o v
  OBVIOUS
<1>8a. /\ t \in Seq(TAC)
       /\ Len(t) = Len(u) + 2
       /\ \A i \in 1 .. Len(u) : t[i] = u[i]
       /\ t[Len(u) + 1] = y
       /\ t[Len(u) + 2] = z
  BY <1>8, LoadCode
<1>9. tac_list' = tac_list \o t
  BY <1>3, <1>5, <1>6, <1>7, <1>8
<1>10. /\ tac_list' \in Seq(TAC)
       /\ Len(tac_list') = n + Len(t)
       /\ \A i \in 1 .. n : tac_list'[i] = tac_list[i]
       /\ \A i \in 1 .. Len(t) : tac_list'[n + i] = t[i]
  <2>1. tac_list \in Seq(TAC) /\ t \in Seq(TAC)
    BY <1>1, <1>8a
  <2> QED
    BY <2>1, <1>9, Extend
<1>11. Len(t) = d + 2 /\ t[d + 1] = y /\ t[d + 2] = z
  BY <1>3, <1>8a
<1>12. \A i \in 1 .. d : t[i].op = "ASSIGN"
  BY <1>3, <1>8a
<1>13. \A i \in n + 1 .. n + d : tac_list'[i].op = "ASSIGN"
  <2> SUFFICES ASSUME NEW i \in n + 1 .. n + d
               PROVE  tac_list'[i].op = "ASSIGN"
    OBVIOUS
  <2>1. i - n \in 1 .. d /\ i - n \in 1 .. d + 2 /\ n + (i - n) = i
    BY <1>1, <1>2
  <2>2. tac_list'[n + (i - n)] = t[i - n]
    BY <1>10, <1>11, <2>1
  <2> QED
    BY <1>12, <2>1, <2>2
<1>14. tac_list'[n + d + 1] = y /\ tac_list'[n + d + 2] = z
  <2>1. d + 1 \in 1 .. d + 2 /\ d + 2 \in 1 .. d + 2
    BY <1>2
  <2>2. n + (d + 1) = n + d + 1 /\ n + (d + 2) = n + d + 2
    BY <1>1, <1>2
  <2>3. tac_list'[n + (d + 1)] = t[d + 1] /\ tac_list'[n + (d + 2)] = t[d + 2]
    BY <1>10, <1>11, <2>1
  <2> QED
    BY <1>11, <2>2, <2>3
<1>15. Len(tac_list') = n + d + 2
  BY <1>1, <1>2, <1>10, <1>11
<1>16. /\ label' \in Seq(Int)
       /\ Len(label') = c + 2
       /\ \A i \in 1 .. c : label'[i] = label[i]
  <2>1. PICK two : two = <<Placeholder(n + d + 1), Placeholder(n + d + 1 + 1)>>
    OBVIOUS
  <2>2. two \in Seq(Int) /\ Len(two) = 2
    <3>1. Placeholder(n + d + 1) \in Int /\ Placeholder(n + d + 1 + 1) \in Int
      BY <1>1, <1>2 DEF Placeholder
    <3> QED
      BY <2>1, <3>1, Pair
  <2>3. label \in Seq(Int) /\ two \in Seq(Int)
    BY <1>1, <2>2
  <2>4. label' = label \o two
    BY <1>4, <2>1 DEF Relop
  <2>5. /\ label' \in Seq(Int)
        /\ Len(label') = Len(label) + Len(two)
        /\ \A i \in 1 .. Len(label) : label'[i] = label[i]
    BY <2>3, <2>4, Extend
  <2> QED
    BY <2>2, <2>5
<1>17. /\ stack' = Append(Keep(Depth - q), ExpFrame(n + d + 1))
       /\ UNCHANGED status /\ Operands(q)
  BY <1>4 DEF Relop
<1>18. /\ y.op = "IF" /\ y.label = c + 1
       /\ z.op = "GOTO" /\ z.label = c + 2
  BY <1>6, <1>7
<1> QED
  BY <1>1, <1>2, <1>10, <1>13, <1>14, <1>15, <1>16, <1>17, <1>18 DEF RelopDid

-----------------------------------------------------------------------------
(***************************************************************************)
(* A frame against the code (the parts of TypeOK, ExpsOK, MarksOK and      *)
(* ResultOK about one frame), and a jump against a frame (Pending).        *)
(***************************************************************************)
FrameFits(code, fr) ==
  /\ fr.exp <= Len(code)
  /\ fr.kind \notin {"else", "while"} =>
       fr.exp \in 1 .. Len(code) /\ code[fr.exp].op \in {"IF", "ASSIGN"}
  /\ fr.kind \in {"and", "or", "if", "body"} => IsLabel(code, fr.at)
  /\ fr.kind = "else" => IsGoto(code, fr.at)
  /\ fr.kind \in {"while", "body"} => IsLabel(code, fr.start)
  /\ fr.kind \in {"exp", "operand"} => IsIf(code, fr.exp) \/ ~ IsGoto(code, fr.exp + 1)

PendingAt(code, fr, i) ==
  \/ /\ fr.kind \notin {"else", "while"}
     /\ IsIf(code, fr.exp)
     /\ \/ code[i].label = code[fr.exp].label
        \/ code[i].label = code[fr.exp + 1].label
  \/ fr.kind = "else" /\ i = fr.at

(* The first m calls are still open, and at most one more. *)
StackStep(m) ==
  /\ stack' \in Seq(Frame)
  /\ Len(stack') = m \/ Len(stack') = m + 1
  /\ \A f \in 1 .. m : stack'[f] = stack[f]

Distinct(m, fr) ==
  fr.kind \notin {"else", "while"} =>
    \A f \in 1 .. m : stack[f].kind \notin {"else", "while"} => stack[f].exp # fr.exp

NewFrameOK(m) ==
  Len(stack') = m + 1 => /\ FrameFits(tac_list', stack'[m + 1])
                         /\ Distinct(m, stack'[m + 1])

(* Inside an operator only expressions are opened, and a GOTO is never the next code. *)
Calm(m) ==
  \A f \in 1 .. m : stack[f].kind = "operand" =>
    /\ ~ IsGoto(tac_list', Len(tac_list) + 1)
    /\ Len(stack') = m + 1 => stack'[m + 1].kind \in {"exp", "operand", "and", "or"}

(* The instructions after position n. *)
NewCodeOK(n) ==
  \A i \in n + 1 .. Len(tac_list') :
    /\ tac_list'[i].op \in {"IF", "GOTO"} => tac_list'[i].label \in 1 .. Len(label')
    /\ tac_list'[i].op = "IF" => IsGoto(tac_list', i + 1)

LEMMA PendingSplit ==
  ASSUME NEW i
  PROVE  /\ Pending(i) <=> \E f \in 1 .. Depth : PendingAt(tac_list, stack[f], i)
         /\ Pending(i)' <=> \E f \in 1 .. Len(stack') : PendingAt(tac_list', stack'[f], i)
BY DEF Pending, PendingAt, Conds, Depth

LEMMA Fits ==
  ASSUME IInv, NEW f \in 1 .. Depth
  PROVE  FrameFits(tac_list, stack[f]) /\ stack[f] \in Frame
<1>1. stack[f] \in Frame
  BY DEF IInv, TypeOK, Depth
<1>2. stack[f].exp <= Len(tac_list)
  BY DEF IInv, TypeOK
<1>3. stack[f].kind \notin {"else", "while"} =>
        stack[f].exp \in 1 .. Len(tac_list) /\ tac_list[stack[f].exp].op \in {"IF", "ASSIGN"}
  BY DEF IInv, ExpsOK, Conds
<1>4. stack[f].kind \in {"exp", "operand"} =>
        IsIf(tac_list, stack[f].exp) \/ ~ IsGoto(tac_list, stack[f].exp + 1)
  BY DEF IInv, ResultOK
<1> QED
  BY <1>1, <1>2, <1>3, <1>4 DEF IInv, MarksOK, FrameFits

LEMMA FitsKept ==
  ASSUME TypeOK, Grows, NEW fr \in Frame, FrameFits(tac_list, fr), fr.kind # "exp",
         fr.kind = "operand" => ~ IsGoto(tac_list', Len(tac_list) + 1)
  PROVE  FrameFits(tac_list', fr)
<1>1. fr.exp \in Nat /\ fr.at \in Nat /\ fr.start \in Nat
  BY DEF Frame
<1>2. Len(tac_list) \in Nat /\ Len(tac_list') \in Nat /\ Len(tac_list) <= Len(tac_list')
  BY DEF TypeOK, Grows
<1>3. fr.exp <= Len(tac_list')
  BY <1>1, <1>2 DEF FrameFits
<1>4. fr.kind \notin {"else", "while"} =>
       fr.exp \in 1 .. Len(tac_list') /\ tac_list'[fr.exp].op \in {"IF", "ASSIGN"}
  BY <1>1, <1>2 DEF FrameFits, Grows
<1>5. /\ IsLabel(tac_list, fr.at) => IsLabel(tac_list', fr.at)
      /\ IsGoto(tac_list, fr.at) => IsGoto(tac_list', fr.at)
      /\ IsLabel(tac_list, fr.start) => IsLabel(tac_list', fr.start)
  BY <1>1, ClassKept
<1>6. ASSUME fr.kind = "operand"
      PROVE  IsIf(tac_list', fr.exp) \/ ~ IsGoto(tac_list', fr.exp + 1)
  <2>1. IsIf(tac_list, fr.exp) \/ ~ IsGoto(tac_list, fr.exp + 1)
    BY <1>6 DEF FrameFits
  <2>2. fr.exp \in 1 .. Len(tac_list)
    BY <1>6 DEF FrameFits
  <2>3. CASE IsIf(tac_list, fr.exp)
    BY <1>1, <2>3, ClassKept
  <2>4. CASE ~ IsGoto(tac_list, fr.exp + 1) /\ fr.exp + 1 \in 1 .. Len(tac_list)
    <3>1. tac_list[fr.exp + 1].op # "GOTO"
      BY <2>4 DEF IsGoto, TypeOK
    <3>2. tac_list'[fr.exp + 1].op # "GOTO"
      BY <2>4, <3>1 DEF Grows
    <3> QED
      BY <3>2 DEF IsGoto
  <2>5. CASE fr.exp + 1 \notin 1 .. Len(tac_list)
    <3>1. fr.exp + 1 = Len(tac_list) + 1
      BY <1>2, <2>2, <2>5
    <3> QED
      BY <1>6, <3>1
  <2> QED
    BY <2>1, <2>3, <2>4, <2>5
<1> QED
  BY <1>3, <1>4, <1>5, <1>6 DEF FrameFits

(* The frames after a step fit the code after it. *)
LEMMA FramesKept ==
  ASSUME IInv, Grows, NEW m \in 0 .. Depth, StackStep(m), NewFrameOK(m), Calm(m),
         \A f \in 1 .. m : stack[f].kind # "exp"
  PROVE  /\ \A f \in 1 .. Depth' : stack'[f].exp <= Len(tac_list')
         /\ ExpsOK'
         /\ MarksOK'
         /\ ResultOK'
         /\ Nesting'
<1>1. \A f \in 1 .. Len(stack') : FrameFits(tac_list', stack'[f])
  <2> SUFFICES ASSUME NEW f \in 1 .. Len(stack')
               PROVE  FrameFits(tac_list', stack'[f])
    OBVIOUS
  <2>1. CASE f \in 1 .. m
    <3>1. f \in 1 .. Depth
      BY <2>1 DEF Depth, IInv, TypeOK
    <3>2. FrameFits(tac_list, stack[f]) /\ stack[f] \in Frame
      BY <3>1, Fits
    <3>3. stack'[f] = stack[f] /\ stack[f].kind # "exp"
      BY <2>1 DEF StackStep
    <3>4. stack[f].kind = "operand" => ~ IsGoto(tac_list', Len(tac_list) + 1)
      BY <2>1 DEF Calm
    <3> QED
      BY <3>2, <3>3, <3>4, FitsKept DEF IInv
  <2>2. CASE f \notin 1 .. m
    <3>1. f = m + 1 /\ Len(stack') = m + 1
      BY <2>2 DEF StackStep, Depth
    <3> QED
      BY <3>1 DEF NewFrameOK
  <2> QED
    BY <2>1, <2>2
<1>2. \A f \in 1 .. Len(stack') : stack'[f].kind = "exp" => f = Len(stack')
  BY DEF StackStep, Depth
<1>3. ASSUME NEW f \in 1 .. Len(stack'), NEW g \in 1 .. Len(stack'),
             stack'[f].kind \notin {"else", "while"},
             stack'[g].kind \notin {"else", "while"},
             stack'[f].exp = stack'[g].exp
      PROVE  f = g
  <2>1. CASE f \in 1 .. m /\ g \in 1 .. m
    <3>1. f \in 1 .. Depth /\ g \in 1 .. Depth
      BY <2>1 DEF Depth, IInv, TypeOK
    <3>2. stack'[f] = stack[f] /\ stack'[g] = stack[g]
      BY <2>1 DEF StackStep
    <3> QED
      BY <1>3, <3>1, <3>2 DEF IInv, ExpsOK, Conds
  <2>2. CASE f \in 1 .. m /\ g \notin 1 .. m
    <3>1. g = m + 1 /\ Len(stack') = m + 1
      BY <2>2 DEF StackStep, Depth
    <3>2. stack'[f] = stack[f]
      BY <2>2 DEF StackStep
    <3> QED
      BY <1>3, <2>2, <3>1, <3>2 DEF NewFrameOK, Distinct
  <2>3. CASE f \notin 1 .. m /\ g \in 1 .. m
    <3>1. f = m + 1 /\ Len(stack') = m + 1
      BY <2>3 DEF StackStep, Depth
    <3>2. stack'[g] = stack[g]
      BY <2>3 DEF StackStep
    <3> QED
      BY <1>3, <2>3, <3>1, <3>2 DEF NewFrameOK, Distinct
  <2>4. CASE f \notin 1 .. m /\ g \notin 1 .. m
    BY <2>4 DEF StackStep, Depth
  <2> QED
    BY <2>1, <2>2, <2>3, <2>4
<1>4. Depth' = Len(stack')
  BY DEF Depth
<1>5. ExpsOK'
  BY <1>1, <1>3, <1>4 DEF ExpsOK, Conds, FrameFits
<1>6. Nesting'
  <2> SUFFICES ASSUME NEW f \in 1 .. Len(stack'), NEW g \in 1 .. Len(stack'),
                      stack'[f].kind = "operand", f < g
               PROVE  stack'[g].kind \in {"exp", "operand", "and", "or"}
    BY <1>4 DEF Nesting
  <2>1. Depth \in Nat /\ m \in Nat /\ m <= Depth /\ Len(stack') \in Nat
    BY DEF Depth, IInv, TypeOK, StackStep
  <2>2. f \in 1 .. m /\ stack'[f] = stack[f]
    BY <2>1 DEF StackStep
  <2>3. CASE g \in 1 .. m
    <3>1. stack'[g] = stack[g] /\ g \in 1 .. Depth /\ f \in 1 .. Depth
      BY <2>1, <2>2, <2>3 DEF StackStep
    <3> QED
      BY <2>2, <3>1 DEF IInv, Nesting
  <2>4. CASE g \notin 1 .. m
    <3>1. g = m + 1 /\ Len(stack') = m + 1
      BY <2>1, <2>4 DEF StackStep
    <3> QED
      BY <2>2, <3>1 DEF Calm
  <2> QED
    BY <2>3, <2>4
<1> QED
  BY <1>1, <1>2, <1>4, <1>5, <1>6 DEF MarksOK, ResultOK, FrameFits

(* The code after a step keeps the shape TypeOK and IfHasGoto ask for. *)
LEMMA CodeKept ==
  ASSUME IInv, Grows, NewCodeOK(Len(tac_list)), label' \in Seq(Int),
         Len(label) <= Len(label'),
         \A i \in Jumps : tac_list'[i].label \in 1 .. Len(label)
  PROVE  /\ \A i \in Jumps' : tac_list'[i].label \in 1 .. Len(label')
         /\ IfHasGoto'
<1>1. /\ Len(tac_list) \in Nat /\ Len(tac_list') \in Nat
      /\ Len(label) \in Nat /\ Len(label') \in Nat
  BY DEF IInv, TypeOK, Grows
<1>2. ASSUME NEW i \in Jumps'
      PROVE  tac_list'[i].label \in 1 .. Len(label')
  <2>1. CASE i \in 1 .. Len(tac_list)
    <3>1. i \in Jumps
      BY <1>2, <2>1 DEF Jumps, Grows
    <3> QED
      BY <1>1, <3>1
  <2>2. CASE i \in Len(tac_list) + 1 .. Len(tac_list')
    BY <1>2, <2>2 DEF NewCodeOK, Jumps
  <2> QED
    BY <1>1, <1>2, <2>1, <2>2 DEF Jumps
<1>3. ASSUME NEW i \in 1 .. Len(tac_list'), tac_list'[i].op = "IF"
      PROVE  IsGoto(tac_list', i + 1)
  <2>1. CASE i \in 1 .. Len(tac_list)
    <3>1. IsGoto(tac_list, i + 1)
      BY <1>3, <2>1 DEF IInv, IfHasGoto, Grows
    <3> QED
      BY <3>1, <2>1, ClassKept DEF IInv
  <2>2. CASE i \in Len(tac_list) + 1 .. Len(tac_list')
    BY <1>3, <2>2 DEF NewCodeOK
  <2> QED
    BY <1>1, <1>3, <2>1, <2>2
<1> QED
  BY <1>2, <1>3 DEF IfHasGoto

(* A jump that waits for an open call keeps waiting for it. *)
LEMMA PendingKept ==
  ASSUME IInv, Grows, \A j \in Jumps : SameJump(j),
         NEW i \in Jumps, NEW fr \in Frame, PendingAt(tac_list, fr, i)
  PROVE  PendingAt(tac_list', fr, i)
<1>1. CASE fr.kind = "else"
  BY <1>1 DEF PendingAt
<1>2. CASE /\ fr.kind \notin {"else", "while"}
           /\ IsIf(tac_list, fr.exp)
  <2>1. fr.exp \in Nat
    BY DEF Frame
  <2>2. fr.exp \in Jumps
    BY <1>2, <2>1 DEF IsIf, Jumps, IInv, TypeOK
  <2>3. IsGoto(tac_list, fr.exp + 1)
    BY <1>2, <2>2 DEF IInv, IfHasGoto, IsIf, Jumps
  <2>4. fr.exp + 1 \in Jumps
    BY <2>3 DEF IsGoto, Jumps, IInv, TypeOK
  <2>5. /\ tac_list'[i].label = tac_list[i].label
        /\ tac_list'[fr.exp].label = tac_list[fr.exp].label
        /\ tac_list'[fr.exp + 1].label = tac_list[fr.exp + 1].label
    BY <2>2, <2>4 DEF SameJump
  <2>6. IsIf(tac_list', fr.exp)
    BY <1>2, <2>1, ClassKept DEF IInv
  <2> QED
    BY <1>2, <2>5, <2>6 DEF PendingAt
<1> QED
  BY <1>1, <1>2 DEF PendingAt

(* Only the calls that return in a step can forget a jump. *)
LEMMA JumpsKept ==
  ASSUME IInv, Grows, Relabels, NEW m \in 0 .. Depth, StackStep(m), ~ lost,
         \A i \in Jumps : SameJump(i),
         \A f \in m + 1 .. Depth : \A i \in Jumps :
           PendingAt(tac_list, stack[f], i) => Resolved(i)' \/ Pending(i)',
         \A i \in Jumps' : i > Len(tac_list) => Resolved(i)' \/ Pending(i)'
  PROVE  \A i \in Jumps' : Resolved(i)' \/ Pending(i)'
<1> SUFFICES ASSUME NEW i \in Jumps', i <= Len(tac_list)
             PROVE  Resolved(i)' \/ Pending(i)'
  BY DEF Jumps, Grows, IInv, TypeOK
<1>1. i \in Jumps
  BY DEF Jumps, Grows, IInv, TypeOK
<1>2. CASE Resolved(i)
  BY <1>1, <1>2, ResolvedKept DEF IInv
<1>3. CASE Pending(i)
  <2>1. PICK f \in 1 .. Depth : PendingAt(tac_list, stack[f], i)
    BY <1>3, PendingSplit
  <2>2. CASE f \in 1 .. m
    <3>1. stack[f] \in Frame
      BY Fits
    <3>2. PendingAt(tac_list', stack[f], i)
      BY <1>1, <2>1, <3>1, PendingKept
    <3>3. stack'[f] = stack[f] /\ f \in 1 .. Len(stack')
      BY <2>2 DEF StackStep, Depth
    <3>4. PendingAt(tac_list', stack'[f], i)
      BY <3>2, <3>3
    <3> QED
      BY <3>3, <3>4, PendingSplit
  <2>3. CASE f \in m + 1 .. Depth
    BY <1>1, <2>1, <2>3
  <2> QED
    BY <2>2, <2>3 DEF Depth, IInv, TypeOK
<1> QED
  BY <1>1, <1>2, <1>3 DEF IInv, NoJumpForgotten

(* The history variable. *)
LEMMA LostStep ==
  ASSUME lost' = (lost \/ Loses)
  PROVE  /\ lost' \in BOOLEAN
         /\ ~ lost' => ~ Loses
BY DEF Loses

LEMMA LostStays ==
  ASSUME lost \in BOOLEAN, lost' = (lost \/ Loses), ~ lost'
  PROVE  ~ lost
OBVIOUS

(* A step of a running program, put together. *)
LEMMA Assemble ==
  ASSUME IInv, Grows, Relabels, NEW m \in 0 .. Depth,
         StackStep(m), NewFrameOK(m), Calm(m), NewCodeOK(Len(tac_list)),
         \A f \in 1 .. m : stack[f].kind # "exp",
         \A i \in Jumps : tac_list'[i].label \in 1 .. Len(label),
         status' = "running",
         lost' = (lost \/ Loses),
         ~ lost /\ ~ Loses => \A i \in Jumps' : Resolved(i)' \/ Pending(i)'
  PROVE  IInv'
<1>1. /\ \A f \in 1 .. Depth' : stack'[f].exp <= Len(tac_list')
      /\ ExpsOK' /\ MarksOK' /\ ResultOK' /\ Nesting'
  BY FramesKept
<1>2. /\ \A i \in Jumps' : tac_list'[i].label \in 1 .. Len(label')
      /\ IfHasGoto'
  BY CodeKept DEF Relabels
<1>3. lost' \in BOOLEAN
  BY LostStep
<1>4. TypeOK'
  BY <1>1, <1>2, <1>3 DEF TypeOK, Grows, Relabels, StackStep
<1>5. NoJumpForgotten'
  <2>1. ~ lost' => ~ lost /\ ~ Loses
    BY LostStep, LostStays DEF IInv, TypeOK
  <2> QED
    BY <2>1 DEF NoJumpForgotten
<1>6. DoneOK'
  BY DEF DoneOK
<1> QED
  BY <1>1, <1>2, <1>4, <1>5, <1>6 DEF IInv

-----------------------------------------------------------------------------
(* Code appended to code that is left alone. *)
LEMMA Appended ==
  ASSUME IInv, tac_list' \in Seq(TAC), Len(tac_list) <= Len(tac_list'),
         \A i \in 1 .. Len(tac_list) : tac_list'[i] = tac_list[i]
  PROVE  /\ Grows
         /\ \A i \in Jumps : SameJump(i) /\ tac_list'[i].label \in 1 .. Len(label)
BY DEF Grows, SameJump, Jumps, IInv, TypeOK

(* One instruction that is no jump. *)
LEMMA AppendedOne ==
  ASSUME IInv, NEW c \in TAC, Emit(<<c>>), c.op \notin {"IF", "GOTO"},
         UNCHANGED label
  PROVE  /\ Grows
         /\ Relabels
         /\ \A i \in Jumps : SameJump(i) /\ tac_list'[i].label \in 1 .. Len(label)
         /\ NewCodeOK(Len(tac_list))
         /\ Len(tac_list) \in Nat
         /\ Len(tac_list') = Len(tac_list) + 1
         /\ tac_list'[Len(tac_list) + 1] = c
         /\ \A i \in Jumps' : ~ (i > Len(tac_list))
         /\ ~ IsGoto(tac_list', Len(tac_list) + 1)
<1>1. /\ tac_list \in Seq(TAC) /\ Len(tac_list) \in Nat
      /\ label \in Seq(Int) /\ Len(label) \in Nat
  BY DEF IInv, TypeOK
<1>2. /\ tac_list' \in Seq(TAC)
      /\ Len(tac_list') = Len(tac_list) + 1
      /\ \A i \in 1 .. Len(tac_list) : tac_list'[i] = tac_list[i]
      /\ tac_list'[Len(tac_list) + 1] = c
  BY <1>1, Emit1
<1>3. /\ Grows
      /\ \A i \in Jumps : SameJump(i) /\ tac_list'[i].label \in 1 .. Len(label)
  BY <1>1, <1>2, Appended
<1>4. Relabels
  BY <1>1 DEF Relabels
<1>5. NewCodeOK(Len(tac_list)) /\ \A i \in Jumps' : ~ (i > Len(tac_list))
  BY <1>1, <1>2 DEF NewCodeOK, Jumps
<1>6. ~ IsGoto(tac_list', Len(tac_list) + 1)
  BY <1>2 DEF IsGoto
<1> QED
  BY <1>1, <1>2, <1>3, <1>4, <1>5, <1>6

(* A statement is expected: no result is on the stack. *)
LEMMA NoResult ==
  ASSUME IInv, ~ TopIs({"exp"})
  PROVE  \A f \in 1 .. Depth : stack[f].kind # "exp"
<1>1. Depth \in Nat
  BY DEF IInv, TypeOK, Depth
<1>2. Depth > 0 => stack[Depth].kind # "exp"
  BY DEF TopIs, Top
<1>3. \A f \in 1 .. Depth : stack[f].kind = "exp" => f = Depth
  <2>1. ResultOK
    BY DEF IInv
  <2> QED
    BY <2>1 DEF ResultOK
<1> SUFFICES ASSUME NEW f \in 1 .. Depth, stack[f].kind = "exp"
             PROVE  FALSE
  OBVIOUS
<1>4. f = Depth /\ Depth > 0
  BY <1>1, <1>3
<1> QED
  BY <1>2, <1>4

LEMMA AtStmtNoResult ==
  ASSUME IInv, AtStmt
  PROVE  ~ TopIs({"exp"})
BY DEF AtStmt, TopIs

(* A new instruction is nobody's expression yet. *)
LEMMA FreshDistinct ==
  ASSUME IInv, NEW fr \in Frame, fr.exp > Len(tac_list), NEW m \in 0 .. Depth
  PROVE  Distinct(m, fr)
<1>1. \A f \in Conds : stack[f].exp \in 1 .. Len(tac_list)
  BY DEF IInv, ExpsOK
<1>2. fr.exp \in Nat /\ Len(tac_list) \in Nat
  BY DEF IInv, TypeOK, Frame
<1>3. fr.exp \notin 1 .. Len(tac_list)
  BY <1>2
<1>4. \A f \in 1 .. m : f \in 1 .. Depth
  BY DEF IInv, TypeOK, Depth
<1> QED
  BY <1>1, <1>3, <1>4 DEF Distinct, Conds

(* Calls return, and at most one opens. *)
LEMMA Pushed ==
  ASSUME IInv, NEW m \in 0 .. Depth, NEW fr \in Frame,
         stack' = Append(Keep(m), fr)
  PROVE  StackStep(m) /\ stack'[m + 1] = fr /\ Len(stack') = m + 1
<1>1. stack \in Seq(Frame)
  BY DEF IInv, TypeOK
<1> QED
  BY <1>1, PushN DEF StackStep

LEMMA Popped ==
  ASSUME IInv, NEW m \in 0 .. Depth, stack' = Keep(m)
  PROVE  StackStep(m) /\ Len(stack') = m /\ NewFrameOK(m)
<1>1. stack \in Seq(Frame)
  BY DEF IInv, TypeOK
<1>2. StackStep(m) /\ Len(stack') = m
  BY <1>1, KeepN DEF StackStep
<1> QED
  BY <1>2 DEF NewFrameOK

(* The calls under an open statement are statements. *)
LEMMA NoOperand ==
  ASSUME IInv, NEW g \in 1 .. Depth,
         stack[g].kind \notin {"exp", "operand", "and", "or"}
  PROVE  \A f \in 1 .. g : stack[f].kind # "operand"
<1> SUFFICES ASSUME NEW f \in 1 .. g, stack[f].kind = "operand"
             PROVE  FALSE
  OBVIOUS
<1>1. f \in 1 .. Depth /\ f # g /\ f < g
  BY DEF Depth, IInv, TypeOK
<1> QED
  BY <1>1 DEF IInv, Nesting

LEMMA AtStmtNoOperand ==
  ASSUME IInv, AtStmt
  PROVE  \A f \in 1 .. Depth : stack[f].kind # "operand"
<1>1. CASE Depth > 0
  <2>1. Depth \in 1 .. Depth
    BY <1>1 DEF Depth, IInv, TypeOK
  <2>2. stack[Depth].kind \notin {"exp", "operand", "and", "or"}
    BY <1>1 DEF AtStmt, Top
  <2> QED
    BY <2>1, <2>2, NoOperand
<1>2. CASE ~ (Depth > 0)
  BY <1>2 DEF Depth, IInv, TypeOK
<1> QED
  BY <1>1, <1>2

LEMMA StmtExpNoOperand ==
  ASSUME IInv, StmtExp
  PROVE  \A f \in 1 .. Depth - 1 : stack[f].kind # "operand"
<1>1. Depth \in Nat
  BY DEF Depth, IInv, TypeOK
<1>2. CASE Depth > 1
  <2>1. Depth - 1 \in 1 .. Depth
    BY <1>1, <1>2
  <2>2. stack[Depth - 1].kind \notin {"exp", "operand", "and", "or"}
    BY <1>2 DEF StmtExp, Under
  <2> QED
    BY <2>1, <2>2, NoOperand
<1>3. CASE ~ (Depth > 1)
  BY <1>1, <1>3
<1> QED
  BY <1>2, <1>3

LEMMA CalmStatement ==
  ASSUME NEW m, \A f \in 1 .. m : stack[f].kind # "operand"
  PROVE  Calm(m)
BY DEF Calm

LEMMA CalmExpression ==
  ASSUME NEW m, ~ IsGoto(tac_list', Len(tac_list) + 1),
         stack'[m + 1].kind \in {"exp", "operand", "and", "or"}
  PROVE  Calm(m)
BY DEF Calm

(* The n innermost frames are results, and they are the only ones. *)
Spends(n) ==
  /\ Depth \in Nat /\ Depth - n \in 0 .. Depth
  /\ \A f \in 1 .. Depth - n : stack[f].kind # "exp"
  /\ \A f \in Depth - n + 1 .. Depth : stack[f].kind \in {"exp", "operand"}

LEMMA OperandsSpent ==
  ASSUME IInv, NEW n \in Arity, Operands(n)
  PROVE  Spends(n)
<1>1. Depth \in Nat /\ \A f \in 1 .. Depth : stack[f].kind = "exp" => f = Depth
  BY DEF IInv, TypeOK, ResultOK, Depth
<1>2. CASE n = 0
  <2>1. \A f \in 1 .. Depth : stack[f].kind # "exp"
    BY <1>2, NoResult DEF Operands
  <2> QED
    BY <1>1, <1>2, <2>1 DEF Spends
<1>3. CASE n = 1
  <2>1. Depth > 0 /\ stack[Depth].kind = "exp"
    BY <1>3 DEF Operands, TopIs, Top
  <2> QED
    BY <1>1, <1>3, <2>1 DEF Spends
<1>4. CASE n = 2
  <2>1. Depth > 1 /\ stack[Depth].kind = "exp" /\ stack[Depth - 1].kind = "operand"
    BY <1>4 DEF Operands, Returned, Top, Under
  <2>2. \A f \in Depth - n + 1 .. Depth : f = Depth \/ f = Depth - 1
    BY <1>1, <1>4
  <2>3. \A f \in Depth - n + 1 .. Depth : stack[f].kind \in {"exp", "operand"}
    BY <2>1, <2>2
  <2> QED
    BY <1>1, <1>4, <2>1, <2>3 DEF Spends
<1> QED
  BY <1>2, <1>3, <1>4 DEF Arity

LEMMA StatementSpends ==
  ASSUME IInv, NEW n \in {0, 1}, StmtUses(n)
  PROVE  /\ Spends(n)
         /\ \A f \in 1 .. Depth - n : stack[f].kind # "operand"
<1>1. Depth \in Nat /\ \A f \in 1 .. Depth : stack[f].kind = "exp" => f = Depth
  BY DEF IInv, TypeOK, ResultOK, Depth
<1>2. CASE n = 0
  <2>1. AtStmt
    BY <1>2 DEF StmtUses
  <2>2. \A f \in 1 .. Depth : stack[f].kind # "exp" /\ stack[f].kind # "operand"
    BY <2>1, AtStmtNoResult, NoResult, AtStmtNoOperand
  <2> QED
    BY <1>1, <1>2, <2>2 DEF Spends
<1>3. CASE n = 1
  <2>1. StmtExp
    BY <1>3 DEF StmtUses
  <2>2. Depth > 0 /\ stack[Depth].kind = "exp"
    BY <2>1 DEF StmtExp, TopIs, Top
  <2> QED
    BY <1>1, <1>3, <2>1, <2>2, StmtExpNoOperand DEF Spends
<1> QED
  BY <1>2, <1>3

(* No jump waits for a result that is no condition. *)
LEMMA SpentAwaitsNothing ==
  ASSUME NEW n, Spends(n), ~ HoldsIf(n),
         NEW f \in Depth - n + 1 .. Depth, NEW i
  PROVE  ~ PendingAt(tac_list, stack[f], i)
BY DEF Spends, HoldsIf, PendingAt

(***************************************************************************)
(* Results are used as values by one instruction that is no jump: Value,   *)
(* Write and Return.                                                       *)
(***************************************************************************)
LEMMA UseKeeps ==
  ASSUME IInv, NEW c \in TAC, Emit(<<c>>), c.op \notin {"IF", "GOTO"},
         NEW n \in Arity, Spends(n), UsesValues(n),
         StackStep(Depth - n), NewFrameOK(Depth - n), Calm(Depth - n),
         status = "running", UNCHANGED <<label, status>>,
         lost' = (lost \/ Loses)
  PROVE  IInv'
<1>1. /\ Grows
      /\ Relabels
      /\ \A i \in Jumps : SameJump(i) /\ tac_list'[i].label \in 1 .. Len(label)
      /\ NewCodeOK(Len(tac_list))
      /\ \A i \in Jumps' : ~ (i > Len(tac_list))
  BY AppendedOne
<1>2. Depth - n \in 0 .. Depth /\ \A f \in 1 .. Depth - n : stack[f].kind # "exp"
  BY DEF Spends
<1>3. ~ Loses => \A f \in Depth - n + 1 .. Depth : \A i \in Jumps :
                   ~ PendingAt(tac_list, stack[f], i)
  BY SpentAwaitsNothing DEF Loses
<1>4. ~ lost /\ ~ Loses => \A i \in Jumps' : Resolved(i)' \/ Pending(i)'
  BY <1>1, <1>2, <1>3, JumpsKept
<1> QED
  BY <1>1, <1>2, <1>4, Assemble

LEMMA ValueKeeps ==
  ASSUME IInv, NEW n \in Arity, Value(n), lost' = (lost \/ Loses)
  PROVE  IInv'
<1>1. PICK s \in FreshSwap : Emit(<<AssignCode(s)>>)
  BY DEF Value
<1>2. PICK c \in TAC : c = AssignCode(s) /\ c.op = "ASSIGN"
  <2>1. s \in BOOLEAN
    BY FreshSwapAssumption
  <2> QED
    BY <2>1, Constructors DEF AssignCode
<1>3. /\ Grows
      /\ Len(tac_list) \in Nat
      /\ Len(tac_list') = Len(tac_list) + 1
      /\ tac_list'[Len(tac_list) + 1] = c
      /\ ~ IsGoto(tac_list', Len(tac_list) + 1)
  BY <1>1, <1>2, AppendedOne DEF Value
<1>4. Spends(n) /\ UsesValues(n) /\ Depth \in Nat /\ Depth - n \in 0 .. Depth
  BY OperandsSpent DEF Value, UsesValues, Spends
<1>5. PICK fr \in Frame : /\ stack' = Append(Keep(Depth - n), fr)
                          /\ fr.kind = "exp"
                          /\ fr.exp = Len(tac_list) + 1
  <2>1. PICK fr \in Frame : /\ fr = ExpFrame(Len(tac_list) + 1)
                            /\ fr.kind = "exp"
                            /\ fr.exp = Len(tac_list) + 1
    BY <1>3, ExpFrames
  <2> QED
    BY <2>1 DEF Value, Next_addr
<1>6. StackStep(Depth - n) /\ stack'[Depth - n + 1] = fr
  BY <1>4, <1>5, Pushed
<1>7. NewFrameOK(Depth - n)
  <2>1. ~ IsGoto(tac_list', fr.exp + 1)
    BY <1>3, <1>5 DEF IsGoto
  <2>2. FrameFits(tac_list', fr)
    BY <1>2, <1>3, <1>5, <2>1 DEF FrameFits
  <2>3. Distinct(Depth - n, fr)
    BY <1>3, <1>4, <1>5, FreshDistinct
  <2> QED
    BY <1>6, <2>2, <2>3 DEF NewFrameOK
<1>8. Calm(Depth - n)
  BY <1>3, <1>5, <1>6, CalmExpression
<1>9. status = "running" /\ UNCHANGED <<label, status>>
  BY DEF Value, Uses
<1> QED
  BY <1>1, <1>2, <1>4, <1>6, <1>7, <1>8, <1>9, UseKeeps

LEMMA RelopKeeps ==
  ASSUME IInv, NEW a \in Atoms, NEW q \in Arity, Relop(a, q), lost' = (lost \/ Loses)
  PROVE  IInv'
<1>0. TypeOK
  BY DEF IInv
<1>1. PICK n, d, c : /\ n = Len(tac_list) /\ c = Len(label)
                     /\ d = IF q = 0 THEN Literals[a] ELSE 0
  OBVIOUS
<1>1a. RelopDid(n, d, c, q)
  BY <1>0, <1>1, RelopEffect
<1>2. /\ n \in Nat /\ d \in Nat /\ c \in Nat
      /\ tac_list' \in Seq(TAC)
      /\ Len(tac_list') = n + d + 2
      /\ \A i \in 1 .. n : tac_list'[i] = tac_list[i]
      /\ \A i \in n + 1 .. n + d : tac_list'[i].op = "ASSIGN"
      /\ tac_list'[n + d + 1].op = "IF" /\ tac_list'[n + d + 1].label = c + 1
      /\ tac_list'[n + d + 2].op = "GOTO" /\ tac_list'[n + d + 2].label = c + 2
      /\ label' \in Seq(Int)
      /\ Len(label') = c + 2
      /\ \A i \in 1 .. c : label'[i] = label[i]
      /\ stack' = Append(Keep(Depth - q), ExpFrame(n + d + 1))
      /\ UNCHANGED status
      /\ Operands(q)
  BY <1>1a DEF RelopDid
<1>2a. /\ n = Len(tac_list) /\ n \in Nat /\ d \in Nat
       /\ Len(tac_list') = n + d + 2
  BY <1>1, <1>2
<1>3. /\ Grows
      /\ \A i \in Jumps : SameJump(i) /\ tac_list'[i].label \in 1 .. Len(label)
  <2>1. Len(tac_list) <= Len(tac_list')
    BY <1>2a
  <2>2. tac_list' \in Seq(TAC)
    BY <1>2
  <2>3. \A i \in 1 .. Len(tac_list) : tac_list'[i] = tac_list[i]
    BY <1>1, <1>2
  <2> QED
    BY <2>1, <2>2, <2>3, Appended
<1>4. Relabels
  <2>1. c <= c + 2
    BY <1>2
  <2> QED
    BY <1>1, <1>2, <2>1 DEF Relabels
<1>5. \A i \in n + 1 .. Len(tac_list') :
         i \in n + 1 .. n + d \/ i = n + d + 1 \/ i = n + d + 2
  BY <1>2a
<1>6. IsIf(tac_list', n + d + 1) /\ IsGoto(tac_list', n + d + 2)
  BY <1>2 DEF IsIf, IsGoto
<1>7. NewCodeOK(Len(tac_list))
  <2> SUFFICES ASSUME NEW i \in n + 1 .. Len(tac_list')
               PROVE  /\ tac_list'[i].op \in {"IF", "GOTO"} =>
                           tac_list'[i].label \in 1 .. Len(label')
                      /\ tac_list'[i].op = "IF" => IsGoto(tac_list', i + 1)
    BY <1>1 DEF NewCodeOK
  <2>1. CASE i \in n + 1 .. n + d
    BY <1>2, <2>1
  <2>2. CASE i = n + d + 1
    <3>1. i + 1 = n + d + 2
      BY <1>2, <2>2
    <3> QED
      BY <1>2, <1>6, <2>2, <3>1
  <2>3. CASE i = n + d + 2
    BY <1>2, <2>3
  <2> QED
    BY <1>5, <2>1, <2>2, <2>3
<1>7a. Spends(q) /\ Depth \in Nat /\ Depth - q \in 0 .. Depth
  BY <1>2, OperandsSpent DEF Spends
<1>8. PICK fr \in Frame : /\ stack' = Append(Keep(Depth - q), fr)
                          /\ fr.kind = "exp"
                          /\ fr.exp = n + d + 1
  <2>1. n + d + 1 \in Nat
    BY <1>2
  <2> QED
    BY <1>2, <2>1, ExpFrames
<1>8a. fr.exp = n + d + 1
  BY <1>8
<1>9. /\ StackStep(Depth - q) /\ stack'[Depth - q + 1] = fr
      /\ Len(stack') = Depth - q + 1
  BY <1>7a, <1>8, Pushed
<1>10. NewFrameOK(Depth - q)
  <2>1. FrameFits(tac_list', fr)
    BY <1>2, <1>6, <1>8 DEF FrameFits
  <2>2. Distinct(Depth - q, fr)
    <3>1. fr.exp > Len(tac_list)
      BY <1>2a, <1>8a
    <3> QED
      BY <1>7a, <3>1, FreshDistinct
  <2> QED
    BY <1>9, <2>1, <2>2 DEF NewFrameOK
<1>11. status' = "running"
  BY DEF Relop, Uses
<1>12. \A i \in Jumps' : i > Len(tac_list) => Pending(i)'
  <2> SUFFICES ASSUME NEW i \in Jumps', i > n
               PROVE  Pending(i)'
    BY <1>1
  <2>1. i = n + d + 1 \/ i = n + d + 2
    <3>1. /\ i \in 1 .. Len(tac_list')
          /\ tac_list'[i].op \in {"IF", "GOTO"}
      BY DEF Jumps
    <3>2. i \notin n + 1 .. n + d
      BY <1>2, <3>1
    <3>3. i \in Nat /\ i <= n + d + 2
      BY <1>2, <1>2a, <3>1
    <3> QED
      BY <1>2a, <3>2, <3>3
  <2>2. fr.exp + 1 = n + d + 2
    BY <1>2a, <1>8a
  <2>3. PendingAt(tac_list', fr, i)
    BY <1>6, <1>8, <2>1, <2>2 DEF PendingAt
  <2>4. Depth - q + 1 \in 1 .. Len(stack')
    BY <1>7a, <1>9
  <2> QED
    BY <1>9, <2>3, <2>4, PendingSplit
<1>13. ~ Loses => \A f \in Depth - q + 1 .. Depth : \A i \in Jumps :
                    ~ PendingAt(tac_list, stack[f], i)
  BY <1>7a, SpentAwaitsNothing DEF Loses, UsesValues
<1>14. \A f \in 1 .. Depth - q : stack[f].kind # "exp"
  BY <1>7a DEF Spends
<1>15. ~ lost /\ ~ Loses => \A i \in Jumps' : Resolved(i)' \/ Pending(i)'
  BY <1>3, <1>4, <1>7a, <1>9, <1>12, <1>13, JumpsKept
<1>16. Calm(Depth - q)
  <2>1. tac_list'[Len(tac_list) + 1].op # "GOTO"
    <3>1. CASE d = 0
      <4>1. n + d + 1 = Len(tac_list) + 1
        BY <1>2a, <3>1
      <4>2. tac_list'[n + d + 1].op = "IF"
        BY <1>2
      <4> QED
        BY <4>1, <4>2
    <3>2. CASE d # 0
      <4>1. Len(tac_list) + 1 \in n + 1 .. n + d
        BY <1>2a, <3>2
      <4>2. tac_list'[Len(tac_list) + 1].op = "ASSIGN"
        BY <1>2, <4>1
      <4> QED
        BY <4>2
    <3> QED
      BY <3>1, <3>2
  <2>2. ~ IsGoto(tac_list', Len(tac_list) + 1)
    BY <2>1 DEF IsGoto
  <2> QED
    BY <1>8, <1>9, <2>2, CalmExpression
<1> QED
  BY <1>3, <1>4, <1>7, <1>7a, <1>9, <1>10, <1>11, <1>14, <1>15, <1>16, Assemble

(* The innermost frame, when there is one. *)
LEMMA TopFits ==
  ASSUME IInv, Depth > 0
  PROVE  /\ Depth \in Nat /\ Depth - 1 \in 0 .. Depth /\ Depth \in 1 .. Depth
         /\ Top \in Frame
         /\ FrameFits(tac_list, Top)
         /\ Top.exp \in Nat /\ Top.at \in Nat /\ Top.start \in Nat
         /\ \A f \in 1 .. Depth - 1 : stack[f].kind # "exp"
<1>1. Depth \in Nat
  BY DEF IInv, TypeOK, Depth
<1>2. Depth - 1 \in 0 .. Depth /\ Depth \in 1 .. Depth
  BY <1>1
<1>3. Top \in Frame /\ FrameFits(tac_list, Top)
  BY <1>2, Fits DEF Top
<1>4. \A f \in 1 .. Depth - 1 : stack[f].kind # "exp"
  BY <1>1 DEF IInv, ResultOK
<1> QED
  BY <1>1, <1>2, <1>3, <1>4 DEF Frame

(* No frame under the innermost holds its expression. *)
LEMMA TopDistinct ==
  ASSUME IInv, Depth > 0, Top.kind \notin {"else", "while"},
         NEW m \in 0 .. Depth - 1, NEW fr, fr.exp = Top.exp
  PROVE  Distinct(m, fr)
<1>1. Depth \in Nat /\ \A f \in 1 .. m : f \in 1 .. Depth /\ f # Depth
  BY DEF IInv, TypeOK, Depth
<1> QED
  BY <1>1 DEF Distinct, IInv, ExpsOK, Conds, Top

(* A frame that takes over an expression takes over the jumps it awaits. *)
LEMMA PendingInherited ==
  ASSUME NEW code, NEW i, NEW fr, NEW gr, PendingAt(code, fr, i),
         fr.kind # "else", gr.kind \notin {"else", "while"}, gr.exp = fr.exp
  PROVE  PendingAt(code, gr, i)
BY DEF PendingAt

(***************************************************************************)
(* A finished expression is handed from the innermost frame to the call    *)
(* that asked for it, and a LABEL is emitted: Connective, IfCond and       *)
(* WhileCond.                                                              *)
(***************************************************************************)
LEMMA HandOver ==
  ASSUME IInv, Emit(<<LabelCode>>), UNCHANGED <<label, status>>, status = "running",
         Depth > 0, Top.kind = "exp",
         NEW m \in 0 .. Depth - 1,
         m = Depth - 1 \/ (m = Depth - 2 /\ Under.kind = "while"),
         NEW fr \in Frame, stack' = Append(Keep(m), fr),
         fr.kind \in {"and", "or", "if", "body"}, fr.exp = Top.exp,
         fr.at = Next_addr, fr.kind = "body" => IsLabel(tac_list, fr.start),
         fr.kind \in {"and", "or"} \/ \A f \in 1 .. m : stack[f].kind # "operand",
         lost' = (lost \/ Loses)
  PROVE  IInv'
<1>1. PICK c \in TAC : c = LabelCode /\ c.op = "LABEL"
  BY Constructors DEF LabelCode
<1>2. /\ Grows
      /\ Relabels
      /\ \A i \in Jumps : SameJump(i) /\ tac_list'[i].label \in 1 .. Len(label)
      /\ NewCodeOK(Len(tac_list))
      /\ Len(tac_list) \in Nat
      /\ Len(tac_list') = Len(tac_list) + 1
      /\ tac_list'[Len(tac_list) + 1] = c
      /\ \A i \in Jumps' : ~ (i > Len(tac_list))
      /\ ~ IsGoto(tac_list', Len(tac_list) + 1)
  BY <1>1, AppendedOne
<1>3. /\ Depth \in Nat /\ Depth \in 1 .. Depth
      /\ Top \in Frame /\ FrameFits(tac_list, Top)
      /\ Top.exp \in Nat
      /\ \A f \in 1 .. Depth - 1 : stack[f].kind # "exp"
  BY TopFits
<1>4. m \in 0 .. Depth /\ \A f \in 1 .. m : stack[f].kind # "exp"
  BY <1>3
<1>5. StackStep(m) /\ stack'[m + 1] = fr /\ Len(stack') = m + 1
  BY <1>4, Pushed
<1>6. NewFrameOK(m)
  <2>1. IsLabel(tac_list', fr.at)
    BY <1>1, <1>2 DEF IsLabel, Next_addr
  <2>2. IsLabel(tac_list, fr.start) => IsLabel(tac_list', fr.start)
    BY <1>2, ClassKept DEF Frame, IInv
  <2>3. fr.exp \in 1 .. Len(tac_list') /\ tac_list'[fr.exp].op \in {"IF", "ASSIGN"}
    <3>1. fr.exp \in 1 .. Len(tac_list) /\ tac_list[fr.exp].op \in {"IF", "ASSIGN"}
      BY <1>3 DEF FrameFits
    <3> QED
      BY <1>2, <3>1 DEF Grows
  <2>4. FrameFits(tac_list', fr)
    BY <1>2, <2>1, <2>2, <2>3 DEF FrameFits
  <2>5. Distinct(m, fr)
    BY TopDistinct
  <2> QED
    BY <1>5, <2>4, <2>5 DEF NewFrameOK
<1>7. ASSUME NEW f \in m + 1 .. Depth, NEW i \in Jumps,
             PendingAt(tac_list, stack[f], i)
      PROVE  Pending(i)'
  <2>1. f = Depth \/ stack[f].kind = "while"
    BY <1>3 DEF Under
  <2>2. f = Depth
    BY <1>7, <2>1 DEF PendingAt
  <2>3. PendingAt(tac_list', stack[f], i)
    BY <1>2, <1>3, <1>7, <2>2, PendingKept DEF Top
  <2>4. PendingAt(tac_list', fr, i)
    BY <2>2, <2>3, PendingInherited DEF Top
  <2>5. m + 1 \in 1 .. Len(stack')
    BY <1>5
  <2> QED
    BY <1>5, <2>4, <2>5, PendingSplit
<1>8. ~ lost => \A i \in Jumps' : Resolved(i)' \/ Pending(i)'
  BY <1>2, <1>4, <1>5, <1>7, JumpsKept
<1>9. Calm(m)
  BY <1>2, <1>5, CalmExpression, CalmStatement
<1> QED
  BY <1>2, <1>4, <1>5, <1>6, <1>8, <1>9, Assemble

(* The code and the labels are left alone. *)
LEMMA CodeSame ==
  ASSUME IInv, UNCHANGED <<tac_list, label>>
  PROVE  /\ Grows
         /\ Relabels
         /\ \A i \in Jumps : SameJump(i) /\ tac_list'[i].label \in 1 .. Len(label)
         /\ NewCodeOK(Len(tac_list))
         /\ \A i \in Jumps' : ~ (i > Len(tac_list))
BY DEF IInv, TypeOK, Grows, Relabels, SameJump, Jumps, NewCodeOK

(* A translated operand is kept while the next one is translated. *)
LEMMA OperandKeeps ==
  ASSUME IInv, Operand, lost' = (lost \/ Loses)
  PROVE  IInv'
<1>1. /\ Depth > 0 /\ Top.kind = "exp" /\ status' = "running"
      /\ UNCHANGED <<tac_list, label>>
  BY DEF Operand, TopIs, Uses
<1>2. /\ Depth \in Nat /\ Depth - 1 \in 0 .. Depth /\ Depth \in 1 .. Depth
      /\ Top \in Frame /\ FrameFits(tac_list, Top)
      /\ Top.exp \in Nat
      /\ \A f \in 1 .. Depth - 1 : stack[f].kind # "exp"
  BY <1>1, TopFits
<1>3. /\ Grows
      /\ Relabels
      /\ \A i \in Jumps : SameJump(i) /\ tac_list'[i].label \in 1 .. Len(label)
      /\ NewCodeOK(Len(tac_list))
      /\ \A i \in Jumps' : ~ (i > Len(tac_list))
  BY <1>1, CodeSame
<1>4a. PICK fr : fr = MkFrame("operand", Top.exp, 0, 0, FALSE)
  OBVIOUS
<1>4. fr \in Frame /\ fr.kind = "operand" /\ fr.exp = Top.exp
  BY <1>2, <1>4a DEF MkFrame, Frame, Kinds
<1>5. StackStep(Depth - 1) /\ stack'[Depth] = fr /\ Len(stack') = Depth
  <2>1. stack' = Append(Keep(Depth - 1), fr) /\ Depth - 1 + 1 = Depth
    BY <1>2, <1>4a DEF Operand
  <2>2. /\ StackStep(Depth - 1) /\ stack'[Depth - 1 + 1] = fr
        /\ Len(stack') = Depth - 1 + 1
    BY <1>2, <1>4, <2>1, Pushed
  <2> QED
    BY <2>1, <2>2
<1>6. NewFrameOK(Depth - 1)
  <2>1. FrameFits(tac_list', fr)
    BY <1>1, <1>2, <1>4 DEF FrameFits
  <2>2. Depth - 1 \in 0 .. Depth - 1 /\ Depth - 1 + 1 = Depth
    BY <1>2
  <2>3. Distinct(Depth - 1, fr)
    BY <1>1, <1>4, <2>2, TopDistinct
  <2> QED
    BY <1>5, <2>1, <2>2, <2>3 DEF NewFrameOK
<1>7. Calm(Depth - 1)
  <2>1. ~ IsGoto(tac_list', Len(tac_list) + 1)
    BY <1>1 DEF IsGoto, IInv, TypeOK
  <2>2. Depth - 1 + 1 = Depth
    BY <1>2
  <2> QED
    BY <1>4, <1>5, <2>1, <2>2, CalmExpression
<1>8. ASSUME NEW f \in Depth - 1 + 1 .. Depth, NEW i \in Jumps,
             PendingAt(tac_list, stack[f], i)
      PROVE  Pending(i)'
  <2>1. stack[f] = Top
    BY <1>2 DEF Top
  <2>2. PendingAt(tac_list', Top, i)
    BY <1>1, <1>8, <2>1
  <2>3. PendingAt(tac_list', fr, i)
    BY <1>1, <1>4, <2>2, PendingInherited
  <2>4. Depth \in 1 .. Len(stack')
    BY <1>2, <1>5
  <2> QED
    BY <1>5, <2>3, <2>4, PendingSplit
<1>9. ~ lost => \A i \in Jumps' : Resolved(i)' \/ Pending(i)'
  BY <1>2, <1>3, <1>5, <1>8, JumpsKept
<1> QED
  BY <1>1, <1>2, <1>3, <1>5, <1>6, <1>7, <1>9, Assemble

(* An assignment hands on its right side; the index on its left is spent. *)
LEMMA AssignKeeps ==
  ASSUME IInv, NEW n \in {1, 2}, Assign(n), lost' = (lost \/ Loses)
  PROVE  IInv'
<1>1. PICK c \in TAC : c = AssignCode(FALSE) /\ c.op = "ASSIGN"
  BY Constructors DEF AssignCode
<1>2. /\ Emit(<<c>>) /\ status = "running" /\ status' = "running"
      /\ UNCHANGED label /\ Operands(n)
  BY <1>1 DEF Assign, Uses
<1>3. /\ Grows
      /\ Relabels
      /\ \A i \in Jumps : SameJump(i) /\ tac_list'[i].label \in 1 .. Len(label)
      /\ NewCodeOK(Len(tac_list))
      /\ Len(tac_list) \in Nat
      /\ \A i \in Jumps' : ~ (i > Len(tac_list))
      /\ ~ IsGoto(tac_list', Len(tac_list) + 1)
  BY <1>1, <1>2, AppendedOne
<1>4. Spends(n)
  BY <1>2, OperandsSpent DEF Arity
<1>5. PICK m : m = Depth - n
  OBVIOUS
<1>6. /\ Depth \in Nat /\ m \in 0 .. Depth /\ m + 1 \in 1 .. Depth
      /\ \A f \in 1 .. m : stack[f].kind # "exp"
      /\ stack[m + 1].kind \in {"exp", "operand"}
  BY <1>4, <1>5 DEF Spends
<1>7. FrameFits(tac_list, stack[m + 1]) /\ stack[m + 1] \in Frame
  BY <1>6, Fits
<1>8. PICK fr \in Frame : /\ fr = ExpFrame(stack[m + 1].exp)
                          /\ fr.kind = "exp" /\ fr.exp = stack[m + 1].exp
  <2>1. stack[m + 1].exp \in Nat
    BY <1>7 DEF Frame
  <2> QED
    BY <2>1, ExpFrames
<1>9. StackStep(m) /\ stack'[m + 1] = fr /\ Len(stack') = m + 1
  <2>1. stack' = Append(Keep(m), fr)
    BY <1>5, <1>8 DEF Assign
  <2> QED
    BY <1>6, <2>1, Pushed
<1>10. NewFrameOK(m)
  <2>1. FrameFits(tac_list', stack[m + 1])
    <3>1. CASE stack[m + 1].kind = "operand"
      BY <1>3, <1>7, <3>1, FitsKept DEF IInv
    <3>2. CASE stack[m + 1].kind = "exp"
      <4>1. PICK gr : gr = [stack[m + 1] EXCEPT !.kind = "operand"]
        OBVIOUS
      <4>2. /\ gr \in Frame /\ gr.kind = "operand" /\ gr.exp = stack[m + 1].exp
        BY <1>7, <4>1 DEF Frame, Kinds
      <4>3. FrameFits(tac_list, gr)
        BY <1>7, <3>2, <4>2 DEF FrameFits
      <4>4. FrameFits(tac_list', gr)
        BY <1>3, <4>2, <4>3, FitsKept DEF IInv
      <4> QED
        BY <3>2, <4>2, <4>4 DEF FrameFits
    <3> QED
      BY <1>6, <3>1, <3>2
  <2>2. FrameFits(tac_list', fr)
    BY <1>6, <1>8, <2>1 DEF FrameFits
  <2>3. Distinct(m, fr)
    <3>1. \A f \in 1 .. m : f \in 1 .. Depth /\ f # m + 1
      BY <1>6
    <3> QED
      BY <1>6, <1>8, <3>1 DEF Distinct, IInv, ExpsOK, Conds
  <2> QED
    BY <1>9, <2>2, <2>3 DEF NewFrameOK
<1>11. Calm(m)
  BY <1>3, <1>8, <1>9, CalmExpression
<1>12. ASSUME ~ Loses, NEW f \in m + 1 .. Depth, NEW i \in Jumps,
              PendingAt(tac_list, stack[f], i)
       PROVE  Pending(i)'
  <2>1. f = m + 1
    <3>1. CASE n = 1
      BY <1>5, <1>6, <3>1
    <3>2. CASE n = 2
      <4>1. ~ HoldsIf(1)
        BY <1>12, <3>2 DEF Loses, UsesValues, Arity
      <4>2. Spends(1) => Depth - 1 + 1 = Depth
        BY <1>6
      <4>3. ~ IsIf(tac_list, stack[Depth].exp)
        BY <1>6, <4>1 DEF HoldsIf
      <4>4. stack[Depth].kind \in {"exp", "operand"}
        BY <1>4, <1>5, <1>6, <3>2 DEF Spends
      <4>5. f # Depth
        BY <1>12, <4>3, <4>4 DEF PendingAt
      <4> QED
        BY <1>5, <1>6, <3>2, <4>5
    <3> QED
      BY <3>1, <3>2
  <2>2. PendingAt(tac_list', stack[m + 1], i)
    BY <1>3, <1>7, <1>12, <2>1, PendingKept
  <2>3. PendingAt(tac_list', fr, i)
    BY <1>6, <1>8, <2>2, PendingInherited
  <2>4. m + 1 \in 1 .. Len(stack')
    BY <1>6, <1>9
  <2> QED
    BY <1>9, <2>3, <2>4, PendingSplit
<1>13. ~ lost /\ ~ Loses => \A i \in Jumps' : Resolved(i)' \/ Pending(i)'
  BY <1>3, <1>6, <1>9, <1>12, JumpsKept
<1> QED
  BY <1>2, <1>3, <1>6, <1>9, <1>10, <1>11, <1>13, Assemble

LEMMA ConnectiveKeeps ==
  ASSUME IInv, NEW k \in {"and", "or"}, Connective(k), lost' = (lost \/ Loses)
  PROVE  IInv'
<1>1. /\ Depth > 0 /\ Top.kind = "exp" /\ status = "running"
      /\ Emit(<<LabelCode>>) /\ UNCHANGED <<label, status>>
  BY DEF Connective, TopIs, Uses
<1>2. /\ Depth - 1 \in 0 .. Depth - 1
      /\ Top.exp \in Nat /\ Next_addr \in Nat
      /\ tac_list[Top.exp].swap \in BOOLEAN
  <2>1. Depth \in Nat /\ Top.exp \in 1 .. Len(tac_list)
    BY <1>1, TopFits DEF FrameFits
  <2>2. tac_list[Top.exp] \in TAC /\ Len(tac_list) \in Nat
    BY <2>1 DEF IInv, TypeOK
  <2> QED
    BY <1>1, <2>1, <2>2 DEF TAC, Next_addr
<1>3. PICK fr \in Frame :
        /\ fr = MkFrame(k, Top.exp, Next_addr, 0, tac_list[Top.exp].swap)
        /\ fr.kind = k /\ fr.exp = Top.exp /\ fr.at = Next_addr
  <2>1. k \in Kinds /\ 0 \in Nat
    BY DEF Kinds
  <2> QED
    BY <1>2, <2>1, Frames
<1>4. stack' = Append(Keep(Depth - 1), fr)
  BY <1>3 DEF Connective
<1> QED
  BY <1>1, <1>2, <1>3, <1>4, HandOver

LEMMA IfCondKeeps ==
  ASSUME IInv, IfCond, lost' = (lost \/ Loses)
  PROVE  IInv'
<1>1. /\ Depth > 0 /\ Top.kind = "exp" /\ status = "running"
      /\ Emit(<<LabelCode>>) /\ UNCHANGED <<label, status>>
  BY DEF IfCond, StmtExp, TopIs, Uses
<1>2. /\ Depth - 1 \in 0 .. Depth - 1
      /\ Top.exp \in Nat /\ Next_addr \in Nat
  BY <1>1, TopFits DEF Next_addr, IInv, TypeOK
<1>3a. PICK fr : fr = MkFrame("if", Top.exp, Next_addr, 0, FALSE)
  OBVIOUS
<1>3. /\ fr \in Frame
      /\ fr.kind = "if" /\ fr.exp = Top.exp /\ fr.at = Next_addr
  BY <1>2, <1>3a DEF MkFrame, Frame, Kinds
<1>4. stack' = Append(Keep(Depth - 1), fr)
  BY <1>3a DEF IfCond
<1>5. \A f \in 1 .. Depth - 1 : stack[f].kind # "operand"
  BY StmtExpNoOperand DEF IfCond
<1> QED
  BY <1>1, <1>2, <1>3, <1>4, <1>5, HandOver

LEMMA WhileCondKeeps ==
  ASSUME IInv, WhileCond, lost' = (lost \/ Loses)
  PROVE  IInv'
<1>1. /\ Depth > 1 /\ Top.kind = "exp" /\ Under.kind = "while" /\ status = "running"
      /\ Emit(<<LabelCode>>) /\ UNCHANGED <<label, status>>
  BY DEF WhileCond, Returned
<1>2. Depth \in Nat /\ Len(tac_list) \in Nat
  BY DEF IInv, TypeOK, Depth
<1>3. /\ Depth > 0 /\ Depth - 2 \in 0 .. Depth - 1
      /\ Top.exp \in Nat /\ Next_addr \in Nat
  BY <1>1, <1>2, TopFits DEF Next_addr
<1>4. IsLabel(tac_list, Under.start) /\ Under.start \in Nat
  <2>1. Depth - 1 \in 1 .. Depth
    BY <1>1, <1>2
  <2> QED
    BY <1>1, <2>1, Fits DEF Under, FrameFits, Frame
<1>5a. PICK fr : fr = MkFrame("body", Top.exp, Next_addr, Under.start, FALSE)
  OBVIOUS
<1>5. /\ fr \in Frame
      /\ fr.kind = "body" /\ fr.exp = Top.exp /\ fr.at = Next_addr
      /\ fr.start = Under.start
  BY <1>3, <1>4, <1>5a DEF MkFrame, Frame, Kinds
<1>6. stack' = Append(Keep(Depth - 2), fr)
  BY <1>5a DEF WhileCond
<1>7. /\ fr.kind \in {"and", "or", "if", "body"}
      /\ fr.kind = "body" => IsLabel(tac_list, fr.start)
  BY <1>4, <1>5
<1>8. \A f \in 1 .. Depth - 2 : stack[f].kind # "operand"
  <2>1. Depth - 1 \in 1 .. Depth /\ stack[Depth - 1].kind = "while"
    BY <1>1, <1>2 DEF Under
  <2>2. \A f \in 1 .. Depth - 1 : stack[f].kind # "operand"
    BY <2>1, NoOperand
  <2> QED
    BY <1>2, <2>2
<1> QED
  BY <1>1, <1>3, <1>5, <1>6, <1>7, <1>8, HandOver

LEMMA WhileStartKeeps ==
  ASSUME IInv, WhileStart, lost' = (lost \/ Loses)
  PROVE  IInv'
<1>1. PICK c \in TAC : c = LabelCode /\ c.op = "LABEL"
  BY Constructors DEF LabelCode
<1>2. /\ Grows
      /\ Relabels
      /\ \A i \in Jumps : SameJump(i) /\ tac_list'[i].label \in 1 .. Len(label)
      /\ NewCodeOK(Len(tac_list))
      /\ Len(tac_list) \in Nat
      /\ Len(tac_list') = Len(tac_list) + 1
      /\ tac_list'[Len(tac_list) + 1] = c
      /\ \A i \in Jumps' : ~ (i > Len(tac_list))
  BY <1>1, AppendedOne DEF WhileStart
<1>3. \A f \in 1 .. Depth : stack[f].kind # "exp"
  BY NoResult, AtStmtNoResult DEF WhileStart
<1>4a. PICK fr : fr = MkFrame("while", 0, 0, Next_addr, FALSE)
  OBVIOUS
<1>4. /\ fr \in Frame
      /\ fr.kind = "while" /\ fr.exp = 0 /\ fr.start = Next_addr
  BY <1>2, <1>4a DEF MkFrame, Frame, Kinds, Next_addr
<1>5. stack' = Append(stack, fr)
  BY <1>4a DEF WhileStart
<1>6. Depth \in Nat /\ StackStep(Depth) /\ stack'[Depth + 1] = fr
  BY <1>4, <1>5, Push DEF IInv, TypeOK, StackStep, Depth
<1>7. NewFrameOK(Depth)
  <2>1. FrameFits(tac_list', fr)
    <3>1. Len(tac_list') \in Nat /\ tac_list' \in Seq(TAC)
      BY <1>2 DEF Grows
    <3>2. IsLabel(tac_list', Next_addr)
      BY <1>1, <1>2, <3>1 DEF IsLabel, Next_addr
    <3>3. fr.exp <= Len(tac_list')
      BY <1>4, <3>1
    <3> QED
      BY <1>4, <3>2, <3>3 DEF FrameFits
  <2>2. Distinct(Depth, fr)
    BY <1>4 DEF Distinct
  <2> QED
    BY <1>6, <2>1, <2>2 DEF NewFrameOK
<1>8. status' = "running"
  BY DEF WhileStart, Uses
<1>9. ~ lost => \A i \in Jumps' : Resolved(i)' \/ Pending(i)'
  BY <1>2, <1>6, JumpsKept
<1>10. Calm(Depth)
  BY AtStmtNoOperand, CalmStatement DEF WhileStart
<1> QED
  BY <1>2, <1>3, <1>6, <1>7, <1>8, <1>9, <1>10, Assemble

LEMMA ExpStmtKeeps ==
  ASSUME IInv, ExpStmt, lost' = (lost \/ Loses)
  PROVE  IInv'
<1>1. /\ Grows
      /\ Relabels
      /\ \A i \in Jumps : SameJump(i) /\ tac_list'[i].label \in 1 .. Len(label)
      /\ NewCodeOK(Len(tac_list))
      /\ \A i \in Jumps' : ~ (i > Len(tac_list))
  BY CodeSame DEF ExpStmt
<1>2. /\ Depth > 0 /\ Top.kind = "exp"
      /\ stack' = Keep(Depth - 1) /\ status' = "running"
  BY DEF ExpStmt, StmtExp, TopIs, Uses
<1>3. /\ Depth \in Nat /\ Depth - 1 \in 0 .. Depth
      /\ \A f \in 1 .. Depth - 1 : stack[f].kind # "exp"
  BY <1>2, TopFits
<1>4. StackStep(Depth - 1) /\ NewFrameOK(Depth - 1)
  BY <1>2, <1>3, Popped
<1>5. ASSUME ~ Loses, NEW f \in Depth - 1 + 1 .. Depth, NEW i \in Jumps
      PROVE  ~ PendingAt(tac_list, stack[f], i)
  <2>1. stack[f] = Top
    BY <1>3 DEF Top
  <2>2. ~ IsIf(tac_list, Top.exp)
    BY <1>3, <1>5, <2>1 DEF Loses, UsesValues, HoldsIf, Arity
  <2> QED
    BY <1>2, <2>1, <2>2 DEF PendingAt
<1>6. ~ lost /\ ~ Loses => \A i \in Jumps' : Resolved(i)' \/ Pending(i)'
  BY <1>1, <1>3, <1>4, <1>5, JumpsKept
<1>7. Calm(Depth - 1)
  BY StmtExpNoOperand, CalmStatement DEF ExpStmt
<1> QED
  BY <1>1, <1>2, <1>3, <1>4, <1>6, <1>7, Assemble

LEMMA NotKeeps ==
  ASSUME IInv, Not, lost' = (lost \/ Loses)
  PROVE  IInv'
<1>1. /\ Depth > 0 /\ Top.kind = "exp" /\ status = "running"
      /\ UNCHANGED <<label, stack, status>>
      /\ tac_list' = [tac_list EXCEPT ![Top.exp].swap = ~ @]
  BY DEF Not, TopIs, Uses
<1>2. /\ Depth \in Nat /\ Depth - 1 \in 0 .. Depth
      /\ Top \in Frame /\ FrameFits(tac_list, Top)
      /\ \A f \in 1 .. Depth - 1 : stack[f].kind # "exp"
  BY <1>1, TopFits
<1>3. /\ tac_list \in Seq(TAC) /\ label \in Seq(Int) /\ stack \in Seq(Frame)
      /\ Len(tac_list) \in Nat /\ Len(label) \in Nat
  BY DEF IInv, TypeOK
<1>4. Top.exp \in 1 .. Len(tac_list)
  BY <1>1, <1>2 DEF FrameFits
<1>5. PICK c \in TAC : /\ tac_list' = [tac_list EXCEPT ![Top.exp] = c]
                       /\ c.op = tac_list[Top.exp].op
                       /\ c.label = tac_list[Top.exp].label
  <2>1. tac_list[Top.exp] \in TAC
    BY <1>3, <1>4
  <2>2. PICK c : c = [tac_list[Top.exp] EXCEPT !.swap = ~ @]
    OBVIOUS
  <2>3. c \in TAC /\ c.op = tac_list[Top.exp].op /\ c.label = tac_list[Top.exp].label
    BY <2>1, <2>2 DEF TAC
  <2>4. tac_list' = [tac_list EXCEPT ![Top.exp] = c]
    BY <1>1, <2>2
  <2> QED
    BY <2>3, <2>4
<1>6. /\ tac_list' \in Seq(TAC)
      /\ Len(tac_list') = Len(tac_list)
      /\ \A i \in 1 .. Len(tac_list) : /\ tac_list'[i].op = tac_list[i].op
                                       /\ tac_list'[i].label = tac_list[i].label
  BY <1>3, <1>4, <1>5
<1>7. /\ Grows
      /\ Relabels
      /\ \A i \in Jumps : SameJump(i) /\ tac_list'[i].label \in 1 .. Len(label)
      /\ NewCodeOK(Len(tac_list))
      /\ \A i \in Jumps' : ~ (i > Len(tac_list))
  BY <1>1, <1>3, <1>6 DEF IInv, TypeOK, Grows, Relabels, SameJump, Jumps, NewCodeOK
<1>8. /\ StackStep(Depth - 1) /\ stack'[Depth] = Top /\ Len(stack') = Depth
  BY <1>1, <1>2, <1>3 DEF StackStep, Depth, Top
<1>9. NewFrameOK(Depth - 1)
  <2>1. IsIf(tac_list, Top.exp) => IsIf(tac_list', Top.exp)
    BY <1>2, <1>7, ClassKept DEF IInv, Frame
  <2>1a. ~ IsGoto(tac_list, Top.exp + 1) => ~ IsGoto(tac_list', Top.exp + 1)
    BY <1>3, <1>6 DEF IsGoto
  <2>2. FrameFits(tac_list', Top)
    BY <1>1, <1>2, <1>4, <1>6, <2>1, <2>1a DEF FrameFits
  <2>3. Depth - 1 \in 0 .. Depth - 1 /\ Depth - 1 + 1 = Depth
    BY <1>1, <1>2
  <2>4. Distinct(Depth - 1, Top)
    BY <1>1, <2>3, TopDistinct
  <2> QED
    BY <1>8, <2>2, <2>3, <2>4 DEF NewFrameOK
<1>10. ASSUME NEW f \in Depth - 1 + 1 .. Depth, NEW i \in Jumps,
              PendingAt(tac_list, stack[f], i)
       PROVE  Pending(i)'
  <2>1. stack[f] = Top
    BY <1>2 DEF Top
  <2>2. PendingAt(tac_list', Top, i)
    BY <1>2, <1>7, <1>10, <2>1, PendingKept
  <2>3. Depth \in 1 .. Len(stack')
    BY <1>1, <1>2, <1>8
  <2> QED
    BY <1>8, <2>2, <2>3, PendingSplit
<1>11. ~ lost => \A i \in Jumps' : Resolved(i)' \/ Pending(i)'
  BY <1>2, <1>7, <1>8, <1>10, JumpsKept
<1>12. Calm(Depth - 1)
  <2>1. ~ IsGoto(tac_list', Len(tac_list) + 1)
    BY <1>3, <1>6 DEF IsGoto
  <2>2. Depth - 1 + 1 = Depth
    BY <1>2
  <2> QED
    BY <1>1, <1>8, <2>1, <2>2, CalmExpression
<1> QED
  BY <1>1, <1>2, <1>7, <1>8, <1>9, <1>11, <1>12, Assemble

-----------------------------------------------------------------------------
LEMMA UpdatedTwice ==
  ASSUME NEW D, NEW s \in [D -> Int], NEW c1 \in D, NEW c2 \in D,
         NEW x \in Int, NEW y \in Int, NEW p, p = [s EXCEPT ![c1] = x, ![c2] = y]
  PROVE  \A c \in D : p[c] = IF c = c2 THEN y ELSE IF c = c1 THEN x ELSE s[c]
OBVIOUS

LEMMA TwoUpdates ==
  ASSUME NEW s \in Seq(Int), NEW c1 \in 1 .. Len(s), NEW c2 \in 1 .. Len(s),
         NEW x \in Int, NEW y \in Int, NEW p, p = [s EXCEPT ![c1] = x, ![c2] = y]
  PROVE  /\ p \in Seq(Int)
         /\ Len(p) = Len(s)
         /\ \A c \in 1 .. Len(s) :
              p[c] = IF c = c2 THEN y ELSE IF c = c1 THEN x ELSE s[c]
<1>1. p \in [1 .. Len(s) -> Int]
  OBVIOUS
<1>2. p \in Seq(Int) /\ Len(p) = Len(s)
  BY <1>1
<1>3. s \in [1 .. Len(s) -> Int]
  OBVIOUS
<1> QED
  BY <1>2, <1>3, UpdatedTwice

(* What back_patch writes. *)
PatchDid(p, e, t, f) ==
  /\ p \in Seq(Int)
  /\ Len(p) = Len(label)
  /\ \A c \in 1 .. Len(label) : p[c] = label[c] \/ p[c] = t \/ p[c] = f
  /\ p[tac_list[e].label] = t \/ p[tac_list[e].label] = f
  /\ p[tac_list[e + 1].label] = t \/ p[tac_list[e + 1].label] = f

LEMMA PatchEffect ==
  ASSUME TypeOK, NEW e \in Nat, CanPatch(tac_list, e),
         NEW t \in Nat, NEW f \in Nat,
         NEW p, p = Patched(tac_list, label, e, t, f)
  PROVE  PatchDid(p, e, t, f)
<1>1. PICK c1, c2 : c1 = tac_list[e].label /\ c2 = tac_list[e + 1].label
  OBVIOUS
<1>2. e \in Jumps /\ e + 1 \in Jumps
  BY DEF CanPatch, IsIf, IsGoto, Jumps, TypeOK
<1>3. c1 \in 1 .. Len(label) /\ c2 \in 1 .. Len(label)
  BY <1>1, <1>2 DEF TypeOK
<1>4. label \in Seq(Int)
  BY DEF TypeOK
<1>5. \/ p = [label EXCEPT ![c1] = f, ![c2] = t]
      \/ p = [label EXCEPT ![c1] = t, ![c2] = f]
  BY <1>1 DEF Patched
<1>6. \E x \in {t, f}, y \in {t, f} : p = [label EXCEPT ![c1] = x, ![c2] = y]
  BY <1>5
<1>7. PICK x \in {t, f}, y \in {t, f} : p = [label EXCEPT ![c1] = x, ![c2] = y]
  BY <1>6
<1>8. /\ p \in Seq(Int)
      /\ Len(p) = Len(label)
      /\ \A c \in 1 .. Len(label) :
           p[c] = IF c = c2 THEN y ELSE IF c = c1 THEN x ELSE label[c]
  <2>1. x \in Int /\ y \in Int
    OBVIOUS
  <2> QED
    BY <1>3, <1>4, <1>7, <2>1, TwoUpdates, SMTT(30)
<1> QED
  BY <1>1, <1>3, <1>8 DEF PatchDid

(* The label cells are written soundly and the innermost call awaits nothing more. *)
Settles ==
  /\ Relabels
  /\ \A g \in Depth - 1 + 1 .. Depth : \A i \in Jumps :
       PendingAt(tac_list, stack[g], i) => Resolved(i)'

(***************************************************************************)
(* A back_patch with two LABELs resolves every jump that waited for the    *)
(* condition (IfEnd, Else, WhileEnd).                                      *)
(***************************************************************************)
LEMMA PatchResolves ==
  ASSUME IInv, Depth > 0, Top.kind \in {"if", "body"}, CanPatch(tac_list, Top.exp),
         Grows, \A i \in Jumps : SameJump(i),
         NEW t \in Nat, NEW f \in Nat, IsLabel(tac_list', t), IsLabel(tac_list', f),
         NEW p, p = Patched(tac_list, label, Top.exp, t, f),
         label' \in Seq(Int), Len(label) <= Len(label'),
         \A c \in 1 .. Len(label) : label'[c] = p[c]
  PROVE  Settles
<1>1. TypeOK /\ Top.exp \in Nat /\ Depth \in Nat
  BY TopFits DEF IInv
<1>2. /\ p \in Seq(Int)
      /\ Len(p) = Len(label)
      /\ \A c \in 1 .. Len(label) : p[c] = label[c] \/ p[c] = t \/ p[c] = f
      /\ p[tac_list[Top.exp].label] = t \/ p[tac_list[Top.exp].label] = f
      /\ p[tac_list[Top.exp + 1].label] = t \/ p[tac_list[Top.exp + 1].label] = f
  <2>1. PatchDid(p, Top.exp, t, f)
    BY <1>1, PatchEffect
  <2> QED
    BY <2>1 DEF PatchDid
<1>3. Relabels
  BY <1>2 DEF Relabels
<1>4. ASSUME NEW g \in Depth - 1 + 1 .. Depth, NEW i \in Jumps,
             PendingAt(tac_list, stack[g], i)
      PROVE  Resolved(i)'
  <2>1. stack[g] = Top
    BY <1>1 DEF Top
  <2>2. \/ tac_list[i].label = tac_list[Top.exp].label
        \/ tac_list[i].label = tac_list[Top.exp + 1].label
    BY <1>4, <2>1 DEF PendingAt
  <2>3. p[tac_list[i].label] = t \/ p[tac_list[i].label] = f
    BY <1>2, <2>2
  <2>4. tac_list[i].label \in 1 .. Len(label)
    BY <1>1 DEF TypeOK
  <2>5. label'[tac_list'[i].label] = t \/ label'[tac_list'[i].label] = f
    BY <2>3, <2>4 DEF SameJump
  <2> QED
    BY <2>5 DEF Resolved
<1> QED
  BY <1>3, <1>4 DEF Settles

LEMMA IfEndKeeps ==
  ASSUME IInv, IfEnd, lost' = (lost \/ Loses)
  PROVE  IInv'
<1>1. /\ Depth > 0 /\ Top.kind = "if" /\ status = "running" /\ UNCHANGED status
      /\ CanPatch(tac_list, Top.exp) /\ stack' = Keep(Depth - 1)
      /\ Emit(<<LabelCode>>)
  BY DEF IfEnd, TopIs
<1>2. /\ Depth \in Nat /\ Depth - 1 \in 0 .. Depth
      /\ FrameFits(tac_list, Top)
      /\ Top.exp \in Nat /\ Top.at \in Nat
      /\ \A f \in 1 .. Depth - 1 : stack[f].kind # "exp"
  BY <1>1, TopFits
<1>3. PICK c \in TAC : c = LabelCode /\ c.op = "LABEL"
  BY Constructors DEF LabelCode
<1>4. /\ tac_list \in Seq(TAC) /\ Len(tac_list) \in Nat
      /\ label \in Seq(Int) /\ Len(label) \in Nat
  BY DEF IInv, TypeOK
<1>5. /\ tac_list' \in Seq(TAC)
      /\ Len(tac_list') = Len(tac_list) + 1
      /\ \A i \in 1 .. Len(tac_list) : tac_list'[i] = tac_list[i]
      /\ tac_list'[Len(tac_list) + 1] = c
  BY <1>1, <1>3, <1>4, Emit1
<1>6. /\ Grows
      /\ \A i \in Jumps : SameJump(i) /\ tac_list'[i].label \in 1 .. Len(label)
  BY <1>4, <1>5, Appended
<1>7. NewCodeOK(Len(tac_list)) /\ \A i \in Jumps' : ~ (i > Len(tac_list))
  BY <1>3, <1>4, <1>5 DEF NewCodeOK, Jumps
<1>8. StackStep(Depth - 1) /\ NewFrameOK(Depth - 1)
  BY <1>1, <1>2, Popped
<1>9. Next_addr \in Nat /\ IsLabel(tac_list', Next_addr)
  BY <1>3, <1>4, <1>5 DEF IsLabel, Next_addr
<1>10. IsLabel(tac_list', Top.at)
  <2>1. IsLabel(tac_list, Top.at)
    BY <1>1, <1>2 DEF FrameFits
  <2> QED
    BY <1>2, <1>6, <2>1, ClassKept DEF IInv
<1>11. PICK p : p = Patched(tac_list, label, Top.exp, Top.at, Next_addr)
  OBVIOUS
<1>12. /\ label' = p
       /\ label' \in Seq(Int) /\ Len(label) <= Len(label')
  <2>1. p \in Seq(Int) /\ Len(p) = Len(label)
    <3>1. TypeOK
      BY DEF IInv
    <3>2. PatchDid(p, Top.exp, Top.at, Next_addr)
      BY <1>1, <1>2, <1>9, <1>11, <3>1, PatchEffect
    <3> QED
      BY <3>2 DEF PatchDid
  <2>2. label' = p
    BY <1>11 DEF IfEnd
  <2> QED
    BY <1>4, <2>1, <2>2
<1>13. /\ Relabels
       /\ \A g \in Depth - 1 + 1 .. Depth : \A i \in Jumps :
            PendingAt(tac_list, stack[g], i) => Resolved(i)'
  <2>1. Settles
    BY <1>1, <1>2, <1>6, <1>9, <1>10, <1>11, <1>12, PatchResolves
  <2> QED
    BY <2>1 DEF Settles
<1>14. ~ lost => \A i \in Jumps' : Resolved(i)' \/ Pending(i)'
  BY <1>2, <1>6, <1>7, <1>8, <1>13, JumpsKept
<1>15. Calm(Depth - 1)
  <2>1. Depth \in 1 .. Depth /\ stack[Depth].kind \notin {"exp", "operand", "and", "or"}
    BY <1>1, <1>2 DEF Top
  <2>2. \A g \in 1 .. Depth : stack[g].kind # "operand"
    BY <2>1, NoOperand
  <2>3. \A g \in 1 .. Depth - 1 : stack[g].kind # "operand"
    BY <1>2, <2>2
  <2> QED
    BY <2>3, CalmStatement
<1> QED
  BY <1>15, <1>1, <1>2, <1>6, <1>7, <1>8, <1>13, <1>14, Assemble

(* A GOTO with a new cell, then a LABEL: Else and WhileEnd. *)
LEMMA Jumped ==
  ASSUME IInv, Emit(<<GotoCode(Len(label) + 1), LabelCode>>),
         label' \in Seq(Int), Len(label') = Len(label) + 1,
         NEW n, n = Len(tac_list)
  PROVE  /\ n \in Nat
         /\ Grows
         /\ \A i \in Jumps : SameJump(i) /\ tac_list'[i].label \in 1 .. Len(label)
         /\ NewCodeOK(Len(tac_list))
         /\ IsGoto(tac_list', n + 1) /\ tac_list'[n + 1].label = Len(label) + 1
         /\ IsLabel(tac_list', n + 2)
         /\ \A i \in Jumps' : i > Len(tac_list) => i = n + 1
<1>1. /\ tac_list \in Seq(TAC) /\ Len(tac_list) \in Nat
      /\ label \in Seq(Int) /\ Len(label) \in Nat
  BY DEF IInv, TypeOK
<1>2. PICK y \in TAC, z \in TAC :
        /\ y = GotoCode(Len(label) + 1) /\ y.op = "GOTO" /\ y.label = Len(label) + 1
        /\ z = LabelCode /\ z.op = "LABEL"
  <2>1. GotoCode(Len(label) + 1) \in TAC /\ LabelCode \in TAC
    BY <1>1, Constructors
  <2> QED
    BY <2>1 DEF GotoCode, LabelCode
<1>3. Emit(<<y, z>>)
  BY <1>2
<1>4. /\ tac_list' \in Seq(TAC)
      /\ Len(tac_list') = n + 2
      /\ \A i \in 1 .. n : tac_list'[i] = tac_list[i]
      /\ tac_list'[n + 1] = y
      /\ tac_list'[n + 2] = z
  BY <1>1, <1>3, Emit2
<1>5. /\ Grows
      /\ \A i \in Jumps : SameJump(i) /\ tac_list'[i].label \in 1 .. Len(label)
  <2>1. Len(tac_list) <= Len(tac_list')
    BY <1>1, <1>4
  <2> QED
    BY <1>4, <2>1, Appended
<1>6. IsGoto(tac_list', n + 1) /\ IsLabel(tac_list', n + 2)
  BY <1>1, <1>2, <1>4 DEF IsGoto, IsLabel
<1>7. \A i \in n + 1 .. Len(tac_list') : i = n + 1 \/ i = n + 2
  <2>1. n \in Nat /\ Len(tac_list') = n + 2
    BY <1>1, <1>4
  <2> QED
    BY <2>1
<1>8. NewCodeOK(Len(tac_list))
  <2>1. tac_list'[n + 1].label \in 1 .. Len(label')
    BY <1>1, <1>2, <1>4
  <2>2. tac_list'[n + 1].op = "GOTO" /\ tac_list'[n + 2].op = "LABEL"
    BY <1>2, <1>4
  <2> QED
    BY <1>7, <2>1, <2>2 DEF NewCodeOK
<1>9. ASSUME NEW i \in Jumps', i > Len(tac_list)
      PROVE  i = n + 1
  <2>1. i = n + 1 \/ i = n + 2
    BY <1>1, <1>4, <1>7, <1>9 DEF Jumps
  <2> QED
    BY <1>2, <1>4, <2>1 DEF Jumps
<1> QED
  BY <1>1, <1>2, <1>4, <1>5, <1>6, <1>8, <1>9

(* back_patch, then one more cell. *)
OneMore(p, v) ==
  /\ label' \in Seq(Int)
  /\ Len(label') = Len(label) + 1 /\ Len(label) <= Len(label')
  /\ \A c \in 1 .. Len(label) : label'[c] = p[c]
  /\ label'[Len(label) + 1] = v

LEMMA PatchedAndOne ==
  ASSUME TypeOK, NEW e \in Nat, CanPatch(tac_list, e),
         NEW t \in Nat, NEW f \in Nat, NEW v \in Int,
         NEW p, p = Patched(tac_list, label, e, t, f), label' = Append(p, v)
  PROVE  OneMore(p, v)
<1>1. PatchDid(p, e, t, f)
  BY PatchEffect
<1>2. p \in Seq(Int) /\ Len(p) = Len(label) /\ Len(label) \in Nat
  BY <1>1 DEF PatchDid, TypeOK
<1> QED
  BY <1>2 DEF OneMore

LEMMA ElseKeeps ==
  ASSUME IInv, Else, lost' = (lost \/ Loses)
  PROVE  IInv'
<1>1. /\ Depth > 0 /\ Top.kind = "if" /\ status = "running" /\ UNCHANGED status
      /\ CanPatch(tac_list, Top.exp)
      /\ Emit(<<GotoCode(Len(label) + 1), LabelCode>>)
  BY DEF Else, TopIs, Uses
<1>2. /\ Depth \in Nat /\ Depth - 1 \in 0 .. Depth
      /\ FrameFits(tac_list, Top)
      /\ Top.exp \in Nat /\ Top.at \in Nat
      /\ \A f \in 1 .. Depth - 1 : stack[f].kind # "exp"
  BY <1>1, TopFits
<1>3. PICK n, f : n = Len(tac_list) /\ f = Next_addr + 1
  OBVIOUS
<1>3a. PICK p : p = Patched(tac_list, label, Top.exp, Top.at, f)
  OBVIOUS
<1>4. /\ TypeOK /\ n \in Nat /\ Next_addr = n + 1 /\ f = n + 2
      /\ f \in Nat /\ Placeholder(Next_addr) \in Int
  BY <1>3 DEF IInv, TypeOK, Next_addr, Placeholder
<1>5. /\ label' \in Seq(Int)
      /\ Len(label') = Len(label) + 1 /\ Len(label) <= Len(label')
      /\ \A c \in 1 .. Len(label) : label'[c] = p[c]
  <2>1. PICK v \in Int : label' = Append(p, v)
    BY <1>3, <1>3a, <1>4 DEF Else
  <2>2. OneMore(p, v)
    BY <1>1, <1>2, <1>3a, <1>4, <2>1, PatchedAndOne
  <2> QED
    BY <2>2 DEF OneMore
<1>6. /\ Grows
      /\ \A i \in Jumps : SameJump(i) /\ tac_list'[i].label \in 1 .. Len(label)
      /\ NewCodeOK(Len(tac_list))
      /\ IsGoto(tac_list', n + 1)
      /\ IsLabel(tac_list', n + 2)
      /\ \A i \in Jumps' : i > Len(tac_list) => i = n + 1
  BY <1>1, <1>3, <1>5, Jumped
<1>7. IsLabel(tac_list', Top.at)
  <2>1. IsLabel(tac_list, Top.at)
    BY <1>1, <1>2 DEF FrameFits
  <2> QED
    BY <1>2, <1>4, <1>6, <2>1, ClassKept
<1>8. /\ Relabels
      /\ \A g \in Depth - 1 + 1 .. Depth : \A i \in Jumps :
           PendingAt(tac_list, stack[g], i) => Resolved(i)'
  <2>1. Top.kind \in {"if", "body"} /\ IsLabel(tac_list', f)
    BY <1>1, <1>4, <1>6
  <2>2. \A i \in Jumps : SameJump(i)
    BY <1>6
  <2>3. Grows /\ label' \in Seq(Int) /\ Len(label) <= Len(label')
    BY <1>5, <1>6
  <2>4. \A c \in 1 .. Len(label) : label'[c] = p[c]
    BY <1>5
  <2>5. Settles
    <3>1. f \in Nat /\ Top.at \in Nat
      BY <1>2, <1>4
    <3>2. Depth > 0 /\ CanPatch(tac_list, Top.exp)
      BY <1>1
    <3> QED
      BY <1>3a, <1>7, <2>1, <2>2, <2>3, <2>4, <3>1, <3>2, PatchResolves, SMTT(30)
  <2> QED
    BY <2>5 DEF Settles
<1>9a. PICK fr : fr = MkFrame("else", 0, Next_addr, 0, FALSE)
  OBVIOUS
<1>9. /\ fr \in Frame
      /\ fr.kind = "else" /\ fr.exp = 0 /\ fr.at = n + 1
  BY <1>4, <1>9a DEF MkFrame, Frame, Kinds
<1>10. StackStep(Depth - 1) /\ stack'[Depth] = fr /\ Len(stack') = Depth
  <2>1. stack' = Append(Keep(Depth - 1), fr)
    BY <1>9a DEF Else
  <2>2. Depth - 1 + 1 = Depth
    BY <1>2
  <2>3. /\ StackStep(Depth - 1) /\ stack'[Depth - 1 + 1] = fr
        /\ Len(stack') = Depth - 1 + 1
    BY <1>2, <1>9, <2>1, Pushed
  <2> QED
    BY <2>2, <2>3
<1>11. NewFrameOK(Depth - 1)
  <2>1. Depth - 1 + 1 = Depth
    BY <1>2
  <2>2. fr.exp <= Len(tac_list')
    BY <1>9, <1>6 DEF Grows
  <2>3. FrameFits(tac_list', fr) /\ Distinct(Depth - 1, fr)
    BY <1>6, <1>9, <2>2 DEF FrameFits, Distinct
  <2> QED
    BY <1>10, <2>1, <2>3 DEF NewFrameOK
<1>12. ASSUME NEW i \in Jumps', i > Len(tac_list)
       PROVE  Pending(i)'
  <2>1. i = n + 1
    BY <1>6, <1>12
  <2>2. PendingAt(tac_list', fr, i)
    BY <1>9, <2>1 DEF PendingAt
  <2>3. Depth \in 1 .. Len(stack')
    BY <1>1, <1>2, <1>10
  <2> QED
    BY <1>10, <2>2, <2>3, PendingSplit
<1>13. ~ lost => \A i \in Jumps' : Resolved(i)' \/ Pending(i)'
  BY <1>2, <1>6, <1>8, <1>10, <1>12, JumpsKept
<1>14. Calm(Depth - 1)
  <2>1. Depth \in 1 .. Depth /\ stack[Depth].kind \notin {"exp", "operand", "and", "or"}
    BY <1>1, <1>2 DEF Top
  <2>2. \A g \in 1 .. Depth : stack[g].kind # "operand"
    BY <2>1, NoOperand
  <2>3. \A g \in 1 .. Depth - 1 : stack[g].kind # "operand"
    BY <1>2, <2>2
  <2> QED
    BY <2>3, CalmStatement
<1> QED
  BY <1>14, <1>1, <1>2, <1>6, <1>8, <1>10, <1>11, <1>13, Assemble

LEMMA WhileEndKeeps ==
  ASSUME IInv, WhileEnd, lost' = (lost \/ Loses)
  PROVE  IInv'
<1>1. /\ Depth > 0 /\ Top.kind = "body" /\ status = "running" /\ UNCHANGED status
      /\ CanPatch(tac_list, Top.exp) /\ stack' = Keep(Depth - 1)
      /\ Emit(<<GotoCode(Len(label) + 1), LabelCode>>)
  BY DEF WhileEnd, TopIs
<1>2. /\ Depth \in Nat /\ Depth - 1 \in 0 .. Depth
      /\ FrameFits(tac_list, Top)
      /\ Top.exp \in Nat /\ Top.at \in Nat /\ Top.start \in Nat
      /\ \A f \in 1 .. Depth - 1 : stack[f].kind # "exp"
  BY <1>1, TopFits
<1>3. PICK n, f : n = Len(tac_list) /\ f = Next_addr + 1
  OBVIOUS
<1>3a. PICK p : p = Patched(tac_list, label, Top.exp, Top.at, f)
  OBVIOUS
<1>4. TypeOK /\ n \in Nat /\ f = n + 2 /\ f \in Nat
  BY <1>3 DEF IInv, TypeOK, Next_addr
<1>5. /\ label' \in Seq(Int)
      /\ Len(label') = Len(label) + 1 /\ Len(label) <= Len(label')
      /\ \A c \in 1 .. Len(label) : label'[c] = p[c]
      /\ label'[Len(label) + 1] = Top.start
  <2>1. label' = Append(p, Top.start)
    BY <1>3, <1>3a DEF WhileEnd
  <2>2. OneMore(p, Top.start)
    <3>1. Top.start \in Int
      BY <1>2
    <3> QED
      BY <1>1, <1>2, <1>3a, <1>4, <2>1, <3>1, PatchedAndOne
  <2> QED
    BY <2>2 DEF OneMore
<1>6. /\ Grows
      /\ \A i \in Jumps : SameJump(i) /\ tac_list'[i].label \in 1 .. Len(label)
      /\ NewCodeOK(Len(tac_list))
      /\ tac_list'[n + 1].label = Len(label) + 1
      /\ IsLabel(tac_list', n + 2)
      /\ \A i \in Jumps' : i > Len(tac_list) => i = n + 1
  BY <1>1, <1>3, <1>5, Jumped
<1>7. IsLabel(tac_list', Top.at) /\ IsLabel(tac_list', Top.start)
  <2>1. IsLabel(tac_list, Top.at) /\ IsLabel(tac_list, Top.start)
    BY <1>1, <1>2 DEF FrameFits
  <2> QED
    BY <1>2, <1>4, <1>6, <2>1, ClassKept
<1>8. /\ Relabels
      /\ \A g \in Depth - 1 + 1 .. Depth : \A i \in Jumps :
           PendingAt(tac_list, stack[g], i) => Resolved(i)'
  <2>1. Top.kind \in {"if", "body"} /\ IsLabel(tac_list', f)
    BY <1>1, <1>4, <1>6
  <2>2. \A i \in Jumps : SameJump(i)
    BY <1>6
  <2>3. Grows /\ label' \in Seq(Int) /\ Len(label) <= Len(label')
    BY <1>5, <1>6
  <2>4. \A c \in 1 .. Len(label) : label'[c] = p[c]
    BY <1>5
  <2>5. Settles
    <3>1. f \in Nat /\ Top.at \in Nat
      BY <1>2, <1>4
    <3>2. Depth > 0 /\ CanPatch(tac_list, Top.exp)
      BY <1>1
    <3> QED
      BY <1>3a, <1>7, <2>1, <2>2, <2>3, <2>4, <3>1, <3>2, PatchResolves, SMTT(60)
  <2> QED
    BY <2>5 DEF Settles
<1>9. StackStep(Depth - 1) /\ NewFrameOK(Depth - 1)
  BY <1>1, <1>2, Popped
<1>10. \A i \in Jumps' : i > Len(tac_list) => Resolved(i)'
  BY <1>5, <1>6, <1>7 DEF Resolved
<1>11. ~ lost => \A i \in Jumps' : Resolved(i)' \/ Pending(i)'
  BY <1>2, <1>6, <1>8, <1>9, <1>10, JumpsKept
<1>12. Calm(Depth - 1)
  <2>1. Depth \in 1 .. Depth /\ stack[Depth].kind \notin {"exp", "operand", "and", "or"}
    BY <1>1, <1>2 DEF Top
  <2>2. \A g \in 1 .. Depth : stack[g].kind # "operand"
    BY <2>1, NoOperand
  <2>3. \A g \in 1 .. Depth - 1 : stack[g].kind # "operand"
    BY <1>2, <2>2
  <2> QED
    BY <2>3, CalmStatement
<1> QED
  BY <1>12, <1>1, <1>2, <1>6, <1>8, <1>9, <1>11, Assemble

LEMMA ElseEndKeeps ==
  ASSUME IInv, ElseEnd, lost' = (lost \/ Loses)
  PROVE  IInv'
<1>1. /\ Depth > 0 /\ Top.kind = "else" /\ status = "running" /\ UNCHANGED status
      /\ stack' = Keep(Depth - 1) /\ Emit(<<LabelCode>>)
  BY DEF ElseEnd, TopIs
<1>2. /\ Depth \in Nat /\ Depth - 1 \in 0 .. Depth
      /\ FrameFits(tac_list, Top) /\ Top.at \in Nat
      /\ \A f \in 1 .. Depth - 1 : stack[f].kind # "exp"
  BY <1>1, TopFits
<1>3. PICK c \in TAC : c = LabelCode /\ c.op = "LABEL"
  BY Constructors DEF LabelCode
<1>4. /\ tac_list \in Seq(TAC) /\ Len(tac_list) \in Nat
      /\ label \in Seq(Int) /\ Len(label) \in Nat
  BY DEF IInv, TypeOK
<1>5. /\ tac_list' \in Seq(TAC)
      /\ Len(tac_list') = Len(tac_list) + 1
      /\ \A i \in 1 .. Len(tac_list) : tac_list'[i] = tac_list[i]
      /\ tac_list'[Len(tac_list) + 1] = c
  BY <1>1, <1>3, <1>4, Emit1
<1>6. /\ Grows
      /\ \A i \in Jumps : SameJump(i) /\ tac_list'[i].label \in 1 .. Len(label)
  BY <1>4, <1>5, Appended
<1>7. NewCodeOK(Len(tac_list)) /\ \A i \in Jumps' : ~ (i > Len(tac_list))
  BY <1>3, <1>4, <1>5 DEF NewCodeOK, Jumps
<1>8. StackStep(Depth - 1) /\ NewFrameOK(Depth - 1)
  BY <1>1, <1>2, Popped
<1>9. Next_addr \in Nat /\ IsLabel(tac_list', Next_addr)
  BY <1>3, <1>4, <1>5 DEF IsLabel, Next_addr
<1>10. Top.at \in Jumps /\ tac_list[Top.at].label \in 1 .. Len(label)
  <2>1. IsGoto(tac_list, Top.at)
    BY <1>1, <1>2 DEF FrameFits
  <2>2. Top.at \in Jumps
    BY <1>4, <2>1 DEF IsGoto, Jumps
  <2> QED
    BY <2>2 DEF IInv, TypeOK
<1>11. /\ label' \in Seq(Int) /\ Len(label') = Len(label)
       /\ \A c1 \in 1 .. Len(label) : label'[c1] = label[c1] \/ label'[c1] = Next_addr
       /\ label'[tac_list[Top.at].label] = Next_addr
  <2>1. label' = [label EXCEPT ![tac_list[Top.at].label] = Next_addr]
    BY DEF ElseEnd
  <2>2. PICK c1 \in 1 .. Len(label) : c1 = tac_list[Top.at].label
    BY <1>10
  <2>3. label' = [label EXCEPT ![c1] = Next_addr]
    BY <2>1, <2>2
  <2> QED
    BY <1>4, <1>9, <2>2, <2>3
<1>12. Relabels
  BY <1>4, <1>9, <1>11 DEF Relabels
<1>13. ASSUME NEW g \in Depth - 1 + 1 .. Depth, NEW i \in Jumps,
              PendingAt(tac_list, stack[g], i)
       PROVE  Resolved(i)'
  <2>1. stack[g] = Top
    BY <1>2 DEF Top
  <2>2. i = Top.at
    BY <1>1, <1>13, <2>1 DEF PendingAt
  <2>3. tac_list'[i].label = tac_list[i].label
    BY <1>6 DEF SameJump
  <2> QED
    BY <1>9, <1>11, <2>2, <2>3 DEF Resolved
<1>14. ~ lost => \A i \in Jumps' : Resolved(i)' \/ Pending(i)'
  BY <1>2, <1>6, <1>7, <1>8, <1>12, <1>13, JumpsKept
<1>15. Calm(Depth - 1)
  <2>1. Depth \in 1 .. Depth /\ stack[Depth].kind \notin {"exp", "operand", "and", "or"}
    BY <1>1, <1>2 DEF Top
  <2>2. \A g \in 1 .. Depth : stack[g].kind # "operand"
    BY <2>1, NoOperand
  <2>3. \A g \in 1 .. Depth - 1 : stack[g].kind # "operand"
    BY <1>2, <2>2
  <2> QED
    BY <2>3, CalmStatement
<1> QED
  BY <1>15, <1>1, <1>2, <1>6, <1>7, <1>8, <1>12, <1>14, Assemble

(* The translator stops, in a crash or at the end of the program. *)
LEMMA StopKeeps ==
  ASSUME IInv, NullCast \/ Finish \/ UNCHANGED vars,
         lost' \in BOOLEAN, lost => lost'
  PROVE  IInv'
<1>1. UNCHANGED <<tac_list, label, stack>>
  BY DEF NullCast, Finish, vars
<1>2. /\ TypeOK /\ IfHasGoto /\ ExpsOK /\ MarksOK /\ ResultOK /\ Nesting /\ NoJumpForgotten
      /\ DoneOK
  BY DEF IInv
<1>3. status' \in {"running", "done", "crashed"}
  BY <1>2 DEF NullCast, Finish, vars, TypeOK
<1>4. TypeOK'
  BY <1>1, <1>2, <1>3 DEF TypeOK, Jumps, Depth
<1>5. IfHasGoto' /\ ExpsOK' /\ MarksOK' /\ ResultOK' /\ Nesting'
  BY <1>1, <1>2 DEF IfHasGoto, ExpsOK, MarksOK, ResultOK, Nesting, Conds, Depth, IsGoto, IsIf, IsLabel
<1>6. NoJumpForgotten'
  BY <1>1, <1>2 DEF NoJumpForgotten, Jumps, Resolved, Pending, Conds, Depth, IsLabel, IsIf
<1>7. DoneOK'
  BY <1>1, <1>2 DEF DoneOK, NullCast, Finish, vars, Depth
<1> QED
  BY <1>4, <1>5, <1>6, <1>7 DEF IInv

-----------------------------------------------------------------------------
(***************************************************************************)
(* The end of && and ||: l is the left operand, fe and se its patched and  *)
(* its shared exit, r the right operand and re the exit shared with.       *)
(***************************************************************************)
JoinDid(k, l, r, fe, se, re) ==
  /\ l = Under.exp /\ r = Top.exp
  /\ se = ShareExit(k, Under.exp, Under.swap)
  /\ (fe = l /\ se = l + 1) \/ (fe = l + 1 /\ se = l)
  /\ re = SourceExit(k, Top.exp, tac_list[Top.exp].swap)
  /\ re = r \/ re = r + 1
  /\ IsIf(tac_list, l) /\ IsGoto(tac_list, l + 1)
  /\ re = r => IsIf(tac_list, r)
  /\ re # r => IsGoto(tac_list, r + 1)
  /\ label' = [label EXCEPT ![tac_list[fe].label] = Under.at]
  /\ tac_list' = [tac_list EXCEPT ![se].label = tac_list[re].label]
  /\ stack' = Append(Keep(Depth - 2), Top)
  /\ status = "running" /\ status' = "running"
  /\ Depth > 1 /\ Top.kind = "exp" /\ Under.kind = k

LEMMA JoinEffect ==
  ASSUME NEW k, Join(k)
  PROVE  \E l, r, fe, se, re : JoinDid(k, l, r, fe, se, re)
<1>1. PICK l, r, ls, rs : /\ l = Under.exp /\ r = Top.exp
                          /\ ls = Under.swap /\ rs = tac_list[r].swap
  OBVIOUS
<1>2. PICK fe, se, re : /\ fe = FallExit(k, l, ls)
                         /\ se = ShareExit(k, l, ls)
                         /\ re = SourceExit(k, r, rs)
  OBVIOUS
<1>3. /\ status = "running" /\ status' = "running"
      /\ Depth > 1 /\ Top.kind = "exp" /\ Under.kind = k
      /\ CastsOK(k, l, r)
      /\ label' = [label EXCEPT ![tac_list[fe].label] = Under.at]
      /\ tac_list' = [tac_list EXCEPT ![se].label = tac_list[re].label]
      /\ stack' = Append(Keep(Depth - 2), Top)
  BY <1>1, <1>2 DEF Join, Returned
<1>4. (fe = l /\ se = l + 1) \/ (fe = l + 1 /\ se = l)
  BY <1>2 DEF FallExit, ShareExit
<1>5. re = r \/ re = r + 1
  BY <1>2 DEF SourceExit
<1>6. /\ IsIf(tac_list, l) /\ IsGoto(tac_list, l + 1)
      /\ IF re = r THEN IsIf(tac_list, re) ELSE IsGoto(tac_list, re)
  BY <1>1, <1>2, <1>3 DEF CastsOK, CanPatch
<1>7. /\ se = ShareExit(k, Under.exp, Under.swap)
      /\ re = SourceExit(k, Top.exp, tac_list[Top.exp].swap)
  BY <1>1, <1>2
<1>8. /\ re = r => IsIf(tac_list, r)
      /\ re # r => IsGoto(tac_list, r + 1)
  BY <1>5, <1>6
<1> QED
  BY <1>1, <1>3, <1>4, <1>5, <1>6, <1>7, <1>8 DEF JoinDid

LEMMA JoinKeeps ==
  ASSUME IInv, NEW k \in {"and", "or"}, Join(k), lost' = (lost \/ Loses)
  PROVE  IInv'
<1>1. PICK l, r, fe, se, re : JoinDid(k, l, r, fe, se, re)
  BY JoinEffect
<1>2. /\ Depth > 1 /\ Top.kind = "exp" /\ Under.kind = k
      /\ l = Under.exp /\ r = Top.exp /\ status' = "running"
      /\ IsIf(tac_list, l) /\ IsGoto(tac_list, l + 1)
      /\ (fe = l /\ se = l + 1) \/ (fe = l + 1 /\ se = l)
      /\ re = r \/ re = r + 1
  BY <1>1 DEF JoinDid
<1>3. /\ tac_list \in Seq(TAC) /\ Len(tac_list) \in Nat
      /\ label \in Seq(Int) /\ Len(label) \in Nat /\ Depth \in Nat
      /\ \A i \in Jumps : tac_list[i].label \in 1 .. Len(label)
  BY DEF IInv, TypeOK, Depth
<1>4. /\ Depth - 2 \in 0 .. Depth /\ Depth - 2 + 1 = Depth - 1
      /\ Depth - 1 \in 1 .. Depth /\ Depth \in 1 .. Depth
  BY <1>2, <1>3
<1>5. /\ Top \in Frame /\ FrameFits(tac_list, Top) /\ r \in Nat
      /\ \A f \in 1 .. Depth - 2 : stack[f].kind # "exp"
  <2>1. Depth > 0 /\ \A f \in 1 .. Depth - 2 : f \in 1 .. Depth - 1
    BY <1>2, <1>3
  <2> QED
    BY <1>2, <2>1, TopFits
<1>6. /\ IsLabel(tac_list, Under.at) /\ Under.at \in Nat /\ l \in Nat
  BY <1>2, <1>4, Fits DEF FrameFits, Frame, Under
<1>7. IsIf(tac_list, r) /\ IsGoto(tac_list, r + 1)
  <2>1. IsIf(tac_list, r) \/ ~ IsGoto(tac_list, r + 1)
    BY <1>2, <1>5 DEF FrameFits
  <2>2. IsIf(tac_list, r)
    BY <1>1, <2>1 DEF JoinDid
  <2> QED
    BY <2>2 DEF IInv, IfHasGoto, IsIf, TypeOK
(* The two conditions are apart, and so is every other one. *)
<1>8. ASSUME NEW f \in 1 .. Depth, f # Depth - 1,
             stack[f].kind \notin {"else", "while"}, IsIf(tac_list, stack[f].exp)
      PROVE  stack[f].exp # se /\ stack[f].exp + 1 # se
  <2>1. stack[f].exp # l
    <3>1. stack[Depth - 1].kind \notin {"else", "while"} /\ stack[Depth - 1].exp = l
      BY <1>2 DEF Under
    <3> QED
      BY <1>4, <1>8, <3>1 DEF IInv, ExpsOK, Conds
  <2>2. stack[f].exp \in Nat
    BY Fits DEF Frame
  <2>3. IsGoto(tac_list, stack[f].exp + 1)
    BY <1>8 DEF IInv, IfHasGoto, IsIf, TypeOK
  <2>4. stack[f].exp # l + 1 /\ stack[f].exp + 1 # l
    BY <1>2, <1>8, <2>3 DEF IsIf, IsGoto
  <2> QED
    BY <1>2, <1>6, <2>1, <2>2, <2>4
<1>9. r # se /\ r + 1 # se
  <2>1. stack[Depth].kind = "exp" /\ stack[Depth].exp = r /\ Depth # Depth - 1
    BY <1>2, <1>3 DEF Top
  <2> QED
    BY <1>4, <1>7, <1>8, <2>1
<1>10. fe \in Jumps /\ se \in Jumps /\ re \in Jumps /\ fe # se
  <2>1. \A e \in Nat : IsIf(tac_list, e) \/ IsGoto(tac_list, e) => e \in Jumps
    BY DEF Jumps, IsIf, IsGoto
  <2>2. l \in Jumps /\ l + 1 \in Jumps /\ l # l + 1
    BY <1>2, <1>6, <2>1
  <2>3. r \in Jumps /\ r + 1 \in Jumps
    BY <1>5, <1>7, <2>1
  <2>4. fe \in Jumps /\ se \in Jumps /\ fe # se
    BY <1>2, <2>2
  <2>5. re \in Jumps
    BY <1>2, <2>3
  <2> QED
    BY <2>4, <2>5
(* The code: one jump is re-pointed. *)
<1>11. /\ tac_list' \in Seq(TAC) /\ Len(tac_list') = Len(tac_list)
       /\ \A i \in 1 .. Len(tac_list) : tac_list'[i].op = tac_list[i].op
       /\ \A i \in 1 .. Len(tac_list) :
            tac_list'[i].label = IF i = se THEN tac_list[re].label ELSE tac_list[i].label
  <2>1. PICK c : c = [tac_list[se] EXCEPT !.label = tac_list[re].label]
    OBVIOUS
  <2>2. tac_list' = [tac_list EXCEPT ![se] = c]
    BY <1>1, <2>1 DEF JoinDid
  <2>3. se \in 1 .. Len(tac_list) /\ tac_list[re].label \in Nat
    BY <1>3, <1>10 DEF Jumps
  <2>4. tac_list[se] \in TAC
    BY <1>3, <2>3
  <2>5. c \in TAC /\ c.op = tac_list[se].op /\ c.label = tac_list[re].label
    BY <2>1, <2>3, <2>4 DEF TAC
  <2> QED
    BY <1>3, <2>2, <2>3, <2>5
<1>12. /\ Grows
       /\ \A i \in Jumps : i # se => SameJump(i)
       /\ \A i \in Jumps : tac_list'[i].label \in 1 .. Len(label)
       /\ tac_list'[se].label = tac_list[re].label
       /\ NewCodeOK(Len(tac_list))
       /\ Jumps' = Jumps
  <2>1. Grows
    BY <1>3, <1>11 DEF Grows
  <2>2. \A i \in Jumps : i # se => SameJump(i)
    BY <1>11 DEF SameJump, Jumps
  <2>3. tac_list'[se].label = tac_list[re].label
    BY <1>10, <1>11 DEF Jumps
  <2>4. \A i \in Jumps : tac_list'[i].label \in 1 .. Len(label)
    BY <1>3, <1>10, <2>2, <2>3 DEF SameJump
  <2>5. NewCodeOK(Len(tac_list))
    BY <1>3, <1>11 DEF NewCodeOK
  <2>6. Jumps' = Jumps
    BY <1>11 DEF Jumps
  <2> QED
    BY <2>1, <2>2, <2>3, <2>4, <2>5, <2>6
(* The labels: one cell is set to the label of the right operand. *)
<1>13. /\ label' \in Seq(Int) /\ Len(label') = Len(label)
       /\ \A c \in 1 .. Len(label) :
            label'[c] = IF c = tac_list[fe].label THEN Under.at ELSE label[c]
  <2>1. PICK c1 \in 1 .. Len(label) : c1 = tac_list[fe].label
    BY <1>3, <1>10
  <2>2. label' = [label EXCEPT ![c1] = Under.at]
    BY <1>1, <2>1 DEF JoinDid
  <2>3. Under.at \in Int /\ label \in Seq(Int)
    BY <1>3, <1>6
  <2>4. label' \in Seq(Int) /\ Len(label') = Len(label)
    BY <2>2, <2>3
  <2>5. \A c \in 1 .. Len(label) : label'[c] = IF c = c1 THEN Under.at ELSE label[c]
    BY <2>2, <2>3
  <2> QED
    BY <2>1, <2>4, <2>5
<1>14. IsLabel(tac_list', Under.at)
  BY <1>6, <1>12, ClassKept DEF IInv
<1>15. Relabels
  BY <1>3, <1>13, <1>14 DEF Relabels
(* The stack: the right operand's frame stands for the whole condition. *)
<1>16. StackStep(Depth - 2) /\ stack'[Depth - 1] = Top /\ Len(stack') = Depth - 1
  <2>1. stack' = Append(Keep(Depth - 2), Top)
    BY <1>1 DEF JoinDid
  <2>2. /\ StackStep(Depth - 2) /\ stack'[Depth - 2 + 1] = Top
        /\ Len(stack') = Depth - 2 + 1
    BY <1>4, <1>5, <2>1, Pushed
  <2> QED
    BY <1>4, <2>2
<1>17. NewFrameOK(Depth - 2)
  <2>1. IsIf(tac_list', r)
    BY <1>5, <1>7, <1>12, ClassKept DEF IInv
  <2>2. FrameFits(tac_list', Top)
    BY <1>2, <1>5, <1>11, <2>1 DEF FrameFits
  <2>3. Depth > 0 /\ Depth - 2 \in 0 .. Depth - 1
    BY <1>2, <1>3
  <2>4. Distinct(Depth - 2, Top)
    BY <1>2, <2>3, TopDistinct
  <2> QED
    BY <1>4, <1>16, <2>2, <2>4 DEF NewFrameOK
(* No jump is forgotten. *)
<1>18. ASSUME NEW i, PendingAt(tac_list', Top, i)
       PROVE  Pending(i)'
  <2>1. Depth - 1 \in 1 .. Len(stack')
    BY <1>2, <1>3, <1>16
  <2> QED
    BY <1>16, <1>18, <2>1, PendingSplit
<1>19. /\ tac_list'[r].label = tac_list[r].label
       /\ tac_list'[r + 1].label = tac_list[r + 1].label
       /\ IsIf(tac_list', r)
  <2>1. r \in 1 .. Len(tac_list) /\ r + 1 \in 1 .. Len(tac_list)
    BY <1>3, <1>7 DEF IsIf, IsGoto
  <2>2. IsIf(tac_list', r)
    BY <1>5, <1>7, <1>12, ClassKept DEF IInv
  <2> QED
    BY <1>9, <1>11, <2>1, <2>2
<1>20. PendingAt(tac_list', Top, se)
  <2>1. tac_list'[se].label = tac_list'[r].label \/ tac_list'[se].label = tac_list'[r + 1].label
    BY <1>2, <1>12, <1>19
  <2> QED
    BY <1>2, <1>19, <2>1 DEF PendingAt
<1>21. ASSUME ~ Shared(k), NEW i \in Jumps, i # se, NEW f \in 1 .. Depth,
              PendingAt(tac_list, stack[f], i)
       PROVE  Resolved(i)' \/ Pending(i)'
  <2>1. tac_list'[i].label = tac_list[i].label
    BY <1>12, <1>21 DEF SameJump
  <2>2. CASE f = Depth
    <3>1. PendingAt(tac_list, Top, i)
      BY <1>21, <2>2 DEF Top
    <3>2. PendingAt(tac_list', Top, i)
      BY <1>2, <1>19, <2>1, <3>1 DEF PendingAt
    <3> QED
      BY <1>18, <3>2
  <2>3. CASE f = Depth - 1
    <3>1. PendingAt(tac_list, Under, i)
      BY <1>21, <2>3 DEF Under
    <3>2. tac_list[i].label = tac_list[l].label \/ tac_list[i].label = tac_list[l + 1].label
      BY <1>2, <3>1 DEF PendingAt
    <3>3. tac_list[i].label # tac_list[se].label
      BY <1>1, <1>21 DEF Shared, JoinDid
    <3>4. tac_list[i].label = tac_list[fe].label
      BY <1>2, <3>2, <3>3
    <3>5. label'[tac_list'[i].label] = Under.at
      BY <1>3, <1>10, <1>13, <2>1, <3>4
    <3> QED
      BY <1>14, <3>5 DEF Resolved
  <2>4. CASE f \in 1 .. Depth - 2
    <3>1. f # Depth - 1 /\ stack'[f] = stack[f] /\ f \in 1 .. Len(stack')
      BY <1>3, <1>16, <2>4 DEF StackStep
    <3>2. CASE stack[f].kind = "else"
      <4>1. PendingAt(tac_list', stack'[f], i)
        BY <1>21, <3>1, <3>2 DEF PendingAt
      <4> QED
        BY <3>1, <4>1, PendingSplit
    <3>3. CASE stack[f].kind \notin {"else", "while"} /\ IsIf(tac_list, stack[f].exp)
      <4>1. stack[f].exp # se /\ stack[f].exp + 1 # se
        BY <1>8, <3>1, <3>3
      <4>2. stack[f].exp \in Nat /\ IsGoto(tac_list, stack[f].exp + 1)
        <5>1. stack[f].exp \in Nat
          BY Fits DEF Frame
        <5> QED
          BY <3>3, <5>1 DEF IInv, IfHasGoto, IsIf, TypeOK
      <4>3. /\ tac_list'[stack[f].exp].label = tac_list[stack[f].exp].label
            /\ tac_list'[stack[f].exp + 1].label = tac_list[stack[f].exp + 1].label
        BY <1>3, <1>11, <3>3, <4>1, <4>2 DEF IsIf, IsGoto
      <4>4. IsIf(tac_list', stack[f].exp)
        BY <1>12, <3>3, <4>2, ClassKept DEF IInv
      <4>5. PendingAt(tac_list', stack[f], i)
        BY <1>21, <2>1, <3>3, <4>3, <4>4 DEF PendingAt
      <4> QED
        BY <3>1, <4>5, PendingSplit
    <3> QED
      BY <1>21, <3>2, <3>3 DEF PendingAt
  <2> QED
    BY <1>3, <2>2, <2>3, <2>4
<1>22. ASSUME ~ lost, ~ Loses, NEW i \in Jumps'
       PROVE  Resolved(i)' \/ Pending(i)'
  <2>1. i \in Jumps /\ ~ Shared(k)
    BY <1>12, <1>22 DEF Loses
  <2>2. CASE i = se
    BY <1>18, <1>20, <2>2
  <2>3. CASE i # se /\ Resolved(i)
    BY <1>12, <1>15, <2>1, <2>3, ResolvedKept DEF IInv
  <2>4. CASE i # se /\ Pending(i)
    <3>1. PICK f \in 1 .. Depth : PendingAt(tac_list, stack[f], i)
      BY <2>4, PendingSplit
    <3> QED
      BY <1>21, <2>1, <2>4, <3>1
  <2> QED
    BY <1>22, <2>1, <2>2, <2>3, <2>4 DEF IInv, NoJumpForgotten
<1>23. Calm(Depth - 2)
  <2>1. ~ IsGoto(tac_list', Len(tac_list) + 1)
    BY <1>3, <1>11 DEF IsGoto
  <2> QED
    BY <1>2, <1>4, <1>16, <2>1, CalmExpression
<1> QED
  BY <1>2, <1>4, <1>5, <1>12, <1>15, <1>16, <1>17, <1>22, <1>23, Assemble

-----------------------------------------------------------------------------
LEMMA InitIInv ==
  ASSUME HInit
  PROVE  IInv
<1>1. /\ tac_list = << >> /\ label = << >> /\ stack = << >>
      /\ status = "running" /\ lost = FALSE
  BY DEF HInit, Init
<1>2. Depth = 0 /\ Jumps = {} /\ Conds = {} /\ Len(tac_list) = 0
  BY <1>1 DEF Depth, Jumps, Conds
<1>3. TypeOK
  <2>1. /\ << >> \in Seq(TAC) /\ << >> \in Seq(Int) /\ << >> \in Seq(Frame)
    OBVIOUS
  <2>2. lost \in BOOLEAN
    BY <1>1
  <2>3. \A f \in 1 .. Depth : stack[f].exp <= Len(tac_list)
    BY <1>2
  <2> QED
    BY <1>1, <1>2, <2>1, <2>2, <2>3 DEF TypeOK
<1>4. IfHasGoto /\ ExpsOK /\ MarksOK /\ ResultOK /\ Nesting /\ DoneOK /\ NoJumpForgotten
  BY <1>1, <1>2 DEF IfHasGoto, ExpsOK, MarksOK, ResultOK, Nesting, DoneOK, NoJumpForgotten
<1> QED
  BY <1>3, <1>4 DEF IInv

LEMMA StatementKeeps ==
  ASSUME IInv, NEW n \in {0, 1}, Return(n) \/ \E m \in Marks : Write(m, n),
         lost' = (lost \/ Loses)
  PROVE  IInv'
<1>1. /\ StmtUses(n) /\ status = "running" /\ UNCHANGED <<label, status>>
      /\ stack' = Keep(Depth - n)
  BY DEF Return, Write, Uses
<1>2. PICK c \in TAC : Emit(<<c>>) /\ c.op \notin {"IF", "GOTO"}
  <2>1. CASE \E m \in Marks : Write(m, n)
    <3>1. PICK m \in Marks : Write(m, n)
      BY <2>1
    <3>2. WriteCode(m) \in TAC /\ WriteCode(m).op \notin {"IF", "GOTO"}
      BY Constructors DEF WriteCode
    <3> QED
      BY <3>1, <3>2 DEF Write
  <2>2. CASE Return(n)
    <3>1. ReturnCode \in TAC /\ ReturnCode.op \notin {"IF", "GOTO"}
      BY Constructors DEF ReturnCode
    <3> QED
      BY <2>2, <3>1 DEF Return
  <2> QED
    BY <2>1, <2>2
<1>3. Spends(n) /\ n \in Arity /\ UsesValues(n)
  BY <1>1, StatementSpends DEF Arity, UsesValues
<1>4. StackStep(Depth - n) /\ NewFrameOK(Depth - n)
  BY <1>1, <1>3, Popped DEF Spends
<1>5. Calm(Depth - n)
  BY <1>1, StatementSpends, CalmStatement
<1> QED
  BY <1>1, <1>2, <1>3, <1>4, <1>5, UseKeeps

(***************************************************************************)
(* Every step of the translator preserves the invariant.                   *)
(***************************************************************************)
LEMMA NextIInv ==
  ASSUME IInv, [HNext]_hvars
  PROVE  IInv'
<1>1. CASE HNext
  <2>0. lost' = (lost \/ Loses) /\ lost \in BOOLEAN
    BY <1>1 DEF HNext, IInv, TypeOK
  <2>1. CASE \E n \in Arity : Value(n)
    BY <2>0, <2>1, ValueKeeps
  <2>2. CASE \E a \in Atoms, n \in Arity : Relop(a, n)
    BY <2>0, <2>2, RelopKeeps
  <2>2a. CASE Operand
    BY <2>0, <2>2a, OperandKeeps
  <2>2b. CASE \E n \in Arity : Assign(n)
    <3>1. PICK n \in Arity : Assign(n)
      BY <2>2b
    <3>2. n \in {1, 2}
      BY <3>1 DEF Assign, Arity
    <3> QED
      BY <2>0, <3>1, <3>2, AssignKeeps
  <2>3. CASE Not
    BY <2>0, <2>3, NotKeeps
  <2>4. CASE \E k \in {"and", "or"} : Connective(k)
    BY <2>0, <2>4, ConnectiveKeeps
  <2>5. CASE \E k \in {"and", "or"} : Join(k)
    BY <2>0, <2>5, JoinKeeps
  <2>6. CASE \E n \in {0, 1} : Return(n) \/ \E m \in Marks : Write(m, n)
    BY <2>0, <2>6, StatementKeeps
  <2>7. CASE ExpStmt
    BY <2>0, <2>7, ExpStmtKeeps
  <2>8. CASE IfCond
    BY <2>0, <2>8, IfCondKeeps
  <2>9. CASE IfEnd
    BY <2>0, <2>9, IfEndKeeps
  <2>10. CASE Else
    BY <2>0, <2>10, ElseKeeps
  <2>11. CASE ElseEnd
    BY <2>0, <2>11, ElseEndKeeps
  <2>12. CASE WhileStart
    BY <2>0, <2>12, WhileStartKeeps
  <2>13. CASE WhileCond
    BY <2>0, <2>13, WhileCondKeeps
  <2>14. CASE WhileEnd
    BY <2>0, <2>14, WhileEndKeeps
  <2>15. CASE NullCast \/ Finish
    <3>1. lost' \in BOOLEAN
      BY <2>0, LostStep
    <3>2. lost => lost'
      BY <2>0
    <3> QED
      BY <2>15, <3>1, <3>2, StopKeeps
  <2> QED
    BY <1>1, <2>1, <2>2, <2>2a, <2>2b, <2>3, <2>4, <2>5, <2>6, <2>7, <2>8, <2>9, <2>10, <2>11,
       <2>12, <2>13, <2>14, <2>15 DEF HNext, Next
<1>2. CASE UNCHANGED hvars
  <2>1. UNCHANGED vars /\ UNCHANGED lost
    BY <1>2 DEF hvars
  <2>2. lost' \in BOOLEAN /\ (lost => lost')
    BY <2>1 DEF IInv, TypeOK
  <2> QED
    BY <2>1, <2>2, StopKeeps
<1> QED
  BY <1>1, <1>2

(***************************************************************************)
(* The code and the open calls always fit together, whatever the program.  *)
(***************************************************************************)
THEOREM Invariance == HSpec => []IInv
<1>1. HInit => IInv
  BY InitIInv
<1>2. IInv /\ [HNext]_hvars => IInv'
  BY NextIInv
<1> QED
  BY <1>1, <1>2, PTL DEF HSpec

(***************************************************************************)
(* Every index the translator keeps, in a jump or in a frame, exists.      *)
(***************************************************************************)
THEOREM TypeCorrect == HSpec => []TypeOK
<1>1. IInv => TypeOK
  BY DEF IInv
<1> QED
  BY <1>1, Invariance, PTL

(***************************************************************************)
(* No IF or GOTO is forgotten by the sharing of label cells, as long as no *)
(* cell with a third jump on it is re-pointed and no condition is used as  *)
(* a value.                                                                *)
(***************************************************************************)
THEOREM NothingForgotten == HSpec => []NoJumpForgotten
<1>1. IInv => NoJumpForgotten
  BY DEF IInv
<1> QED
  BY <1>1, Invariance, PTL

(***************************************************************************)
(* The printed code of a program that loses no exit has every label it     *)
(* jumps to.                                                               *)
(***************************************************************************)
THEOREM PrintedLabelsDefined == HSpec => []LabelsDefined
<1>1. IInv => LabelsDefined
  <2> SUFFICES ASSUME IInv, status = "done", ~ lost, NEW i \in Jumps
               PROVE  Resolved(i)
    BY DEF LabelsDefined
  <2>1. Depth = 0
    BY DEF IInv, DoneOK
  <2>2. ~ Pending(i)
    BY <2>1, PendingSplit
  <2> QED
    BY <2>2 DEF IInv, NoJumpForgotten
<1> QED
  BY <1>1, Invariance, PTL

(* The step to "crashed" finds an expression that is no comparison. *)
LEMMA CrashStep ==
  ASSUME IInv, HNext, status' = "crashed"
  PROVE  \E f \in Conds : /\ f = Depth \/ (f = Depth - 1 /\ TopIs({"exp"}))
                          /\ ~ IsIf(tac_list, stack[f].exp)
<1>1. NullCast
  BY DEF HNext, Next, hvars, vars, NullCast, Operand, Value, Relop, Assign, Not, Connective, Join,
         Write, Return, ExpStmt, IfCond, IfEnd, Else, ElseEnd, WhileStart,
         WhileCond, WhileEnd, Finish, Uses
<1>2. ASSUME NEW i, IsIf(tac_list, i)
      PROVE  CanPatch(tac_list, i)
  BY <1>2 DEF IInv, IfHasGoto, CanPatch, IsIf, TypeOK
<1>3. CASE \E k \in {"and", "or"} : Returned(k) /\ ~ CastsOK(k, Under.exp, Top.exp)
  <2>1. PICK k \in {"and", "or"} : Returned(k) /\ ~ CastsOK(k, Under.exp, Top.exp)
    BY <1>3
  <2>2. Depth > 1 /\ Depth \in Conds /\ Depth - 1 \in Conds /\ TopIs({"exp"})
    BY <2>1 DEF Returned, Depth, IInv, TypeOK, Conds, Top, Under, TopIs
  <2>3. ~ (CanPatch(tac_list, Under.exp) /\ CanPatch(tac_list, Top.exp))
    BY <2>1 DEF CastsOK, CanPatch, SourceExit
  <2>4. ~ IsIf(tac_list, Under.exp) \/ ~ IsIf(tac_list, Top.exp)
    BY <1>2, <2>3
  <2> QED
    BY <2>2, <2>4 DEF Under, Top
<1>4. CASE TopIs({"if", "body"}) /\ ~ CanPatch(tac_list, Top.exp)
  <2>1. Depth \in Conds
    BY <1>4 DEF TopIs, Depth, IInv, TypeOK, Conds, Top
  <2> QED
    BY <1>2, <1>4, <2>1 DEF Top
<1> QED
  BY <1>1, <1>3, <1>4 DEF NullCast

(***************************************************************************)
(* The translator crashes only on an expression that is no comparison.     *)
(***************************************************************************)
THEOREM CrashCause == HSpec => CrashNeedsNonCondition
<1>1. IInv /\ [HNext]_hvars =>
        [status' = "crashed" =>
           \E f \in Conds :
             /\ f = Depth \/ (f = Depth - 1 /\ TopIs({"exp"}))
             /\ ~ IsIf(tac_list, stack[f].exp)]_hvars
  BY CrashStep
<1> QED
  BY <1>1, Invariance, PTL DEF HSpec, CrashNeedsNonCondition

-----------------------------------------------------------------------------
(***************************************************************************)
(* The source of the program: what its conditions look like is what their  *)
(* jumps share.                                                            *)
(***************************************************************************)
LEMMA Prefix ==
  ASSUME NEW S, NEW s \in Seq(S), NEW n \in 0 .. Len(s)
  PROVE  /\ SubSeq(s, 1, n) \in Seq(S)
         /\ Len(SubSeq(s, 1, n)) = n
         /\ \A i \in 1 .. n : SubSeq(s, 1, n)[i] = s[i]
<1>1. \A i \in 1 .. n : s[i] \in S
  OBVIOUS
<1>2. Len(s) \in Nat
  OBVIOUS
<1> QED
  BY <1>1, <1>2, SubSeqProperties

(* The constructors of looks. *)
LEMMA Looks ==
  /\ RelopLook \in Look /\ LiteralLook \in Look /\ NoLook \in Look
  /\ \A x \in Look : NotLook(x) \in Look
  /\ \A l, r \in Look, k \in {"and", "or"} : JoinLook(k, l, r) \in Look
<1>1. RelopLook \in Look
  BY DEF RelopLook, Look
<1>2. LiteralLook \in Look
  BY <1>1 DEF LiteralLook, Look
<1>3. ASSUME NEW x \in Look
      PROVE  NotLook(x) \in Look
  BY DEF NotLook, Look
<1>4. ASSUME NEW l \in Look, NEW r \in Look, NEW k \in {"and", "or"}
      PROVE  JoinLook(k, l, r) \in Look
  <2>1. r.several \union {k = "or"} \in SUBSET BOOLEAN
    BY DEF Look
  <2>2. /\ (l.chained \/ r.chained \/ (k = "or") \in l.several) \in BOOLEAN
        /\ (l.literal \/ r.literal) \in BOOLEAN
    OBVIOUS
  <2> QED
    BY <2>1, <2>2 DEF JoinLook, Look
<1> QED
  BY <1>1, <1>2, <1>3, <1>4 DEF NoLook

(* The looks of the first m calls stay, and at most one more comes. *)
OpenStep(m) ==
  /\ shape'.open \in Seq(Look)
  /\ Len(shape'.open) = Len(stack')
  /\ \A f \in 1 .. m : shape'.open[f] = shape.open[f]

(* Code is appended, and a jump in it has a new cell. *)
Appends ==
  /\ Len(tac_list') \in Nat /\ Len(tac_list) <= Len(tac_list')
  /\ \A i \in 1 .. Len(tac_list) : tac_list'[i] = tac_list[i]
  /\ \A i \in Len(tac_list) + 1 .. Len(tac_list') :
       tac_list'[i].op \in {"IF", "GOTO"} =>
         /\ tac_list'[i].label > Len(label)
         /\ \A j \in Len(tac_list) + 1 .. Len(tac_list') :
              tac_list'[j].op \in {"IF", "GOTO"} /\ tac_list'[j].label = tac_list'[i].label => i = j

LEMMA JoinedKept ==
  ASSUME IInv, Appends, NEW x \in Jumps
  PROVE  Joined(tac_list', x) <=> Joined(tac_list, x)
<1>1. /\ Len(tac_list) \in Nat /\ Len(label) \in Nat
      /\ \A i \in Jumps : tac_list[i].label \in 1 .. Len(label)
  BY DEF IInv, TypeOK
<1>2. x \in 1 .. Len(tac_list) /\ tac_list'[x] = tac_list[x]
  BY DEF Jumps, Appends
<1>3. ASSUME NEW j \in 1 .. Len(tac_list'), tac_list'[j].op \in {"IF", "GOTO"},
             tac_list'[j].label = tac_list'[x].label
      PROVE  j \in 1 .. Len(tac_list)
  BY <1>1, <1>2, <1>3 DEF Appends
<1>4. ASSUME Joined(tac_list, x)
      PROVE  Joined(tac_list', x)
  <2>1. PICK j \in 1 .. Len(tac_list) :
          j # x /\ tac_list[j].op \in {"IF", "GOTO"} /\ tac_list[j].label = tac_list[x].label
    BY <1>4 DEF Joined
  <2>2. j \in 1 .. Len(tac_list') /\ tac_list'[j] = tac_list[j]
    BY <1>1 DEF Appends
  <2> QED
    BY <1>2, <2>1, <2>2 DEF Joined
<1>5. ASSUME Joined(tac_list', x)
      PROVE  Joined(tac_list, x)
  <2>1. PICK j \in 1 .. Len(tac_list') :
          j # x /\ tac_list'[j].op \in {"IF", "GOTO"} /\ tac_list'[j].label = tac_list'[x].label
    BY <1>5 DEF Joined
  <2>2. j \in 1 .. Len(tac_list)
    BY <1>3, <2>1
  <2>3. tac_list'[j] = tac_list[j]
    BY <2>2 DEF Appends
  <2> QED
    BY <1>2, <2>1, <2>2, <2>3 DEF Joined
<1> QED
  BY <1>4, <1>5

(* The jumps of a condition. *)
LEMMA ExitsAreJumps ==
  ASSUME IInv, NEW e \in Nat, IsIf(tac_list, e)
  PROVE  /\ e \in Jumps /\ e + 1 \in Jumps /\ IsGoto(tac_list, e + 1)
         /\ \A b : Exit(tac_list, e, b) \in Jumps
<1>1. tac_list \in Seq(TAC) /\ e \in 1 .. Len(tac_list)
  BY DEF IInv, TypeOK, IsIf
<1>2. IsGoto(tac_list, e + 1)
  BY <1>1 DEF IInv, IfHasGoto, IsIf
<1> QED
  BY <1>1, <1>2 DEF Jumps, IsIf, IsGoto, Exit

(* A condition looks the same when code is appended. *)
LEMMA LookKept ==
  ASSUME IInv, Appends, NEW fr \in Frame, NEW look,
         fr.kind \notin {"else", "while"} => fr.exp \in 1 .. Len(tac_list),
         LookFits(tac_list, fr, look)
  PROVE  LookFits(tac_list', fr, look)
<1>1. CASE fr.kind \in {"else", "while"}
  BY <1>1 DEF LookFits
<1>2. CASE fr.kind \notin {"else", "while"}
  <2>1. /\ fr.exp \in Nat /\ fr.exp \in 1 .. Len(tac_list) /\ fr.exp \in 1 .. Len(tac_list')
        /\ tac_list'[fr.exp] = tac_list[fr.exp]
    BY <1>2 DEF Frame, Appends, IInv, TypeOK
  <2>2. IsIf(tac_list', fr.exp) <=> IsIf(tac_list, fr.exp)
    <3>1. DOMAIN tac_list = 1 .. Len(tac_list)
      BY DEF IInv, TypeOK
    <3>2. tac_list' \in Seq(TAC) => DOMAIN tac_list' = 1 .. Len(tac_list')
      OBVIOUS
    <3> QED
      BY <2>1, <3>1 DEF IsIf
  <2>3. ASSUME IsIf(tac_list, fr.exp), NEW b \in BOOLEAN
        PROVE  /\ Exit(tac_list', fr.exp, b) = Exit(tac_list, fr.exp, b)
               /\ Joined(tac_list', Exit(tac_list', fr.exp, b)) <=>
                    Joined(tac_list, Exit(tac_list, fr.exp, b))
    <3>1. Exit(tac_list', fr.exp, b) = Exit(tac_list, fr.exp, b)
      BY <2>1 DEF Exit
    <3>2. Exit(tac_list, fr.exp, b) \in Jumps
      BY <2>1, <2>3, ExitsAreJumps
    <3> QED
      BY <3>1, <3>2, JoinedKept
  <2> QED
    BY <1>2, <2>1, <2>2, <2>3 DEF LookFits
<1> QED
  BY <1>1, <1>2

(* The first m open conditions look as before, and so does the code of a new one. *)
LEMMA LinedUp ==
  ASSUME IInv, LooksFit, Appends, NEW m \in 0 .. Depth, StackStep(m), OpenStep(m),
         Len(stack') = m + 1 => LookFits(tac_list', stack'[m + 1], shape'.open[m + 1])
  PROVE  LooksFit'
<1>1. Depth' = Len(stack') /\ Depth \in Nat
  BY DEF Depth, IInv, TypeOK
<1> SUFFICES ASSUME NEW f \in 1 .. Len(stack')
             PROVE  LookFits(tac_list', stack'[f], shape'.open[f])
  BY <1>1 DEF LooksFit
<1>2. CASE f \in 1 .. m
  <2>1. f \in 1 .. Depth /\ stack'[f] = stack[f] /\ shape'.open[f] = shape.open[f]
    BY <1>1, <1>2 DEF StackStep, OpenStep
  <2>2. FrameFits(tac_list, stack[f]) /\ stack[f] \in Frame
    BY <2>1, Fits
  <2>3. LookFits(tac_list, stack[f], shape.open[f])
    BY <2>1 DEF LooksFit
  <2>4. LookFits(tac_list', stack[f], shape.open[f])
    BY <2>2, <2>3, LookKept DEF FrameFits
  <2> QED
    BY <2>1, <2>4
<1>3. CASE f \notin 1 .. m
  <2>1. f = m + 1 /\ Len(stack') = m + 1
    BY <1>1, <1>3 DEF StackStep
  <2> QED
    BY <2>1
<1> QED
  BY <1>2, <1>3

(* The innermost open condition after a step has the jumps of one before, or new ones. *)
NewHead(m) ==
  Len(stack') = m + 1 /\ stack'[m + 1].kind \notin {"else", "while"}
    /\ IsIf(tac_list', stack'[m + 1].exp) =>
  LET e == stack'[m + 1].exp
  IN  \/ e \in Heads
      \/ /\ e \in Len(tac_list) + 1 .. Len(tac_list')
         /\ e + 1 \in Len(tac_list) + 1 .. Len(tac_list')
         /\ tac_list'[e].op = "IF" /\ tac_list'[e + 1].op = "GOTO"

LEMMA StillApart ==
  ASSUME IInv, CellsApart, Appends, NEW m \in 0 .. Depth, StackStep(m), NewHead(m)
  PROVE  CellsApart'
<1>1. /\ Depth' = Len(stack') /\ Depth \in Nat
      /\ Len(tac_list) \in Nat /\ Len(label) \in Nat
      /\ \A i \in Jumps : tac_list[i].label \in 1 .. Len(label)
  BY DEF Depth, IInv, TypeOK
<1>2. ASSUME NEW p \in Heads', p \notin Heads
      PROVE  /\ p = stack'[m + 1].exp
             /\ p \in Len(tac_list) + 1 .. Len(tac_list')
             /\ p + 1 \in Len(tac_list) + 1 .. Len(tac_list')
             /\ tac_list'[p].op = "IF" /\ tac_list'[p + 1].op = "GOTO"
  <2>1. PICK f \in 1 .. Len(stack') : /\ stack'[f].kind \notin {"else", "while"}
                                     /\ IsIf(tac_list', stack'[f].exp)
                                     /\ p = stack'[f].exp
    BY <1>1 DEF Heads, Conds
  <2>2. f \notin 1 .. m
    <3> SUFFICES ASSUME f \in 1 .. m
                 PROVE  FALSE
      OBVIOUS
    <3>1. f \in 1 .. Depth /\ stack'[f] = stack[f]
      BY <1>1 DEF StackStep
    <3>2. stack[f].exp \in 1 .. Len(tac_list)
      BY <2>1, <3>1, Fits DEF FrameFits
    <3>3. IsIf(tac_list, stack[f].exp)
      BY <1>1, <2>1, <3>1, <3>2 DEF IsIf, Appends, IInv, TypeOK
    <3> QED
      BY <1>2, <2>1, <3>1, <3>3 DEF Heads, Conds
  <2>3. f = m + 1 /\ Len(stack') = m + 1
    BY <1>1, <2>2 DEF StackStep
  <2> QED
    BY <1>2, <2>1, <2>3 DEF NewHead
<1>3. ASSUME NEW p \in Heads
      PROVE  /\ p \in Jumps /\ p + 1 \in Jumps
             /\ tac_list'[p] = tac_list[p] /\ tac_list'[p + 1] = tac_list[p + 1]
             /\ p \in Nat
  <2>1. PICK f \in 1 .. Depth : IsIf(tac_list, stack[f].exp) /\ p = stack[f].exp
    BY DEF Heads, Conds
  <2>2. p \in Nat
    BY <2>1, Fits DEF Frame
  <2>3. p \in Jumps /\ p + 1 \in Jumps
    BY <2>1, <2>2, ExitsAreJumps
  <2> QED
    BY <2>2, <2>3 DEF Jumps, Appends
<1>4. ASSUME NEW p \in Heads', NEW x \in {p, p + 1}
      PROVE  \/ p \in Heads /\ tac_list'[x].label = tac_list[x].label
                /\ tac_list'[x].label \in 1 .. Len(label)
             \/ /\ p \notin Heads /\ x \in Len(tac_list) + 1 .. Len(tac_list')
                /\ tac_list'[x].op \in {"IF", "GOTO"} /\ tac_list'[x].label > Len(label)
  <2>1. CASE p \in Heads
    BY <1>1, <1>3, <1>4, <2>1
  <2>2. CASE p \notin Heads
    <3>1. x \in Len(tac_list) + 1 .. Len(tac_list') /\ tac_list'[x].op \in {"IF", "GOTO"}
      BY <1>2, <1>4, <2>2
    <3> QED
      BY <2>2, <3>1 DEF Appends
  <2> QED
    BY <2>1, <2>2
<1> SUFFICES ASSUME NEW p \in Heads', NEW q \in Heads',
                    NEW x \in {p, p + 1}, NEW y \in {q, q + 1},
                    tac_list'[x].label = tac_list'[y].label
             PROVE  x = y
  BY DEF CellsApart
<1>5. CASE p \in Heads /\ q \in Heads
  BY <1>4, <1>5 DEF CellsApart
<1>6. CASE p \notin Heads /\ q \notin Heads
  BY <1>4, <1>6 DEF Appends
<1>7. ASSUME NEW i \in 1 .. Len(label)
      PROVE  ~ (i > Len(label))
  BY <1>1
<1>8. CASE p \in Heads /\ q \notin Heads
  <2>1. tac_list'[x].label \in 1 .. Len(label) /\ tac_list'[y].label > Len(label)
    BY <1>4, <1>8
  <2> QED
    BY <1>7, <2>1
<1>9. CASE p \notin Heads /\ q \in Heads
  <2>1. tac_list'[y].label \in 1 .. Len(label) /\ tac_list'[x].label > Len(label)
    BY <1>4, <1>9
  <2> QED
    BY <1>7, <2>1
<1> QED
  BY <1>5, <1>6, <1>8, <1>9

(* What a step that uses a condition as a value leaves behind. *)
LEMMA UsesShow ==
  ASSUME IInv, NEW n \in Arity, UsesValues(n), n # 0
  PROVE  /\ Depth > 0 /\ Top.kind = "exp" /\ status' = "running"
         /\ \/ /\ Len(stack') = Depth - n + 1
               /\ ~ (stack'[Depth - n + 1].exp <= Len(tac_list))
               /\ n = 2 => Returned("operand")
            \/ /\ n = 1 /\ Len(stack') = Depth - 1
               /\ \/ StmtExp
                  \/ Returned("operand") /\ stack'[Depth - 1].exp <= Len(tac_list)
<1>1. Depth \in Nat /\ Len(tac_list) \in Nat /\ stack \in Seq(Frame) /\ n \in {1, 2}
  BY DEF IInv, TypeOK, Depth, Arity
<1>2. ASSUME Operands(n)
      PROVE  Depth > 0 /\ Top.kind = "exp" /\ Depth - n \in 0 .. Depth
             /\ (n = 2 => Returned("operand"))
  BY <1>1, <1>2 DEF Operands, TopIs, Returned
<1>3. ASSUME Operands(n), NEW e \in Nat, e > Len(tac_list),
             stack' = Append(Keep(Depth - n), ExpFrame(e))
      PROVE  Len(stack') = Depth - n + 1 /\ ~ (stack'[Depth - n + 1].exp <= Len(tac_list))
  <2>1. PICK fr \in Frame : fr = ExpFrame(e) /\ fr.exp = e
    BY ExpFrames
  <2>2. stack' = Append(Keep(Depth - n), fr) /\ Depth - n \in 0 .. Depth
    BY <1>2, <1>3, <2>1
  <2>3. Len(stack') = Depth - n + 1 /\ stack'[Depth - n + 1] = fr
    BY <2>1, <2>2, Pushed
  <2>4. ~ (e <= Len(tac_list))
    BY <1>1, <1>3
  <2> QED
    BY <2>1, <2>3, <2>4
<1>4. CASE Value(n)
  <2>1. Operands(n) /\ status' = "running"
    BY <1>4 DEF Value, Uses
  <2>2. Next_addr \in Nat /\ Next_addr > Len(tac_list)
    BY <1>1 DEF Next_addr
  <2> QED
    BY <1>2, <1>3, <1>4, <2>1, <2>2 DEF Value
<1>5. CASE \E a \in Atoms : Relop(a, n)
  <2>1. PICK a \in Atoms : Relop(a, n)
    BY <1>5
  <2>2. PICK k, d, c : k = Len(tac_list) /\ d = (IF n = 0 THEN Literals[a] ELSE 0) /\ c = Len(label)
    OBVIOUS
  <2>3. RelopDid(k, d, c, n)
    BY <2>1, <2>2, RelopEffect DEF IInv
  <2>4. /\ Operands(n) /\ k \in Nat /\ d \in Nat
        /\ stack' = Append(Keep(Depth - n), ExpFrame(k + d + 1))
    BY <2>3 DEF RelopDid
  <2>5. k + d + 1 \in Nat /\ k + d + 1 > k
    BY <2>4
  <2>6. status' = "running"
    BY <2>1 DEF Relop, Uses
  <2> QED
    BY <1>2, <1>3, <2>2, <2>4, <2>5, <2>6
<1>6. CASE n = 1 /\ (ExpStmt \/ Return(n) \/ \E m \in Marks : Write(m, n))
  <2>1. StmtExp /\ stack' = Keep(Depth - 1) /\ status' = "running"
    BY <1>6 DEF ExpStmt, Return, Write, StmtUses, Uses
  <2>2. Depth > 0 /\ Top.kind = "exp" /\ Depth - 1 \in 0 .. Depth
    BY <1>1, <2>1 DEF StmtExp, TopIs
  <2>3. Len(stack') = Depth - 1
    BY <1>1, <2>1, <2>2, KeepN
  <2> QED
    BY <1>6, <2>1, <2>2, <2>3
<1>7. CASE n = 1 /\ Assign(2)
  <2>1. /\ Returned("operand") /\ status' = "running"
        /\ stack' = Append(Keep(Depth - 2), ExpFrame(stack[Depth - 2 + 1].exp))
    BY <1>7 DEF Assign, Operands, Uses
  <2>2. Depth > 1 /\ Top.kind = "exp" /\ stack[Depth - 1].kind = "operand"
    BY <2>1 DEF Returned, Under
  <2>3. Depth - 2 \in 0 .. Depth /\ Depth - 2 + 1 = Depth - 1 /\ Depth - 1 \in 1 .. Depth
    BY <1>1, <2>2
  <2>4. stack[Depth - 1].exp \in 1 .. Len(tac_list)
    BY <2>2, <2>3, Fits DEF FrameFits
  <2>5. PICK e \in Nat : e = stack[Depth - 1].exp /\ e <= Len(tac_list)
    BY <1>1, <2>4
  <2>6. PICK fr \in Frame : fr = ExpFrame(e) /\ fr.exp = e
    BY ExpFrames
  <2>7. stack' = Append(Keep(Depth - 2), fr)
    BY <2>1, <2>3, <2>5, <2>6
  <2>8. Len(stack') = Depth - 2 + 1 /\ stack'[Depth - 2 + 1] = fr
    BY <2>3, <2>6, <2>7, Pushed
  <2>9. Len(stack') = Depth - 1 /\ stack'[Depth - 1].exp <= Len(tac_list)
    BY <2>3, <2>5, <2>6, <2>8
  <2> QED
    BY <1>1, <1>7, <2>1, <2>2, <2>9
<1> QED
  BY <1>1, <1>4, <1>5, <1>6, <1>7 DEF UsesValues

(* The end of a connective uses no value. *)
LEMMA JoinNoUse ==
  ASSUME IInv, NEW k \in {"and", "or"}, Join(k), NEW n \in Arity, UsesValues(n)
  PROVE  n = 0
<1> SUFFICES ASSUME n # 0
             PROVE  FALSE
  OBVIOUS
<1>1. PICK l, r, fe, se, re : JoinDid(k, l, r, fe, se, re)
  BY JoinEffect
<1>2. Depth > 1 /\ stack' = Append(Keep(Depth - 2), Top) /\ Under.kind = k
  BY <1>1 DEF JoinDid
<1>3. /\ Depth \in Nat /\ Len(tac_list) \in Nat /\ stack \in Seq(Frame)
      /\ Depth > 0 /\ Top.kind = "exp" /\ Top \in Frame
  BY <1>2, UsesShow, TopFits DEF IInv, TypeOK, Depth
<1>4. Top.exp <= Len(tac_list)
  BY <1>3, TopFits DEF FrameFits
<1>5. Len(stack') = Depth - 1 /\ stack'[Depth - 1] = Top
  <2>1. Depth - 2 \in 0 .. Depth /\ Depth - 2 + 1 = Depth - 1
    BY <1>2, <1>3
  <2> QED
    BY <1>2, <1>3, <2>1, PushN
<1>6. ~ StmtExp /\ ~ Returned("operand")
  BY <1>2 DEF StmtExp, Returned
<1>7. n = 1
  BY <1>6, UsesShow DEF Arity
<1>8. ~ (Len(stack') = Depth)
  BY <1>3, <1>5
<1>9. Depth - 1 + 1 = Depth
  BY <1>3
<1> QED
  BY <1>6, <1>7, <1>8, <1>9, UsesShow

(* A condition is used as a value only by a call that returns an index of its own or ends. *)
LEMMA NotLosing ==
  ASSUME IInv,
         \/ ~ TopIs({"exp"})
         \/ status' # "running"
         \/ /\ Len(stack') = Depth
            /\ stack'[Depth].exp <= Len(tac_list)
         \/ /\ Depth > 1 /\ Under.kind = "while" /\ Len(stack') = Depth - 1
            /\ stack'[Depth - 1].exp <= Len(tac_list)
  PROVE  ~ Loses
<1>1. Depth \in Nat /\ Len(tac_list) \in Nat /\ stack \in Seq(Frame)
  BY DEF IInv, TypeOK, Depth
<1>2. ASSUME NEW k \in {"and", "or"}, Join(k)
      PROVE  FALSE
  <2>1. PICK l, r, fe, se, re : JoinDid(k, l, r, fe, se, re)
    BY <1>2, JoinEffect
  <2>2. /\ Depth > 1 /\ stack' = Append(Keep(Depth - 2), Top)
        /\ Top.kind = "exp" /\ Under.kind = k /\ status' = "running"
    BY <2>1 DEF JoinDid
  <2>3. Len(stack') = Depth - 1
    <3>1. Depth - 2 \in 0 .. Depth /\ Depth - 2 + 1 = Depth - 1 /\ Top \in Frame
      BY <1>1, <2>2, TopFits
    <3> QED
      BY <2>2, <3>1, Pushed
  <2>4. Len(stack') # Depth /\ Under.kind # "while" /\ TopIs({"exp"})
    BY <1>1, <2>2, <2>3 DEF TopIs
  <2> QED
    BY <2>2, <2>4
<1>3. ASSUME NEW n \in Arity, UsesValues(n), HoldsIf(n)
      PROVE  FALSE
  <2>1. n # 0
    BY <1>1, <1>3 DEF HoldsIf
  <2>2. Depth > 0 /\ Top.kind = "exp" /\ status' = "running" /\ TopIs({"exp"})
    BY <1>3, <2>1, UsesShow DEF TopIs
  <2>3. n = 1 \/ n = 2
    BY <2>1 DEF Arity
  <2>4. CASE Len(stack') = Depth /\ stack'[Depth].exp <= Len(tac_list)
    <3>1. Len(stack') # Depth - 1 /\ Len(stack') # Depth - 2 + 1
      BY <1>1, <2>4
    <3>2. Depth - 1 + 1 = Depth
      BY <1>1
    <3>3. ~ (stack'[Depth].exp <= Len(tac_list))
      BY <1>3, <2>1, <2>3, <3>1, <3>2, UsesShow
    <3> QED
      BY <2>4, <3>3
  <2>5. CASE Depth > 1 /\ Under.kind = "while" /\ Len(stack') = Depth - 1
    <3>1. ~ StmtExp /\ ~ Returned("operand")
      BY <2>5 DEF StmtExp, Returned
    <3>2. Len(stack') # Depth - 1 + 1
      BY <1>1, <2>5
    <3> QED
      BY <1>3, <2>1, <2>3, <3>1, <3>2, UsesShow
  <2> QED
    BY <2>2, <2>4, <2>5
<1> QED
  BY <1>2, <1>3 DEF Loses

(* No step uses two numbers of operands. *)
LEMMA UsesOnce ==
  ASSUME IInv, NEW n \in Arity, UsesValues(n)
  PROVE  Loses <=> HoldsIf(n)
<1>1. Depth \in Nat /\ Len(tac_list) \in Nat
  BY DEF IInv, TypeOK, Depth
<1>2. ASSUME UsesValues(0)
      PROVE  ~ TopIs({"exp"})
  <2>1. Value(0) \/ (\E a \in Atoms : Relop(a, 0)) \/ Return(0) \/ \E m \in Marks : Write(m, 0)
    BY <1>2 DEF UsesValues
  <2>2. Operands(0) \/ StmtUses(0)
    BY <2>1, Zenon DEF Value, Relop, Return, Write
  <2> QED
    BY <2>2 DEF Operands, StmtUses, AtStmt, TopIs
<1>3. ASSUME NEW m \in {1, 2}, UsesValues(m)
      PROVE  TopIs({"exp"})
  BY <1>3, UsesShow DEF Arity, TopIs
<1>4. ASSUME UsesValues(1), UsesValues(2)
      PROVE  FALSE
  <2>1. /\ Returned("operand")
        /\ Len(stack') = Depth - 2 + 1 /\ ~ (stack'[Depth - 2 + 1].exp <= Len(tac_list))
    BY <1>4, UsesShow DEF Arity
  <2>2. ~ StmtExp
    BY <2>1 DEF Returned, StmtExp
  <2>3. Depth - 2 + 1 = Depth - 1 /\ Depth - 1 + 1 # Depth - 1
    BY <1>1
  <2>4. stack'[Depth - 1].exp <= Len(tac_list)
    BY <1>4, <2>1, <2>2, <2>3, UsesShow DEF Arity
  <2> QED
    BY <2>1, <2>3, <2>4
<1>5. ASSUME NEW m \in Arity, UsesValues(m)
      PROVE  m = n
  BY <1>2, <1>3, <1>4, <1>5 DEF Arity
<1>6. ASSUME NEW k \in {"and", "or"}, Join(k)
      PROVE  FALSE
  <2>1. n = 0
    BY <1>6, JoinNoUse
  <2>2. TopIs({"exp"})
    BY <1>1, <1>6 DEF Join, Returned, TopIs
  <2> QED
    BY <1>2, <2>1, <2>2
<1> QED
  BY <1>5, <1>6 DEF Loses

(* Code that is appended. *)
LEMMA AppendsOne ==
  ASSUME IInv, NEW c \in TAC, Emit(<<c>>), c.op \notin {"IF", "GOTO"}
  PROVE  /\ Appends
         /\ Len(tac_list) \in Nat /\ Len(tac_list') = Len(tac_list) + 1
         /\ tac_list'[Len(tac_list) + 1] = c
<1>1. tac_list \in Seq(TAC) /\ Len(tac_list) \in Nat
  BY DEF IInv, TypeOK
<1>2. /\ Len(tac_list') = Len(tac_list) + 1
      /\ \A i \in 1 .. Len(tac_list) : tac_list'[i] = tac_list[i]
      /\ tac_list'[Len(tac_list) + 1] = c
  BY <1>1, Emit1
<1> QED
  BY <1>1, <1>2 DEF Appends

LEMMA AppendsLabel ==
  ASSUME IInv, Emit(<<LabelCode>>)
  PROVE  /\ Appends
         /\ Len(tac_list) \in Nat /\ Len(tac_list') = Len(tac_list) + 1
<1>1. PICK c \in TAC : c = LabelCode /\ c.op = "LABEL"
  BY Constructors DEF LabelCode
<1> QED
  BY <1>1, AppendsOne

LEMMA AppendsJump ==
  ASSUME IInv, Emit(<<GotoCode(Len(label) + 1), LabelCode>>)
  PROVE  /\ Appends
         /\ Len(tac_list) \in Nat /\ Len(tac_list') = Len(tac_list) + 2
<1>1. tac_list \in Seq(TAC) /\ Len(tac_list) \in Nat /\ Len(label) \in Nat
  BY DEF IInv, TypeOK
<1>2. PICK c \in TAC : c = GotoCode(Len(label) + 1) /\ c.label = Len(label) + 1
  BY <1>1, Constructors DEF GotoCode
<1>3. PICK d \in TAC : d = LabelCode /\ d.op = "LABEL"
  BY Constructors DEF LabelCode
<1>4. /\ Len(tac_list') = Len(tac_list) + 2
      /\ \A i \in 1 .. Len(tac_list) : tac_list'[i] = tac_list[i]
      /\ tac_list'[Len(tac_list) + 1] = c
      /\ tac_list'[Len(tac_list) + 2] = d
  <2>1. Emit(<<c, d>>)
    BY <1>2, <1>3
  <2> QED
    BY <1>1, <2>1, Emit2
<1> QED
  BY <1>1, <1>2, <1>3, <1>4 DEF Appends

LEMMA AppendsNone ==
  ASSUME IInv, UNCHANGED tac_list
  PROVE  Appends
BY DEF IInv, TypeOK, Appends

-----------------------------------------------------------------------------
(* The shape before and after a step. *)
Shapes == [open : Seq(Look), chained : BOOLEAN, valued : BOOLEAN, dropped : BOOLEAN]

LEMMA ShapeFacts ==
  ASSUME IInv, ShapeOK
  PROVE  /\ Depth \in Nat /\ Len(shape.open) = Depth
         /\ shape \in Shapes /\ shape.open \in Seq(Look)
         /\ shape.chained \in BOOLEAN /\ shape.valued \in BOOLEAN /\ shape.dropped \in BOOLEAN
         /\ \A f \in 1 .. Depth : shape.open[f] \in Look
         /\ lost \in BOOLEAN
BY DEF ShapeOK, Shapes, IInv, TypeOK, Depth

LEMMA BelowFacts ==
  ASSUME IInv, ShapeOK, NEW n \in 0 .. Depth
  PROVE  /\ Below(n) \in Seq(Look)
         /\ Len(Below(n)) = Depth - n
         /\ \A f \in 1 .. Depth - n : Below(n)[f] = shape.open[f]
<1>1. Depth \in Nat /\ Len(shape.open) = Depth /\ shape.open \in Seq(Look)
  BY ShapeFacts
<1>2. Depth - n \in 0 .. Len(shape.open)
  BY <1>1
<1> QED
  BY <1>1, <1>2, Prefix DEF Below

(* The flags of shape stay. *)
SameFlags ==
  /\ shape'.chained = shape.chained
  /\ shape'.valued = shape.valued
  /\ shape'.dropped = shape.dropped

(* One condition, or none, takes the place of the innermost n. *)
LEMMA OpenPushed ==
  ASSUME IInv, ShapeOK, NEW n \in 0 .. Depth, NEW look \in Look,
         shape' = [shape EXCEPT !.open = Append(Below(n), look)],
         Len(stack') = Depth - n + 1
  PROVE  /\ OpenStep(Depth - n) /\ shape' \in Shapes /\ SameFlags
         /\ shape'.open[Depth - n + 1] = look
<1>1. /\ Below(n) \in Seq(Look) /\ Len(Below(n)) = Depth - n
      /\ \A f \in 1 .. Depth - n : Below(n)[f] = shape.open[f]
      /\ Depth \in Nat /\ shape \in Shapes
  BY BelowFacts, ShapeFacts
<1>2. PICK s : s = Append(Below(n), look)
  OBVIOUS
<1>3. /\ s \in Seq(Look) /\ Len(s) = Depth - n + 1 /\ s[Depth - n + 1] = look
      /\ \A f \in 1 .. Depth - n : s[f] = shape.open[f]
  BY <1>1, <1>2
<1>4. shape' = [shape EXCEPT !.open = s]
  BY <1>2
<1>5. shape' \in Shapes /\ shape'.open = s /\ SameFlags
  BY <1>1, <1>3, <1>4 DEF Shapes, SameFlags
<1> QED
  BY <1>3, <1>5 DEF OpenStep

LEMMA OpenOpened ==
  ASSUME IInv, ShapeOK, NEW look \in Look, Opens(look), Len(stack') = Depth + 1
  PROVE  /\ OpenStep(Depth) /\ shape' \in Shapes /\ SameFlags
         /\ shape'.open[Depth + 1] = look
<1>1. PICK s : s = Append(shape.open, look)
  OBVIOUS
<1>2. /\ Depth \in Nat /\ shape \in Shapes /\ Len(shape.open) = Depth
      /\ shape.open \in Seq(Look)
  BY ShapeFacts
<1>3. /\ s \in Seq(Look) /\ Len(s) = Depth + 1 /\ s[Depth + 1] = look
      /\ \A f \in 1 .. Depth : s[f] = shape.open[f]
  BY <1>1, <1>2
<1>4. shape' = [shape EXCEPT !.open = s]
  BY <1>1 DEF Opens
<1>5. shape' \in Shapes /\ shape'.open = s /\ SameFlags
  BY <1>2, <1>3, <1>4 DEF Shapes, SameFlags
<1> QED
  BY <1>3, <1>5 DEF OpenStep

(* The flags of shape after n operands were used as values. *)
DropFlags(n) ==
  /\ shape'.chained = shape.chained
  /\ shape'.valued = shape.valued
  /\ shape'.dropped = (shape.dropped \/ NotValues(n))

LEMMA OpenDropped ==
  ASSUME IInv, ShapeOK, NEW n \in 0 .. Depth, Drops(n), Len(stack') = Depth - n
  PROVE  OpenStep(Depth - n) /\ shape' \in Shapes /\ DropFlags(n)
<1>0. PICK open : open = Below(n)
  OBVIOUS
<1>1. PICK d \in BOOLEAN : d = (shape.dropped \/ NotValues(n))
  OBVIOUS
<1>2. /\ open \in Seq(Look) /\ Len(open) = Depth - n
      /\ \A f \in 1 .. Depth - n : open[f] = shape.open[f]
      /\ shape \in Shapes
  BY <1>0, BelowFacts, ShapeFacts
<1>3. shape' = [shape EXCEPT !.open = open, !.dropped = d]
  BY <1>0, <1>1, <1>2 DEF Drops, Shapes
<1>4. shape' \in Shapes /\ shape'.open = open /\ DropFlags(n)
  BY <1>1, <1>2, <1>3 DEF Shapes, DropFlags
<1> QED
  BY <1>2, <1>4 DEF OpenStep

LEMMA OpenComputed ==
  ASSUME IInv, ShapeOK, NEW n \in 0 .. Depth, NEW look \in Look, ComputesFrom(n, look),
         Len(stack') = Depth - n + 1
  PROVE  /\ OpenStep(Depth - n) /\ shape' \in Shapes /\ DropFlags(n)
         /\ shape'.open[Depth - n + 1] = look
<1>0. PICK below : below = Below(n)
  OBVIOUS
<1>1. PICK d \in BOOLEAN : d = (shape.dropped \/ NotValues(n))
  OBVIOUS
<1>2. /\ below \in Seq(Look) /\ Len(below) = Depth - n
      /\ \A f \in 1 .. Depth - n : below[f] = shape.open[f]
      /\ shape \in Shapes /\ Depth \in Nat
  BY <1>0, BelowFacts, ShapeFacts
<1>3. PICK open : open = Append(below, look)
  OBVIOUS
<1>4. /\ open \in Seq(Look) /\ Len(open) = Depth - n + 1 /\ open[Depth - n + 1] = look
      /\ \A f \in 1 .. Depth - n : open[f] = shape.open[f]
  BY <1>2, <1>3
<1>5. shape' = [shape EXCEPT !.open = open, !.dropped = d]
  BY <1>0, <1>1, <1>2, <1>3 DEF ComputesFrom, Shapes
<1>6. shape' \in Shapes /\ shape'.open = open /\ DropFlags(n)
  BY <1>1, <1>2, <1>4, <1>5 DEF Shapes, DropFlags
<1> QED
  BY <1>4, <1>6 DEF OpenStep

(* What is used as a value, and is none, is a condition. *)
LEMMA NotValuesAreIfs ==
  ASSUME IInv, SourceInv, NEW n \in Arity, Spends(n)
  PROVE  /\ NotValues(n) <=> HoldsIf(n)
         /\ (\E f \in Depth - n + 1 .. Depth : shape.open[f].chained) => NotValues(n)
<1>1. /\ Depth \in Nat /\ Len(shape.open) = Depth /\ Depth - n \in 0 .. Depth
      /\ \A f \in 1 .. Depth : shape.open[f] \in Look
  BY ShapeFacts DEF SourceInv, Spends
<1>2. ASSUME NEW f \in Depth - n + 1 .. Depth
      PROVE  /\ shape.open[f].value <=> ~ IsIf(tac_list, stack[f].exp)
             /\ shape.open[f].chained => ~ shape.open[f].value
  <2>1. f \in 1 .. Depth /\ stack[f].kind \notin {"else", "while"}
    BY <1>1 DEF Spends
  <2>2. LookFits(tac_list, stack[f], shape.open[f])
    BY <2>1 DEF SourceInv, LooksFit
  <2>3. shape.open[f].value \in BOOLEAN /\ shape.open[f].literal \in BOOLEAN
    BY <1>1, <2>1 DEF Look
  <2> QED
    BY <2>1, <2>2, <2>3 DEF LookFits
<1> QED
  BY <1>1, <1>2 DEF NotValues, HoldsIf

(* A statement uses the innermost condition. *)
LEMMA OpenConsumed ==
  ASSUME IInv, ShapeOK, Depth > 0, NEW open \in Seq(Look), Consumes(open),
         Len(open) = Len(stack'),
         \A f \in 1 .. Depth - 1 : open[f] = shape.open[f]
  PROVE  /\ OpenStep(Depth - 1) /\ shape' \in Shapes /\ shape'.open = open
         /\ shape'.chained = (shape.chained \/ shape.open[Depth].chained)
         /\ shape'.valued = (shape.valued \/ shape.open[Depth].literal)
         /\ shape'.dropped = shape.dropped
<1>1. /\ Depth \in Nat /\ shape \in Shapes /\ Len(shape.open) = Depth
      /\ LastLook = shape.open[Depth]
  BY ShapeFacts DEF LastLook
<1>2. PICK c \in BOOLEAN, v \in BOOLEAN :
        /\ c = (shape.chained \/ shape.open[Depth].chained)
        /\ v = (shape.valued \/ shape.open[Depth].literal)
  OBVIOUS
<1>3. shape' = [shape EXCEPT !.open = open, !.chained = c, !.valued = v]
  BY <1>1, <1>2 DEF Consumes
<1>4. /\ shape' \in Shapes /\ shape'.open = open /\ shape'.chained = c
      /\ shape'.valued = v /\ shape'.dropped = shape.dropped
  BY <1>1, <1>3 DEF Shapes
<1> QED
  BY <1>2, <1>4 DEF OpenStep

(* What was lost still shows when what the returning calls show stays. *)
LEMMA ShowsStep ==
  ASSUME IInv, ShapeOK, LostShows, lost' = (lost \/ Loses),
         NEW m \in 0 .. Depth, OpenStep(m), Len(stack') = m \/ Len(stack') = m + 1,
         \/ shape'.chained \/ shape'.dropped
         \/ Len(stack') = m + 1 /\ shape'.open[m + 1].chained
         <=>
         shape.chained \/ shape.dropped \/ Loses
         \/ \E f \in m + 1 .. Depth : shape.open[f].chained
  PROVE  LostShows'
<1>1. Depth \in Nat /\ lost \in BOOLEAN /\ Depth' = Len(stack')
  BY ShapeFacts DEF Depth
<1>2. (\E f \in 1 .. Depth : shape.open[f].chained) <=>
        \/ \E f \in 1 .. m : shape.open[f].chained
        \/ \E f \in m + 1 .. Depth : shape.open[f].chained
  BY <1>1
<1>3. (\E f \in 1 .. Len(stack') : shape'.open[f].chained) <=>
        \/ \E f \in 1 .. m : shape'.open[f].chained
        \/ Len(stack') = m + 1 /\ shape'.open[m + 1].chained
  BY <1>1
<1>4. (\E f \in 1 .. m : shape'.open[f].chained) <=> \E f \in 1 .. m : shape.open[f].chained
  BY DEF OpenStep
<1> QED
  BY <1>1, <1>2, <1>3, <1>4 DEF LostShows

(* A step of the translator that only adds to the code, put together. *)
LEMMA SourceStep ==
  ASSUME IInv, SourceInv, Appends, NEW m \in 0 .. Depth, StackStep(m), OpenStep(m),
         NewHead(m), shape' \in Shapes,
         Len(stack') = m + 1 => LookFits(tac_list', stack'[m + 1], shape'.open[m + 1]),
         ~ shape'.valued, status' # "crashed",
         lost' = (lost \/ Loses),
         \/ shape'.chained \/ shape'.dropped
         \/ Len(stack') = m + 1 /\ shape'.open[m + 1].chained
         <=>
         shape.chained \/ shape.dropped \/ Loses
         \/ \E f \in m + 1 .. Depth : shape.open[f].chained
  PROVE  SourceInv'
<1>1. LooksFit'
  BY LinedUp DEF SourceInv
<1>2. CellsApart'
  BY StillApart DEF SourceInv
<1>3. LostShows'
  BY ShowsStep DEF SourceInv, StackStep
<1>4. ShapeOK'
  BY DEF ShapeOK, Shapes, OpenStep, Depth
<1>5. ValuesStop'
  BY DEF ValuesStop
<1> QED
  BY <1>1, <1>2, <1>3, <1>4, <1>5 DEF SourceInv

(* The shape a step leaves alone. *)
LEMMA OpenSame ==
  ASSUME IInv, ShapeOK, UNCHANGED shape, Len(stack') = Depth
  PROVE  /\ shape' \in Shapes /\ SameFlags
         /\ \A m \in 0 .. Depth : OpenStep(m)
<1>1. Depth \in Nat /\ Len(shape.open) = Depth /\ shape \in Shapes /\ shape.open \in Seq(Look)
  BY ShapeFacts
<1> QED
  BY <1>1 DEF SameFlags, OpenStep

(* n results are used as values, by a statement. *)
LEMMA UseSource ==
  ASSUME IInv, SourceInv, Appends, NEW n \in Arity, Spends(n), UsesValues(n),
         stack' = Keep(Depth - n), Drops(n), status' = "running", lost' = (lost \/ Loses)
  PROVE  SourceInv'
<1>1. Depth \in Nat /\ Depth - n \in 0 .. Depth /\ n \in 0 .. Depth
  BY DEF Spends, Arity
<1>2. StackStep(Depth - n) /\ Len(stack') = Depth - n
  BY <1>1, Popped
<1>3. shape' \in Shapes /\ DropFlags(n) /\ OpenStep(Depth - n)
  BY <1>1, <1>2, OpenDropped DEF SourceInv
<1>4. /\ Loses <=> NotValues(n)
      /\ (\E f \in Depth - n + 1 .. Depth : shape.open[f].chained) => NotValues(n)
  BY NotValuesAreIfs, UsesOnce
<1>5. NewHead(Depth - n) /\ Len(stack') # Depth - n + 1
  BY <1>1, <1>2 DEF NewHead
<1>6. ~ shape'.valued
  BY <1>3 DEF SourceInv, ValuesStop, DropFlags
<1>7. \/ shape'.chained \/ shape'.dropped
      \/ Len(stack') = Depth - n + 1 /\ shape'.open[Depth - n + 1].chained
      <=>
      shape.chained \/ shape.dropped \/ Loses
      \/ \E f \in Depth - n + 1 .. Depth : shape.open[f].chained
  BY <1>3, <1>4, <1>5 DEF DropFlags
<1> QED
  BY <1>1, <1>2, <1>3, <1>5, <1>6, <1>7, SourceStep

(* n results are used as values, by an expression that is not chained. *)
LEMMA ComputeSource ==
  ASSUME IInv, SourceInv, Appends, NEW n \in Arity, Spends(n), UsesValues(n),
         NEW fr \in Frame, stack' = Append(Keep(Depth - n), fr),
         NEW look \in Look, ComputesFrom(n, look), ~ look.chained,
         LookFits(tac_list', fr, look),
         fr.kind \notin {"else", "while"} /\ IsIf(tac_list', fr.exp) =>
           /\ fr.exp \in Len(tac_list) + 1 .. Len(tac_list')
           /\ fr.exp + 1 \in Len(tac_list) + 1 .. Len(tac_list')
           /\ tac_list'[fr.exp + 1].op = "GOTO",
         status' = "running", lost' = (lost \/ Loses)
  PROVE  SourceInv'
<1>1. Depth \in Nat /\ Depth - n \in 0 .. Depth /\ n \in 0 .. Depth
  BY DEF Spends, Arity
<1>2. StackStep(Depth - n) /\ Len(stack') = Depth - n + 1 /\ stack'[Depth - n + 1] = fr
  BY <1>1, Pushed
<1>3. /\ shape' \in Shapes /\ DropFlags(n) /\ OpenStep(Depth - n)
      /\ shape'.open[Depth - n + 1] = look
  BY <1>1, <1>2, OpenComputed DEF SourceInv
<1>4. /\ Loses <=> NotValues(n)
      /\ (\E f \in Depth - n + 1 .. Depth : shape.open[f].chained) => NotValues(n)
  BY NotValuesAreIfs, UsesOnce
<1>5. NewHead(Depth - n)
  BY <1>2 DEF NewHead, IsIf
<1>6. ~ shape'.valued
  BY <1>3 DEF SourceInv, ValuesStop, DropFlags
<1>7. \/ shape'.chained \/ shape'.dropped
      \/ Len(stack') = Depth - n + 1 /\ shape'.open[Depth - n + 1].chained
      <=>
      shape.chained \/ shape.dropped \/ Loses
      \/ \E f \in Depth - n + 1 .. Depth : shape.open[f].chained
  BY <1>3, <1>4 DEF DropFlags
<1>8. LookFits(tac_list', stack'[Depth - n + 1], shape'.open[Depth - n + 1])
  BY <1>2, <1>3
<1> QED
  BY <1>1, <1>2, <1>3, <1>5, <1>6, <1>7, <1>8, SourceStep

(* WRITE and RETURN. *)
LEMMA StatementSource ==
  ASSUME IInv, SourceInv, NEW n \in {0, 1},
         NEW c \in TAC, Emit(<<c>>), c.op \notin {"IF", "GOTO"},
         StmtUses(n), UsesValues(n), stack' = Keep(Depth - n), Drops(n),
         status' = "running", lost' = (lost \/ Loses)
  PROVE  SourceInv'
<1>1. Appends
  BY AppendsOne
<1>2. n \in Arity /\ Spends(n)
  BY StatementSpends DEF Arity
<1> QED
  BY <1>1, <1>2, UseSource

(* A condition that is not chained begins, with its code behind the old one. *)
LEMMA BeginSource ==
  ASSUME IInv, SourceInv, Appends, NEW fr \in Frame, stack' = Append(stack, fr),
         NEW look \in Look, Opens(look), ~ look.chained, LookFits(tac_list', fr, look),
         fr.kind \notin {"else", "while"} /\ IsIf(tac_list', fr.exp) =>
           /\ fr.exp \in Len(tac_list) + 1 .. Len(tac_list')
           /\ fr.exp + 1 \in Len(tac_list) + 1 .. Len(tac_list')
           /\ tac_list'[fr.exp + 1].op = "GOTO",
         ~ TopIs({"exp"}), status' = "running", lost' = (lost \/ Loses)
  PROVE  SourceInv'
<1>1. /\ Depth \in Nat /\ Len(stack') = Depth + 1 /\ stack'[Depth + 1] = fr
      /\ StackStep(Depth) /\ Depth \in 0 .. Depth
  BY Push DEF IInv, TypeOK, Depth, StackStep
<1>2. /\ shape' \in Shapes /\ SameFlags /\ OpenStep(Depth)
      /\ shape'.open[Depth + 1] = look
  BY <1>1, OpenOpened DEF SourceInv
<1>3. ~ Loses
  BY NotLosing
<1>4. NewHead(Depth)
  BY <1>1 DEF NewHead, IsIf
<1>5. ~ shape'.valued /\ ~ (\E f \in Depth + 1 .. Depth : shape.open[f].chained)
  BY <1>1, <1>2 DEF SourceInv, ValuesStop, SameFlags
<1>6. LookFits(tac_list', stack'[Depth + 1], shape'.open[Depth + 1])
  BY <1>1, <1>2
<1>7. \/ shape'.chained \/ shape'.dropped
      \/ Len(stack') = Depth + 1 /\ shape'.open[Depth + 1].chained
      <=>
      shape.chained \/ shape.dropped \/ Loses
      \/ \E f \in Depth + 1 .. Depth : shape.open[f].chained
  BY <1>2, <1>3, <1>5 DEF SameFlags
<1> QED
  BY <1>1, <1>2, <1>4, <1>5, <1>6, <1>7, SourceStep

LEMMA ValueSource ==
  ASSUME IInv, SourceInv, NEW n \in Arity, Value(n), ComputesFrom(n, LiteralLook),
         lost' = (lost \/ Loses)
  PROVE  SourceInv'
<1>1. PICK s \in FreshSwap : Emit(<<AssignCode(s)>>)
  BY DEF Value
<1>2. PICK c \in TAC : c = AssignCode(s) /\ c.op = "ASSIGN"
  BY FreshSwapAssumption, Constructors DEF AssignCode
<1>3. /\ Appends /\ Len(tac_list) \in Nat /\ Len(tac_list') = Len(tac_list) + 1
      /\ tac_list'[Len(tac_list) + 1] = c
  BY <1>1, <1>2, AppendsOne
<1>4. PICK fr \in Frame : /\ fr = ExpFrame(Len(tac_list) + 1)
                          /\ fr.kind = "exp" /\ fr.exp = Len(tac_list) + 1
  BY <1>3, ExpFrames
<1>5. stack' = Append(Keep(Depth - n), fr) /\ status' = "running"
  BY <1>4 DEF Value, Next_addr, Uses
<1>6. ~ IsIf(tac_list', fr.exp)
  BY <1>2, <1>3, <1>4 DEF IsIf
<1>7. LookFits(tac_list', fr, LiteralLook) /\ ~ LiteralLook.chained
  BY <1>4, <1>6 DEF LookFits, LiteralLook, RelopLook
<1>8. Spends(n) /\ UsesValues(n)
  BY OperandsSpent DEF Value, UsesValues
<1> QED
  BY <1>3, <1>5, <1>6, <1>7, <1>8, Looks, ComputeSource

LEMMA RelopSource ==
  ASSUME IInv, SourceInv, NEW a \in Atoms, NEW q \in Arity, Relop(a, q),
         ComputesFrom(q, RelopLook), lost' = (lost \/ Loses)
  PROVE  SourceInv'
<1>1. PICK n, d, c : n = Len(tac_list) /\ d = (IF q = 0 THEN Literals[a] ELSE 0) /\ c = Len(label)
  OBVIOUS
<1>2. RelopDid(n, d, c, q)
  BY <1>1, RelopEffect DEF IInv
<1>3. /\ n \in Nat /\ d \in Nat /\ c \in Nat
      /\ Len(tac_list') = n + d + 2
      /\ \A i \in 1 .. n : tac_list'[i] = tac_list[i]
      /\ \A i \in n + 1 .. n + d : tac_list'[i].op = "ASSIGN"
      /\ tac_list'[n + d + 1].op = "IF" /\ tac_list'[n + d + 1].label = c + 1
      /\ tac_list'[n + d + 2].op = "GOTO" /\ tac_list'[n + d + 2].label = c + 2
      /\ stack' = Append(Keep(Depth - q), ExpFrame(n + d + 1)) /\ Operands(q)
  BY <1>2 DEF RelopDid
<1>4. \A i \in n + 1 .. n + d + 2 :
        i \in n + 1 .. n + d \/ i = n + d + 1 \/ i = n + d + 2
  BY <1>3
<1>5. Appends
  <2>1. ASSUME NEW i \in n + 1 .. n + d + 2, tac_list'[i].op \in {"IF", "GOTO"}
        PROVE  \/ i = n + d + 1 /\ tac_list'[i].label = c + 1
               \/ i = n + d + 2 /\ tac_list'[i].label = c + 2
    <3>1. i \notin n + 1 .. n + d
      BY <1>3, <2>1
    <3>2. i = n + d + 1 \/ i = n + d + 2
      BY <1>4, <3>1
    <3> QED
      BY <1>3, <3>2
  <2>2. ASSUME NEW i \in n + 1 .. n + d + 2, NEW j \in n + 1 .. n + d + 2,
               tac_list'[i].op \in {"IF", "GOTO"}, tac_list'[j].op \in {"IF", "GOTO"},
               tac_list'[j].label = tac_list'[i].label
        PROVE  i = j
    BY <1>3, <2>1, <2>2
  <2>3. ASSUME NEW i \in n + 1 .. n + d + 2, tac_list'[i].op \in {"IF", "GOTO"}
        PROVE  tac_list'[i].label > c
    BY <1>3, <2>1, <2>3
  <2>4. n + d + 2 \in Nat /\ n <= n + d + 2
    BY <1>3
  <2>5. Len(tac_list) = n /\ Len(tac_list') = n + d + 2 /\ Len(label) = c
    BY <1>1, <1>3
  <2> QED
    BY <1>3, <2>2, <2>3, <2>4, <2>5 DEF Appends
<1>6. PICK fr \in Frame : fr = ExpFrame(n + d + 1) /\ fr.kind = "exp" /\ fr.exp = n + d + 1
  <2>1. n + d + 1 \in Nat
    BY <1>3
  <2> QED
    BY <2>1, ExpFrames
<1>7. /\ fr.exp \in Len(tac_list) + 1 .. Len(tac_list')
      /\ fr.exp + 1 \in Len(tac_list) + 1 .. Len(tac_list')
      /\ fr.exp + 1 = n + d + 2
      /\ tac_list'[fr.exp + 1].op = "GOTO"
  <2>1. fr.exp + 1 = n + d + 2
    BY <1>3, <1>6
  <2>2. /\ n + d + 1 \in n + 1 .. n + d + 2
        /\ n + d + 2 \in n + 1 .. n + d + 2
    BY <1>3
  <2> QED
    BY <1>1, <1>3, <1>6, <2>1, <2>2
<1>8. IsIf(tac_list', fr.exp)
  <2>1. tac_list' \in Seq(TAC)
    BY <1>2 DEF RelopDid
  <2>2. n + d + 1 \in 1 .. n + d + 2
    BY <1>3
  <2>3. n + d + 1 \in DOMAIN tac_list'
    BY <1>3, <2>1, <2>2
  <2> QED
    BY <1>3, <1>6, <2>3 DEF IsIf
<1>9. ASSUME NEW x \in {n + d + 1, n + d + 2}
      PROVE  ~ Joined(tac_list', x)
  <2> SUFFICES ASSUME NEW j \in 1 .. Len(tac_list'), j # x,
                      tac_list'[j].op \in {"IF", "GOTO"},
                      tac_list'[j].label = tac_list'[x].label
               PROVE  FALSE
    BY DEF Joined
  <2>1. tac_list'[x].label \in {c + 1, c + 2}
    BY <1>3, <1>9
  <2>2. CASE j \in 1 .. n
    <3>1. j \in Jumps /\ tac_list'[j] = tac_list[j]
      BY <1>1, <1>3, <2>2 DEF Jumps
    <3>2. tac_list[j].label \in 1 .. c
      BY <1>1, <3>1 DEF IInv, TypeOK
    <3> QED
      BY <1>3, <2>1, <3>1, <3>2
  <2>3. CASE j \in n + 1 .. n + d + 2
    BY <1>3, <1>4, <1>9, <2>3
  <2> QED
    BY <1>3, <2>2, <2>3
<1>10. \A b \in BOOLEAN : ~ Joined(tac_list', Exit(tac_list', fr.exp, b))
  BY <1>3, <1>6, <1>7, <1>9 DEF Exit
<1>11. LookFits(tac_list', fr, RelopLook) /\ ~ RelopLook.chained
  BY <1>6, <1>8, <1>10 DEF LookFits, RelopLook
<1>12. status' = "running"
  BY DEF Relop, Uses
<1>13. stack' = Append(Keep(Depth - q), fr)
  BY <1>3, <1>6
<1>14. Spends(q) /\ UsesValues(q)
  BY <1>3, OperandsSpent DEF UsesValues
<1> QED
  BY <1>5, <1>7, <1>11, <1>12, <1>13, <1>14, Looks, ComputeSource

LEMMA WhileStartSource ==
  ASSUME IInv, SourceInv, WhileStart, Opens(NoLook), lost' = (lost \/ Loses)
  PROVE  SourceInv'
<1>1. Appends /\ Len(tac_list) \in Nat
  BY AppendsLabel DEF WhileStart
<1>2a. PICK fr : fr = MkFrame("while", 0, 0, Next_addr, FALSE)
  OBVIOUS
<1>2. fr \in Frame /\ fr.kind = "while"
  BY <1>1, <1>2a DEF MkFrame, Frame, Kinds, Next_addr
<1>3. stack' = Append(stack, fr) /\ status' = "running"
  BY <1>2a DEF WhileStart, Uses
<1>4. LookFits(tac_list', fr, NoLook) /\ ~ NoLook.chained
  BY <1>2 DEF LookFits, NoLook, RelopLook
<1>5. ~ TopIs({"exp"})
  BY DEF WhileStart, AtStmt, TopIs
<1> QED
  BY <1>1, <1>2, <1>3, <1>4, <1>5, Looks, BeginSource

-----------------------------------------------------------------------------
(* A call takes over the innermost condition, behind more code. *)
LEMMA TakesOver ==
  ASSUME IInv, SourceInv, Appends, Depth > 0, Top.kind = "exp",
         NEW fr \in Frame, fr.kind \notin {"else", "while"}, fr.exp = Top.exp,
         fr.kind \in {"and", "or"} => fr.swap = tac_list[Top.exp].swap
  PROVE  /\ LookFits(tac_list', fr, shape.open[Depth])
         /\ IsIf(tac_list', fr.exp) => fr.exp \in Heads
<1>1. /\ Depth \in Nat /\ Depth \in 1 .. Depth /\ FrameFits(tac_list, Top) /\ Top \in Frame
      /\ stack[Depth] = Top
  BY TopFits DEF Top
<1>2. Top.exp \in 1 .. Len(tac_list) /\ tac_list'[Top.exp] = tac_list[Top.exp]
  BY <1>1 DEF FrameFits, Appends
<1>3. LookFits(tac_list, Top, shape.open[Depth])
  BY <1>1 DEF SourceInv, LooksFit
<1>4. LookFits(tac_list', Top, shape.open[Depth])
  BY <1>1, <1>2, <1>3, LookKept
<1>5. LookFits(tac_list', fr, shape.open[Depth])
  BY <1>2, <1>4 DEF LookFits
<1>6. ASSUME IsIf(tac_list', fr.exp)
      PROVE  fr.exp \in Heads
  <2>1. IsIf(tac_list, Top.exp)
    BY <1>2, <1>6 DEF IsIf, IInv, TypeOK
  <2> QED
    BY <1>1, <2>1 DEF Heads, Conds
<1> QED
  BY <1>5, <1>6

LEMMA HandOverSource ==
  ASSUME IInv, SourceInv, Appends, UNCHANGED shape, status' = "running",
         Depth > 0, Top.kind = "exp",
         NEW fr \in Frame, stack' = Append(Keep(Depth - 1), fr),
         fr.kind \in {"and", "or", "if", "exp", "operand"}, fr.exp = Top.exp,
         fr.kind \in {"and", "or"} => fr.swap = tac_list[Top.exp].swap,
         lost' = (lost \/ Loses)
  PROVE  SourceInv'
<1>2. Depth \in Nat /\ Depth - 1 \in 0 .. Depth /\ Depth - 1 + 1 = Depth
  BY TopFits
<1>3. StackStep(Depth - 1) /\ stack'[Depth] = fr /\ Len(stack') = Depth
  BY <1>2, Pushed
<1>4. LookFits(tac_list', fr, shape.open[Depth]) /\ (IsIf(tac_list', fr.exp) => fr.exp \in Heads)
  BY TakesOver
<1>5. shape' \in Shapes /\ SameFlags /\ OpenStep(Depth - 1)
  BY <1>2, <1>3, OpenSame DEF SourceInv
<1>6. ~ Loses
  <2>1. Top.exp <= Len(tac_list)
    BY <1>2, TopFits DEF FrameFits, IInv, TypeOK
  <2> QED
    BY <1>3, <2>1, NotLosing
<1>7. NewHead(Depth - 1)
  BY <1>2, <1>3, <1>4 DEF NewHead
<1>8. ~ shape'.valued
  BY <1>5 DEF SourceInv, ValuesStop, SameFlags
<1>9. (\E f \in Depth - 1 + 1 .. Depth : shape.open[f].chained) <=> shape.open[Depth].chained
  BY <1>2
<1> QED
  BY <1>2, <1>3, <1>4, <1>5, <1>6, <1>7, <1>8, <1>9, SourceStep DEF SameFlags

LEMMA OperandSource ==
  ASSUME IInv, SourceInv, Operand, UNCHANGED shape, lost' = (lost \/ Loses)
  PROVE  SourceInv'
<1>1. /\ Depth > 0 /\ Top.kind = "exp" /\ status' = "running"
      /\ Appends
  BY AppendsNone DEF Operand, TopIs, Uses
<1>2. Top.exp \in Nat
  BY <1>1, TopFits
<1>3a. PICK fr : fr = MkFrame("operand", Top.exp, 0, 0, FALSE)
  OBVIOUS
<1>3. fr \in Frame /\ fr.kind = "operand" /\ fr.exp = Top.exp
  BY <1>2, <1>3a DEF MkFrame, Frame, Kinds
<1>4. stack' = Append(Keep(Depth - 1), fr)
  BY <1>3a DEF Operand
<1> QED
  BY <1>1, <1>3, <1>4, HandOverSource

(* The right side of an assignment to a variable or a member is handed on. *)
LEMMA AssignSource ==
  ASSUME IInv, SourceInv, Assign(1), UNCHANGED shape, lost' = (lost \/ Loses)
  PROVE  SourceInv'
<1>1. Depth > 0 /\ Top.kind = "exp" /\ status' = "running"
  BY DEF Assign, Operands, TopIs, Uses
<1>2. Appends
  <2>1. PICK c \in TAC : c = AssignCode(FALSE) /\ c.op = "ASSIGN"
    BY Constructors DEF AssignCode
  <2> QED
    BY <2>1, AppendsOne DEF Assign
<1>3. Depth \in Nat /\ Depth - 1 + 1 = Depth
  BY <1>1, TopFits
<1>4. PICK fr \in Frame : fr = ExpFrame(Top.exp) /\ fr.kind = "exp" /\ fr.exp = Top.exp
  <2>1. Top.exp \in Nat
    BY <1>1, TopFits
  <2> QED
    BY <2>1, ExpFrames
<1>5. stack' = Append(Keep(Depth - 1), fr)
  BY <1>3, <1>4 DEF Assign, Top
<1> QED
  BY <1>1, <1>2, <1>4, <1>5, HandOverSource

(* An assignment to an array element drops the index, the right side stays. *)
LEMMA AssignElementSource ==
  ASSUME IInv, SourceInv, Assign(2), Drops(1), lost' = (lost \/ Loses)
  PROVE  SourceInv'
<1>1. /\ Returned("operand") /\ Depth > 1 /\ Top.kind = "exp" /\ status' = "running"
      /\ stack[Depth].kind = "exp" /\ stack[Depth - 1].kind = "operand"
  BY DEF Assign, Operands, Returned, Uses, Top, Under
<1>2. Appends
  <2>1. PICK c \in TAC : c = AssignCode(FALSE) /\ c.op = "ASSIGN"
    BY Constructors DEF AssignCode
  <2> QED
    BY <2>1, AppendsOne DEF Assign
<1>3. /\ Depth \in Nat /\ Depth - 2 \in 0 .. Depth /\ Depth - 2 + 1 = Depth - 1
      /\ Depth - 1 \in 1 .. Depth /\ Depth \in 1 .. Depth /\ 1 \in 0 .. Depth
      /\ Depth - 1 \in 1 .. Depth - 1
  BY <1>1 DEF IInv, TypeOK, Depth
<1>4. /\ stack[Depth - 1] \in Frame /\ stack[Depth - 1].exp \in 1 .. Len(tac_list)
      /\ stack[Depth - 1].exp \in Nat
  BY <1>1, <1>3, Fits DEF FrameFits, Frame
<1>5. PICK fr \in Frame : /\ fr = ExpFrame(stack[Depth - 1].exp)
                          /\ fr.kind = "exp" /\ fr.exp = stack[Depth - 1].exp
  BY <1>4, ExpFrames
<1>6. StackStep(Depth - 2) /\ stack'[Depth - 1] = fr /\ Len(stack') = Depth - 1
  <2>1. stack' = Append(Keep(Depth - 2), fr)
    BY <1>3, <1>5 DEF Assign
  <2> QED
    BY <1>3, <2>1, Pushed
<1>7. PICK look \in Look : look = shape.open[Depth - 1]
  BY <1>3, ShapeFacts DEF SourceInv
<1>8. /\ OpenStep(Depth - 2) /\ shape' \in Shapes /\ DropFlags(1)
      /\ shape'.open[Depth - 1] = look
  <2>1. OpenStep(Depth - 1) /\ shape' \in Shapes /\ DropFlags(1)
    BY <1>3, <1>6, OpenDropped DEF SourceInv
  <2>2. \A f \in 1 .. Depth - 2 : f \in 1 .. Depth - 1
    BY <1>3
  <2> QED
    BY <1>3, <1>7, <2>1, <2>2 DEF OpenStep
<1>9. LookFits(tac_list', fr, look)
  <2>1. LookFits(tac_list, stack[Depth - 1], look)
    BY <1>3, <1>7 DEF SourceInv, LooksFit
  <2>2. LookFits(tac_list', stack[Depth - 1], look)
    BY <1>2, <1>4, <2>1, LookKept
  <2> QED
    BY <1>1, <1>5, <2>2 DEF LookFits
<1>10. NewHead(Depth - 2)
  <2>1. ASSUME IsIf(tac_list', fr.exp)
        PROVE  fr.exp \in Heads
    <3>1. tac_list'[fr.exp] = tac_list[fr.exp]
      BY <1>2, <1>4, <1>5 DEF Appends
    <3>2. IsIf(tac_list, stack[Depth - 1].exp)
      BY <1>4, <1>5, <2>1, <3>1 DEF IsIf, IInv, TypeOK
    <3> QED
      BY <1>1, <1>3, <1>5, <3>2 DEF Heads, Conds
  <2> QED
    BY <1>3, <1>6, <2>1 DEF NewHead
<1>11. /\ Loses <=> NotValues(1)
       /\ shape.open[Depth].chained => NotValues(1)
  <2>1. Spends(1)
    <3>1. \A f \in 1 .. Depth : stack[f].kind = "exp" => f = Depth
      BY DEF IInv, ResultOK
    <3> QED
      BY <1>1, <1>3, <3>1 DEF Spends
  <2>2. UsesValues(1) /\ 1 \in Arity
    BY DEF UsesValues, Arity
  <2>3. Depth \in Depth - 1 + 1 .. Depth
    BY <1>3
  <2> QED
    BY <2>1, <2>2, <2>3, NotValuesAreIfs, UsesOnce
<1>12. (\E f \in Depth - 2 + 1 .. Depth : shape.open[f].chained) <=>
         look.chained \/ shape.open[Depth].chained
  <2>1. Depth - 2 + 1 .. Depth = {Depth - 1, Depth}
    BY <1>3
  <2> QED
    BY <1>7, <2>1
<1>13. ~ shape'.valued
  BY <1>8 DEF SourceInv, ValuesStop, DropFlags
<1>14. \/ shape'.chained \/ shape'.dropped
       \/ Len(stack') = Depth - 2 + 1 /\ shape'.open[Depth - 2 + 1].chained
       <=>
       shape.chained \/ shape.dropped \/ Loses
       \/ \E f \in Depth - 2 + 1 .. Depth : shape.open[f].chained
  BY <1>3, <1>6, <1>8, <1>11, <1>12 DEF DropFlags
<1>15. Len(stack') = Depth - 2 + 1 =>
         LookFits(tac_list', stack'[Depth - 2 + 1], shape'.open[Depth - 2 + 1])
  BY <1>3, <1>6, <1>8, <1>9
<1> QED
  BY <1>1, <1>2, <1>3, <1>6, <1>8, <1>10, <1>13, <1>14, <1>15, SourceStep

LEMMA ConnectiveSource ==
  ASSUME IInv, SourceInv, NEW k \in {"and", "or"}, Connective(k), UNCHANGED shape,
         lost' = (lost \/ Loses)
  PROVE  SourceInv'
<1>1. /\ Depth > 0 /\ Top.kind = "exp" /\ status' = "running"
      /\ Appends
  BY AppendsLabel DEF Connective, TopIs, Uses
<1>2. /\ Top.exp \in Nat /\ Next_addr \in Nat
      /\ tac_list[Top.exp].swap \in BOOLEAN
  <2>1. Depth \in Nat /\ Top.exp \in 1 .. Len(tac_list)
    BY <1>1, TopFits DEF FrameFits
  <2>2. tac_list[Top.exp] \in TAC /\ Len(tac_list) \in Nat
    BY <2>1 DEF IInv, TypeOK
  <2> QED
    BY <2>1, <2>2 DEF TAC, Next_addr
<1>3a. PICK w \in BOOLEAN : w = tac_list[Top.exp].swap
  BY <1>2
<1>3. PICK fr \in Frame :
        /\ fr = MkFrame(k, Top.exp, Next_addr, 0, w)
        /\ fr.kind = k /\ fr.exp = Top.exp /\ fr.swap = w
  <2>1. k \in Kinds /\ 0 \in Nat
    BY DEF Kinds
  <2> QED
    BY <1>2, <1>3a, <2>1, Frames
<1>4. stack' = Append(Keep(Depth - 1), fr)
  BY <1>3a, <1>3 DEF Connective
<1> QED
  BY <1>1, <1>3a, <1>3, <1>4, HandOverSource

LEMMA IfCondSource ==
  ASSUME IInv, SourceInv, IfCond, UNCHANGED shape, lost' = (lost \/ Loses)
  PROVE  SourceInv'
<1>1. /\ Depth > 0 /\ Top.kind = "exp" /\ status' = "running"
      /\ Appends
  BY AppendsLabel DEF IfCond, StmtExp, TopIs, Uses
<1>2. Top.exp \in Nat /\ Next_addr \in Nat
  BY <1>1, TopFits DEF Next_addr, IInv, TypeOK
<1>3a. PICK fr : fr = MkFrame("if", Top.exp, Next_addr, 0, FALSE)
  OBVIOUS
<1>3. fr \in Frame /\ fr.kind = "if" /\ fr.exp = Top.exp
  BY <1>2, <1>3a DEF MkFrame, Frame, Kinds
<1>4. stack' = Append(Keep(Depth - 1), fr)
  BY <1>3a DEF IfCond
<1> QED
  BY <1>1, <1>3, <1>4, HandOverSource

LEMMA WhileCondSource ==
  ASSUME IInv, SourceInv, WhileCond, Returns(2, LastLook), lost' = (lost \/ Loses)
  PROVE  SourceInv'
<1>1. /\ Depth > 1 /\ Top.kind = "exp" /\ Under.kind = "while" /\ status' = "running"
      /\ Emit(<<LabelCode>>)
  BY DEF WhileCond, Returned
<1>2. /\ Depth \in Nat /\ Depth - 2 \in 0 .. Depth /\ Depth - 2 + 1 = Depth - 1
      /\ Depth - 1 \in 1 .. Depth /\ Depth > 0 /\ 2 \in 0 .. Depth
      /\ Depth \in 1 .. Depth
  BY <1>1 DEF IInv, TypeOK, Depth
<1>3. Top.exp \in Nat /\ Next_addr \in Nat /\ Under.start \in Nat
  <2>1. Top.exp \in Nat /\ Len(tac_list) \in Nat
    BY <1>2, TopFits DEF IInv, TypeOK
  <2>2. stack[Depth - 1] \in Frame
    BY <1>2, Fits
  <2> QED
    BY <2>1, <2>2 DEF Next_addr, Under, Frame
<1>4. PICK fr : fr = MkFrame("body", Top.exp, Next_addr, Under.start, FALSE)
  OBVIOUS
<1>5. fr \in Frame /\ fr.kind = "body" /\ fr.exp = Top.exp
  BY <1>3, <1>4 DEF MkFrame, Frame, Kinds
<1>6. stack' = Append(Keep(Depth - 2), fr)
  BY <1>4 DEF WhileCond
<1>7. StackStep(Depth - 2) /\ stack'[Depth - 1] = fr /\ Len(stack') = Depth - 1
  BY <1>2, <1>5, <1>6, Pushed
<1>8. Appends /\ Len(tac_list) \in Nat /\ Len(tac_list') = Len(tac_list) + 1
  BY <1>1, AppendsLabel
<1>9. LookFits(tac_list', fr, shape.open[Depth]) /\ (IsIf(tac_list', fr.exp) => fr.exp \in Heads)
  BY <1>1, <1>2, <1>5, <1>8, TakesOver
<1>10. PICK look \in Look : look = shape.open[Depth] /\ look = LastLook
  BY <1>2, ShapeFacts DEF SourceInv, LastLook
<1>11. /\ OpenStep(Depth - 2) /\ shape' \in Shapes /\ SameFlags
       /\ shape'.open[Depth - 1] = look
  BY <1>2, <1>7, <1>10, OpenPushed DEF SourceInv, Returns
<1>12. ~ Loses
  <2>1. fr.exp <= Len(tac_list)
    BY <1>1, <1>2, <1>5, TopFits DEF FrameFits
  <2> QED
    BY <1>1, <1>7, <2>1, NotLosing
<1>13. NewHead(Depth - 2)
  BY <1>2, <1>7, <1>9 DEF NewHead
<1>14. ~ shape'.valued
  BY <1>11 DEF SourceInv, ValuesStop, SameFlags
<1>15. (\E f \in Depth - 2 + 1 .. Depth : shape.open[f].chained) <=> look.chained
  <2>1. shape.open[Depth - 1] = NoLook
    BY <1>1, <1>2 DEF SourceInv, LooksFit, LookFits, Under
  <2>2. ~ NoLook.chained
    BY DEF NoLook, RelopLook
  <2>3. Depth - 2 + 1 .. Depth = {Depth - 1, Depth}
    BY <1>2
  <2> QED
    BY <1>10, <2>1, <2>2, <2>3
<1> QED
  BY <1>1, <1>2, <1>7, <1>8, <1>9, <1>10, <1>11, <1>12, <1>13, <1>14, <1>15, SourceStep
     DEF SameFlags

-----------------------------------------------------------------------------
(* A statement that its condition reaches has no value in the condition. *)
LEMMA PatchedIsNoValue ==
  ASSUME IInv, SourceInv, Depth > 0, Top.kind \in {"if", "body"}, CanPatch(tac_list, Top.exp)
  PROVE  ~ shape.open[Depth].literal
<1>1. Depth \in 1 .. Depth /\ stack[Depth] = Top
  BY TopFits DEF Top
<1>2. LookFits(tac_list, Top, shape.open[Depth])
  BY <1>1 DEF SourceInv, LooksFit
<1> QED
  BY <1>2 DEF LookFits, CanPatch

(* The end of a statement. *)
LEMMA EndSource ==
  ASSUME IInv, SourceInv, Appends, Len(tac_list') # Len(tac_list), Depth > 0,
         Top.kind \in {"if", "body"}, CanPatch(tac_list, Top.exp),
         stack' = Keep(Depth - 1), Consumes(Below(1)), status' = "running",
         lost' = (lost \/ Loses)
  PROVE  SourceInv'
<1>1. Depth \in Nat /\ Depth - 1 \in 0 .. Depth /\ Depth - 1 + 1 = Depth /\ 1 \in 0 .. Depth
  BY TopFits
<1>2. StackStep(Depth - 1) /\ Len(stack') = Depth - 1
  BY <1>1, Popped
<1>3. PICK open : open = Below(1)
  OBVIOUS
<1>4. /\ open \in Seq(Look) /\ Len(open) = Depth - 1
      /\ \A f \in 1 .. Depth - 1 : open[f] = shape.open[f]
  BY <1>1, <1>3, BelowFacts DEF SourceInv
<1>5. /\ OpenStep(Depth - 1) /\ shape' \in Shapes
      /\ shape'.chained = (shape.chained \/ shape.open[Depth].chained)
      /\ shape'.valued = (shape.valued \/ shape.open[Depth].literal)
      /\ shape'.dropped = shape.dropped
  BY <1>2, <1>3, <1>4, OpenConsumed DEF SourceInv
<1>6. ~ Loses
  BY NotLosing DEF TopIs
<1>7. NewHead(Depth - 1)
  BY <1>1, <1>2 DEF NewHead
<1>8. ~ shape'.valued
  BY <1>5, PatchedIsNoValue DEF SourceInv, ValuesStop
<1>9. (\E f \in Depth - 1 + 1 .. Depth : shape.open[f].chained) <=> shape.open[Depth].chained
  BY <1>1
<1>10. Len(stack') # Depth - 1 + 1
  BY <1>1, <1>2
<1> QED
  BY <1>1, <1>2, <1>5, <1>6, <1>7, <1>8, <1>9, <1>10, SourceStep

LEMMA IfEndSource ==
  ASSUME IInv, SourceInv, IfEnd, Consumes(Below(1)), lost' = (lost \/ Loses)
  PROVE  SourceInv'
<1>1. /\ Depth > 0 /\ Top.kind \in {"if", "body"} /\ CanPatch(tac_list, Top.exp)
      /\ stack' = Keep(Depth - 1) /\ status' = "running" /\ Emit(<<LabelCode>>)
  BY DEF IfEnd, TopIs
<1>2. Appends /\ Len(tac_list') # Len(tac_list)
  BY <1>1, AppendsLabel
<1> QED
  BY <1>1, <1>2, EndSource

LEMMA WhileEndSource ==
  ASSUME IInv, SourceInv, WhileEnd, Consumes(Below(1)), lost' = (lost \/ Loses)
  PROVE  SourceInv'
<1>1. /\ Depth > 0 /\ Top.kind \in {"if", "body"} /\ CanPatch(tac_list, Top.exp)
      /\ stack' = Keep(Depth - 1) /\ status' = "running"
      /\ Emit(<<GotoCode(Len(label) + 1), LabelCode>>)
  BY DEF WhileEnd, TopIs
<1>2. Appends /\ Len(tac_list') # Len(tac_list)
  BY <1>1, AppendsJump
<1> QED
  BY <1>1, <1>2, EndSource

LEMMA ElseSource ==
  ASSUME IInv, SourceInv, Else, Consumes(Append(Below(1), NoLook)), lost' = (lost \/ Loses)
  PROVE  SourceInv'
<1>1. /\ Depth > 0 /\ Top.kind \in {"if", "body"} /\ CanPatch(tac_list, Top.exp)
      /\ status' = "running" /\ Emit(<<GotoCode(Len(label) + 1), LabelCode>>)
      /\ stack' = Append(Keep(Depth - 1), MkFrame("else", 0, Next_addr, 0, FALSE))
  BY DEF Else, TopIs, Uses
<1>2. Appends /\ Len(tac_list) \in Nat /\ Len(tac_list') # Len(tac_list)
  BY <1>1, AppendsJump
<1>3. Depth \in Nat /\ Depth - 1 \in 0 .. Depth /\ Depth - 1 + 1 = Depth /\ 1 \in 0 .. Depth
  BY <1>1, TopFits
<1>4. PICK fr : fr = MkFrame("else", 0, Next_addr, 0, FALSE)
  OBVIOUS
<1>5. fr \in Frame /\ fr.kind = "else"
  BY <1>2, <1>4 DEF MkFrame, Frame, Kinds, Next_addr
<1>6. StackStep(Depth - 1) /\ stack'[Depth] = fr /\ Len(stack') = Depth
  BY <1>1, <1>3, <1>4, <1>5, Pushed
<1>7. PICK below : below = Below(1)
  OBVIOUS
<1>8. /\ below \in Seq(Look) /\ Len(below) = Depth - 1
      /\ \A f \in 1 .. Depth - 1 : below[f] = shape.open[f]
  BY <1>3, <1>7, BelowFacts DEF SourceInv
<1>9. PICK open : open = Append(below, NoLook)
  OBVIOUS
<1>10. /\ open \in Seq(Look) /\ Len(open) = Depth /\ open[Depth] = NoLook
       /\ \A f \in 1 .. Depth - 1 : open[f] = shape.open[f]
  BY <1>3, <1>8, <1>9, Looks
<1>11. Consumes(open)
  BY <1>7, <1>9
<1>12. /\ OpenStep(Depth - 1) /\ shape' \in Shapes /\ shape'.open = open
       /\ shape'.chained = (shape.chained \/ shape.open[Depth].chained)
       /\ shape'.valued = (shape.valued \/ shape.open[Depth].literal)
       /\ shape'.dropped = shape.dropped
  BY <1>1, <1>6, <1>10, <1>11, OpenConsumed DEF SourceInv
<1>13. ~ Loses
  BY <1>1, NotLosing DEF TopIs
<1>14. NewHead(Depth - 1)
  BY <1>3, <1>5, <1>6 DEF NewHead
<1>15. ~ shape'.valued
  BY <1>1, <1>12, PatchedIsNoValue DEF SourceInv, ValuesStop
<1>16. (\E f \in Depth - 1 + 1 .. Depth : shape.open[f].chained) <=> shape.open[Depth].chained
  BY <1>3
<1>17. LookFits(tac_list', fr, NoLook) /\ ~ NoLook.chained
  BY <1>5 DEF LookFits, NoLook, RelopLook
<1>18. stack'[Depth - 1 + 1] = fr /\ shape'.open[Depth - 1 + 1] = NoLook
  BY <1>3, <1>6, <1>10, <1>12
<1> QED
  BY <1>1, <1>2, <1>3, <1>6, <1>12, <1>13, <1>14, <1>15, <1>16, <1>17, <1>18, SourceStep

LEMMA ElseEndSource ==
  ASSUME IInv, SourceInv, ElseEnd, Closes, lost' = (lost \/ Loses)
  PROVE  SourceInv'
<1>1. /\ Depth > 0 /\ Top.kind = "else" /\ status' = "running" /\ Emit(<<LabelCode>>)
      /\ stack' = Keep(Depth - 1)
  BY DEF ElseEnd, TopIs
<1>2. Appends /\ Len(tac_list') # Len(tac_list)
  BY <1>1, AppendsLabel
<1>3. /\ Depth \in Nat /\ Depth - 1 \in 0 .. Depth /\ Depth - 1 + 1 = Depth
      /\ 1 \in 0 .. Depth /\ Depth \in 1 .. Depth /\ stack[Depth] = Top
  BY <1>1, TopFits DEF Top
<1>4. StackStep(Depth - 1) /\ Len(stack') = Depth - 1
  BY <1>1, <1>3, Popped
<1>5. PICK open : open = Below(1)
  OBVIOUS
<1>6. /\ open \in Seq(Look) /\ Len(open) = Depth - 1
      /\ \A f \in 1 .. Depth - 1 : open[f] = shape.open[f]
  BY <1>3, <1>5, BelowFacts DEF SourceInv
<1>7. /\ shape' \in Shapes /\ shape'.open = open /\ SameFlags
  BY <1>5, <1>6, ShapeFacts DEF SourceInv, Closes, Shapes, SameFlags
<1>8. OpenStep(Depth - 1)
  BY <1>4, <1>6, <1>7 DEF OpenStep
<1>9. ~ Loses
  BY <1>1, NotLosing DEF TopIs
<1>10. NewHead(Depth - 1) /\ Len(stack') # Depth - 1 + 1
  BY <1>3, <1>4 DEF NewHead
<1>11. ~ shape'.valued
  BY <1>7 DEF SourceInv, ValuesStop, SameFlags
<1>12. ~ (\E f \in Depth - 1 + 1 .. Depth : shape.open[f].chained)
  <2>1. shape.open[Depth] = NoLook
    BY <1>1, <1>3 DEF SourceInv, LooksFit, LookFits
  <2>2. ~ NoLook.chained
    BY DEF NoLook, RelopLook
  <2> QED
    BY <1>3, <2>1, <2>2
<1> QED
  BY <1>1, <1>2, <1>3, <1>4, <1>7, <1>8, <1>9, <1>10, <1>11, <1>12, SourceStep DEF SameFlags

(* A condition that is used as a statement is lost, a value is not. *)
LEMMA ExpStmtSource ==
  ASSUME IInv, SourceInv, ExpStmt, Drops(1), lost' = (lost \/ Loses)
  PROVE  SourceInv'
<1>1. Depth > 0 /\ Top.kind = "exp" /\ stack' = Keep(Depth - 1)
  BY DEF ExpStmt, StmtExp, TopIs
<1>2. Appends /\ 1 \in Arity /\ UsesValues(1) /\ status' = "running"
  BY AppendsNone DEF ExpStmt, UsesValues, Arity, Uses
<1>3. Spends(1)
  <2>1. \A f \in 1 .. Depth : stack[f].kind = "exp" => f = Depth
    BY DEF IInv, ResultOK
  <2>2. Depth \in Nat /\ stack[Depth].kind = "exp" /\ Depth > 0
    BY <1>1 DEF IInv, TypeOK, Depth, Top
  <2> QED
    BY <2>1, <2>2 DEF Spends
<1> QED
  BY <1>1, <1>2, <1>3, UseSource DEF ExpStmt

-----------------------------------------------------------------------------
(* Negation: the outcomes of the innermost condition are exchanged. *)
LEMMA NotSource ==
  ASSUME IInv, SourceInv, Not, Returns(1, NotLook(LastLook)), lost' = (lost \/ Loses)
  PROVE  SourceInv'
<1>1. /\ Depth > 0 /\ Top.kind = "exp" /\ status' = "running" /\ UNCHANGED stack
      /\ tac_list' = [tac_list EXCEPT ![Top.exp].swap = ~ @]
  BY DEF Not, TopIs, Uses
<1>2. /\ Depth \in Nat /\ Depth \in 1 .. Depth /\ stack[Depth] = Top /\ 1 \in 0 .. Depth
      /\ Depth - 1 + 1 = Depth /\ Depth - 1 \in 0 .. Depth /\ FrameFits(tac_list, Top)
  BY <1>1, TopFits DEF Top
<1>3. PICK e : e = Top.exp /\ e \in 1 .. Len(tac_list)
  BY <1>1, <1>2 DEF FrameFits
<1>4. tac_list \in Seq(TAC) /\ Len(tac_list) \in Nat /\ Len(stack') = Depth /\ Depth' = Depth
  BY <1>1 DEF IInv, TypeOK, Depth
<1>5. /\ Len(tac_list') = Len(tac_list)
      /\ DOMAIN tac_list' = DOMAIN tac_list
      /\ \A i \in 1 .. Len(tac_list) :
           /\ tac_list'[i].op = tac_list[i].op /\ tac_list'[i].label = tac_list[i].label
           /\ i # e => tac_list'[i] = tac_list[i]
      /\ tac_list'[e].swap = ~ tac_list[e].swap
      /\ tac_list[e].swap \in BOOLEAN
  <2>1. tac_list[e] \in TAC
    BY <1>3, <1>4
  <2>2. PICK c : c = [tac_list[e] EXCEPT !.swap = ~ @]
    OBVIOUS
  <2>3. /\ c.op = tac_list[e].op /\ c.label = tac_list[e].label
        /\ c.swap = ~ tac_list[e].swap /\ tac_list[e].swap \in BOOLEAN
    BY <2>1, <2>2 DEF TAC
  <2>4. tac_list' = [tac_list EXCEPT ![e] = c]
    BY <1>1, <1>3, <2>2
  <2> QED
    BY <1>3, <1>4, <2>3, <2>4
<1>6. ASSUME NEW x \in Jumps
      PROVE  Joined(tac_list', x) <=> Joined(tac_list, x)
  BY <1>5 DEF Joined, Jumps
<1>7. ASSUME NEW i
      PROVE  IsIf(tac_list', i) <=> IsIf(tac_list, i)
  BY <1>4, <1>5 DEF IsIf
<1>8. PICK old \in Look, look \in Look : /\ old = shape.open[Depth] /\ old = LastLook
                                        /\ look = NotLook(old)
  BY <1>2, ShapeFacts, Looks DEF SourceInv, LastLook
<1>9. /\ OpenStep(Depth - 1) /\ shape' \in Shapes /\ SameFlags
      /\ shape'.open[Depth] = look
  BY <1>2, <1>4, <1>8, OpenPushed DEF SourceInv, Returns
<1>10. /\ look.chained = old.chained /\ look.literal = old.literal /\ look.value = old.value
       /\ \A b \in BOOLEAN : b \in look.several <=> (~ b) \in old.several
  BY <1>8 DEF NotLook, Look
(* The other conditions are at other instructions. *)
<1>11. ASSUME NEW f \in 1 .. Depth - 1
       PROVE  LookFits(tac_list', stack[f], shape'.open[f])
  <2>1. f \in 1 .. Depth /\ f # Depth /\ shape'.open[f] = shape.open[f]
    BY <1>2, <1>9 DEF OpenStep
  <2>2. LookFits(tac_list, stack[f], shape.open[f])
    BY <2>1 DEF SourceInv, LooksFit
  <2>3. CASE stack[f].kind \in {"else", "while"}
    BY <2>1, <2>2, <2>3 DEF LookFits
  <2>4. CASE stack[f].kind \notin {"else", "while"}
    <3>1. stack[f].exp # e /\ stack[f].exp \in 1 .. Len(tac_list)
      BY <1>1, <1>2, <1>3, <2>1, <2>4 DEF IInv, ExpsOK, Conds
    <3>2. tac_list'[stack[f].exp] = tac_list[stack[f].exp] /\ stack[f].exp \in Nat
      BY <1>5, <3>1
    <3>3. \A b \in BOOLEAN : Exit(tac_list', stack[f].exp, b) = Exit(tac_list, stack[f].exp, b)
      BY <3>2 DEF Exit
    <3>4. IsIf(tac_list, stack[f].exp) =>
            \A b \in BOOLEAN : Exit(tac_list, stack[f].exp, b) \in Jumps
      BY <3>2, ExitsAreJumps
    <3> QED
      BY <1>6, <1>7, <2>1, <2>2, <2>4, <3>2, <3>3, <3>4 DEF LookFits
  <2> QED
    BY <2>3, <2>4
<1>12. LookFits(tac_list', Top, look)
  <2>1. LookFits(tac_list, Top, old)
    BY <1>2, <1>8 DEF SourceInv, LooksFit
  <2>2. ASSUME IsIf(tac_list, e), NEW b \in BOOLEAN
        PROVE  b \in look.several <=> Joined(tac_list', Exit(tac_list', e, b))
    <3>1. PICK c \in BOOLEAN : c = ~ b
      OBVIOUS
    <3>2. Exit(tac_list', e, b) = Exit(tac_list, e, c)
      BY <1>5, <3>1 DEF Exit
    <3>3. Exit(tac_list, e, c) \in Jumps
      BY <1>3, <1>4, <2>2, ExitsAreJumps
    <3>4. c \in old.several <=> Joined(tac_list, Exit(tac_list, e, c))
      BY <1>1, <1>3, <2>1, <2>2 DEF LookFits
    <3>5. b \in look.several <=> c \in old.several
      BY <1>10, <3>1
    <3> QED
      BY <1>6, <3>2, <3>3, <3>4, <3>5
  <2> QED
    BY <1>1, <1>3, <1>7, <1>10, <2>1, <2>2 DEF LookFits
<1>13. LooksFit'
  <2> SUFFICES ASSUME NEW f \in 1 .. Depth
               PROVE  LookFits(tac_list', stack[f], shape'.open[f])
    BY <1>1, <1>4 DEF LooksFit
  <2>1. f \in 1 .. Depth - 1 \/ f = Depth
    BY <1>2
  <2> QED
    BY <1>2, <1>9, <1>11, <1>12, <2>1
<1>14. CellsApart'
  <2>1. Heads' = Heads
    BY <1>1, <1>4, <1>7 DEF Heads, Conds
  <2>2. ASSUME NEW p \in Heads, NEW x \in {p, p + 1}
        PROVE  tac_list'[x].label = tac_list[x].label
    <3>1. PICK f \in 1 .. Depth : IsIf(tac_list, stack[f].exp) /\ p = stack[f].exp
      BY DEF Heads, Conds
    <3>2. p \in Nat
      BY <3>1, Fits DEF Frame
    <3>3. p \in Jumps /\ p + 1 \in Jumps
      BY <3>1, <3>2, ExitsAreJumps
    <3> QED
      BY <1>5, <3>3, <2>2 DEF Jumps
  <2> QED
    BY <2>1, <2>2 DEF SourceInv, CellsApart
<1>15. LostShows'
  <2>1. ~ Loses
    <3>1. stack'[Depth].exp <= Len(tac_list)
      BY <1>1, <1>2, <1>3, <1>4
    <3> QED
      BY <1>4, <3>1, NotLosing
  <2>2. (\E f \in Depth - 1 + 1 .. Depth : shape.open[f].chained) <=> old.chained
    <3>1. Depth - 1 + 1 .. Depth = {Depth}
      BY <1>2
    <3> QED
      BY <1>8, <3>1
  <2>3. \/ shape'.chained \/ shape'.dropped
        \/ Len(stack') = Depth - 1 + 1 /\ shape'.open[Depth - 1 + 1].chained
        <=>
        shape.chained \/ shape.dropped \/ Loses
        \/ \E f \in Depth - 1 + 1 .. Depth : shape.open[f].chained
    BY <1>2, <1>4, <1>9, <1>10, <2>1, <2>2 DEF SameFlags
  <2> QED
    BY <1>2, <1>4, <1>9, <2>3, ShowsStep DEF SourceInv
<1>16. ShapeOK'
  BY <1>4, <1>9 DEF ShapeOK, Shapes, OpenStep
<1>17. ValuesStop'
  BY <1>1, <1>9 DEF SourceInv, ValuesStop, SameFlags
<1> QED
  BY <1>13, <1>14, <1>15, <1>16, <1>17 DEF SourceInv

-----------------------------------------------------------------------------
(***************************************************************************)
(* The end of && and ||: the jump of the left operand at se joins the one  *)
(* of the right operand at s; both are the exit for the outcome of k.      *)
(***************************************************************************)
LEMMA JoinedExits ==
  ASSUME SourceInv, IInv, NEW k \in {"and", "or"}, NEW l, NEW r, NEW fe, NEW se, NEW s,
         JoinDid(k, l, r, fe, se, s), Join(k)
  PROVE  /\ l \in Nat /\ r \in Nat
         /\ IsIf(tac_list, l) /\ IsIf(tac_list, r) /\ IsGoto(tac_list, r + 1)
         /\ l \in Heads /\ r \in Heads /\ l # r
         /\ se \in {l, l + 1} /\ s \in {r, r + 1}
         /\ se = Exit(tac_list, l, k = "or") /\ s = Exit(tac_list, r, k = "or")
         /\ LookFits(tac_list, Under, shape.open[Depth - 1])
         /\ LookFits(tac_list, Top, shape.open[Depth])
<1>1. /\ Depth > 1 /\ Top.kind = "exp" /\ Under.kind = k
      /\ l = Under.exp /\ r = Top.exp
      /\ IsIf(tac_list, l) /\ IsGoto(tac_list, l + 1)
      /\ (fe = l /\ se = l + 1) \/ (fe = l + 1 /\ se = l)
      /\ s = r \/ s = r + 1
      /\ se = ShareExit(k, Under.exp, Under.swap)
      /\ s = r => IsIf(tac_list, r)
      /\ s # r => IsGoto(tac_list, r + 1)
  BY DEF JoinDid
<1>2. /\ tac_list \in Seq(TAC) /\ Len(tac_list) \in Nat /\ Depth \in Nat
      /\ stack[Depth] = Top /\ stack[Depth - 1] = Under
      /\ Depth - 1 \in 1 .. Depth /\ Depth \in 1 .. Depth /\ Depth # Depth - 1
  BY <1>1 DEF IInv, TypeOK, Depth, Top, Under
<1>3. FrameFits(tac_list, Top) /\ Top \in Frame /\ FrameFits(tac_list, Under) /\ Under \in Frame
  BY <1>2, Fits
<1>4. l \in Nat /\ r \in Nat
  BY <1>1, <1>3 DEF Frame
<1>5. IsIf(tac_list, r) /\ IsGoto(tac_list, r + 1)
  <2>1. IsIf(tac_list, r) \/ ~ IsGoto(tac_list, r + 1)
    BY <1>1, <1>3 DEF FrameFits
  <2>3. IsIf(tac_list, r)
    BY <1>1, <2>1
  <2> QED
    BY <1>4, <2>3, ExitsAreJumps
<1>6. l \in Heads /\ r \in Heads /\ l # r
  <2>1. Depth \in Conds /\ Depth - 1 \in Conds
    BY <1>1, <1>2 DEF Conds
  <2>2. l # r
    BY <1>1, <1>2, <2>1 DEF IInv, ExpsOK
  <2> QED
    BY <1>1, <1>2, <1>5, <2>1, <2>2 DEF Heads
<1>7. /\ LookFits(tac_list, Under, shape.open[Depth - 1])
      /\ LookFits(tac_list, Top, shape.open[Depth])
  BY <1>2 DEF SourceInv, LooksFit
<1>8. tac_list[l].swap \in BOOLEAN /\ tac_list[r].swap \in BOOLEAN
  <2>1. l \in 1 .. Len(tac_list) /\ r \in 1 .. Len(tac_list)
    BY <1>1, <1>2, <1>5 DEF IsIf
  <2>2. tac_list[l] \in TAC /\ tac_list[r] \in TAC
    BY <1>2, <2>1
  <2> QED
    BY <2>2 DEF TAC
<1>9. se = Exit(tac_list, l, k = "or")
  <2>1. Under.swap = tac_list[l].swap
    BY <1>1, <1>7 DEF LookFits
  <2> QED
    BY <1>1, <1>8, <2>1 DEF ShareExit, Exit
<1>10. s = Exit(tac_list, r, k = "or")
  <2>1. s = SourceExit(k, r, tac_list[r].swap)
    BY DEF JoinDid
  <2> QED
    BY <1>8, <2>1 DEF SourceExit, Exit
<1> QED
  BY <1>1, <1>4, <1>5, <1>6, <1>7, <1>9, <1>10

LEMMA JoinSource ==
  ASSUME IInv, SourceInv, NEW k \in {"and", "or"}, Join(k),
         Returns(2, JoinLook(k, shape.open[Len(shape.open) - 1], LastLook)),
         lost' = (lost \/ Loses)
  PROVE  SourceInv'
<1>1. PICK l, r, fe, se, s : JoinDid(k, l, r, fe, se, s)
  BY JoinEffect
<1>2. /\ l \in Nat /\ r \in Nat
      /\ IsIf(tac_list, l) /\ IsIf(tac_list, r) /\ IsGoto(tac_list, r + 1)
      /\ l \in Heads /\ r \in Heads /\ l # r
      /\ se \in {l, l + 1} /\ s \in {r, r + 1}
      /\ se = Exit(tac_list, l, k = "or") /\ s = Exit(tac_list, r, k = "or")
      /\ LookFits(tac_list, Under, shape.open[Depth - 1])
      /\ LookFits(tac_list, Top, shape.open[Depth])
  BY <1>1, JoinedExits
<1>3. /\ Depth > 1 /\ Top.kind = "exp" /\ Under.kind = k
      /\ l = Under.exp /\ r = Top.exp
      /\ se = ShareExit(k, Under.exp, Under.swap)
      /\ tac_list' = [tac_list EXCEPT ![se].label = tac_list[s].label]
      /\ stack' = Append(Keep(Depth - 2), Top) /\ status' = "running"
  BY <1>1 DEF JoinDid
<1>4. /\ tac_list \in Seq(TAC) /\ Len(tac_list) \in Nat /\ Depth \in Nat
      /\ Depth - 2 \in 0 .. Depth /\ Depth - 2 + 1 = Depth - 1 /\ 2 \in 0 .. Depth
      /\ Depth - 1 \in 1 .. Depth /\ Depth \in 1 .. Depth
  BY <1>3 DEF IInv, TypeOK, Depth
<1>5. l \in Jumps /\ l + 1 \in Jumps /\ r \in Jumps /\ r + 1 \in Jumps
  BY <1>2, ExitsAreJumps
<1>6. /\ Len(tac_list') = Len(tac_list) /\ DOMAIN tac_list' = DOMAIN tac_list
      /\ \A i \in 1 .. Len(tac_list) :
           /\ tac_list'[i].op = tac_list[i].op /\ tac_list'[i].swap = tac_list[i].swap
           /\ tac_list'[i].label = IF i = se THEN tac_list[s].label ELSE tac_list[i].label
  <2>1. PICK c : c = [tac_list[se] EXCEPT !.label = tac_list[s].label]
    OBVIOUS
  <2>2. tac_list' = [tac_list EXCEPT ![se] = c]
    BY <1>3, <2>1
  <2>3. se \in 1 .. Len(tac_list)
    BY <1>2, <1>5 DEF Jumps
  <2>4. tac_list[se] \in TAC
    BY <1>4, <2>3
  <2>5. c.op = tac_list[se].op /\ c.swap = tac_list[se].swap /\ c.label = tac_list[s].label
    BY <2>1, <2>4 DEF TAC
  <2> QED
    BY <1>4, <2>2, <2>3, <2>5
<1>7. ASSUME NEW i
      PROVE  IsIf(tac_list', i) <=> IsIf(tac_list, i)
  BY <1>4, <1>6 DEF IsIf
(* The jumps of the other open conditions are elsewhere, with other cells. *)
<1>8. ASSUME NEW p \in Heads, p # l, NEW x \in {p, p + 1}
      PROVE  /\ x \in Jumps /\ x # se /\ tac_list'[x].label = tac_list[x].label
             /\ tac_list[x].label # tac_list[se].label
             /\ x # s => tac_list[x].label # tac_list[s].label
             /\ p \in Nat /\ IsIf(tac_list, p)
  <2>1. PICK f \in 1 .. Depth : IsIf(tac_list, stack[f].exp) /\ p = stack[f].exp
    BY DEF Heads, Conds
  <2>2. p \in Nat /\ IsIf(tac_list, p)
    BY <2>1, Fits DEF Frame
  <2>3. p \in Jumps /\ p + 1 \in Jumps /\ IsGoto(tac_list, p + 1)
    BY <2>2, ExitsAreJumps
  <2>4. IsGoto(tac_list, l + 1)
    BY <1>2, ExitsAreJumps
  <2>5. p # l + 1 /\ p + 1 # l
    BY <1>2, <2>2, <2>3, <2>4 DEF IsIf, IsGoto
  <2>6. x # se
    BY <1>2, <1>8, <2>2, <2>5
  <2>7. tac_list[x].label # tac_list[se].label
    BY <1>2, <1>8, <2>6 DEF SourceInv, CellsApart
  <2>8. x # s => tac_list[x].label # tac_list[s].label
    BY <1>2, <1>8 DEF SourceInv, CellsApart
  <2> QED
    BY <1>6, <1>8, <2>2, <2>3, <2>6, <2>7, <2>8 DEF Jumps
<1>9. ASSUME NEW p \in Heads, p # l, NEW x \in {p, p + 1}, x # s
      PROVE  Joined(tac_list', x) <=> Joined(tac_list, x)
  <2>1. /\ x \in Jumps /\ x # se /\ tac_list'[x].label = tac_list[x].label
        /\ tac_list[x].label # tac_list[se].label /\ tac_list[x].label # tac_list[s].label
    BY <1>8, <1>9
  <2>2. ASSUME NEW j \in 1 .. Len(tac_list)
        PROVE  tac_list'[j].label = tac_list'[x].label <=> tac_list[j].label = tac_list[x].label
    BY <1>6, <2>1
  <2> QED
    BY <1>6, <2>2 DEF Joined
<1>10. Joined(tac_list', s)
  <2>1. /\ s # se /\ tac_list'[s].label = tac_list[s].label
    BY <1>2, <1>8
  <2>2. se \in 1 .. Len(tac_list') /\ tac_list[se].op \in {"IF", "GOTO"}
    BY <1>2, <1>5, <1>6 DEF Jumps
  <2>3. tac_list'[se].label = tac_list[s].label /\ tac_list'[se].op \in {"IF", "GOTO"}
    BY <1>6, <2>2
  <2> QED
    BY <2>1, <2>2, <2>3 DEF Joined
(* The looks. *)
<1>11. PICK L \in Look, R \in Look, look \in Look :
         /\ L = shape.open[Depth - 1] /\ R = shape.open[Depth]
         /\ Len(shape.open) = Depth /\ LastLook = R
         /\ look = JoinLook(k, L, R)
  BY <1>4, ShapeFacts, Looks DEF SourceInv, LastLook
<1>12. /\ look.several = R.several \union {k = "or"}
       /\ look.chained = (L.chained \/ R.chained \/ (k = "or") \in L.several)
       /\ look.literal = (L.literal \/ R.literal) /\ look.value = FALSE
  BY <1>11 DEF JoinLook
<1>13. /\ ~ L.literal /\ ~ R.literal
       /\ \A b \in BOOLEAN : b \in R.several <=> Joined(tac_list, Exit(tac_list, r, b))
       /\ (k = "or") \in L.several <=> Joined(tac_list, se)
  BY <1>2, <1>3, <1>11 DEF LookFits
<1>14. StackStep(Depth - 2) /\ stack'[Depth - 1] = Top /\ Len(stack') = Depth - 1
  <2>1. Top \in Frame
    BY <1>4, Fits DEF Top
  <2> QED
    BY <1>3, <1>4, <2>1, Pushed
<1>15. /\ OpenStep(Depth - 2) /\ shape' \in Shapes /\ SameFlags
       /\ shape'.open[Depth - 1] = look
  <2>1. shape' = [shape EXCEPT !.open = Append(Below(2), look)]
    BY <1>11 DEF Returns
  <2> QED
    BY <1>4, <1>14, <2>1, OpenPushed DEF SourceInv
<1>16. ASSUME NEW f \in 1 .. Depth - 2
       PROVE  LookFits(tac_list', stack[f], shape'.open[f])
  <2>1. f \in 1 .. Depth /\ f # Depth /\ f # Depth - 1 /\ shape'.open[f] = shape.open[f]
    BY <1>4, <1>15 DEF OpenStep
  <2>2. LookFits(tac_list, stack[f], shape.open[f])
    BY <2>1 DEF SourceInv, LooksFit
  <2>3. CASE stack[f].kind \in {"else", "while"}
    BY <2>1, <2>2, <2>3 DEF LookFits
  <2>4. CASE stack[f].kind \notin {"else", "while"}
    <3>1. /\ f \in Conds /\ stack[f].exp \in 1 .. Len(tac_list)
          /\ stack[f].exp # l /\ stack[f].exp # r
      <4>1. f \in Conds /\ Depth \in Conds /\ Depth - 1 \in Conds
        BY <1>3, <1>4, <2>1, <2>4 DEF Conds, Top, Under
      <4>2. stack[Depth].exp = r /\ stack[Depth - 1].exp = l
        BY <1>3 DEF Top, Under
      <4> QED
        BY <2>1, <4>1, <4>2 DEF IInv, ExpsOK
    <3>2. tac_list'[stack[f].exp].swap = tac_list[stack[f].exp].swap
      BY <1>6, <3>1
    <3>3. \A b \in BOOLEAN : /\ Exit(tac_list', stack[f].exp, b) = Exit(tac_list, stack[f].exp, b)
                             /\ Exit(tac_list, stack[f].exp, b) \in {stack[f].exp, stack[f].exp + 1}
      BY <3>2 DEF Exit
    <3>4. ASSUME IsIf(tac_list, stack[f].exp), NEW x \in {stack[f].exp, stack[f].exp + 1}
          PROVE  Joined(tac_list', x) <=> Joined(tac_list, x)
      <4>1. stack[f].exp \in Heads
        BY <3>1, <3>4 DEF Heads
      <4>2. x # s
        <5>1. stack[f].exp # r + 1 /\ stack[f].exp + 1 # r
          <6>1. IsGoto(tac_list, stack[f].exp + 1)
            BY <1>4, <3>1, <3>4, ExitsAreJumps
          <6> QED
            BY <1>2, <3>4, <6>1 DEF IsIf, IsGoto
        <5> QED
          BY <1>2, <3>1, <3>4, <5>1
      <4> QED
        BY <1>9, <3>1, <3>4, <4>1, <4>2
    <3> QED
      BY <1>7, <2>1, <2>2, <2>4, <3>2, <3>3, <3>4 DEF LookFits
  <2> QED
    BY <2>3, <2>4
<1>17. LookFits(tac_list', Top, look)
  <2>1. tac_list'[r].swap = tac_list[r].swap
    BY <1>5, <1>6 DEF Jumps
  <2>2. \A b \in BOOLEAN : /\ Exit(tac_list', r, b) = Exit(tac_list, r, b)
                           /\ Exit(tac_list, r, b) \in {r, r + 1}
    BY <2>1 DEF Exit
  <2>3. ASSUME NEW b \in BOOLEAN
        PROVE  b \in look.several <=> Joined(tac_list', Exit(tac_list', r, b))
    <3>1. CASE b = (k = "or")
      BY <1>2, <1>10, <1>12, <2>2, <3>1
    <3>2. CASE b # (k = "or")
      <4>1. Exit(tac_list, r, b) # s
        <5>1. tac_list[r].swap \in BOOLEAN
          <6>1. tac_list[r] \in TAC
            BY <1>4, <1>5 DEF Jumps
          <6> QED
            BY <6>1 DEF TAC
        <5> QED
          BY <1>2, <3>2, <5>1 DEF Exit
      <4>2. Joined(tac_list', Exit(tac_list, r, b)) <=> Joined(tac_list, Exit(tac_list, r, b))
        BY <1>2, <1>9, <2>2, <4>1
      <4>3. b \in look.several <=> b \in R.several
        BY <1>12, <3>2
      <4> QED
        BY <1>13, <2>2, <4>2, <4>3
    <3> QED
      BY <3>1, <3>2
  <2>4. ~ look.literal
    BY <1>12, <1>13
  <2> QED
    BY <1>2, <1>3, <1>7, <1>12, <2>3, <2>4 DEF LookFits
<1>18. LooksFit'
  <2> SUFFICES ASSUME NEW f \in 1 .. Depth - 1
               PROVE  LookFits(tac_list', stack'[f], shape'.open[f])
    BY <1>14 DEF LooksFit, Depth
  <2>1. f \in 1 .. Depth - 2 \/ f = Depth - 1
    BY <1>4
  <2> QED
    BY <1>14, <1>15, <1>16, <1>17, <2>1 DEF StackStep
<1>19. CellsApart'
  <2>1. ASSUME NEW p \in Heads'
        PROVE  p \in Heads /\ p # l
    <3>1. PICK f \in 1 .. Depth - 1 : /\ stack'[f].kind \notin {"else", "while"}
                                     /\ IsIf(tac_list', stack'[f].exp)
                                     /\ p = stack'[f].exp
      BY <1>14 DEF Heads, Conds, Depth
    <3>2. CASE f \in 1 .. Depth - 2
      <4>1. f \in 1 .. Depth /\ f # Depth - 1 /\ stack'[f] = stack[f]
        BY <1>4, <1>14, <3>2 DEF StackStep
      <4>2. f \in Conds /\ Depth - 1 \in Conds /\ stack[Depth - 1].exp = l
        BY <1>3, <1>4, <3>1, <4>1 DEF Conds, Under
      <4> QED
        BY <1>7, <3>1, <4>1, <4>2 DEF Heads, IInv, ExpsOK
    <3>3. CASE f = Depth - 1
      BY <1>2, <1>3, <1>14, <3>1, <3>3
    <3> QED
      BY <1>4, <3>2, <3>3
  <2>2. ASSUME NEW p \in Heads', NEW x \in {p, p + 1}
        PROVE  tac_list'[x].label = tac_list[x].label
    BY <1>8, <2>1, <2>2
  <2> QED
    BY <2>1, <2>2 DEF SourceInv, CellsApart
<1>20. LostShows'
  <2>1. Loses <=> Joined(tac_list, se)
    <3>1. \A n \in Arity : UsesValues(n) => ~ HoldsIf(n)
      BY <1>4, JoinNoUse DEF HoldsIf
    <3>2. Shared(k) <=> Joined(tac_list, se)
      BY <1>3 DEF Shared, Joined, Jumps
    <3>3. ASSUME NEW o \in {"and", "or"}, Join(o)
          PROVE  o = k
      BY <1>3, <3>3 DEF Join, Returned
    <3> QED
      BY <3>1, <3>2, <3>3 DEF Loses
  <2>2. (\E f \in Depth - 2 + 1 .. Depth : shape.open[f].chained) <=> L.chained \/ R.chained
    <3>1. Depth - 2 + 1 .. Depth = {Depth - 1, Depth}
      BY <1>4
    <3> QED
      BY <1>11, <3>1
  <2>3. \/ shape'.chained \/ shape'.dropped
        \/ Len(stack') = Depth - 2 + 1 /\ shape'.open[Depth - 2 + 1].chained
        <=>
        shape.chained \/ shape.dropped \/ Loses
        \/ \E f \in Depth - 2 + 1 .. Depth : shape.open[f].chained
    BY <1>4, <1>12, <1>13, <1>14, <1>15, <2>1, <2>2 DEF SameFlags
  <2> QED
    BY <1>4, <1>14, <1>15, <2>3, ShowsStep DEF SourceInv
<1>21. ShapeOK'
  BY <1>14, <1>15 DEF ShapeOK, Shapes, OpenStep, Depth
<1>22. ValuesStop'
  BY <1>3, <1>15 DEF SourceInv, ValuesStop, SameFlags
<1> QED
  BY <1>18, <1>19, <1>20, <1>21, <1>22 DEF SourceInv

-----------------------------------------------------------------------------
(* The generator stops: at the end, or on an operand that is a value. *)
LEMMA StopSource ==
  ASSUME IInv, SourceInv, NullCast \/ Finish, UNCHANGED shape, lost' = (lost \/ Loses)
  PROVE  SourceInv'
<1>1. UNCHANGED <<tac_list, label, stack>> /\ Depth \in Nat
  BY DEF NullCast, Finish, IInv, TypeOK, Depth
<1>2. ~ Loses
  BY NotLosing DEF NullCast, Finish
<1>3. lost' = lost
  BY <1>2 DEF IInv, TypeOK
<1>4. LooksFit' /\ ShapeOK' /\ LostShows'
  BY <1>1, <1>3 DEF SourceInv, LooksFit, LookFits, ShapeOK, LostShows, Depth, IsIf, Joined, Exit
<1>5. CellsApart'
  <2>1. Heads' = Heads
    BY <1>1 DEF Heads, Conds, Depth, IsIf
  <2> QED
    BY <1>1, <2>1 DEF SourceInv, CellsApart
<1>6. ASSUME NEW f \in 1 .. Depth, stack[f].kind \notin {"else", "while"},
             ~ IsIf(tac_list, stack[f].exp)
      PROVE  shape.open[f].literal
  BY <1>6, ShapeFacts DEF SourceInv, LooksFit, LookFits, Look
<1>7. ASSUME NEW i, IsIf(tac_list, i)
      PROVE  CanPatch(tac_list, i)
  BY <1>7 DEF IInv, IfHasGoto, CanPatch, IsIf, TypeOK
<1>8. ASSUME Finish
      PROVE  ValuesStop'
  BY <1>1, <1>8 DEF Finish, SourceInv, ValuesStop
<1>9. ASSUME \E k \in {"and", "or"} : Returned(k) /\ ~ CastsOK(k, Under.exp, Top.exp)
      PROVE  ValuesStop'
  <2>1. PICK k \in {"and", "or"} : Returned(k) /\ ~ CastsOK(k, Under.exp, Top.exp)
    BY <1>9
  <2>2. /\ Depth \in 1 .. Depth /\ Depth - 1 \in 1 .. Depth
        /\ stack[Depth].kind \notin {"else", "while"}
        /\ stack[Depth - 1].kind \notin {"else", "while"}
    BY <1>1, <2>1 DEF Returned, Top, Under
  <2>3. ~ (CanPatch(tac_list, Under.exp) /\ CanPatch(tac_list, Top.exp))
    BY <2>1 DEF CastsOK, CanPatch, SourceExit
  <2>4. shape.open[Depth].literal \/ shape.open[Depth - 1].literal
    BY <1>6, <1>7, <2>2, <2>3 DEF Top, Under
  <2> QED
    BY <1>1, <2>2, <2>4 DEF SourceInv, ValuesStop, Depth
<1>10. ASSUME TopIs({"if", "body"}), ~ CanPatch(tac_list, Top.exp)
       PROVE  ValuesStop'
  <2>1. /\ Depth \in 1 .. Depth /\ stack[Depth].kind \notin {"else", "while"}
        /\ stack[Depth] = Top
    BY <1>1, <1>10 DEF TopIs, Top
  <2>2. shape.open[Depth].literal
    BY <1>6, <1>7, <1>10, <2>1
  <2> QED
    BY <1>1, <2>1, <2>2 DEF SourceInv, ValuesStop, Depth
<1>11. ValuesStop'
  BY <1>8, <1>9, <1>10 DEF NullCast
<1> QED
  BY <1>4, <1>5, <1>11 DEF SourceInv

LEMMA InitSource ==
  ASSUME SInit
  PROVE  SourceInv
<1>1. /\ tac_list = << >> /\ stack = << >> /\ status = "running" /\ lost = FALSE
      /\ shape = [open |-> << >>, chained |-> FALSE, valued |-> FALSE, dropped |-> FALSE]
  BY DEF SInit, HInit, Init
<1>2. Depth = 0 /\ Conds = {} /\ Heads = {}
  BY <1>1 DEF Depth, Conds, Heads
<1>3. << >> \in Seq(Look) /\ Len(<< >>) = 0
  OBVIOUS
<1>4. ShapeOK
  BY <1>1, <1>2, <1>3 DEF ShapeOK
<1> QED
  BY <1>1, <1>2, <1>4 DEF SourceInv, LooksFit, CellsApart, LostShows, ValuesStop

(* Every step of the source is one of the translator. *)
LEMMA SourceIsTranslated ==
  ASSUME [SNext]_svars
  PROVE  [HNext]_hvars
<1>1. CASE SNext
  <2>1. 1 \in Arity /\ 2 \in Arity
    BY DEF Arity
  <2>2. Next
    BY <1>1, <2>1 DEF SNext, Next
  <2> QED
    BY <1>1, <2>2 DEF SNext, HNext
<1> QED
  BY <1>1 DEF svars

(***************************************************************************)
(* Every step preserves what the conditions of the source share.           *)
(***************************************************************************)
LEMMA NextSource ==
  ASSUME IInv, SourceInv, [SNext]_svars
  PROVE  SourceInv'
<1>1. CASE SNext
  <2>0. lost' = (lost \/ Loses)
    BY <1>1 DEF SNext
  <2>1. CASE \E n \in Arity : Value(n) /\ ComputesFrom(n, LiteralLook)
    BY <2>0, <2>1, ValueSource
  <2>2. CASE \E a \in Atoms, n \in Arity : Relop(a, n) /\ ComputesFrom(n, RelopLook)
    BY <2>0, <2>2, RelopSource
  <2>3. CASE Not /\ Returns(1, NotLook(LastLook))
    BY <2>0, <2>3, NotSource
  <2>4. CASE \E k \in {"and", "or"} : Connective(k) /\ UNCHANGED shape
    BY <2>0, <2>4, ConnectiveSource
  <2>5. CASE \E k \in {"and", "or"} :
               Join(k) /\ Returns(2, JoinLook(k, shape.open[Len(shape.open) - 1], LastLook))
    BY <2>0, <2>5, JoinSource
  <2>6. CASE \E n \in {0, 1}, m \in Marks : Write(m, n) /\ Drops(n)
    <3>1. PICK n \in {0, 1}, m \in Marks : Write(m, n) /\ Drops(n)
      BY <2>6
    <3>2. PICK c \in TAC : c = WriteCode(m) /\ c.op \notin {"IF", "GOTO"}
      BY Constructors DEF WriteCode
    <3>3. /\ Emit(<<c>>) /\ status' = "running" /\ stack' = Keep(Depth - n)
          /\ StmtUses(n) /\ UsesValues(n)
      BY <3>1, <3>2 DEF Write, Uses, UsesValues
    <3> QED
      BY <2>0, <3>1, <3>2, <3>3, StatementSource
  <2>7. CASE \E n \in {0, 1} : Return(n) /\ Drops(n)
    <3>1. PICK n \in {0, 1} : Return(n) /\ Drops(n)
      BY <2>7
    <3>2. PICK c \in TAC : c = ReturnCode /\ c.op \notin {"IF", "GOTO"}
      BY Constructors DEF ReturnCode
    <3>3. /\ Emit(<<c>>) /\ status' = "running" /\ stack' = Keep(Depth - n)
          /\ StmtUses(n) /\ UsesValues(n)
      BY <3>1, <3>2 DEF Return, Uses, UsesValues
    <3> QED
      BY <2>0, <3>1, <3>2, <3>3, StatementSource
  <2>8. CASE ExpStmt /\ Drops(1)
    BY <2>0, <2>8, ExpStmtSource
  <2>9. CASE IfCond /\ UNCHANGED shape
    BY <2>0, <2>9, IfCondSource
  <2>10. CASE Else /\ Consumes(Append(Below(1), NoLook))
    BY <2>0, <2>10, ElseSource
  <2>11. CASE WhileStart /\ Opens(NoLook)
    BY <2>0, <2>11, WhileStartSource
  <2>12. CASE WhileCond /\ Returns(2, LastLook)
    BY <2>0, <2>12, WhileCondSource
  <2>13. CASE IfEnd /\ Consumes(Below(1))
    BY <2>0, <2>13, IfEndSource
  <2>14. CASE ElseEnd /\ Closes
    BY <2>0, <2>14, ElseEndSource
  <2>15. CASE WhileEnd /\ Consumes(Below(1))
    BY <2>0, <2>15, WhileEndSource
  <2>16. CASE (NullCast \/ Finish) /\ UNCHANGED shape
    BY <2>0, <2>16, StopSource
  <2>17. CASE Operand /\ UNCHANGED shape
    BY <2>0, <2>17, OperandSource
  <2>18. CASE Assign(1) /\ UNCHANGED shape
    BY <2>0, <2>18, AssignSource
  <2>19. CASE Assign(2) /\ Drops(1)
    BY <2>0, <2>19, AssignElementSource
  <2> QED
    BY <1>1, <2>1, <2>2, <2>3, <2>4, <2>5, <2>6, <2>7, <2>8, <2>9, <2>10, <2>11,
       <2>12, <2>13, <2>14, <2>15, <2>16, <2>17, <2>18, <2>19 DEF SNext
<1>2. CASE UNCHANGED svars
  <2>1. UNCHANGED <<tac_list, stack, status, lost, shape>>
    BY <1>2 DEF svars, hvars, vars
  <2>2. ShapeOK'
    BY <2>1 DEF SourceInv, ShapeOK, Depth
  <2>3. LooksFit'
    BY <2>1 DEF SourceInv, LooksFit, LookFits, Depth, IsIf, Joined, Exit
  <2>4. CellsApart'
    <3>1. Heads' = Heads
      <4>1. Conds' = Conds
        BY <2>1 DEF Conds, Depth
      <4> QED
        BY <2>1, <4>1 DEF Heads
    <3> QED
      BY <2>1, <3>1 DEF SourceInv, CellsApart
  <2>5. LostShows'
    BY <2>1 DEF SourceInv, LostShows, Depth
  <2>6. ValuesStop'
    BY <2>1 DEF SourceInv, ValuesStop, Depth
  <2> QED
    BY <2>2, <2>3, <2>4, <2>5, <2>6 DEF SourceInv
<1> QED
  BY <1>1, <1>2

(***************************************************************************)
(* The jumps of every open condition share cells as its source says.       *)
(***************************************************************************)
THEOREM SourceInvariance == SSpec => [](IInv /\ SourceInv)
<1>1. SInit => IInv /\ SourceInv
  BY InitSource, InitIInv DEF SInit
<1>2. IInv /\ SourceInv /\ [SNext]_svars => (IInv /\ SourceInv)'
  BY NextSource, NextIInv, SourceIsTranslated
<1> QED
  BY <1>1, <1>2, PTL DEF SSpec

(***************************************************************************)
(* An exit is lost in exactly the programs that have a left-nested chain   *)
(* of && or of ||, or a condition that is used as a value: as an operand,  *)
(* an argument or an index, in a WRITE or a RETURN, or as a statement,     *)
(* stored in a variable before or not.                                     *)
(***************************************************************************)
THEOREM LossesAreInTheSource == SSpec => []LostIffChained
<1>1. IInv /\ SourceInv => LostIffChained
  <2> SUFFICES ASSUME IInv, SourceInv, Done
               PROVE  lost <=> shape.chained \/ shape.dropped
    BY DEF LostIffChained
  <2>1. Depth = 0
    BY DEF IInv, DoneOK, Done
  <2>2. ~ \E f \in 1 .. Depth : shape.open[f].chained
    BY <2>1
  <2> QED
    BY <2>2 DEF SourceInv, LostShows
<1> QED
  BY <1>1, SourceInvariance, PTL

(***************************************************************************)
(* No program with a value where a condition is needed is translated to    *)
(* the end, and no other one makes the translator die.                     *)
(***************************************************************************)
THEOREM OnlyValuesStop == SSpec => []ValuesAreNoConditions
<1>1. IInv /\ SourceInv => ValuesAreNoConditions
  <2> SUFFICES ASSUME IInv, SourceInv
               PROVE  ValuesAreNoConditions
    OBVIOUS
  <2>1. DOMAIN shape.open = 1 .. Depth
    BY ShapeFacts DEF SourceInv
  <2> QED
    BY <2>1 DEF SourceInv, ValuesStop, ValuesAreNoConditions
<1> QED
  BY <1>1, SourceInvariance, PTL

=============================================================================
