------------------------------- MODULE Scopes -------------------------------
(***************************************************************************)
(* What the symbol tables of project 2 promise: nested scopes.             *)
(*                                                                         *)
(* A scope maps each name to the type of its first declaration there.      *)
(* Names are resolved from the innermost scope outwards; a variable hides  *)
(* the functions of its name.  Functions are global, overloaded by their   *)
(* parameter types, and known once their definition is complete.           *)
(***************************************************************************)
EXTENDS Integers, FiniteSets, Sequences

CONSTANTS
  Names, SNames,
  Types,        \* the types that declarations give
  Lists,        \* the lists of [name, type] that are declared together
  Signatures,   \* the lists of parameter types
  EMPTY_TYPE    \* the type of what was not found

VARIABLES
  scopes,    \* the open scopes, innermost last, each [Names -> declared type]
  structs,   \* the same for structures, with a global scope in front
  funs,      \* [Names -> Seq([args, type])], the overloads by age
  request,   \* what the program asked or declared last
  reply      \* the codes reported for that, and the type found

vars == <<scopes, structs, funs, request, reply>>

Undeclared == [kind |-> "UNDECLARED"]

Blank(S) == [n \in S |-> Undeclared]

Reply(codes, type) == [codes |-> codes, type |-> type]

Innermost(stack, n) ==
  LET holding == {l \in DOMAIN stack : stack[l][n] # Undeclared}
  IN  IF holding = {} THEN Undeclared
      ELSE stack[CHOOSE l \in holding : \A h \in holding : h <= l][n]

Init ==
  /\ scopes = << >>
  /\ structs = <<Blank(SNames)>>
  /\ funs = [n \in Names |-> << >>]
  /\ request = <<"nothing">>
  /\ reply = Reply(<< >>, EMPTY_TYPE)

-----------------------------------------------------------------------------
(* The first declaration of each name counts, every other one is reported. *)
Declares(scope, list) ==
  LET mine(n) == {i \in DOMAIN list : list[i].name = n}
  IN  [n \in Names |->
         IF scope[n] # Undeclared \/ mine(n) = {} THEN scope[n]
         ELSE list[CHOOSE i \in mine(n) : \A j \in mine(n) : i <= j].type]

Repeated(scope, list) ==
  {i \in DOMAIN list : \/ scope[list[i].name] # Undeclared
                       \/ \E j \in 1 .. i - 1 : list[j].name = list[i].name}

Codes(code, n) == [i \in 1 .. n |-> code]

Declare(list) ==
  LET top == Len(scopes)
  IN  /\ request' = <<"declare", list>>
      /\ top > 0
      /\ scopes' = [scopes EXCEPT ![top] = Declares(@, list)]
      /\ reply' = Reply(Codes(3, Cardinality(Repeated(scopes[top], list))), EMPTY_TYPE)
      /\ UNCHANGED <<structs, funs>>

(* A scope is opened, with the parameters of its function declared in it. *)
Enter(list) ==
  /\ request' = <<"enter", list>>
  /\ scopes' = Append(scopes, Declares(Blank(Names), list))
  /\ structs' = Append(structs, Blank(SNames))
  /\ reply' = Reply(Codes(3, Cardinality(Repeated(Blank(Names), list))), EMPTY_TYPE)
  /\ UNCHANGED funs

Left(stack) == SubSeq(stack, 1, Len(stack) - 1)

Leave ==
  /\ request' = <<"leave">>
  /\ scopes # << >>
  /\ scopes' = Left(scopes)
  /\ structs' = Left(structs)
  /\ reply' = Reply(<< >>, EMPTY_TYPE)
  /\ UNCHANGED funs

(* A function is complete: its scope is left, then it is known by its name. *)
LeaveFunction(n, args, type) ==
  /\ request' = <<"leave function", n, args, type>>
  /\ Len(scopes) = 1
  /\ scopes' = << >>
  /\ structs' = Left(structs)
  /\ funs' = [funs EXCEPT ![n] = Append(@, [args |-> args, type |-> type])]
  /\ reply' = Reply(IF \E i \in DOMAIN funs[n] : funs[n][i].args = args
                    THEN <<4>> ELSE << >>, EMPTY_TYPE)

(* A structure is complete: it is declared in the scope around its own. *)
LeaveStructure(s, type) ==
  LET around == Len(scopes)
  IN  /\ request' = <<"leave structure", s, type>>
      /\ scopes # << >>
      /\ scopes' = Left(scopes)
      /\ structs' = [Left(structs) EXCEPT ![around][s] = IF @ = Undeclared THEN type ELSE @]
      /\ reply' = Reply(IF structs[around][s] = Undeclared THEN << >> ELSE <<15>>, EMPTY_TYPE)
      /\ UNCHANGED funs

-----------------------------------------------------------------------------
(***************************************************************************)
(* Requests.  Matching(n, args) are the overloads a call may mean; without *)
(* one, the type of the youngest overload is given with the error.         *)
(***************************************************************************)
Matching(n, args) == {i \in DOMAIN funs[n] : funs[n][i].args = args}

FunctionType(n, args) ==
  IF Matching(n, args) # {}
  THEN funs[n][CHOOSE i \in Matching(n, args) : \A j \in Matching(n, args) : i <= j].type
  ELSE IF funs[n] # << >> THEN funs[n][Len(funs[n])].type ELSE EMPTY_TYPE

AskVariable(n) ==
  /\ request' = <<"variable", n>>
  /\ reply' = LET found == Innermost(scopes, n)
              IN  IF found # Undeclared THEN Reply(<< >>, found)
                  ELSE Reply(IF Matching(n, << >>) # {} THEN << >>
                             ELSE IF funs[n] # << >> THEN <<9>> ELSE <<1>>,
                             FunctionType(n, << >>))
  /\ UNCHANGED <<scopes, structs, funs>>

AskCall(n, args) ==
  /\ request' = <<"call", n, args>>
  /\ reply' = Reply(IF Innermost(scopes, n) # Undeclared THEN <<11>>
                    ELSE IF Matching(n, args) # {} THEN << >>
                    ELSE IF funs[n] # << >> THEN <<9>> ELSE <<2>>,
                    FunctionType(n, args))
  /\ UNCHANGED <<scopes, structs, funs>>

AskStructure(s) ==
  /\ request' = <<"structure", s>>
  /\ reply' = LET found == Innermost(structs, s)
              IN  IF found = Undeclared THEN Reply(<<14>>, EMPTY_TYPE)
                  ELSE Reply(<< >>, found)
  /\ UNCHANGED <<scopes, structs, funs>>

(* What the checker says of types has nothing to do with scopes. *)
TypeErrors == {5, 6, 7, 8, 10, 12, 13, 14}

JudgeTypes ==
  /\ request' = <<"nothing">>
  /\ reply' \in {Reply(<< >>, EMPTY_TYPE)} \union {Reply(<<code>>, EMPTY_TYPE) : code \in TypeErrors}
  /\ UNCHANGED <<scopes, structs, funs>>

Next ==
  \/ JudgeTypes
  \/ \E n \in Names : AskVariable(n) \/ \E args \in Signatures : AskCall(n, args)
  \/ \E s \in SNames : AskStructure(s)
  \/ Leave
  \/ \E n \in Names, args \in Signatures, type \in Types : LeaveFunction(n, args, type)
  \/ \E s \in SNames, type \in Types : LeaveStructure(s, type)
  \/ \E list \in Lists : Declare(list) \/ Enter(list)

Spec == Init /\ [][Next]_vars

=============================================================================
