# Verification of the CS323 compiler coursework

This directory holds TLA+ models of the parts of this repository that keep
state over many steps: the intermediate-code generator of project 3, the
semantic checker of project 2, the reader and the back end of project 4, and
the data structures of labs 1, 5 and 8. It says what is modelled, what TLC
checks on small instances and what TLAPS proves for every instance.

## 1. The system

The repository is a set of sequential batch programs: a program reads a source
file, walks its syntax tree once, prints and ends. There are no threads, no
messages, no timeouts and nothing is persisted. What is hard is elsewhere:
recursive walks that leave something for later (a jump to patch, a scope to
close), tables that several paths extend and prune, references to objects that
a later step changes, and a few uses of memory whose result depends on the
build.

| Component | State it keeps | Operations | Talks to |
|---|---|---|---|
| project3 `tac_ir.cpp`, control flow | `tac_list` (the code so far), label cells shared by jumps, the chain of open calls | one per grammar production; `back_patch`, `back_loop_patch` | called by `main` with the parsed tree; prints the code |
| project3 `tac_ir.cpp`, data | `name_to_addr`, temporaries, `Structure` layout | expressions, arrays, members, arguments, calls | same list of instructions as the control half |
| project3 `semantic.cpp` | `strc_map`, the fields of the structures | registration, `get_offset` | asked by the data half for offsets |
| project2 symbol tables | `var_map`, `structure_map`, `global_scope_level` | `GetVariable`, `GetLocalVariable`, `GetStructure`, `GetLocalStructure`, `UpdateVariable`, `UpdateStructure`, `PushScope`, `PopScope` | called by the checker |
| project2 semantic checker | the open calls of the walk, the types they return | one `Process...` function per nonterminal | reads and extends the tables; prints the errors |
| project1, 2, 3 parsers and lexers | the tree | grammar actions, error productions | hand the tree to the checker or generator |
| project4 `tac.c` | a doubly linked list of instructions read back from text | one parser per shape of line, `tac_append`, `tac_insert`, `tac_print` | reads what project 3 prints, hands the list to `mips32.c` |
| project4 `mips32.c` | where its walk over the list is; descriptors of registers and variables (unused) | one emitter per instruction | prints assembly |
| lab1 linked list | list with a counter in its head | insert, delete, remove, get, search | - |
| lab5 symbol tables | a list, a search tree (a hash table is empty) | insert, lookup, remove | - |
| lab8 JSON key checker | the JSON tree | `checkValue` | - |
| lab2, 3, 4, 6, 12 | - | lexers, small grammars, type definitions, demonstrations | - |

What makes each part correct:

- *control flow*: every jump that was emitted is patched with a label that is
  printed, nested patches do not disturb each other, and the code does what the
  source says;
- *symbol tables*: the flat tables behave as nested scopes;
- *semantic checker*: no error is swallowed, what is reported is what the
  message says, types outlive the variables that have them;
- *data half*: an operand denotes the value the source means when it is used,
  addresses of elements are those of the row-major layout, arguments arrive at
  their parameters;
- *project 4*: the list is the lines, forwards and backwards; every
  instruction reaches its emitter, once and in order; the walks end;
- *projects 3 and 4 in a row*: what the one prints is what the other reads;
- *lab 1 and 5*: the structures implement a sequence and a map;
- *lab 8*: what is accepted has no key twice.

`PROJECT.json` lists every component and, under "hazards", each place of the
code where one of these can go wrong.

## 2. Project 3: control flow

### Modules

| Module | What it is |
|---|---|
| `TacList` | The instructions (`IfCode`, `GotoCode`, `LabelCode`, ...), the label cells, `new_label` (`Placeholder`) and `back_patch` (`Patched`). |
| `ControlGen` | The generator: one action per production of the grammar that has to do with control. |
| `ControlHist` | The properties of the list of instructions, over one history variable: `lost`, whether an exit has been left behind that nothing will patch, by a connective or because a condition was used as a value. `IInv` is the inductive invariant. |
| `ControlSource` | Two histories of the source, its trees and the "look" of its open conditions, and what can be said of a translation from the source alone. `SourceInv` is the inductive invariant. |
| `ControlSem` | What the source means and what the code does, as two interpreters that are compared when a translation ends. |
| `ControlProofs` | The theorems. |
| `MCControl` | Instances for TLC. |

The generator is a recursive walk. A call of `translate_Exp` or
`translate_Stmt` that waits for a recursive call keeps what it has in locals;
`stack` holds one frame per such call, with these locals as fields, and an
action is the code between two recursive calls. Because the actions are enabled
whenever the code before a recursive call is, the model walks through *every*
syntax tree, one branch per production, and the state graph contains the
translations of all programs within the bounds.

The grammar lets any expression be an operand of any other. `translate_Exp`
returns the index of an instruction, of a comparison's IF or of an assignment,
and does not say which; so `a < b` may be the right side of an assignment, an
argument, an index, an operand of arithmetic or of another comparison, or what is
written or returned. The model admits all of these. An expression that has code
of its own and is not the last operand becomes an `"operand"` frame; `Value` is
arithmetic, a call, an array element or a literal over up to two such operands,
`Relop` a comparison of up to two, and `Assign`, `Write`, `Return` and `ExpStmt`
take theirs from the stack as well. An operand without code is an identifier.
Nothing patches the jumps of a condition in these places: it is `dropped`.

`back_patch(addr, truelabel, falselabel)` takes the instruction at `addr` for
an `IfCode` and the next one for a `GotoCode`; if a cast fails it dereferences a
null pointer, which is the action `NullCast` and `status = "crashed"`. A jump
does not hold a label but a pointer to one. AND and OR make two jumps share a
cell, so that a later patch of one patches the other: `label` is the sequence of
cells, and a jump holds an index into it. A new cell holds a placeholder, the
default argument of `new_label`. By accident that number often is the label the
jump needs (the GOTO of a comparison is followed by the label of what comes
next), which hides a forgotten patch from a test and from a property on the
printed numbers alone. The model therefore keeps placeholders as negative
numbers: `Number` is what is printed, and `Resolved` asks for a cell that was
assigned. The history variable and the sign influence no action.

`TAC::TAC()` in `tac_ir.hpp` assigns a *local* named `is_swap`; the member that
`back_patch` reads stays uninitialised. The constant `FreshSwap` is the set of
values it may start with. `FreshSwap = {FALSE}` is the instance in which fresh
memory is zero, as it mostly is in a process that frees nothing, and in which the
compiler passes its own tests; `{FALSE, TRUE}` is what the language allows.

### Runs

| Run | Bounds | Shows |
|---|---|---|
| `control_conditions` | 10 instructions, of which 2 are neither jumps nor labels (`FewStraight`), one comparison in any number, `not`, connectives, `if`, and every use of a condition as a value: operands, assignments, `write`, `return`, statements | the inductive invariant `IInv`, `LostIffChained`, `RunsLikeSourceIffUnchained`, `CrashNeedsNonCondition` |
| `control_loops` | 12 instructions, 5 evaluated comparisons, two comparisons, one of them with a literal, connectives, loops, `if`, `else`, literals as conditions | `TypeOK`, `NoJumpForgotten`, `LabelsDefined`, `CodeRunsLikeSource`, `ValuesAreNoConditions` |
| `control_chain` | 11 instructions, two comparisons, connectives, `if` | violates `ConnectivesJoinExits` |
| `control_fresh_swap` | a plain `if` | violates `PlainConditionsWork` |

A bound on instructions bounds the whole program, as every production but the
empty ones emits. Ten are enough for a connective of three comparisons on either
side and a statement, and for a comparison of comparisons, or one that is stored,
as the condition of a statement; twelve for an IF with ELSE inside another or in a loop, and,
with five evaluated comparisons, for three rounds of a loop whose condition is a
connective. The semantic runs compare the comparisons that are evaluated, the
writes and the return of source and code for every sequence of truth values.

All combinations of the flags that `not` sets are in `control_conditions` only:
`control_loops` has no `not`, and with `FreshSwap = {FALSE}` its flags stay
cleared. `FreshSwap = {FALSE, TRUE}` is the subject of `control_fresh_swap`; the
theorems hold for both.

What they show: with cleared `is_swap`, a translation in which no exit is lost
is correct. An exit is lost exactly

- when the left operand of a connective has more than one exit of the kind that
  is re-pointed (`a && b && c` as the parser groups it, `(a && b) && c`), or
- when a condition is used as a value: as an operand (`(a < b) < c`), in an
  assignment (`x = a < b`), in `write` or `return`, or as a statement.

In the first case the code of a program without ELSE and without conditions as
values always differs from the source; behind an ELSE the placeholder of the
forgotten jump can be the right number by accident. In the second case the jumps
keep their placeholders; how such a program runs is not compared, as the
interpreters have no values.

### Proofs

`ControlProofs` proves, for every set of comparisons, every bound and every
initial value of `is_swap` (`FreshSwap`):

- `Invariance`: `HSpec => []IInv`
- `TypeCorrect`: `HSpec => []TypeOK`
- `NothingForgotten`: `HSpec => []NoJumpForgotten`
- `PrintedLabelsDefined`: `HSpec => []LabelsDefined`
- `CrashCause`: `HSpec => CrashNeedsNonCondition`
- `SourceInvariance`: `SSpec => [](IInv /\ SourceInv)`
- `LossesAreInTheSource`: `SSpec => []LostIffChained`
- `OnlyValuesStop`: `SSpec => []ValuesAreNoConditions`

The assumptions are those named in `TacList` and `ControlGen` (the bounds are
natural numbers, `FreshSwap` is a set of Booleans). `NoJumpForgotten` is not
inductive: that a jump is still going to be patched depends on the locals of the
open calls. `IInv` adds what holds of them: an IF is followed by its GOTO
(`IfHasGoto`); a frame that holds an expression holds the index of an IF or of an
assignment, and no two frames the same one (`ExpsOK`), so that patching one
condition leaves the others alone; the labels and jumps that frames hold are
labels and jumps (`MarksOK`); only the innermost frame is a result (`ResultOK`).
One lemma per action shows that it
preserves `IInv`, with one step per conjunct that it can disturb; lemmas on
appending an instruction and on `Patched` carry most of it.

`LostIffChained` relates the program to the cells of its jumps, and its invariant
has to say which jumps share one at any time. A look is computed from the leaves
of a condition upwards; `LooksFit` says that it is right: the exit of an open
condition for an outcome shares its cell with another jump exactly when several
comparisons can end the condition with that outcome (`several`), and that the
frame holds an IF exactly when the tree is a condition, so that a condition used
as a value is seen in the source (`dropped`) just when its IF is left behind. That is true of
a comparison, whose IF and GOTO have fresh cells, is turned round by NOT, and
survives AND and OR because `CellsApart` keeps the cells of different open
conditions apart, so that re-pointing an exit of one operand to one of the other
joins exactly the two groups. An exit is then left behind exactly where the
re-pointed one shared its cell (`LostShows`). `ValuesStop` is the same for
literals: the cast that fails is the one of a literal that an open call holds.

The interpreters in `ControlSem` are recursive, so `CodeRunsLikeSource` and
`RunsLikeSourceIffUnchained` stay with TLC.

## 3. Project 3: data

### Modules

| Module | What it is |
|---|---|
| `DataTac` | The instructions that move data, one constructor per class, and the layout of arrays and structures. |
| `DataGen` | The generator: what each call of `translate_Exp` does, one operator per other `translate_...` function, one action per definition, statement or brace. |
| `DataTree` | From a syntax tree to the recursive calls of `translate_Exp`, in their order. |
| `DataHist` | The well-formed programs; scopes, types and the known flaws, as histories; the properties of tables and code. |
| `DataSem` | What the source means and what the code does, as two interpreters that are compared. |
| `Iteration` | A loop over a sequence, and the theorem that it has a state after each element. |
| `DataProofs` | The theorems. |
| `Handover` | The text the instructions are printed as, and what project 4 (`Ir`, below) makes of it. |
| `MCData` | The families of programs. |

Unlike the control half, an expression leaves nothing for a later statement, so
one action translates a whole expression. `translate_Exp` is a recursive walk,
but each call does its own work behind the calls it makes, except in the loops
along an access, where it works between them. So the walk is a sequence of
*visits*: a visit `[op, single, name, number, parts]` is the work of one call (or
of one turn of such a loop), and `parts` are the positions of the earlier visits
whose results it takes. `DataTree` turns a tree into its visits in the order of
the source; `Visited` is what one of them appends, registers or patches; and
`translate_Exp` is a fold of `Visit` over the sequence. This is the recursion of
the source without RECURSIVE operators, which a proof cannot use. `IsVisit` says
which sequences are walks along a tree, and the assumptions on the constants ask
for nothing else. The operators take and return the generator `g`: `tac_list`,
`name_to_addr` and whether a `dynamic_cast` has failed. `status = "crashed"` is
such a failure, whose null pointer the code then dereferences.

`DNext` admits the well-formed programs: what is used is declared, types fit,
functions end with a return and are defined before they are called. `scopes` is
a history of the declarations in sight, `stale` of the names that a closed scope
has left in `name_to_addr`. `flaws` is the history of the constructions that the
generator gets wrong or does not support, each defined on the source:

| Flaw | Source | Code |
|---|---|---|
| `late` | an operand that is a variable, which a later part of the expression assigns to | its instruction is read when the whole is: `tac_ir.cpp:174, 265-283, 596` |
| `paren` | a left side in parentheses | translated as a value; its declaration is patched: `tac_ir.cpp:180` |
| `access` | partial subscripts, members of members, structures in arrays | wrong offset, or a failed cast: `tac_ir.cpp:286-369` |
| `array` | an array or structure behind another argument | passed by value, the test is inverted: `tac_ir.cpp:597` |
| `scope` | a name after the scope that redeclared it was closed | `name_to_addr` has no scopes: `tac_ir.cpp:158, 527` |
| `global` | a global variable behind the first of its declaration | it has no instruction: `tac_ir.cpp:712-723` |

### Runs

`data_values` has one profile for each part of the language, so that each can
have as many items as it needs:

| Profile | Items | Programs of |
|---|---|---|
| `operands` | 3 | two variables, assignments inside differences, parentheses, `read`, negation |
| `scopes` | 5 | nested blocks that declare one name again, with and without initialiser |
| `elements` | 3 | an array of 2 by 3, subscripts that are variables or assignments |
| `members` | 5 | two structures, one with an array as a field; members, partial and chained accesses |
| `calls` | 6 | a function of two scalars, of an array and a scalar, of a scalar and an array |
| `records` | 7 | a function of a structure and a scalar |
| `globals` | 5 | lists of one and two global variables, an array |

An item is a function, a statement, a brace or a list of global variables; local
definitions come on top of them, at most one of a name in each block. Five items are
enough for a function with an inner block that redeclares a name, and a use
behind it; six for a function, its end, and a `main` that calls it. The properties:

- `CodeComputesSource`: without a flaw and without global variables, the
  code writes what the source writes. The interpreter of the code gives every
  call variables of its own and lets `PARAM` take the latest `ARG`, which is how
  the expected outputs of `test/` use the IR; offsets outside of a block and
  variables without value are errors, so a wrong address does not go unseen.
- `OperandsDefined`: an operand is written earlier in the same function, even
  where an assignment patches an instruction that is already in the list.
- `CrashNeeds`: only `paren`, `access` and a name that does not stand for its
  declaration (`scope`, `global`) make a cast fail.
- `NamesFollowScopes`: a visible name stands for its declaration exactly until an
  inner declaration of it is left. This is the exact effect of the missing scopes.
- `GlobalsKnown`: only the second and later globals of a list are without an
  instruction.
- `OnlyAppends`: unless a left side is in parentheses, no step changes an
  instruction of an earlier one.
- `TranslatedIffUnaddressed`: project 4 reads every line, and its back end gets to
  the end exactly of the programs that take no address and scale no subscript. So
  a call with two scalars stops it, since the generator takes the address of
  the second for nothing. Programs with the flaws `access` and `scope` are left
  out.

### Proofs

Everything here holds for every set of names, every family of programs, every
length of a program and every nesting of blocks and expressions. The assumptions
on the constants (`StructsAssumption` to `StmtsAssumption`) say what the grammar
says: expressions are walks along a tree (`IsVisits`), declared names are
distinct, "int" names no structure.

| Theorem | States |
|---|---|
| `KnownHolds` | `[]Known`, the inductive invariant |
| `TablesKeepTheirTypes` | `[]TypeOK` |
| `NamesFollowTheirScopes` | `[]NamesFollowScopes` |
| `OnlyTailsAreUnknown` | `[]GlobalsKnown` |
| `InstructionsAreAppended` | `OnlyAppends` |
| `OperandsAreDefined` | `[]OperandsDefined` |
| `OnlyFlawsCrash` | `[]CrashNeeds` |

*A walk.* `Iteration` proves, for any body of a loop, that a fold has a state in
front of it and one after each element. With it `Reached` is carried from visit
to visit: the generator has only moved on (`Moved`: no instruction is lost, one
that is patched keeps its class and target, no function begins, a name changes
only from unknown to new), the results are instructions that exist, the variable
at the start of an access has a layout, and the target of an assignment is an
instruction of this expression that can be patched and is younger than the
results before it. The last part is why an assignment patches nothing older
(`OnlyAppends`), and it fails exactly for a left side in parentheses.

*A program.* `NamesFollowScopes` is not inductive: when a block is left, the
outer variable of a name comes into sight again, and whether the name stands for
it depends on what it stood for all along. `Known` therefore says of every
declaration, hidden or not (`Fits`): its instruction declares a variable of its
kind with its sizes and, but for globals, no function begins behind it; the name
stands for this instruction just if no inner declaration is open and none has
been closed since. A declaration without an instruction is a global one behind
the first of its list, and remains one. There is a lemma per action (`StructStep`
to `StmtStep`), and below them one for scopes that open (`OpensFit`), get
declarations (`DeclaresFit`), stay (`KeepsFit`) or close (`ClosesFit`).

*Operands.* `OperandsDefined` is strengthened to `Operands`: as long as only the
flaws `late` and `access` have occurred, every instruction is `Good`, that is,
each variable it reads is defined by an earlier instruction of the same function
(`LiveAt`), and one that a `DEC` defines is read by an `ADDRESS` only. This is
false inside of a walk, where an assignment is in the list before its source is
known and reads variable 0 (`tac_ir.cpp:158-191`). `Sound` says what holds there:
all instructions are good but that one (`Pending`), and the result of a visit is
an own variable of the function, which is the name of a block only at a bare name
(`Holds`). That a block never gets into an operand follows from types, which
the generator does not have: `Fitting` relates the walk to the types of
`DataHist`, visit by visit. `VisitSound` carries `Sound` over a visit, and there is
one lemma for each kind of it.

*Crashes.* `CrashNeeds` needs that a walk without the flaws `paren`, `access`,
`scope` and `global` (`Steady`) never fails a cast (`Lives`). There are three
casts: the instruction that an assignment patches is one of its own (`Reached`,
from above); a name stands for an instruction (`Known`); and the variable of an
access has a layout with enough sizes, since the step behind it only has a type
if that variable is an array or a structure (`StartsAt`), and each subscript
takes one size from the type (`SubscriptsShrink`).

## 4. Project 2: the semantic checker

### Modules

| Module | What it is |
|---|---|
| `SymbolTable` | Types, `check_type`, and the functions on the two multimaps as operators. |
| `Semantic` | The walk: one action per piece of `Process...` between two recursive calls. |
| `Scopes` | Abstract specification: nested scopes, each a map from names to the type of their first declaration, functions apart; with the last request and the answer to it. |
| `SemanticScopes` | Two histories, of the names that were declared and of what the program asked last; the invariants of the tables and the refinement mapping. |
| `SemanticTypes` | What the checker lets pass. |
| `SemanticProofs` | Lemmas on the operators of `SymbolTable` (insertion order, the loop of `GetVariable`, `GetStructure`, `PopScope`); the inductive invariant `IInv`, and what each step does to the tables. |
| `CheckerProofs` | The theorems on the tables, the refinement of `Scopes`, and the theorems on `SemanticTypes`. |
| `MCScopes`, `MCTypes` | Instances for TLC. |

The tables are flat: an entry has the level of its scope, `PopScope` erases the
entries of the current level, and lookups take the deepest entry. A multimap is
modelled as a set of entries; `seq`, the insertion number, is the order in which
`find` and `++` give the entries of one name. `UpdateVariable` inserts a
redefinition too, as `SemanticErrorReport` returns true in every case.

`stack` holds the open calls that own a scope or a list, `vals` the types that
the finished calls of `ProcessExp` in one expression returned, and `reply` what
the last piece of code printed and the type it was told. IF keeps nothing: its
condition is an expression statement and its branches are statements. Global
variables leave no trace because `ProcessExtDecList` has an empty body.

`check_type` compares each side with `EMPTY_TYPE` by a virtual operator; for
an array that operator casts its argument to `CArray&` and throws, which
nothing catches: `Throws`, and the action `Die`. A parameter may be an array
too, and then no call of its function gets past the comparison of its argument.

The loops of `PopScope` erase the node of the iterator and then increment it.
`PopOutcomes` names what that undefined behaviour may do: `"exact"` erases
the level (the outcome the expected outputs under `test/` need), `"skip"` steps
over an entry whose predecessor was erased (possible when the freed node had two
children and its memory still holds the old pointers), `"crash"` follows an
overwritten pointer. `SteppedOver` abstracts from the shape of the tree: it
allows a superset of what one tree allows. The properties are checked under
`"exact"`, and `scopes_skip` shows what `"skip"` breaks.

### Runs

| Run | Bounds | Shows |
|---|---|---|
| `scopes_nested` | two variable or function names, one structure name, three parameter types, 4 entries, 4 open calls, lists of 2; with structures one name and 3 entries (`FewStructures`, `SecondName`) | `TypeOK`, `TableOK`, `ImplementsScopes`, `RedefinedInSameScope` for variables, structures, parameters, overloads, calls, blocks and loops |
| `scopes_skip` | three names, 6 entries, `"skip"` allowed | violates `RedefinedInSameScope` |
| `types_all` | every production but `while`, 4 entries, 4 open calls, 2 operands, `"crash"` allowed | `EmptyMeansReported`, `LiveTypes`, `DiesOfArrays`, `MixedUpIsShadowed` |

Two names tell an answer about the name that was asked for from one about another
name. They need not meet a structure: every search is restricted to the entries
of one name, and a state constraint, `FewStructures`, keeps programs with
structures to one name and three entries, which is a structure, one that shadows
it and a variable of either. The names are interchangeable but for the
parameters, so name 2 is declared only while name 1 is (`SecondName`). Four entries give a function with a parameter, a
variable that shadows it and a second function, or two overloads and two
variables. Four open calls are a declaration inside a block inside a function, or
inside a structure inside a function. A second primitive type and arrays of the
first, which only parameters have in `scopes_nested`, and the structures tell a
shadowed variable from the one that shadows it, and one overload from another;
structures are told apart by the names of their members.
`PlainTypes` of `types_all` are all types without arrays that four declarations
can build.

`ImplementsScopes` gives `Scopes!Spec` under the mapping of `SemanticScopes`:
the entries of each level become one scope, the functions become a list of
overloads. The state of `Scopes` has the request as well as the reply: `asked` is
a history of what the source text says at each step (the name that is used, the
name and the argument types that are called, the list that is declared, the
function or structure that ends, or nothing that concerns scopes), and the
mapping gives it to `request`. No name, kind or argument type is free, then: the
checker must give, for what the program asked, the answer that nested scopes give
for that, so that level arithmetic, table order, overload resolution and pruning
are right together. Two abstractions are left. Types are compared as outlines (a
structure with the names of its members, not their types), and the type of a
declaration in a request is the one its specifier was answered with. Argument
types that no parameter list has are all alike, since they fit no function.

`TableOK` says why: the level is the number of open scopes, no entry of a closed scope is left, and younger entries are never further out.

Two properties bound what a weak comparison of types can do. `DiesOfArrays`: the
exception that kills the checker needs an array in the table: a variable in
scope, a member of one or a parameter of a function. An array that only an
operand, a structure or an open call still has from a closed scope does not
suffice.
`MixedUpIsShadowed`: structures are equal when their names are, so two different
types may pass for one; while nothing was reported, this happens only to a
definition and one that shadows it, both still in the table.

### Proofs

Everything here holds for every set of names, every list of parameters that
`ParamListsAssumption` admits, every set of productions and every bound. The
other assumptions are `PopOutcomesAssumption`, `NamesAssumption`,
`BoundsAssumption` (natural numbers) and `PlainTypesAssumption` (plain types are
no arrays, and neither are their members). Some theorems need `Exact`, that
`"skip"` is not among the outcomes of `PopScope`: `scopes_skip` shows that they
are false without it.

| Theorem | States | Needs |
|---|---|---|
| `SemanticInvariant`, `ScopesInvariant` | `[]IInv` | |
| `TypesOK` | `[]TypeOK` | |
| `LayersInvariant` | `[](IInv /\ Layers)` | `Exact` |
| `TablesOK` | `[]TableOK` | `Exact` |
| `RedefinedInSameScopeHolds` | `[]RedefinedInSameScope` | `Exact` |
| `ImplementsScopesHolds` | `ImplementsScopes` | `Exact` |
| `EmptyMeansReportedHolds` | `[]EmptyMeansReported` | |
| `DiesOfArraysHolds` | `[]DiesOfArrays` | |
| `LiveTypesHolds` | `[]LiveTypes` | `Exact` |
| `MixedUpIsShadowedHolds` | `[]MixedUpIsShadowed` | `Exact` |

`IInv` has three parts. `Typed(U)`, for some set `U` of types in which the parts
of every type are too: entries, open calls and operands are made of types in
`U`. There is no largest such set, as types nest without bound; a step that makes
a new type goes on with a larger one. `Shape`: the open calls are those of the
open scopes, then at most one list of declarations, then at most one of its
declarations, and only the outermost is a function. `Pending`: the declarations
of an open list have its type and its level and leave room below the bounds.
`TypeOK` follows. For the tables `Layers` is added (no entry is deeper than
the level counter, and of one name the younger entry is never further out), which
needs `IInv`: the level a list is inserted with is that of its declarations.

*The refinement.* `ImplementsScopesHolds` says that every step of the checker is a
step of the nested scopes with the same request and the same reply. The step
lemmas of `SemanticProofs` say what each action does
to the tables (`Opens`, `Closes`, `Declares`, `Registers`, `Defines`, `Quiet`),
those of `CheckerProofs` what that is on the nested scopes: a scope more, one less,
the names of a list in the innermost one where they are not yet, a function more
in the list of its name, a structure around a scope that ends. The lookups are
the hard part: `GetVariable` is a loop that overwrites its answer whenever an
entry is deeper than the last match and that reports the first mismatch until
then. With `Layers` the entries of a name come by depth, functions first, so
the loop splits there: after the functions its answer is that of the matching
overload, and the variables behind them either replace it by the first one of the
innermost scope (a use) or turn it into an error (a call). `SemanticProofs` has
the loop as a sequence of intermediate answers, and an induction over a set
of numbers in place of one over a predicate.

*Types.* `EmptyMeansReported` is not inductive, since a member of a structure can
become an operand. The invariant is that a set `W` without `EMPTY_TYPE`, which has
the parts of its types, contains all types of the tables, open calls and operands
while nothing was reported. `LiveTypes` needs `Live`, the same for the type that
an open list or function will declare, and `MixedUpIsShadowed` in addition
`Unique`: while nothing was reported, a scope has one structure of a name.
`DiesOfArrays` follows from `CastsInv`: while the table has plain types only,
the operands are plain (`PlainOperands`); statements are inside a function, whose
type a RETURN meets (`Grounded`); no operand waits where a scope ends
(`Waiting`); and the parameters of an open function are in the table until its
body is over (`ParamsKnown`), so that the arguments it is registered with are.

## 5. Project 4: reading the IR and emitting assembly

| Module | What it is |
|---|---|
| `Ir` | Operands and instructions; `_tac_from_line` (`OfTokens`, `Outcome`), `tac_print`, and the emitters of `mips32.c`. |
| `IrWalk` | The program: lines into a doubly linked list, then the walk of `emit_code`. |
| `MCIr`, `MCSample` | The lines TLC reads: 41 of all kinds and shapes; the sample of the repository. |
| `IrProofs` | The theorems. |

A token is what the reader looks at (`#`, `&`, `*`, `label`), the text behind it
and what `atoi` makes of that text. `Outcome` says what becomes of a line:
`"read"`, `"aborted"` where an assertion fails (an empty line, a doubled blank,
an unknown keyword), `"undefined"` where the code reads or writes what it
does not have (one token, an unknown operator, a line of 64 characters, a name
of 8). `tac_append` walks from the head for every line, one step per turn of its
loop. The emitters that the source leaves open (conditions, calls, parameters,
RETURN) are empty in the model as they are in the source, and `get_register`
gives the same register always.

| Run | Bounds | Shows |
|---|---|---|
| `ir_walk` | files of 3 lines out of 41 | `TypeOK`, `ListIsLines`, `OutIsLines`, `StopsAtTheFirst`, `PrintsBack`, `Terminates` |
| `ir_sample` | `sample/test_4_fact.ir` | violates `SampleIsTranslated` |

Three lines are a list whose end, middle and beginning differ; what a line
becomes does not depend on the others. `StopsAtTheFirst` compares the emitters
and the table that chooses them with a definition of what is translatable:
the program stops exactly at the first instruction that is not, with the
assembly of those before it printed. `PrintsBack` is the round trip: a printed
instruction is read as the same one, even where the reader has taken a variable
called `labelx` for a label.

`ir_sample` reads the sample line by line. The empty line between its two
functions (line 13) is counted as one token that `strtok` does not find, and
`assert(idx == count)` ends the program. Without that line the run is clean.

`IrProofs` proves, for any lines and any bound (`LinesAssumption`,
`MaxLinesAssumption`), `TypesAlways`, `ListIsLinesAlways`, `OutIsLinesAlways`
and `StopsAtTheFirstAlways`: `Spec => []P` for the four properties of these
names, and `PrintsBackAlways`: `Spec => []PrintsBack` for lines whose left sides
are plain (`PlainTargets`: no target is a variable named `LABEL`, `FUNCTION` or
`DEC`, which the reader takes for a keyword, and the target of `&` and of a
fetch is a variable). Project 3 prints no others, and `MCIr` has it as an
assumption that TLC evaluates on the lines of `ir_walk`. The inductive invariant is `ITypes /\ ICode /\ IList /\ IAppend /\ IEmit`.
`ListIsLines` is not inductive: that `tac_insert` links the new node behind the
last one needs `IAppend`, that the walk is on the list and the new node is not;
and `OutIsLines` needs `IEmit`, that what is printed is the translation of the
nodes in front of `cur`.

## 6. Labs 1, 5 and 8

The data structures of the labs do not interact; the run `labs` has one instance
of each and chooses between them at the start (`which`).

**Lab 5.** `SymtabMap` is the abstract specification that `symtab.h` describes: a
map, and the result of every call (`call`, `ret`). `SymtabList` (`symtab_ll.c`)
and `SymtabTree` (`symtab_bt.c`) are the two implementations, one action per
function of the interface; the functions have the same names in both files, and
those of the tree are called `tree_insert` and so on. `Symtab` is what both
share of `symtab.h`.

The loop of the list's `symtab_insert` ends before it has compared the last
node, so the youngest key can be inserted twice, where `symtab.h:29` and
`test.py:57` expect a refusal. `InsertsLast` is a step that does so: without it
the list is a map (`StepsLikeMap`), with it a key has at most two nodes, which
stay neighbours (`TwinsAreNeighbours`), and a removal uncovers the older value.

`SymtabTree` has the tree as a function from places to entries. A place is the
sequence of turns that leads to it from the root, so a pointer is a place, the
subtree behind it is `Subtree`, and storing into it is `Replaced`. The recursion
of insert, lookup and remove follows the pointers in `Way`: those reached by
the turn that `strcmp` gives at every node above. In `symtab_rm`, with two
children, the successor's entry moves up and its key is then searched for again
in the right tree, as in the code: where `find_successer` found it is not used.

`symtab_rm` reaches its end without a `return` after its recursive calls.
`yields` is what its caller then finds in the return register: `"node"`
(root, which the last assignment uses; the outcome that `test.py` needs) or
`"result"` (what the recursive call returned). Compilers differ in it, so it is
chosen at the start and stays. The tree is a search tree with both. With
`"node"` it is a map (`ImplementsMap`); with `"result"` a
removal keeps one branch of the tree, and the removal of an absent key
nothing (`KeepsOneBranch`).

**Lab 1.** `IntList` is the sequence that `linked_list.h` describes, `LinkedList`
the nodes in a heap. `ImplementsList` is the refinement: the chain is the
sequence, the count its length, positions out of bounds change nothing.
`ChainIsAllocated`: no loop reads a freed node. `OnlyRemoveAllLeaks`: a node is
unlinked without being freed by `linked_list_remove_all` and by nothing else.

**Lab 8.** In `KeyCheck` the actions of the grammar build a value on a stack and
`checkValue` judges it. The check compares one character, the one behind the
quote. `AcceptedHasNoTwins`: what is accepted has no key twice at any depth. The
converse does not hold: `keys_alike` (module `MCKeys`) refutes
`OnlyDuplicatesRefused`, that a complaint names a key that an object has twice,
as the message `duplicate key` says (`JSONType.h:117`), with two keys that begin
alike. `jsonchecker_test.py:13-19` expects `twitter.json` to be accepted, which
has `id` and `id_str` in one object; the test is commented out (line 39).

Bounds: four keys (`ListKeys`) and five nodes for the list (twins with nodes on both sides);
five keys and nodes for the tree (a removed node with two children whose right
child has a left one, below another node), with two values for every other key; three elements and positions from -1
to 4 for lab 1; five scalars, strings and arrays for lab 8 (two members, with
an array or an object in one of them), with an empty key and two that
begin alike.

`ListProofs` proves for all keys, values and lengths `Neighbours` (`Spec =>
[]TwinsAreNeighbours`), `StepsAreMapSteps` (`Spec => StepsLikeMap`) and the
refinement `ListIsMap` (`Spec /\ [][~ InsertsLast]_vars => Map!Spec`): when the
youngest key is not inserted again, no key is twice in the list (`Apart`), so the
table that a caller sees is read off the nodes (`TableIs`), and an append or a
removal changes it as the map changes.

`TreeProofs` proves for any values, any number of nodes and any keys that are
integers (`KeysAssumption`: their order is all that the code uses of them) that
the tree stays a search tree for both modelled values of `symtab_rm`'s missing
return (`StaysSearchTree`: `TreeSpec => []SearchTree`); that every call is one of the map where the missing return yields
the node (`TreeIsMap`: `TreeSpec => ImplementsMap`), which makes the
refinement `TreeRefinesMap` (`TreeSpec /\ yields = "node" => TreeMap!Spec`); and
that a removal keeps one branch only where it yields the result of the recursive
call (`RemovalKeepsOneBranch`: `TreeSpec => KeepsOneBranch`).
`SearchTree` alone is not inductive: the invariant needs `TreeOK`, that every
place above a node has a node and that the places are no longer than some bound.
The argument then is:

- Two different places lie one under the other, or part at some node above both
  (`Diverge`). In either case the order there tells their keys apart
  (`KeysDiffer`), so a key has one place, and the search comes to it
  (`FoundIs`): a key that the search does not find is not in the tree, and the
  new node belongs where the search ended (`Grows`).
- There is a last turn to the left (`LeftmostExists`), and the entry there is
  the least of the right tree (`SuccessorIs`). With that entry moved to the
  removed node the tree is still ordered but for its old node, the search for the
  key in the right tree comes to that node (`MovedIs`), and it has no left child.
- What takes the place of the freed node is a subtree that already was on the
  same side of every node above (`ReplacedSorted`, `FreedIs`). `RemovedIs` puts
  the cases together for both values of `yields`.
- `TableGrows` and `TableShrinks` say what the map loses and gains, and
  `BranchIs` that with `"result"` the freed node had at most one child, and the
  tree is what was below it.

`ListProofs` also proves for all values, all positions and any finite number of
addresses (`MemoryAssumption`: NULL is none of them, the head is one)
`ChainIsAllocatedHolds`, `OnlyRemoveAllLeaksHolds` and the refinement
`ImplementsListHolds` (`ListSpec => ImplementsList`). None of the
three is inductive: a walk that trusts the count stays on the chain only because
the count is its length, and a pointer to a node that is freed is gone only
because no second one led there. The invariant `IInv` says both: values and
pointers belong to the same nodes (`HeapOK`), and while there is a head its
pointers lead along allocated nodes, each of them once, to NULL, and there are as
many as it counts (`Chained`). `Chain` is what moves along the pointers visit;
`ChainIs` proves that a sequence with these properties is the chain, so a step
need only show one that the new pointers lead along: with one node more
(`InsertListed`), one less (`DeleteListed`), or those whose values differ
(`FilterListed`). `ImageOfLonger`, `ImageOfShorter` and `ThoseOfImage` carry that to
the values. `Those`, the loop of `linked_list_remove_all` and
`linked_list_search_all`, is a fold; `LoopIs` turns it into its intermediate
results, over which an induction runs.

## 7. Fairness

`IrWalk` has weak fairness of its next-state relation: project 4 is one thread,
and its buffer ends with the mark `\x7f` that `main` puts there. `Terminates`
says that every walk of `tac_append` and the walk of `emit_code` then end.

The others have no fairness: their environment is the text of a program or the
calls of a client, which may stop anywhere, and what the code does between two of
them is one step or a walk over a finite tree. For the same reason deadlock is
not checked in runs whose bounds end a translation (`CHECK_DEADLOCK FALSE`).

## 8. What is only model-checked

- `CodeComputesSource`, `CodeRunsLikeSource` and `RunsLikeSourceIffUnchained`:
  the interpreters are recursive, which the prover does not reach.
- `TranslatedIffUnaddressed`: a variable is printed as "t" and its number, and the
  prover knows nothing of the text of a number.
- `Terminates`, a liveness property.
- `AcceptedHasNoTwins`: `checkValue` of lab 8 is recursive on values of any
  depth.

Everything called a theorem holds without bounds.

## 9. What is not modelled

- The parsers and lexers: their behaviour is in automata that Bison and Flex
  generate and that are not in the repository. The models enumerate the trees
  instead of parsing them.
- In the control model: a variable that is a condition or an operand with code is
  stood for by a literal, which is an instruction of the same kind; one `ASSIGN`
  stands for the straight-line code of a value; a `write` of several arguments is
  several writes, and of the arguments of a call more than two operands with code
  are operands one inside the other. `ControlSem` does not look at what is stored
  or written, which is the question of the data half; and the data half has no
  comparisons.
- Array sizes and line numbers in the semantic model: no modelled decision
  depends on them. Floating literals and characters
  in the data model: `atoi` reads them.
- The checker in project 3's `semantic.cpp` (`handle_Exp` and what calls it):
  `main` never does. `handle_Specifier` (`semantic.cpp:337`) reads a child that a
  primitive specifier does not have; no type of a field reaches the layout.
- A list of parameters is one constant in `Semantic`; its types are primitive or
  arrays of primitive ones. Parameters of a structure type are left out, and
  with them a structure specifier inside a parameter.
- Register allocation, spilling and the emitters marked COMPLETE in
  `project4/mips32.c` are empty in the source. What its assembly computes is not
  judged: all instructions use the same registers.
- The size of project 4's file (65536 bytes), and a last line without line
  break, which the reader drops (`tac.c:206`). `tac.c:64` writes a null behind
  the array of tokens: the model assumes that `malloc` rounds up, as it does for
  the `strcpy` of one byte too many in the labs.
- `linked_list_tostring` and the drivers of the labs; lab 5's hash table, whose
  functions are empty, and its draft `symtab_bt.2c`.
- lab 2, 3, 4, 6 and 12: lexers, grammars of a few lines, type definitions and
  demonstrations.

## 10. Plan

1. The interpreters of `ControlSem` and `DataSem` as relations between states
   instead of recursive operators: the first step towards a proof of
   `CodeRunsLikeSource`.
2. The values of lab 8 as functions from places, as the tree of lab 5 is now, and
   `AcceptedHasNoTwins` for every depth.
3. Project 4's conditions and calls, when their emitters are written.
