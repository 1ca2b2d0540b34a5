------------------------------ MODULE Insertion ------------------------------
(***************************************************************************)
(* runOnFunction of project.cpp up to its second count of the checks: the  *)
(* sizes of the arrays are collected, a pair of calls goes behind every    *)
(* access to an array of known size, MCFGreset makes the graph of what     *)
(* matters to the calls, and localopt deletes the repeated calls of each   *)
(* node of it.  Then the function is run.                                  *)
(*                                                                         *)
(* The functions are what clang -O0 emits; a statement is one of           *)
(*     [op |-> "malloc", slots |-> {p, ...}, size |-> index]               *)
(*     [op |-> "copy", to |-> q, from |-> p]                               *)
(*     [op |-> "store", var |-> v, value |-> index]                        *)
(*     [op |-> "access", array |-> x, indices |-> <<index, ...>>]          *)
(*     [op |-> "other"]                                                    *)
(* and an index (or a size) is                                             *)
(*     [op |-> opcode, args |-> <<operand, ...>>, wide |-> BOOLEAN]        *)
(* with operands <<"var", v>> and <<"const", c>>; it is wide when its      *)
(* variable is a long, so that no sext stands between load and access.     *)
(* The blocks in conds are those called .cond with a comparison in them.   *)
(***************************************************************************)
EXTENDS Search, Sequences, SequencesExt

CONSTANTS
    Programs,       \* the functions the pass is run on
    Variables,      \* the integer variables
    Values          \* what they can hold; a run that leaves them is cut off

Blocks(p) == {p.blocks[n] : n \in DOMAIN p.blocks}
Preds(p, b) == {c \in Blocks(p) : b \in p.succs[c]}
Entry(p) == p.blocks[1]

None == << >>
IsConst(operand) == operand[1] = "const"
Constant(index) == index.op = "" /\ IsConst(index.args[1])

IsOperand(a) == IF IsConst(a) THEN a[2] \in Int ELSE a[2] \in Variables
IsIndex(x) ==
    /\ x.op \in {"", "add", "sub", "mul", "div"} /\ x.wide \in BOOLEAN
    /\ DOMAIN x.args = 1 .. (IF x.op = "" THEN 1 ELSE 2)
    /\ \A n \in DOMAIN x.args : IsOperand(x.args[n])
    /\ x.op = "div" => IsConst(x.args[2]) /\ x.args[2][2] > 0     \* \div is defined for no other

\* A pointer has one index, an array at most one for each dimension; the
\* sizes that are constants are no negative numbers.
Pointers(p) == {x \in DOMAIN p.objects : p.objects[x].dims = << >>}
IsStatement(p, I) ==
    CASE I.op = "malloc" -> /\ I.slots \subseteq Pointers(p) /\ IsIndex(I.size)
                            /\ Constant(I.size) => I.size.args[1][2] \in Nat
      [] I.op = "copy" -> I.to \in Pointers(p) /\ I.from \in Pointers(p)
      [] I.op = "store" -> I.var \in Variables /\ IsIndex(I.value)
      [] I.op = "access" ->
           /\ I.array \in DOMAIN p.objects /\ I.indices \in Seq(Range(I.indices))
           /\ Len(I.indices) <= IF I.array \in Pointers(p) THEN 1 ELSE Len(p.objects[I.array].dims)
           /\ \A d \in DOMAIN I.indices : IsIndex(I.indices[d])
      [] OTHER -> I.op = "other"
Wellformed(p) ==
    /\ p.blocks # << >> /\ p.blocks \in Seq(Blocks(p)) /\ p.succs \in [Blocks(p) -> SUBSET Blocks(p)]
    /\ \A m, n \in DOMAIN p.blocks : p.blocks[m] = p.blocks[n] => m = n
    /\ \A x \in DOMAIN p.objects : p.objects[x].dims \in Seq(Nat \ {0})
    /\ DOMAIN p.body = Blocks(p) /\ p.conds \subseteq Blocks(p) /\ Preds(p, Entry(p)) = {}
    /\ \A b \in Blocks(p) :
         /\ p.body[b] # << >> /\ p.body[b] \in Seq(Range(p.body[b]))
         /\ \A k \in DOMAIN p.body[b] : IsStatement(p, p.body[b][k])

ASSUME InsertionAssumption == Values \subseteq Int /\ \A p \in Programs : Wellformed(p)

VARIABLES
    prog,       \* the function
    stage,      \* "collect", "insert", "construct", "local", "run"
    pos,        \* how far the loop over the instructions has come: block and place in it
    arrayMap,   \* what is known of the size of every array and pointer
    calls,      \* for every statement: the calls behind its accesses
    warned,     \* the constant indices the compiler warns of
    counter,
    func, step, order, node, preds, succs, body, dropped, merged, crashed,   \* the graph
    at, env, sizes, loaded,     \* the run: its place, variables, sizes, size loads
    outcome

pass == <<prog, stage, pos, arrayMap, calls, warned, counter>>
graph == <<func, step, order, node, preds, succs, body, dropped, merged, crashed>>
run == <<at, env, sizes, loaded, outcome>>
vars == <<pass, graph, run>>

-----------------------------------------------------------------------------
Places == UNION {{<<b, k>> : k \in DOMAIN prog.body[b]} : b \in Blocks(prog)}
Statement(c) == prog.body[c[1]][c[2]]

\* The loops over the instructions of the function.
Looping == pos[1] <= Len(prog.blocks)
Here == <<prog.blocks[pos[1]], pos[2]>>
Following ==
    IF pos[2] < Len(prog.body[Here[1]]) THEN <<pos[1], pos[2] + 1>> ELSE <<pos[1] + 1, 1>>

VariablesOf(index) == {a[2] : a \in {index.args[n] : n \in {m \in DOMAIN index.args : ~IsConst(index.args[m])}}}

\* calArraySize and processAllocateInst.
CalArraySize(dims) ==
    LET size[n \in 0 .. Len(dims)] == IF n = 0 THEN 1 ELSE size[n - 1] * dims[n]
    IN  size[Len(dims)]

\* As if a pointer started out with no elements rather than an unknown number.
AllocatedEmpty(object) ==
    [top |-> CalArraySize(object.dims) - (IF object.dims = << >> THEN 1 ELSE 0), bottom |-> 0, dyn |-> None]

Allocated(object) ==
    IF object.dims # << >> THEN [top |-> CalArraySize(object.dims), bottom |-> 0, dyn |-> None]
    ELSE [top |-> -1, bottom |-> -1, dyn |-> None]

\* getInstLoad: the operand looked at last is followed first.
GetInstLoad(size) ==
    LET loads == {n \in DOMAIN size.args : ~IsConst(size.args[n])}
    IN  size.args[CHOOSE n \in loads : \A m \in loads : m <= n]

\* processCallInst: every pointer the result is stored to gets the size.  Of
\* a size that is no constant it is the value the call's own load of the
\* variable had, whatever is added to it.
Sized(info, c, size) ==
    IF Constant(size) THEN [top |-> size.args[1][2], bottom |-> 0, dyn |-> info.dyn]
    ELSE [top |-> info.top, bottom |-> 0, dyn |-> c]
ProcessCallInst(c) ==
    [x \in DOMAIN arrayMap |->
       IF x \in Statement(c).slots THEN Sized(arrayMap[x], c, Statement(c).size) ELSE arrayMap[x]]

-----------------------------------------------------------------------------
\* processGEP: the limit of the d-th index of an access.
Static(n) == [known |-> TRUE, max |-> n, dyn |-> None]
Dynamic(c) == [known |-> TRUE, max |-> 0, dyn |-> c]
Unknown == [known |-> FALSE, max |-> 0, dyn |-> None]
\* As if an inner array were as large as the whole.
LimitOfWhole(x, d) ==
    LET info == arrayMap[x]
        dims == prog.objects[x].dims
    IN  CASE dims # << >> /\ d = 1 -> Static(dims[1])
          [] info.top # -1 -> Static(info.top)
          [] info.top = -1 /\ info.dyn # None -> Dynamic(info.dyn)
          [] OTHER -> Unknown

LimitOf(x, d) ==
    LET info == arrayMap[x]
        dims == prog.objects[x].dims
    IN  CASE dims # << >> /\ d = 1 -> Static(dims[1])
          [] dims # << >> /\ d = 2 -> Static(info.top \div dims[1])
          [] dims # << >> /\ d = 3 -> Static(info.top)
          [] dims = << >> /\ d = 1 /\ info.top # -1 -> Static(info.top)
          [] dims = << >> /\ d = 1 /\ info.top = -1 /\ info.dyn # None -> Dynamic(info.dyn)
          [] OTHER -> Unknown

\* As if only the max call were inserted.
NewCallMax(index, limit) ==
    [index |-> index, limit |-> limit, min |-> FALSE, max |-> TRUE,
     record |-> [index |-> index, top |-> limit.max]]

\* insertBoundCheck.  A constant index of an array of constant size only
\* brings a warning; calls on sizes that are no constants are not recorded.
NewCall(index, limit) ==
    [index |-> index, limit |-> limit, min |-> TRUE, max |-> TRUE,
     record |-> IF limit.dyn = None THEN [index |-> index, top |-> limit.max]
                ELSE [index |-> None, top |-> 0]]
Called(index, limit) == limit.known /\ ~(Constant(index) /\ limit.dyn = None)
ProcessGEP(access) ==
    LET called == {d \in DOMAIN access.indices :
                     Called(access.indices[d], LimitOf(access.array, d))}
    IN  [d \in called |-> NewCall(access.indices[d], LimitOf(access.array, d))]
Warned(c) ==
    {<<c, d>> : d \in {d \in DOMAIN Statement(c).indices :
        LET index == Statement(c).indices[d]
            limit == LimitOf(Statement(c).array, d)
        IN  /\ limit.known /\ ~Called(index, limit)
            /\ index.args[1][2] < 0 \/ index.args[1][2] > limit.max}}

-----------------------------------------------------------------------------
(***************************************************************************)
(* MCFGreset: what matters to the calls, and the graph made of it.         *)
(***************************************************************************)
Calls == UNION {{<<c, d>> : d \in DOMAIN calls[c]} : c \in Places}
CallAt(w) == calls[w[1]][w[2]]

\* The calls whose index is no constant; the loads among the operands of
\* one.  An index that is a load itself is not among them.
Index == {w \in Calls : ~Constant(CallAt(w).index)}
IndexAt(w) == CallAt(w).index
SearchedLoads(index) == IF index.op = "" /\ index.wide THEN {} ELSE VariablesOf(index)

\* The places before a place; the place behind the last statement of a block
\* is its terminator.
Before(c) ==
    IF c[2] > 1 THEN {<<c[1], c[2] - 1>>}
    ELSE {<<b, Len(prog.body[b]) + 1>> : b \in Preds(prog, c[1])}
Points == Places \cup {<<b, Len(prog.body[b]) + 1>> : b \in Blocks(prog)}
IsStore(c) == c \in Places /\ Statement(c).op = "store"
StoresTo(c, v) == IsStore(c) /\ Statement(c).var = v

\* As if the search ended at the beginning of the block.
FindDefinitionsHere(v, current) ==
    {d \in Places : StoresTo(d, v) /\ \E c \in current \cap Places : c[1] = d[1] /\ d[2] <= c[2]}

\* findDefinitions: backwards from a load on every way, up to the first
\* store of the variable, and no place twice.
FindDefinitions(v, current) ==
    {d \in Found([c \in Points |-> IF StoresTo(c, v) THEN {} ELSE Before(c)], current) : StoresTo(d, v)}

\* A definition brings every store to the same variable with it.
GetMCFGInst ==
    LET found(w) == {v \in SearchedLoads(IndexAt(w)) : FindDefinitions(v, Before(w[1])) # {}}
        bases == UNION {found(w) : w \in Index}
    IN  {c \in Places : IsStore(c) /\ Statement(c).var \in bases}

\* The blocks optimizeMCFG1 leaves an instruction in: the allocas of arrays and
\* pointers, which stand in the entry, indices with their calls, stores, and the
\* comparisons of loops.
Kept ==
    {Entry(prog) : x \in DOMAIN prog.objects} \cup {w[1][1] : w \in Index}
    \cup {c[1] : c \in GetMCFGInst} \cup prog.conds

Flowgraphs ==
    UNION {{[blocks |-> p.blocks, succs |-> p.succs, kept |-> K] : K \in SUBSET Blocks(p)} : p \in Programs}
Graph == INSTANCE ConstructMCFG WITH Functions <- Flowgraphs, pos <- node

-----------------------------------------------------------------------------
(***************************************************************************)
(* LightCheck::identicalValue and instIsIdentical.  constIsSame is given   *)
(* the right operation's constant twice, so that constants of two          *)
(* operations are never told apart.  When they stand on different sides of *)
(* a commutative operation it reads a load as a constant: garbage.         *)
(***************************************************************************)
Consts(index) == {n \in DOMAIN index.args : IsConst(index.args[n])}
SameOperands(l, r) ==
    \A n \in DOMAIN l.args : n \in Consts(l) \/ l.args[n] = r.args[n]
Swapped(l) == [l EXCEPT !.args = Reverse(@)]
Commutes(op) == op \in {"add", "mul"}
InstIsIdentical(l, r, garbage) ==
    /\ l.op = r.op /\ l.wide = r.wide
    /\ \/ Consts(l) = Consts(r) /\ SameOperands(l, r)
       \/ Consts(l) = {} /\ Consts(r) = {} /\ Commutes(l.op) /\ SameOperands(Swapped(l), r)
       \/ /\ Commutes(l.op) /\ Consts(l) # {} /\ Consts(r) # {} /\ Consts(l) # Consts(r)
          /\ garbage /\ SameOperands(Swapped(l), r)

IdenticalValue(l, r, garbage) ==
    l = r \/ (l # None /\ r # None /\ InstIsIdentical(l, r, garbage))
SameCheck(l, r, garbage) == l.top = r.top /\ IdenticalValue(l.index, r.index, garbage)

\* One place comes before another, or is the same, in a node of the graph.
Ahead(c, d) ==
    \E n \in Range(order) : \E k, l \in DOMAIN body[n] :
        /\ body[n][k] = c[1] /\ body[n][l] = d[1]
        /\ k < l \/ (k = l /\ c[2] <= d[2])

\* localopt, on the calls of one side (min or max) of a node: a call like one
\* that was kept is deleted.  Calls on constant indices are in no node.
Precedes(v, w) ==
    /\ {v, w} \subseteq Index /\ Ahead(v[1], w[1])
    /\ v[1] = w[1] => v[2] < w[2]
KeptCalls(garbage) ==
    {kept \in SUBSET Calls : \A w \in Calls :
       w \in kept <=> ~\E v \in kept : Precedes(v, w) /\ SameCheck(CallAt(v).record, CallAt(w).record, garbage)}

\* Deleting a call without an index takes the end out of indextocallmin.
Crashes(kept) == \E w \in Calls \ kept : CallAt(w).record.index = None

-----------------------------------------------------------------------------
Init ==
    /\ prog \in Programs
    /\ stage = "collect" /\ pos = <<1, 1>> /\ counter = 0 /\ warned = {}
    /\ arrayMap = [x \in DOMAIN prog.objects |-> Allocated(prog.objects[x])]
    /\ calls = [c \in Places |-> << >>]
    /\ func = [blocks |-> prog.blocks, succs |-> prog.succs, kept |-> {}] /\ Graph!Init
    /\ at = <<prog.blocks[1], 1>> /\ outcome = "none"
    /\ env = [v \in Variables |-> 0]
    /\ sizes = [x \in DOMAIN prog.objects |-> 0] /\ loaded = [c \in Places |-> 0]

\* The first loop: one call of an allocation function.
Collect ==
    /\ stage = "collect" /\ Looping
    /\ arrayMap' = IF Statement(Here).op = "malloc" THEN ProcessCallInst(Here) ELSE arrayMap
    /\ pos' = Following
    /\ UNCHANGED <<prog, stage, calls, warned, counter, graph, run>>

StartInserting ==
    /\ stage = "collect" /\ ~Looping
    /\ stage' = "insert" /\ pos' = <<1, 1>>
    /\ UNCHANGED <<prog, arrayMap, calls, warned, counter, graph, run>>

\* The second loop: one access.
Insert ==
    /\ stage = "insert" /\ Looping
    /\ LET I == Statement(Here)
           new == IF I.op = "access" THEN ProcessGEP(I) ELSE << >>
       IN  /\ calls' = [calls EXCEPT ![Here] = new]
           /\ counter' = counter + 2 * Cardinality(DOMAIN new)
           /\ warned' = warned \cup (IF I.op = "access" THEN Warned(Here) ELSE {})
    /\ pos' = Following
    /\ UNCHANGED <<prog, stage, arrayMap, graph, run>>

\* getMCFGInst, initializeMCFG and optimizeMCFG1.
StartConstructing ==
    /\ stage = "insert" /\ ~Looping
    /\ stage' = "construct"
    /\ func' = [func EXCEPT !.kept = Kept]
    /\ body' = [b \in Blocks(prog) |-> IF b \in Kept THEN <<b>> ELSE << >>]
    /\ UNCHANGED <<prog, pos, arrayMap, calls, warned, counter>>
    /\ UNCHANGED <<step, order, node, preds, succs, dropped, merged, crashed, run>>

\* A step of optimizeMCFG2 or optimizeMCFG3.
Construct ==
    /\ stage = "construct" /\ Graph!Next
    /\ UNCHANGED <<pass, run>>

\* localopt deletes the min calls, then the max calls, by the same records.
LocalOpt ==
    /\ stage = "construct" /\ step = "done"
    /\ stage' = "local"
    /\ \E garbage \in BOOLEAN : \E kept \in KeptCalls(garbage) :
         /\ calls' = [c \in Places |->
                        [d \in DOMAIN calls[c] |->
                           [calls[c][d] EXCEPT !.min = <<c, d>> \in kept, !.max = <<c, d>> \in kept]]]
         /\ counter' = 2 * Cardinality(kept)
         /\ outcome' = IF Crashes(kept) THEN "crashed" ELSE outcome
    /\ UNCHANGED <<prog, pos, arrayMap, warned, graph, at, env, sizes, loaded>>

-----------------------------------------------------------------------------
\* The value of an index or a size.
Operand(operand) == IF IsConst(operand) THEN operand[2] ELSE env[operand[2]]
Truncated(x, y) == IF x >= 0 THEN x \div y ELSE -((-x) \div y)
Value(index) ==
    LET x == Operand(index.args[1])
        y == Operand(index.args[2])
    IN  CASE index.op = "" -> x
          [] index.op = "add" -> x + y
          [] index.op = "sub" -> x - y
          [] index.op = "mul" -> x * y
          [] index.op = "div" -> Truncated(x, y)

\* The run-time checks.
Fails(call) ==
    LET max == IF call.limit.dyn = None THEN call.limit.max ELSE loaded[call.limit.dyn]
    IN  (call.min /\ Value(call.index) < 0) \/ (call.max /\ Value(call.index) >= max)
Extent(x, d) == IF prog.objects[x].dims # << >> THEN prog.objects[x].dims[d] ELSE sizes[x]
Outside(access) ==
    \E d \in DOMAIN access.indices :
        Value(access.indices[d]) \notin 0 .. Extent(access.array, d) - 1

Launch ==
    /\ stage = "local" /\ outcome = "none"
    /\ stage' = "run" /\ outcome' = "running"
    /\ env' \in [Variables -> Values]
    /\ UNCHANGED <<prog, pos, arrayMap, calls, warned, counter, graph, at, sizes, loaded>>

Running(op) ==
    /\ stage = "run" /\ outcome = "running"
    /\ at[2] <= Len(prog.body[at[1]]) /\ Statement(at).op = op
Step == at' = <<at[1], at[2] + 1>>

\* A size that is not positive is not followed.
Malloc ==
    /\ Running("malloc") /\ Step
    /\ LET I == Statement(at)
       IN  /\ sizes' = [x \in DOMAIN sizes |-> IF x \in I.slots THEN Value(I.size) ELSE sizes[x]]
           /\ loaded' = [loaded EXCEPT ![at] =
                           IF Constant(I.size) THEN 0 ELSE Operand(GetInstLoad(I.size))]
           /\ outcome' = IF Value(I.size) > 0 THEN outcome ELSE "cut"
    /\ UNCHANGED <<pass, graph, env>>
Copy ==
    /\ Running("copy") /\ Step
    /\ sizes' = [sizes EXCEPT ![Statement(at).to] = sizes[Statement(at).from]]
    /\ UNCHANGED <<pass, graph, env, loaded, outcome>>
Store ==
    /\ Running("store") /\ Step
    /\ LET value == Value(Statement(at).value)
       IN  IF value \in Values
           THEN env' = [env EXCEPT ![Statement(at).var] = value] /\ UNCHANGED outcome
           ELSE outcome' = "cut" /\ UNCHANGED env
    /\ UNCHANGED <<pass, graph, sizes, loaded>>
Access ==
    /\ Running("access") /\ Step
    /\ outcome' = IF \E n \in DOMAIN calls[at] : Fails(calls[at][n])
                  THEN IF Outside(Statement(at)) THEN "trapped" ELSE "stopped"
                  ELSE IF Outside(Statement(at)) THEN "missed" ELSE outcome
    /\ UNCHANGED <<pass, graph, env, sizes, loaded>>
Skip ==
    /\ Running("other") /\ Step
    /\ UNCHANGED <<pass, graph, env, sizes, loaded, outcome>>
Branch ==
    /\ stage = "run" /\ outcome = "running" /\ at[2] > Len(prog.body[at[1]])
    /\ \/ \E b \in prog.succs[at[1]] : at' = <<b, 1>> /\ UNCHANGED outcome
       \/ prog.succs[at[1]] = {} /\ outcome' = "returned" /\ UNCHANGED at
    /\ UNCHANGED <<pass, graph, env, sizes, loaded>>

Next ==
    \/ Collect \/ StartInserting \/ Insert \/ StartConstructing \/ Construct \/ LocalOpt
    \/ Launch \/ Malloc \/ Copy \/ Store \/ Access \/ Skip \/ Branch
Spec == Init /\ [][Next]_vars

-----------------------------------------------------------------------------
\* The types of the state; the counter is the number of calls in the
\* function.
TypeOK ==
    /\ stage \in {"collect", "insert", "construct", "local", "run"}
    /\ \A x \in DOMAIN arrayMap : arrayMap[x].top >= -1 /\ arrayMap[x].dyn \in Places \cup {None}
    /\ counter = Cardinality({w \in Calls : CallAt(w).min}) + Cardinality({w \in Calls : CallAt(w).max})
    /\ outcome \in {"none", "crashed", "running", "trapped", "stopped", "missed", "cut", "returned"}

\* The functions whose sizes and indices the pass gets right.  A pointer that
\* is used has its memory from one allocation, made on every way before, of
\* a size the calls can be given; no array has a third dimension; no constant
\* index equals its limit; and in a node of the graph indices that are taken
\* for identical have the same value, none of their variables being stored to
\* on a way from one to the other.
SetsPointer(I, x) == (I.op = "malloc" /\ x \in I.slots) \/ (I.op = "copy" /\ x = I.to)
AllocatedOnce(x, c) ==
    \E d \in Places :
        /\ Statement(d).op = "malloc" /\ Statement(d).size.op = ""
        /\ d[1] \in {c[1], prog.blocks[1]} /\ (d[1] = c[1] => d[2] < c[2])
        /\ {e \in Places : SetsPointer(Statement(e), x)} = {d}
SizeKnown(c) ==
    LET x == Statement(c).array
        dims == prog.objects[x].dims
    IN  IF dims = << >> THEN AllocatedOnce(x, c) ELSE Len(dims) <= 2
BelowLimit(c) ==
    \A d \in DOMAIN Statement(c).indices :
        LET index == Statement(c).indices[d]
            limit == LimitOf(Statement(c).array, d)
        IN  Constant(index) /\ limit.known => index.args[1][2] # limit.max
SameValue(x, y) == x = y \/ (Commutes(x.op) /\ y = Swapped(x))
Between(c, d) == Found([p \in Points |-> IF p = c THEN {} ELSE Before(p)], {d})
Unstored(c, d, x) == \A e \in Between(c, d), v \in VariablesOf(x) : ~StoresTo(e, v)
ToldApart(c, d) ==
    Ahead(c, d) =>
        \A x \in Range(Statement(c).indices), y \in Range(Statement(d).indices) :
            IdenticalValue(x, y, TRUE) /\ ~Constant(x) /\ ~Constant(y) => SameValue(x, y) /\ Unstored(c, d, x)
Sound ==
    LET accesses == {c \in Places : Statement(c).op = "access"}
    IN  \A c \in accesses : SizeKnown(c) /\ BelowLimit(c) /\ \A d \in accesses : ToldApart(c, d)

\* No access outside what its array was allocated with goes unnoticed, unless
\* the compiler has warned of a constant index: the sizes collected without
\* regard to the flow, and the calls that stand for repeated ones, are the
\* right ones when the run comes to them.
NoMissedViolation == Sound /\ warned = {} => outcome # "missed"

\* No run is stopped at an access inside its array.
NoSpuriousTrap == Sound => outcome # "stopped"

-----------------------------------------------------------------------------
\* Whatever store may come before an index it is to a variable of is in the
\* graph, unless the index is a long by itself: gen and kill sets miss none.
Earlier(c) == Found([d \in Points |-> Before(d)], Before(c))
SelectedStores ==
    stage = "local" =>
        \A w \in Index : \A v \in SearchedLoads(IndexAt(w)) :
            \A c \in Earlier(w[1]) : StoresTo(c, v) => c \in GetMCFGInst
=============================================================================
