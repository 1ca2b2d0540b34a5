------------------------------ MODULE BlockFlow ------------------------------
(***************************************************************************)
(* GlobalAnalysis of the second pass: the checks available at the          *)
(* beginning of every block, and the deletion of the checks they cover     *)
(* (GlobalAnalysis.hpp, and GlobalAnalysis in BoundsChecking.cpp).         *)
(*                                                                         *)
(* What the global and the loop analysis of the second pass see of a       *)
(* function: its blocks, and in each block the accesses, the assignments   *)
(* and the calls, in their order.  An access                               *)
(*     [op |-> "access", var |-> v, by |-> c, array |-> a]                 *)
(* is to a[v + c], where v is a variable <<"mem", x>>, or to a[n], where v *)
(* is <<"const", n>>.  [op |-> "add", var |-> v, by |-> c] is v = v + c,   *)
(* [op |-> "set", var |-> v, by |-> c] is v = c, and [op |-> "call"] can   *)
(* leave any value in any variable.                                        *)
(***************************************************************************)
EXTENDS Search, Sequences, SequencesExt

CONSTANTS
    Programs,       \* the functions the pass is run on
    Variables,      \* their variables
    Arrays, Limit,  \* their arrays and the numbers of elements
    Static,         \* the arrays whose size is a constant
    ElementSize     \* bytes in an element

Blocks(p) == {p.blocks[n] : n \in DOMAIN p.blocks}
Entry(p) == p.blocks[1]
Preds(p, b) == {p.preds[b][n] : n \in DOMAIN p.preds[b]}
Succs(p, b) == {c \in Blocks(p) : b \in Preds(p, c)}

IsConst(v) == v[1] = "const"
IsStatement(I) ==
    \/ I.op = "call"
    \/ I.op \in {"add", "set"} /\ I.var \in Variables /\ I.by \in Int
    \/ /\ I.op = "access" /\ I.array \in Arrays /\ I.by \in Int
       /\ I.var \in Variables \/ (IsConst(I.var) /\ I.var[2] \in Int)

\* The loops have a preheader, from which alone they are entered, and one
\* exit, to which a way leads from each of their blocks; inner loops first.
IsLoop(p, loop) ==
    LET inside == {loop.blocks[n] : n \in DOMAIN loop.blocks}
    IN  /\ loop.blocks \in Seq(Blocks(p)) /\ Entry(p) \notin inside
        /\ {loop.preheader, loop.exit} \subseteq Blocks(p) \ inside
        /\ \A b \in inside : Preds(p, b) \subseteq inside \cup {loop.preheader}
        /\ inside \subseteq Found([b \in Blocks(p) |-> Preds(p, b) \cap inside], {loop.exit})

\* The blocks in the order of the function, the entry first; the edges; the
\* loops the pass looks at.
Wellformed(p) ==
    /\ p.blocks # << >> /\ p.blocks \in Seq(Blocks(p)) /\ DOMAIN p.preds = Blocks(p) /\ DOMAIN p.body = Blocks(p)
    /\ \A m, n \in DOMAIN p.blocks : p.blocks[m] = p.blocks[n] => m = n
    /\ p.preds[Entry(p)] = << >> /\ \A b \in Blocks(p) : p.preds[b] \in Seq(Blocks(p))
    /\ \A b \in Blocks(p) :
         p.body[b] \in Seq(Range(p.body[b])) /\ \A k \in DOMAIN p.body[b] : IsStatement(p.body[b][k])
    /\ p.loops \in Seq(Range(p.loops)) /\ \A l \in DOMAIN p.loops : IsLoop(p, p.loops[l])

ASSUME BlockProgramAssumption ==
    /\ \A p \in Programs : Wellformed(p)
    /\ \A v \in Variables : ~IsConst(v)
    /\ Limit \in [Arrays -> Nat] /\ Static \subseteq Arrays /\ ElementSize \in Nat \ {0}

\* Those elements of a sequence that are in a set.
Those(seq, some) ==
    FlattenSeq([n \in DOMAIN seq |-> IF seq[n] \in some THEN <<seq[n]>> ELSE << >>])

Writes(I, v) == I.op \in {"add", "set"} /\ I.var = v

\* identifyMemoryChange: the assignments of the block agree on a direction,
\* and no call comes after the block has met the variable.  The entry meets
\* every variable where it is allocated.
Met(p, b, k, v) ==
    \/ b = Entry(p)
    \/ \E l \in 1 .. k - 1 : p.body[b][l].op # "call" /\ p.body[b][l].var = v
Change(p, b, v) ==
    LET body == p.body[b]
        steps == {body[k] : k \in {l \in DOMAIN body : Writes(body[l], v)}}
        lost == \E k \in DOMAIN body : body[k].op = "call" /\ Met(p, b, k, v)
        up == \A I \in steps : I.op = "add" /\ I.by >= 0
        down == \A I \in steps : I.op = "add" /\ I.by <= 0
    IN  IF lost THEN "UNKNOWN"
        ELSE IF up /\ down THEN "EQUALS"
        ELSE IF up THEN "GREATER_THAN"
        ELSE IF down THEN "LESS_THAN" ELSE "UNKNOWN"

\* The checks LocalAnalysis leaves, one for each access, both bounds; at is
\* the place of the access, end says that the check is at the terminator.
\* Of a constant index findFirstLoad sets neither the comparison nor its
\* weight: getCheckVariables takes what was in the memory before.
NewCheck(p, b, k, found) ==
    LET I == p.body[b][k]
        compared == IF IsConst(I.var) THEN found ELSE [known |-> TRUE, by |-> I.by]
    IN  [block |-> b, at |-> k, var |-> I.var, array |-> I.array,
         by |-> compared.by, known |-> compared.known,
         lower |-> TRUE, upper |-> TRUE, end |-> FALSE, copy |-> FALSE]
Accesses(p, b) ==
    LET places == [k \in DOMAIN p.body[b] |-> k]
    IN  Those(places, {k \in DOMAIN places : p.body[b][k].op = "access"})
LocalChecks(p, found) ==
    [b \in Blocks(p) |->
       [n \in DOMAIN Accesses(p, b) |-> NewCheck(p, b, Accesses(p, b)[n], found)]]
Uninitialized == [known : BOOLEAN, by : {-1, 0, 1}]

StillExists(c) == c.lower \/ c.upper

VARIABLES
    prog,       \* the function
    stage,      \* "sweep", "eliminate", "loops"
    pos,        \* the place in the worklist of the block to visit next
    changed,    \* a block's outSet has changed in this sweep
    inSet, outSet,  \* of every block: its checks, and whether it is all checks
    checks,     \* of every block: its bounds checks
    globals     \* of every block: the checks it generates

flow == <<prog, stage, pos, changed, inSet, outSet, checks, globals>>

-----------------------------------------------------------------------------
\* The constructor of BlockFlow.
KillAll(b) == \E k \in DOMAIN prog.body[b] : prog.body[b][k].op = "call"
KilledAfter(b, loc) == \E k \in DOMAIN prog.body[b] : k > loc /\ prog.body[b][k].op = "call"
StoreSet(b) ==
    {v \in Variables : \E k \in DOMAIN prog.body[b] : Writes(prog.body[b][k], v)}
StoredAfter(b, v, loc) == \E k \in DOMAIN prog.body[b] : k > loc /\ Writes(prog.body[b][k], v)

\* A check goes into the GEN set when its index is on the right side of its
\* variable, and the block does not move the variable to the wrong side
\* after it.
Exposed(b, c, upper) ==
    /\ ~KilledAfter(b, c.at)
    /\ c.known /\ IF upper THEN c.upper /\ c.by >= 0 ELSE c.lower /\ c.by <= 0
    /\ StoredAfter(b, c.var, c.at) =>
         Change(prog, b, c.var) \in
            IF upper THEN {"EQUALS", "LESS_THAN"} ELSE {"EQUALS", "GREATER_THAN"}
GlobalCheck(c, upper) == [of |-> <<c.block, c.at>>, upper |-> upper, var |-> c.var, array |-> c.array]

\* Of the checks of one side of a variable the first one is taken.
GlobalsOf(b, c, earlier) ==
    LET new(upper) == /\ Exposed(b, c, upper)
                      /\ \A d \in earlier : ~(d.var = c.var /\ Exposed(b, d, upper))
    IN  (IF new(FALSE) THEN <<GlobalCheck(c, FALSE)>> ELSE << >>)
           \o (IF new(TRUE) THEN <<GlobalCheck(c, TRUE)>> ELSE << >>)
GlobalChecks(b) ==
    FlattenSeq([n \in DOMAIN checks[b] |->
                  GlobalsOf(b, checks[b][n], {checks[b][m] : m \in 1 .. n - 1})])

-----------------------------------------------------------------------------
(***************************************************************************)
(* Two checks are compared the same way by identifyInSet and               *)
(* identifyOutSet.  Bounds that are no constants are compared as null      *)
(* pointers, which are equal.                                              *)
(***************************************************************************)
Alike(g, h) ==
    /\ g.upper = h.upper /\ IsConst(g.var) = IsConst(h.var)
    /\ IsConst(g.var) \/ g.var = h.var
    /\ g.upper /\ ~IsConst(g.var) => (g.array \in Static) = (h.array \in Static)

\* g says strictly more than h does.
Stricter(g, h) ==
    \/ IsConst(g.var) /\ g.upper /\ g.var[2] > h.var[2]
    \/ IsConst(g.var) /\ ~g.upper /\ g.var[2] < h.var[2]
    \/ ~IsConst(g.var) /\ g.upper /\ g.array \in Static /\ Limit[g.array] < Limit[h.array]

FirstAlike(seq, g) ==
    LET alike == {n \in DOMAIN seq : Alike(g, seq[n])}
    IN  IF alike = {} THEN 0 ELSE CHOOSE n \in alike : \A m \in alike : n <= m

\* A check of the first predecessor looked at, weakened to what the other
\* ones have; none when one of them has no check like it.
WeakenAt(p, found) ==
    LET n == FirstAlike(outSet[p].checks, found[1])
    IN  IF found = << >> \/ outSet[p].all THEN found
        ELSE IF n = 0 THEN << >>
        ELSE IF Stricter(found[1], outSet[p].checks[n]) THEN <<outSet[p].checks[n]>> ELSE found
InAll(b, g) ==
    LET found[n \in 0 .. Len(prog.preds[b])] ==
            IF n = 0 THEN <<g>> ELSE WeakenAt(prog.preds[b][n], found[n - 1])
    IN  found[Len(prog.preds[b])]

IdentifyInSet(b) ==
    LET known == {n \in DOMAIN prog.preds[b] : ~outSet[prog.preds[b][n]].all}
        first == prog.preds[b][CHOOSE n \in known : \A m \in known : n <= m]
    IN  IF known = {} THEN [checks |-> << >>, all |-> TRUE]
        ELSE [checks |-> FlattenSeq([n \in DOMAIN outSet[first].checks |-> InAll(b, outSet[first].checks[n])]),
              all |-> FALSE]

\* As if a block that moves a variable in one direction only kept its checks.
SurvivesMoved(b, g) == g.var \in StoreSet(b) => Change(prog, b, g.var) # "UNKNOWN"

Survives(b, g) ==
    g.var \in StoreSet(b) =>
        Change(prog, b, g.var) \in
            IF g.upper THEN {"EQUALS", "LESS_THAN"} ELSE {"EQUALS", "GREATER_THAN"}

\* A check of the block replaces a weaker one, or is added.
Merge(out, g) ==
    LET n == FirstAlike(out, g)
    IN  IF n = 0 THEN Append(out, g)
        ELSE IF Stricter(g, out[n]) THEN [out EXCEPT ![n] = g] ELSE out
Surviving(b, in) ==
    IF KillAll(b) \/ b = Entry(prog) THEN << >>
    ELSE FlattenSeq([n \in DOMAIN in.checks |-> IF Survives(b, in.checks[n]) THEN <<in.checks[n]>> ELSE << >>])
OutChecks(b, in) ==
    LET out[n \in 0 .. Len(globals[b])] ==
            IF n = 0 THEN Surviving(b, in) ELSE Merge(out[n - 1], globals[b][n])
    IN  out[Len(globals[b])]

\* addAvailableCheck adds a check that is not there yet; none is taken out.
AddAvailable(old, new) ==
    old \o FlattenSeq([n \in DOMAIN new |->
             IF new[n] \in Range(old) \cup {new[m] : m \in 1 .. n - 1} THEN << >> ELSE <<new[n]>>])

NextOut(b, in, new) ==
    IF new # << >> THEN [checks |-> AddAvailable(outSet[b].checks, new), all |-> FALSE]
    ELSE [checks |-> IF b = Entry(prog) THEN outSet[b].checks ELSE << >>,
          all |-> b # Entry(prog) /\ in.all]

\* As if a block that generates checks always had changed.
ReportsAlways(b, old, new) == new.checks # << >> \/ old.all # new.all

\* A set that only stops being all checks is no change.
Reports(b, old, new) ==
    \/ b = Entry(prog) /\ new.checks = << >>
    \/ old.checks # new.checks
    \/ ~old.all /\ new.all

-----------------------------------------------------------------------------
FlowInit ==
    /\ prog \in Programs
    /\ stage = "sweep" /\ pos = 1 /\ changed = FALSE
    /\ inSet = [b \in Blocks(prog) |-> [checks |-> << >>, all |-> FALSE]]
    /\ outSet = [b \in Blocks(prog) |-> [checks |-> << >>, all |-> TRUE]]
    /\ \E found \in Uninitialized : checks = LocalChecks(prog, found)
    /\ globals = [b \in Blocks(prog) |-> GlobalChecks(b)]

\* identifyOutSet.  The entry is visited once, before the first sweep, and
\* what it reports is not looked at.
IdentifyOutSet(b) ==
    \E in \in {IF b = Entry(prog) \/ KillAll(b) THEN inSet[b] ELSE IdentifyInSet(b)} :
    \E new \in {OutChecks(b, in)} : \E out \in {NextOut(b, in, new)} :
        /\ inSet' = [inSet EXCEPT ![b] = in]
        /\ outSet' = [outSet EXCEPT ![b] = out]
        /\ changed' = (b # Entry(prog) /\ (changed \/ Reports(b, outSet[b], out)))

Visit ==
    /\ stage = "sweep" /\ pos <= Len(prog.blocks)
    /\ IdentifyOutSet(prog.blocks[pos])
    /\ pos' = pos + 1
    /\ UNCHANGED <<prog, stage, checks, globals>>

\* A sweep is over: another one if it has changed anything.
Again ==
    /\ stage = "sweep" /\ pos > Len(prog.blocks)
    /\ stage' = IF changed THEN "sweep" ELSE "eliminate"
    /\ pos' = 2 /\ changed' = FALSE
    /\ UNCHANGED <<prog, inSet, outSet, checks, globals>>

\* eliminateRedundantChecks: by what is available at the beginning of the
\* block, wherever in the block the check is.
CoversUpper(g, c) ==
    /\ g.upper /\ IsConst(g.var) = IsConst(c.var)
    /\ IF IsConst(c.var) THEN c.var[2] <= g.var[2]
       ELSE /\ c.var = g.var /\ c.known /\ c.by <= 0
            /\ (g.array \in Static) = (c.array \in Static)
            /\ g.array \in Static => Limit[c.array] >= Limit[g.array]
CoversLower(g, c) ==
    /\ ~g.upper /\ IsConst(g.var) = IsConst(c.var)
    /\ IF IsConst(c.var) THEN c.var[2] >= g.var[2] ELSE c.var = g.var /\ c.known /\ c.by >= 0
Redundant(c, in, upper) ==
    \E n \in DOMAIN in : IF upper THEN CoversUpper(in[n], c) ELSE CoversLower(in[n], c)

Eliminate ==
    /\ stage = "eliminate"
    /\ stage' = "loops" /\ pos' = 1
    /\ checks' = [b \in Blocks(prog) |-> [n \in DOMAIN checks[b] |->
                    LET c == checks[b][n]
                    IN  [c EXCEPT !.upper = @ /\ ~Redundant(c, inSet[b].checks, TRUE),
                                  !.lower = @ /\ ~Redundant(c, inSet[b].checks, FALSE)]]]
    /\ UNCHANGED <<prog, changed, inSet, outSet, globals>>

FlowNext == Visit \/ Again \/ Eliminate
=============================================================================
