-------------------------------- MODULE MCFG --------------------------------
(***************************************************************************)
(* The modified control-flow graph that the passes of                      *)
(* ProjectFinal/project.cpp work on, and the gen and kill sets read off    *)
(* its instructions.                                                       *)
(*                                                                         *)
(* A program is a record:                                                  *)
(*   nodes, succs, entry  the graph;                                       *)
(*   order   the vector<MCFG_Node*>.  A node that is linked but not in the *)
(*           vector is one that optimizeMCFG2 dropped without connecting   *)
(*           its neighbours, empty or with what optimizeMCFG3 has merged   *)
(*           into it since: nothing ever computes its sets;                *)
(*   exits   the nodes from which the function may return;                 *)
(*   code    the instructions of each node.                                *)
(*                                                                         *)
(* Instructions are loads of a variable into an SSA value, stores to a     *)
(* variable, calls of the run-time checks, and others (allocas, compares,  *)
(* erased calls).  A check is made on an SSA value; `root` is the variable *)
(* that indexdefmap gives for it.                                          *)
(***************************************************************************)
EXTENDS LightChecks, Sequences

CONSTANTS
    Vars,       \* the variables that serve as array indices
    Tmps,       \* the SSA values loaded from them
    Programs    \* the functions the pass is run on

load(t, v) == [op |-> "load", tmp |-> t, var |-> v]

\* v := base opc c, or c opc base when constfirst; "const" stores c itself,
\* "input" what some other instruction gives, of which the pass knows nothing.
\* It is no argument of the function, for which getEffect has no instruction to
\* look at and dereferences a null pointer.
store(v, opc, base, c, constfirst) ==
    [op |-> "store", var |-> v, opc |-> opc, base |-> base, const |-> c,
     constfirst |-> constfirst]

call(k, t, v, bottom, top) ==
    [op |-> "call", kind |-> k, tmp |-> t, root |-> v, bottom |-> bottom, top |-> top]

Other == [op |-> "other"]

Opcodes == {"const", "input", "add", "sub", "mul", "sdiv"}

\* insertBoundCheck passes 0 for the bottom of every array, and for the top its
\* number of elements.
Loads == [op : {"load"}, tmp : Tmps, var : Vars]
Stores == [op : {"store"}, var : Vars, opc : Opcodes, base : Vars, const : Int,
           constfirst : BOOLEAN]
Calls == [op : {"call"}, kind : Kinds, tmp : Tmps, root : Vars, bottom : {0}, top : Nat]
Instrs == Loads \cup Stores \cup Calls \cup {Other}

isCall(i, k) == i.op = "call" /\ i.kind = k
isStoreTo(i, v) == i.op = "store" /\ i.var = v
isLoadInto(i, t) == i.op = "load" /\ i.tmp = t

\* Mutant: the commented-out ch.realindex = checkinfo[..].index, an SSA value.
CheckOfIndex(i) == [realindex |-> i.tmp, bottom_limit |-> i.bottom, top_limit |-> i.top]

CheckOf(i) == [realindex |-> i.root, bottom_limit |-> i.bottom, top_limit |-> i.top]

preds(p, n) == {m \in p.nodes : n \in p.succs[m]}
InVector(p) == {p.order[i] : i \in DOMAIN p.order}

WellFormed(p) ==
    /\ IsFiniteSet(p.nodes) /\ p.order \in Seq(p.nodes)
    /\ p.succs \in [p.nodes -> SUBSET p.nodes]
    /\ p.exits \subseteq p.nodes
    /\ p.entry \in InVector(p) /\ preds(p, p.entry) = {}
    /\ p.code \in [p.nodes -> Seq(Instrs)]

ASSUME ProgramsAssumption == \A p \in Programs : WellFormed(p)

\* The checks of a kind that the code makes, and the variables they are on.
Checks(code, k) ==
    UNION {{CheckOf(code[n][j]) : j \in {l \in DOMAIN code[n] : isCall(code[n][l], k)}} :
             n \in DOMAIN code}
Checked(code, k) == Roots(Checks(code, k))

\* The set operations erase elements of a std::set they are iterating over.
\* With at most three elements a build that survives this computes what
\* LightChecks says; a larger set may lose track of an element.
ASSUME SmallSets ==
    \A p \in Programs, k \in Kinds : Cardinality(Checks(p.code, k)) <= 3

-----------------------------------------------------------------------------
\* What a store does to its variable, as the pass classifies it.  It looks at
\* the constant and at the load beside it, not at which operand is which.
getEffect(s) ==
    CASE s.opc \in {"const", "input"} \/ s.base # s.var -> "CHANGED"
      [] s.opc = "add" /\ s.base = s.var /\ s.const > 0 -> "INC"
      [] s.opc = "add" /\ s.base = s.var /\ s.const < 0 -> "DEC"
      [] s.opc = "sub" /\ s.base = s.var /\ s.const > 0 -> "DEC"
      [] s.opc = "mul" /\ s.base = s.var /\ s.const > 1 -> "MUL"
      [] s.opc = "sdiv" /\ s.base = s.var /\ s.const > 1 -> "DIVGT1"
      [] OTHER -> "CHANGED"

Lowering == {"CHANGED", "DEC", "DIVGT1"}
Raising == {"CHANGED", "INC", "MUL", "DIVLT1"}

\* The effects after which a check that passed may fail ...
Spoils(k) == IF k = "min" THEN Lowering ELSE Raising
\* ... and those after which a check that would have failed may pass.
Repairs(k) == IF k = "min" THEN Raising ELSE Lowering

HasEffect(i, v, effects) == isStoreTo(i, v) /\ getEffect(i) \in effects

\* No instruction of c from place `first` to place `last` has an effect on v.
Untouched(c, v, effects, first, last) ==
    \A m \in first..last : ~HasEffect(c[m], v, effects)

\* The checks of a node that still hold at its end.
init_gen(c, k) ==
    {CheckOf(c[j]) : j \in
        {l \in DOMAIN c : isCall(c[l], k) /\ Untouched(c, c[l].root, Spoils(k), l, Len(c))}}

\* Limits play no part in a kill set.
KillSet(code, n, k, effects) ==
    {[realindex |-> v, bottom_limit |-> 0, top_limit |-> 0] : v \in
        {w \in Checked(code, k) :
            \E j \in DOMAIN code[n] : HasEffect(code[n][j], w, effects)}}

init_kill(code, n, k) == KillSet(code, n, k, Spoils(k))

\* Mutant: the scan for stores is left out.
init_gen_bwBlind(c, k) ==
    subsumeGen({CheckOf(c[l]) : l \in {m \in DOMAIN c : isCall(c[m], k)}})

\* The checks of a node that a violation at its beginning will reach.  The
\* backward scan stops before it looks at the first instruction.
init_gen_bw(c, k) ==
    subsumeGen({CheckOf(c[j]) : j \in
        {l \in DOMAIN c : isCall(c[l], k) /\ Untouched(c, c[l].root, Repairs(k), 2, l)}})

init_kill_BW(code, n, k) == KillSet(code, n, k, Repairs(k))

NoSets(p) == [k \in Kinds |-> [n \in p.nodes |-> {}]]

-----------------------------------------------------------------------------
abs(x) == IF x < 0 THEN -x ELSE x
\* sdiv rounds towards zero.
sdiv(x, y) ==
    IF (x < 0) = (y < 0) THEN abs(x) \div abs(y) ELSE -(abs(x) \div abs(y))

\* What a store makes of the value b of its base; nothing when the operation is
\* undefined.
Outcomes(s, b) ==
    LET x == IF s.constfirst THEN s.const ELSE b
        y == IF s.constfirst THEN b ELSE s.const
    IN  CASE s.opc = "const" -> {s.const}
          [] s.opc = "input" -> Int
          [] s.opc = "add" -> {x + y}
          [] s.opc = "sub" -> {x - y}
          [] s.opc = "mul" -> {x * y}
          [] s.opc = "sdiv" -> IF y = 0 THEN {} ELSE {sdiv(x, y)}

-----------------------------------------------------------------------------
\* What a compiler front end gives, and what it may give.

\* Every call tests a value loaded from its variable in the same node ...
Loaded(c, l, j) ==
    /\ c[l] = load(c[j].tmp, c[j].root)
    /\ \A m \in (l + 1)..(j - 1) : ~isLoadInto(c[m], c[j].tmp)
LoadedHere(p) ==
    \A n \in p.nodes : \A j \in DOMAIN p.code[n] :
        p.code[n][j].op = "call" => \E l \in 1..(j - 1) : Loaded(p.code[n], l, j)

\* ... and the variable has not been stored to since.  In a[i++] it has.
FreshLoads(p) ==
    \A n \in p.nodes : \A j \in DOMAIN p.code[n] :
        p.code[n][j].op = "call" =>
            \E l \in 1..(j - 1) :
                /\ Loaded(p.code[n], l, j)
                /\ \A m \in (l + 1)..(j - 1) : ~isStoreTo(p.code[n][m], p.code[n][j].root)

\* No store subtracts the variable from a constant or divides a constant by it.
HonestStores(p) ==
    \A n \in p.nodes : \A j \in DOMAIN p.code[n] :
        p.code[n][j].op = "store" /\ p.code[n][j].constfirst
            => p.code[n][j].opc \notin {"sub", "sdiv"}

\* No array is empty.  A division that rounds towards zero spoils a max check
\* with a top of 0: -1 passes it, and -1 / 2 does not.
NonEmptyArrays(p) ==
    \A n \in p.nodes : \A j \in DOMAIN p.code[n] :
        p.code[n][j].op = "call" => p.code[n][j].top > 0

\* The scan of init_gen_bw misses no store: none repairs a check of the node
\* from the first place of its instructions.
ScanComplete(p) ==
    \A n \in p.nodes : \A l \in DOMAIN p.code[n] :
        isCall(p.code[n][l], "max") =>
            Untouched(p.code[n], p.code[n][l].root, Repairs("max"), 1, 1)

\* No path leaves the function where the graph shows only other ways on.
NoHiddenReturn(p) == \A n \in p.exits : p.succs[n] = {}
=============================================================================
