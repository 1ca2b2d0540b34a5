-------------------------- MODULE GlobalElimination --------------------------
(***************************************************************************)
(* What runOnFunction does with the checks once they are inserted:         *)
(* localopt, then globalelimination (ComputeBackward, ModifyMin and        *)
(* ModifyMax, ComputeFirst, EliminateRedundanteMin and -Max), and a run of *)
(* the function that comes out of it.                                      *)
(***************************************************************************)
EXTENDS LocalOpt, ComputeBackward, ComputeFirst, Execution

VARIABLE stage      \* "local", "backward", "forward", "done"

loop == <<kind, pos, changed, In, out>>
vars == <<stage, prog, code, loop, crashed, counter, state>>

CallPlaces(c) ==
    {nj \in UNION {{<<n, j>> : j \in DOMAIN c[n]} : n \in DOMAIN c} :
        c[nj[1]][nj[2]].op = "call"}
CallCount(c) == Cardinality(CallPlaces(c))

ASSUME CounterWordAssumption ==
    CounterWord \in Nat /\ \A p \in Programs : CallCount(p.code) < CounterWord

Init ==
    /\ stage = "local"
    /\ StartOnProgram
    /\ counter = CallCount(code)
    /\ Ready(prog)

-----------------------------------------------------------------------------
LocalStage ==
    /\ stage = "local" /\ NextLocal
    /\ UNCHANGED <<stage, state>>

BackwardStage ==
    /\ stage = "backward" /\ NextBW
    /\ UNCHANGED <<stage, counter, state>>

ForwardStage ==
    /\ stage = "forward" /\ NextFW
    /\ UNCHANGED <<stage, counter, state>>

\* resetcalltocheckinfo and MCFGreset: new nodes, with empty sets.
Reset ==
    /\ kind' = "min" /\ pos' = 1 /\ changed' = FALSE
    /\ In' = NoSets(prog) /\ out' = NoSets(prog)

\* The loops of a stage are over.
Leave(s, next) ==
    /\ stage = s /\ kind = "done" /\ ~crashed
    /\ stage' = next
    /\ Reset
    /\ UNCHANGED <<prog, crashed, state>>

StartBackward == Leave("local", "backward") /\ UNCHANGED <<code, counter>>

\* A call is replaced when the end of its node anticipates a stronger one.
Stronger(k, i, checks) ==
    {c \in Of(checks, i.root) :
        IF k = "min" THEN i.bottom < c.bottom_limit ELSE i.top > c.top_limit}
Strengthened(i, checks) ==
    IF i.op # "call" \/ Stronger(i.kind, i, checks) = {} THEN i
    ELSE IF i.kind = "min"
         THEN [i EXCEPT !.bottom = Tighten(i.root, Stronger("min", i, checks)).bottom_limit]
         ELSE [i EXCEPT !.top = Tighten(i.root, Stronger("max", i, checks)).top_limit]

\* ModifyMin and ModifyMax, and the erasure of the calls they replace.
Modify ==
    /\ code' = [n \in DOMAIN code |->
                  [l \in DOMAIN code[n] |->
                     Strengthened(code[n][l],
                       IF n \in InVector(prog) /\ code[n][l].op = "call"
                       THEN out[code[n][l].kind][n] ELSE {})]]
    /\ Leave("backward", "forward")
    /\ UNCHANGED counter

\* Mutant: the comparisons are the wrong way round.
CoveringFlipped(n, i) ==
    {c \in Of(In[i.kind][n], i.root) :
        IF i.kind = "min" THEN i.bottom >= c.bottom_limit ELSE i.top <= c.top_limit}

\* The available checks at the beginning of its node that make a call
\* redundant.  Each of them takes one off the counter.
Covering(n, i) ==
    {c \in Of(In[i.kind][n], i.root) :
        IF i.kind = "min" THEN i.bottom <= c.bottom_limit ELSE i.top >= c.top_limit}
CoveredPlaces(n) ==
    {l \in DOMAIN code[n] : code[n][l].op = "call" /\ Covering(n, code[n][l]) # {}}
Coverings ==
    UNION {UNION {{<<n, l, c>> : c \in Covering(n, code[n][l])} : l \in CoveredPlaces(n)} :
             n \in InVector(prog)}

\* EliminateRedundanteMin and EliminateRedundanteMax.
Eliminate ==
    /\ code' = [n \in DOMAIN code |-> Erase(code[n], CoveredPlaces(n))]
    /\ counter' = (counter - Cardinality(Coverings)) % CounterWord
    /\ Leave("forward", "done")

Execute ==
    /\ stage = "done" /\ RunNext
    /\ UNCHANGED <<stage, loop, crashed, counter>>

Pass == LocalStage \/ StartBackward \/ BackwardStage \/ Modify \/ ForwardStage \/ Eliminate
Next == Pass \/ Execute

Spec == Init /\ [][Next]_vars

\* runOnFunction is sequential: it goes on until it returns.
FairSpec == Spec /\ WF_vars(Pass)

-----------------------------------------------------------------------------
\* No store of the node before a check lets it fail again: localopt and the
\* eliminations look at a node's first state only.
ChecksFirst(p) ==
    \A n \in p.nodes : \A l \in DOMAIN p.code[n] :
        LET i == p.code[n][l] IN
        i.op = "call" => Untouched(p.code[n], i.root, Spoils(i.kind), 1, l - 1)

\* No store of the node after a max check repairs a violation of it: ModifyMax
\* looks at a node's last state only.
ChecksLast(p) ==
    \A n \in p.nodes : \A l \in DOMAIN p.code[n] :
        LET i == p.code[n][l] IN
        isCall(i, "max") =>
            Untouched(p.code[n], i.root, Repairs("max"), l + 1, Len(p.code[n]))

\* Calls of a node that check one variable come in the order of their loads.
\* In t1 = load v; v = v - 1; t2 = load v; call t2; call t1 the first call passes
\* when the second one, which localopt takes for the same, fails.
LoadsInOrder(p) ==
    \A n \in p.nodes : \A l \in DOMAIN p.code[n] : \A j \in 1..(l - 1) :
        LET c == p.code[n] IN
        c[l].op = "call" /\ isCall(c[j], c[l].kind) /\ c[j].root = c[l].root =>
            \A ll \in 1..(l - 1), lj \in 1..(j - 1) :
                Loaded(c, ll, l) /\ Loaded(c, lj, j) => lj <= ll

\* The functions on which erasing checks is justified, and those on which
\* strengthening them is.
Erasable(p) ==
    /\ LoadedHere(p) /\ LoadsInOrder(p) /\ HonestStores(p) /\ NonEmptyArrays(p)
    /\ ChecksFirst(p)
Strengthenable(p) ==
    FreshLoads(p) /\ ScanComplete(p) /\ NoHiddenReturn(p) /\ ChecksLast(p)

\* Whatever the three stages erase and move, a run that a check of the original
\* code ends has been stopped by a check that is left, there or before.
NoMissedViolation == Erasable(prog) /\ status = "violated" => trapped

\* No check that the stages have strengthened stops a run that passes all
\* checks of the original code and returns.
NoSpuriousTrap == Strengthenable(prog) /\ status = "returned" => ~trapped

\* Each variable is checked against one array size.
UniformLimits(p) ==
    \A k \in Kinds : \A c, d \in Checks(p.code, k) :
        c.realindex = d.realindex => c.top_limit = d.top_limit

\* The number that printresults reports is then the number of calls left.
CounterExact == stage = "done" /\ UniformLimits(prog) => counter = CallCount(code)

\* The pass gets through its stages, unless it dies in a set operation.
Termination == <>(stage = "done" \/ crashed)
=============================================================================
