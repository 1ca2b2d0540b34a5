------------------------------- MODULE LocalOpt -------------------------------
(***************************************************************************)
(* localopt: within each node, a call that repeats an earlier one is       *)
(* erased, first among the min calls of every node and then among the max  *)
(* calls.  Two calls are the same when their indices are loads of one      *)
(* variable, whatever was stored to it between the loads, and their limits *)
(* are equal.                                                              *)
(***************************************************************************)
EXTENDS Sweeps

CONSTANT CounterWord    \* the numbers that counter can hold

VARIABLE counter        \* the number of checks that printresults reports

Repeated(c, k) ==
    {l \in DOMAIN c :
        isCall(c[l], k) /\ \E m \in 1..(l - 1) : isCall(c[m], k) /\ CheckOf(c[m]) = CheckOf(c[l])}

\* The calls at some places are erased; the others keep their places.
Erase(c, places) == [l \in DOMAIN c |-> IF l \in places THEN Other ELSE c[l]]

\* Mutant: counter-- is left out.
VisitUncounted ==
    /\ Looping /\ pos <= Len(prog.order)
    /\ LET n == prog.order[pos] IN code' = [code EXCEPT ![n] = Erase(code[n], Repeated(code[n], kind))]
    /\ pos' = pos + 1
    /\ UNCHANGED <<prog, counter, kind, changed, In, out, crashed>>

VisitLocal ==
    /\ Looping /\ pos <= Len(prog.order)
    /\ LET n == prog.order[pos]
           repeated == Repeated(code[n], kind)
       IN  /\ code' = [code EXCEPT ![n] = Erase(code[n], repeated)]
           /\ counter' = (counter - Cardinality(repeated)) % CounterWord
    /\ pos' = pos + 1
    /\ UNCHANGED <<prog, kind, changed, In, out, crashed>>

FinishLocal ==
    /\ Looping /\ pos > Len(prog.order)
    /\ kind' = IF kind = "min" THEN "max" ELSE "done"
    /\ pos' = 1
    /\ UNCHANGED <<prog, code, counter, changed, In, out, crashed>>

\* deletefromMCFG erases an empty range: the min calls just freed are still in
\* the node when the max loop asks what they call.
CrashLocal ==
    /\ Looping /\ kind = "max" /\ pos <= Len(prog.order)
    /\ LET n == prog.order[pos] IN Repeated(prog.code[n], "min") # {}
    /\ crashed' = TRUE
    /\ UNCHANGED <<prog, code, kind, pos, counter, changed, In, out>>

NextLocal == VisitLocal \/ FinishLocal \/ CrashLocal
=============================================================================
