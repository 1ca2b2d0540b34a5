-------------------------------- MODULE Sweeps --------------------------------
(***************************************************************************)
(* What ComputeFirst and ComputeBackward have in common: for the min       *)
(* checks and then for the max checks, a do-while loop sweeps over the     *)
(* vector of nodes until a sweep has changed nothing.  localopt goes over  *)
(* it once for each kind, and has no sets.                                 *)
(***************************************************************************)
EXTENDS Code

VARIABLES
    kind,       \* the loop that is running: "min", "max", then "done"
    pos,        \* the place in the vector of the node to visit next
    changed,    \* whether this sweep has changed an out set (forward) or in set
    In, out,    \* the sets of each kind and node
    crashed     \* whether the pass has died in the set operations

analysis == <<prog, code, kind, pos, changed, In, out, crashed>>

\* MCFGreset makes new nodes, with empty sets.
Start ==
    /\ kind = "min" /\ pos = 1 /\ changed = FALSE /\ crashed = FALSE
    /\ In = NoSets(prog) /\ out = NoSets(prog)

StartOnProgram == prog \in Programs /\ code = prog.code /\ Start

Looping == kind \in Kinds /\ ~crashed

\* Mutant: changed is reset before the loop only.
RepeatStale ==
    /\ Looping /\ pos > Len(prog.order) /\ changed
    /\ pos' = 1
    /\ UNCHANGED <<prog, code, kind, changed, In, out, crashed>>

\* Mutant: every sweep begins with empty sets.
RepeatAfresh ==
    /\ Looping /\ pos > Len(prog.order) /\ changed
    /\ pos' = 1 /\ changed' = FALSE
    /\ In' = NoSets(prog) /\ out' = NoSets(prog)
    /\ UNCHANGED <<prog, code, kind, crashed>>

\* while (changed == 1)
Repeat ==
    /\ Looping /\ pos > Len(prog.order) /\ changed
    /\ pos' = 1 /\ changed' = FALSE
    /\ UNCHANGED <<prog, code, kind, In, out, crashed>>

\* Mutant: a single sweep.
FinishEarly ==
    /\ Looping /\ pos > Len(prog.order)
    /\ kind' = IF kind = "min" THEN "max" ELSE "done"
    /\ pos' = 1
    /\ UNCHANGED <<prog, code, changed, In, out, crashed>>

Finish ==
    /\ Looping /\ pos > Len(prog.order) /\ ~changed
    /\ kind' = IF kind = "min" THEN "max" ELSE "done"
    /\ pos' = 1
    /\ UNCHANGED <<prog, code, changed, In, out, crashed>>

-----------------------------------------------------------------------------
TypeOK ==
    /\ code \in [prog.nodes -> Seq(Instrs)]
    /\ kind \in Kinds \cup {"done"}
    /\ pos \in 1..(Len(prog.order) + 1)
    /\ changed \in BOOLEAN /\ crashed \in BOOLEAN
    /\ In \in [Kinds -> [prog.nodes -> SUBSET LightCheck(Vars, Int)]]
    /\ out \in [Kinds -> [prog.nodes -> SUBSET LightCheck(Vars, Int)]]

\* The loops that are over, and what they have left.
Solved(k) == kind = "done" \/ (kind = "max" /\ k = "min")
Answer == [k \in Kinds |-> IF Solved(k) THEN <<In[k], out[k]>> ELSE <<>>]
=============================================================================
