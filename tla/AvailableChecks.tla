--------------------------- MODULE AvailableChecks ---------------------------
(***************************************************************************)
(* ComputeFirst and then a run of the instrumented function it analysed:   *)
(* what the in sets claim about the run.                                   *)
(***************************************************************************)
EXTENDS ComputeFirst, Execution

AInitFW == StartOnProgram /\ Ready(prog)

AnalyseFW == NextFW /\ UNCHANGED state
ExecuteFW ==
    /\ kind = "done"
    /\ RunNext
    /\ UNCHANGED <<kind, pos, changed, In, out, crashed>>

ANextFW == AnalyseFW \/ ExecuteFW

ASpecFW == AInitFW /\ [][ANextFW]_<<analysis, state>>

\* The pass is sequential code: its loops go on unless it dies.
AFairSpecFW == ASpecFW /\ WF_<<analysis, state>>(AdvanceFW /\ UNCHANGED state)

-----------------------------------------------------------------------------
\* The functions for which the analysis reasons about the values tested.
SoundFW(p) == FreshLoads(p) /\ HonestStores(p) /\ NonEmptyArrays(p)

\* A check that the analysis calls available at a node holds of the variable
\* whenever a run that has passed every check so far gets there.
AvailableHolds ==
    SoundFW(prog) /\ status = "running" /\ idx = 1 =>
        \A k \in Kinds : \A c \in In[k][node] : Passes(k, env[c.realindex], c)

\* The do-while loops end.
SweepsEnd == <>(kind = "done" \/ crashed)

\* What the equations give when all nodes are computed at once, round after
\* round, from empty sets.
Rounds(k) ==
    LET N == 3 * Cardinality(prog.nodes)
        round[r \in 0..N] ==
          IF r = 0 THEN [n \in prog.nodes |-> {}]
          ELSE [n \in prog.nodes |->
                  IF n \notin InVector(prog) THEN {}
                  ELSE TransferFW(k, n,
                         IF preds(prog, n) = {} THEN {}
                         ELSE myintersect({round[r - 1][m] : m \in preds(prog, n)}))]
    IN  round[N]

\* The order of the vector does not matter: visiting one node at a time, with
\* the sets of some predecessors already new, ends in the same sets.
OrderIndependent ==
    status = "ready" => \A k \in Kinds : Solved(k) => out[k] = Rounds(k)
=============================================================================
