-------------------------- MODULE AnticipatedChecks --------------------------
(***************************************************************************)
(* ComputeBackward and then a run of the instrumented function it          *)
(* analysed: what the in sets claim about the rest of the run.             *)
(***************************************************************************)
EXTENDS ComputeBackward, Execution

VARIABLE owed   \* the run has been where an anticipated max check failed

AInit == StartOnProgram /\ Ready(prog) /\ owed = FALSE

Analyse == NextBW /\ UNCHANGED <<state, owed>>

FailsAnticipated ==
    \E c \in In["max"][node'] : ~Passes("max", env'[c.realindex], c)

Proceed ==
    /\ kind = "done"
    /\ RunNext
    /\ owed' = (owed \/ (status' = "running" /\ idx' = 1 /\ FailsAnticipated))
    /\ UNCHANGED <<kind, pos, changed, In, out, crashed>>

ANext == Analyse \/ Proceed

ASpec == AInit /\ [][ANext]_<<analysis, state, owed>>
AFairSpec == ASpec /\ WF_<<analysis, state, owed>>(AdvanceBW /\ UNCHANGED <<state, owed>>)

-----------------------------------------------------------------------------
\* The functions for which the analysis reasons about the values tested.
Sound(p) == LoadedHere(p) /\ ScanComplete(p) /\ NoHiddenReturn(p)

\* A run that is at a node with a variable beyond an anticipated max check
\* does not return: a later check of the original code will end it.
AnticipatedFails == Sound(prog) /\ status = "returned" => ~owed

\* The do-while loops end.
LoopsEnd == <>(kind = "done" \/ crashed)
=============================================================================
