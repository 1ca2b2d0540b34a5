------------------------------- MODULE Homework -------------------------------
(***************************************************************************)
(* A function is compiled with one of the passes of HW2, and run.          *)
(***************************************************************************)
EXTENDS Unsoundness, ConstantLoads

vars == <<compile, sets, constants, run>>

Init ==
    /\ prog \in Programs /\ pos = 1 /\ InitRun
    /\ \/ pass = "Assignment_4" /\ stage = "uninit" /\ change = 1
       \/ pass = "Assignment_2" /\ stage = "reach" /\ change = 0
    /\ InitUnsoundness /\ InitConstants

Compile ==
    \/ pass = "Assignment_4" /\ Analyse /\ UNCHANGED constants
    \/ pass = "Assignment_2" /\ (Propagate \/ Replace) /\ UNCHANGED sets

Run ==
    /\ Load(IF at \in replaced THEN Constant(at) ELSE env[Instruction.var]) \/ Store \/ Branch
    /\ UNCHANGED <<compile, sets, constants>>

Next == Compile \/ Run

\* A pass is sequential code that nothing interrupts.
Spec == Init /\ [][Next]_vars /\ WF_vars(Compile)

\* The loops of both passes come to an end, for every function.
Terminates == <>(stage = "run")
=============================================================================
