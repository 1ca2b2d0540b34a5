----------------------------- MODULE ComputeFirst -----------------------------
(***************************************************************************)
(* The forward analysis of globalelimination: which checks are available,  *)
(* that is have been made on every path and not been spoiled since.        *)
(* ComputeFirst sweeps over the vector of nodes until a sweep changes no   *)
(* out set, for the min checks and then for the max checks.                *)
(***************************************************************************)
EXTENDS Sweeps

\* The right-hand sides of the equations at a node, read from the sets of the
\* moment.
InOf(k, n) ==
    IF preds(prog, n) = {} THEN In[k][n]
                           ELSE myintersect({out[k][m] : m \in preds(prog, n)})
\* Mutant: mysubtract2 is left out.
TransferUnkilled(k, n, in) == myunion(in, init_gen(code[n], k))

TransferFW(k, n, in) ==
    myunion(mysubtract2(in, init_kill(code, n, k)), init_gen(code[n], k))

\* Mutant: changed tells of the last node only.
VisitForgetful ==
    /\ Looping /\ pos <= Len(prog.order)
    /\ LET n == prog.order[pos]
           new == TransferFW(kind, n, InOf(kind, n))
       IN  /\ In' = [In EXCEPT ![kind][n] = InOf(kind, n)]
           /\ out' = [out EXCEPT ![kind][n] = new]
           /\ changed' = (new # out[kind][n])
    /\ pos' = pos + 1
    /\ UNCHANGED <<prog, code, kind, crashed>>

VisitFW ==
    /\ Looping /\ pos <= Len(prog.order)
    /\ LET n == prog.order[pos]
           new == TransferFW(kind, n, InOf(kind, n))
       IN  /\ In' = [In EXCEPT ![kind][n] = InOf(kind, n)]
           /\ out' = [out EXCEPT ![kind][n] = new]
           /\ changed' = (changed \/ new # out[kind][n])
    /\ pos' = pos + 1
    /\ UNCHANGED <<prog, code, kind, crashed>>

\* Visiting the node erases an element of a set through the iterator that
\* walks it, which then steps on from freed memory.
ErasesFW(n) ==
    \/ \E m \in preds(prog, n) : ~(out[kind][m] \subseteq InOf(kind, n))
    \/ mysubtract2(InOf(kind, n), init_kill(code, n, kind)) # InOf(kind, n)

CrashFW ==
    /\ Looping /\ pos <= Len(prog.order) /\ ErasesFW(prog.order[pos])
    /\ crashed' = TRUE
    /\ UNCHANGED <<prog, code, kind, pos, changed, In, out>>

AdvanceFW == VisitFW \/ Repeat \/ Finish
NextFW == AdvanceFW \/ CrashFW

SpecFW == StartOnProgram /\ [][NextFW]_analysis

-----------------------------------------------------------------------------
Forward == INSTANCE Availability WITH answer <- Answer

\* A loop is left only with a solution of its equations at every node of the
\* vector: a sweep without a change covers what a node read of another before
\* the other was visited.  The sets of a loop that is over stay as they are.
ImplementsAvailability == Forward!Spec

\* No visit takes a check back: from empty sets, the sweeps only add.
Grows ==
    [][\A k \in Kinds, n \in prog.nodes :
          In[k][n] \subseteq In'[k][n] /\ out[k][n] \subseteq out'[k][n]]_analysis
=============================================================================
