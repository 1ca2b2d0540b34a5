--------------------------- MODULE ComputeBackward ---------------------------
(***************************************************************************)
(* The backward analysis of globalelimination: which checks are            *)
(* anticipated, that is will be made on every path before anything repairs *)
(* a violation of them, and how strong they are at least.                  *)
(* ComputeBackward sweeps over the vector in its own order, against the    *)
(* flow of the facts, until a sweep changes no in set.                     *)
(***************************************************************************)
EXTENDS Sweeps

OutOf(k, n) ==
    IF prog.succs[n] = {} THEN out[k][n]
                          ELSE myintersect2({In[k][m] : m \in prog.succs[n]})
\* Mutant: mysubtract2 is commented out in the max loop too.
SurvivorsAll(k, n, o) == o

\* Only the max loop takes the killed checks out.
Survivors(k, n, o) ==
    IF k = "min" THEN o ELSE mysubtract2(o, init_kill_BW(code, n, k))
TransferBW(k, n, o) == myunion2(Survivors(k, n, o), init_gen_bw(code[n], k))

VisitBW ==
    /\ Looping /\ pos <= Len(prog.order)
    /\ LET n == prog.order[pos]
           new == TransferBW(kind, n, OutOf(kind, n))
       IN  /\ out' = [out EXCEPT ![kind][n] = OutOf(kind, n)]
           /\ In' = [In EXCEPT ![kind][n] = new]
           /\ changed' = (changed \/ new # In[kind][n])
    /\ pos' = pos + 1
    /\ UNCHANGED <<prog, code, kind, crashed>>

\* As in ComputeFirst, an element goes through the iterator that walks the set.
ErasesBW(n) ==
    \/ \E m \in prog.succs[n] : ~(Roots(In[kind][m]) \subseteq Roots(OutOf(kind, n)))
    \/ Survivors(kind, n, OutOf(kind, n)) # OutOf(kind, n)

CrashBW ==
    /\ Looping /\ pos <= Len(prog.order) /\ ErasesBW(prog.order[pos])
    /\ crashed' = TRUE
    /\ UNCHANGED <<prog, code, kind, pos, changed, In, out>>

AdvanceBW == VisitBW \/ Repeat \/ Finish
NextBW == AdvanceBW \/ CrashBW

SpecBW == StartOnProgram /\ [][NextBW]_analysis

-----------------------------------------------------------------------------
Backward == INSTANCE Anticipation WITH answer <- Answer

\* A loop is left only with a solution of its equations, although the vector
\* is swept against the flow; a set never holds two checks of one index, which
\* subsumeGen alone does not see to.
ImplementsAnticipation == Backward!Spec

\* Once a check on a variable is anticipated at a node it stays so, and can
\* only become stronger: a lower top for "max", a higher bottom for "min".
Strengthens ==
    [][\A k \in Kinds, n \in prog.nodes : \A c \in In[k][n] :
          \E d \in In'[k][n] : /\ d.realindex = c.realindex
                               /\ d.top_limit <= c.top_limit
                               /\ d.bottom_limit >= c.bottom_limit]_analysis
=============================================================================
