----------------------------- MODULE MCConstruct -----------------------------
(***************************************************************************)
(* Every function of three blocks with at most two ways on from each, and  *)
(* every one of four blocks that can all be reached from the entry.  The   *)
(* entry may be kept, for the allocas of the arrays, or not.               *)
(***************************************************************************)
EXTENDS ConstructMCFG

Branches(k) == [1..k -> {w \in SUBSET (2..k) : Cardinality(w) <= 2}]

\* Four blocks: any proper subset with the entry has a way out of it.
Reachable ==
    {s \in Branches(4) :
        \A R \in SUBSET (1..4) \ {1..4} : 1 \in R => \E a \in R : ~(s[a] \subseteq R)}

MCFunctions ==
    {[blocks |-> <<1, 2, 3>>, succs |-> s, kept |-> t] : s \in Branches(3), t \in SUBSET (1..3)}
      \cup {[blocks |-> <<1, 2, 3, 4>>, succs |-> s, kept |-> t] : s \in Reachable, t \in SUBSET (1..4)}
=============================================================================
