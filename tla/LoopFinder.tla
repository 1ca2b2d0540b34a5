------------------------------ MODULE LoopFinder ------------------------------
(***************************************************************************)
(* getDominators, findBackEdges and findLoops of project.cpp, the first    *)
(* part of loopopt.                                                        *)
(*                                                                         *)
(* The graph is an MCFG whose nodes are numbered in the order of their     *)
(* addresses, in which the code's sets and maps are iterated.  Node 1 is   *)
(* its entry.  The code looks every predecessor up in dominatorSet: all    *)
(* nodes are reachable.                                                    *)
(***************************************************************************)
EXTENDS Search, Sequences, SequencesExt

CONSTANT Flows      \* functions, as records with a field succs

Nodes(f) == DOMAIN f.succs
Preds(f, n) == {m \in Nodes(f) : n \in f.succs[m]}

\* What is reached from a node without entering others.
Reach(f, n, avoiding) == Found([m \in Nodes(f) |-> f.succs[m] \ avoiding], {n} \ avoiding)

Wellformed(f) ==
    /\ IsFiniteSet(Nodes(f)) /\ Nodes(f) = 1 .. Cardinality(Nodes(f))
    /\ \A n \in Nodes(f) : f.succs[n] \subseteq Nodes(f) \ {1}
    /\ 1 \in Nodes(f) /\ f.succs[1] # {} /\ Reach(f, 1, {}) = Nodes(f)

ASSUME FlowsAssumption == \A f \in Flows : Wellformed(f)

VARIABLES
    flow,           \* the function
    stage,          \* "dominators", "loops", "moves", "run"
    nodeList,       \* the nodes to be looked at
    visited,
    dominatorSet,   \* for every node looked at: the nodes that dominate it
    loops           \* for every back edge: the nodes of its loop

finder == <<flow, nodeList, visited, dominatorSet, loops>>

-----------------------------------------------------------------------------
Empty == [n \in {} |-> {}]

InitFinder ==
    /\ flow \in Flows /\ stage = "dominators"
    /\ nodeList = <<1>> /\ visited = {}
    /\ dominatorSet = Empty /\ loops = Empty

\* The sets of those predecessors are intersected that have one already; and
\* insert leaves the set of a node as it was computed first.
Intersected(n) ==
    LET known == Preds(flow, n) \cap DOMAIN dominatorSet
    IN  {m \in Nodes(flow) : known # {} /\ \A p \in known : m \in dominatorSet[p]}

\* The nodes of a set in the order in which it is iterated.
InOrder(S) ==
    {s \in [1 .. Cardinality(S) -> S] : Range(s) = S /\ \A k \in 2 .. Cardinality(S) : s[k - 1] < s[k]}

\* One round of getDominators.
Visit ==
    /\ stage = "dominators" /\ nodeList # << >>
    /\ LET n == Head(nodeList)
           seen == visited \cup {n}
       IN  /\ visited' = seen
           /\ \E next \in InOrder(flow.succs[n] \ seen) : nodeList' = Tail(nodeList) \o next
           /\ dominatorSet' = [m \in DOMAIN dominatorSet \cup {n} |->
                                 IF m \in DOMAIN dominatorSet THEN dominatorSet[m]
                                 ELSE Intersected(n) \cup {n}]
    /\ UNCHANGED <<flow, stage, loops>>

\* Whether m dominates n; the mutant has them the other way round.
DominatesSwapped(n, m) == n \in dominatorSet[m]
Dominates(n, m) == m \in dominatorSet[n]

BackEdges == {e \in Nodes(flow) \X Nodes(flow) : e[2] \in flow.succs[e[1]] /\ Dominates(e[1], e[2])}

\* Of the nodes from which the source of the back edge can be reached, on any
\* way, those that the header dominates.
LoopNodes(e) == {n \in Nodes(flow) : Dominates(n, e[2]) /\ e[1] \in Reach(flow, n, {})}

FindLoops ==
    /\ stage = "dominators" /\ nodeList = << >>
    /\ stage' = "loops"
    /\ loops' = [e \in BackEdges |-> LoopNodes(e)]
    /\ UNCHANGED <<flow, nodeList, visited, dominatorSet>>

-----------------------------------------------------------------------------
\* What the words mean: every way to n leads through d; and the nodes from
\* which the back edge is reached without its header.
TrulyDominates(f, d, n) == n \notin Reach(f, 1, {d})
TrueBackEdges(f) == {e \in Nodes(f) \X Nodes(f) : e[2] \in f.succs[e[1]] /\ TrulyDominates(f, e[2], e[1])}
NaturalLoop(f, e) == {e[2]} \cup {n \in Nodes(f) : e[1] \in Reach(f, n, {e[2]})}

\* Without the back edges a graph without goto has no cycle.
Forward(f) ==
    LET back == TrueBackEdges(f)
    IN  [succs |-> [n \in Nodes(f) |-> {m \in f.succs[n] : <<n, m>> \notin back}]]
Structured(f) ==
    LET forward == Forward(f)
    IN  \A n \in Nodes(f) : \A m \in forward.succs[n] : n \notin Reach(forward, m, {})

\* In a function without goto the loops have the right headers and all of
\* their nodes, although a node keeps the dominators it was given before all
\* of its predecessors had theirs; nodes of an outer loop may be among them,
\* but only such as go round with the header.
LoopsHold ==
    stage = "loops" /\ Structured(flow) =>
        /\ DOMAIN loops = TrueBackEdges(flow)
        /\ \A e \in DOMAIN loops :
             /\ NaturalLoop(flow, e) \subseteq loops[e]
             /\ \A n \in loops[e] : n \in Reach(flow, e[2], {}) /\ e[2] \in Reach(flow, n, {})
=============================================================================
