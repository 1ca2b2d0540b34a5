---------------------------- MODULE LoopMovesProofs ----------------------------
(***************************************************************************)
(* findLoops finds the loops of every function without goto, whatever its  *)
(* graph is, although getDominators looks at every node only once.         *)
(***************************************************************************)
EXTENDS LoopMoves, SequenceTheorems

-----------------------------------------------------------------------------
(***************************************************************************)
(* What is reached in a graph.                                             *)
(***************************************************************************)
Graph(f) == IsFiniteSet(Nodes(f)) /\ \A n \in Nodes(f) : f.succs[n] \subseteq Nodes(f)

LEMMA ReachIsClosed ==
    ASSUME NEW f, Graph(f), NEW n \in Nodes(f), NEW avoiding
    PROVE  /\ {n} \ avoiding \subseteq Reach(f, n, avoiding)
           /\ Reach(f, n, avoiding) \subseteq Nodes(f)
           /\ \A m \in Reach(f, n, avoiding) : f.succs[m] \ avoiding \subseteq Reach(f, n, avoiding)
<1> DEFINE next == [m \in Nodes(f) |-> f.succs[m] \ avoiding]
<1>1. DOMAIN next = Nodes(f) /\ IsFiniteSet(DOMAIN next) /\ {n} \ avoiding \subseteq DOMAIN next
  BY DEF Graph
<1>2. \A m \in DOMAIN next : next[m] \subseteq DOMAIN next
  BY DEF Graph
<1>3. Reach(f, n, avoiding) = Found(next, {n} \ avoiding)
  BY DEF Reach
<1>4. \A m \in Nodes(f) : next[m] = f.succs[m] \ avoiding
  OBVIOUS
<1> HIDE DEF next
<1>5. /\ {n} \ avoiding \subseteq Found(next, {n} \ avoiding)
      /\ Found(next, {n} \ avoiding) \subseteq DOMAIN next
      /\ \A m \in Found(next, {n} \ avoiding) : next[m] \subseteq Found(next, {n} \ avoiding)
  BY <1>1, <1>2, FoundIsClosed
<1> QED
  BY <1>1, <1>3, <1>4, <1>5

LEMMA ReachIsLeast ==
    ASSUME NEW f, Graph(f), NEW n \in Nodes(f), NEW avoiding,
           NEW S, {n} \ avoiding \subseteq S,
           \A m \in S \cap Nodes(f) : f.succs[m] \ avoiding \subseteq S
    PROVE  Reach(f, n, avoiding) \subseteq S
<1> DEFINE next == [m \in Nodes(f) |-> f.succs[m] \ avoiding]
           T == S \cap Nodes(f)
<1>1. DOMAIN next = Nodes(f) /\ Cardinality(DOMAIN next) \in Nat /\ {n} \ avoiding \subseteq T
  BY FS_CardinalityType DEF Graph
<1>2. \A m \in T : next[m] \subseteq T
  BY DEF Graph
<1>3. Reach(f, n, avoiding) = Found(next, {n} \ avoiding)
  BY DEF Reach
<1> HIDE DEF next, T
<1>4. Found(next, {n} \ avoiding) \subseteq T
  BY <1>1, <1>2, FoundIsLeast
<1> QED
  BY <1>3, <1>4 DEF T

\* What is reached without some nodes is none of them.
LEMMA ReachAvoids ==
    ASSUME NEW f, Graph(f), NEW n \in Nodes(f), NEW avoiding
    PROVE  Reach(f, n, avoiding) \cap avoiding = {}
<1> DEFINE S == Nodes(f) \ avoiding
<1>1. {n} \ avoiding \subseteq S /\ \A m \in S \cap Nodes(f) : f.succs[m] \ avoiding \subseteq S
  BY DEF Graph
<1>2. Reach(f, n, avoiding) \subseteq S
  <2> HIDE DEF S
  <2> QED
    BY <1>1, ReachIsLeast
<1> QED
  BY <1>2

LEMMA ReachGoesOn ==
    ASSUME NEW f, Graph(f), NEW n \in Nodes(f), NEW avoiding, NEW m \in Reach(f, n, avoiding)
    PROVE  Reach(f, m, avoiding) \subseteq Reach(f, n, avoiding)
<1>1. m \in Nodes(f) /\ m \notin avoiding
  BY ReachIsClosed, ReachAvoids
<1>2. \A k \in Reach(f, n, avoiding) \cap Nodes(f) : f.succs[k] \ avoiding \subseteq Reach(f, n, avoiding)
  BY ReachIsClosed
<1> QED
  BY <1>1, <1>2, ReachIsLeast

LEMMA ReachAnyway ==
    ASSUME NEW f, Graph(f), NEW n \in Nodes(f), NEW avoiding
    PROVE  Reach(f, n, avoiding) \subseteq Reach(f, n, {})
<1>1. n \in Reach(f, n, {}) /\ \A m \in Reach(f, n, {}) : f.succs[m] \subseteq Reach(f, n, {})
  BY ReachIsClosed
<1> QED
  BY <1>1, ReachIsLeast

-----------------------------------------------------------------------------
(***************************************************************************)
(* What it means to dominate.                                              *)
(***************************************************************************)
LEMMA WellformedGraph ==
    ASSUME NEW f, Wellformed(f)
    PROVE  Graph(f) /\ 1 \in Nodes(f) /\ \A n \in Nodes(f) : f.succs[n] \subseteq Nodes(f) \ {1}
  BY DEF Wellformed, Graph

LEMMA AllReached ==
    ASSUME NEW f, Wellformed(f), NEW S, 1 \in S, \A n \in S \cap Nodes(f) : f.succs[n] \subseteq S
    PROVE  Nodes(f) \subseteq S
<1>1. Graph(f) /\ 1 \in Nodes(f) /\ Reach(f, 1, {}) = Nodes(f)
  BY WellformedGraph DEF Wellformed
<1>2. {1} \ {} \subseteq S /\ \A m \in S \cap Nodes(f) : f.succs[m] \ {} \subseteq S
  OBVIOUS
<1>3. Reach(f, 1, {}) \subseteq S
  BY <1>1, <1>2, ReachIsLeast
<1> QED
  BY <1>1, <1>3

LEMMA DominatesItself ==
    ASSUME NEW f, Wellformed(f), NEW n \in Nodes(f) PROVE TrulyDominates(f, n, n)
  BY WellformedGraph, ReachAvoids DEF TrulyDominates

\* The entry is dominated by itself only.
LEMMA DominatesEntry ==
    ASSUME NEW f, Wellformed(f), NEW d \in Nodes(f), TrulyDominates(f, d, 1) PROVE d = 1
  BY WellformedGraph, ReachIsClosed DEF TrulyDominates

\* What dominates a node dominates those before it.
LEMMA DominatesBefore ==
    ASSUME NEW f, Wellformed(f), NEW d \in Nodes(f), NEW n \in Nodes(f), NEW p \in Preds(f, n),
           d # n, TrulyDominates(f, d, n)
    PROVE  TrulyDominates(f, d, p)
<1>1. Graph(f) /\ 1 \in Nodes(f) /\ p \in Nodes(f) /\ n \in f.succs[p]
  BY WellformedGraph DEF Preds
<1>2. p \in Reach(f, 1, {d}) => n \in Reach(f, 1, {d})
  BY <1>1, ReachIsClosed
<1> QED
  BY <1>2 DEF TrulyDominates

\* A node is reached from those that dominate it.
LEMMA DominatedIsReached ==
    ASSUME NEW f, Wellformed(f), NEW d \in Nodes(f), NEW n \in Nodes(f), TrulyDominates(f, d, n)
    PROVE  n \in Reach(f, d, {})
<1> DEFINE S == Reach(f, 1, {d}) \cup Reach(f, d, {})
<1>1. Graph(f) /\ 1 \in Nodes(f)
  BY WellformedGraph
<1>2. d \in Reach(f, d, {}) /\ \A m \in Reach(f, d, {}) : f.succs[m] \subseteq Reach(f, d, {})
  BY <1>1, ReachIsClosed
<1>3. {1} \ {d} \subseteq Reach(f, 1, {d}) /\ \A m \in Reach(f, 1, {d}) : f.succs[m] \ {d} \subseteq Reach(f, 1, {d})
  BY <1>1, ReachIsClosed
<1>4. 1 \in S /\ \A m \in S \cap Nodes(f) : f.succs[m] \subseteq S
  BY <1>2, <1>3
<1>5. Nodes(f) \subseteq S
  <2> HIDE DEF S
  <2> QED
    BY <1>4, AllReached
<1> QED
  BY <1>5 DEF TrulyDominates

\* The header dominates the nodes from which the back edge is reached
\* without it.
LEMMA HeaderDominates ==
    ASSUME NEW f, Wellformed(f), NEW h \in Nodes(f), NEW m \in Nodes(f), NEW n \in Nodes(f),
           TrulyDominates(f, h, m), m \in Reach(f, n, {h})
    PROVE  TrulyDominates(f, h, n)
<1>1. Graph(f) /\ 1 \in Nodes(f)
  BY WellformedGraph
<1>2. n \in Reach(f, 1, {h}) => m \in Reach(f, 1, {h})
  BY <1>1, ReachGoesOn
<1> QED
  BY <1>2 DEF TrulyDominates

-----------------------------------------------------------------------------
(***************************************************************************)
(* getDominators.  A node is given too many dominators, because it is not  *)
(* looked at again when more of its predecessors have theirs; but it is    *)
(* reached from each of them without a back edge.                          *)
(***************************************************************************)
LEMMA ForwardGraph ==
    ASSUME NEW f, Wellformed(f)
    PROVE  /\ Graph(Forward(f)) /\ Nodes(Forward(f)) = Nodes(f)
           /\ \A n \in Nodes(f) : Forward(f).succs[n] = {m \in f.succs[n] : <<n, m>> \notin TrueBackEdges(f)}
<1> DEFINE g == [n \in Nodes(f) |-> {m \in f.succs[n] : <<n, m>> \notin TrueBackEdges(f)}]
<1>1. Forward(f).succs = g
  BY DEF Forward
<1>2. DOMAIN g = Nodes(f) /\ \A n \in Nodes(f) : g[n] = {m \in f.succs[n] : <<n, m>> \notin TrueBackEdges(f)}
  OBVIOUS
<1> HIDE DEF g
<1>3. Nodes(Forward(f)) = Nodes(f)
  BY <1>1, <1>2 DEF Nodes
<1> QED
  BY <1>1, <1>2, <1>3, WellformedGraph DEF Graph

IsDominatorSet(n) ==
    /\ n \in dominatorSet[n] /\ dominatorSet[n] \subseteq visited
    /\ \A d \in Nodes(flow) : TrulyDominates(flow, d, n) => d \in dominatorSet[n]
    /\ \A d \in dominatorSet[n] : n \in Reach(flow, d, {}) /\ n \in Reach(Forward(flow), d, {})
DominatorsInv ==
    /\ visited \subseteq Nodes(flow) /\ nodeList \in Seq(Nodes(flow))
    /\ DOMAIN dominatorSet = visited
    /\ 1 \in visited \cup Range(nodeList)
    /\ \A n \in visited : flow.succs[n] \subseteq visited \cup Range(nodeList)
    /\ \A n \in Range(nodeList) \ {1} : Preds(flow, n) \cap visited # {}
    /\ \A n \in visited : IsDominatorSet(n)

\* What getDominators and findLoops rest on.
FinderInv ==
    /\ flow \in Flows
    /\ stage = "dominators" => DominatorsInv
    /\ LoopsHold

LEMMA FlowIsWellformed == ASSUME flow \in Flows PROVE Wellformed(flow)
  BY FlowsAssumption

\* The dominators of a node looked at for the first time.
LEMMA NewDominators ==
    ASSUME flow \in Flows, DominatorsInv, NEW n \in Range(nodeList), n \notin visited,
           NEW D, D = Intersected(n) \cup {n}
    PROVE  /\ D \subseteq visited \cup {n}
           /\ \A d \in Nodes(flow) : TrulyDominates(flow, d, n) => d \in D
           /\ \A d \in D : n \in Reach(flow, d, {}) /\ n \in Reach(Forward(flow), d, {})
<1> DEFINE known == Preds(flow, n) \cap visited
<1>1. Wellformed(flow) /\ Graph(flow) /\ n \in Nodes(flow)
  BY FlowIsWellformed, WellformedGraph DEF DominatorsInv, Range
<1>2. \A m \in Intersected(n) : m \in Nodes(flow) /\ known # {} /\ \A p \in known : m \in dominatorSet[p]
  BY DEF Intersected, DominatorsInv
<1>3. \A m \in Nodes(flow) : known # {} /\ (\A p \in known : m \in dominatorSet[p]) => m \in Intersected(n)
  BY DEF Intersected, DominatorsInv
<1>4. \A p \in known : p \in visited /\ p \in Nodes(flow) /\ n \in flow.succs[p] /\ IsDominatorSet(p)
  BY DEF Preds, DominatorsInv
<1>5. n # 1 => known # {}
  BY DEF DominatorsInv
<1> HIDE DEF known
<1>6. D \subseteq visited \cup {n}
  BY <1>2, <1>4 DEF IsDominatorSet
<1>7. ASSUME NEW d \in Nodes(flow), TrulyDominates(flow, d, n) PROVE d \in D
  <2>1. CASE d = n
    BY <2>1
  <2>2. CASE d # n
    <3>1. n # 1
      BY <1>1, <1>7, <2>2, DominatesEntry
    <3>2. \A p \in known : TrulyDominates(flow, d, p)
      <4>1. \A p \in known : p \in Preds(flow, n)
        BY <1>4 DEF Preds
      <4> QED
        BY <1>1, <1>7, <2>2, <4>1, DominatesBefore
    <3> QED
      BY <1>3, <1>4, <1>5, <3>1, <3>2 DEF IsDominatorSet
  <2> QED
    BY <2>1, <2>2
<1>8. ASSUME NEW d \in D PROVE n \in Reach(flow, d, {}) /\ n \in Reach(Forward(flow), d, {})
  <2>1. /\ Graph(Forward(flow)) /\ Nodes(Forward(flow)) = Nodes(flow)
        /\ \A m \in Nodes(flow) : Forward(flow).succs[m] = {k \in flow.succs[m] : <<m, k>> \notin TrueBackEdges(flow)}
    BY <1>1, ForwardGraph
  <2>2. CASE d = n
    BY <1>1, <2>1, <2>2, ReachIsClosed
  <2>3. CASE d # n
    <3>1. d \in Nodes(flow) /\ known # {} /\ \A p \in known : d \in dominatorSet[p]
      BY <1>2, <2>3
    <3>2. PICK p \in known : TRUE
      BY <3>1
    <3>3. p \in Nodes(flow) /\ n \in flow.succs[p] /\ p \in Reach(flow, d, {}) /\ p \in Reach(Forward(flow), d, {})
      BY <1>4, <3>1, <3>2 DEF IsDominatorSet
    <3>4. n \in Reach(flow, d, {})
      BY <1>1, <3>1, <3>3, ReachIsClosed
    <3>5. <<p, n>> \notin TrueBackEdges(flow)
      <4>1. SUFFICES ASSUME TrulyDominates(flow, n, p) PROVE FALSE
        BY DEF TrueBackEdges
      <4>2. n \in dominatorSet[p] /\ dominatorSet[p] \subseteq visited
        BY <1>1, <1>4, <3>2, <4>1 DEF IsDominatorSet
      <4> QED
        BY <4>2
    <3>6. n \in Forward(flow).succs[p]
      BY <2>1, <3>3, <3>5
    <3>7. n \in Reach(Forward(flow), d, {})
      BY <2>1, <3>1, <3>3, <3>6, ReachIsClosed
    <3> QED
      BY <3>4, <3>7
  <2> QED
    BY <2>2, <2>3
<1> QED
  BY <1>6, <1>7, <1>8

LEMMA RangeOfBoth ==
    ASSUME NEW S, NEW s \in Seq(S), NEW t \in Seq(S) PROVE Range(s \o t) = Range(s) \cup Range(t)
<1>1. Range(s) \cup Range(t) \subseteq Range(s \o t)
  <2>1. \A k \in DOMAIN s : k \in DOMAIN (s \o t) /\ (s \o t)[k] = s[k]
    OBVIOUS
  <2>2. \A k \in DOMAIN t : Len(s) + k \in DOMAIN (s \o t) /\ (s \o t)[Len(s) + k] = t[k]
    OBVIOUS
  <2> QED
    BY <2>1, <2>2 DEF Range
<1>2. \A k \in DOMAIN (s \o t) : (s \o t)[k] \in Range(s) \cup Range(t)
  <2>1. ASSUME NEW k \in DOMAIN (s \o t) PROVE (s \o t)[k] \in Range(s) \cup Range(t)
    <3>1. CASE k <= Len(s)
      <4>1. k \in DOMAIN s /\ (s \o t)[k] = s[k]
        BY <3>1
      <4> QED
        BY <4>1 DEF Range
    <3>2. CASE ~(k <= Len(s))
      <4>1. k - Len(s) \in DOMAIN t /\ (s \o t)[k] = t[k - Len(s)]
        BY <3>2
      <4> QED
        BY <4>1 DEF Range
    <3> QED
      BY <3>1, <3>2
  <2> QED
    BY <2>1
<1> QED
  BY <1>1, <1>2 DEF Range

LEMMA RangeOfTail ==
    ASSUME NEW S, NEW s \in Seq(S), s # << >> PROVE Range(s) = {Head(s)} \cup Range(Tail(s))
<1>1. <<Head(s)>> \in Seq(S) /\ Tail(s) \in Seq(S) /\ s = <<Head(s)>> \o Tail(s)
  OBVIOUS
<1>2. Range(<<Head(s)>>) = {Head(s)}
  BY DEF Range
<1>3. Range(<<Head(s)>> \o Tail(s)) = Range(<<Head(s)>>) \cup Range(Tail(s))
  <2> DEFINE a == <<Head(s)>>
             b == Tail(s)
  <2>1. a \in Seq(S) /\ b \in Seq(S)
    BY <1>1
  <2> HIDE DEF a, b
  <2>2. Range(a \o b) = Range(a) \cup Range(b)
    BY <2>1, RangeOfBoth
  <2> QED
    BY <2>2 DEF a, b
<1> QED
  BY <1>1, <1>2, <1>3, Zenon

LEMMA InitHolds == ASSUME InitFinder PROVE FinderInv
<1>1. flow \in Flows /\ stage = "dominators" /\ nodeList = <<1>> /\ visited = {} /\ dominatorSet = Empty
  BY DEF InitFinder
<1>2. Wellformed(flow) /\ 1 \in Nodes(flow)
  BY <1>1, FlowIsWellformed, WellformedGraph
<1>3. Range(nodeList) = {1} /\ nodeList \in Seq(Nodes(flow))
  BY <1>1, <1>2 DEF Range
<1>4. DOMAIN dominatorSet = {}
  BY <1>1 DEF Empty
<1> QED
  BY <1>1, <1>3, <1>4 DEF FinderInv, DominatorsInv, LoopsHold

\* One round: a node is taken out of the list, those behind it come in.
LEMMA VisitHolds == ASSUME FinderInv, Visit PROVE FinderInv'
<1> DEFINE n == Head(nodeList)
           seen == visited \cup {n}
<1>1. /\ stage = "dominators" /\ stage' = "dominators" /\ flow' = flow /\ flow \in Flows
      /\ DominatorsInv /\ nodeList # << >>
  BY DEF Visit, FinderInv
<1>2. PICK next \in InOrder(flow.succs[n] \ seen) : nodeList' = Tail(nodeList) \o next
  BY DEF Visit
<1>3. visited' = seen
  BY DEF Visit
<1>4. Wellformed(flow) /\ nodeList \in Seq(Nodes(flow)) /\ n \in Nodes(flow) /\ n \in Range(nodeList)
  BY <1>1, FlowIsWellformed DEF DominatorsInv, Range
<1>5. next \in Seq(Nodes(flow)) /\ Range(next) = flow.succs[n] \ seen
  <2>1. Range(next) = flow.succs[n] \ seen
    BY <1>2 DEF InOrder
  <2>2. flow.succs[n] \ seen \subseteq Nodes(flow) /\ IsFiniteSet(Nodes(flow))
    BY <1>4, WellformedGraph DEF Graph
  <2>3. Cardinality(flow.succs[n] \ seen) \in Nat
    BY <2>2, FS_Subset, FS_CardinalityType
  <2>4. next \in [1 .. Cardinality(flow.succs[n] \ seen) -> flow.succs[n] \ seen]
    BY <1>2 DEF InOrder
  <2>5. next \in [1 .. Cardinality(flow.succs[n] \ seen) -> Nodes(flow)]
    <3> HIDE DEF seen, n
    <3> QED
      BY <2>2, <2>4
  <2>6. next \in Seq(Nodes(flow))
    <3> DEFINE c == Cardinality(flow.succs[n] \ seen)
    <3>1. c \in Nat /\ next \in [1 .. c -> Nodes(flow)]
      BY <2>3, <2>5
    <3> HIDE DEF c
    <3> QED
      BY <3>1, SeqDef
  <2> QED
    BY <2>1, <2>6
<1>6. nodeList' \in Seq(Nodes(flow)) /\ Range(nodeList') = Range(Tail(nodeList)) \cup Range(next)
      /\ Range(nodeList) = {n} \cup Range(Tail(nodeList))
  <2>1. Tail(nodeList) \in Seq(Nodes(flow))
    BY <1>1, <1>4
  <2>2. Range(Tail(nodeList) \o next) = Range(Tail(nodeList)) \cup Range(next)
    <3> DEFINE rest == Tail(nodeList)
    <3>1. rest \in Seq(Nodes(flow)) /\ next \in Seq(Nodes(flow))
      BY <1>5, <2>1
    <3> HIDE DEF rest
    <3>2. Range(rest \o next) = Range(rest) \cup Range(next)
      BY <3>1, RangeOfBoth
    <3> QED
      BY <3>2 DEF rest
  <2>3. Range(nodeList) = {n} \cup Range(Tail(nodeList))
    BY <1>1, <1>4, RangeOfTail
  <2> QED
    BY <1>2, <1>5, <2>1, <2>2, <2>3
<1>7. DOMAIN dominatorSet = visited
  BY <1>1 DEF DominatorsInv
<1>8. /\ DOMAIN dominatorSet' = seen
      /\ \A m \in visited : dominatorSet'[m] = dominatorSet[m]
      /\ n \notin visited => dominatorSet'[n] = Intersected(n) \cup {n}
  BY <1>7 DEF Visit
<1> HIDE DEF n, seen
<1>9. seen = visited \cup {n} /\ visited \subseteq Nodes(flow)
  BY <1>1 DEF seen, DominatorsInv
<1>10. 1 \in visited' \cup Range(nodeList)'
  BY <1>1, <1>3, <1>6, <1>9 DEF DominatorsInv
<1>11. ASSUME NEW m \in seen PROVE flow.succs[m] \subseteq seen \cup Range(nodeList')
  <2>1. CASE m = n
    BY <1>5, <1>6, <2>1
  <2>2. CASE m \in visited
    BY <1>1, <1>6, <1>9, <2>2 DEF DominatorsInv
  <2> QED
    BY <1>9, <1>11, <2>1, <2>2
<1>12. ASSUME NEW m \in Range(nodeList') \ {1} PROVE Preds(flow, m) \cap seen # {}
  <2>1. CASE m \in Range(Tail(nodeList))
    BY <1>1, <1>6, <1>9, <1>12, <2>1 DEF DominatorsInv
  <2>2. CASE m \in Range(next)
    BY <1>4, <1>5, <1>9, <2>2 DEF Preds
  <2> QED
    BY <1>6, <1>12, <2>1, <2>2
<1>13. ASSUME NEW m \in seen PROVE IsDominatorSet(m)'
  <2>1. CASE m \in visited
    BY <1>1, <1>3, <1>8, <1>9, <2>1 DEF DominatorsInv, IsDominatorSet
  <2>2. CASE m = n /\ n \notin visited
    <3> DEFINE D == Intersected(n) \cup {n}
    <3>1. /\ D \subseteq visited \cup {n}
          /\ \A d \in Nodes(flow) : TrulyDominates(flow, d, n) => d \in D
          /\ \A d \in D : n \in Reach(flow, d, {}) /\ n \in Reach(Forward(flow), d, {})
      <4>1. n \in Range(nodeList) /\ n \notin visited
        BY <1>4, <2>2
      <4> QED
        BY <1>1, <4>1, NewDominators
    <3>2. dominatorSet'[m] = D /\ n \in D
      BY <1>8, <2>2
    <3> HIDE DEF D
    <3> QED
      BY <1>1, <1>3, <1>9, <2>2, <3>1, <3>2 DEF IsDominatorSet
  <2> QED
    BY <1>9, <1>13, <2>1, <2>2
<1>14. DominatorsInv'
  BY <1>1, <1>3, <1>4, <1>6, <1>8, <1>9, <1>10, <1>11, <1>12, <1>13 DEF DominatorsInv
<1> QED
  BY <1>1, <1>14 DEF FinderInv, LoopsHold

\* When no node is left every one has been looked at.
LEMMA AllVisited ==
    ASSUME FinderInv, stage = "dominators", nodeList = << >>
    PROVE  /\ Wellformed(flow) /\ visited = Nodes(flow)
           /\ \A n \in Nodes(flow) : IsDominatorSet(n) /\ dominatorSet[n] \subseteq Nodes(flow)
<1>1. Wellformed(flow) /\ DominatorsInv
  BY FlowIsWellformed DEF FinderInv
<1>2. Range(nodeList) = {}
  BY DEF Range
<1>3. 1 \in visited /\ \A n \in visited : flow.succs[n] \subseteq visited
  BY <1>1, <1>2 DEF DominatorsInv
<1>4. Nodes(flow) \subseteq visited
  BY <1>1, <1>3, AllReached
<1> QED
  BY <1>1, <1>4 DEF DominatorsInv, IsDominatorSet

\* Without goto an edge to one of those dominators is a back edge: were it
\* not, it would close a cycle of other edges.
LEMMA BackEdgesAreTrue ==
    ASSUME FinderInv, stage = "dominators", nodeList = << >>, Structured(flow)
    PROVE  BackEdges = TrueBackEdges(flow)
<1>1. /\ Wellformed(flow)
      /\ \A n \in Nodes(flow) : IsDominatorSet(n) /\ dominatorSet[n] \subseteq Nodes(flow)
  BY AllVisited
<1>2. ASSUME NEW e \in TrueBackEdges(flow) PROVE e \in BackEdges
  <2>1. e \in Nodes(flow) \X Nodes(flow) /\ e[2] \in flow.succs[e[1]] /\ TrulyDominates(flow, e[2], e[1])
    BY <1>2 DEF TrueBackEdges
  <2>2. e[1] \in Nodes(flow) /\ e[2] \in Nodes(flow)
    BY <2>1
  <2>3. Dominates(e[1], e[2])
    BY <1>1, <2>1, <2>2 DEF IsDominatorSet, Dominates
  <2> QED
    BY <2>1, <2>3 DEF BackEdges
<1>3. ASSUME NEW e \in BackEdges PROVE e \in TrueBackEdges(flow)
  <2>1. e \in Nodes(flow) \X Nodes(flow) /\ e[2] \in flow.succs[e[1]] /\ e[2] \in dominatorSet[e[1]]
    BY <1>3 DEF BackEdges, Dominates
  <2>2. e[1] \in Nodes(flow) /\ e[2] \in Nodes(flow) /\ e = <<e[1], e[2]>>
    BY <2>1
  <2>3. e[1] \in Reach(Forward(flow), e[2], {})
    BY <1>1, <2>1, <2>2 DEF IsDominatorSet
  <2>4. SUFFICES ASSUME <<e[1], e[2]>> \notin TrueBackEdges(flow) PROVE FALSE
    BY <2>2
  <2>5. e[2] \in Forward(flow).succs[e[1]]
    BY <1>1, <2>1, <2>2, <2>4, ForwardGraph
  <2>6. e[1] \in Nodes(Forward(flow))
    BY <1>1, <2>2, ForwardGraph
  <2> QED
    BY <2>2, <2>3, <2>5, <2>6 DEF Structured
<1> QED
  BY <1>2, <1>3

\* The nodes of a loop.
LEMMA LoopNodesHold ==
    ASSUME FinderInv, stage = "dominators", nodeList = << >>, NEW e \in TrueBackEdges(flow)
    PROVE  /\ NaturalLoop(flow, e) \subseteq LoopNodes(e)
           /\ \A n \in LoopNodes(e) : n \in Reach(flow, e[2], {}) /\ e[2] \in Reach(flow, n, {})
<1>1. /\ Wellformed(flow) /\ Graph(flow)
      /\ \A n \in Nodes(flow) : IsDominatorSet(n)
  BY AllVisited, WellformedGraph
<1>2. e[1] \in Nodes(flow) /\ e[2] \in Nodes(flow) /\ e[2] \in flow.succs[e[1]] /\ TrulyDominates(flow, e[2], e[1])
  BY DEF TrueBackEdges
<1>3. e[2] \in LoopNodes(e)
  <2>1. e[1] \in Reach(flow, e[2], {})
    BY <1>1, <1>2, DominatedIsReached
  <2> QED
    BY <1>1, <1>2, <2>1 DEF LoopNodes, Dominates, IsDominatorSet
<1>4. ASSUME NEW n \in Nodes(flow), e[1] \in Reach(flow, n, {e[2]}) PROVE n \in LoopNodes(e)
  <2>1. TrulyDominates(flow, e[2], n)
    BY <1>1, <1>2, <1>4, HeaderDominates
  <2>2. e[2] \in dominatorSet[n]
    BY <1>1, <1>2, <2>1 DEF IsDominatorSet
  <2>3. e[1] \in Reach(flow, n, {})
    BY <1>1, <1>4, ReachAnyway
  <2> QED
    BY <2>2, <2>3 DEF LoopNodes, Dominates
<1>5. ASSUME NEW n \in LoopNodes(e) PROVE n \in Reach(flow, e[2], {}) /\ e[2] \in Reach(flow, n, {})
  <2>1. n \in Nodes(flow) /\ e[2] \in dominatorSet[n] /\ e[1] \in Reach(flow, n, {})
    BY DEF LoopNodes, Dominates
  <2>2. n \in Reach(flow, e[2], {})
    BY <1>1, <2>1 DEF IsDominatorSet
  <2>3. e[2] \in Reach(flow, n, {})
    BY <1>1, <1>2, <2>1, ReachIsClosed
  <2> QED
    BY <2>2, <2>3
<1> QED
  BY <1>3, <1>4, <1>5 DEF NaturalLoop

LEMMA FindLoopsHolds == ASSUME FinderInv, FindLoops PROVE FinderInv'
<1>1. /\ stage = "dominators" /\ nodeList = << >> /\ stage' = "loops"
      /\ flow' = flow /\ flow \in Flows
      /\ loops' = [e \in BackEdges |-> LoopNodes(e)]
  BY DEF FindLoops, FinderInv
<1>2. ASSUME Structured(flow)
      PROVE  /\ DOMAIN loops' = TrueBackEdges(flow)
             /\ \A e \in DOMAIN loops' :
                  /\ NaturalLoop(flow, e) \subseteq loops'[e]
                  /\ \A n \in loops'[e] : n \in Reach(flow, e[2], {}) /\ e[2] \in Reach(flow, n, {})
  <2>1. BackEdges = TrueBackEdges(flow)
    BY <1>1, <1>2, BackEdgesAreTrue
  <2>2. DOMAIN loops' = TrueBackEdges(flow) /\ \A e \in TrueBackEdges(flow) : loops'[e] = LoopNodes(e)
    BY <1>1, <2>1
  <2> QED
    BY <1>1, <2>2, LoopNodesHold
<1>3. LoopsHold'
  BY <1>1, <1>2 DEF LoopsHold
<1> QED
  BY <1>1, <1>3 DEF FinderInv

\* The other steps leave what the finder has found.
LEMMA OthersHold ==
    ASSUME FinderInv, UNCHANGED finder, stage' \in {"moves", "run", "crashed"} \/ stage' = stage
    PROVE  FinderInv'
<1>1. /\ flow' = flow /\ nodeList' = nodeList /\ visited' = visited
      /\ dominatorSet' = dominatorSet /\ loops' = loops
  BY DEF finder
<1>2. CASE stage' = stage
  BY <1>1, <1>2 DEF FinderInv, DominatorsInv, IsDominatorSet, LoopsHold
<1>3. CASE stage' \in {"moves", "run", "crashed"}
  BY <1>1, <1>3 DEF FinderInv, LoopsHold
<1> QED
  BY <1>2, <1>3

LEMMA FinderInvStep == ASSUME FinderInv, [Next]_vars PROVE FinderInv'
<1>1. CASE Find
  BY <1>1, VisitHolds, FindLoopsHolds DEF Find
<1>2. CASE FindMoves
  BY <1>2, OthersHold DEF FindMoves
<1>3. CASE MoveCalls
  BY <1>3, OthersHold DEF MoveCalls
<1>4. CASE Launch
  BY <1>4, OthersHold DEF Launch
<1>5. CASE Execute
  BY <1>5, OthersHold DEF Execute
<1>6. CASE Branch
  BY <1>6, OthersHold DEF Branch
<1>7. CASE UNCHANGED vars
  BY <1>7, OthersHold DEF vars
<1> QED
  BY <1>1, <1>2, <1>3, <1>4, <1>5, <1>6, <1>7 DEF Next

\* In a function without goto findBackEdges and findLoops find exactly the
\* back edges and no node of a loop is missing, whatever the order in which
\* getDominators comes to the nodes.
THEOREM LoopsAreFound == Spec => []LoopsHold
<1>1. InitMoves => FinderInv
  BY InitHolds DEF InitMoves
<1>2. FinderInv => LoopsHold
  BY DEF FinderInv
<1> QED
  BY <1>1, <1>2, FinderInvStep, PTL DEF Spec
=============================================================================
