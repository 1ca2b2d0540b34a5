------------------------- MODULE ConstructMCFGProofs -------------------------
(***************************************************************************)
(* The construction of the graph keeps the flow of the function, for all   *)
(* functions and all orders of their blocks.                               *)
(*                                                                         *)
(* The nodes that have been spliced out, unlinked or merged keep links of  *)
(* their own that nothing refers to any more.  The proofs speak of a set D *)
(* of these nodes; the others, the live ones, refer to each other only.    *)
(***************************************************************************)
EXTENDS ConstructMCFG, SequenceTheorems, FiniteSetTheorems, TLAPS

entry == func.blocks[1]

\* The nodes that are got at from the nodes in A through nodes without
\* instructions, and the blocks whose instructions come first there.
ClosedUnder(S, successors, held) == \A a \in S : held[a] = <<>> => successors[a] \subseteq S

Reached(A, successors, held) ==
    {x \in Blocks :
        \A S \in SUBSET Blocks : A \subseteq S /\ ClosedUnder(S, successors, held) => x \in S}

Nexts(A, successors, held) ==
    {b \in func.kept : \E k \in Reached(A, successors, held) : held[k] # <<>> /\ held[k][1] = b}

Flows(a, b, successors, held, gone) ==
    \E m \in Blocks \ gone : \E l \in DOMAIN held[m] :
        /\ held[m][l] = a
        /\ IF l < Len(held[m]) THEN held[m][l + 1] = b
           ELSE b \in Nexts(successors[m], successors, held)

LEMMA BeyondIsReached ==
    ASSUME NEW m, NEW sc, NEW bd
    PROVE  Beyond(m, sc, {e \in Blocks : bd[e] = <<>>}) = Reached(sc[m], sc, bd)
<1> DEFINE E == {e \in Blocks : bd[e] = <<>>}
<1>1. ASSUME NEW S \in SUBSET Blocks
      PROVE  (\A a \in {m} \cup (S \cap E) : sc[a] \subseteq S)
               <=> sc[m] \subseteq S /\ ClosedUnder(S, sc, bd)
  BY DEF ClosedUnder
<1> QED
  BY <1>1 DEF Beyond, Reached

LEMMA FlowsInGraphIs ==
    ASSUME body \in [Blocks -> Seq(func.kept)], NEW a, NEW b \in func.kept
    PROVE  FlowsInGraph(a, b) <=> Flows(a, b, succs, body, merged)
<1>1. {e \in Blocks : Empty(e)} = {e \in Blocks : body[e] = <<>>}
  BY DEF Empty
<1>2. ASSUME NEW m PROVE (\E k \in Beyond(m, succs, {e \in Blocks : Empty(e)}) :
                            ~Empty(k) /\ Head(body[k]) = b)
                         <=> b \in Nexts(succs[m], succs, body)
  <2>1. \A k \in Blocks : body[k] # <<>> => Head(body[k]) = body[k][1]
    OBVIOUS
  <2>2. Beyond(m, succs, {e \in Blocks : Empty(e)}) = Reached(succs[m], succs, body)
    BY <1>1, BeyondIsReached
  <2>3. Reached(succs[m], succs, body) \subseteq Blocks
    BY DEF Reached
  <2> QED
    BY <2>1, <2>2, <2>3 DEF Nexts, Empty
<1> QED
  BY <1>2 DEF FlowsInGraph, Flows

\* What is closed holds what is got at.
LEMMA ReachedStays ==
    ASSUME NEW A, NEW sc, NEW bd, NEW S \in SUBSET Blocks, A \subseteq S, ClosedUnder(S, sc, bd),
           NEW x \in Reached(A, sc, bd)
    PROVE  x \in S
  BY DEF Reached

-----------------------------------------------------------------------------
(***************************************************************************)
(* The links.                                                              *)
(***************************************************************************)
Wired(D, pr, sc) ==
    /\ pr \in [Blocks -> SUBSET Blocks] /\ sc \in [Blocks -> SUBSET Blocks]
    /\ D \subseteq Blocks
    /\ \A m \in Blocks \ D : pr[m] \cap D = {} /\ sc[m] \cap D = {}
    /\ \A m, k \in Blocks \ D : k \in sc[m] <=> m \in pr[k]

\* All live nodes can be got at from the entry.
ReachesAll(D, sc) ==
    \A S \in SUBSET Blocks :
        entry \in S /\ (\A a \in S : sc[a] \subseteq S) => Blocks \ D \subseteq S

SelfLoopGone(x, pr, sc, pr2, sc2) ==
    pr2 = [pr EXCEPT ![x] = @ \ {x}] /\ sc2 = [sc EXCEPT ![x] = @ \ {x}]

Spliced(x, p, s, pr, sc, pr2, sc2) ==
    /\ x # p /\ x # s /\ pr[x] = {p} /\ sc[x] = {s}
    /\ sc2 = [sc EXCEPT ![p] = (@ \ {x}) \cup {s}]
    /\ pr2 = [pr EXCEPT ![s] = (@ \ {x}) \cup {p}]

Unlinked(x, pr, sc, pr2, sc2) ==
    /\ pr[x] = {} \/ sc[x] = {}
    /\ sc2 = [m \in Blocks |-> IF m \in pr[x] THEN sc[m] \ {x} ELSE sc[m]]
    /\ pr2 = [m \in Blocks |-> IF m \in sc[x] THEN pr[m] \ {x} ELSE pr[m]]

Merged(x, p, pr, sc, pr2, sc2) ==
    /\ x # p /\ pr[x] = {p} /\ sc[p] = {x}
    /\ sc2 = [sc EXCEPT ![p] = sc[x]]
    /\ pr2 = [m \in Blocks |->
                IF m = x THEN {} ELSE IF m \in sc[x] THEN (pr[m] \ {x}) \cup {p} ELSE pr[m]]

LEMMA SelfLoopWired ==
    ASSUME NEW D, NEW x \in Blocks \ D, NEW pr, NEW sc, NEW pr2, NEW sc2,
           Wired(D, pr, sc), SelfLoopGone(x, pr, sc, pr2, sc2)
    PROVE  /\ Wired(D, pr2, sc2)
           /\ ReachesAll(D, sc) => ReachesAll(D, sc2)
<1>1. Wired(D, pr2, sc2)
  BY DEF Wired, SelfLoopGone
<1>2. ASSUME NEW S \in SUBSET Blocks, \A a \in S : sc2[a] \subseteq S
      PROVE  \A a \in S : sc[a] \subseteq S
  BY <1>2 DEF Wired, SelfLoopGone
<1> QED
  BY <1>1, <1>2 DEF ReachesAll

LEMMA SplicedWired ==
    ASSUME NEW D, NEW x \in Blocks \ D, NEW p, NEW s, NEW pr, NEW sc, NEW pr2, NEW sc2,
           Wired(D, pr, sc), Spliced(x, p, s, pr, sc, pr2, sc2)
    PROVE  /\ p \in Blocks \ D /\ s \in Blocks \ D
           /\ Wired(D \cup {x}, pr2, sc2)
           /\ ReachesAll(D, sc) => ReachesAll(D \cup {x}, sc2)
<1>1. p \in Blocks \ D /\ s \in Blocks \ D
  BY DEF Wired, Spliced
<1>2. Wired(D \cup {x}, pr2, sc2)
  BY <1>1 DEF Wired, Spliced
<1>3. ASSUME ReachesAll(D, sc), NEW S \in SUBSET Blocks, entry \in S,
             \A a \in S : sc2[a] \subseteq S
      PROVE  Blocks \ (D \cup {x}) \subseteq S
  <2>1. CASE p \in S
    <3> DEFINE T == S \cup {x}
    <3>1. \A a \in T : sc[a] \subseteq T
      BY <1>1, <1>3, <2>1 DEF Wired, Spliced
    <3>2. T \in SUBSET Blocks /\ entry \in T
      BY <1>3
    <3>3. Blocks \ D \subseteq T
      BY <1>3, <3>1, <3>2 DEF ReachesAll
    <3> QED
      BY <3>3
  <2>2. CASE p \notin S
    <3>1. \A a \in S : sc[a] \subseteq S
      BY <1>1, <1>3, <2>2 DEF Wired, Spliced
    <3>2. Blocks \ D \subseteq S
      BY <1>3, <3>1 DEF ReachesAll
    <3> QED
      BY <1>1, <2>2, <3>2
  <2> QED
    BY <2>1, <2>2
<1> QED
  BY <1>1, <1>2, <1>3 DEF ReachesAll

LEMMA UnlinkedWired ==
    ASSUME NEW D, NEW x \in Blocks \ D, NEW pr, NEW sc, NEW pr2, NEW sc2,
           Wired(D, pr, sc), Unlinked(x, pr, sc, pr2, sc2), x \notin pr[x]
    PROVE  /\ Wired(D \cup {x}, pr2, sc2)
           /\ ReachesAll(D, sc) => ReachesAll(D \cup {x}, sc2)
<1>1. Wired(D \cup {x}, pr2, sc2)
  BY DEF Wired, Unlinked
<1>2. ASSUME ReachesAll(D, sc), NEW S \in SUBSET Blocks, entry \in S,
             \A a \in S : sc2[a] \subseteq S
      PROVE  Blocks \ (D \cup {x}) \subseteq S
  <2>1. CASE sc[x] = {}
    <3> DEFINE T == S \cup {x}
    <3>1. \A a \in T : sc[a] \subseteq T
      BY <1>2, <2>1 DEF Wired, Unlinked
    <3>2. T \in SUBSET Blocks /\ entry \in T
      BY <1>2
    <3>3. Blocks \ D \subseteq T
      BY <1>2, <3>1, <3>2 DEF ReachesAll
    <3> QED
      BY <3>3
  <2>2. CASE pr[x] = {}
    <3>1. sc2 = sc
      BY <2>2 DEF Wired, Unlinked
    <3> QED
      BY <1>2, <3>1 DEF ReachesAll
  <2> QED
    BY <2>1, <2>2 DEF Unlinked
<1> QED
  BY <1>1, <1>2 DEF ReachesAll

LEMMA MergedWired ==
    ASSUME NEW D, NEW x \in Blocks \ D, NEW p, NEW pr, NEW sc, NEW pr2, NEW sc2,
           Wired(D, pr, sc), Merged(x, p, pr, sc, pr2, sc2)
    PROVE  /\ p \in Blocks \ D
           /\ Wired(D \cup {x}, pr2, sc2)
           /\ ReachesAll(D, sc) => ReachesAll(D \cup {x}, sc2)
<1>1. p \in Blocks \ D
  BY DEF Wired, Merged
<1>2. Wired(D \cup {x}, pr2, sc2)
  BY <1>1 DEF Wired, Merged
<1>3. ASSUME ReachesAll(D, sc), NEW S \in SUBSET Blocks, entry \in S,
             \A a \in S : sc2[a] \subseteq S
      PROVE  Blocks \ (D \cup {x}) \subseteq S
  <2>1. CASE p \in S
    <3> DEFINE T == S \cup {x}
    <3>1. \A a \in T : sc[a] \subseteq T
      BY <1>1, <1>3, <2>1 DEF Wired, Merged
    <3>2. Blocks \ D \subseteq T
      BY <1>3, <3>1 DEF ReachesAll
    <3> QED
      BY <3>2
  <2>2. CASE p \notin S
    <3>1. \A a \in S : sc[a] \subseteq S
      BY <1>1, <1>3, <2>2 DEF Wired, Merged
    <3>2. Blocks \ D \subseteq S
      BY <1>3, <3>1 DEF ReachesAll
    <3> QED
      BY <1>1, <2>2, <3>2
  <2> QED
    BY <2>1, <2>2
<1> QED
  BY <1>1, <1>2, <1>3 DEF ReachesAll

-----------------------------------------------------------------------------
(***************************************************************************)
(* The flow.  A node without instructions may go: what comes next from a   *)
(* node with instructions stays the same.                                  *)
(***************************************************************************)
\* Only live nodes hold instructions, but for those that have been merged.
Holds(D, held, gone) ==
    /\ held \in [Blocks -> Seq(func.kept)] /\ gone \subseteq D
    /\ \A m \in D \ gone : held[m] = <<>>

SameNexts(D, sc, sc2, held) ==
    \A m \in Blocks \ D : held[m] # <<>> => Nexts(sc2[m], sc2, held) = Nexts(sc[m], sc, held)

LEMMA SameFlows ==
    ASSUME NEW D, NEW sc, NEW sc2, NEW held, NEW gone, Holds(D, held, gone),
           SameNexts(D, sc, sc2, held), NEW a, NEW b
    PROVE  Flows(a, b, sc2, held, gone) <=> Flows(a, b, sc, held, gone)
<1>1. ASSUME NEW m \in Blocks \ gone, NEW l \in DOMAIN held[m]
      PROVE  Nexts(sc2[m], sc2, held) = Nexts(sc[m], sc, held)
  <2>1. held[m] # <<>>
    BY <1>1 DEF Holds
  <2> QED
    BY <1>1, <2>1 DEF Holds, SameNexts
<1> QED
  BY <1>1 DEF Flows

LEMMA SelfLoopFlow ==
    ASSUME NEW D, NEW x \in Blocks \ D, NEW pr, NEW sc, NEW pr2, NEW sc2, NEW held,
           Wired(D, pr, sc), SelfLoopGone(x, pr, sc, pr2, sc2), held[x] = <<>>
    PROVE  SameNexts(D, sc, sc2, held)
<1> SUFFICES ASSUME NEW m \in Blocks \ D, held[m] # <<>>
             PROVE  Nexts(sc2[m], sc2, held) = Nexts(sc[m], sc, held)
  BY DEF SameNexts
<1>1. sc2[m] = sc[m]
  BY DEF Wired, SelfLoopGone
<1>2. \A S \in SUBSET Blocks : ClosedUnder(S, sc2, held) <=> ClosedUnder(S, sc, held)
  BY DEF ClosedUnder, Wired, SelfLoopGone
<1>3. Reached(sc2[m], sc2, held) = Reached(sc[m], sc, held)
  BY <1>1, <1>2 DEF Reached
<1> QED
  BY <1>3 DEF Nexts

LEMMA SplicedFlow ==
    ASSUME NEW D, NEW x \in Blocks \ D, NEW p, NEW s, NEW pr, NEW sc, NEW pr2, NEW sc2, NEW held,
           Wired(D, pr, sc), Spliced(x, p, s, pr, sc, pr2, sc2), held[x] = <<>>
    PROVE  SameNexts(D, sc, sc2, held)
<1> SUFFICES ASSUME NEW m \in Blocks \ D, held[m] # <<>>
             PROVE  Nexts(sc2[m], sc2, held) = Nexts(sc[m], sc, held)
  BY DEF SameNexts
<1>0. p \in Blocks \ D /\ s \in Blocks \ D
  BY SplicedWired
<1>1. ASSUME NEW k \in Reached(sc[m], sc, held), k # x PROVE k \in Reached(sc2[m], sc2, held)
  <2> SUFFICES ASSUME NEW S \in SUBSET Blocks, sc2[m] \subseteq S, ClosedUnder(S, sc2, held)
               PROVE  k \in S
    BY <1>1 DEF Reached
  <2> DEFINE T == IF s \in S THEN (S \ D) \cup {x} ELSE (S \ D) \ {x}
  <2>1. sc[m] \subseteq T
    <3>1. CASE m = p
      BY <1>0, <3>1 DEF Wired, Spliced
    <3>2. CASE m # p
      BY <1>0, <3>2 DEF Wired, Spliced
    <3> QED
      BY <3>1, <3>2
  <2>2. ASSUME NEW a \in T, held[a] = <<>> PROVE sc[a] \subseteq T
    <3>1. CASE a = x
      BY <1>0, <2>2, <3>1 DEF Spliced
    <3>2. CASE a # x /\ a = p
      <4>1. a \in S /\ sc2[a] \subseteq S
        BY <2>2, <3>2 DEF ClosedUnder
      <4>2. sc2[p] = (sc[p] \ {x}) \cup {s}
        BY <1>0 DEF Wired, Spliced
      <4>3. sc[p] \subseteq Blocks \ D
        BY <1>0 DEF Wired
      <4> QED
        BY <3>2, <4>1, <4>2, <4>3
    <3>3. CASE a # x /\ a # p
      <4>1. a \in S \ D /\ sc2[a] \subseteq S
        BY <2>2, <3>3 DEF ClosedUnder
      <4>2. sc2[a] = sc[a] /\ sc[a] \subseteq Blocks \ D /\ x \notin sc[a]
        BY <3>3, <4>1 DEF Wired, Spliced
      <4> QED
        BY <4>1, <4>2
    <3> QED
      BY <3>1, <3>2, <3>3
  <2>3. T \in SUBSET Blocks /\ ClosedUnder(T, sc, held)
    BY <2>2 DEF ClosedUnder
  <2>4. k \in T
    BY <2>1, <2>3, <1>1, ReachedStays
  <2> QED
    BY <1>1, <2>4
<1>2. ASSUME NEW k \in Reached(sc2[m], sc2, held) PROVE k \in Reached(sc[m], sc, held)
  <2> SUFFICES ASSUME NEW S \in SUBSET Blocks, sc[m] \subseteq S, ClosedUnder(S, sc, held)
               PROVE  k \in S
    BY <1>2 DEF Reached
  <2>1. sc2[m] \subseteq S
    BY <1>0 DEF Wired, Spliced, ClosedUnder
  <2>2. ASSUME NEW a \in S, held[a] = <<>> PROVE sc2[a] \subseteq S
    BY <1>0, <2>2 DEF Wired, Spliced, ClosedUnder
  <2>3. ClosedUnder(S, sc2, held)
    BY <2>2 DEF ClosedUnder
  <2> QED
    BY <1>2, <2>1, <2>3, ReachedStays
<1> QED
  BY <1>1, <1>2 DEF Nexts

LEMMA UnlinkedFlow ==
    ASSUME NEW D, NEW x \in Blocks \ D, NEW pr, NEW sc, NEW pr2, NEW sc2, NEW held,
           Wired(D, pr, sc), Unlinked(x, pr, sc, pr2, sc2), held[x] = <<>>
    PROVE  SameNexts(D, sc, sc2, held)
<1>1. CASE pr[x] = {}
  <2>1. sc2 = sc
    BY <1>1 DEF Wired, Unlinked
  <2> QED
    BY <2>1 DEF SameNexts
<1>2. CASE sc[x] = {}
  <2> SUFFICES ASSUME NEW m \in Blocks \ D, held[m] # <<>>
               PROVE  Nexts(sc2[m], sc2, held) = Nexts(sc[m], sc, held)
    BY DEF SameNexts
  <2>0. /\ \A a \in Blocks : sc2[a] \subseteq sc[a]
        /\ \A a \in Blocks \ D : sc[a] \subseteq sc2[a] \cup {x} /\ sc[a] \subseteq Blocks \ D
    BY DEF Wired, Unlinked
  <2>1. ASSUME NEW k \in Reached(sc[m], sc, held), k # x PROVE k \in Reached(sc2[m], sc2, held)
    <3> SUFFICES ASSUME NEW S \in SUBSET Blocks, sc2[m] \subseteq S, ClosedUnder(S, sc2, held)
                 PROVE  k \in S
      BY <2>1 DEF Reached
    <3> DEFINE T == (S \ D) \cup {x}
    <3>1. T \in SUBSET Blocks /\ sc[m] \subseteq T
      BY <2>0
    <3>2. ASSUME NEW a \in T, held[a] = <<>> PROVE sc[a] \subseteq T
      <4>1. CASE a = x
        BY <1>2, <4>1
      <4>2. CASE a # x
        BY <2>0, <3>2, <4>2 DEF ClosedUnder
      <4> QED
        BY <4>1, <4>2
    <3>3. ClosedUnder(T, sc, held)
      BY <3>2 DEF ClosedUnder
    <3>4. k \in T
      BY <2>1, <3>1, <3>3, ReachedStays
    <3> QED
      BY <2>1, <3>4
  <2>2. ASSUME NEW k \in Reached(sc2[m], sc2, held) PROVE k \in Reached(sc[m], sc, held)
    <3> SUFFICES ASSUME NEW S \in SUBSET Blocks, sc[m] \subseteq S, ClosedUnder(S, sc, held)
                 PROVE  k \in S
      BY <2>2 DEF Reached
    <3>1. sc2[m] \subseteq S /\ ClosedUnder(S, sc2, held)
      BY <2>0 DEF ClosedUnder
    <3> QED
      BY <2>2, <3>1, ReachedStays
  <2> QED
    BY <2>1, <2>2 DEF Nexts
<1> QED
  BY <1>1, <1>2 DEF Unlinked

MergedInto(D, x, p, pr, sc, pr2, sc2, held, held2, gone) ==
    /\ x \in Blocks \ D /\ Wired(D, pr, sc) /\ Merged(x, p, pr, sc, pr2, sc2)
    /\ Holds(D, held, gone) /\ held[x] # <<>>
    /\ held2 = [held EXCEPT ![p] = @ \o held[x]]

\* Merging: what comes next from a node other than the two, and what came next
\* from the one that was merged.
LEMMA MergedNexts ==
    ASSUME NEW D, NEW x, NEW p, NEW pr, NEW sc, NEW pr2, NEW sc2, NEW held, NEW held2, NEW gone,
           MergedInto(D, x, p, pr, sc, pr2, sc2, held, held2, gone),
           NEW A, A \subseteq (Blocks \ D) \ {x}
    PROVE  Nexts(A, sc2, held2) = Nexts(A, sc, held)
<1> USE DEF MergedInto
<1>0. p \in Blocks \ D /\ x # p
  BY MergedWired DEF Merged
<1>1. /\ held[p] \in Seq(func.kept) /\ held[x] \in Seq(func.kept)
      /\ held2[p] = held[p] \o held[x] /\ held2[p] # <<>>
      /\ \A k \in Blocks : k # p => held2[k] = held[k]
  BY <1>0 DEF Holds
<1>2. held2[p][1] = IF held[p] = <<>> THEN held[x][1] ELSE held[p][1]
  BY <1>1
<1>3. sc[p] = {x} /\ \A k \in Blocks : k # p => sc2[k] = sc[k]
  BY <1>0 DEF Wired, Merged
<1>4. \A k \in Blocks \ D : sc[k] \subseteq Blocks \ D /\ (k # p => x \notin sc[k])
  BY <1>0 DEF Wired, Merged
\* The way back: the node that holds them first is the same, or it is p, and
\* was x.
<1>5. ASSUME NEW k \in Reached(A, sc2, held2) PROVE k \in Reached(A, sc, held)
  <2> SUFFICES ASSUME NEW S \in SUBSET Blocks, A \subseteq S, ClosedUnder(S, sc, held)
               PROVE  k \in S
    BY <1>5 DEF Reached
  <2>1. ClosedUnder(S, sc2, held2)
    BY <1>1, <1>3 DEF ClosedUnder
  <2> QED
    BY <1>5, <2>1, ReachedStays
<1>6. ASSUME NEW b \in Nexts(A, sc2, held2) PROVE b \in Nexts(A, sc, held)
  <2>1. PICK k \in Reached(A, sc2, held2) : held2[k] # <<>> /\ held2[k][1] = b
    BY <1>6 DEF Nexts
  <2>2. k \in Blocks /\ k \in Reached(A, sc, held)
    BY <1>5 DEF Reached
  <2>3. b \in func.kept
    BY <1>6 DEF Nexts
  <2>4. CASE k = p /\ held[p] = <<>>
    <3>1. x \in Reached(A, sc, held)
      BY <1>3, <2>2, <2>4 DEF Reached, ClosedUnder
    <3>2. held[x][1] = b
      BY <1>2, <2>1, <2>4
    <3> QED
      BY <2>3, <3>1, <3>2 DEF Nexts
  <2>5. CASE k = p /\ held[p] # <<>>
    BY <1>2, <2>1, <2>2, <2>3, <2>5 DEF Nexts
  <2>6. CASE k # p
    BY <1>1, <2>1, <2>2, <2>3, <2>6 DEF Nexts
  <2> QED
    BY <2>4, <2>5, <2>6
\* The way there.
<1>7. ASSUME NEW k \in Reached(A, sc, held), k # x PROVE k \in Reached(A, sc2, held2)
  <2> SUFFICES ASSUME NEW S \in SUBSET Blocks, A \subseteq S, ClosedUnder(S, sc2, held2)
               PROVE  k \in S
    BY <1>7 DEF Reached
  <2>1. ASSUME NEW a \in S \cup {x}, held[a] = <<>> PROVE sc[a] \subseteq S \cup {x}
    <3>1. CASE a = p
      BY <1>3, <3>1
    <3>2. CASE a # p
      BY <1>1, <1>3, <2>1, <3>2 DEF ClosedUnder
    <3> QED
      BY <3>1, <3>2
  <2>2. S \cup {x} \in SUBSET Blocks /\ ClosedUnder(S \cup {x}, sc, held)
    BY <2>1 DEF ClosedUnder
  <2>3. A \subseteq S \cup {x}
    OBVIOUS
  <2>4. k \in S \cup {x}
    BY <1>7, <2>2, <2>3, ReachedStays
  <2> QED
    BY <1>7, <2>4
<1>8. ASSUME x \in Reached(A, sc, held)
      PROVE  held[p] = <<>> /\ p \in Reached(A, sc2, held2)
  <2>1. ASSUME held[p] # <<>> PROVE FALSE
    <3> DEFINE T == (Blocks \ D) \ {x}
    <3>1. ClosedUnder(T, sc, held)
      BY <1>4, <2>1 DEF ClosedUnder
    <3> QED
      BY <1>8, <3>1, ReachedStays
  <2>2. ASSUME NEW S \in SUBSET Blocks, A \subseteq S, ClosedUnder(S, sc2, held2), p \notin S
        PROVE  FALSE
    <3> DEFINE T == (S \ D) \ {x}
    <3>1. ASSUME NEW a \in T, held[a] = <<>> PROVE sc[a] \subseteq T
      <4>1. a \in S /\ a # p /\ a \in Blocks \ D
        BY <2>2
      <4>2. sc[a] \subseteq S
        BY <1>1, <1>3, <2>2, <3>1, <4>1 DEF ClosedUnder
      <4> QED
        BY <1>4, <4>1, <4>2
    <3>2. T \in SUBSET Blocks /\ A \subseteq T /\ ClosedUnder(T, sc, held)
      BY <2>2, <3>1 DEF ClosedUnder
    <3>3. x \in T
      BY <1>8, <3>2, ReachedStays
    <3> QED
      BY <3>3
  <2> QED
    BY <1>0, <2>1, <2>2 DEF Reached
<1>9. ASSUME NEW b \in Nexts(A, sc, held) PROVE b \in Nexts(A, sc2, held2)
  <2>1. PICK k \in Reached(A, sc, held) : held[k] # <<>> /\ held[k][1] = b
    BY <1>9 DEF Nexts
  <2>2. k \in Blocks /\ b \in func.kept
    BY <1>9 DEF Reached, Nexts
  <2>3. CASE k = x
    BY <1>1, <1>2, <1>8, <2>1, <2>2, <2>3 DEF Nexts
  <2>4. CASE k # x
    <3>1. k \in Reached(A, sc2, held2)
      BY <1>7, <2>4
    <3>2. held2[k] # <<>> /\ held2[k][1] = b
      BY <1>1, <1>2, <2>1, <2>2
    <3> QED
      BY <2>2, <3>1, <3>2 DEF Nexts
  <2> QED
    BY <2>3, <2>4
<1> QED
  BY <1>6, <1>9 DEF Nexts

LEMMA Joined ==
    ASSUME NEW S, NEW u \in Seq(S), NEW v \in Seq(S), v # <<>>
    PROVE  /\ u \o v \in Seq(S) /\ Len(u \o v) = Len(u) + Len(v)
           /\ Len(u) \in Nat /\ Len(v) \in Nat \ {0}
           /\ DOMAIN (u \o v) = 1..(Len(u) + Len(v)) /\ DOMAIN u = 1..Len(u) /\ DOMAIN v = 1..Len(v)
           /\ \A l \in 1..Len(u) : (u \o v)[l] = u[l]
           /\ \A l \in 1..Len(v) : (u \o v)[Len(u) + l] = v[l]
<1>1. Len(v) # 0
  BY EmptySeq
<1> QED
  BY <1>1, ConcatProperties, LenProperties

LEMMA MergedFlow ==
    ASSUME NEW D, NEW x, NEW p, NEW pr, NEW sc, NEW pr2, NEW sc2, NEW held, NEW held2, NEW gone,
           MergedInto(D, x, p, pr, sc, pr2, sc2, held, held2, gone),
           NEW a \in func.kept, NEW b \in func.kept
    PROVE  Flows(a, b, sc2, held2, gone \cup {x}) <=> Flows(a, b, sc, held, gone)
<1> DEFINE u == held[p]
           v == held[x]
           w == held2[p]
<1>0. p \in Blocks \ D /\ x \in Blocks \ D /\ x # p /\ x \notin gone /\ p \notin gone
  <2>1. p \in Blocks \ D /\ x # p
    BY MergedWired DEF MergedInto, Merged
  <2> QED
    BY <2>1 DEF MergedInto, Holds
<1>1. /\ u \in Seq(func.kept) /\ v \in Seq(func.kept) /\ v # <<>> /\ w = u \o v
      /\ \A k \in Blocks : k # p => held2[k] = held[k]
  BY <1>0 DEF MergedInto, Holds
<1>2. sc[p] = {x} /\ sc2[p] = sc[x] /\ \A k \in Blocks : k # p => sc2[k] = sc[k]
  BY <1>0 DEF MergedInto, Wired, Merged
<1>3. \A k \in Blocks \ D : sc[k] \subseteq Blocks \ D /\ (k # p => x \notin sc[k])
  BY <1>0 DEF MergedInto, Wired, Merged
<1>4. \A k \in Blocks \ D : k # p => Nexts(sc[k], sc2, held2) = Nexts(sc[k], sc, held)
  <2> SUFFICES ASSUME NEW k \in Blocks \ D, k # p
               PROVE  Nexts(sc[k], sc2, held2) = Nexts(sc[k], sc, held)
    OBVIOUS
  <2> DEFINE A == sc[k]
  <2>1. A \subseteq (Blocks \ D) \ {x}
    BY <1>3
  <2> HIDE DEF A
  <2>2. Nexts(A, sc2, held2) = Nexts(A, sc, held)
    BY <2>1, MergedNexts
  <2> QED
    BY <2>2 DEF A
\* From p one got to x, and nowhere else.
<1>5. b \in Nexts(sc[p], sc, held) <=> v[1] = b
  <2>1. {x} \in SUBSET Blocks /\ ClosedUnder({x}, sc, held)
    BY <1>0, <1>1 DEF ClosedUnder
  <2>2. Reached(sc[p], sc, held) = {x}
    BY <1>2, <2>1 DEF Reached
  <2> QED
    BY <1>1, <2>2 DEF Nexts
<1>6. \A m \in Blocks \ gone : \A l \in DOMAIN held[m] : m \in Blocks \ D
  BY DEF MergedInto, Holds
<1> HIDE DEF u, v, w
<1>7. /\ Len(w) = Len(u) + Len(v) /\ Len(u) \in Nat /\ Len(v) \in Nat \ {0}
      /\ DOMAIN w = 1..(Len(u) + Len(v)) /\ DOMAIN u = 1..Len(u) /\ DOMAIN v = 1..Len(v)
      /\ \A l \in 1..Len(u) : w[l] = u[l]
      /\ \A l \in 1..Len(v) : w[Len(u) + l] = v[l]
  BY <1>1, Joined
<1>8. ASSUME Flows(a, b, sc, held, gone) PROVE Flows(a, b, sc2, held2, gone \cup {x})
  <2>1. PICK m \in Blocks \ gone : \E l \in DOMAIN held[m] :
                /\ held[m][l] = a
                /\ IF l < Len(held[m]) THEN held[m][l + 1] = b ELSE b \in Nexts(sc[m], sc, held)
    BY <1>8 DEF Flows
  <2>2. PICK l \in DOMAIN held[m] :
                /\ held[m][l] = a
                /\ IF l < Len(held[m]) THEN held[m][l + 1] = b ELSE b \in Nexts(sc[m], sc, held)
    BY <2>1
  <2>3. CASE m # p /\ m # x
    BY <1>1, <1>2, <1>4, <1>6, <2>2, <2>3 DEF Flows
  <2>4. CASE m = p
    <3>0. /\ l \in DOMAIN u /\ u[l] = a
          /\ IF l < Len(u) THEN u[l + 1] = b ELSE b \in Nexts(sc[p], sc, held)
      BY <2>2, <2>4 DEF u
    <3>1. l \in DOMAIN w /\ w[l] = a /\ l < Len(w)
      BY <1>7, <2>4, <3>0
    <3>2. w[l + 1] = b
      <4>1. CASE l < Len(u)
        BY <1>7, <2>4, <3>0, <4>1
      <4>2. CASE l = Len(u)
        BY <1>7, <1>5, <2>4, <3>0, <4>2
      <4> QED
        BY <1>7, <2>4, <3>0, <4>1, <4>2
    <3> QED
      BY <1>0, <3>0, <3>1, <3>2 DEF Flows, u, v, w
  <2>5. CASE m = x
    <3> DEFINE q == Len(u) + l
    <3>0. /\ l \in DOMAIN v /\ v[l] = a
          /\ IF l < Len(v) THEN v[l + 1] = b ELSE b \in Nexts(sc[x], sc, held)
      BY <2>2, <2>5 DEF v
    <3>1. q \in DOMAIN w /\ w[q] = a
      BY <1>7, <2>5, <3>0
    <3>2. CASE l < Len(v)
      <4>1. q < Len(w) /\ w[q + 1] = b
        BY <1>7, <2>5, <3>0, <3>2
      <4> QED
        BY <1>0, <3>0, <3>1, <4>1 DEF Flows, u, v, w
    <3>3. CASE ~(l < Len(v))
      <4>1. ~(q < Len(w)) /\ b \in Nexts(sc2[p], sc2, held2)
        BY <1>0, <1>7, <1>2, <1>4, <2>5, <3>0, <3>3
      <4> QED
        BY <1>0, <3>0, <3>1, <4>1 DEF Flows, u, v, w
    <3> QED
      BY <3>2, <3>3
  <2> QED
    BY <2>3, <2>4, <2>5
<1>9. ASSUME Flows(a, b, sc2, held2, gone \cup {x}) PROVE Flows(a, b, sc, held, gone)
  <2>1. PICK m \in Blocks \ (gone \cup {x}) : \E l \in DOMAIN held2[m] :
                /\ held2[m][l] = a
                /\ IF l < Len(held2[m]) THEN held2[m][l + 1] = b
                   ELSE b \in Nexts(sc2[m], sc2, held2)
    BY <1>9 DEF Flows
  <2>2. PICK l \in DOMAIN held2[m] :
                /\ held2[m][l] = a
                /\ IF l < Len(held2[m]) THEN held2[m][l + 1] = b
                   ELSE b \in Nexts(sc2[m], sc2, held2)
    BY <2>1
  <2>3. CASE m # p
    BY <1>1, <1>2, <1>4, <1>6, <2>2, <2>3 DEF Flows
  <2>4. CASE m = p /\ l <= Len(u)
    <3>0. l \in DOMAIN w /\ w[l] = a /\ (l < Len(w) => w[l + 1] = b)
      BY <2>2, <2>4 DEF w
    <3>1. l \in DOMAIN u /\ u[l] = a /\ l < Len(w)
      BY <1>7, <2>4, <3>0
    <3>2. IF l < Len(u) THEN u[l + 1] = b ELSE b \in Nexts(sc[p], sc, held)
      <4>1. CASE l < Len(u)
        BY <1>7, <2>4, <3>0, <4>1
      <4>2. CASE l = Len(u)
        BY <1>7, <1>5, <2>4, <3>0, <4>2
      <4> QED
        BY <1>7, <2>4, <3>0, <4>1, <4>2
    <3> QED
      BY <1>0, <3>0, <3>1, <3>2 DEF Flows, u, v, w
  <2>5. CASE m = p /\ ~(l <= Len(u))
    <3> DEFINE q == l - Len(u)
    <3>0. /\ l \in DOMAIN w /\ w[l] = a
          /\ IF l < Len(w) THEN w[l + 1] = b ELSE b \in Nexts(sc2[p], sc2, held2)
      BY <2>2, <2>5 DEF w
    <3>1. q \in DOMAIN v /\ v[q] = a
      BY <1>7, <2>5, <3>0
    <3>2. IF q < Len(v) THEN v[q + 1] = b ELSE b \in Nexts(sc[x], sc, held)
      <4>1. CASE q < Len(v)
        BY <1>7, <2>5, <3>0, <4>1
      <4>2. CASE ~(q < Len(v))
        BY <1>0, <1>7, <1>2, <1>4, <2>5, <3>0, <4>2
      <4> QED
        BY <4>1, <4>2
    <3> QED
      BY <1>0, <3>0, <3>1, <3>2 DEF Flows, u, v, w
  <2> QED
    BY <2>3, <2>4, <2>5
<1> QED
  BY <1>8, <1>9

-----------------------------------------------------------------------------
(***************************************************************************)
(* The inductive invariant.                                                *)
(***************************************************************************)
\* How far the loops are.
Ordered ==
    /\ \A p, q \in DOMAIN order : order[p] = order[q] => p = q
    /\ step = "optimizeMCFG2" =>
          /\ merged = {}
          /\ \A m \in dropped : body[m] = <<>>
          /\ \A q \in DOMAIN order :
                IF q < pos THEN body[order[q]] = <<>> => order[q] \in dropped
                ELSE order[q] \notin dropped
    /\ step # "optimizeMCFG2" => \A q \in DOMAIN order : body[order[q]] # <<>>
    /\ step = "optimizeMCFG3" => \A q \in DOMAIN order : q >= pos => order[q] \notin merged
    /\ step = "done" => \A q \in DOMAIN order : order[q] \notin merged

EntryStays ==
    entry \in func.kept =>
        /\ \E q \in DOMAIN order : order[q] = entry
        /\ preds[entry] = {} /\ body[entry] # <<>> /\ body[entry][1] = entry

\* The nodes in D may be forgotten.
Forgotten(D) ==
    /\ Wired(D, preds, succs) /\ Holds(D, body, merged)
    /\ step = "optimizeMCFG2" => D \subseteq dropped
    /\ entry \in func.kept => entry \notin D
    /\ Entered => ReachesAll(D, succs)

HeldOnce ==
    \A b \in func.kept : \E m \in Blocks \ merged : \E l \in DOMAIN body[m] :
        /\ body[m][l] = b
        /\ \A k \in Blocks \ merged : \A j \in DOMAIN body[k] : body[k][j] = b => k = m /\ j = l

FlowIs ==
    \A a, b \in func.kept : FlowsInFunction(a, b) <=> Flows(a, b, succs, body, merged)

CInv ==
    /\ TypeOK /\ func \in Functions
    /\ Ordered /\ EntryStays /\ HeldOnce /\ FlowIs /\ Survives
    /\ \E D : Forgotten(D)

LEMMA FunctionIs ==
    ASSUME func \in Functions
    PROVE  /\ func.blocks \in Seq(Blocks) /\ func.blocks # <<>> /\ entry \in Blocks
           /\ func.succs \in [Blocks -> SUBSET Blocks] /\ func.kept \subseteq Blocks
           /\ \A b \in Blocks : entry \notin func.succs[b]
           /\ \A p, q \in DOMAIN func.blocks : func.blocks[p] = func.blocks[q] => p = q
           /\ IsFiniteSet(Blocks)
<1>1. Flowgraph(func)
  BY FunctionsAssumption
<1>2. func.blocks \in Seq(Blocks) /\ func.blocks # <<>>
  BY <1>1 DEF Flowgraph, Blocks
<1>3. entry \in Blocks
  BY <1>2 DEF entry
<1>4. IsFiniteSet(Blocks)
  <2> DEFINE f == [p \in 1..Len(func.blocks) |-> func.blocks[p]]
  <2>0. Blocks = {func.blocks[p] : p \in 1..Len(func.blocks)}
    BY <1>2 DEF Blocks
  <2>1. f \in Surjection(1..Len(func.blocks), Blocks)
    BY <2>0 DEF Surjection
  <2>2. IsFiniteSet(1..Len(func.blocks))
    BY <1>2, FS_Interval
  <2> HIDE DEF f
  <2> QED
    BY <2>1, <2>2, FS_Surjection
<1> QED
  BY <1>1, <1>2, <1>3, <1>4 DEF Flowgraph, Blocks, entry, IsInjective

LEMMA OneIsSeq == ASSUME NEW S, NEW e \in S PROVE <<e>> \in Seq(S)
<1>1. <<e>> = [i \in 1..1 |-> e]
  OBVIOUS
<1> QED
  BY <1>1, SeqDef

LEMMA CInvInit == Init => CInv
<1> SUFFICES ASSUME Init PROVE CInv
  OBVIOUS
<1>0. func \in Functions
  BY DEF Init
<1>2. /\ body \in [Blocks -> Seq(func.kept)]
      /\ \A m \in Blocks \ func.kept : body[m] = <<>> /\ DOMAIN body[m] = {}
      /\ \A m \in func.kept : /\ m \in Blocks /\ body[m] # <<>> /\ body[m][1] = m
                              /\ DOMAIN body[m] = 1..1 /\ Len(body[m]) = 1
  <2>1. ASSUME NEW m \in Blocks \ func.kept PROVE body[m] = <<>> /\ DOMAIN body[m] = {}
    BY <2>1 DEF Init
  <2>2. ASSUME NEW m \in func.kept
        PROVE  /\ m \in Blocks /\ body[m] # <<>> /\ body[m][1] = m /\ body[m] \in Seq(func.kept)
               /\ DOMAIN body[m] = 1..1 /\ Len(body[m]) = 1
    <3>1. m \in Blocks
      BY <1>0, FunctionIs
    <3>2. body[m] = <<m>>
      BY <3>1 DEF Init
    <3>3. <<m>> \in Seq(func.kept)
      BY OneIsSeq
    <3>5. <<m>> # <<>> /\ <<m>>[1] = m /\ Len(<<m>>) = 1
      OBVIOUS
    <3>4. DOMAIN <<m>> = 1..1
      OBVIOUS
    <3> QED
      BY <3>1, <3>2, <3>3, <3>4, <3>5
  <2>3. body = [b \in Blocks |-> body[b]]
    BY DEF Init
  <2>4. ASSUME NEW m \in Blocks PROVE body[m] \in Seq(func.kept)
    <3>1. <<>> \in Seq(func.kept)
      OBVIOUS
    <3> QED
      BY <2>1, <2>2, <3>1
  <2> QED
    BY <2>1, <2>2, <2>3, <2>4
<1>1. TypeOK
  <2>1. order \in Seq(Blocks) /\ Len(order) \in Nat /\ pos \in 1..(Len(order) + 1)
    BY <1>0, FunctionIs DEF Init
  <2>2. preds \in [Blocks -> SUBSET Blocks] /\ succs \in [Blocks -> SUBSET Blocks]
    BY <1>0, FunctionIs DEF Init
  <2> QED
    BY <1>2, <2>1, <2>2 DEF Init, TypeOK
<1>3. Ordered
  BY <1>0, FunctionIs DEF Init, Ordered
<1>4. EntryStays
  <2> SUFFICES ASSUME entry \in func.kept
               PROVE  /\ \E q \in DOMAIN order : order[q] = entry
                      /\ preds[entry] = {} /\ body[entry] # <<>> /\ body[entry][1] = entry
    BY DEF EntryStays
  <2>1. 1 \in DOMAIN order /\ order[1] = entry
    BY <1>0, FunctionIs DEF Init, entry
  <2>2. preds[entry] = {}
    BY <1>0, FunctionIs DEF Init
  <2> QED
    BY <1>2, <2>1, <2>2
<1>5. HeldOnce
  <2> SUFFICES ASSUME NEW b \in func.kept
               PROVE  \E m \in Blocks \ merged : \E l \in DOMAIN body[m] :
                        /\ body[m][l] = b
                        /\ \A k \in Blocks \ merged : \A j \in DOMAIN body[k] :
                              body[k][j] = b => k = m /\ j = l
    BY DEF HeldOnce
  <2>1. b \in Blocks \ merged /\ 1 \in DOMAIN body[b] /\ body[b][1] = b
    BY <1>0, <1>2, FunctionIs DEF Init
  <2>2. \A k \in Blocks : \A j \in DOMAIN body[k] : body[k][j] = k /\ j = 1
    BY <1>2
  <2> QED
    BY <2>1, <2>2
<1>6. FlowIs
  <2> SUFFICES ASSUME NEW a \in func.kept, NEW b \in func.kept
               PROVE  FlowsInFunction(a, b) <=> Flows(a, b, succs, body, merged)
    BY DEF FlowIs
  <2>1. Blocks \ func.kept = {e \in Blocks : body[e] = <<>>}
    BY <1>2
  <2>2. FlowsInFunction(a, b) <=> b \in Reached(succs[a], succs, body)
    BY <2>1, BeyondIsReached DEF FlowsInFunction, Init
  <2>3. \A k \in Blocks : (body[k] # <<>> /\ body[k][1] = b) <=> k = b
    BY <1>2
  <2>4. b \in Nexts(succs[a], succs, body) <=> b \in Reached(succs[a], succs, body)
    BY <2>3 DEF Nexts, Reached
  <2>5. \A m \in Blocks \ merged : \A l \in DOMAIN body[m] :
           (body[m][l] = a <=> m = a) /\ ~(l < Len(body[m]))
    <3>1. ASSUME NEW m \in Blocks, NEW l \in DOMAIN body[m]
          PROVE  (body[m][l] = a <=> m = a) /\ ~(l < Len(body[m]))
      <4>1. m \in func.kept /\ l = 1
        BY <1>2, <3>1
      <4>2. body[m][1] = m /\ Len(body[m]) = 1
        BY <1>2, <4>1
      <4> QED
        BY <4>1, <4>2
    <3> QED
      BY <3>1
  <2>6. a \in Blocks \ merged /\ 1 \in DOMAIN body[a]
    BY <1>0, <1>2, FunctionIs DEF Init
  <2> QED
    BY <2>2, <2>4, <2>5, <2>6 DEF Flows
<1>7. Survives
  BY DEF Survives, Init
<1>8. Forgotten({})
  <2>1. Wired({}, preds, succs)
    BY <1>0, FunctionIs DEF Wired, Init
  <2>2. Holds({}, body, merged)
    BY <1>1 DEF Holds, TypeOK, Init
  <2>3. ASSUME Entered PROVE ReachesAll({}, succs)
    <3> SUFFICES ASSUME NEW S \in SUBSET Blocks, entry \in S, \A a \in S : succs[a] \subseteq S
                 PROVE  Blocks \subseteq S
      BY DEF ReachesAll
    <3>1. \A b \in Blocks \ {entry} : b \in Beyond(entry, func.succs, Blocks)
      BY <2>3 DEF Entered, entry
    <3>2. \A a \in {entry} \cup (S \cap Blocks) : func.succs[a] \subseteq S
      BY DEF Init
    <3> QED
      BY <3>1, <3>2 DEF Beyond
  <2> QED
    BY <2>1, <2>2, <2>3 DEF Forgotten
<1> QED
  BY <1>0, <1>1, <1>3, <1>4, <1>5, <1>6, <1>7, <1>8 DEF CInv

-----------------------------------------------------------------------------
(***************************************************************************)
(* The steps.  The definitions above that take links and instructions as   *)
(* arguments depend on nothing else but the function, which stays.         *)
(***************************************************************************)
LEMMA SameFunction ==
    ASSUME func' = func
    PROVE  /\ Blocks' = Blocks /\ entry' = entry /\ Entered' = Entered
           /\ \A D : Wired(D, preds, succs)' <=> Wired(D, preds', succs')
           /\ \A D : Holds(D, body, merged)' <=> Holds(D, body', merged')
           /\ \A D : ReachesAll(D, succs)' <=> ReachesAll(D, succs')
           /\ \A a, b : FlowsInFunction(a, b)' <=> FlowsInFunction(a, b)
           /\ \A a, b : Flows(a, b, succs, body, merged)' <=> Flows(a, b, succs', body', merged')
<1>1. Blocks' = Blocks /\ entry' = entry
  BY DEF Blocks, entry
<1>2. \A m, T : Beyond(m, func.succs, T)' = Beyond(m, func.succs, T)
  BY <1>1 DEF Beyond
<1>3. Entered' = Entered
  BY <1>1, <1>2 DEF Entered
<1>4. \A a, b : FlowsInFunction(a, b)' <=> FlowsInFunction(a, b)
  BY <1>1, <1>2 DEF FlowsInFunction
<1>5. \A A : Reached(A, succs, body)' = Reached(A, succs', body')
  BY <1>1 DEF Reached, ClosedUnder
<1>6. \A a, b : Flows(a, b, succs, body, merged)' <=> Flows(a, b, succs', body', merged')
  BY <1>1, <1>5 DEF Flows, Nexts
<1> QED
  BY <1>1, <1>3, <1>4, <1>6 DEF Wired, Holds, ReachesAll

\* A step of optimizeMCFG2 that changes links, or none.
LEMMA LinksChange ==
    ASSUME CInv, NEW D, Forgotten(D), NEW D2, D \subseteq D2, D2 \subseteq dropped',
           step = "optimizeMCFG2", UNCHANGED <<func, step, order, body, merged, crashed>>,
           TypeOK', Ordered', Wired(D2, preds', succs'), SameNexts(D, succs, succs', body),
           Entered => ReachesAll(D2, succs'), entry \in func.kept => preds'[entry] = {}
    PROVE  CInv'
<1>1. func' \in Functions /\ Survives'
  BY SameFunction DEF CInv, Survives
<1>2. EntryStays'
  BY SameFunction DEF CInv, EntryStays
<1>3. HeldOnce'
  BY SameFunction DEF CInv, HeldOnce
<1>4. FlowIs'
  <2> SUFFICES ASSUME NEW a \in func.kept, NEW b \in func.kept
               PROVE  FlowsInFunction(a, b)' <=> Flows(a, b, succs, body, merged)'
    BY DEF FlowIs
  <2>1. Flows(a, b, succs', body, merged) <=> Flows(a, b, succs, body, merged)
    BY SameFlows DEF Forgotten
  <2> QED
    BY <2>1, SameFunction DEF CInv, FlowIs
<1>5. Forgotten(D2)'
  <2>1. \A m \in D2 : body[m] = <<>>
    BY DEF Ordered
  <2>2. Holds(D2, body', merged')
    BY <2>1 DEF Forgotten, Holds
  <2>3. entry \in func.kept => entry \notin D2
    BY <2>1 DEF CInv, EntryStays
  <2> QED
    BY <2>2, <2>3, SameFunction DEF Forgotten
<1> QED
  BY <1>1, <1>2, <1>3, <1>4, <1>5 DEF CInv

LEMMA NodeVisited ==
    ASSUME CInv, At("optimizeMCFG2")
    PROVE  /\ step = "optimizeMCFG2" /\ pos \in DOMAIN order /\ n \in Blocks
           /\ \A D : Forgotten(D) => n \notin D /\ (body[n] = <<>> => n # entry \/ entry \notin func.kept)
<1>1. pos \in DOMAIN order /\ n \in Blocks
  BY DEF CInv, TypeOK, At, n
<1> QED
  BY <1>1 DEF CInv, TypeOK, At, Ordered, Forgotten, EntryStays, n

LEMMA KeepStep == CInv /\ Keep => CInv'
<1> SUFFICES ASSUME CInv, Keep PROVE CInv'
  OBVIOUS
<1>1. step = "optimizeMCFG2" /\ pos \in DOMAIN order /\ body[n] # <<>>
  BY NodeVisited DEF Keep, Empty
<1>2. TypeOK'
  BY <1>1, SameFunction DEF CInv, TypeOK, Keep
<1>3. Ordered'
  BY <1>1 DEF CInv, TypeOK, Ordered, Keep, n
<1>4. PICK D : Forgotten(D)
  BY DEF CInv
<1>5. SameNexts(D, succs, succs, body)
  BY DEF SameNexts
<1> QED
  BY <1>1, <1>2, <1>3, <1>4, <1>5, LinksChange DEF Keep, Forgotten, CInv, EntryStays

LEMMA RemoveSelfLoopStep == CInv /\ RemoveSelfLoop => CInv'
<1> SUFFICES ASSUME CInv, RemoveSelfLoop PROVE CInv'
  OBVIOUS
<1>1. PICK D : Forgotten(D)
  BY DEF CInv
<1>2. step = "optimizeMCFG2" /\ n \in Blocks \ D /\ body[n] = <<>>
  BY <1>1, NodeVisited DEF RemoveSelfLoop, Empty
<1>3. SelfLoopGone(n, preds, succs, preds', succs')
  BY DEF RemoveSelfLoop, SelfLoopGone
<1>4. Wired(D, preds', succs') /\ (ReachesAll(D, succs) => ReachesAll(D, succs'))
  BY <1>1, <1>2, <1>3, SelfLoopWired DEF Forgotten
<1>5. SameNexts(D, succs, succs', body)
  BY <1>1, <1>2, <1>3, SelfLoopFlow DEF Forgotten
<1>6. TypeOK'
  <2>1. preds' \in [Blocks -> SUBSET Blocks] /\ succs' \in [Blocks -> SUBSET Blocks]
    BY <1>4 DEF Wired
  <2> QED
    BY <2>1, SameFunction DEF CInv, TypeOK, RemoveSelfLoop
<1>7. Ordered'
  BY DEF CInv, Ordered, RemoveSelfLoop
<1>8. entry \in func.kept => preds'[entry] = {}
  BY <1>3, FunctionIs DEF CInv, TypeOK, EntryStays, SelfLoopGone
<1> QED
  BY <1>1, <1>2, <1>4, <1>5, <1>6, <1>7, <1>8, LinksChange DEF RemoveSelfLoop, Forgotten

\* What the ways of dropping a node have in common.
LEMMA DropShape ==
    ASSUME CInv, Drop, preds' \in [Blocks -> SUBSET Blocks], succs' \in [Blocks -> SUBSET Blocks]
    PROVE  /\ step = "optimizeMCFG2" /\ pos \in DOMAIN order /\ body[n] = <<>> /\ n \in Blocks
           /\ n \in dropped' /\ dropped \subseteq dropped'
           /\ TypeOK' /\ Ordered'
<1>1. step = "optimizeMCFG2" /\ pos \in DOMAIN order /\ body[n] = <<>> /\ n \in Blocks
  BY NodeVisited DEF Drop, Empty
<1>2. dropped' = dropped \cup {n} /\ pos' = pos + 1
  BY DEF Drop
<1>3. TypeOK'
  BY <1>1, <1>2, SameFunction DEF CInv, TypeOK, Drop
<1>4. Ordered'
  <2>1. \A q \in DOMAIN order : q # pos => order[q] # n
    BY <1>1 DEF CInv, Ordered, n
  <2>2. order' = order /\ body' = body /\ merged' = merged /\ step' = step
    BY DEF Drop
  <2>3. \A q \in DOMAIN order : q \in Int /\ pos \in Int
    BY DEF CInv, TypeOK
  <2>4. order[pos] = n
    BY DEF n
  <2> QED
    BY <1>1, <1>2, <2>1, <2>2, <2>3, <2>4 DEF CInv, Ordered
<1> QED
  BY <1>1, <1>2, <1>3, <1>4

LEMMA One ==
    ASSUME func \in Functions, NEW S \in SUBSET Blocks, OnlyOne(S)
    PROVE  \E e : S = {e}
<1>1. IsFiniteSet(S)
  BY FunctionIs, FS_Subset
<1> QED
  BY <1>1, FS_Singleton DEF OnlyOne

LEMMA SpliceStep == CInv /\ Splice => CInv'
<1> SUFFICES ASSUME CInv, Splice PROVE CInv'
  OBVIOUS
<1>1. PICK D : Forgotten(D)
  BY DEF CInv
<1>2. Drop /\ n \in Blocks \ D /\ n \notin preds[n] /\ body[n] = <<>>
  BY <1>1, NodeVisited DEF Splice, Drop, Empty
<1>3. PICK p \in preds[n], s \in succs[n] :
         /\ succs' = [succs EXCEPT ![p] = (@ \ {n}) \cup {s}]
         /\ preds' = [preds EXCEPT ![s] = (@ \ {n}) \cup {p}]
  BY DEF Splice
<1>4. preds[n] = {p} /\ succs[n] = {s}
  <2>1. preds[n] \in SUBSET Blocks /\ succs[n] \in SUBSET Blocks
    BY <1>2 DEF CInv, TypeOK
  <2> QED
    BY <1>3, <2>1, One DEF Splice, CInv
<1>5. Spliced(n, p, s, preds, succs, preds', succs')
  <2>1. n # s
    BY <1>1, <1>2, <1>4 DEF Forgotten, Wired
  <2> QED
    BY <1>2, <1>3, <1>4, <2>1 DEF Spliced
<1>6. /\ p \in Blocks \ D /\ s \in Blocks \ D /\ Wired(D \cup {n}, preds', succs')
      /\ ReachesAll(D, succs) => ReachesAll(D \cup {n}, succs')
  BY <1>1, <1>2, <1>5, SplicedWired DEF Forgotten
<1>7. SameNexts(D, succs, succs', body)
  BY <1>1, <1>2, <1>5, SplicedFlow DEF Forgotten
<1>8. step = "optimizeMCFG2" /\ n \in dropped' /\ dropped \subseteq dropped' /\ TypeOK' /\ Ordered'
  BY <1>2, <1>6, DropShape DEF Wired
<1>9. entry \in func.kept => preds'[entry] = {}
  <2>1. ASSUME entry \in func.kept PROVE s # entry
    BY <1>1, <1>2, <1>4, <1>6, <2>1 DEF CInv, EntryStays, Forgotten, Wired
  <2> QED
    BY <1>3, <2>1, FunctionIs DEF CInv, TypeOK, EntryStays
<1> QED
  BY <1>1, <1>2, <1>6, <1>7, <1>8, <1>9, LinksChange DEF Drop, Forgotten

LEMMA LeaveLinkedStep == CInv /\ LeaveLinked => CInv'
<1> SUFFICES ASSUME CInv, LeaveLinked PROVE CInv'
  OBVIOUS
<1>1. PICK D : Forgotten(D)
  BY DEF CInv
<1>2. Drop /\ preds' = preds /\ succs' = succs
  BY DEF LeaveLinked
<1>3. step = "optimizeMCFG2" /\ dropped \subseteq dropped' /\ TypeOK' /\ Ordered'
  BY <1>2, DropShape DEF CInv, TypeOK
<1>4. SameNexts(D, succs, succs', body)
  BY <1>2 DEF SameNexts
<1> QED
  BY <1>1, <1>2, <1>3, <1>4, LinksChange DEF Drop, Forgotten, CInv, EntryStays

LEMMA UnlinkStep == CInv /\ Unlink => CInv'
<1> SUFFICES ASSUME CInv, Unlink PROVE CInv'
  OBVIOUS
<1>1. PICK D : Forgotten(D)
  BY DEF CInv
<1>2. Drop /\ n \in Blocks \ D /\ n \notin preds[n] /\ body[n] = <<>>
  BY <1>1, NodeVisited DEF Unlink, Drop, Empty
<1>3. Unlinked(n, preds, succs, preds', succs')
  BY DEF Unlink, Unlinked
<1>4. /\ Wired(D \cup {n}, preds', succs')
      /\ ReachesAll(D, succs) => ReachesAll(D \cup {n}, succs')
  BY <1>1, <1>2, <1>3, UnlinkedWired DEF Forgotten
<1>5. SameNexts(D, succs, succs', body)
  BY <1>1, <1>2, <1>3, UnlinkedFlow DEF Forgotten
<1>6. step = "optimizeMCFG2" /\ n \in dropped' /\ dropped \subseteq dropped' /\ TypeOK' /\ Ordered'
  BY <1>2, <1>4, DropShape DEF Wired
<1>7. entry \in func.kept => preds'[entry] = {}
  BY <1>3, FunctionIs DEF CInv, TypeOK, EntryStays, Unlinked
<1> QED
  BY <1>1, <1>2, <1>4, <1>5, <1>6, <1>7, LinksChange DEF Drop, Forgotten

\* Erasing a node of the vector.
LEMMA ErasedAt ==
    ASSUME NEW S, NEW s \in Seq(S), NEW p \in DOMAIN s
    PROVE  /\ RemoveAt(s, p) \in Seq(S) /\ Len(RemoveAt(s, p)) = Len(s) - 1 /\ Len(s) \in Nat
           /\ DOMAIN RemoveAt(s, p) = 1..(Len(s) - 1) /\ DOMAIN s = 1..Len(s)
           /\ \A q \in 1..(Len(s) - 1) : RemoveAt(s, p)[q] = IF q < p THEN s[q] ELSE s[q + 1]
<1> DEFINE u == SubSeq(s, 1, p - 1)
           v == SubSeq(s, p + 1, Len(s))
<1>1. Len(s) \in Nat /\ DOMAIN s = 1..Len(s) /\ p \in 1..Len(s) /\ \A q \in 1..Len(s) : s[q] \in S
  BY LenProperties, ElementOfSeq
<1>2. u \in Seq(S) /\ Len(u) = p - 1 /\ \A q \in 1..(p - 1) : u[q] = s[q]
  BY <1>1, SubSeqProperties
<1>3. v \in Seq(S) /\ Len(v) = Len(s) - p /\ \A q \in 1..(Len(s) - p) : v[q] = s[p + q]
  BY <1>1, SubSeqProperties
<1>4. RemoveAt(s, p) = u \o v
  BY DEF RemoveAt
<1> HIDE DEF u, v
<1>5. /\ u \o v \in Seq(S) /\ Len(u \o v) = Len(u) + Len(v)
      /\ \A q \in 1..(Len(u) + Len(v)) : (u \o v)[q] = IF q <= Len(u) THEN u[q] ELSE v[q - Len(u)]
  BY <1>2, <1>3, ConcatProperties
<1>6. ASSUME NEW q \in 1..(Len(s) - 1) PROVE (u \o v)[q] = IF q < p THEN s[q] ELSE s[q + 1]
  <2>1. Len(u) + Len(v) = Len(s) - 1 /\ q \in Nat /\ p \in Nat
    BY <1>1, <1>2, <1>3
  <2>2. (u \o v)[q] = IF q <= p - 1 THEN u[q] ELSE v[q - (p - 1)]
    BY <1>2, <1>5, <2>1
  <2>3. CASE q < p
    BY <1>2, <2>1, <2>2, <2>3
  <2>4. CASE ~(q < p)
    <3> DEFINE r == q - (p - 1)
    <3>1. r \in 1..(Len(s) - p) /\ p + r = q + 1
      BY <1>1, <2>1, <2>4
    <3>2. v[r] = s[p + r]
      BY <1>3, <3>1
    <3> QED
      BY <2>1, <2>2, <2>4, <3>1, <3>2
  <2> QED
    BY <2>3, <2>4
<1>7. Len(u \o v) = Len(s) - 1
  BY <1>1, <1>2, <1>3, <1>5
<1>8. DOMAIN (u \o v) = 1..(Len(s) - 1)
  BY <1>5, <1>7, LenProperties
<1> QED
  BY <1>1, <1>4, <1>5, <1>6, <1>7, <1>8

LEMMA EraseStep ==
    ASSUME CInv, NEW s, NEW gone, Erase(s, gone), entry \in func.kept => entry \notin gone
    PROVE  CInv'
<1>1. PICK p \in DOMAIN order : order[p] \in gone /\ order' = RemoveAt(order, p)
  BY DEF Erase
<1>2. /\ order \in Seq(Blocks) /\ Len(order) \in Nat /\ DOMAIN order = 1..Len(order)
      /\ pos = Len(order) + 1 /\ pos' = Len(order)
  BY LenProperties DEF CInv, TypeOK, Erase, Through
<1>3. /\ order' \in Seq(Blocks) /\ Len(order') = Len(order) - 1
      /\ DOMAIN order' = 1..(Len(order) - 1)
      /\ \A q \in 1..(Len(order) - 1) : order'[q] = IF q < p THEN order[q] ELSE order[q + 1]
  BY <1>1, <1>2, ErasedAt
<1>4. UNCHANGED <<func, step, preds, succs, body, dropped, merged, crashed>>
  BY DEF Erase
<1>5. TypeOK'
  BY <1>1, <1>2, <1>3, <1>4, SameFunction DEF CInv, TypeOK
<1>6. Ordered'
  <2> DEFINE From(q) == IF q < p THEN q ELSE q + 1
  <2>1. \A q \in DOMAIN order' : From(q) \in DOMAIN order /\ order'[q] = order[From(q)]
    BY <1>1, <1>2, <1>3
  <2>2. \A q, r \in DOMAIN order' : From(q) = From(r) => q = r
    BY <1>2, <1>3
  <2>3. \A q \in DOMAIN order' : q < pos' /\ ~(q >= pos') /\ From(q) < pos
    BY <1>1, <1>2, <1>3
  <2> HIDE DEF From
  <2> QED
    BY <1>4, <2>1, <2>2, <2>3 DEF CInv, Ordered
<1>7. EntryStays'
  <2> SUFFICES ASSUME entry \in func.kept PROVE \E q \in DOMAIN order' : order'[q] = entry
    BY <1>4, SameFunction DEF CInv, EntryStays
  <2>1. PICK q \in DOMAIN order : order[q] = entry
    BY DEF CInv, EntryStays
  <2>2. q # p
    BY <1>1, <2>1
  <2> DEFINE r == IF q < p THEN q ELSE q - 1
  <2>3. r \in DOMAIN order' /\ order'[r] = entry
    BY <1>1, <1>2, <1>3, <2>1, <2>2
  <2> QED
    BY <2>3
<1>8. HeldOnce' /\ FlowIs' /\ Survives' /\ func' \in Functions
  BY <1>4, SameFunction DEF CInv, HeldOnce, FlowIs, Survives
<1>9. \A D : Forgotten(D) => Forgotten(D)'
  BY <1>4, SameFunction DEF Forgotten
<1> QED
  BY <1>5, <1>6, <1>7, <1>8, <1>9 DEF CInv

LEMMA EraseDroppedStep == CInv /\ EraseDropped => CInv'
<1> SUFFICES ASSUME CInv, EraseDropped PROVE CInv'
  OBVIOUS
<1>1. entry \in func.kept => entry \notin dropped
  BY DEF CInv, EntryStays, Ordered, EraseDropped, Erase, Through
<1> QED
  BY <1>1, EraseStep DEF EraseDropped

LEMMA EraseMergedStep == CInv /\ EraseMerged => CInv'
<1> SUFFICES ASSUME CInv, EraseMerged PROVE CInv'
  OBVIOUS
<1>1. entry \in func.kept => entry \notin merged
  BY DEF CInv, Forgotten, Holds
<1> QED
  BY <1>1, EraseStep DEF EraseMerged

LEMMA GoOnStep ==
    ASSUME CInv, NEW s, NEW gone, NEW next, GoOn(s, gone, next),
           \/ s = "optimizeMCFG2" /\ gone = dropped /\ next = "optimizeMCFG3"
           \/ s = "optimizeMCFG3" /\ gone = merged /\ next = "done"
    PROVE  CInv'
<1>1. /\ step = s /\ step' = next /\ pos' = 1
      /\ UNCHANGED <<func, order, preds, succs, body, dropped, merged, crashed>>
      /\ \A q \in DOMAIN order : q < pos /\ order[q] \notin gone
  BY DEF GoOn, Through, Vector, CInv, TypeOK
<1>2. TypeOK'
  BY <1>1, SameFunction DEF CInv, TypeOK
<1>3. Ordered'
  BY <1>1 DEF CInv, Ordered
<1>4. EntryStays' /\ HeldOnce' /\ FlowIs' /\ Survives' /\ func' \in Functions
  BY <1>1, SameFunction DEF CInv, EntryStays, HeldOnce, FlowIs, Survives
<1>5. \A D : Forgotten(D) => Forgotten(D)'
  BY <1>1, SameFunction DEF Forgotten
<1> QED
  BY <1>2, <1>3, <1>4, <1>5 DEF CInv

LEMMA PassStep == CInv /\ Pass => CInv'
<1> SUFFICES ASSUME CInv, Pass PROVE CInv'
  OBVIOUS
<1>1. /\ step = "optimizeMCFG3" /\ pos' = pos + 1 /\ pos \in 1..Len(order)
      /\ UNCHANGED <<func, step, order, preds, succs, body, dropped, merged, crashed>>
  BY DEF Pass, At, CInv, TypeOK
<1>2. TypeOK'
  BY <1>1, SameFunction DEF CInv, TypeOK
<1>3. Ordered'
  BY <1>1 DEF CInv, TypeOK, Ordered
<1>4. EntryStays' /\ HeldOnce' /\ FlowIs' /\ Survives' /\ func' \in Functions
  BY <1>1, SameFunction DEF CInv, EntryStays, HeldOnce, FlowIs, Survives
<1>5. \A D : Forgotten(D) => Forgotten(D)'
  BY <1>1, SameFunction DEF Forgotten
<1> QED
  BY <1>2, <1>3, <1>4, <1>5 DEF CInv

\* A node that is its own only predecessor cannot be got at from elsewhere.
LEMMA MergeWithItselfStep == CInv /\ MergeWithItself => CInv'
<1> SUFFICES ASSUME CInv, MergeWithItself PROVE CInv'
  OBVIOUS
<1>1. PICK D : Forgotten(D)
  BY DEF CInv
<1>2. /\ UNCHANGED <<func, step, order, pos, preds, succs, body, dropped, merged>>
      /\ step = "optimizeMCFG3" /\ pos \in DOMAIN order /\ n \in Blocks /\ n \in preds[n]
  BY DEF MergeWithItself, At, CInv, TypeOK, n
<1>3. n \in Blocks \ D
  BY <1>1, <1>2 DEF CInv, TypeOK, Ordered, Forgotten, Holds, n
<1>4. preds[n] = {n}
  <2>1. preds[n] \in SUBSET Blocks
    BY <1>2 DEF CInv, TypeOK
  <2> QED
    BY <1>2, <2>1, One DEF MergeWithItself, Chained, CInv
<1>5. ~Entered
  <2> SUFFICES ASSUME Entered PROVE FALSE
    OBVIOUS
  <2>1. entry \in func.kept /\ ReachesAll(D, succs)
    BY <1>1 DEF Forgotten, Entered, entry
  <2>2. entry # n /\ entry \in Blocks \ D
    BY <1>1, <1>4, <2>1, FunctionIs DEF CInv, EntryStays, Forgotten
  <2> DEFINE S == (Blocks \ D) \ {n}
  <2>3. \A a \in S : succs[a] \subseteq S
    BY <1>1, <1>3, <1>4 DEF Forgotten, Wired
  <2>4. Blocks \ D \subseteq S
    BY <2>1, <2>2, <2>3 DEF ReachesAll
  <2> QED
    BY <1>3, <2>4
<1>6. TypeOK' /\ Ordered'
  BY <1>2, SameFunction DEF CInv, TypeOK, Ordered, MergeWithItself
<1>7. EntryStays' /\ HeldOnce' /\ FlowIs' /\ func' \in Functions
  BY <1>2, SameFunction DEF CInv, EntryStays, HeldOnce, FlowIs
<1>8. Survives'
  BY <1>2, <1>5, SameFunction DEF Survives
<1>9. Forgotten(D)'
  BY <1>1, <1>2, SameFunction DEF Forgotten
<1> QED
  BY <1>6, <1>7, <1>8, <1>9 DEF CInv

LEMMA MergeStep == CInv /\ Merge => CInv'
<1> SUFFICES ASSUME CInv, Merge PROVE CInv'
  OBVIOUS
<1>1. PICK D : Forgotten(D)
  BY DEF CInv
<1>2. /\ UNCHANGED <<func, step, order, dropped, crashed>>
      /\ merged' = merged \cup {n} /\ pos' = pos + 1
      /\ step = "optimizeMCFG3" /\ pos \in DOMAIN order /\ n \in Blocks /\ n \notin preds[n]
      /\ Chained
  BY DEF Merge, At, CInv, TypeOK, n
<1>3. n \in Blocks \ D /\ body[n] # <<>>
  BY <1>1, <1>2 DEF CInv, TypeOK, Ordered, Forgotten, Holds, n
<1>4. PICK p \in preds[n] :
         /\ body' = [body EXCEPT ![p] = @ \o body[n]]
         /\ succs' = [succs EXCEPT ![p] = succs[n]]
         /\ preds' = [m \in Blocks |->
                        IF m = n THEN {}
                        ELSE IF m \in succs[n] THEN (preds[m] \ {n}) \cup {p}
                        ELSE preds[m]]
  BY DEF Merge
<1>5. preds[n] = {p} /\ p \in Blocks \ D
  <2>1. preds[n] \in SUBSET Blocks
    BY <1>2 DEF CInv, TypeOK
  <2>2. preds[n] = {p}
    BY <1>2, <1>4, <2>1, One DEF Chained, CInv
  <2> QED
    BY <1>1, <1>3, <2>1, <2>2 DEF Forgotten, Wired
<1>6. succs[p] = {n}
  <2>1. succs[p] \in SUBSET Blocks /\ OnlyOne(succs[p])
    BY <1>2, <1>5 DEF CInv, TypeOK, Chained
  <2>2. n \in succs[p]
    BY <1>1, <1>3, <1>5 DEF Forgotten, Wired
  <2> QED
    BY <2>1, <2>2, One DEF CInv
<1>7. Merged(n, p, preds, succs, preds', succs')
  BY <1>2, <1>4, <1>5, <1>6 DEF Merged
<1>8. /\ Wired(D \cup {n}, preds', succs')
      /\ ReachesAll(D, succs) => ReachesAll(D \cup {n}, succs')
  BY <1>1, <1>3, <1>7, MergedWired DEF Forgotten
<1>9. MergedInto(D, n, p, preds, succs, preds', succs', body, body', merged)
  BY <1>1, <1>3, <1>4, <1>7 DEF MergedInto, Forgotten
<1>10. FlowIs'
  <2> SUFFICES ASSUME NEW a \in func.kept, NEW b \in func.kept
               PROVE  FlowsInFunction(a, b)' <=> Flows(a, b, succs, body, merged)'
    BY <1>2 DEF FlowIs
  <2>1. Flows(a, b, succs', body', merged') <=> Flows(a, b, succs, body, merged)
    BY <1>2, <1>9, MergedFlow
  <2> QED
    BY <1>2, <2>1, SameFunction DEF CInv, FlowIs
<1> DEFINE u == body[p]
           v == body[n]
           w == body'[p]
<1>11. /\ u \in Seq(func.kept) /\ v \in Seq(func.kept) /\ v # <<>> /\ w = u \o v
       /\ \A m \in Blocks : m # p => body'[m] = body[m]
       /\ p # n /\ p \in Blocks /\ n \notin merged /\ p \notin merged
  BY <1>1, <1>2, <1>3, <1>4, <1>5 DEF CInv, TypeOK, Forgotten, Holds
<1>12. body' \in [Blocks -> Seq(func.kept)]
  <2> HIDE DEF u, v, w
  <2>1. w \in Seq(func.kept)
    <3>1. u \o v \in Seq(func.kept)
      BY <1>11, Joined
    <3> QED
      BY <1>11, <3>1
  <2>2. body' = [body EXCEPT ![p] = w]
    BY <1>4, <1>11 DEF w, u, v
  <2> QED
    BY <1>11, <2>1, <2>2 DEF CInv, TypeOK
<1> HIDE DEF u, v, w
<1>13. /\ Len(w) = Len(u) + Len(v) /\ Len(u) \in Nat /\ Len(v) \in Nat \ {0}
       /\ DOMAIN w = 1..(Len(u) + Len(v)) /\ DOMAIN u = 1..Len(u) /\ DOMAIN v = 1..Len(v)
       /\ \A l \in 1..Len(u) : w[l] = u[l]
       /\ \A l \in 1..Len(v) : w[Len(u) + l] = v[l]
  BY <1>11, Joined
<1>14. \A m \in Blocks : body[m] # <<>> => body'[m] # <<>> /\ body'[m][1] = body[m][1]
  <2>1. u # <<>> => 1 \in 1..Len(u)
    BY <1>11, EmptySeq
  <2>2. w # <<>>
    BY <1>11, <1>13
  <2> QED
    BY <1>11, <1>13, <2>1, <2>2 DEF u, w
<1>15. TypeOK'
  <2>1. preds' \in [Blocks -> SUBSET Blocks] /\ succs' \in [Blocks -> SUBSET Blocks]
    BY <1>8 DEF Wired
  <2>2. pos' \in 1..(Len(order) + 1)
    BY <1>2 DEF CInv, TypeOK
  <2> QED
    BY <1>2, <1>12, <2>1, <2>2, SameFunction DEF CInv, TypeOK
<1>16. Ordered'
  <2>1. \A q \in DOMAIN order : q \in Int /\ order[q] \in Blocks /\ pos \in Int
    BY DEF CInv, TypeOK
  <2>2. \A q \in DOMAIN order : q >= pos' => order[q] # n
    BY <1>2, <2>1 DEF CInv, Ordered, n
  <2> QED
    BY <1>2, <1>14, <2>1, <2>2 DEF CInv, Ordered
<1>17. EntryStays'
  <2> SUFFICES ASSUME entry \in func.kept
               PROVE  preds'[entry] = {} /\ body'[entry] # <<>> /\ body'[entry][1] = entry
    BY <1>2, SameFunction DEF CInv, EntryStays
  <2>1. entry \in Blocks \ D /\ preds[entry] = {} /\ body[entry] # <<>> /\ body[entry][1] = entry
    BY <1>1, FunctionIs DEF CInv, EntryStays, Forgotten
  <2>2. entry \notin succs[n]
    BY <1>1, <1>3, <2>1 DEF Forgotten, Wired
  <2> QED
    BY <1>4, <1>14, <2>1, <2>2
<1>18. HeldOnce'
  <2> SUFFICES ASSUME NEW b \in func.kept
               PROVE  \E m \in Blocks \ merged' : \E l \in DOMAIN body'[m] :
                        /\ body'[m][l] = b
                        /\ \A k \in Blocks \ merged' : \A j \in DOMAIN body'[k] :
                              body'[k][j] = b => k = m /\ j = l
    BY <1>2, SameFunction DEF HeldOnce
  <2>1. PICK m \in Blocks \ merged : \E l \in DOMAIN body[m] :
           /\ body[m][l] = b
           /\ \A k \in Blocks \ merged : \A j \in DOMAIN body[k] : body[k][j] = b => k = m /\ j = l
    BY DEF CInv, HeldOnce
  <2>2. PICK l \in DOMAIN body[m] :
           /\ body[m][l] = b
           /\ \A k \in Blocks \ merged : \A j \in DOMAIN body[k] : body[k][j] = b => k = m /\ j = l
    BY <2>1
  \* A place now is a place before, further on in p if it was in n.
  <2>3. /\ \A j \in DOMAIN u : u[j] = b => p = m /\ j = l
        /\ \A j \in DOMAIN v : v[j] = b => n = m /\ j = l
    BY <1>2, <1>11, <2>2 DEF u, v
  <2>4. \A j \in DOMAIN w : w[j] = b =>
           IF j <= Len(u) THEN p = m /\ j = l ELSE n = m /\ j = Len(u) + l
    <3> SUFFICES ASSUME NEW j \in DOMAIN w, w[j] = b
                 PROVE  IF j <= Len(u) THEN p = m /\ j = l ELSE n = m /\ j = Len(u) + l
      OBVIOUS
    <3>1. CASE j <= Len(u)
      BY <1>13, <2>3, <3>1
    <3>2. CASE ~(j <= Len(u))
      <4> DEFINE i == j - Len(u)
      <4>1. i \in DOMAIN v /\ v[i] = b
        BY <1>13, <3>2
      <4>2. n = m /\ i = l
        BY <2>3, <4>1
      <4> QED
        BY <1>13, <3>2, <4>2
    <3> QED
      BY <3>1, <3>2
  <2>5. CASE m # n
    <3>1. m \in Blocks \ merged' /\ l \in DOMAIN body'[m] /\ body'[m][l] = b
      <4>1. CASE m = p
        <5>1. l \in DOMAIN u /\ u[l] = b
          BY <2>2, <4>1 DEF u
        <5>2. l \in DOMAIN w /\ w[l] = b
          BY <1>13, <5>1
        <5> QED
          BY <1>2, <1>11, <4>1, <5>2 DEF w
      <4>2. CASE m # p
        BY <1>2, <1>11, <2>2, <2>5, <4>2
      <4> QED
        BY <4>1, <4>2
    <3>2. ASSUME NEW k \in Blocks \ merged', NEW j \in DOMAIN body'[k], body'[k][j] = b
          PROVE  k = m /\ j = l
      <4>1. CASE k = p
        BY <2>4, <2>5, <3>2, <4>1 DEF w
      <4>2. CASE k # p
        BY <1>2, <1>11, <2>2, <3>2, <4>2
      <4> QED
        BY <4>1, <4>2
    <3> QED
      BY <3>1, <3>2
  <2>6. CASE m = n
    <3> DEFINE q == Len(u) + l
    <3>1. l \in DOMAIN v /\ v[l] = b
      BY <2>2, <2>6 DEF v
    <3>2. p \in Blocks \ merged' /\ q \in DOMAIN w /\ w[q] = b
      BY <1>2, <1>11, <1>13, <3>1
    <3>3. ASSUME NEW k \in Blocks \ merged', NEW j \in DOMAIN body'[k], body'[k][j] = b
          PROVE  k = p /\ j = q
      <4>1. CASE k = p
        BY <1>11, <2>4, <2>6, <3>3, <4>1 DEF w
      <4>2. CASE k # p
        BY <1>2, <1>11, <2>2, <2>6, <3>3, <4>2
      <4> QED
        BY <4>1, <4>2
    <3> HIDE DEF q
    <3> QED
      BY <3>2, <3>3 DEF w
  <2> QED
    BY <2>5, <2>6
<1>19. Survives' /\ func' \in Functions
  BY <1>2, SameFunction DEF CInv, Survives
<1>20. PICK E : E = D \cup {n}
  OBVIOUS
<1>21. Wired(E, preds', succs') /\ (Entered => ReachesAll(E, succs'))
  BY <1>20, <1>1, <1>8 DEF Forgotten
<1>22. Forgotten(E)'
  <2>1. Holds(E, body', merged')
    BY <1>20, <1>1, <1>2, <1>5, <1>11, <1>12 DEF Forgotten, Holds, Wired
  <2>2. entry \in func.kept => entry \notin E
    BY <1>20, <1>1, <1>5 DEF Forgotten, CInv, EntryStays
  <2>3. step' # "optimizeMCFG2"
    BY <1>2
  <2> QED
    BY <1>2, <1>21, <2>1, <2>2, <2>3, SameFunction DEF Forgotten
<1> QED
  BY <1>10, <1>15, <1>16, <1>17, <1>18, <1>19, <1>22 DEF CInv

LEMMA CInvNext == CInv /\ [Next]_vars => CInv'
<1> SUFFICES ASSUME CInv, [Next]_vars PROVE CInv'
  OBVIOUS
<1>1. CASE BeginMerging \/ Return
  BY <1>1, GoOnStep DEF BeginMerging, Return
<1>2. CASE UNCHANGED vars
  <2>1. \A D : Forgotten(D) => Forgotten(D)'
    BY <1>2, SameFunction DEF vars, Forgotten
  <2> QED
    BY <1>2, <2>1, SameFunction
    DEF vars, CInv, TypeOK, Ordered, EntryStays, HeldOnce, FlowIs, Survives
<1> QED
  BY <1>1, <1>2, KeepStep, RemoveSelfLoopStep, SpliceStep, LeaveLinkedStep, UnlinkStep,
     EraseDroppedStep, PassStep, MergeStep, MergeWithItselfStep, EraseMergedStep DEF Next

LEMMA CInvHolds == Spec => []CInv
  BY CInvInit, CInvNext, PTL DEF Spec

-----------------------------------------------------------------------------
\* The types of the construction's state.
THEOREM TypeCorrect == Spec => []TypeOK
<1>1. CInv => TypeOK
  BY DEF CInv
<1> QED
  BY <1>1, CInvHolds, PTL

\* Dropping, splicing, unlinking and merging nodes neither loses nor invents a way
\* for the instructions of two blocks to follow each other, for all functions and
\* all orders of their blocks.
THEOREM FlowIsKept == Spec => []FlowKept
<1>1. CInv => FlowKept
  BY FlowsInGraphIs DEF CInv, TypeOK, FlowIs, FlowKept
<1> QED
  BY <1>1, CInvHolds, PTL

\* In a function with an entry that is kept and blocks that can all be reached no
\* node is merged with itself, so that the loop over its instructions ends.
THEOREM MergeIsSafe == Spec => []Survives
<1>1. CInv => Survives
  BY DEF CInv
<1> QED
  BY <1>1, CInvHolds, PTL

LEMMA PlacesOnce == ASSUME CInv, NEW b \in func.kept PROVE Cardinality(Places(b)) = 1
<1> DEFINE P == UNION {{<<m, l>> : l \in DOMAIN body[m]} : m \in Blocks \ merged}
<1>1. PICK m \in Blocks \ merged : \E l \in DOMAIN body[m] :
         /\ body[m][l] = b
         /\ \A k \in Blocks \ merged : \A j \in DOMAIN body[k] : body[k][j] = b => k = m /\ j = l
  BY DEF CInv, HeldOnce
<1>2. PICK l \in DOMAIN body[m] :
         /\ body[m][l] = b
         /\ \A k \in Blocks \ merged : \A j \in DOMAIN body[k] : body[k][j] = b => k = m /\ j = l
  BY <1>1
<1>3. <<m, l>> \in P
  OBVIOUS
<1>4. \A x \in P : x[1] \in Blocks \ merged /\ x[2] \in DOMAIN body[x[1]] /\ x = <<x[1], x[2]>>
  OBVIOUS
<1> HIDE DEF P
<1>5. {x \in P : body[x[1]][x[2]] = b} = {<<m, l>>}
  BY <1>2, <1>3, <1>4
<1>6. Places(b) = {<<m, l>>}
  BY <1>5 DEF Places, P
<1> QED
  BY <1>6, FS_Singleton

\* In the graph that is returned, a block's instructions that are not the first of
\* their node come next after those before them only, and are not the entry's.
LEMMA NodesAreChains ==
    ASSUME CInv, step = "done", NEW m \in Vector, NEW j \in DOMAIN body[m], j # 1
    PROVE  /\ entry \in func.kept => body[m][j] # entry
           /\ \A a \in func.kept : FlowsInFunction(a, body[m][j]) => a = body[m][j - 1]
<1> DEFINE b == body[m][j]
<1>1. m \in Blocks \ merged /\ body[m] \in Seq(func.kept) /\ b \in func.kept
  BY DEF CInv, TypeOK, Ordered, Vector
<1>2. \A k \in Blocks \ merged : \A i \in DOMAIN body[k] : body[k][i] = b => k = m /\ i = j
  <2>1. PICK k \in Blocks \ merged : \E l \in DOMAIN body[k] :
           /\ body[k][l] = b
           /\ \A c \in Blocks \ merged : \A i \in DOMAIN body[c] : body[c][i] = b => c = k /\ i = l
    BY <1>1 DEF CInv, HeldOnce
  <2> QED
    BY <1>1, <2>1
<1>3. ASSUME NEW k \in Blocks \ merged, body[k] # <<>> PROVE body[k][1] # b
  <2>1. body[k] \in Seq(func.kept)
    BY DEF CInv, TypeOK
  <2>2. 1 \in DOMAIN body[k]
    BY <1>3, <2>1, EmptySeq
  <2> QED
    BY <1>2, <2>2
<1>4. entry \in func.kept => b # entry
  BY <1>3, FunctionIs DEF CInv, EntryStays, Ordered
<1>5. ASSUME NEW a \in func.kept, FlowsInFunction(a, b) PROVE a = body[m][j - 1]
  <2>1. Flows(a, b, succs, body, merged)
    BY <1>1, <1>5 DEF CInv, FlowIs
  <2>0. PICK k \in Blocks \ merged : \E l \in DOMAIN body[k] :
           /\ body[k][l] = a
           /\ IF l < Len(body[k]) THEN body[k][l + 1] = b ELSE b \in Nexts(succs[k], succs, body)
    BY <2>1 DEF Flows
  <2>2. PICK l \in DOMAIN body[k] :
           /\ body[k][l] = a
           /\ IF l < Len(body[k]) THEN body[k][l + 1] = b ELSE b \in Nexts(succs[k], succs, body)
    BY <2>0
  <2>3. body[k] \in Seq(func.kept)
    BY DEF CInv, TypeOK
  <2>4. CASE l < Len(body[k])
    <3>1. l + 1 \in DOMAIN body[k] /\ body[k][l + 1] = b /\ l \in Int
      BY <2>2, <2>3, <2>4
    <3>2. k = m /\ l + 1 = j
      BY <1>2, <3>1
    <3> QED
      BY <2>2, <3>1, <3>2
  <2>5. CASE ~(l < Len(body[k]))
    <3>1. PICK D : Forgotten(D)
      BY DEF CInv
    <3>2. k \in Blocks \ D
      BY <2>2, <2>3, <3>1 DEF Forgotten, Holds
    <3>3. succs[k] \subseteq Blocks \ D /\ ClosedUnder(Blocks \ D, succs, body)
      BY <3>1, <3>2 DEF Forgotten, Wired, ClosedUnder
    <3>4. PICK x \in Reached(succs[k], succs, body) : body[x] # <<>> /\ body[x][1] = b
      BY <2>2, <2>5 DEF Nexts
    <3>5. x \in Blocks \ D
      <4>1. Blocks \ D \in SUBSET Blocks
        OBVIOUS
      <4> QED
        BY <3>3, <4>1, ReachedStays
    <3>6. x \in Blocks \ merged
      BY <3>1, <3>5 DEF Forgotten, Holds
    <3> QED
      BY <1>3, <3>4, <3>6
  <2> QED
    BY <2>4, <2>5
<1> QED
  BY <1>4, <1>5

\* The graph that is returned holds each block's instructions once, in a node that
\* the vector gets at if the function can be entered; its two kinds of links agree;
\* and an entry that was kept begins it.
THEOREM GraphIsConsistent == Spec => []Consistent
<1>1. CInv => Consistent
  <2> SUFFICES ASSUME CInv, step = "done" PROVE Consistent
    BY DEF Consistent
  <2>1. PICK D : Forgotten(D)
    BY DEF CInv
  <2>2. Vector \subseteq Blocks \ D
    BY <2>1 DEF CInv, TypeOK, Ordered, Forgotten, Holds, Vector
  <2>3. Linked \subseteq Blocks \ D
    <3>1. \A a \in Blocks \ D : preds[a] \cup succs[a] \subseteq Blocks \ D
      BY <2>1 DEF Forgotten, Wired
    <3> QED
      BY <2>2, <3>1 DEF Linked
  <2>4. \A a \in Linked : preds[a] \cup succs[a] \subseteq Linked
    <3>1. \A a \in Linked : a \in Blocks /\ preds[a] \cup succs[a] \subseteq Blocks
      BY DEF Linked, CInv, TypeOK
    <3> SUFFICES ASSUME NEW a \in Linked, NEW c \in preds[a] \cup succs[a],
                        NEW S \in SUBSET Blocks, Vector \subseteq S,
                        \A e \in S : preds[e] \cup succs[e] \subseteq S
                 PROVE  c \in S
      BY <3>1 DEF Linked
    <3> QED
      BY DEF Linked
  <2>5. ASSUME NEW m \in Linked PROVE preds[m] = {k \in Linked : m \in succs[k]}
    <3>1. m \in Blocks \ D /\ \A k \in Linked : k \in Blocks \ D
      BY <2>3
    <3>2. \A k \in Linked : m \in succs[k] <=> k \in preds[m]
      BY <2>1, <3>1 DEF Forgotten, Wired
    <3> QED
      BY <2>4, <3>2
  <2>6. entry \in func.kept => entry \in Vector /\ preds[entry] = {} /\ Head(body[entry]) = entry
    <3>1. \A m \in Blocks : body[m] # <<>> => Head(body[m]) = body[m][1]
      BY DEF CInv, TypeOK
    <3> QED
      BY <3>1, FunctionIs DEF CInv, EntryStays, Vector
  <2>7. ASSUME Entered, NEW m \in Blocks \ merged, ~Empty(m) PROVE m \in Linked
    <3>1. m \in Blocks \ D
      BY <2>1, <2>7 DEF Forgotten, Holds, Empty
    <3>2. entry \in Vector /\ ReachesAll(D, succs)
      BY <2>1, <2>6, <2>7 DEF Entered, entry, Forgotten
    <3> SUFFICES ASSUME NEW S \in SUBSET Blocks, Vector \subseteq S,
                        \A e \in S : preds[e] \cup succs[e] \subseteq S
                 PROVE  m \in S
      BY DEF Linked
    <3> QED
      BY <3>1, <3>2 DEF ReachesAll
  <2> QED
    BY <2>5, <2>6, <2>7, PlacesOnce DEF Consistent, entry
<1> QED
  BY <1>1, CInvHolds, PTL
=============================================================================
