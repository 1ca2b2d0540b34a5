-------------------------------- MODULE Search --------------------------------
(***************************************************************************)
(* A search of a graph, as the passes make it in several places: from some *)
(* nodes on to the nodes behind them, and no node twice.  Behind a node    *)
(* come those in next[node].                                               *)
(***************************************************************************)
EXTENDS Integers, FiniteSets, NaturalsInduction, FiniteSetTheorems, TLAPS

\* One round for every node is enough: a round that finds none is the last.
Found(next, start) ==
    LET found[k \in 0 .. Cardinality(DOMAIN next)] ==
            IF k = 0 THEN start
            ELSE LET before == found[k - 1] IN before \cup UNION {next[n] : n \in before}
    IN  found[Cardinality(DOMAIN next)]

-----------------------------------------------------------------------------
LEMMA LeastNat ==
    ASSUME NEW T \in SUBSET Nat, T # {} PROVE \E x \in T : \A y \in T : x <= y
<1> DEFINE R == {ss \in Nat \X Nat : ss[1] < ss[2]}
<1>1. IsWellFoundedOn(R, Nat)
  BY Zenon, NatLessThanWellFounded DEF OpToRel
<1>2. PICK x \in T : \A y \in T : ~(<<y, x>> \in R)
  <2> HIDE DEF R
  <2> QED
    BY <1>1, WFMin
<1>3. \A y \in T : x \in Nat /\ y \in Nat /\ (y < x => <<y, x>> \in R)
  OBVIOUS
<1> HIDE DEF R
<1>4. ASSUME NEW y \in T PROVE x <= y
  <2>1. x \in Nat /\ y \in Nat /\ ~(y < x)
    BY <1>2, <1>3
  <2> QED
    BY <2>1
<1> QED
  BY <1>4

\* The rounds of a search, as many as there are.
AreRounds(next, start, found, m) ==
    found = [k \in 0 .. m |->
               IF k = 0 THEN start
               ELSE found[k - 1] \cup UNION {next[n] : n \in found[k - 1]}]

LEMMA RoundsExist ==
    ASSUME NEW next, NEW start, NEW m \in Nat PROVE \E found : AreRounds(next, start, found, m)
<1> DEFINE T == {k \in Nat : ~\E found : AreRounds(next, start, found, k)}
<1> SUFFICES ASSUME T # {} PROVE FALSE
  OBVIOUS
<1>1. PICK k \in T : \A y \in T : k <= y
  <2> HIDE DEF T
  <2>1. T \in SUBSET Nat
    BY DEF T
  <2> QED
    BY <2>1, LeastNat
<1>2. k # 0
  <2> DEFINE g == [r \in 0 .. 0 |-> start]
  <2>1. AreRounds(next, start, g, 0)
    BY DEF AreRounds
  <2> QED
    BY <1>1, <2>1
<1>3. PICK g : AreRounds(next, start, g, k - 1)
  BY <1>1, <1>2
<1> DEFINE last == g[k - 1] \cup UNION {next[n] : n \in g[k - 1]}
           h == [r \in 0 .. k |-> IF r < k THEN g[r] ELSE last]
<1>4. k \in Nat /\ k - 1 \in Nat
  BY <1>1, <1>2
<1>5. ASSUME NEW r \in 0 .. k
      PROVE  h[r] = IF r = 0 THEN start ELSE h[r - 1] \cup UNION {next[n] : n \in h[r - 1]}
  <2>1. CASE r = k
    <3>1. h[r] = last /\ h[r - 1] = g[k - 1] /\ r # 0
      BY <1>2, <1>4, <2>1
    <3> HIDE DEF h
    <3> QED
      BY <3>1, <2>1
  <2>2. CASE r # k
    <3>1. r \in 0 .. (k - 1) /\ h[r] = g[r] /\ (r # 0 => r - 1 \in 0 .. k /\ h[r - 1] = g[r - 1])
      BY <1>4, <2>2
    <3>2. g[r] = IF r = 0 THEN start ELSE g[r - 1] \cup UNION {next[n] : n \in g[r - 1]}
      BY <1>3, <3>1 DEF AreRounds
    <3> HIDE DEF h
    <3> QED
      BY <3>1, <3>2
  <2> QED
    BY <2>1, <2>2
<1>6. AreRounds(next, start, h, k)
  <2>1. h = [r \in 0 .. k |-> h[r]]
    OBVIOUS
  <2> HIDE DEF h
  <2> QED
    BY <2>1, <1>5, Zenon DEF AreRounds
<1> QED
  BY <1>1, <1>6

\* What is found are the last of the rounds.
LEMMA FoundIsLast ==
    ASSUME NEW next, NEW start, Cardinality(DOMAIN next) \in Nat
    PROVE  \E found : /\ AreRounds(next, start, found, Cardinality(DOMAIN next))
                      /\ Found(next, start) = found[Cardinality(DOMAIN next)]
<1> DEFINE N == Cardinality(DOMAIN next)
           found == CHOOSE f : f = [k \in 0 .. N |->
               IF k = 0 THEN start
               ELSE f[k - 1] \cup UNION {next[n] : n \in f[k - 1]}]
<1>1. AreRounds(next, start, found, N)
  <2>1. \E f : AreRounds(next, start, f, N)
    BY RoundsExist
  <2>2. \E f : f = [k \in 0 .. N |->
               IF k = 0 THEN start
               ELSE f[k - 1] \cup UNION {next[n] : n \in f[k - 1]}]
    BY <2>1, Zenon DEF AreRounds
  <2> QED
    BY <2>2, Zenon DEF AreRounds
<1>2. Found(next, start) = found[N]
  BY Zenon DEF Found
<1> QED
  BY <1>1, <1>2, Zenon

\* What is found lies in every set that holds the start and what comes
\* behind its members.
LEMMA FoundIsLeast ==
    ASSUME NEW next, NEW start, Cardinality(DOMAIN next) \in Nat,
           NEW S, start \subseteq S, \A n \in S : next[n] \subseteq S
    PROVE  Found(next, start) \subseteq S
<1> DEFINE N == Cardinality(DOMAIN next)
<1>1. PICK found : AreRounds(next, start, found, N) /\ Found(next, start) = found[N]
  BY FoundIsLast
<1> DEFINE T == {k \in 0 .. N : ~(found[k] \subseteq S)}
<1>2. SUFFICES ASSUME T # {} PROVE FALSE
  BY <1>1
<1>3. PICK k \in T : \A y \in T : k <= y
  <2> HIDE DEF T
  <2>1. T \in SUBSET Nat
    BY DEF T
  <2> QED
    BY <1>2, <2>1, LeastNat
<1>4. CASE k = 0
  BY <1>1, <1>3, <1>4 DEF AreRounds
<1>5. CASE k # 0
  <2>1. k - 1 \in 0 .. N /\ found[k - 1] \subseteq S
    BY <1>3, <1>5
  <2>2. found[k] = found[k - 1] \cup UNION {next[n] : n \in found[k - 1]}
    BY <1>1, <1>3, <1>5 DEF AreRounds
  <2> QED
    BY <1>3, <2>1, <2>2
<1> QED
  BY <1>4, <1>5

\* It holds the start and what comes behind its members itself: before a
\* round finds nothing every round finds one more node at least.
LEMMA FoundIsClosed ==
    ASSUME NEW next, NEW start, IsFiniteSet(DOMAIN next), start \subseteq DOMAIN next,
           \A n \in DOMAIN next : next[n] \subseteq DOMAIN next
    PROVE  /\ start \subseteq Found(next, start)
           /\ Found(next, start) \subseteq DOMAIN next
           /\ \A n \in Found(next, start) : next[n] \subseteq Found(next, start)
<1> DEFINE N == Cardinality(DOMAIN next)
           Closed(S) == \A n \in S : next[n] \subseteq S
<1>1. N \in Nat
  BY FS_CardinalityType
<1>2. PICK found : AreRounds(next, start, found, N) /\ Found(next, start) = found[N]
  BY <1>1, FoundIsLast
<1>3. Found(next, start) \subseteq DOMAIN next
  BY <1>1, FoundIsLeast
<1>4. found[0] = start /\ \A k \in 1 .. N : found[k] = found[k - 1] \cup UNION {next[n] : n \in found[k - 1]}
  BY <1>1, <1>2 DEF AreRounds
<1> DEFINE Good(k) == /\ start \subseteq found[k] /\ found[k] \subseteq DOMAIN next
                      /\ IsFiniteSet(found[k])
                      /\ Closed(found[k]) \/ Cardinality(found[k]) >= k
           T == {k \in 0 .. N : ~Good(k)}
<1>5. T = {}
  <2> SUFFICES ASSUME T # {} PROVE FALSE
    OBVIOUS
  <2>1. PICK k \in T : \A y \in T : k <= y
    <3> HIDE DEF T
    <3>1. T \in SUBSET Nat
      BY DEF T
    <3> QED
      BY <3>1, LeastNat
  <2>2. k \in 0 .. N /\ ~Good(k)
    BY <2>1
  <2>3. CASE k = 0
    <3>1. found[k] = start /\ IsFiniteSet(start)
      BY <1>4, <2>3, FS_Subset
    <3>2. Cardinality(start) \in Nat
      BY <3>1, FS_CardinalityType
    <3> QED
      BY <2>2, <2>3, <3>1, <3>2
  <2>4. CASE k # 0
    <3>1. k - 1 \in 0 .. N /\ k \in 1 .. N
      BY <2>2, <2>4, <1>1
    <3>2. Good(k - 1)
      BY <2>1, <3>1
    <3>3. found[k] = found[k - 1] \cup UNION {next[n] : n \in found[k - 1]}
      BY <1>4, <3>1
    <3>4. start \subseteq found[k] /\ found[k] \subseteq DOMAIN next
      BY <3>2, <3>3
    <3>5. IsFiniteSet(found[k])
      BY <3>4, FS_Subset
    <3>6. CASE Closed(found[k - 1])
      <4>1. found[k] = found[k - 1]
        BY <3>3, <3>6
      <4> QED
        BY <2>2, <3>4, <3>5, <3>6, <4>1
    <3>7. CASE ~Closed(found[k - 1])
      <4>1. PICK x \in found[k] : x \notin found[k - 1]
        BY <3>3, <3>7
      <4>2. Cardinality(found[k - 1] \cup {x}) = Cardinality(found[k - 1]) + 1
        BY <3>2, <4>1, FS_AddElement
      <4>3. found[k - 1] \cup {x} \subseteq found[k]
        BY <3>3, <4>1
      <4>4. Cardinality(found[k - 1] \cup {x}) <= Cardinality(found[k])
        BY <3>5, <4>3, FS_Subset
      <4>5. Cardinality(found[k]) \in Nat /\ Cardinality(found[k - 1]) \in Nat
        BY <3>2, <3>5, FS_CardinalityType
      <4>6. Cardinality(found[k - 1]) >= k - 1
        BY <3>2, <3>7
      <4>7. Cardinality(found[k]) >= k
        BY <4>2, <4>4, <4>5, <4>6, <3>1
      <4> QED
        BY <2>2, <3>4, <3>5, <4>7
    <3> QED
      BY <3>6, <3>7
  <2> QED
    BY <2>3, <2>4
<1>6. Good(N)
  BY <1>1, <1>5
<1>7. Closed(found[N])
  <2>1. CASE Closed(found[N])
    BY <2>1
  <2>2. CASE Cardinality(found[N]) >= N
    <3>1. Cardinality(found[N]) <= N
      BY <1>6, FS_Subset
    <3>2. Cardinality(found[N]) = N
      BY <2>2, <3>1, <1>1, <1>6, FS_CardinalityType
    <3>3. found[N] = DOMAIN next
      BY <1>6, <3>2, FS_Subset
    <3> QED
      BY <3>3
  <2> QED
    BY <1>6, <2>1, <2>2
<1> QED
  BY <1>2, <1>3, <1>6, <1>7
=============================================================================
