---------------------------- MODULE AnalysisProofs ----------------------------
(***************************************************************************)
(* Theorems about the two analyses by sweeps, for every set of well-formed *)
(* functions: each implements what it promises, a solution of its          *)
(* equations, and its sweeps go in one direction only.  Before them, the   *)
(* lemmas about the graph and the sets of checks; behind them, those about *)
(* a run, which the modules on available and anticipated checks and on the *)
(* eliminations build on.                                                  *)
(***************************************************************************)
EXTENDS ComputeFirst, ComputeBackward, Execution, FiniteSetTheorems, TLAPS

-----------------------------------------------------------------------------
(***************************************************************************)
(* The graph, the sets of checks, and what instructions do to a check.     *)
(***************************************************************************)
AllChecks == LightCheck(Vars, Int)

\* A call tests a variable against integer limits.
LEMMA CheckOfType ==
    ASSUME NEW c \in Seq(Instrs), NEW j \in DOMAIN c, c[j].op = "call"
    PROVE  /\ c[j] \in Calls
           /\ CheckOf(c[j]) \in AllChecks
<1>1. c[j] \in Instrs
  OBVIOUS
<1>2. c[j] \in Calls
  BY <1>1 DEF Instrs, Loads, Stores, Calls, Other
<1> QED
  BY <1>2 DEF Calls, CheckOf, AllChecks, LightCheck

\* The gen sets of a node hold checks.
LEMMA InitGenType ==
    ASSUME NEW c \in Seq(Instrs), NEW k \in Kinds
    PROVE  init_gen(c, k) \subseteq AllChecks
  BY CheckOfType DEF init_gen, isCall

\* The nodes of the vector are nodes of the graph.
LEMMA VectorOfNodes ==
    ASSUME NEW p, WellFormed(p)
    PROVE  /\ Len(p.order) \in Nat /\ DOMAIN p.order = 1..Len(p.order)
           /\ \A q \in 1..Len(p.order) : p.order[q] \in p.nodes
           /\ InVector(p) = {p.order[q] : q \in 1..Len(p.order)}
           /\ InVector(p) \subseteq p.nodes
<1>1. p.order \in Seq(p.nodes)
  BY DEF WellFormed
<1> QED
  BY <1>1 DEF InVector

-----------------------------------------------------------------------------
(***************************************************************************)
(* Finite sets of numbers.  The descent is that of the strict subsets of a *)
(* finite set, which is well-founded.                                      *)
(***************************************************************************)
\* A finite set of numbers has a largest element ...
LEMMA GreatestOfFinite ==
    ASSUME NEW T, T \subseteq Int, IsFiniteSet(T), T # {}
    PROVE  Greatest(T) \in T /\ \A t \in T : t <= Greatest(T)
<1> DEFINE Up(m) == {t \in T : t >= m}
           U == {Up(m) : m \in T}
<1>1. U \subseteq FiniteSubsetsOf(T)
  BY FS_FiniteSubsetsOfFinite
<1>2. U # {}
  OBVIOUS
<1>3. PICK s \in U : \A t \in U : <<t, s>> \notin StrictSubsetOrdering(T)
  <2>1. IsWellFoundedOn(StrictSubsetOrdering(T), FiniteSubsetsOf(T))
    BY FS_StrictSubsetOrderingWellFounded
  <2> HIDE DEF U
  <2> QED
    BY <1>1, <1>2, <2>1, WFMin, Zenon
<1>4. PICK m \in T : s = Up(m)
  OBVIOUS
<1>5. ASSUME NEW n \in T, n > m PROVE FALSE
  <2>0. n \in Int /\ m \in Int /\ \A t \in T : t \in Int
    OBVIOUS
  <2>1. Up(n) \subseteq Up(m) /\ m \in Up(m) /\ m \notin Up(n)
    <3>1. \A t \in T : t >= n => t >= m
      BY <2>0, <1>5
    <3>2. m >= m /\ ~(m >= n)
      BY <2>0, <1>5
    <3> QED
      BY <3>1, <3>2
  <2>2. <<Up(n), s>> \in StrictSubsetOrdering(T)
    BY <1>4, <2>1 DEF StrictSubsetOrdering
  <2> QED
    BY <1>3, <1>5, <2>2
<1>6. \A t \in T : m >= t
  BY <1>5
<1> QED
  BY <1>6 DEF Greatest

\* ... and a smallest one.
LEMMA LeastOfFinite ==
    ASSUME NEW T, T \subseteq Int, IsFiniteSet(T), T # {}
    PROVE  Least(T) \in T /\ \A t \in T : Least(T) <= t
<1> DEFINE Down(m) == {t \in T : t <= m}
           U == {Down(m) : m \in T}
<1>1. U \subseteq FiniteSubsetsOf(T)
  BY FS_FiniteSubsetsOfFinite
<1>2. U # {}
  OBVIOUS
<1>3. PICK s \in U : \A t \in U : <<t, s>> \notin StrictSubsetOrdering(T)
  <2>1. IsWellFoundedOn(StrictSubsetOrdering(T), FiniteSubsetsOf(T))
    BY FS_StrictSubsetOrderingWellFounded
  <2> HIDE DEF U
  <2> QED
    BY <1>1, <1>2, <2>1, WFMin, Zenon
<1>4. PICK m \in T : s = Down(m)
  OBVIOUS
<1>5. ASSUME NEW n \in T, n < m PROVE FALSE
  <2>0. n \in Int /\ m \in Int /\ \A t \in T : t \in Int
    OBVIOUS
  <2>1. Down(n) \subseteq Down(m) /\ m \in Down(m) /\ m \notin Down(n)
    <3>1. \A t \in T : t <= n => t <= m
      BY <2>0, <1>5
    <3>2. m <= m /\ ~(m <= n)
      BY <2>0, <1>5
    <3> QED
      BY <3>1, <3>2
  <2>2. <<Down(n), s>> \in StrictSubsetOrdering(T)
    BY <1>4, <2>1 DEF StrictSubsetOrdering
  <2> QED
    BY <1>3, <1>5, <2>2
<1>6. \A t \in T : m <= t
  BY <1>5
<1> QED
  BY <1>6 DEF Least

-----------------------------------------------------------------------------
(***************************************************************************)
(* The checks that a function makes.                                       *)
(***************************************************************************)
\* A check is that of some call.
LEMMA CheckOfCall ==
    ASSUME NEW N, NEW insts \in [N -> Seq(Instrs)], NEW k \in Kinds, NEW c \in Checks(insts, k)
    PROVE  \E n \in N : \E j \in DOMAIN insts[n] : isCall(insts[n][j], k) /\ c = CheckOf(insts[n][j])
  BY DEF Checks

\* Its limits are 0 and the size of an array.
LEMMA OwnCheck ==
    ASSUME NEW N, NEW insts \in [N -> Seq(Instrs)], NEW k \in Kinds, NEW c \in Checks(insts, k)
    PROVE  /\ c \in AllChecks /\ c.bottom_limit = 0 /\ c.top_limit \in Nat
           /\ c.realindex \in Checked(insts, k)
<1>1. PICK n \in N : \E j \in DOMAIN insts[n] : isCall(insts[n][j], k) /\ c = CheckOf(insts[n][j])
  BY CheckOfCall
<1>2. PICK j \in DOMAIN insts[n] : isCall(insts[n][j], k) /\ c = CheckOf(insts[n][j])
  BY <1>1
<1>3. insts[n][j] \in Calls /\ CheckOf(insts[n][j]) \in AllChecks
  <2>1. insts[n] \in Seq(Instrs) /\ insts[n][j].op = "call"
    BY <1>2 DEF isCall
  <2> QED
    BY <2>1, CheckOfType
<1>4. c.bottom_limit = 0 /\ c.top_limit \in Nat
  BY <1>2, <1>3 DEF CheckOf, Calls
<1>5. c.realindex \in Checked(insts, k)
  BY DEF Checked, Roots
<1> QED
  BY <1>2, <1>3, <1>4, <1>5

LEMMA CallIsOwn ==
    ASSUME NEW N, NEW insts \in [N -> Seq(Instrs)], NEW k \in Kinds, NEW n \in N,
           NEW j \in DOMAIN insts[n], isCall(insts[n][j], k)
    PROVE  CheckOf(insts[n][j]) \in Checks(insts, k)
  BY DEF Checks

LEMMA GenIsOwn ==
    ASSUME NEW N, NEW insts \in [N -> Seq(Instrs)], NEW k \in Kinds, NEW n \in N
    PROVE  /\ init_gen(insts[n], k) \subseteq Checks(insts, k)
           /\ init_gen_bw(insts[n], k) \subseteq Checks(insts, k)
<1>1. init_gen(insts[n], k) \subseteq Checks(insts, k)
  BY DEF init_gen, Checks
<1>2. {CheckOf(insts[n][j]) : j \in
          {l \in DOMAIN insts[n] : isCall(insts[n][l], k)
                                   /\ Untouched(insts[n], insts[n][l].root, Repairs(k), 2, l)}}
         \subseteq Checks(insts, k)
  BY DEF Checks
<1> QED
  BY <1>1, <1>2 DEF init_gen_bw, subsumeGen

\* A finite function makes finitely many checks.
LEMMA ChecksFinite ==
    ASSUME NEW N, IsFiniteSet(N), NEW insts \in [N -> Seq(Instrs)], NEW k
    PROVE  IsFiniteSet(Checks(insts, k))
<1> DEFINE D(n) == {l \in DOMAIN insts[n] : isCall(insts[n][l], k)}
           C(n) == {CheckOf(insts[n][j]) : j \in D(n)}
<1>1. ASSUME NEW n \in N PROVE IsFiniteSet(C(n))
  <2>1. DOMAIN insts[n] = 1..Len(insts[n]) /\ Len(insts[n]) \in Int
    BY <1>1
  <2>2. IsFiniteSet(DOMAIN insts[n])
    BY <2>1, FS_Interval
  <2>3. IsFiniteSet(D(n))
    BY <2>2, FS_Subset
  <2> DEFINE f == [j \in D(n) |-> CheckOf(insts[n][j])]
  <2>4. f \in Surjection(D(n), C(n))
    BY DEF Surjection
  <2> HIDE DEF f, D, C
  <2> QED
    BY <2>3, <2>4, FS_Surjection
<1> DEFINE g == [n \in N |-> C(n)]
<1>3. IsFiniteSet({C(n) : n \in N})
  <2> HIDE DEF C
  <2>1. g \in Surjection(N, {C(n) : n \in N})
    BY DEF Surjection
  <2> HIDE DEF g
  <2> QED
    BY <2>1, FS_Surjection
<1>4. IsFiniteSet(UNION {C(n) : n \in N})
  BY <1>1, <1>3, FS_UNION
<1> QED
  BY <1>4 DEF Checks

-----------------------------------------------------------------------------
(***************************************************************************)
(* The operations on backward sets, of checks that are among some finite   *)
(* set of them with a bottom of 0: each check that comes out went in.      *)
(***************************************************************************)
Alike(checks) ==
    /\ IsFiniteSet(checks) /\ checks \subseteq AllChecks
    /\ \A c \in checks : c.bottom_limit = 0

\* Every check of a has one in b on its variable that is as strong.
Within(a, b) ==
    \A c \in a : \E d \in b : d.realindex = c.realindex /\ d.top_limit <= c.top_limit

LEMMA LimitsFinite ==
    ASSUME NEW S, Alike(S), S # {}
    PROVE  LET T == {c.top_limit : c \in S} IN IsFiniteSet(T) /\ T \subseteq Int /\ T # {}
<1> DEFINE T == {c.top_limit : c \in S}
           f == [c \in S |-> c.top_limit]
<1>1. f \in Surjection(S, T)
  BY DEF Surjection
<1>2. IsFiniteSet(T)
  <2> HIDE DEF f, T
  <2> QED
    BY <1>1, FS_Surjection DEF Alike
<1>3. T \subseteq Int /\ T # {}
  BY DEF Alike, AllChecks, LightCheck
<1> QED
  BY <1>2, <1>3

LEMMA BottomsAreZero ==
    ASSUME NEW S, Alike(S), S # {}
    PROVE  /\ Greatest({c.bottom_limit : c \in S}) = 0
           /\ Least({c.bottom_limit : c \in S}) = 0
<1>1. {c.bottom_limit : c \in S} = {0}
  BY DEF Alike
<1>2. Greatest({0}) = 0 /\ Least({0}) = 0
  BY DEF Greatest, Least
<1> QED
  BY <1>1, <1>2

\* A check is its variable and its limits.
LEMMA CheckIs ==
    ASSUME NEW c \in AllChecks, NEW v, NEW t, c.realindex = v, c.bottom_limit = 0, c.top_limit = t
    PROVE  c = [realindex |-> v, bottom_limit |-> 0, top_limit |-> t]
  BY DEF AllChecks, LightCheck

LEMMA TightenIsOne ==
    ASSUME NEW S, Alike(S), S # {}, NEW v, \A c \in S : c.realindex = v
    PROVE  Tighten(v, S) \in S /\ \A c \in S : Tighten(v, S).top_limit <= c.top_limit
<1> DEFINE T == {c.top_limit : c \in S}
<1>1. Least(T) \in T /\ \A t \in T : Least(T) <= t
  <2>1. IsFiniteSet(T) /\ T \subseteq Int /\ T # {}
    BY LimitsFinite
  <2> HIDE DEF T
  <2> QED
    BY <2>1, LeastOfFinite
<1>2. PICK c \in S : c.top_limit = Least(T)
  BY <1>1
<1>3. Tighten(v, S) = [realindex |-> v, bottom_limit |-> 0, top_limit |-> Least(T)]
  BY BottomsAreZero DEF Tighten
<1>4. Tighten(v, S) = c
  BY <1>2, <1>3, CheckIs DEF Alike
<1> QED
  BY <1>1, <1>2, <1>4

LEMMA LoosenIsOne ==
    ASSUME NEW S, Alike(S), S # {}, NEW v, \A c \in S : c.realindex = v
    PROVE  Loosen(v, S) \in S /\ \A c \in S : c.top_limit <= Loosen(v, S).top_limit
<1> DEFINE T == {c.top_limit : c \in S}
<1>1. Greatest(T) \in T /\ \A t \in T : t <= Greatest(T)
  <2>1. IsFiniteSet(T) /\ T \subseteq Int /\ T # {}
    BY LimitsFinite
  <2> HIDE DEF T
  <2> QED
    BY <2>1, GreatestOfFinite
<1>2. PICK c \in S : c.top_limit = Greatest(T)
  BY <1>1
<1>3. Loosen(v, S) = [realindex |-> v, bottom_limit |-> 0, top_limit |-> Greatest(T)]
  BY BottomsAreZero DEF Loosen
<1>4. Loosen(v, S) = c
  BY <1>2, <1>3, CheckIs DEF Alike
<1> QED
  BY <1>1, <1>2, <1>4

LEMMA AlikeSubset == ASSUME NEW K, Alike(K), NEW S \in SUBSET K PROVE Alike(S)
  BY FS_Subset DEF Alike

\* A check of the meet is in some of the sets, and each of them has one as strong.
LEMMA MeetMember ==
    ASSUME NEW K, Alike(K), NEW sets \in SUBSET SUBSET K, NEW e \in myintersect2(sets)
    PROVE  /\ e \in UNION sets
           /\ \A s \in sets : e.realindex \in Roots(s)
           /\ \A s \in sets : \E c \in s : c.realindex = e.realindex /\ c.top_limit <= e.top_limit
<1>1. PICK v \in Roots(UNION sets) :
         (\A s \in sets : v \in Roots(s)) /\ e = Loosen(v, Of(UNION sets, v))
  BY DEF myintersect2
<1> DEFINE S == Of(UNION sets, v)
<1>2. S # {} /\ S \subseteq K /\ (\A c \in S : c.realindex = v) /\ e = Loosen(v, S)
  BY <1>1 DEF Of, Roots
<1>3. e \in S /\ \A c \in S : c.top_limit <= e.top_limit
  <2>1. Alike(S)
    BY <1>2, AlikeSubset
  <2> HIDE DEF S
  <2> QED
    BY <1>2, <2>1, LoosenIsOne
<1>4. e \in UNION sets /\ e.realindex = v
  BY <1>2, <1>3 DEF Of
<1>5. ASSUME NEW s \in sets
      PROVE  \E c \in s : c.realindex = e.realindex /\ c.top_limit <= e.top_limit
  <2>1. PICK c \in s : c.realindex = v
    BY <1>1 DEF Roots
  <2>2. c \in S
    BY <2>1 DEF Of
  <2> QED
    BY <1>3, <1>4, <2>1, <2>2
<1> QED
  BY <1>1, <1>4, <1>5

\* A check of the join was in one of the two sets, and is as strong as those of
\* both on its variable.
LEMMA JoinMember ==
    ASSUME NEW K, Alike(K), NEW o \in SUBSET K, NEW gen \in SUBSET K
    PROVE  myunion2(o, gen) \subseteq o \cup gen /\ Within(o \cup gen, myunion2(o, gen))
<1> DEFINE old(c) == {c} \cup Of(gen, c.realindex)
           new(v) == Of(gen, v)
<1>1. ASSUME NEW c \in o
      PROVE  /\ Tighten(c.realindex, old(c)) \in old(c)
             /\ \A d \in old(c) : Tighten(c.realindex, old(c)).top_limit <= d.top_limit
             /\ Tighten(c.realindex, old(c)).realindex = c.realindex
  <2>1. old(c) \in SUBSET K /\ old(c) # {} /\ \A d \in old(c) : d.realindex = c.realindex
    BY DEF Of
  <2>2. Alike(old(c))
    BY <2>1, AlikeSubset
  <2> HIDE DEF old
  <2> QED
    BY <2>1, <2>2, TightenIsOne
<1>2. ASSUME NEW v \in Roots(gen)
      PROVE  /\ Tighten(v, new(v)) \in new(v)
             /\ \A d \in new(v) : Tighten(v, new(v)).top_limit <= d.top_limit
             /\ Tighten(v, new(v)).realindex = v
  <2>1. new(v) \in SUBSET K /\ new(v) # {} /\ \A d \in new(v) : d.realindex = v
    BY DEF Of, Roots
  <2>2. Alike(new(v))
    BY <2>1, AlikeSubset
  <2> HIDE DEF new
  <2> QED
    BY <2>1, <2>2, TightenIsOne
<1>3. \A e \in myunion2(o, gen) :
         \/ \E c \in o : e = Tighten(c.realindex, old(c))
         \/ \E v \in Roots(gen) : e = Tighten(v, new(v))
  BY DEF myunion2
<1>4. ASSUME NEW e \in myunion2(o, gen) PROVE e \in o \cup gen
  <2>1. \A c \in o : Tighten(c.realindex, old(c)) \in o \cup gen
    BY <1>1 DEF Of
  <2>2. \A v \in Roots(gen) : Tighten(v, new(v)) \in gen
    BY <1>2 DEF Of
  <2> QED
    BY <1>3, <2>1, <2>2
<1>5. ASSUME NEW c \in o
      PROVE  \E d \in myunion2(o, gen) : d.realindex = c.realindex /\ d.top_limit <= c.top_limit
  <2>1. Tighten(c.realindex, old(c)) \in myunion2(o, gen)
    BY DEF myunion2
  <2> QED
    BY <1>1, <2>1
<1>6. ASSUME NEW c \in gen
      PROVE  \E d \in myunion2(o, gen) : d.realindex = c.realindex /\ d.top_limit <= c.top_limit
  <2>1. CASE c.realindex \in Roots(o)
    <3>1. PICK b \in o : b.realindex = c.realindex
      BY <2>1 DEF Roots
    <3>2. Tighten(b.realindex, old(b)) \in myunion2(o, gen)
      BY DEF myunion2
    <3>3. c \in old(b)
      BY <3>1 DEF Of
    <3> QED
      BY <1>1, <3>1, <3>2, <3>3
  <2>2. CASE c.realindex \notin Roots(o)
    <3>1. c.realindex \in Roots(gen) /\ c \in new(c.realindex)
      BY DEF Roots, Of
    <3>2. Tighten(c.realindex, new(c.realindex)) \in myunion2(o, gen)
      BY <2>2, <3>1 DEF myunion2
    <3> QED
      BY <1>2, <3>1, <3>2
  <2> QED
    BY <2>1, <2>2
<1> QED
  BY <1>4, <1>5, <1>6 DEF Within

LEMMA WithinSelf == ASSUME NEW a \in SUBSET AllChecks PROVE Within(a, a)
  BY DEF Within, AllChecks, LightCheck

LEMMA WithinTransitive ==
    ASSUME NEW a \in SUBSET AllChecks, NEW b \in SUBSET AllChecks, NEW c \in SUBSET AllChecks,
           Within(a, b), Within(b, c)
    PROVE  Within(a, c)
<1> SUFFICES ASSUME NEW x \in a
             PROVE  \E z \in c : z.realindex = x.realindex /\ z.top_limit <= x.top_limit
  BY DEF Within
<1>1. PICK y \in b : y.realindex = x.realindex /\ y.top_limit <= x.top_limit
  BY DEF Within
<1>2. PICK z \in c : z.realindex = y.realindex /\ z.top_limit <= y.top_limit
  BY DEF Within
<1>3. x.top_limit \in Int /\ y.top_limit \in Int /\ z.top_limit \in Int
  BY DEF AllChecks, LightCheck
<1> QED
  BY <1>1, <1>2, <1>3

\* The join is monotone ...
LEMMA JoinMonotone ==
    ASSUME NEW K, Alike(K), NEW a \in SUBSET K, NEW b \in SUBSET K, NEW gen \in SUBSET K,
           Within(a, b)
    PROVE  Within(myunion2(a, gen), myunion2(b, gen))
<1>1. myunion2(a, gen) \subseteq a \cup gen /\ myunion2(b, gen) \subseteq b \cup gen
  BY JoinMember
<1>2. Within(b \cup gen, myunion2(b, gen))
  BY JoinMember
<1>3. K \subseteq AllChecks
  BY DEF Alike
<1>4. Within(a \cup gen, b \cup gen)
  BY <1>3, WithinSelf DEF Within
<1>5. Within(a \cup gen, myunion2(b, gen))
  BY <1>1, <1>2, <1>3, <1>4, WithinTransitive
<1> QED
  BY <1>1, <1>5 DEF Within

\* ... and so is the meet of sets with one check for each variable.
LEMMA MeetMonotone ==
    ASSUME NEW K, Alike(K), NEW A \in SUBSET SUBSET K, NEW B \in SUBSET SUBSET K, B # {},
           \A t \in B : OnePerIndex(t) /\ \E s \in A : Within(s, t)
    PROVE  Within(myintersect2(A), myintersect2(B))
<1> SUFFICES ASSUME NEW e \in myintersect2(A)
             PROVE  \E d \in myintersect2(B) :
                       d.realindex = e.realindex /\ d.top_limit <= e.top_limit
  BY DEF Within
<1>1. /\ e \in UNION A
      /\ \A s \in A : \E c \in s : c.realindex = e.realindex /\ c.top_limit <= e.top_limit
  BY MeetMember
<1> DEFINE v == e.realindex
           d == Loosen(v, Of(UNION B, v))
<1>2. \A t \in B : v \in Roots(t)
  BY <1>1 DEF Roots, Within
<1>3. v \in Roots(UNION B)
  BY <1>2 DEF Roots
<1>4. d \in myintersect2(B)
  BY <1>2, <1>3 DEF myintersect2
<1>5. d.realindex = v
  BY DEF Loosen
<1>6. PICK t \in B : d \in t
  <2> HIDE DEF d
  <2> QED
    BY <1>4, MeetMember
<1>7. PICK s \in A : Within(s, t)
  OBVIOUS
<1>8. PICK c \in s : c.realindex = v /\ c.top_limit <= e.top_limit
  BY <1>1
<1>9. d.top_limit <= c.top_limit
  <2>1. PICK g \in t : g.realindex = c.realindex /\ g.top_limit <= c.top_limit
    BY <1>7 DEF Within
  <2>2. g = d
    BY <1>5, <1>6, <1>8, <2>1 DEF OnePerIndex
  <2> QED
    BY <2>1, <2>2
<1>10. d.top_limit \in Int /\ c.top_limit \in Int /\ e.top_limit \in Int
  <2>1. d \in AllChecks /\ c \in AllChecks /\ e \in AllChecks
    BY <1>1, <1>6, <1>8 DEF Alike
  <2> QED
    BY <2>1 DEF AllChecks, LightCheck
<1>11. d.top_limit <= e.top_limit
  BY <1>8, <1>9, <1>10
<1> HIDE DEF d
<1> QED
  BY <1>4, <1>5, <1>11

\* The checks of a function are such a set.
LEMMA ChecksAlike ==
    ASSUME NEW N, IsFiniteSet(N), NEW insts \in [N -> Seq(Instrs)], NEW k \in Kinds
    PROVE  Alike(Checks(insts, k))
  BY ChecksFinite, OwnCheck DEF Alike

-----------------------------------------------------------------------------
(***************************************************************************)
(* What the two analyses leave: solutions of the equations for the code c  *)
(* of a function p, with sets of checks that c makes.                      *)
(***************************************************************************)
\* Of the checks available, for both kinds.
Avails(p, c, I, O) ==
    \A k \in Kinds, n \in p.nodes :
        /\ I[k][n] \subseteq Checks(c, k) /\ O[k][n] \subseteq Checks(c, k)
        /\ preds(p, n) = {} => I[k][n] = {}
        /\ IF n \in InVector(p)
           THEN /\ preds(p, n) # {} => I[k][n] = myintersect({O[k][m] : m \in preds(p, n)})
                /\ O[k][n] = myunion(mysubtract2(I[k][n], init_kill(c, n, k)), init_gen(c[n], k))
           ELSE I[k][n] = {} /\ O[k][n] = {}

\* Of the max checks anticipated.
Anticipates(p, c, I, O) ==
    \A n \in p.nodes :
        /\ I[n] \subseteq Checks(c, "max") /\ O[n] \subseteq Checks(c, "max")
        /\ p.succs[n] = {} => O[n] = {}
        /\ IF n \in InVector(p)
           THEN /\ p.succs[n] # {} => O[n] = myintersect2({I[m] : m \in p.succs[n]})
                /\ I[n] = myunion2(mysubtract2(O[n], init_kill_BW(c, n, "max")),
                                   init_gen_bw(c[n], "max"))
           ELSE I[n] = {} /\ O[n] = {}

-----------------------------------------------------------------------------
(***************************************************************************)
(* What a store leaves, when the pass has classified it.                   *)
(***************************************************************************)
LEMMA ProductGrows ==
    ASSUME NEW a \in Nat, NEW b \in Nat, b > 1 PROVE a * b >= a
  OBVIOUS

LEMMA QuotientShrinks ==
    ASSUME NEW a \in Nat, NEW b \in Nat, b > 1 PROVE a \div b \in 0..a
  OBVIOUS

\* Rounding towards zero, a quotient is no larger than a dividend that is not
\* negative, and not positive when the dividend is negative.
LEMMA sdivBound ==
    ASSUME NEW x \in Int, NEW y \in Int, y > 1
    PROVE  /\ sdiv(x, y) \in Int
           /\ x >= 0 => sdiv(x, y) <= x
           /\ x < 0 => sdiv(x, y) <= 0
<1>1. CASE x >= 0
  <2>1. sdiv(x, y) = x \div y
    BY <1>1 DEF sdiv, abs
  <2> QED
    BY <1>1, <2>1, QuotientShrinks
<1>2. CASE x < 0
  <2>1. sdiv(x, y) = -((-x) \div y)
    BY <1>2 DEF sdiv, abs
  <2>2. (-x) \div y \in 0..(-x)
    BY <1>2, QuotientShrinks
  <2> QED
    BY <1>2, <2>1, <2>2
<1> QED
  BY <1>1, <1>2

\* The stores whose effect is not CHANGED.
LEMMA Effects ==
    ASSUME NEW s \in Stores, getEffect(s) # "CHANGED"
    PROVE  /\ s.base = s.var /\ s.var \in Vars /\ s.const \in Int
           /\ \/ s.opc = "add" /\ s.const > 0 /\ getEffect(s) = "INC"
              \/ s.opc = "add" /\ s.const < 0 /\ getEffect(s) = "DEC"
              \/ s.opc = "sub" /\ s.const > 0 /\ getEffect(s) = "DEC"
              \/ s.opc = "mul" /\ s.const > 1 /\ getEffect(s) = "MUL"
              \/ s.opc = "sdiv" /\ s.const > 1 /\ getEffect(s) = "DIVGT1"
  BY DEF getEffect, Stores

\* A store that does not spoil a check leaves it true: a is the value of its base.
LEMMA StoreKeeps ==
    ASSUME NEW k \in Kinds, NEW s \in Stores, NEW c \in AllChecks,
           NEW a \in Int,
           s.constfirst => s.opc \notin {"sub", "sdiv"},
           getEffect(s) \notin Spoils(k),
           c.bottom_limit = 0, c.top_limit > 0,
           Passes(k, a, c),
           NEW x \in Outcomes(s, a)
    PROVE  Passes(k, x, c)
<1> DEFINE b == s.const
<1>0. c.top_limit \in Int
  BY DEF AllChecks, LightCheck
<1>1. getEffect(s) # "CHANGED"
  BY DEF Spoils, Lowering, Raising
<1>2. s.base = s.var /\ b \in Int
  BY <1>1, Effects
<1>3. CASE k = "min"
  <2>0. a >= 0
    BY <1>3 DEF Passes
  <2>1. CASE s.opc = "add" /\ b > 0
    <3>1. x = a + b \/ x = b + a
      BY <1>2, <2>1 DEF Outcomes
    <3> QED
      BY <1>2, <1>3, <2>0, <2>1, <3>1 DEF Passes
  <2>2. CASE s.opc = "mul" /\ b > 1
    <3>1. x = a * b \/ x = b * a
      BY <1>2, <2>2 DEF Outcomes
    <3>2. x >= a
      BY <1>2, <2>0, <2>2, <3>1, ProductGrows
    <3> QED
      BY <1>2, <1>3, <2>0, <3>1, <3>2 DEF Passes
  <2> QED
    BY <1>1, <1>3, <2>1, <2>2, Effects DEF Spoils, Lowering
<1>4. CASE k = "max"
  <2>0. a < c.top_limit
    BY <1>4 DEF Passes, Kinds
  <2>1. CASE s.opc = "add" /\ b < 0
    <3>1. x = a + b \/ x = b + a
      BY <1>2, <2>1 DEF Outcomes
    <3> QED
      BY <1>0, <1>2, <1>4, <2>0, <2>1, <3>1 DEF Passes
  <2>2. CASE s.opc = "sub" /\ b > 0
    <3>1. x = a - b
      BY <1>2, <2>2 DEF Outcomes
    <3> QED
      BY <1>0, <1>2, <1>4, <2>0, <2>2, <3>1 DEF Passes
  <2>3. CASE s.opc = "sdiv" /\ b > 1
    <3>1. x = sdiv(a, b)
      BY <1>2, <2>3 DEF Outcomes
    <3>2. x < c.top_limit
      BY <1>0, <1>2, <2>0, <2>3, <3>1, sdivBound
    <3> QED
      BY <1>4, <3>2 DEF Passes
  <2> QED
    BY <1>1, <1>4, <2>1, <2>2, <2>3, Effects DEF Spoils, Raising
<1> QED
  BY <1>3, <1>4 DEF Kinds

\* A store that does not repair a violation leaves it.
LEMMA StoreKeepsFailure ==
    ASSUME NEW s \in Stores, NEW a \in Int, NEW t \in Nat,
           getEffect(s) \notin Repairs("max"), a >= t, NEW x \in Outcomes(s, a)
    PROVE  x >= t
<1> DEFINE b == s.const
<1>1. getEffect(s) \notin {"CHANGED", "DEC", "DIVGT1"}
  BY DEF Repairs, Lowering
<1>2. s.base = s.var /\ b \in Int
  BY <1>1, Effects
<1>3. CASE s.opc = "add" /\ b > 0
  <2>1. x = a + b \/ x = b + a
    BY <1>2, <1>3 DEF Outcomes
  <2> QED
    BY <1>2, <1>3, <2>1
<1>4. CASE s.opc = "mul" /\ b > 1
  <2>1. x = a * b \/ x = b * a
    BY <1>2, <1>4 DEF Outcomes
  <2>2. x >= a
    BY <1>2, <1>4, <2>1, ProductGrows
  <2> QED
    BY <1>2, <1>4, <2>1, <2>2
<1> QED
  BY <1>1, <1>3, <1>4, Effects

\* The same of the variables' values e, of which the store changes one.
LEMMA StoreKeepsCheck ==
    ASSUME NEW s \in Stores, s.constfirst => s.opc \notin {"sub", "sdiv"},
           NEW e \in [Vars -> Int], NEW x \in Outcomes(s, e[s.base]),
           NEW k \in Kinds, NEW c \in AllChecks, c.bottom_limit = 0, c.top_limit > 0,
           ~HasEffect(s, c.realindex, Spoils(k)), Passes(k, e[c.realindex], c)
    PROVE  Passes(k, [e EXCEPT ![s.var] = x][c.realindex], c)
<1>1. s.op = "store" /\ s.var \in Vars /\ c.realindex \in Vars
  BY DEF Stores, AllChecks, LightCheck
<1>2. CASE c.realindex = s.var
  <2>1. getEffect(s) \notin Spoils(k)
    BY <1>1, <1>2 DEF HasEffect, isStoreTo
  <2>2. getEffect(s) # "CHANGED"
    BY <2>1 DEF Spoils, Lowering, Raising
  <2>3. s.base = s.var
    BY <2>2, Effects
  <2>4. Passes(k, x, c)
    BY <1>1, <1>2, <2>1, <2>3, StoreKeeps
  <2> QED
    BY <1>1, <1>2, <2>4
<1> QED
  BY <1>1, <1>2

LEMMA StoreKeepsViolation ==
    ASSUME NEW s \in Stores, NEW e \in [Vars -> Int], NEW x \in Outcomes(s, e[s.base]),
           NEW v \in Vars, NEW t \in Nat,
           ~HasEffect(s, v, Repairs("max")), e[v] >= t
    PROVE  [e EXCEPT ![s.var] = x][v] >= t
<1>1. s.op = "store" /\ s.var \in Vars
  BY DEF Stores
<1>2. CASE v = s.var
  <2>1. getEffect(s) \notin Repairs("max")
    BY <1>1, <1>2 DEF HasEffect, isStoreTo
  <2>2. getEffect(s) # "CHANGED"
    BY <2>1 DEF Repairs, Lowering
  <2>3. s.base = s.var
    BY <2>2, Effects
  <2>4. x >= t
    BY <1>1, <1>2, <2>1, <2>3, StoreKeepsFailure
  <2> QED
    BY <1>1, <1>2, <2>4
<1> QED
  BY <1>1, <1>2

-----------------------------------------------------------------------------
(***************************************************************************)
(* The forward analysis.                                                   *)
(***************************************************************************)
\* The program stays what it was, and the state is well typed.
Typed == prog \in Programs /\ TypeOK

LEMMA TransferTypeFW ==
    ASSUME Typed, NEW k \in Kinds, NEW n \in prog.nodes
    PROVE  /\ InOf(k, n) \in SUBSET AllChecks
           /\ \A in \in SUBSET AllChecks : TransferFW(k, n, in) \in SUBSET AllChecks
<1>1. InOf(k, n) \in SUBSET AllChecks
  <2>1. CASE preds(prog, n) = {}
    BY <2>1 DEF InOf, Typed, TypeOK, AllChecks
  <2>2. CASE preds(prog, n) # {}
    <3>1. \A m \in preds(prog, n) : out[k][m] \in SUBSET AllChecks
      BY DEF Typed, TypeOK, preds, AllChecks
    <3> QED
      BY <2>2, <3>1 DEF InOf, myintersect
  <2> QED
    BY <2>1, <2>2
<1>2. code[n] \in Seq(Instrs)
  BY DEF Typed, TypeOK
<1>3. init_gen(code[n], k) \in SUBSET AllChecks
  BY <1>2, InitGenType
<1>4. ASSUME NEW in \in SUBSET AllChecks PROVE TransferFW(k, n, in) \in SUBSET AllChecks
  BY <1>3, <1>4 DEF TransferFW, myunion, mysubtract2
<1> QED
  BY <1>1, <1>4

LEMMA TypedInit == prog \in Programs /\ code \in [prog.nodes -> Seq(Instrs)] /\ Start => Typed
<1> SUFFICES ASSUME prog \in Programs, code \in [prog.nodes -> Seq(Instrs)], Start PROVE Typed
  OBVIOUS
<1>1. pos \in 1..(Len(prog.order) + 1) /\ kind \in Kinds \cup {"done"}
  BY ProgramsAssumption, VectorOfNodes DEF Start, Kinds
<1>2. changed \in BOOLEAN /\ crashed \in BOOLEAN
  BY DEF Start
<1>3. NoSets(prog) \in [Kinds -> [prog.nodes -> SUBSET LightCheck(Vars, Int)]]
  BY DEF NoSets
<1> QED
  BY <1>1, <1>2, <1>3 DEF Start, Typed, TypeOK

LEMMA StartsTypedFW ==
    StartOnProgram => prog \in Programs /\ code \in [prog.nodes -> Seq(Instrs)] /\ Start
  BY ProgramsAssumption DEF StartOnProgram, WellFormed

LEMMA TypedNextFW == Typed /\ [NextFW]_analysis => Typed'
<1> SUFFICES ASSUME Typed, [NextFW]_analysis PROVE Typed'
  OBVIOUS
<1>wf. WellFormed(prog)
  BY ProgramsAssumption DEF Typed
<1>len. Len(prog.order) \in Nat /\ \A q \in 1..Len(prog.order) : prog.order[q] \in prog.nodes
  BY <1>wf, VectorOfNodes
<1>1. CASE VisitFW
  <2> DEFINE n == prog.order[pos]
             in == InOf(kind, n)
  <2>1. kind \in Kinds /\ n \in prog.nodes /\ pos' \in 1..(Len(prog.order) + 1)
    BY <1>1, <1>len DEF VisitFW, Looping, Typed, TypeOK
  <2>2. in \in SUBSET AllChecks /\ TransferFW(kind, n, in) \in SUBSET AllChecks
    BY <2>1, TransferTypeFW
  <2>3. In' \in [Kinds -> [prog.nodes -> SUBSET AllChecks]]
    BY <1>1, <2>1, <2>2 DEF VisitFW, Typed, TypeOK, AllChecks
  <2>4. out' \in [Kinds -> [prog.nodes -> SUBSET AllChecks]]
    BY <1>1, <2>1, <2>2 DEF VisitFW, Typed, TypeOK, AllChecks
  <2> QED
    BY <1>1, <2>1, <2>3, <2>4 DEF VisitFW, Typed, TypeOK, AllChecks
<1>2. CASE Repeat
  <2>1. pos' \in 1..(Len(prog.order) + 1)
    BY <1>2, <1>len DEF Repeat
  <2>2. changed' \in BOOLEAN
    BY <1>2 DEF Repeat
  <2> QED
    BY <1>2, <2>1, <2>2 DEF Repeat, Typed, TypeOK
<1>3. CASE Finish
  BY <1>3, <1>len DEF Finish, Typed, TypeOK, Kinds
<1>4. CASE CrashFW
  BY <1>4 DEF CrashFW, Typed, TypeOK
<1>5. CASE UNCHANGED analysis
  BY <1>5 DEF analysis, Typed, TypeOK
<1> QED
  BY <1>1, <1>2, <1>3, <1>4, <1>5 DEF NextFW, AdvanceFW

\* The analysis keeps sets of checks, for the nodes of the graph.
THEOREM TypeCorrect == SpecFW => []TypeOK
<1>1. Typed => TypeOK
  BY DEF Typed
<1> QED
  BY <1>1, StartsTypedFW, TypedInit, TypedNextFW, PTL DEF SpecFW

-----------------------------------------------------------------------------
(***************************************************************************)
(* The analysis implements Availability.  A sweep that has changed no out  *)
(* set so far has left every node it visited in agreement with the sets of *)
(* its predecessors as they are now, although it read some of them before  *)
(* they were visited themselves.                                           *)
(***************************************************************************)
SettledFW(k, n) ==
    /\ In[k][n] = InOf(k, n)
    /\ out[k][n] = TransferFW(k, n, In[k][n])

OutsideFW ==
    \A k \in Kinds, n \in prog.nodes :
        /\ preds(prog, n) = {} => In[k][n] = {}
        /\ n \notin InVector(prog) => In[k][n] = {} /\ out[k][n] = {}

SweptFW ==
    kind \in Kinds /\ ~changed => \A q \in 1..(pos - 1) : SettledFW(kind, prog.order[q])

SolvedAtFW(k) ==
    \A n \in prog.nodes : IF n \in InVector(prog) THEN SettledFW(k, n)
                          ELSE In[k][n] = {} /\ out[k][n] = {}
FinishedFW == \A k \in Kinds : Solved(k) => SolvedAtFW(k)

FixInvFW == Typed /\ OutsideFW /\ SweptFW /\ FinishedFW

\* What is said of one kind depends on the sets of that kind only.
LEMMA SolvedAtStaysFW ==
    ASSUME NEW k, prog' = prog, code' = code, In'[k] = In[k], out'[k] = out[k], SolvedAtFW(k)
    PROVE  SolvedAtFW(k)'
<1> SUFFICES ASSUME NEW n \in prog.nodes
             PROVE  IF n \in InVector(prog) THEN SettledFW(k, n)'
                    ELSE In'[k][n] = {} /\ out'[k][n] = {}
  BY DEF SolvedAtFW
<1>1. SettledFW(k, n) => SettledFW(k, n)'
  BY DEF SettledFW, InOf, TransferFW
<1> QED
  BY <1>1 DEF SolvedAtFW

LEMMA FixInitFW ==
    prog \in Programs /\ code \in [prog.nodes -> Seq(Instrs)] /\ Start => FixInvFW
<1> SUFFICES ASSUME prog \in Programs, code \in [prog.nodes -> Seq(Instrs)], Start
             PROVE  FixInvFW
  OBVIOUS
<1>1. Typed
  BY TypedInit
<1>2. OutsideFW
  BY DEF Start, NoSets, OutsideFW
<1>3. SweptFW
  <2>1. 1..(pos - 1) = {}
    BY DEF Start
  <2> QED
    BY <2>1 DEF SweptFW
<1>4. FinishedFW
  BY DEF Start, FinishedFW, Solved, Kinds
<1> QED
  BY <1>1, <1>2, <1>3, <1>4 DEF FixInvFW

\* A visit changes the sets of one node and one kind.
LEMMA VisitEffectFW ==
    ASSUME Typed, VisitFW
    PROVE  LET n == prog.order[pos] IN
           /\ kind \in Kinds /\ n \in prog.nodes /\ n \in InVector(prog)
           /\ In'[kind][n] = InOf(kind, n)
           /\ out'[kind][n] = TransferFW(kind, n, In'[kind][n])
           /\ \A k \in Kinds, m \in prog.nodes :
                 k # kind \/ m # n => In'[k][m] = In[k][m] /\ out'[k][m] = out[k][m]
           /\ ~changed' => ~changed /\ out' = out
<1> DEFINE n == prog.order[pos]
           new == TransferFW(kind, n, InOf(kind, n))
<1>1. WellFormed(prog)
  BY ProgramsAssumption DEF Typed
<1>2. kind \in Kinds /\ pos \in 1..Len(prog.order)
  BY <1>1, VectorOfNodes DEF VisitFW, Looping, Typed, TypeOK
<1>3. n \in prog.nodes /\ n \in InVector(prog)
  BY <1>1, <1>2, VectorOfNodes
<1>4. /\ In' = [In EXCEPT ![kind][n] = InOf(kind, n)]
      /\ out' = [out EXCEPT ![kind][n] = new]
      /\ changed' = (changed \/ new # out[kind][n])
  BY DEF VisitFW
<1>5. In'[kind][n] = InOf(kind, n) /\ out'[kind][n] = new
  BY <1>2, <1>3, <1>4 DEF Typed, TypeOK
<1>6. \A k \in Kinds, m \in prog.nodes :
         k # kind \/ m # n => In'[k][m] = In[k][m] /\ out'[k][m] = out[k][m]
  BY <1>2, <1>3, <1>4 DEF Typed, TypeOK
<1>7. ASSUME ~changed' PROVE ~changed /\ out' = out
  <2>1. ~changed /\ new = out[kind][n]
    BY <1>4, <1>7
  <2>2. out' = out
    BY <1>2, <1>3, <1>4, <2>1 DEF Typed, TypeOK
  <2> QED
    BY <2>1, <2>2
<1> QED
  BY <1>2, <1>3, <1>5, <1>6, <1>7

\* A loop is left when the last sweep has settled every node of the vector.
LEMMA FinishSolvesFW == ASSUME FixInvFW, Finish PROVE SolvedAtFW(kind)
<1>1. WellFormed(prog) /\ pos \in 1..(Len(prog.order) + 1)
  BY ProgramsAssumption DEF FixInvFW, Typed, TypeOK
<1>2. ASSUME NEW n \in InVector(prog) PROVE SettledFW(kind, n)
  <2>1. PICK q \in 1..Len(prog.order) : prog.order[q] = n
    BY <1>1, VectorOfNodes
  <2>2. q \in 1..(pos - 1)
    BY <1>1, VectorOfNodes DEF Finish
  <2> QED
    BY <2>1, <2>2 DEF Finish, Looping, FixInvFW, SweptFW
<1> QED
  BY <1>2 DEF SolvedAtFW, FixInvFW, OutsideFW, Finish, Looping

LEMMA FixNextFW == FixInvFW /\ [NextFW]_analysis => FixInvFW'
<1> SUFFICES ASSUME FixInvFW, [NextFW]_analysis PROVE FixInvFW'
  OBVIOUS
<1>typed. Typed /\ Typed'
  BY TypedNextFW DEF FixInvFW
<1>wf. WellFormed(prog)
  BY ProgramsAssumption, <1>typed DEF Typed
<1>len. /\ Len(prog.order) \in Nat /\ pos \in 1..(Len(prog.order) + 1)
        /\ \A q \in 1..Len(prog.order) : prog.order[q] \in prog.nodes
  BY <1>wf, <1>typed, VectorOfNodes DEF Typed, TypeOK
<1>1. CASE VisitFW
  <2> DEFINE n == prog.order[pos]
  <2>1. /\ kind \in Kinds /\ n \in prog.nodes /\ n \in InVector(prog)
        /\ In'[kind][n] = InOf(kind, n)
        /\ out'[kind][n] = TransferFW(kind, n, In'[kind][n])
        /\ \A k \in Kinds, m \in prog.nodes :
              k # kind \/ m # n => In'[k][m] = In[k][m] /\ out'[k][m] = out[k][m]
        /\ ~changed' => ~changed /\ out' = out
    BY <1>1, <1>typed, VisitEffectFW
  <2>2. UNCHANGED <<prog, code, kind>> /\ pos' = pos + 1 /\ pos <= Len(prog.order)
    BY <1>1 DEF VisitFW
  <2>3. OutsideFW'
    <3>1. preds(prog, n) = {} => In'[kind][n] = {}
      BY <2>1 DEF FixInvFW, OutsideFW, InOf
    <3> QED
      BY <2>1, <2>2, <3>1 DEF FixInvFW, OutsideFW
  <2>4. SweptFW'
    <3> SUFFICES ASSUME ~changed', NEW q \in 1..pos
                 PROVE  SettledFW(kind, prog.order[q])'
      BY <2>2, <1>len DEF SweptFW
    <3> DEFINE m == prog.order[q]
    <3>1. out' = out /\ ~changed
      BY <2>1
    <3>2. m \in prog.nodes /\ q \in Int
      BY <1>len, <2>2
    <3>3. CASE m = n
      BY <2>1, <2>2, <3>1, <3>3 DEF SettledFW, InOf, TransferFW
    <3>4. CASE m # n
      <4>1. q \in 1..(pos - 1)
        BY <3>4, <1>len
      <4>2. SettledFW(kind, m)
        BY <4>1, <3>1, <2>1 DEF FixInvFW, SweptFW
      <4> QED
        BY <4>2, <3>1, <3>2, <3>4, <2>1, <2>2 DEF SettledFW, InOf, TransferFW
    <3> QED
      BY <3>3, <3>4
  <2>5. FinishedFW'
    <3> SUFFICES ASSUME NEW k \in Kinds, Solved(k)'
                 PROVE  SolvedAtFW(k)'
      BY DEF FinishedFW
    <3>1. k # kind /\ Solved(k)
      BY <2>1, <2>2 DEF Solved, Kinds
    <3>2. In'[k] = In[k] /\ out'[k] = out[k]
      BY <2>1, <3>1, <1>1 DEF VisitFW
    <3> QED
      BY <3>1, <3>2, <2>2, SolvedAtStaysFW DEF FixInvFW, FinishedFW
  <2> QED
    BY <1>typed, <2>3, <2>4, <2>5 DEF FixInvFW
<1>2. CASE Repeat
  <2>1. 1..(pos' - 1) = {}
    BY <1>2 DEF Repeat
  <2>2. OutsideFW' /\ FinishedFW'
    BY <1>2, SolvedAtStaysFW DEF Repeat, FixInvFW, OutsideFW, FinishedFW, Solved
  <2> QED
    BY <1>typed, <2>1, <2>2 DEF FixInvFW, SweptFW
<1>3. CASE Finish
  <2>1. 1..(pos' - 1) = {}
    BY <1>3 DEF Finish
  <2>2. SolvedAtFW(kind)
    BY <1>3, FinishSolvesFW
  <2>3. FinishedFW'
    <3> SUFFICES ASSUME NEW k \in Kinds, Solved(k)'
                 PROVE  SolvedAtFW(k)'
      BY DEF FinishedFW
    <3>1. k = kind \/ Solved(k)
      BY <1>3 DEF Finish, Looping, Solved, Kinds
    <3>2. SolvedAtFW(k)
      BY <2>2, <3>1 DEF FixInvFW, FinishedFW
    <3> QED
      BY <3>2, <1>3, SolvedAtStaysFW DEF Finish
  <2>4. OutsideFW'
    BY <1>3 DEF Finish, FixInvFW, OutsideFW
  <2> QED
    BY <1>typed, <2>1, <2>3, <2>4 DEF FixInvFW, SweptFW
<1>4. CASE CrashFW \/ UNCHANGED analysis
  <2>1. UNCHANGED <<prog, code, kind, pos, changed, In, out>>
    BY <1>4 DEF CrashFW, analysis
  <2>2. OutsideFW' /\ FinishedFW'
    BY <2>1, SolvedAtStaysFW DEF FixInvFW, OutsideFW, FinishedFW, Solved
  <2>3. SweptFW'
    <3> SUFFICES ASSUME kind \in Kinds, ~changed, NEW q \in 1..(pos - 1)
                 PROVE  SettledFW(kind, prog.order[q])'
      BY <2>1 DEF SweptFW
    <3>1. SettledFW(kind, prog.order[q])
      BY DEF FixInvFW, SweptFW
    <3> QED
      BY <2>1, <3>1 DEF SettledFW, InOf, TransferFW
  <2> QED
    BY <1>typed, <2>2, <2>3 DEF FixInvFW
<1> QED
  BY <1>1, <1>2, <1>3, <1>4 DEF NextFW, AdvanceFW

-----------------------------------------------------------------------------
\* The instance A has operators of its own; they are the same.
LEMMA SameGraphFW ==
    ASSUME NEW p, NEW n
    PROVE  Forward!preds(p, n) = preds(p, n) /\ Forward!InVector(p) = InVector(p)
  BY DEF Forward!preds, preds, Forward!InVector, InVector

LEMMA SameEffectsFW ==
    ASSUME NEW i, NEW v, NEW k
    PROVE  /\ Forward!HasEffect(i, v, Forward!Spoils(k)) = HasEffect(i, v, Spoils(k))
           /\ Forward!isCall(i, k) = isCall(i, k) /\ Forward!CheckOf(i) = CheckOf(i)
<1>1. Forward!getEffect(i) = getEffect(i)
  BY DEF Forward!getEffect, getEffect
<1>2. Forward!Spoils(k) = Spoils(k)
  BY DEF Forward!Spoils, Spoils, Forward!Lowering, Lowering, Forward!Raising, Raising
<1>3. Forward!HasEffect(i, v, Forward!Spoils(k)) = HasEffect(i, v, Spoils(k))
  BY <1>1, <1>2 DEF Forward!HasEffect, HasEffect, Forward!isStoreTo, isStoreTo
<1>4. Forward!isCall(i, k) = isCall(i, k) /\ Forward!CheckOf(i) = CheckOf(i)
  BY DEF Forward!isCall, isCall, Forward!CheckOf, CheckOf
<1> QED
  BY <1>3, <1>4

LEMMA SameGenKillFW ==
    ASSUME NEW c, NEW n, NEW k
    PROVE  /\ Forward!init_gen(c[n], k) = init_gen(c[n], k)
           /\ Forward!init_kill(c, n, k) = init_kill(c, n, k)
<1>1. Forward!init_gen(c[n], k) = init_gen(c[n], k)
  BY SameEffectsFW DEF Forward!init_gen, init_gen, Forward!Untouched, Untouched
<1>2. Forward!Checked(c, k) = Checked(c, k)
  BY SameEffectsFW DEF Forward!Checked, Checked, Forward!Roots, Roots, Forward!Checks, Checks
<1>3. Forward!init_kill(c, n, k) = init_kill(c, n, k)
  BY <1>2, SameEffectsFW DEF Forward!init_kill, init_kill, Forward!KillSet, KillSet
<1> QED
  BY <1>1, <1>3

LEMMA SameOperationsFW ==
    ASSUME NEW a, NEW b
    PROVE  /\ Forward!myintersect(a) = myintersect(a)
           /\ Forward!mysubtract2(a, b) = mysubtract2(a, b)
           /\ Forward!myunion(a, b) = myunion(a, b)
  BY DEF Forward!myintersect, myintersect, Forward!mysubtract2, mysubtract2, Forward!Roots,
     Roots,
     Forward!myunion, myunion

\* A loop that is over has left a solution of its equations.
LEMMA SolutionFW ==
    ASSUME FixInvFW, NEW k \in Kinds, SolvedAtFW(k)
    PROVE  Forward!IsSolution(k, In[k], out[k])
<1> SUFFICES ASSUME NEW n \in prog.nodes
             PROVE  IF n \in Forward!InVector(prog)
                    THEN /\ Forward!InEquation(In[k], out[k], n)
                         /\ Forward!OutEquation(k, In[k], out[k], n)
                    ELSE In[k][n] = {} /\ out[k][n] = {}
  BY DEF Forward!IsSolution
<1>1. IF n \in InVector(prog) THEN SettledFW(k, n) ELSE In[k][n] = {} /\ out[k][n] = {}
  BY DEF SolvedAtFW
<1>2. SettledFW(k, n) => Forward!InEquation(In[k], out[k], n)
  BY SameGraphFW, SameOperationsFW DEF SettledFW, InOf, Forward!InEquation, FixInvFW, OutsideFW
<1>3. SettledFW(k, n) => Forward!OutEquation(k, In[k], out[k], n)
  BY SameGenKillFW, SameOperationsFW DEF SettledFW, TransferFW, Forward!OutEquation
<1> QED
  BY <1>1, <1>2, <1>3, SameGraphFW

LEMMA RefinesInitFW == StartOnProgram => Forward!Init
  BY DEF StartOnProgram, Start, Solved, Forward!Init, Forward!Kinds, Kinds,
     Forward!Unsolved, Answer

LEMMA RefinesNextFW ==
    FixInvFW /\ [NextFW]_analysis => [Forward!Next]_<<prog, code, Answer>>
<1> SUFFICES ASSUME FixInvFW, [NextFW]_analysis
             PROVE  Forward!Next \/ UNCHANGED <<prog, code, Answer>>
  OBVIOUS
<1>0. UNCHANGED <<prog, code>>
  BY DEF NextFW, AdvanceFW, VisitFW, Repeat, Finish, CrashFW, analysis
<1>1. CASE VisitFW
  <2>1. \A k \in Kinds :
          Solved(k)' = Solved(k) /\ (Solved(k) => In'[k] = In[k] /\ out'[k] = out[k])
    BY <1>1 DEF VisitFW, Looping, Solved, Kinds
  <2> QED
    BY <1>0, <2>1 DEF Answer
<1>2. CASE Finish
  <2>1. kind \in Kinds /\ UNCHANGED <<In, out>>
    BY <1>2 DEF Finish, Looping
  <2>2. Forward!IsSolution(kind, In[kind], out[kind])
    BY <1>2, <2>1, FinishSolvesFW, SolutionFW
  <2>3. CASE kind = "min"
    <3>1. kind' = "max"
      BY <1>2, <2>3 DEF Finish
    <3>2. Forward!Solve("min")
      BY <1>0, <2>1, <2>2, <2>3, <3>1 DEF Forward!Solve, Forward!Unsolved, Forward!Kinds,
         Kinds, Solved, Answer
    <3> QED
      BY <3>2 DEF Forward!Next
  <2>4. CASE kind = "max"
    <3>1. kind' = "done"
      BY <1>2, <2>4 DEF Finish
    <3>2. Forward!Solve("max")
      BY <1>0, <2>1, <2>2, <2>4, <3>1 DEF Forward!Solve, Forward!Unsolved, Forward!Kinds,
         Kinds, Solved, Answer
    <3> QED
      BY <2>4, <3>2 DEF Forward!Next, Forward!Unsolved, Kinds, Solved, Answer
  <2> QED
    BY <2>1, <2>3, <2>4 DEF Kinds
<1>3. CASE Repeat \/ CrashFW \/ UNCHANGED analysis
  <2>1. UNCHANGED <<kind, In, out>>
    BY <1>3 DEF Repeat, CrashFW, analysis
  <2> QED
    BY <1>0, <2>1 DEF Answer, Solved
<1> QED
  BY <1>1, <1>2, <1>3 DEF NextFW, AdvanceFW

\* The sweeps of ComputeFirst, in whatever order the vector holds the nodes and
\* however many sweeps it takes, leave each of the two loops with a solution of
\* the equations of available checks over the whole graph.
THEOREM SolvesEquations == SpecFW => ImplementsAvailability
<1>1. SpecFW => []FixInvFW
  BY StartsTypedFW, FixInitFW, FixNextFW, PTL DEF SpecFW
<1>2. Forward!Spec <=> Forward!Init /\ [][Forward!Next]_<<prog, code, Answer>>
  BY DEF Forward!Spec, Answer
<1> QED
  BY <1>1, <1>2, RefinesInitFW, RefinesNextFW, PTL DEF SpecFW, ImplementsAvailability

-----------------------------------------------------------------------------
(***************************************************************************)
(* The sweeps only add.  Every set is within what its equation would make  *)
(* of the others, and the right-hand sides are monotone.                   *)
(***************************************************************************)
Below ==
    \A k \in Kinds, n \in prog.nodes :
        /\ In[k][n] \subseteq InOf(k, n)
        /\ out[k][n] \subseteq TransferFW(k, n, In[k][n])

LEMMA TransferMonotoneFW ==
    ASSUME NEW k, NEW n, NEW a, NEW b, a \subseteq b
    PROVE  TransferFW(k, n, a) \subseteq TransferFW(k, n, b)
  BY DEF TransferFW, myunion, mysubtract2

LEMMA VisitGrowsFW ==
    ASSUME Typed, Below, VisitFW
    PROVE  /\ \A k \in Kinds, m \in prog.nodes :
                 In[k][m] \subseteq In'[k][m] /\ out[k][m] \subseteq out'[k][m]
           /\ Below'
<1> DEFINE n == prog.order[pos]
<1>1. /\ kind \in Kinds /\ n \in prog.nodes
      /\ In'[kind][n] = InOf(kind, n)
      /\ out'[kind][n] = TransferFW(kind, n, In'[kind][n])
      /\ \A k \in Kinds, m \in prog.nodes :
            k # kind \/ m # n => In'[k][m] = In[k][m] /\ out'[k][m] = out[k][m]
  BY VisitEffectFW
<1>2. In[kind][n] \subseteq In'[kind][n]
  BY <1>1 DEF Below
<1>3. out[kind][n] \subseteq out'[kind][n]
  <2>1. TransferFW(kind, n, In[kind][n]) \subseteq TransferFW(kind, n, In'[kind][n])
    BY <1>2, TransferMonotoneFW
  <2> QED
    BY <1>1, <2>1 DEF Below
<1>4. \A k \in Kinds, m \in prog.nodes :
         In[k][m] \subseteq In'[k][m] /\ out[k][m] \subseteq out'[k][m]
  BY <1>1, <1>2, <1>3
<1>5. UNCHANGED <<prog, code>>
  BY DEF VisitFW
<1>6. ASSUME NEW k \in Kinds, NEW m \in prog.nodes
      PROVE  In'[k][m] \subseteq InOf(k, m)'
  <2>1. CASE preds(prog, m) = {}
    BY <1>5, <2>1 DEF InOf
  <2>2. CASE preds(prog, m) # {}
    <3>1. InOf(k, m) \subseteq InOf(k, m)'
      <4>1. \A l \in preds(prog, m) : out[k][l] \subseteq out'[k][l]
        BY <1>4 DEF preds
      <4>2. myintersect({out[k][l] : l \in preds(prog, m)})
              \subseteq myintersect({out'[k][l] : l \in preds(prog, m)})
        <5> SUFFICES ASSUME NEW c \in myintersect({out[k][l] : l \in preds(prog, m)})
                     PROVE  c \in myintersect({out'[k][l] : l \in preds(prog, m)})
          OBVIOUS
        <5>1. \A l \in preds(prog, m) : c \in out'[k][l]
          BY <4>1 DEF myintersect
        <5> QED
          BY <2>2, <5>1 DEF myintersect
      <4> QED
        BY <1>5, <2>2, <4>2 DEF InOf
    <3>2. In'[k][m] \subseteq InOf(k, m)
      BY <1>1 DEF Below
    <3> QED
      BY <3>1, <3>2
  <2> QED
    BY <2>1, <2>2
<1>7. ASSUME NEW k \in Kinds, NEW m \in prog.nodes
      PROVE  out'[k][m] \subseteq TransferFW(k, m, In[k][m])'
  <2>1. TransferFW(k, m, In[k][m])' = TransferFW(k, m, In'[k][m])
    BY <1>5 DEF TransferFW
  <2>2. CASE k = kind /\ m = n
    BY <1>1, <2>1, <2>2
  <2>3. CASE k # kind \/ m # n
    BY <1>1, <2>1, <2>3 DEF Below
  <2> QED
    BY <2>2, <2>3
<1> QED
  BY <1>4, <1>5, <1>6, <1>7 DEF Below

LEMMA BelowInit == StartOnProgram => Below
  BY DEF StartOnProgram, Start, NoSets, Below

LEMMA BelowNext == Typed /\ Below /\ [NextFW]_analysis => Below'
<1> SUFFICES ASSUME Typed, Below, [NextFW]_analysis PROVE Below'
  OBVIOUS
<1>1. CASE VisitFW
  BY <1>1, VisitGrowsFW
<1>2. CASE Repeat \/ Finish \/ CrashFW \/ UNCHANGED analysis
  <2>1. UNCHANGED <<prog, code, In, out>>
    BY <1>2 DEF Repeat, Finish, CrashFW, analysis
  <2>2. \A k, n : InOf(k, n)' = InOf(k, n) /\ TransferFW(k, n, In[k][n])' = TransferFW(k, n, In[k][n])
    BY <2>1 DEF InOf, TransferFW
  <2> QED
    BY <2>1, <2>2 DEF Below
<1> QED
  BY <1>1, <1>2 DEF NextFW, AdvanceFW

\* No visit takes a check back, so the sweeps of a loop come to an end: every
\* sweep but the last adds one of finitely many checks.
THEOREM SweepsOnlyAdd == SpecFW => Grows
<1> DEFINE Step == \A k \in Kinds, n \in prog.nodes :
                      In[k][n] \subseteq In'[k][n] /\ out[k][n] \subseteq out'[k][n]
<1>1. ASSUME Typed, Below, [NextFW]_analysis PROVE [Step]_analysis
  <2>1. CASE VisitFW
    BY <1>1, <2>1, VisitGrowsFW
  <2>2. CASE Repeat \/ Finish \/ CrashFW
    BY <2>2 DEF Repeat, Finish, CrashFW
  <2> QED
    BY <1>1, <2>1, <2>2 DEF NextFW, AdvanceFW
<1> QED
  BY <1>1, StartsTypedFW, TypedInit, TypedNextFW, BelowInit, BelowNext, PTL DEF SpecFW, Grows

-----------------------------------------------------------------------------
(***************************************************************************)
(* The sets hold only checks that the code makes.                          *)
(***************************************************************************)
OwnFW ==
    \A k \in Kinds, n \in prog.nodes :
        In[k][n] \subseteq Checks(code, k) /\ out[k][n] \subseteq Checks(code, k)

LEMMA OwnInitFW == Start => OwnFW
  BY DEF Start, NoSets, OwnFW

LEMMA OwnNextFW == Typed /\ OwnFW /\ [NextFW]_analysis => OwnFW'
<1> SUFFICES ASSUME Typed, OwnFW, [NextFW]_analysis PROVE OwnFW'
  OBVIOUS
<1>1. CASE VisitFW
  <2> DEFINE n == prog.order[pos]
  <2>1. /\ kind \in Kinds /\ n \in prog.nodes
        /\ In'[kind][n] = InOf(kind, n)
        /\ out'[kind][n] = TransferFW(kind, n, In'[kind][n])
        /\ \A k \in Kinds, m \in prog.nodes :
              k # kind \/ m # n => In'[k][m] = In[k][m] /\ out'[k][m] = out[k][m]
    BY <1>1, VisitEffectFW
  <2>2. InOf(kind, n) \subseteq Checks(code, kind)
    <3>1. \A m \in preds(prog, n) : out[kind][m] \subseteq Checks(code, kind)
      BY <2>1 DEF preds, OwnFW
    <3> QED
      BY <2>1, <3>1 DEF InOf, myintersect, OwnFW
  <2>3. TransferFW(kind, n, In'[kind][n]) \subseteq Checks(code, kind)
    <3>1. init_gen(code[n], kind) \subseteq Checks(code, kind)
      BY <2>1, GenIsOwn DEF Typed, TypeOK
    <3> QED
      BY <2>1, <2>2, <3>1 DEF TransferFW, myunion, mysubtract2
  <2>4. UNCHANGED <<prog, code>>
    BY <1>1 DEF VisitFW
  <2> QED
    BY <2>1, <2>2, <2>3, <2>4 DEF OwnFW
<1>2. CASE Repeat \/ Finish \/ CrashFW \/ UNCHANGED analysis
  BY <1>2 DEF Repeat, Finish, CrashFW, analysis, OwnFW
<1> QED
  BY <1>1, <1>2 DEF NextFW, AdvanceFW

\* What the analysis leaves when it is over.
LEMMA DoneAvails == FixInvFW /\ OwnFW /\ kind = "done" => Avails(prog, code, In, out)
<1> SUFFICES ASSUME FixInvFW, OwnFW, kind = "done", NEW k \in Kinds, NEW n \in prog.nodes
             PROVE  /\ In[k][n] \subseteq Checks(code, k) /\ out[k][n] \subseteq Checks(code, k)
                    /\ preds(prog, n) = {} => In[k][n] = {}
                    /\ IF n \in InVector(prog)
                       THEN /\ preds(prog, n) # {} =>
                                  In[k][n] = myintersect({out[k][m] : m \in preds(prog, n)})
                            /\ out[k][n] = myunion(mysubtract2(In[k][n], init_kill(code, n, k)),
                                                   init_gen(code[n], k))
                       ELSE In[k][n] = {} /\ out[k][n] = {}
  BY DEF Avails
<1>1. SolvedAtFW(k)
  BY DEF FixInvFW, FinishedFW, Solved
<1> QED
  BY <1>1 DEF SolvedAtFW, SettledFW, InOf, TransferFW, OwnFW, FixInvFW, OutsideFW

-----------------------------------------------------------------------------
(***************************************************************************)
(* The backward analysis: a loop ends, if it does, with a solution of its  *)
(* equations, and no set holds two checks of one index.                    *)
(***************************************************************************)
\* What the analysis is about, and the shape of what it keeps.
Shaped ==
    /\ prog \in Programs /\ code \in [prog.nodes -> Seq(Instrs)]
    /\ kind \in Kinds \cup {"done"} /\ pos \in 1..(Len(prog.order) + 1)
    /\ In = [k \in Kinds |-> [n \in prog.nodes |-> In[k][n]]]
    /\ out = [k \in Kinds |-> [n \in prog.nodes |-> out[k][n]]]

\* One check for each index, in every set.
Single == \A k \in Kinds, n \in prog.nodes : OnePerIndex(In[k][n]) /\ OnePerIndex(out[k][n])

SettledBW(k, n) ==
    /\ out[k][n] = OutOf(k, n)
    /\ In[k][n] = TransferBW(k, n, out[k][n])

OutsideBW ==
    \A k \in Kinds, n \in prog.nodes :
        /\ prog.succs[n] = {} => out[k][n] = {}
        /\ n \notin InVector(prog) => In[k][n] = {} /\ out[k][n] = {}

\* As long as the sweep has changed no in set, what it visited is settled.
SweptBW ==
    kind \in Kinds /\ ~changed => \A q \in 1..(pos - 1) : SettledBW(kind, prog.order[q])

SolvedAtBW(k) ==
    \A n \in prog.nodes : IF n \in InVector(prog) THEN SettledBW(k, n)
                          ELSE In[k][n] = {} /\ out[k][n] = {}
FinishedBW == \A k \in Kinds : Solved(k) => SolvedAtBW(k)

FixInvBW == Shaped /\ Single /\ OutsideBW /\ SweptBW /\ FinishedBW

-----------------------------------------------------------------------------
\* The meet makes one check for each index whatever it is given; the transfer
\* keeps one if there was one, although subsumeGen may leave several.
LEMMA MeetSingle == ASSUME NEW sets PROVE OnePerIndex(myintersect2(sets))
<1> SUFFICES ASSUME NEW c \in myintersect2(sets), NEW d \in myintersect2(sets),
                    c.realindex = d.realindex
             PROVE  c = d
  BY DEF OnePerIndex
<1> DEFINE weakest(v) == Loosen(v, Of(UNION sets, v))
<1>1. PICK v : c = weakest(v)
  BY DEF myintersect2
<1>2. PICK w : d = weakest(w)
  BY DEF myintersect2
<1>3. v = w
  <2>1. \A u : weakest(u).realindex = u
    BY DEF Loosen
  <2> HIDE DEF weakest
  <2> QED
    BY <1>1, <1>2, <2>1
<1> QED
  BY <1>1, <1>2, <1>3

LEMMA UnionSingle ==
    ASSUME NEW o, NEW gen, OnePerIndex(o)
    PROVE  OnePerIndex(myunion2(o, gen))
<1> SUFFICES ASSUME NEW c \in myunion2(o, gen), NEW d \in myunion2(o, gen),
                    c.realindex = d.realindex
             PROVE  c = d
  BY DEF OnePerIndex
<1> DEFINE old(b) == Tighten(b.realindex, {b} \cup Of(gen, b.realindex))
           new(v) == Tighten(v, Of(gen, v))
<1>1. \A e \in myunion2(o, gen) :
         \/ \E b \in o : e = old(b)
         \/ \E v \in Roots(gen) \ Roots(o) : e = new(v)
  BY DEF myunion2
<1>2. \A b : old(b).realindex = b.realindex
  BY DEF Tighten
<1>3. \A v : new(v).realindex = v
  BY DEF Tighten
<1>4. \A b \in o : b.realindex \in Roots(o)
  BY DEF Roots
<1>5. CASE \E b \in o : c = old(b)
  <2>1. PICK b \in o : c = old(b)
    BY <1>5
  <2>2. d.realindex \in Roots(o)
    BY <2>1, <1>2, <1>4
  <2>3. PICK e \in o : d = old(e)
    BY <1>1, <1>3, <2>2
  <2>4. b = e
    BY <2>1, <2>3, <1>2 DEF OnePerIndex
  <2> QED
    BY <2>1, <2>3, <2>4
<1>6. CASE \E v \in Roots(gen) \ Roots(o) : c = new(v)
  <2>1. PICK v \in Roots(gen) \ Roots(o) : c = new(v)
    BY <1>6
  <2>2. d.realindex \notin Roots(o)
    BY <2>1, <1>3
  <2>3. PICK w \in Roots(gen) \ Roots(o) : d = new(w)
    BY <1>1, <1>2, <1>4, <2>2
  <2>4. v = w
    BY <2>1, <2>3, <1>3
  <2> QED
    BY <2>1, <2>3, <2>4
<1> QED
  BY <1>1, <1>5, <1>6

LEMMA TransferSingleBW ==
    ASSUME NEW k, NEW n, NEW o, OnePerIndex(o)
    PROVE  OnePerIndex(TransferBW(k, n, o))
<1>1. OnePerIndex(Survivors(k, n, o))
  BY DEF Survivors, mysubtract2, OnePerIndex
<1> QED
  BY <1>1, UnionSingle DEF TransferBW

-----------------------------------------------------------------------------
\* What is said of one kind depends on the sets of that kind only.
LEMMA SettledStaysBW ==
    ASSUME NEW k, NEW n, prog' = prog, code' = code, In'[k] = In[k], out'[k] = out[k],
           SettledBW(k, n)
    PROVE  SettledBW(k, n)'
<1>1. OutOf(k, n)' = OutOf(k, n)
  BY DEF OutOf
<1>2. TransferBW(k, n, out[k][n])' = TransferBW(k, n, out[k][n])
  BY DEF TransferBW, Survivors
<1> QED
  BY <1>1, <1>2 DEF SettledBW

LEMMA SolvedAtStaysBW ==
    ASSUME NEW k, prog' = prog, code' = code, In'[k] = In[k], out'[k] = out[k], SolvedAtBW(k)
    PROVE  SolvedAtBW(k)'
  BY SettledStaysBW DEF SolvedAtBW

LEMMA StartsTypedBW ==
    StartOnProgram => prog \in Programs /\ code \in [prog.nodes -> Seq(Instrs)] /\ Start
  BY ProgramsAssumption DEF StartOnProgram, WellFormed

LEMMA FixInitBW ==
    prog \in Programs /\ code \in [prog.nodes -> Seq(Instrs)] /\ Start => FixInvBW
<1> SUFFICES ASSUME prog \in Programs, code \in [prog.nodes -> Seq(Instrs)], Start
             PROVE  FixInvBW
  OBVIOUS
<1>1. Shaped
  <2>1. pos \in 1..(Len(prog.order) + 1) /\ kind \in Kinds \cup {"done"}
    BY ProgramsAssumption, VectorOfNodes DEF Start, Kinds
  <2>2. NoSets(prog) = [k \in Kinds |-> [n \in prog.nodes |-> NoSets(prog)[k][n]]]
    BY DEF NoSets
  <2> QED
    BY <2>1, <2>2 DEF Start, Shaped
<1>2. Single /\ OutsideBW
  BY DEF Start, NoSets, Single, OnePerIndex, OutsideBW
<1>3. SweptBW
  <2>1. 1..(pos - 1) = {}
    BY DEF Start
  <2> QED
    BY <2>1 DEF SweptBW
<1>4. FinishedBW
  BY DEF Start, FinishedBW, Solved, Kinds
<1> QED
  BY <1>1, <1>2, <1>3, <1>4 DEF FixInvBW

\* A visit changes the sets of one node and one kind.
LEMMA VisitEffectBW ==
    ASSUME Shaped, VisitBW
    PROVE  LET n == prog.order[pos] IN
           /\ kind \in Kinds /\ n \in prog.nodes /\ n \in InVector(prog)
           /\ out'[kind][n] = OutOf(kind, n)
           /\ In'[kind][n] = TransferBW(kind, n, out'[kind][n])
           /\ \A k \in Kinds, m \in prog.nodes :
                 k # kind \/ m # n => In'[k][m] = In[k][m] /\ out'[k][m] = out[k][m]
           /\ \A k \in Kinds : k # kind => In'[k] = In[k] /\ out'[k] = out[k]
           /\ ~changed' => ~changed /\ In' = In
           /\ Shaped'
<1> DEFINE n == prog.order[pos]
           new == TransferBW(kind, n, OutOf(kind, n))
<1>1. WellFormed(prog)
  BY ProgramsAssumption DEF Shaped
<1>2. kind \in Kinds /\ pos \in 1..Len(prog.order) /\ Len(prog.order) \in Nat
  BY <1>1, VectorOfNodes DEF VisitBW, Looping, Shaped
<1>3. n \in prog.nodes /\ n \in InVector(prog)
  BY <1>1, <1>2, VectorOfNodes
<1>4. /\ out' = [out EXCEPT ![kind][n] = OutOf(kind, n)]
      /\ In' = [In EXCEPT ![kind][n] = new]
      /\ changed' = (changed \/ new # In[kind][n])
      /\ pos' = pos + 1 /\ UNCHANGED <<prog, code, kind>>
  BY DEF VisitBW
<1>5. In'[kind][n] = new /\ out'[kind][n] = OutOf(kind, n)
  BY <1>2, <1>3, <1>4 DEF Shaped
<1>6. /\ \A k \in Kinds, m \in prog.nodes :
            k # kind \/ m # n => In'[k][m] = In[k][m] /\ out'[k][m] = out[k][m]
      /\ \A k \in Kinds : k # kind => In'[k] = In[k] /\ out'[k] = out[k]
  BY <1>2, <1>3, <1>4 DEF Shaped
<1>7. ASSUME ~changed' PROVE ~changed /\ In' = In
  <2>1. ~changed /\ new = In[kind][n]
    BY <1>4, <1>7
  <2>2. [In[kind] EXCEPT ![n] = new] = In[kind]
    <3>1. In[kind] = [m \in prog.nodes |-> In[kind][m]]
      BY <1>2 DEF Shaped
    <3> QED
      BY <2>1, <3>1
  <2>3. In' = [In EXCEPT ![kind] = In[kind]]
    BY <1>4, <2>2
  <2>4. In = [k \in Kinds |-> In[k]]
    BY DEF Shaped
  <2>5. In' = In
    BY <2>3, <2>4
  <2> QED
    BY <2>1, <2>5
<1>8. Shaped'
  <2>1. In' = [k \in Kinds |-> [m \in prog.nodes |-> In'[k][m]]]
    BY <1>2, <1>3, <1>4 DEF Shaped
  <2>2. out' = [k \in Kinds |-> [m \in prog.nodes |-> out'[k][m]]]
    BY <1>2, <1>3, <1>4 DEF Shaped
  <2> QED
    BY <1>2, <1>4, <2>1, <2>2 DEF Shaped
<1> QED
  BY <1>2, <1>3, <1>5, <1>6, <1>7, <1>8

\* A loop is left when the last sweep has settled every node of the vector.
LEMMA FinishSolvesBW == ASSUME FixInvBW, Finish PROVE SolvedAtBW(kind)
<1>1. WellFormed(prog) /\ pos \in 1..(Len(prog.order) + 1)
  BY ProgramsAssumption DEF FixInvBW, Shaped
<1>2. ASSUME NEW n \in InVector(prog) PROVE SettledBW(kind, n)
  <2>1. PICK q \in 1..Len(prog.order) : prog.order[q] = n
    BY <1>1, VectorOfNodes
  <2>2. q \in 1..(pos - 1)
    BY <1>1, VectorOfNodes DEF Finish
  <2> QED
    BY <2>1, <2>2 DEF Finish, Looping, FixInvBW, SweptBW
<1> QED
  BY <1>2 DEF SolvedAtBW, FixInvBW, OutsideBW, Finish, Looping

\* A visit makes sets with one check for each index.
LEMMA VisitSingleBW == ASSUME Shaped, Single, VisitBW PROVE Single'
<1> DEFINE n == prog.order[pos]
<1>1. /\ kind \in Kinds /\ n \in prog.nodes
      /\ out'[kind][n] = OutOf(kind, n)
      /\ In'[kind][n] = TransferBW(kind, n, out'[kind][n])
      /\ \A k \in Kinds, m \in prog.nodes :
            k # kind \/ m # n => In'[k][m] = In[k][m] /\ out'[k][m] = out[k][m]
  BY VisitEffectBW
<1>2. OnePerIndex(out'[kind][n])
  BY <1>1, MeetSingle DEF OutOf, Single
<1>3. OnePerIndex(In'[kind][n])
  BY <1>1, <1>2, TransferSingleBW
<1>4. prog' = prog
  BY DEF VisitBW
<1> SUFFICES ASSUME NEW k \in Kinds, NEW m \in prog.nodes
             PROVE  OnePerIndex(In'[k][m]) /\ OnePerIndex(out'[k][m])
  BY <1>4 DEF Single, OnePerIndex
<1>5. CASE k = kind /\ m = n
  BY <1>2, <1>3, <1>5
<1>6. CASE k # kind \/ m # n
  BY <1>1, <1>6 DEF Single
<1> QED
  BY <1>5, <1>6

LEMMA FixNextBW == FixInvBW /\ [NextBW]_analysis => FixInvBW'
<1> SUFFICES ASSUME FixInvBW, [NextBW]_analysis PROVE FixInvBW'
  OBVIOUS
<1>wf. WellFormed(prog)
  BY ProgramsAssumption DEF FixInvBW, Shaped
<1>len. /\ Len(prog.order) \in Nat /\ pos \in 1..(Len(prog.order) + 1)
        /\ \A q \in 1..Len(prog.order) : prog.order[q] \in prog.nodes
  BY <1>wf, VectorOfNodes DEF FixInvBW, Shaped
<1>1. CASE VisitBW
  <2> DEFINE n == prog.order[pos]
  <2>1. /\ kind \in Kinds /\ n \in prog.nodes /\ n \in InVector(prog)
        /\ out'[kind][n] = OutOf(kind, n)
        /\ In'[kind][n] = TransferBW(kind, n, out'[kind][n])
        /\ \A k \in Kinds, m \in prog.nodes :
              k # kind \/ m # n => In'[k][m] = In[k][m] /\ out'[k][m] = out[k][m]
        /\ \A k \in Kinds : k # kind => In'[k] = In[k] /\ out'[k] = out[k]
        /\ ~changed' => ~changed /\ In' = In
        /\ Shaped'
    BY <1>1, VisitEffectBW DEF FixInvBW
  <2>2. UNCHANGED <<prog, code, kind>> /\ pos' = pos + 1 /\ pos <= Len(prog.order)
    BY <1>1 DEF VisitBW
  <2>3. OutsideBW'
    <3>1. prog.succs[n] = {} => out'[kind][n] = {}
      BY <2>1 DEF FixInvBW, OutsideBW, OutOf
    <3> QED
      BY <2>1, <2>2, <3>1 DEF FixInvBW, OutsideBW
  <2>4. SweptBW'
    <3> SUFFICES ASSUME ~changed', NEW q \in 1..pos
                 PROVE  SettledBW(kind, prog.order[q])'
      BY <2>2, <1>len DEF SweptBW
    <3> DEFINE m == prog.order[q]
    <3>1. In' = In /\ ~changed
      BY <2>1
    <3>2. m \in prog.nodes /\ q \in Int
      BY <1>len, <2>2
    <3>3. CASE m = n
      BY <2>1, <2>2, <3>1, <3>3 DEF SettledBW, OutOf, TransferBW, Survivors
    <3>4. CASE m # n
      <4>1. q \in 1..(pos - 1)
        BY <3>4, <1>len
      <4>2. SettledBW(kind, m)
        BY <4>1, <3>1, <2>1 DEF FixInvBW, SweptBW
      <4> QED
        BY <4>2, <3>1, <3>2, <3>4, <2>1, <2>2 DEF SettledBW, OutOf, TransferBW, Survivors
    <3> QED
      BY <3>3, <3>4
  <2>5. FinishedBW'
    <3> SUFFICES ASSUME NEW k \in Kinds, Solved(k)'
                 PROVE  SolvedAtBW(k)'
      BY DEF FinishedBW
    <3>1. k # kind /\ Solved(k)
      BY <2>1, <2>2 DEF Solved, Kinds
    <3>2. In'[k] = In[k] /\ out'[k] = out[k]
      BY <2>1, <3>1
    <3> QED
      BY <3>1, <3>2, <2>2, SolvedAtStaysBW DEF FixInvBW, FinishedBW
  <2>6. Single'
    BY <1>1, VisitSingleBW DEF FixInvBW
  <2> QED
    BY <2>1, <2>3, <2>4, <2>5, <2>6 DEF FixInvBW
<1>2. CASE Repeat
  <2>1. 1..(pos' - 1) = {}
    BY <1>2 DEF Repeat
  <2>2. OutsideBW' /\ Single' /\ FinishedBW'
    BY <1>2, SolvedAtStaysBW DEF Repeat, FixInvBW, OutsideBW, Single, OnePerIndex,
       FinishedBW, Solved
  <2>3. Shaped'
    BY <1>2, <1>len DEF Repeat, FixInvBW, Shaped
  <2> QED
    BY <2>1, <2>2, <2>3 DEF FixInvBW, SweptBW
<1>3. CASE Finish
  <2>1. 1..(pos' - 1) = {}
    BY <1>3 DEF Finish
  <2>2. SolvedAtBW(kind)
    BY <1>3, FinishSolvesBW
  <2>3. FinishedBW'
    <3> SUFFICES ASSUME NEW k \in Kinds, Solved(k)'
                 PROVE  SolvedAtBW(k)'
      BY DEF FinishedBW
    <3>1. k = kind \/ Solved(k)
      BY <1>3 DEF Finish, Looping, Solved, Kinds
    <3>2. SolvedAtBW(k)
      BY <2>2, <3>1 DEF FixInvBW, FinishedBW
    <3> QED
      BY <3>2, <1>3, SolvedAtStaysBW DEF Finish
  <2>4. OutsideBW' /\ Single'
    BY <1>3 DEF Finish, FixInvBW, OutsideBW, Single, OnePerIndex
  <2>5. Shaped'
    BY <1>3, <1>len DEF Finish, FixInvBW, Shaped, Kinds
  <2> QED
    BY <2>1, <2>3, <2>4, <2>5 DEF FixInvBW, SweptBW
<1>4. CASE CrashBW \/ UNCHANGED analysis
  <2>1. UNCHANGED <<prog, code, kind, pos, changed, In, out>>
    BY <1>4 DEF CrashBW, analysis
  <2>2. OutsideBW' /\ Single' /\ FinishedBW'
    BY <2>1, SolvedAtStaysBW DEF FixInvBW, OutsideBW, Single, OnePerIndex, FinishedBW, Solved
  <2>3. SweptBW'
    <3> SUFFICES ASSUME kind \in Kinds, ~changed, NEW q \in 1..(pos - 1)
                 PROVE  SettledBW(kind, prog.order[q])'
      BY <2>1 DEF SweptBW
    <3>1. SettledBW(kind, prog.order[q])
      BY DEF FixInvBW, SweptBW
    <3> QED
      BY <2>1, <3>1, SettledStaysBW
  <2>4. Shaped'
    BY <2>1 DEF FixInvBW, Shaped
  <2> QED
    BY <2>2, <2>3, <2>4 DEF FixInvBW
<1> QED
  BY <1>1, <1>2, <1>3, <1>4 DEF NextBW, AdvanceBW

-----------------------------------------------------------------------------
\* The instance A has operators of its own; they are the same.
LEMMA SameVectorBW == ASSUME NEW p PROVE Backward!InVector(p) = InVector(p)
  BY DEF Backward!InVector, InVector

LEMMA SameEffectsBW ==
    ASSUME NEW i, NEW v, NEW k
    PROVE  /\ Backward!HasEffect(i, v, Backward!Repairs(k)) = HasEffect(i, v, Repairs(k))
           /\ Backward!isCall(i, k) = isCall(i, k) /\ Backward!CheckOf(i) = CheckOf(i)
<1>1. Backward!getEffect(i) = getEffect(i)
  BY DEF Backward!getEffect, getEffect
<1>2. Backward!Repairs(k) = Repairs(k)
  BY DEF Backward!Repairs, Repairs, Backward!Lowering, Lowering, Backward!Raising, Raising
<1>3. Backward!HasEffect(i, v, Backward!Repairs(k)) = HasEffect(i, v, Repairs(k))
  BY <1>1, <1>2 DEF Backward!HasEffect, HasEffect, Backward!isStoreTo, isStoreTo
<1>4. Backward!isCall(i, k) = isCall(i, k) /\ Backward!CheckOf(i) = CheckOf(i)
  BY DEF Backward!isCall, isCall, Backward!CheckOf, CheckOf
<1> QED
  BY <1>3, <1>4

LEMMA SameGenKillBW ==
    ASSUME NEW c, NEW n, NEW k
    PROVE  /\ Backward!init_gen_bw(c[n], k) = init_gen_bw(c[n], k)
           /\ Backward!init_kill_BW(c, n, k) = init_kill_BW(c, n, k)
<1>1. \A s : Backward!subsumeGen(s) = subsumeGen(s)
  BY DEF Backward!subsumeGen, subsumeGen, Backward!Of, Of, Backward!Cardinality, Cardinality
<1>2. Backward!init_gen_bw(c[n], k) = init_gen_bw(c[n], k)
  BY <1>1, SameEffectsBW DEF Backward!init_gen_bw, init_gen_bw,
     Backward!Untouched, Untouched
<1>3. Backward!Checked(c, k) = Checked(c, k)
  BY SameEffectsBW DEF Backward!Checked, Checked, Backward!Roots, Roots, Backward!Checks, Checks
<1>4. Backward!init_kill_BW(c, n, k) = init_kill_BW(c, n, k)
  BY <1>3, SameEffectsBW DEF Backward!init_kill_BW, init_kill_BW, Backward!KillSet, KillSet
<1> QED
  BY <1>2, <1>4

LEMMA SameOperationsBW ==
    ASSUME NEW a, NEW b
    PROVE  /\ Backward!myintersect2(a) = myintersect2(a)
           /\ Backward!mysubtract2(a, b) = mysubtract2(a, b)
           /\ Backward!myunion2(a, b) = myunion2(a, b)
           /\ Backward!OnePerIndex(a) = OnePerIndex(a)
<1>1. \A s : Backward!Least(s) = Least(s) /\ Backward!Greatest(s) = Greatest(s)
             /\ Backward!Roots(s) = Roots(s)
  BY DEF Backward!Least, Least, Backward!Greatest, Greatest, Backward!Roots, Roots
<1>2. \A v, s : Backward!Of(s, v) = Of(s, v)
  BY DEF Backward!Of, Of
<1>3. \A v, s : Backward!Tighten(v, s) = Tighten(v, s) /\ Backward!Loosen(v, s) = Loosen(v, s)
  BY <1>1 DEF Backward!Tighten, Tighten, Backward!Loosen, Loosen
<1>4. Backward!myintersect2(a) = myintersect2(a)
  BY <1>1, <1>2, <1>3 DEF Backward!myintersect2, myintersect2
<1>5. Backward!mysubtract2(a, b) = mysubtract2(a, b)
  BY <1>1 DEF Backward!mysubtract2, mysubtract2
<1>6. Backward!myunion2(a, b) = myunion2(a, b)
  BY <1>1, <1>2, <1>3 DEF Backward!myunion2, myunion2
<1>7. Backward!OnePerIndex(a) = OnePerIndex(a)
  BY DEF Backward!OnePerIndex, OnePerIndex
<1> QED
  BY <1>4, <1>5, <1>6, <1>7

\* A loop that is over has left a solution of its equations.
LEMMA SolutionBW ==
    ASSUME FixInvBW, NEW k \in Kinds, SolvedAtBW(k)
    PROVE  Backward!IsSolution(k, In[k], out[k])
<1> SUFFICES ASSUME NEW n \in prog.nodes
             PROVE  /\ OnePerIndex(In[k][n]) /\ OnePerIndex(out[k][n])
                    /\ IF n \in InVector(prog)
                       THEN Backward!OutEquation(In[k], out[k], n) /\ Backward!InEquation(k, In[k], out[k], n)
                       ELSE In[k][n] = {} /\ out[k][n] = {}
  BY SameVectorBW, SameOperationsBW DEF Backward!IsSolution
<1>1. IF n \in InVector(prog) THEN SettledBW(k, n) ELSE In[k][n] = {} /\ out[k][n] = {}
  BY DEF SolvedAtBW
<1>2. OnePerIndex(In[k][n]) /\ OnePerIndex(out[k][n])
  BY DEF FixInvBW, Single
<1>3. SettledBW(k, n) => Backward!OutEquation(In[k], out[k], n)
  BY SameOperationsBW DEF SettledBW, OutOf, Backward!OutEquation, FixInvBW, OutsideBW
<1>4. SettledBW(k, n) => Backward!InEquation(k, In[k], out[k], n)
  BY SameGenKillBW, SameOperationsBW DEF SettledBW, TransferBW, Survivors, Backward!InEquation
<1> QED
  BY <1>1, <1>2, <1>3, <1>4

LEMMA RefinesInitBW == StartOnProgram => Backward!Init
  BY DEF StartOnProgram, Start, Solved, Backward!Init, Backward!Kinds, Kinds,
     Backward!Unsolved, Answer

LEMMA RefinesNextBW == FixInvBW /\ [NextBW]_analysis => [Backward!Next]_<<prog, code, Answer>>
<1> SUFFICES ASSUME FixInvBW, [NextBW]_analysis
             PROVE  Backward!Next \/ UNCHANGED <<prog, code, Answer>>
  OBVIOUS
<1>0. UNCHANGED <<prog, code>>
  BY DEF NextBW, AdvanceBW, VisitBW, Repeat, Finish, CrashBW, analysis
<1>1. CASE VisitBW
  <2>1. \A k \in Kinds : Solved(k)' = Solved(k) /\ (Solved(k) => k # kind)
    BY <1>1 DEF VisitBW, Looping, Solved, Kinds
  <2>2. \A k \in Kinds : Solved(k) => In'[k] = In[k] /\ out'[k] = out[k]
    BY <1>1, <2>1, VisitEffectBW DEF FixInvBW
  <2> QED
    BY <1>0, <2>1, <2>2 DEF Answer
<1>2. CASE Finish
  <2>1. kind \in Kinds /\ UNCHANGED <<In, out>>
    BY <1>2 DEF Finish, Looping
  <2>2. Backward!IsSolution(kind, In[kind], out[kind])
    BY <1>2, <2>1, FinishSolvesBW, SolutionBW
  <2>3. CASE kind = "min"
    <3>1. kind' = "max"
      BY <1>2, <2>3 DEF Finish
    <3>2. Backward!Solve("min")
      BY <1>0, <2>1, <2>2, <2>3, <3>1 DEF Backward!Solve, Backward!Unsolved,
         Backward!Kinds, Kinds, Solved, Answer
    <3> QED
      BY <3>2 DEF Backward!Next
  <2>4. CASE kind = "max"
    <3>1. kind' = "done"
      BY <1>2, <2>4 DEF Finish
    <3>2. Backward!Solve("max")
      BY <1>0, <2>1, <2>2, <2>4, <3>1 DEF Backward!Solve, Backward!Unsolved,
         Backward!Kinds, Kinds, Solved, Answer
    <3> QED
      BY <2>4, <3>2 DEF Backward!Next, Backward!Unsolved, Kinds, Solved, Answer
  <2> QED
    BY <2>1, <2>3, <2>4 DEF Kinds
<1>3. CASE Repeat \/ CrashBW \/ UNCHANGED analysis
  <2>1. UNCHANGED <<kind, In, out>>
    BY <1>3 DEF Repeat, CrashBW, analysis
  <2> QED
    BY <1>0, <2>1 DEF Answer, Solved
<1> QED
  BY <1>1, <1>2, <1>3 DEF NextBW, AdvanceBW

\* The sweeps of ComputeBackward, which go against the flow of the facts and
\* read sets of this sweep and of the last one, leave each of the two loops, if
\* it ends, with a solution of its equations in which no set holds two checks
\* of one index.
THEOREM SolvesBackwardEquations == SpecBW => ImplementsAnticipation
<1>1. SpecBW => []FixInvBW
  BY StartsTypedBW, FixInitBW, FixNextBW, PTL DEF SpecBW
<1>2. Backward!Spec <=> Backward!Init /\ [][Backward!Next]_<<prog, code, Answer>>
  BY DEF Backward!Spec, Answer
<1> QED
  BY <1>1, <1>2, RefinesInitBW, RefinesNextBW, PTL DEF SpecBW, ImplementsAnticipation

-----------------------------------------------------------------------------
(***************************************************************************)
(* The sets hold only checks that the code makes: meets and joins choose   *)
(* one of the checks on a variable, since every bottom is 0.               *)
(***************************************************************************)
OwnBW ==
    \A k \in Kinds, n \in prog.nodes :
        In[k][n] \subseteq Checks(code, k) /\ out[k][n] \subseteq Checks(code, k)

LEMMA OwnAlike == ASSUME Shaped, NEW k \in Kinds PROVE Alike(Checks(code, k))
  BY ProgramsAssumption, ChecksAlike DEF Shaped, WellFormed

LEMMA OwnInitBW == Start => OwnBW
  BY DEF Start, NoSets, OwnBW

LEMMA OutOfOwn ==
    ASSUME Shaped, OwnBW, NEW k \in Kinds, NEW n \in prog.nodes
    PROVE  OutOf(k, n) \subseteq Checks(code, k)
<1> DEFINE sets == {In[k][m] : m \in prog.succs[n]}
           K == Checks(code, k)
<1>1. CASE prog.succs[n] = {}
  BY <1>1 DEF OutOf, OwnBW
<1>2. CASE prog.succs[n] # {}
  <2>1. prog.succs[n] \subseteq prog.nodes
    BY ProgramsAssumption DEF Shaped, WellFormed
  <2>2. sets \in SUBSET SUBSET K
    BY <2>1 DEF OwnBW
  <2>3. \A e \in myintersect2(sets) : e \in K
    <3> HIDE DEF sets, K
    <3>1. Alike(K)
      BY OwnAlike DEF K
    <3>2. \A e \in myintersect2(sets) : e \in UNION sets
      BY <2>2, <3>1, MeetMember
    <3> QED
      BY <2>2, <3>2
  <2> QED
    BY <1>2, <2>3 DEF OutOf
<1> QED
  BY <1>1, <1>2

LEMMA TransferOwn ==
    ASSUME Shaped, NEW k \in Kinds, NEW n \in prog.nodes, NEW o \in SUBSET Checks(code, k)
    PROVE  TransferBW(k, n, o) \subseteq Checks(code, k)
<1>1. init_gen_bw(code[n], k) \subseteq Checks(code, k)
  BY GenIsOwn DEF Shaped
<1>2. Survivors(k, n, o) \subseteq Checks(code, k)
  BY DEF Survivors, mysubtract2
<1>3. TransferBW(k, n, o) \subseteq Survivors(k, n, o) \cup init_gen_bw(code[n], k)
  BY <1>1, <1>2, OwnAlike, JoinMember DEF TransferBW
<1> QED
  BY <1>1, <1>2, <1>3

LEMMA OwnNextBW == Shaped /\ OwnBW /\ [NextBW]_analysis => OwnBW'
<1> SUFFICES ASSUME Shaped, OwnBW, [NextBW]_analysis PROVE OwnBW'
  OBVIOUS
<1>1. CASE VisitBW
  <2> DEFINE n == prog.order[pos]
  <2>1. /\ kind \in Kinds /\ n \in prog.nodes
        /\ out'[kind][n] = OutOf(kind, n)
        /\ In'[kind][n] = TransferBW(kind, n, out'[kind][n])
        /\ \A k \in Kinds, m \in prog.nodes :
              k # kind \/ m # n => In'[k][m] = In[k][m] /\ out'[k][m] = out[k][m]
    BY <1>1, VisitEffectBW
  <2>2. OutOf(kind, n) \subseteq Checks(code, kind)
    BY <2>1, OutOfOwn
  <2>3. TransferBW(kind, n, out'[kind][n]) \subseteq Checks(code, kind)
    BY <2>1, <2>2, TransferOwn
  <2>4. UNCHANGED <<prog, code>>
    BY <1>1 DEF VisitBW
  <2> QED
    BY <2>1, <2>2, <2>3, <2>4 DEF OwnBW
<1>2. CASE Repeat \/ Finish \/ CrashBW \/ UNCHANGED analysis
  BY <1>2 DEF Repeat, Finish, CrashBW, analysis, OwnBW
<1> QED
  BY <1>1, <1>2 DEF NextBW, AdvanceBW

\* What the analysis leaves when it is over.
LEMMA DoneAnticipates ==
    FixInvBW /\ OwnBW /\ kind = "done" => Anticipates(prog, code, In["max"], out["max"])
<1> SUFFICES ASSUME FixInvBW, OwnBW, kind = "done", NEW n \in prog.nodes
             PROVE  /\ In["max"][n] \subseteq Checks(code, "max")
                    /\ out["max"][n] \subseteq Checks(code, "max")
                    /\ prog.succs[n] = {} => out["max"][n] = {}
                    /\ IF n \in InVector(prog)
                       THEN /\ prog.succs[n] # {} =>
                                  out["max"][n] = myintersect2({In["max"][m] : m \in prog.succs[n]})
                            /\ In["max"][n] =
                                 myunion2(mysubtract2(out["max"][n], init_kill_BW(code, n, "max")),
                                          init_gen_bw(code[n], "max"))
                       ELSE In["max"][n] = {} /\ out["max"][n] = {}
  BY DEF Anticipates
<1>1. "max" \in Kinds /\ Solved("max")
  BY DEF Kinds, Solved
<1>2. SolvedAtBW("max")
  BY <1>1 DEF FixInvBW, FinishedBW
<1> QED
  BY <1>1, <1>2 DEF SolvedAtBW, SettledBW, OutOf, TransferBW, Survivors, OwnBW, FixInvBW,
     OutsideBW

-----------------------------------------------------------------------------
(***************************************************************************)
(* The sweeps only add checks and strengthen them.  Every in set is within *)
(* what its equation would make of the sets of the moment, and the right-  *)
(* hand sides are monotone, on sets with one check for each index.         *)
(***************************************************************************)
Grown ==
    \A k \in Kinds, n \in prog.nodes : Within(In[k][n], TransferBW(k, n, OutOf(k, n)))

LEMMA TransferMonotoneBW ==
    ASSUME Shaped, NEW k \in Kinds, NEW n \in prog.nodes,
           NEW a \in SUBSET Checks(code, k), NEW b \in SUBSET Checks(code, k), Within(a, b)
    PROVE  Within(TransferBW(k, n, a), TransferBW(k, n, b))
<1>1. init_gen_bw(code[n], k) \subseteq Checks(code, k)
  BY GenIsOwn DEF Shaped
<1>2. Survivors(k, n, a) \subseteq Checks(code, k) /\ Survivors(k, n, b) \subseteq Checks(code, k)
  BY DEF Survivors, mysubtract2
<1>3. Within(Survivors(k, n, a), Survivors(k, n, b))
  BY DEF Survivors, mysubtract2, Within
<1> QED
  BY <1>1, <1>2, <1>3, OwnAlike, JoinMonotone DEF TransferBW

\* A visit takes no check back, nor weakens one.
LEMMA VisitGrowsBW ==
    ASSUME FixInvBW, OwnBW, Grown, VisitBW
    PROVE  /\ \A k \in Kinds, m \in prog.nodes : Within(In[k][m], In'[k][m])
           /\ Grown'
<1> DEFINE n == prog.order[pos]
<1>1. /\ kind \in Kinds /\ n \in prog.nodes
      /\ out'[kind][n] = OutOf(kind, n)
      /\ In'[kind][n] = TransferBW(kind, n, out'[kind][n])
      /\ \A k \in Kinds, m \in prog.nodes :
            k # kind \/ m # n => In'[k][m] = In[k][m] /\ out'[k][m] = out[k][m]
      /\ Shaped'
  BY VisitEffectBW DEF FixInvBW
<1>2. UNCHANGED <<prog, code>> /\ Shaped /\ Single /\ Single' /\ OwnBW'
  BY VisitSingleBW, OwnNextBW DEF VisitBW, FixInvBW, NextBW, AdvanceBW
<1>3. \A k \in Kinds : Alike(Checks(code, k)) /\ Checks(code, k) \subseteq AllChecks
  BY <1>2, OwnAlike DEF Alike
<1>4. \A k \in Kinds, m \in prog.nodes :
         In[k][m] \subseteq Checks(code, k) /\ In'[k][m] \subseteq Checks(code, k)
  BY <1>2 DEF OwnBW
<1>5. \A k \in Kinds, m \in prog.nodes : Within(In[k][m], In'[k][m])
  <2> SUFFICES ASSUME NEW k \in Kinds, NEW m \in prog.nodes PROVE Within(In[k][m], In'[k][m])
    OBVIOUS
  <2>1. CASE k = kind /\ m = n
    BY <1>1, <2>1 DEF Grown
  <2>2. CASE k # kind \/ m # n
    <3>1. In'[k][m] = In[k][m] /\ In[k][m] \subseteq AllChecks
      BY <1>1, <1>3, <1>4, <2>2
    <3> QED
      BY <3>1, WithinSelf
  <2> QED
    BY <2>1, <2>2
<1>6. ASSUME NEW k \in Kinds, NEW m \in prog.nodes
      PROVE  Within(In'[k][m], TransferBW(k, m, OutOf(k, m)'))
  <2>1. OutOf(k, m) \subseteq Checks(code, k) /\ OutOf(k, m)' \subseteq Checks(code, k)
    <3>1. OutOf(k, m) \subseteq Checks(code, k)
      BY <1>2, OutOfOwn
    <3>2. OutOf(k, m)' \subseteq Checks(code', k)
      <4>1. CASE prog.succs[m] = {}
        BY <1>2, <4>1 DEF OutOf, OwnBW
      <4>2. CASE prog.succs[m] # {}
        <5> DEFINE sets == {In'[k][l] : l \in prog.succs[m]}
                   K == Checks(code, k)
        <5>1. prog.succs[m] \subseteq prog.nodes
          BY <1>2, ProgramsAssumption DEF Shaped, WellFormed
        <5>2. sets \in SUBSET SUBSET K
          BY <1>4, <5>1
        <5>3. \A e \in myintersect2(sets) : e \in K
          <6> HIDE DEF sets, K
          <6>1. Alike(K)
            BY <1>3 DEF K
          <6>2. \A e \in myintersect2(sets) : e \in UNION sets
            BY <5>2, <6>1, MeetMember
          <6> QED
            BY <5>2, <6>2
        <5> QED
          BY <1>2, <4>2, <5>3 DEF OutOf
      <4> QED
        BY <4>1, <4>2
    <3> QED
      BY <1>2, <3>1, <3>2
  <2>2. Within(OutOf(k, m), OutOf(k, m)')
    <3>1. CASE prog.succs[m] = {}
      <4>1. OutOf(k, m) = out[k][m] /\ OutOf(k, m)' = out'[k][m]
        BY <1>2, <3>1 DEF OutOf
      <4>2. out'[k][m] = out[k][m]
        <5>1. CASE k = kind /\ m = n
          BY <1>1, <4>1, <5>1
        <5>2. CASE k # kind \/ m # n
          BY <1>1, <5>2
        <5> QED
          BY <5>1, <5>2
      <4>3. OutOf(k, m)' = OutOf(k, m) /\ OutOf(k, m) \subseteq AllChecks
        BY <1>3, <2>1, <4>1, <4>2
      <4> QED
        BY <4>3, WithinSelf
    <3>2. CASE prog.succs[m] # {}
      <4>1. prog.succs[m] \subseteq prog.nodes
        BY <1>2, ProgramsAssumption DEF Shaped, WellFormed
      <4> DEFINE A == {In[k][l] : l \in prog.succs[m]}
                 B == {In'[k][l] : l \in prog.succs[m]}
                 K == Checks(code, k)
      <4>2. A \in SUBSET SUBSET K /\ B \in SUBSET SUBSET K /\ B # {}
        BY <1>4, <3>2, <4>1
      <4>3. \A t \in B : OnePerIndex(t) /\ \E s \in A : Within(s, t)
        BY <1>2, <1>5, <4>1 DEF Single, OnePerIndex
      <4>4. Within(myintersect2(A), myintersect2(B))
        <5>1. Alike(K)
          BY <1>3
        <5> HIDE DEF A, B, K
        <5> QED
          BY <4>2, <4>3, <5>1, MeetMonotone
      <4> QED
        BY <1>2, <3>2, <4>4 DEF OutOf
    <3> QED
      BY <3>1, <3>2
  <2>3. Within(TransferBW(k, m, OutOf(k, m)), TransferBW(k, m, OutOf(k, m)'))
    BY <1>2, <2>1, <2>2, TransferMonotoneBW
  <2>4. Within(In'[k][m], TransferBW(k, m, OutOf(k, m)))
    <3>1. CASE k = kind /\ m = n
      <4>1. In'[k][m] = TransferBW(k, m, OutOf(k, m))
        BY <1>1, <3>1
      <4>2. In'[k][m] \subseteq AllChecks
        BY <1>3, <1>4
      <4> QED
        BY <4>1, <4>2, WithinSelf
    <3>2. CASE k # kind \/ m # n
      BY <1>1, <3>2 DEF Grown
    <3> QED
      BY <3>1, <3>2
  <2>5. /\ TransferBW(k, m, OutOf(k, m)) \subseteq AllChecks
        /\ TransferBW(k, m, OutOf(k, m)') \subseteq AllChecks
        /\ In'[k][m] \subseteq AllChecks
    BY <1>2, <1>3, <1>4, <2>1, TransferOwn
  <2> QED
    BY <2>3, <2>4, <2>5, WithinTransitive
<1>7. Grown'
  <2>1. \A k, m : TransferBW(k, m, OutOf(k, m))' = TransferBW(k, m, OutOf(k, m)')
    BY <1>2 DEF TransferBW, Survivors
  <2> QED
    BY <1>2, <1>6, <2>1 DEF Grown, Within
<1> QED
  BY <1>5, <1>7

LEMMA GrownInit == Start => Grown
  BY DEF Start, NoSets, Grown, Within

LEMMA GrownNext == FixInvBW /\ OwnBW /\ Grown /\ [NextBW]_analysis => Grown'
<1> SUFFICES ASSUME FixInvBW, OwnBW, Grown, [NextBW]_analysis PROVE Grown'
  OBVIOUS
<1>1. CASE VisitBW
  BY <1>1, VisitGrowsBW
<1>2. CASE Repeat \/ Finish \/ CrashBW \/ UNCHANGED analysis
  <2>1. UNCHANGED <<prog, code, In, out>>
    BY <1>2 DEF Repeat, Finish, CrashBW, analysis
  <2>2. \A k, n : TransferBW(k, n, OutOf(k, n))' = TransferBW(k, n, OutOf(k, n))
    BY <2>1 DEF TransferBW, Survivors, OutOf
  <2> QED
    BY <2>1, <2>2 DEF Grown, Within
<1> QED
  BY <1>1, <1>2 DEF NextBW, AdvanceBW

\* Once a check on a variable is anticipated at a node, a check on it stays
\* anticipated there, and can only become stronger: what the sweeps have found
\* is never given up, although killing removes checks and meets weaken them.
THEOREM SweepsStrengthen == SpecBW => Strengthens
<1> DEFINE Step == \A k \in Kinds, n \in prog.nodes : \A c \in In[k][n] :
                      \E d \in In'[k][n] : /\ d.realindex = c.realindex
                                           /\ d.top_limit <= c.top_limit
                                           /\ d.bottom_limit >= c.bottom_limit
           Inv == FixInvBW /\ OwnBW /\ Grown
<1>1. StartOnProgram => Inv
  BY StartsTypedBW, FixInitBW, OwnInitBW, GrownInit
<1>2. Inv /\ [NextBW]_analysis => Inv'
  BY FixNextBW, OwnNextBW, GrownNext DEF FixInvBW
<1>3. ASSUME Inv, [NextBW]_analysis PROVE [Step]_analysis
  <2> SUFFICES ASSUME NextBW, NEW k \in Kinds, NEW n \in prog.nodes, NEW c \in In[k][n]
               PROVE  \E d \in In'[k][n] : /\ d.realindex = c.realindex
                                           /\ d.top_limit <= c.top_limit
                                           /\ d.bottom_limit >= c.bottom_limit
    BY <1>3
  <2>1. Within(In[k][n], In'[k][n])
    <3>1. CASE VisitBW
      BY <1>3, <3>1, VisitGrowsBW
    <3>2. CASE Repeat \/ Finish \/ CrashBW
      <4>1. In' = In
        BY <3>2 DEF Repeat, Finish, CrashBW
      <4>2. In[k][n] \subseteq AllChecks
        BY <1>3, OwnAlike DEF OwnBW, Alike, FixInvBW
      <4> QED
        BY <4>1, <4>2, WithinSelf
    <3> QED
      BY <3>1, <3>2 DEF NextBW, AdvanceBW
  <2>2. PICK d \in In'[k][n] : d.realindex = c.realindex /\ d.top_limit <= c.top_limit
    BY <2>1 DEF Within
  <2>3. c.bottom_limit = 0 /\ d.bottom_limit = 0
    <3>1. OwnBW' /\ UNCHANGED <<prog, code>>
      BY <1>2, <1>3 DEF NextBW, AdvanceBW, VisitBW, Repeat, Finish, CrashBW
    <3>2. c \in Checks(code, k) /\ d \in Checks(code, k)
      BY <1>3, <3>1 DEF OwnBW
    <3> QED
      BY <1>3, <3>2, OwnAlike DEF Alike, FixInvBW
  <2> QED
    BY <2>2, <2>3
<1> QED
  BY <1>1, <1>2, <1>3, PTL DEF SpecBW, Strengthens

-----------------------------------------------------------------------------
(***************************************************************************)
(* Where a run is, and what a step of it does.                             *)
(***************************************************************************)
RunsCode == WellFormed(prog) /\ code \in [prog.nodes -> Seq(Instrs)]

Place ==
    /\ node \in prog.nodes /\ idx \in 1..(Len(code[node]) + 1)
    /\ env \in [Vars -> Int] /\ reg \in [Tmps -> Int]
    /\ status = "ready" => node = prog.entry /\ idx = 1

LEMMA EntryIsNode == ASSUME WellFormed(prog) PROVE prog.entry \in prog.nodes
  BY VectorOfNodes DEF WellFormed

LEMMA PlaceInit == ASSUME RunsCode, Ready(prog) PROVE Place
<1>1. prog.entry \in prog.nodes /\ code[prog.entry] \in Seq(Instrs)
  BY EntryIsNode DEF RunsCode
<1>2. Len(code[prog.entry]) \in Nat
  BY <1>1
<1> QED
  BY <1>1, <1>2 DEF Ready, Place

\* The instruction that is executed next.
LEMMA CurrentInstr ==
    ASSUME RunsCode, Place, AtInstr
    PROVE  /\ code[node] \in Seq(Instrs) /\ Len(code[node]) \in Nat
           /\ idx \in DOMAIN code[node] /\ idx \in 1..Len(code[node])
           /\ code[node][idx] \in Instrs
           /\ idx + 1 \in 1..(Len(code[node]) + 1)
<1>1. code[node] \in Seq(Instrs)
  BY DEF Place, RunsCode
<1>2. idx \in 1..Len(code[node])
  BY <1>1 DEF AtInstr, Place
<1> QED
  BY <1>1, <1>2

LEMMA LoadEffect ==
    ASSUME RunsCode, Place, Load
    PROVE  LET i == code[node][idx] IN
           /\ i \in Loads /\ i.op = "load" /\ i.tmp \in Tmps /\ i.var \in Vars
           /\ idx \in 1..Len(code[node]) /\ Len(code[node]) \in Nat /\ Running
           /\ reg' = [reg EXCEPT ![i.tmp] = env[i.var]] /\ idx' = idx + 1
           /\ UNCHANGED <<program, status, node, env, trapped>>
<1> DEFINE i == code[node][idx]
<1>1. idx \in 1..Len(code[node]) /\ Len(code[node]) \in Nat /\ i \in Instrs /\ i.op = "load"
  BY CurrentInstr DEF Load
<1>2. i \in Loads
  BY <1>1 DEF Instrs, Stores, Calls, Other
<1> QED
  BY <1>1, <1>2 DEF Load, Loads

LEMMA StoreEffect ==
    ASSUME RunsCode, Place, Store
    PROVE  LET s == code[node][idx] IN
           /\ s \in Stores /\ s.op = "store" /\ s.var \in Vars /\ s.base \in Vars
           /\ idx \in 1..Len(code[node]) /\ Len(code[node]) \in Nat /\ Running
           /\ \E x \in Int : /\ x \in Outcomes(s, env[s.base])
                             /\ env' = [env EXCEPT ![s.var] = x]
           /\ idx' = idx + 1
           /\ UNCHANGED <<program, status, node, reg, trapped>>
<1> DEFINE s == code[node][idx]
<1>1. idx \in 1..Len(code[node]) /\ Len(code[node]) \in Nat /\ s \in Instrs /\ s.op = "store"
  BY CurrentInstr DEF Store
<1>2. s \in Stores
  BY <1>1 DEF Instrs, Loads, Calls, Other
<1>3. PICK x \in Results(s) : env' = [env EXCEPT ![s.var] = x]
  BY DEF Store
<1>4. x \in Int /\ x \in Outcomes(s, env[s.base])
  BY <1>3, ValuesAssumption DEF Results
<1> QED
  BY <1>1, <1>2, <1>3, <1>4 DEF Store, Stores

LEMMA BranchEffect ==
    ASSUME RunsCode, Place, Branch
    PROVE  /\ idx = Len(code[node]) + 1 /\ node' \in prog.nodes
           /\ node' \in prog.succs[node] /\ idx' = 1 /\ Len(code[node']) \in Nat
           /\ Running /\ UNCHANGED <<program, status, env, reg, trapped>>
<1>1. code[node] \in Seq(Instrs) /\ node' \in prog.succs[node]
  BY DEF RunsCode, Place, Branch
<1>2. node' \in prog.nodes
  BY <1>1 DEF RunsCode, WellFormed, Place
<1>3. code[node'] \in Seq(Instrs)
  BY <1>2 DEF RunsCode
<1>4. idx = Len(code[node]) + 1
  BY <1>1 DEF Branch, AtInstr, Place
<1> QED
  BY <1>1, <1>2, <1>3, <1>4 DEF Branch

\* A run stays in the code, which it does not change.
LEMMA PlaceNext == ASSUME RunsCode, Place, RunNext PROVE Place' /\ UNCHANGED program
<1>1. CASE Launch
  BY <1>1, ValuesAssumption DEF Launch, Place, program
<1>2. CASE Load
  BY <1>2, LoadEffect DEF Place, program, Running
<1>3. CASE Store
  <2> DEFINE s == code[node][idx]
  <2>1. PICK x \in Int : env' = [env EXCEPT ![s.var] = x]
    BY <1>3, StoreEffect
  <2> QED
    BY <1>3, <2>1, StoreEffect DEF Place, program, Running
<1>4. CASE Check
  BY <1>4, CurrentInstr DEF Check, Place, program, Running
<1>5. CASE Branch
  BY <1>5, BranchEffect DEF Place, program, Running
<1>6. CASE Undefined \/ Return
  BY <1>6 DEF Undefined, Return, Place, program
<1> QED
  BY <1>1, <1>2, <1>3, <1>4, <1>5, <1>6 DEF RunNext

-----------------------------------------------------------------------------
(***************************************************************************)
(* What the sets of the backward analysis say of a run.  They are those of *)
(* some instructions c, of which the run need not execute all the calls:   *)
(* they have the loads and stores of the function, at the same places, and *)
(* no calls but its own.                                                   *)
(***************************************************************************)
SameSteps(c) ==
    /\ c \in [prog.nodes -> Seq(Instrs)]
    /\ \A n \in prog.nodes :
          /\ Len(c[n]) = Len(prog.code[n])
          /\ \A j \in 1..Len(c[n]) :
                c[n][j].op \in {"load", "store"} \/ prog.code[n][j].op \in {"load", "store"}
                    => c[n][j] = prog.code[n][j]

Fewer(c) ==
    /\ SameSteps(c)
    /\ \A n \in prog.nodes : \A j \in 1..Len(c[n]) :
          c[n][j].op = "call" => c[n][j] = prog.code[n][j]

Beyond(check, e) == e[check.realindex] >= check.top_limit

\* For a run at place i of node n, with variables e and registers r: a call of
\* the node is to come that will fail.  Its value has been loaded already, or
\* will be loaded before a store repairs the violation.
CallToCome(c, n, i, e, r) ==
    \E j \in i..Len(c[n]) : \E l \in 1..(j - 1) :
        /\ isCall(c[n][j], "max") /\ Loaded(prog.code[n], l, j)
        /\ Untouched(c[n], c[n][j].root, Repairs("max"), i, l)
        /\ IF l >= i THEN e[c[n][j].root] >= c[n][j].top ELSE r[c[n][j].tmp] >= c[n][j].top

\* Or a check anticipated at the end of the node fails, and will until there.
EndToCome(c, O, n, i, e) ==
    \E check \in O[n] :
        /\ Beyond(check, e)
        /\ Untouched(c[n], check.realindex, Repairs("max"), i, Len(c[n]))

Debt(c, O, n, i, e, r) == CallToCome(c, n, i, e, r) \/ EndToCome(c, O, n, i, e)

\* A check of c that fails at the beginning of a node is owed.
LEMMA DebtArises ==
    ASSUME WellFormed(prog), NEW n \in prog.nodes, NEW e, NEW r,
           NEW c, Fewer(c), NEW I, NEW O, Anticipates(prog, c, I, O),
           LoadedHere(prog), ScanComplete(prog),
           NEW check \in I[n], Beyond(check, e)
    PROVE  Debt(c, O, n, 1, e, r)
<1> DEFINE K == Checks(c, "max")
           left == mysubtract2(O[n], init_kill_BW(c, n, "max"))
           gen == init_gen_bw(c[n], "max")
<1>1. c \in [prog.nodes -> Seq(Instrs)] /\ "max" \in Kinds
  BY DEF Fewer, SameSteps, Kinds
<1>2. c[n] \in Seq(Instrs) /\ Len(c[n]) \in Nat /\ DOMAIN c[n] = 1..Len(c[n])
  BY <1>1
<1>3. n \in InVector(prog) /\ I[n] = myunion2(left, gen) /\ O[n] \subseteq K
  BY <1>1 DEF Anticipates
<1>4. check \in left \cup gen
  <2>1. Alike(K)
    BY <1>1, ChecksAlike DEF WellFormed
  <2>2. gen \in SUBSET K /\ left \in SUBSET K
    BY <1>1, <1>3, GenIsOwn DEF mysubtract2
  <2>3. myunion2(left, gen) \subseteq left \cup gen
    <3> HIDE DEF K, left, gen
    <3> QED
      BY <2>1, <2>2, JoinMember
  <2> QED
    BY <1>3, <2>3
<1>5. CASE check \in gen
  <2>1. PICK j \in 1..Len(c[n]) :
           /\ isCall(c[n][j], "max") /\ check = CheckOf(c[n][j])
           /\ Untouched(c[n], c[n][j].root, Repairs("max"), 2, j)
    BY <1>2, <1>5 DEF init_gen_bw, subsumeGen
  <2> DEFINE i == c[n][j]
  <2>2. i = prog.code[n][j] /\ j \in DOMAIN prog.code[n]
        /\ Len(prog.code[n]) = Len(c[n]) /\ i.op = "call"
    <3>1. Len(prog.code[n]) = Len(c[n]) /\ i.op = "call" /\ i = prog.code[n][j]
      BY <1>1, <2>1 DEF Fewer, SameSteps, isCall
    <3>2. DOMAIN prog.code[n] = 1..Len(prog.code[n])
      BY <1>1 DEF WellFormed
    <3> QED
      BY <3>1, <3>2
  <2>3. PICK l \in 1..(j - 1) : Loaded(prog.code[n], l, j)
    BY <1>1, <2>2 DEF LoadedHere
  <2>4. Untouched(c[n], i.root, Repairs("max"), 1, l)
    <3>1. ~HasEffect(prog.code[n][1], i.root, Repairs("max"))
      <4>1. Untouched(prog.code[n], prog.code[n][j].root, Repairs("max"), 1, 1)
        BY <1>1, <2>1, <2>2 DEF ScanComplete
      <4> QED
        BY <2>2, <4>1 DEF Untouched
    <3>2. ~HasEffect(c[n][1], i.root, Repairs("max"))
      BY <1>1, <2>1, <3>1 DEF Fewer, SameSteps, HasEffect, isStoreTo
    <3> QED
      BY <2>1, <3>2 DEF Untouched
  <2>5. e[i.root] >= i.top
    BY <2>1 DEF Beyond, CheckOf
  <2>6. j \in 1..Len(c[n]) /\ l >= 1
    BY <1>2, <2>1
  <2> QED
    BY <2>1, <2>3, <2>4, <2>5, <2>6 DEF Debt, CallToCome
<1>6. CASE check \in left
  <2>1. check \in O[n] /\ check.realindex \notin Roots(init_kill_BW(c, n, "max"))
    BY <1>6 DEF mysubtract2
  <2>2. check.realindex \in Checked(c, "max")
    BY <1>3, <2>1 DEF Checked, Roots
  <2>3. \A m \in DOMAIN c[n] : ~HasEffect(c[n][m], check.realindex, Repairs("max"))
    <3> SUFFICES ASSUME NEW m \in DOMAIN c[n],
                        HasEffect(c[n][m], check.realindex, Repairs("max"))
                 PROVE  FALSE
      OBVIOUS
    <3> DEFINE killed ==
                  [realindex |-> check.realindex, bottom_limit |-> 0, top_limit |-> 0]
    <3>1. killed \in init_kill_BW(c, n, "max")
      BY <2>2 DEF init_kill_BW, KillSet
    <3>2. killed.realindex \in Roots(init_kill_BW(c, n, "max"))
      BY <3>1 DEF Roots
    <3> QED
      BY <2>1, <3>2
  <2>4. Untouched(c[n], check.realindex, Repairs("max"), 1, Len(c[n]))
    BY <1>2, <2>3 DEF Untouched
  <2> QED
    BY <2>1, <2>4 DEF Debt, EndToCome
<1> QED
  BY <1>4, <1>5, <1>6

LEMMA LoadKeepsDebt ==
    ASSUME RunsCode, Place, SameSteps(code), Load, NEW c, Fewer(c), NEW O,
           O[node] \subseteq AllChecks, Debt(c, O, node, idx, env, reg)
    PROVE  Debt(c, O, node, idx + 1, env, reg')
<1> DEFINE i == c[node][idx]
           d == c[node]
<1>1. /\ i.op = "load" /\ i.tmp \in Tmps /\ i = prog.code[node][idx]
      /\ idx \in 1..Len(d) /\ Len(d) \in Nat
      /\ reg' = [reg EXCEPT ![i.tmp] = env[i.var]] /\ reg \in [Tmps -> Int]
  <2>1. /\ code[node][idx].op = "load" /\ code[node][idx].tmp \in Tmps
        /\ idx \in 1..Len(code[node]) /\ Len(code[node]) \in Nat
        /\ reg' = [reg EXCEPT ![code[node][idx].tmp] = env[code[node][idx].var]]
    BY LoadEffect
  <2>2. code[node][idx] = prog.code[node][idx] /\ Len(d) = Len(code[node])
    BY <2>1 DEF SameSteps, Fewer, Place
  <2>3. i = prog.code[node][idx]
    BY <2>1, <2>2 DEF SameSteps, Fewer, Place
  <2> QED
    BY <2>1, <2>2, <2>3 DEF Place
<1>2. CASE EndToCome(c, O, node, idx, env)
  BY <1>1, <1>2 DEF Debt, EndToCome, Untouched
<1>3. CASE CallToCome(c, node, idx, env, reg)
  <2>1. PICK j \in idx..Len(d) : \E l \in 1..(j - 1) :
           /\ isCall(d[j], "max") /\ Loaded(prog.code[node], l, j)
           /\ Untouched(d, d[j].root, Repairs("max"), idx, l)
           /\ IF l >= idx THEN env[d[j].root] >= d[j].top ELSE reg[d[j].tmp] >= d[j].top
    BY <1>3 DEF CallToCome
  <2>2. PICK l \in 1..(j - 1) :
           /\ isCall(d[j], "max") /\ Loaded(prog.code[node], l, j)
           /\ Untouched(d, d[j].root, Repairs("max"), idx, l)
           /\ IF l >= idx THEN env[d[j].root] >= d[j].top ELSE reg[d[j].tmp] >= d[j].top
    BY <2>1
  <2>3. j \in (idx + 1)..Len(d) /\ j \in Int /\ l \in Int /\ idx \in Int
    BY <1>1, <2>2 DEF isCall
  <2>4. Untouched(d, d[j].root, Repairs("max"), idx + 1, l)
    BY <2>2, <2>3 DEF Untouched
  <2>5. /\ d[j] = prog.code[node][j] /\ prog.code[node][l] = load(d[j].tmp, d[j].root)
        /\ \A m \in (l + 1)..(j - 1) : ~isLoadInto(prog.code[node][m], d[j].tmp)
    <3>1. d[j] = prog.code[node][j]
      BY <2>1, <2>2 DEF Fewer, isCall, Place
    <3> QED
      BY <2>2, <3>1 DEF Loaded
  <2>6. IF l >= idx + 1 THEN env[d[j].root] >= d[j].top ELSE reg'[d[j].tmp] >= d[j].top
    <3>1. CASE l > idx
      BY <2>2, <2>3, <3>1
    <3>2. CASE l = idx
      <4>1. i.tmp = d[j].tmp /\ i.var = d[j].root
        BY <1>1, <2>5, <3>2 DEF load
      <4> QED
        BY <1>1, <2>2, <2>3, <3>2, <4>1
    <3>3. CASE l < idx
      <4>1. idx \in (l + 1)..(j - 1)
        BY <2>3, <3>3
      <4>2. i.tmp # d[j].tmp
        BY <1>1, <2>5, <4>1 DEF isLoadInto
      <4>3. reg'[d[j].tmp] = reg[d[j].tmp]
        <5>1. d[j].tmp \in Tmps
          <6>1. d \in Seq(Instrs) /\ j \in DOMAIN d /\ d[j].op = "call"
            BY <1>1, <2>2, <2>3 DEF Fewer, SameSteps, Place, isCall
          <6> QED
            BY <6>1, CheckOfType DEF Calls
        <5> QED
          BY <1>1, <4>2, <5>1
      <4> QED
        BY <2>2, <2>3, <3>3, <4>3
    <3> QED
      BY <2>3, <3>1, <3>2, <3>3
  <2> QED
    BY <2>2, <2>3, <2>4, <2>6 DEF Debt, CallToCome
<1> QED
  BY <1>2, <1>3 DEF Debt

LEMMA StoreKeepsDebt ==
    ASSUME RunsCode, Place, SameSteps(code), Store, NEW c, Fewer(c), NEW O,
           O[node] \subseteq Checks(c, "max"), Debt(c, O, node, idx, env, reg)
    PROVE  Debt(c, O, node, idx + 1, env', reg)
<1> DEFINE s == c[node][idx]
           d == c[node]
<1>1. /\ s \in Stores /\ s.op = "store" /\ s = prog.code[node][idx]
      /\ idx \in 1..Len(d) /\ Len(d) \in Nat /\ idx \in Int
      /\ env \in [Vars -> Int]
      /\ \E x \in Int : x \in Outcomes(s, env[s.base]) /\ env' = [env EXCEPT ![s.var] = x]
  <2> DEFINE t == code[node][idx]
  <2>1. /\ t \in Stores /\ t.op = "store" /\ idx \in 1..Len(code[node]) /\ Len(code[node]) \in Nat
        /\ \E x \in Int : x \in Outcomes(t, env[t.base]) /\ env' = [env EXCEPT ![t.var] = x]
    BY StoreEffect
  <2>2. t = prog.code[node][idx] /\ Len(d) = Len(code[node])
    BY <2>1 DEF SameSteps, Fewer, Place
  <2>3. s = prog.code[node][idx]
    BY <2>1, <2>2 DEF SameSteps, Fewer, Place
  <2>4. s = t /\ env \in [Vars -> Int] /\ idx \in Int
    BY <2>2, <2>3 DEF Place
  <2> HIDE DEF s, t
  <2> QED
    BY <2>1, <2>2, <2>3, <2>4
<1>2. PICK x \in Outcomes(s, env[s.base]) : env' = [env EXCEPT ![s.var] = x]
  BY <1>1
<1>3. ASSUME NEW v \in Vars, NEW t \in Nat, ~HasEffect(s, v, Repairs("max")), env[v] >= t
      PROVE  env'[v] >= t
  BY <1>1, <1>2, <1>3, StoreKeepsViolation
<1>4. CASE EndToCome(c, O, node, idx, env)
  <2>1. PICK check \in O[node] :
           /\ Beyond(check, env)
           /\ Untouched(d, check.realindex, Repairs("max"), idx, Len(d))
    BY <1>4 DEF EndToCome
  <2>2. check.realindex \in Vars /\ check.top_limit \in Nat
    <3>1. c \in [prog.nodes -> Seq(Instrs)] /\ check \in Checks(c, "max") /\ "max" \in Kinds
      BY DEF Fewer, SameSteps, Kinds
    <3> QED
      BY <3>1, OwnCheck DEF AllChecks, LightCheck
  <2>3. Beyond(check, env')
    BY <1>1, <1>3, <2>1, <2>2 DEF Beyond, Untouched
  <2>4. Untouched(d, check.realindex, Repairs("max"), idx + 1, Len(d))
    BY <1>1, <2>1 DEF Untouched
  <2> QED
    BY <2>3, <2>4 DEF Debt, EndToCome
<1>5. CASE CallToCome(c, node, idx, env, reg)
  <2>1. PICK j \in idx..Len(d) : \E l \in 1..(j - 1) :
           /\ isCall(d[j], "max") /\ Loaded(prog.code[node], l, j)
           /\ Untouched(d, d[j].root, Repairs("max"), idx, l)
           /\ IF l >= idx THEN env[d[j].root] >= d[j].top ELSE reg[d[j].tmp] >= d[j].top
    BY <1>5 DEF CallToCome
  <2>2. PICK l \in 1..(j - 1) :
           /\ isCall(d[j], "max") /\ Loaded(prog.code[node], l, j)
           /\ Untouched(d, d[j].root, Repairs("max"), idx, l)
           /\ IF l >= idx THEN env[d[j].root] >= d[j].top ELSE reg[d[j].tmp] >= d[j].top
    BY <2>1
  <2>3. j \in (idx + 1)..Len(d) /\ j \in Int /\ l \in Int
    BY <1>1, <2>2 DEF isCall
  <2>4. Untouched(d, d[j].root, Repairs("max"), idx + 1, l)
    BY <1>1, <2>2, <2>3 DEF Untouched
  <2>5. l # idx
    <3>1. prog.code[node][l].op = "load"
      BY <2>2 DEF Loaded, load
    <3> QED
      BY <1>1, <3>1
  <2>6. d[j].root \in Vars /\ d[j].top \in Nat
    <3>1. d \in Seq(Instrs) /\ j \in DOMAIN d /\ d[j].op = "call"
      BY <1>1, <2>2, <2>3 DEF Fewer, SameSteps, Place, isCall
    <3> QED
      BY <3>1, CheckOfType DEF Calls
  <2>7. IF l >= idx + 1 THEN env'[d[j].root] >= d[j].top ELSE reg[d[j].tmp] >= d[j].top
    <3>1. CASE l > idx
      BY <1>1, <1>3, <2>2, <2>3, <2>6, <3>1 DEF Untouched
    <3>2. CASE l < idx
      BY <1>1, <2>2, <2>3, <3>2
    <3> QED
      BY <1>1, <2>3, <2>5, <3>1, <3>2
  <2> QED
    BY <2>2, <2>3, <2>4, <2>7 DEF Debt, CallToCome
<1> QED
  BY <1>4, <1>5 DEF Debt

\* A call that is passed was not the one to come.
LEMMA CheckKeepsDebt ==
    ASSUME RunsCode, Place, SameSteps(code), Check, status' = "running", NEW c, Fewer(c), NEW O,
           O[node] \subseteq Checks(c, "max"), Debt(c, O, node, idx, env, reg)
    PROVE  Debt(c, O, node, idx + 1, env, reg)
<1> DEFINE d == c[node]
<1>1. /\ idx \in 1..Len(d) /\ Len(d) \in Nat /\ idx \in Int
      /\ prog.code[node][idx].op \notin {"load", "store"} /\ ~Fails(prog.code[node][idx])
  <2>1. idx \in 1..Len(code[node]) /\ Len(code[node]) \in Nat
    BY CurrentInstr DEF Check
  <2>2. Len(d) = Len(code[node])
    BY DEF SameSteps, Fewer, Place
  <2> QED
    BY <2>1, <2>2 DEF Check
<1>4. CASE EndToCome(c, O, node, idx, env)
  BY <1>1, <1>4 DEF Debt, EndToCome, Untouched
<1>5. CASE CallToCome(c, node, idx, env, reg)
  <2>1. PICK j \in idx..Len(d) : \E l \in 1..(j - 1) :
           /\ isCall(d[j], "max") /\ Loaded(prog.code[node], l, j)
           /\ Untouched(d, d[j].root, Repairs("max"), idx, l)
           /\ IF l >= idx THEN env[d[j].root] >= d[j].top ELSE reg[d[j].tmp] >= d[j].top
    BY <1>5 DEF CallToCome
  <2>2. PICK l \in 1..(j - 1) :
           /\ isCall(d[j], "max") /\ Loaded(prog.code[node], l, j)
           /\ Untouched(d, d[j].root, Repairs("max"), idx, l)
           /\ IF l >= idx THEN env[d[j].root] >= d[j].top ELSE reg[d[j].tmp] >= d[j].top
    BY <2>1
  <2>3. j \in Int /\ l \in Int
    BY <1>1
  <2>4. l # idx
    <3>1. prog.code[node][l].op = "load"
      BY <2>2 DEF Loaded, load
    <3> QED
      BY <1>1, <3>1
  <2>5. j # idx
    <3> SUFFICES ASSUME j = idx PROVE FALSE
      OBVIOUS
    <3>1. d[j] = prog.code[node][j] /\ node \in prog.nodes
      BY <1>1, <2>2 DEF Fewer, isCall, Place
    <3>2. d[j] \in Calls
      <4>1. d \in Seq(Instrs) /\ j \in DOMAIN d /\ d[j].op = "call"
        BY <1>1, <2>2, <2>3, <3>1 DEF Fewer, SameSteps, isCall
      <4> QED
        BY <4>1, CheckOfType
    <3>3. reg[d[j].tmp] >= d[j].top
      BY <2>2, <2>3
    <3>4. reg[d[j].tmp] \in Int /\ d[j].top \in Int
      BY <3>2 DEF Place, Calls
    <3>5. Passes("max", reg[d[j].tmp], CheckOf(d[j]))
      BY <1>1, <2>2, <3>1 DEF Fails, isCall
    <3> QED
      BY <3>3, <3>4, <3>5 DEF Passes, CheckOf
  <2>6. j \in (idx + 1)..Len(d)
    BY <1>1, <2>3, <2>5
  <2>7. Untouched(d, d[j].root, Repairs("max"), idx + 1, l)
    BY <1>1, <2>2, <2>3 DEF Untouched
  <2>8. IF l >= idx + 1 THEN env[d[j].root] >= d[j].top ELSE reg[d[j].tmp] >= d[j].top
    BY <1>1, <2>2, <2>3, <2>4
  <2> QED
    BY <2>2, <2>6, <2>7, <2>8 DEF Debt, CallToCome
<1> QED
  BY <1>4, <1>5 DEF Debt

\* At the end of a node the check that fails is anticipated at every successor.
LEMMA BranchKeepsDebt ==
    ASSUME RunsCode, Place, SameSteps(code), Branch, LoadedHere(prog), ScanComplete(prog),
           NEW c, Fewer(c), NEW I, NEW O, Anticipates(prog, c, I, O),
           Debt(c, O, node, idx, env, reg)
    PROVE  Debt(c, O, node', 1, env, reg)
<1> DEFINE K == Checks(c, "max")
           sets == {I[m] : m \in prog.succs[node]}
<1>1. /\ idx = Len(c[node]) + 1 /\ Len(c[node]) \in Nat
      /\ node \in prog.nodes /\ node' \in prog.nodes /\ node' \in prog.succs[node]
  <2>1. idx = Len(code[node]) + 1 /\ node' \in prog.nodes /\ node' \in prog.succs[node]
    BY BranchEffect
  <2>2. Len(code[node]) = Len(c[node]) /\ c[node] \in Seq(Instrs) /\ node \in prog.nodes
    BY DEF SameSteps, Fewer, Place
  <2> QED
    BY <2>1, <2>2
<1>2. ~CallToCome(c, node, idx, env, reg)
  BY <1>1 DEF CallToCome
<1>3. PICK check \in O[node] : Beyond(check, env)
  BY <1>2 DEF Debt, EndToCome
<1>4. c \in [prog.nodes -> Seq(Instrs)] /\ "max" \in Kinds /\ Alike(K) /\ K \subseteq AllChecks
  <2>1. c \in [prog.nodes -> Seq(Instrs)] /\ "max" \in Kinds
    BY DEF Fewer, SameSteps, Kinds
  <2> QED
    BY <2>1, ChecksAlike DEF RunsCode, WellFormed, Alike
<1>5. node \in InVector(prog) /\ O[node] = myintersect2(sets)
  BY <1>1, <1>3 DEF Anticipates
<1>6. sets \in SUBSET SUBSET K /\ I[node'] \in sets /\ I[node'] \subseteq K /\ O[node] \subseteq K
  <2>1. prog.succs[node] \subseteq prog.nodes
    BY <1>1 DEF RunsCode, WellFormed
  <2> QED
    BY <1>1, <2>1 DEF Anticipates
<1>7. PICK b \in I[node'] : b.realindex = check.realindex /\ b.top_limit <= check.top_limit
  <2> HIDE DEF sets, K
  <2>1. check \in myintersect2(sets)
    BY <1>5
  <2> QED
    BY <1>4, <1>6, <2>1, MeetMember
<1>8. Beyond(b, env)
  <2>1. b \in AllChecks /\ check \in AllChecks
    BY <1>4, <1>6
  <2>2. b.top_limit \in Int /\ check.top_limit \in Int /\ env[check.realindex] \in Int
    BY <2>1 DEF AllChecks, LightCheck, Place
  <2> QED
    BY <1>3, <1>7, <2>2 DEF Beyond
<1> QED
  BY <1>1, <1>8, DebtArises DEF RunsCode

\* A run in debt does not return.
LEMMA NoReturnInDebt ==
    ASSUME RunsCode, Place, SameSteps(code), Return, NoHiddenReturn(prog),
           NEW c, Fewer(c), NEW I, NEW O, Anticipates(prog, c, I, O)
    PROVE  ~Debt(c, O, node, idx, env, reg)
<1>1. node \in prog.nodes /\ prog.succs[node] = {}
  BY DEF Return, NoHiddenReturn, Place
<1>2. O[node] = {}
  BY <1>1 DEF Anticipates
<1>3. idx = Len(c[node]) + 1 /\ Len(c[node]) \in Nat
  <2>1. Len(code[node]) = Len(c[node]) /\ c[node] \in Seq(Instrs)
    BY DEF SameSteps, Fewer, Place
  <2> QED
    BY <2>1 DEF Return, AtInstr, Place
<1> QED
  BY <1>2, <1>3 DEF Debt, CallToCome, EndToCome

-----------------------------------------------------------------------------
(***************************************************************************)
(* The values that have been loaded.  A run executes the loads and stores  *)
(* of the function, whatever has become of its calls.                      *)
(***************************************************************************)
\* The value loaded at place l is still in its register at place i.
Kept(c, l, i) ==
    /\ c[l].op = "load"
    /\ \A q \in (l + 1)..(i - 1) : ~isLoadInto(c[q], c[l].tmp)

\* A register is what was loaded, and is what the variable is until a store.
Fresh ==
    \A l \in 1..(idx - 1) :
        LET c == prog.code[node] IN
        /\ Kept(c, l, idx)
        /\ \A q \in (l + 1)..(idx - 1) : ~isStoreTo(c[q], c[l].var)
        => reg[c[l].tmp] = env[c[l].var]

\* What a step inside a node does, in terms of the function.
LEMMA StepInNode ==
    ASSUME RunsCode, Place, SameSteps(code), Load \/ Store \/ (Check /\ status' = "running")
    PROVE  LET c == prog.code[node]
               i == c[idx]
           IN  /\ node \in prog.nodes /\ c \in Seq(Instrs) /\ Len(c) \in Nat
               /\ idx \in 1..Len(c) /\ idx \in DOMAIN c /\ idx \in Int
               /\ node' = node /\ idx' = idx + 1 /\ prog' = prog /\ code' = code
               /\ \/ i \in Loads /\ i.op = "load" /\ env' = env
                       /\ reg' = [reg EXCEPT ![i.tmp] = env[i.var]]
                  \/ i \in Stores /\ i.op = "store" /\ reg' = reg
                       /\ \E x \in Int : /\ x \in Outcomes(i, env[i.base])
                                         /\ env' = [env EXCEPT ![i.var] = x]
                  \/ i.op \notin {"load", "store"} /\ Check /\ ~Fails(i)
                       /\ env' = env /\ reg' = reg
<1> DEFINE c == prog.code[node]
<1>1. node \in prog.nodes /\ c \in Seq(Instrs) /\ code[node] \in Seq(Instrs)
      /\ Len(code[node]) = Len(c)
  BY DEF Place, RunsCode, WellFormed, SameSteps
<1>2. idx \in 1..Len(c) /\ Len(c) \in Nat /\ idx \in DOMAIN c /\ idx \in Int
  <2>1. idx \in 1..Len(code[node]) /\ Len(code[node]) \in Nat
    BY CurrentInstr DEF Load, Store, Check
  <2> QED
    BY <1>1, <2>1
<1>3. code[node][idx].op \in {"load", "store"} => code[node][idx] = c[idx]
  BY <1>1, <1>2 DEF SameSteps
<1>4. CASE Load
  BY <1>1, <1>2, <1>3, <1>4, LoadEffect DEF program
<1>5. CASE Store
  BY <1>1, <1>2, <1>3, <1>5, StoreEffect DEF program
<1>6. CASE Check /\ status' = "running"
  BY <1>1, <1>2, <1>6 DEF Check, program
<1> QED
  BY <1>4, <1>5, <1>6

LEMMA FreshStays ==
    ASSUME RunsCode, Place, SameSteps(code), Fresh,
           Load \/ Store \/ (Check /\ status' = "running")
    PROVE  Fresh'
<1> DEFINE c == prog.code[node]
           i == c[idx]
<1>1. /\ node \in prog.nodes /\ c \in Seq(Instrs) /\ Len(c) \in Nat
      /\ idx \in 1..Len(c) /\ idx \in Int
      /\ node' = node /\ idx' = idx + 1 /\ prog' = prog
  BY StepInNode
<1>2. SUFFICES ASSUME NEW l \in 1..idx, Kept(c, l, idx + 1),
                      \A q \in (l + 1)..idx : ~isStoreTo(c[q], c[l].var)
               PROVE  reg'[c[l].tmp] = env'[c[l].var]
  <2>1. idx' - 1 = idx
    BY <1>1
  <2> QED
    BY <1>1, <2>1 DEF Fresh
<1>3. c[l] \in Loads /\ c[l].op = "load" /\ c[l].tmp \in Tmps /\ c[l].var \in Vars
  <2>1. c[l] \in Instrs /\ c[l].op = "load"
    BY <1>1, <1>2 DEF Kept
  <2> QED
    BY <2>1 DEF Instrs, Loads, Stores, Calls, Other
<1>4. env \in [Vars -> Int] /\ reg \in [Tmps -> Int]
  BY DEF Place
<1>5. CASE l = idx
  <2>1. env' = env /\ reg' = [reg EXCEPT ![i.tmp] = env[i.var]]
    BY <1>3, <1>5, StepInNode DEF Stores
  <2> QED
    BY <1>3, <1>4, <1>5, <2>1
<1>6. CASE l # idx
  <2>1. l \in 1..(idx - 1) /\ idx \in (l + 1)..idx /\ l \in Int
    BY <1>1, <1>6
  <2>2. Kept(c, l, idx) /\ \A q \in (l + 1)..(idx - 1) : ~isStoreTo(c[q], c[l].var)
    BY <1>1, <1>2, <2>1 DEF Kept
  <2>3. reg[c[l].tmp] = env[c[l].var]
    BY <2>1, <2>2 DEF Fresh
  <2>4. ~isStoreTo(i, c[l].var) /\ ~isLoadInto(i, c[l].tmp)
    BY <1>1, <1>2, <2>1 DEF Kept
  <2>5. reg'[c[l].tmp] = reg[c[l].tmp]
    BY <1>3, <1>4, <2>4, StepInNode DEF isLoadInto
  <2>6. env'[c[l].var] = env[c[l].var]
    BY <1>3, <1>4, <2>4, StepInNode DEF isStoreTo
  <2> QED
    BY <2>3, <2>5, <2>6
<1> QED
  BY <1>5, <1>6

\* A call whose variable has not been stored to since the load tests the
\* value that the variable has.
LEMMA CallIsFresh ==
    ASSUME RunsCode, Place, SameSteps(code), FreshLoads(prog), Fresh, Check,
           prog.code[node][idx].op = "call"
    PROVE  LET i == prog.code[node][idx] IN reg[i.tmp] = env[i.root]
<1> DEFINE c == prog.code[node]
           i == c[idx]
<1>1. node \in prog.nodes /\ idx \in DOMAIN c
  <2>1. idx \in 1..Len(code[node]) /\ node \in prog.nodes
    BY CurrentInstr DEF Check, Place
  <2>2. Len(c) = Len(code[node]) /\ c \in Seq(Instrs)
    BY <2>1 DEF SameSteps, RunsCode, WellFormed
  <2> QED
    BY <2>1, <2>2
<1>2. PICK l \in 1..(idx - 1) :
         Loaded(c, l, idx) /\ \A m \in (l + 1)..(idx - 1) : ~isStoreTo(c[m], i.root)
  BY <1>1 DEF FreshLoads
<1>3. Kept(c, l, idx) /\ c[l].tmp = i.tmp /\ c[l].var = i.root
  BY <1>2 DEF Loaded, load, Kept
<1> QED
  BY <1>2, <1>3 DEF Fresh

-----------------------------------------------------------------------------
(***************************************************************************)
(* What a check that has held once in a node says of the rest of it.       *)
(***************************************************************************)
Solid(c) == c \in AllChecks /\ c.bottom_limit = 0 /\ c.top_limit > 0

\* The check c of kind k held of its variable behind place p of node n.  At
\* place i it does so until a store spoils it, and it holds of the values that
\* were loaded before that.
Holding(k, c, p, n, i, e, r) ==
    LET d == prog.code[n]
        v == c.realindex
    IN  /\ Untouched(d, v, Spoils(k), p + 1, i - 1) => Passes(k, e[v], c)
        /\ \A l \in 1..(i - 1) :
              /\ l >= p /\ Kept(d, l, i) /\ d[l].var = v
              /\ Untouched(d, v, Spoils(k), p + 1, l)
              => Passes(k, r[d[l].tmp], c)

LEMMA HoldingStays ==
    ASSUME RunsCode, Place, SameSteps(code), HonestStores(prog),
           Load \/ Store \/ (Check /\ status' = "running"),
           NEW k \in Kinds, NEW c, Solid(c), NEW p \in 0..(idx - 1),
           Holding(k, c, p, node, idx, env, reg)
    PROVE  Holding(k, c, p, node, idx + 1, env', reg')
<1> DEFINE d == prog.code[node]
           i == d[idx]
           v == c.realindex
           S == Spoils(k)
<1>1. /\ node \in prog.nodes /\ d \in Seq(Instrs) /\ Len(d) \in Nat
      /\ idx \in 1..Len(d) /\ idx \in DOMAIN d /\ idx \in Int /\ p \in Int /\ p < idx
      /\ env \in [Vars -> Int] /\ reg \in [Tmps -> Int] /\ v \in Vars
  BY StepInNode DEF Place, Solid, AllChecks, LightCheck
<1>2. (idx + 1) - 1 = idx
  BY <1>1
<1>3. ASSUME ~HasEffect(i, v, S), Passes(k, env[v], c) PROVE Passes(k, env'[v], c)
  <2>1. CASE env' = env
    BY <1>3, <2>1
  <2>2. CASE i \in Stores /\ i.op = "store" /\
             \E x \in Int : x \in Outcomes(i, env[i.base]) /\ env' = [env EXCEPT ![i.var] = x]
    <3>1. PICK x \in Outcomes(i, env[i.base]) : env' = [env EXCEPT ![i.var] = x]
      BY <2>2
    <3>2. i.constfirst => i.opc \notin {"sub", "sdiv"}
      BY <1>1, <2>2 DEF HonestStores
    <3> QED
      BY <1>1, <1>3, <2>2, <3>1, <3>2, StoreKeepsCheck DEF Solid
  <2> QED
    BY <2>1, <2>2, StepInNode
<1>4. ASSUME Untouched(d, v, S, p + 1, idx) PROVE Passes(k, env'[v], c)
  <2>1. ~HasEffect(i, v, S) /\ Untouched(d, v, S, p + 1, idx - 1)
    BY <1>1, <1>4 DEF Untouched
  <2>2. Passes(k, env[v], c)
    BY <2>1 DEF Holding
  <2> QED
    BY <1>3, <2>1, <2>2
<1>5. ASSUME NEW l \in 1..idx, l >= p, Kept(d, l, idx + 1), d[l].var = v,
             Untouched(d, v, S, p + 1, l)
      PROVE  Passes(k, reg'[d[l].tmp], c)
  <2>1. d[l] \in Loads /\ d[l].op = "load" /\ d[l].tmp \in Tmps
    <3>1. d[l] \in Instrs /\ d[l].op = "load"
      BY <1>1, <1>5 DEF Kept
    <3> QED
      BY <3>1 DEF Instrs, Loads, Stores, Calls, Other
  <2>2. CASE l = idx
    <3>1. reg' = [reg EXCEPT ![i.tmp] = env[i.var]]
      BY <2>1, <2>2, StepInNode DEF Stores
    <3>2. Untouched(d, v, S, p + 1, idx - 1)
      BY <1>1, <1>5, <2>2 DEF Untouched
    <3>3. Passes(k, env[v], c)
      BY <3>2 DEF Holding
    <3> QED
      BY <1>1, <1>5, <2>1, <2>2, <3>1, <3>3
  <2>3. CASE l # idx
    <3>1. l \in 1..(idx - 1) /\ idx \in (l + 1)..idx /\ l \in Int
      BY <1>1, <2>3
    <3>2. Kept(d, l, idx) /\ ~isLoadInto(i, d[l].tmp)
      BY <1>1, <1>5, <3>1 DEF Kept
    <3>3. Passes(k, reg[d[l].tmp], c)
      BY <1>5, <3>1, <3>2 DEF Holding
    <3>4. reg'[d[l].tmp] = reg[d[l].tmp]
      BY <1>1, <2>1, <3>2, StepInNode DEF isLoadInto
    <3> QED
      BY <3>3, <3>4
  <2> QED
    BY <2>2, <2>3
<1> QED
  BY <1>2, <1>4, <1>5 DEF Holding

\* A check that holds of a value just loaded held behind the load.
LEMMA HoldingBegins ==
    ASSUME RunsCode, Place, SameSteps(code), Load, NEW k \in Kinds, NEW c, Solid(c),
           prog.code[node][idx].var = c.realindex,
           Passes(k, reg'[prog.code[node][idx].tmp], c)
    PROVE  Holding(k, c, idx, node, idx + 1, env', reg')
<1> DEFINE d == prog.code[node]
           i == d[idx]
<1>1. idx \in Int /\ i \in Loads /\ reg \in [Tmps -> Int]
      /\ env' = env /\ reg' = [reg EXCEPT ![i.tmp] = env[i.var]]
  <2>1. i = code[node][idx]
    BY LoadEffect DEF SameSteps, Place
  <2> QED
    BY <2>1, LoadEffect DEF Place
<1>2. reg'[i.tmp] = env'[c.realindex]
  BY <1>1 DEF Loads
<1>3. \A l \in 1..((idx + 1) - 1) : l >= idx => l = idx
  BY <1>1
<1> QED
  BY <1>2, <1>3 DEF Holding

\* At the beginning of a node there are no values loaded.
LEMMA HoldingAtBeginning ==
    ASSUME NEW k, NEW c, NEW n, NEW e, NEW r, Passes(k, e[c.realindex], c)
    PROVE  Holding(k, c, 0, n, 1, e, r)
  BY DEF Holding
=============================================================================
