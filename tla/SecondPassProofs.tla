--------------------------- MODULE SecondPassProofs ---------------------------
(***************************************************************************)
(* What the global analysis of the second pass calls available does hold,  *)
(* for every function whose loops leave alone what was checked before.     *)
(***************************************************************************)
EXTENDS SecondPass

-----------------------------------------------------------------------------
\* A check that holds whenever h does, if constant places are all in one array.
Weaker(g, h) ==
    /\ g.upper = h.upper /\ IsConst(g.var) = IsConst(h.var)
    /\ IF IsConst(g.var) THEN IF g.upper THEN g.var[2] <= h.var[2] ELSE g.var[2] >= h.var[2]
       ELSE g.var = h.var /\ (g.upper => Limit[h.array] <= Limit[g.array])

Known == UNION {Range(globals[b]) : b \in Blocks(prog)}
Generates(b, g) == \E h \in Range(globals[b]) : Weaker(g, h)
Passes(b, g) == b # Entry(prog) /\ ~KillAll(b) /\ Survives(b, g)

\* At the end of each of the blocks the check holds: they make it, or let
\* it through, and then it holds at the end of each block before them.
Carries(some, g) ==
    /\ some \subseteq Blocks(prog)
    /\ \A b \in some : Generates(b, g) \/ (Passes(b, g) /\ Preds(prog, b) \subseteq some)
CarriedOut(b) == {g \in Known : \E some \in SUBSET Blocks(prog) : b \in some /\ Carries(some, g)}
CarriedIn(b) ==
    {g \in Known : b # Entry(prog) /\ \E some \in SUBSET Blocks(prog) : Preds(prog, b) \subseteq some /\ Carries(some, g)}

\* In the first sweep the blocks that are still to be visited have all checks,
\* and the checks of the others come from blocks visited before.
FirstSweep ==
    /\ \A n \in DOMAIN prog.blocks : outSet[prog.blocks[n]].all <=> n >= pos
    /\ \A n \in DOMAIN prog.blocks : \A g \in Range(outSet[prog.blocks[n]].checks) :
         \E m \in 1 .. pos - 1 : g \in Range(globals[prog.blocks[m]])
Swept ==
    /\ \A b \in Blocks(prog) : KillAll(b) => ~inSet[b].all
    /\ stage = "sweep" =>
         /\ pos \in Nat \ {0} /\ pos <= Len(prog.blocks) + 1
         /\ FirstSweep \/ \A b \in Blocks(prog) : ~outSet[b].all
Carried ==
    /\ \A b \in Blocks(prog) : outSet[b].checks \in Seq(CarriedOut(b)) /\ inSet[b].checks \in Seq(CarriedIn(b))
    /\ DOMAIN inSet = Blocks(prog) /\ DOMAIN outSet = Blocks(prog)

-----------------------------------------------------------------------------
(***************************************************************************)
(* Functions of a position in a sequence that are defined from the one     *)
(* before.                                                                 *)
(***************************************************************************)
IsRecursion(f, N, base, F) == f = [k \in 0 .. N |-> IF k = 0 THEN base ELSE F[k][f[k - 1]]]

\* There is such a function, if what is made of a value is a value.
LEMMA RecursionExists ==
    ASSUME NEW N \in Nat, NEW X, NEW base \in X, NEW F \in [1 .. N -> [X -> X]]
    PROVE  \E f \in [0 .. N -> X] : IsRecursion(f, N, base, F)
<1> DEFINE Is(f, m) == f \in [0 .. m -> X] /\ f = [k \in 0 .. m |-> IF k = 0 THEN base ELSE F[k][f[k - 1]]]
           T == {m \in 0 .. N : ~\E f : Is(f, m)}
<1> SUFFICES ASSUME T # {} PROVE FALSE
  <2>1. N \in 0 .. N /\ N \notin T => \E f : Is(f, N)
    OBVIOUS
  <2> QED
    BY <2>1 DEF IsRecursion
<1>1. PICK m \in T : \A y \in T : m <= y
  <2> HIDE DEF T
  <2>1. T \in SUBSET Nat
    BY DEF T
  <2> QED
    BY <2>1, LeastNat
<1>2. CASE m = 0
  <2> DEFINE g == [r \in 0 .. 0 |-> base]
  <2>1. Is(g, 0)
    OBVIOUS
  <2> QED
    BY <1>1, <1>2, <2>1
<1>3. CASE m # 0
  <2>1. m - 1 \in 0 .. N /\ m \in 1 .. N
    BY <1>1, <1>3
  <2>6. m - 1 \notin T
    <3> HIDE DEF T
    <3> QED
      BY <1>1, <2>1
  <2>2. PICK g : Is(g, m - 1)
    BY <2>1, <2>6
  <2> DEFINE last == F[m][g[m - 1]]
             h == [r \in 0 .. m |-> IF r < m THEN g[r] ELSE last]
  <2>3. g[m - 1] \in X /\ last \in X
    BY <2>1, <2>2
  <2>4. ASSUME NEW r \in 0 .. m
        PROVE  h[r] \in X /\ h[r] = IF r = 0 THEN base ELSE F[r][h[r - 1]]
    <3>1. CASE r = m
      <4>1. h[r] = last /\ h[r - 1] = g[m - 1] /\ r # 0
        BY <1>3, <2>1, <3>1
      <4> HIDE DEF h
      <4> QED
        BY <4>1, <3>1, <2>3
    <3>2. CASE r # m
      <4>1. r \in 0 .. (m - 1) /\ h[r] = g[r] /\ (r # 0 => h[r - 1] = g[r - 1])
        BY <2>1, <3>2
      <4>2. g[r] \in X /\ g[r] = IF r = 0 THEN base ELSE F[r][g[r - 1]]
        BY <2>2, <4>1
      <4> HIDE DEF h
      <4> QED
        BY <4>1, <4>2
    <3> QED
      BY <3>1, <3>2
  <2>5. Is(h, m)
    <3>1. h = [r \in 0 .. m |-> h[r]]
      OBVIOUS
    <3> HIDE DEF h
    <3>2. h \in [0 .. m -> X]
      BY <3>1, <2>4
    <3>3. h = [k \in 0 .. m |-> IF k = 0 THEN base ELSE F[k][h[k - 1]]]
      BY <3>1, <2>4, Zenon
    <3> QED
      BY <3>2, <3>3
  <2> QED
    BY <1>1, <2>5
<1> QED
  BY <1>2, <1>3

\* Sequences of some things, one after the other, are a sequence of them.
LEMMA FlattenTyped ==
    ASSUME NEW X, NEW seqs \in Seq(Seq(X)) PROVE FlattenSeq(seqs) \in Seq(X)
<1> DEFINE N == Len(seqs)
<1>1. CASE N = 0
  <2>1. seqs = << >> /\ FlattenSeq(seqs) = seqs
    BY <1>1 DEF FlattenSeq
  <2>2. << >> \in Seq(X)
    OBVIOUS
  <2> QED
    BY <2>1, <2>2, Zenon
<1>2. CASE N # 0
  <2> DEFINE Is(f) == f = [i \in 1 .. N |-> IF i = 1 THEN seqs[i] ELSE f[i - 1] \o seqs[i]]
             flatten == CHOOSE f : Is(f)
             F == [k \in 1 .. N - 1 |-> [q \in Seq(X) |-> q \o seqs[k + 1]]]
  <2>1. N \in Nat \ {0} /\ \A i \in 1 .. N : seqs[i] \in Seq(X)
    BY <1>2
  <2>2. F \in [1 .. N - 1 -> [Seq(X) -> Seq(X)]]
    BY <2>1
  <2>3. PICK g \in [0 .. N - 1 -> Seq(X)] :
          g = [k \in 0 .. N - 1 |-> IF k = 0 THEN seqs[1] ELSE F[k][g[k - 1]]]
    <3>1. N - 1 \in Nat
      BY <2>1
    <3>2. seqs[1] \in Seq(X)
      BY <2>1
    <3> HIDE DEF F
    <3>3. \E g \in [0 .. N - 1 -> Seq(X)] : IsRecursion(g, N - 1, seqs[1], F)
      BY <2>2, <3>1, <3>2, RecursionExists
    <3> QED
      BY <3>3 DEF IsRecursion
  <2> DEFINE h == [i \in 1 .. N |-> g[i - 1]]
  <2>4. ASSUME NEW i \in 1 .. N PROVE h[i] = IF i = 1 THEN seqs[i] ELSE h[i - 1] \o seqs[i]
    <3>1. CASE i = 1
      BY <2>1, <2>3, <3>1
    <3>2. CASE i # 1
      <4>1. i - 1 \in 1 .. N - 1 /\ i - 1 # 0 /\ i - 2 \in 0 .. N - 1 /\ h[i] = g[i - 1] /\ h[i - 1] = g[i - 2]
        BY <2>1, <3>2
      <4>2. g[i - 1] = F[i - 1][g[i - 2]]
        <5>1. i - 1 \in 0 .. N - 1 /\ (i - 1) - 1 = i - 2
          BY <2>1, <4>1
        <5> HIDE DEF F
        <5>2. \A k \in 0 .. N - 1 : k # 0 => g[k] = F[k][g[k - 1]]
          BY <2>3
        <5> QED
          BY <4>1, <5>1, <5>2
      <4>3. F[i - 1][g[i - 2]] = g[i - 2] \o seqs[i]
        <5>1. g[i - 2] \in Seq(X)
          BY <2>3, <4>1
        <5>2. i \in Int /\ (i - 1) + 1 = i
          OBVIOUS
        <5>3. F[i - 1] = [q \in Seq(X) |-> q \o seqs[(i - 1) + 1]]
          BY <4>1
        <5> HIDE DEF F
        <5> QED
          BY <5>1, <5>2, <5>3
      <4> HIDE DEF h, F
      <4> QED
        BY <3>2, <4>1, <4>2, <4>3
    <3> QED
      BY <3>1, <3>2
  <2>5. Is(h)
    <3>1. h = [i \in 1 .. N |-> h[i]]
      OBVIOUS
    <3> HIDE DEF h
    <3> QED
      BY <3>1, <2>4, Zenon
  <2>6. Is(flatten)
    BY <2>5, Zenon
  <2>7. FlattenSeq(seqs) = flatten[N]
    BY <1>2, Zenon DEF FlattenSeq
  <2> HIDE DEF flatten
  <2> DEFINE T == {i \in 1 .. N : flatten[i] \notin Seq(X)}
  <2>8. T = {}
    <3> SUFFICES ASSUME T # {} PROVE FALSE
      OBVIOUS
    <3>1. PICK m \in T : \A y \in T : m <= y
      <4> HIDE DEF T
      <4>1. T \in SUBSET Nat
        BY <2>1 DEF T
      <4> QED
        BY <4>1, LeastNat
    <3>2. m \in 1 .. N /\ flatten[m] = IF m = 1 THEN seqs[m] ELSE flatten[m - 1] \o seqs[m]
      BY <2>6, <3>1
    <3>3. m # 1 => m - 1 \in 1 .. N
      BY <2>1, <3>2
    <3>4. m # 1 => flatten[m - 1] \in Seq(X)
      BY <3>1, <3>2, <3>3
    <3>5. flatten[m] \in Seq(X)
      BY <2>1, <3>2, <3>4
    <3> QED
      BY <3>1, <3>5
  <2>9. N \in 1 .. N
    BY <2>1
  <2> QED
    BY <2>7, <2>8, <2>9
<1> QED
  BY <1>1, <1>2

\* Those of a sequence are elements of it.
LEMMA ThoseTyped ==
    ASSUME NEW X, NEW seq \in Seq(X), NEW some PROVE Those(seq, some) \in Seq(X \cap some)
<1> DEFINE parts == [n \in DOMAIN seq |-> IF seq[n] \in some THEN <<seq[n]>> ELSE << >>]
<1>1. ASSUME NEW n \in DOMAIN seq PROVE parts[n] \in Seq(X \cap some)
  <2>1. seq[n] \in X /\ parts[n] = IF seq[n] \in some THEN <<seq[n]>> ELSE << >>
    BY <1>1
  <2>2. << >> \in Seq(X \cap some) /\ \A x \in X \cap some : <<x>> \in Seq(X \cap some)
    OBVIOUS
  <2> HIDE DEF parts
  <2> QED
    BY <2>1, <2>2
<1>2. parts \in Seq(Seq(X \cap some))
  <2>1. DOMAIN seq = 1 .. Len(seq) /\ Len(seq) \in Nat
    OBVIOUS
  <2> QED
    BY <1>1, <2>1
<1>3. Those(seq, some) = FlattenSeq(parts)
  BY Zenon DEF Those
<1> QED
  BY <1>2, <1>3, FlattenTyped

-----------------------------------------------------------------------------
(***************************************************************************)
(* Functions, and what a block generates.                                  *)
(***************************************************************************)
LEMMA Shape ==
    ASSUME prog \in Programs
    PROVE  /\ DOMAIN prog.blocks = 1 .. Len(prog.blocks) /\ Len(prog.blocks) \in Nat \ {0}
           /\ Entry(prog) \in Blocks(prog) /\ Preds(prog, Entry(prog)) = {}
           /\ \A b \in Blocks(prog) : prog.preds[b] \in Seq(Blocks(prog)) /\ Preds(prog, b) \subseteq Blocks(prog)
           /\ \A b \in Blocks(prog) : DOMAIN prog.body[b] = 1 .. Len(prog.body[b]) /\ Len(prog.body[b]) \in Nat
           /\ \A b \in Blocks(prog) : \A k \in DOMAIN prog.body[b] : IsStatement(prog.body[b][k])
<1>1. Wellformed(prog)
  BY BlockProgramAssumption
<1>2. DOMAIN prog.blocks = 1 .. Len(prog.blocks) /\ Len(prog.blocks) \in Nat \ {0}
  BY <1>1 DEF Wellformed
<1>3. Entry(prog) \in Blocks(prog)
  BY <1>2 DEF Entry, Blocks
<1>4. Preds(prog, Entry(prog)) = {}
  BY <1>1 DEF Wellformed, Preds
<1>5. \A b \in Blocks(prog) : prog.preds[b] \in Seq(Blocks(prog)) /\ Preds(prog, b) \subseteq Blocks(prog)
  BY <1>1 DEF Wellformed, Preds
<1>6. \A b \in Blocks(prog) : DOMAIN prog.body[b] = 1 .. Len(prog.body[b]) /\ Len(prog.body[b]) \in Nat
  <2>1. \A b \in Blocks(prog) : prog.body[b] \in Seq(Range(prog.body[b]))
    BY <1>1 DEF Wellformed
  <2> QED
    BY <2>1
<1>7. \A b \in Blocks(prog) : \A k \in DOMAIN prog.body[b] : IsStatement(prog.body[b][k])
  BY <1>1 DEF Wellformed
<1> QED
  BY <1>2, <1>3, <1>4, <1>5, <1>6, <1>7

\* How a statement may move a variable that a check of one side is on.
Slides(I, g) == Writes(I, g.var) => I.op = "add" /\ IF g.upper THEN I.by <= 0 ELSE I.by >= 0

LEMMA ChangeMeans ==
    ASSUME prog \in Programs, NEW b \in Blocks(prog), NEW g,
           Change(prog, b, g.var) \in IF g.upper THEN {"EQUALS", "LESS_THAN"} ELSE {"EQUALS", "GREATER_THAN"},
           NEW k \in DOMAIN prog.body[b]
    PROVE  Slides(prog.body[b][k], g)
<1> DEFINE I == prog.body[b][k]
           steps == {prog.body[b][l] : l \in {m \in DOMAIN prog.body[b] : Writes(prog.body[b][m], g.var)}}
<1>1. SUFFICES ASSUME Writes(I, g.var) PROVE I.op = "add" /\ IF g.upper THEN I.by <= 0 ELSE I.by >= 0
  BY DEF Slides
<1>2. I \in steps
  BY <1>1
<1> DEFINE up == \A J \in steps : J.op = "add" /\ J.by >= 0
           down == \A J \in steps : J.op = "add" /\ J.by <= 0
<1>3. IF g.upper THEN down ELSE up
  BY DEF Change
<1> QED
  BY <1>2, <1>3

LEMMA SurvivesMeans ==
    ASSUME prog \in Programs, NEW b \in Blocks(prog), NEW g, Survives(b, g),
           IsConst(g.var) \/ g.var \in Variables, NEW k \in DOMAIN prog.body[b]
    PROVE  Slides(prog.body[b][k], g)
<1>1. CASE g.var \in StoreSet(b)
  BY <1>1, ChangeMeans DEF Survives
<1>2. CASE g.var \notin StoreSet(b)
  <2>1. IsStatement(prog.body[b][k])
    BY Shape
  <2>2. ~Writes(prog.body[b][k], g.var)
    BY <1>2, <2>1, BlockProgramAssumption DEF StoreSet, Writes, IsStatement
  <2> QED
    BY <2>2 DEF Slides
<1> QED
  BY <1>1, <1>2

\* A check a block generates was made by an access behind which nothing
\* moves the variable to the wrong side.
Faithful(b, g) ==
    /\ g.upper \in BOOLEAN
    /\ \E k \in DOMAIN prog.body[b] : \A I \in {prog.body[b][k]} :
         /\ I.op = "access" /\ I.var = g.var /\ I.array = g.array
         /\ ~IsConst(g.var) => IF g.upper THEN I.by >= 0 ELSE I.by <= 0
         /\ \A l \in DOMAIN prog.body[b] :
              l > k => prog.body[b][l].op # "call" /\ Slides(prog.body[b][l], g)

LEMMA ExposedFaithful ==
    ASSUME prog \in Programs, NEW b \in Blocks(prog), NEW found, NEW k \in DOMAIN prog.body[b],
           prog.body[b][k].op = "access", NEW upper \in BOOLEAN,
           NEW c, c = NewCheck(prog, b, k, found), Exposed(b, c, upper)
    PROVE  Faithful(b, GlobalCheck(c, upper))
<1> DEFINE I == prog.body[b][k]
           g == GlobalCheck(c, upper)
<1>1. c.var = I.var /\ c.array = I.array /\ c.at = k /\ (~IsConst(I.var) => c.by = I.by)
  BY DEF NewCheck
<1>2. g.upper = upper /\ g.var = I.var /\ g.array = I.array
  BY <1>1 DEF GlobalCheck
<1>3. ~IsConst(g.var) => IF g.upper THEN I.by >= 0 ELSE I.by <= 0
  BY <1>1, <1>2 DEF Exposed
<1>4. ASSUME NEW l \in DOMAIN prog.body[b], l > k
      PROVE  prog.body[b][l].op # "call" /\ Slides(prog.body[b][l], g)
  <2>1. prog.body[b][l].op # "call"
    BY <1>1, <1>4 DEF Exposed, KilledAfter
  <2>2. CASE Writes(prog.body[b][l], g.var)
    <3>1. StoredAfter(b, c.var, c.at)
      BY <1>1, <1>2, <1>4, <2>2 DEF StoredAfter
    <3>2. Change(prog, b, g.var) \in IF g.upper THEN {"EQUALS", "LESS_THAN"} ELSE {"EQUALS", "GREATER_THAN"}
      BY <1>1, <1>2, <3>1 DEF Exposed
    <3> HIDE DEF g
    <3>3. Slides(prog.body[b][l], g)
      BY <3>2, ChangeMeans
    <3> QED
      BY <2>1, <3>3
  <2>3. CASE ~Writes(prog.body[b][l], g.var)
    BY <2>1, <2>3 DEF Slides
  <2> QED
    BY <2>2, <2>3
<1> HIDE DEF g
<1> QED
  BY <1>2, <1>3, <1>4 DEF Faithful, g

LEMMA AccessesTyped ==
    ASSUME prog \in Programs, NEW b \in Blocks(prog)
    PROVE  Accesses(prog, b) \in Seq({k \in DOMAIN prog.body[b] : prog.body[b][k].op = "access"})
<1> DEFINE places == [k \in DOMAIN prog.body[b] |-> k]
           some == {k \in DOMAIN places : prog.body[b][k].op = "access"}
<1>1. DOMAIN prog.body[b] = 1 .. Len(prog.body[b]) /\ Len(prog.body[b]) \in Nat
  BY Shape
<1>2. places \in Seq(DOMAIN prog.body[b])
  BY <1>1
<1>3. Accesses(prog, b) = Those(places, some)
  BY Zenon DEF Accesses
<1>4. (DOMAIN prog.body[b]) \cap some = {k \in DOMAIN prog.body[b] : prog.body[b][k].op = "access"}
  OBVIOUS
<1> QED
  BY <1>2, <1>3, <1>4, ThoseTyped

LEMMA LocalChecksTyped ==
    ASSUME prog \in Programs, NEW b \in Blocks(prog), NEW found
    PROVE  LocalChecks(prog, found)[b]
             \in Seq({NewCheck(prog, b, k, found) : k \in {l \in DOMAIN prog.body[b] : prog.body[b][l].op = "access"}})
<1> DEFINE acc == Accesses(prog, b)
           K == {l \in DOMAIN prog.body[b] : prog.body[b][l].op = "access"}
           C == {NewCheck(prog, b, k, found) : k \in K}
           s == [n \in DOMAIN acc |-> NewCheck(prog, b, acc[n], found)]
<1>1. acc \in Seq(K)
  BY AccessesTyped
<1>2. LocalChecks(prog, found)[b] = s
  BY DEF LocalChecks
<1>3. DOMAIN s = 1 .. Len(acc) /\ Len(acc) \in Nat /\ \A n \in 1 .. Len(acc) : acc[n] \in K
  <2> HIDE DEF acc, K
  <2> QED
    BY <1>1
<1>4. \A n \in 1 .. Len(acc) : s[n] \in C
  BY <1>3
<1>5. s \in Seq(C)
  <2> s = [n \in 1 .. Len(acc) |-> s[n]]
    BY <1>3
  <2> HIDE DEF s, C
  <2> QED
    BY <1>3, <1>4
<1> QED
  BY <1>2, <1>5

LEMMA GlobalsFaithful ==
    ASSUME prog \in Programs, NEW b \in Blocks(prog), NEW found, checks = LocalChecks(prog, found)
    PROVE  GlobalChecks(b) \in Seq({g \in {GlobalCheck(c, upper) : c \in Range(checks[b]), upper \in BOOLEAN} : Faithful(b, g)})
<1> DEFINE G == {g \in {GlobalCheck(c, upper) : c \in Range(checks[b]), upper \in BOOLEAN} : Faithful(b, g)}
           Earlier(n) == {checks[b][m] : m \in 1 .. n - 1}
           parts == [n \in DOMAIN checks[b] |-> GlobalsOf(b, checks[b][n], Earlier(n))]
<1>1. /\ DOMAIN checks[b] = 1 .. Len(checks[b]) /\ Len(checks[b]) \in Nat
      /\ \A n \in DOMAIN checks[b] : checks[b][n] \in Range(checks[b]) /\
           \E k \in DOMAIN prog.body[b] : prog.body[b][k].op = "access" /\ checks[b][n] = NewCheck(prog, b, k, found)
  <2> DEFINE C == {NewCheck(prog, b, k, found) : k \in {l \in DOMAIN prog.body[b] : prog.body[b][l].op = "access"}}
  <2>1. checks[b] \in Seq(C)
    BY LocalChecksTyped
  <2>2. \A n \in DOMAIN checks[b] : checks[b][n] \in C
    <3> HIDE DEF C
    <3> QED
      BY <2>1
  <2> QED
    BY <2>1, <2>2 DEF Range
<1>2. ASSUME NEW n \in DOMAIN checks[b] PROVE parts[n] \in Seq(G)
  <2> DEFINE c == checks[b][n]
  <2>1. ASSUME NEW upper \in BOOLEAN, Exposed(b, c, upper) PROVE <<GlobalCheck(c, upper)>> \in Seq(G)
    <3>1. Faithful(b, GlobalCheck(c, upper))
      BY <1>1, <2>1, ExposedFaithful
    <3>2. GlobalCheck(c, upper) \in G
      BY <1>1, <3>1
    <3> HIDE DEF G, c
    <3> QED
      BY <3>2
  <2>2. << >> \in Seq(G)
    OBVIOUS
  <2> DEFINE new(upper) == Exposed(b, c, upper) /\ \A d \in Earlier(n) : ~(d.var = c.var /\ Exposed(b, d, upper))
             low == IF new(FALSE) THEN <<GlobalCheck(c, FALSE)>> ELSE << >>
             high == IF new(TRUE) THEN <<GlobalCheck(c, TRUE)>> ELSE << >>
  <2>3. low \in Seq(G) /\ high \in Seq(G)
    <3> HIDE DEF G, c
    <3> QED
      BY <2>1, <2>2
  <2>4. parts[n] = low \o high
    BY DEF GlobalsOf
  <2> HIDE DEF low, high, parts, G
  <2> QED
    BY <2>3, <2>4
<1>3. parts \in Seq(Seq(G))
  <2>1. DOMAIN parts = 1 .. Len(checks[b]) /\ parts = [n \in 1 .. Len(checks[b]) |-> parts[n]]
    BY <1>1
  <2> HIDE DEF parts, G
  <2> QED
    BY <1>1, <1>2, <2>1
<1>4. GlobalChecks(b) = FlattenSeq(parts)
  BY Zenon DEF GlobalChecks
<1> HIDE DEF parts
<1> QED
  BY <1>3, <1>4, FlattenTyped

-----------------------------------------------------------------------------
(***************************************************************************)
(* Checks, and blocks that carry them.                                     *)
(***************************************************************************)
IsCheck(g) ==
    /\ g.upper \in BOOLEAN /\ g.array \in Arrays
    /\ g.var \in Variables \/ (IsConst(g.var) /\ g.var[2] \in Int)

\* What is generated never changes.
Generated ==
    /\ prog \in Programs
    /\ \A b \in Blocks(prog) : /\ globals[b] \in Seq(Range(globals[b]))
                               /\ \A g \in Range(globals[b]) : Faithful(b, g)

LEMMA KnownAreChecks ==
    ASSUME Generated, NEW g \in Known
    PROVE  IsCheck(g) /\ (Sound(prog) => \A h \in Known : IsConst(g.var) /\ IsConst(h.var) => g.array = h.array)
<1>1. ASSUME NEW h \in Known
      PROVE  /\ IsCheck(h)
             /\ IsConst(h.var) => \E J \in AtConstants(prog) : J.array = h.array
  <2>1. PICK b \in Blocks(prog) : Faithful(b, h)
    BY DEF Known, Generated
  <2>2. PICK k \in DOMAIN prog.body[b] :
          /\ prog.body[b][k].op = "access" /\ prog.body[b][k].var = h.var /\ prog.body[b][k].array = h.array
    BY <2>1 DEF Faithful
  <2>3. IsStatement(prog.body[b][k])
    BY Shape DEF Generated
  <2>4. IsCheck(h)
    BY <2>1, <2>2, <2>3 DEF IsStatement, IsCheck, Faithful
  <2>5. prog.body[b][k] \in UNION {Range(prog.body[c]) : c \in Blocks(prog)}
    BY DEF Range
  <2>6. IsConst(h.var) => prog.body[b][k] \in AtConstants(prog)
    BY <2>2, <2>5 DEF AtConstants
  <2> QED
    BY <2>2, <2>4, <2>6
<1>2. IsCheck(g)
  BY <1>1
<1>3. ASSUME Sound(prog), NEW h \in Known, IsConst(g.var), IsConst(h.var) PROVE g.array = h.array
  BY <1>1, <1>3 DEF Sound
<1> QED
  BY <1>2, <1>3

LEMMA WeakerSelf == ASSUME NEW g, IsCheck(g) PROVE Weaker(g, g)
  BY BlockProgramAssumption DEF IsCheck, Weaker

LEMMA WeakerChain ==
    ASSUME NEW g, NEW h, NEW c, IsCheck(g), IsCheck(h), IsCheck(c), Weaker(g, h), Weaker(h, c)
    PROVE  Weaker(g, c)
<1>1. Limit[g.array] \in Int /\ Limit[h.array] \in Int /\ Limit[c.array] \in Int
  BY BlockProgramAssumption DEF IsCheck
<1>2. CASE IsConst(g.var)
  <2>1. g.var[2] \in Int /\ h.var[2] \in Int /\ c.var[2] \in Int
    BY <1>2, BlockProgramAssumption DEF IsCheck, Weaker
  <2> QED
    BY <1>2, <2>1 DEF Weaker
<1>3. CASE ~IsConst(g.var)
  BY <1>1, <1>3 DEF Weaker
<1> QED
  BY <1>2, <1>3

LEMMA WeakerHolds ==
    ASSUME NEW g, NEW h, IsCheck(g), IsCheck(h), Weaker(g, h),
           IsConst(g.var) => g.array = h.array,
           NEW e \in [Variables -> Int], Holds(h, e)
    PROVE  Holds(g, e)
<1>1. Limit[g.array] \in Int /\ Limit[h.array] \in Int
  BY BlockProgramAssumption DEF IsCheck
<1>2. CASE IsConst(g.var)
  <2>1. g.var[2] \in Int /\ h.var[2] \in Int /\ IsConst(h.var)
    BY <1>2, BlockProgramAssumption DEF IsCheck, Weaker
  <2> QED
    BY <1>1, <1>2, <2>1 DEF Weaker, Holds
<1>3. CASE ~IsConst(g.var)
  <2>1. g.var \in Variables /\ h.var = g.var /\ e[g.var] \in Int
    BY <1>3 DEF IsCheck, Weaker
  <2> QED
    BY <1>1, <1>3, <2>1 DEF Weaker, Holds
<1> QED
  BY <1>2, <1>3

\* Of two checks that are alike one is stricter, or they say the same.
LEMMA AlikeCompared ==
    ASSUME NEW g, NEW h, IsCheck(g), IsCheck(h), Alike(g, h), Arrays = Static
    PROVE  IF Stricter(g, h) THEN Weaker(h, g) ELSE Weaker(g, h)
<1>1. Limit[g.array] \in Int /\ Limit[h.array] \in Int
  BY BlockProgramAssumption DEF IsCheck
<1>2. CASE IsConst(g.var)
  <2>1. g.var[2] \in Int /\ h.var[2] \in Int /\ IsConst(h.var)
    BY <1>2, BlockProgramAssumption DEF IsCheck, Alike
  <2> QED
    BY <1>2, <2>1 DEF Weaker, Alike, Stricter, IsCheck
<1>3. CASE ~IsConst(g.var)
  BY <1>1, <1>3 DEF Weaker, Alike, Stricter, IsCheck
<1> QED
  BY <1>2, <1>3

LEMMA PassesWeaker ==
    ASSUME NEW g, NEW h, IsCheck(g), IsCheck(h), Weaker(g, h), NEW b, Passes(b, h) PROVE Passes(b, g)
<1>1. CASE IsConst(g.var)
  <2>1. g.var \notin StoreSet(b)
    BY <1>1, BlockProgramAssumption DEF StoreSet
  <2> QED
    BY <2>1 DEF Passes, Survives
<1>2. CASE ~IsConst(g.var)
  BY <1>2 DEF Weaker, Passes, Survives
<1> QED
  BY <1>1, <1>2

LEMMA CarriesWeaker ==
    ASSUME Generated, NEW g, NEW h, IsCheck(g), IsCheck(h), Weaker(g, h), NEW some, Carries(some, h)
    PROVE  Carries(some, g)
<1>1. ASSUME NEW b \in some, Generates(b, h) PROVE Generates(b, g)
  <2>1. PICK c \in Range(globals[b]) : Weaker(h, c)
    BY <1>1 DEF Generates
  <2>2. b \in Blocks(prog)
    BY DEF Carries
  <2>3. c \in Known
    BY <2>1, <2>2 DEF Known
  <2>4. Weaker(g, c)
    BY <2>1, <2>3, WeakerChain, KnownAreChecks
  <2> QED
    BY <2>1, <2>4 DEF Generates
<1>2. ASSUME NEW b \in some, Passes(b, h) PROVE Passes(b, g)
  BY <1>2, PassesWeaker
<1> QED
  BY <1>1, <1>2 DEF Carries

LEMMA CarriesUnion ==
    ASSUME NEW g, NEW sets, \A some \in sets : Carries(some, g) PROVE Carries(UNION sets, g)
  BY DEF Carries

-----------------------------------------------------------------------------
(***************************************************************************)
(* identifyInSet and identifyOutSet.                                       *)
(***************************************************************************)
LEMMA FirstAlikeFound ==
    ASSUME NEW X, NEW seq \in Seq(X), NEW g, FirstAlike(seq, g) # 0
    PROVE  FirstAlike(seq, g) \in DOMAIN seq /\ Alike(g, seq[FirstAlike(seq, g)])
<1> DEFINE T == {n \in DOMAIN seq : Alike(g, seq[n])}
<1>1. T # {} /\ FirstAlike(seq, g) = CHOOSE n \in T : \A m \in T : n <= m
  BY DEF FirstAlike
<1>2. \E n \in T : \A m \in T : n <= m
  <2>1. T \in SUBSET Nat
    OBVIOUS
  <2> HIDE DEF T
  <2> QED
    BY <1>1, <2>1, LeastNat
<1>3. FirstAlike(seq, g) \in T
  <2> HIDE DEF T
  <2> QED
    BY <1>1, <1>2
<1> QED
  BY <1>3

\* Something is checked in a block that says as much.
Has(p, r) == outSet[p].all \/ \E h \in Range(outSet[p].checks) : Weaker(r, h)
Proposed(b, r) == \E p \in Preds(prog, b) : ~outSet[p].all /\ r \in Range(outSet[p].checks)
OutsKnown == \A b \in Blocks(prog) : outSet[b].checks \in Seq(Known)

LEMMA WeakenAtGives ==
    ASSUME Generated, OutsKnown, Arrays = Static, NEW b \in Blocks(prog), NEW p \in Preds(prog, b),
           NEW r \in Known, Proposed(b, r)
    PROVE  \/ WeakenAt(p, <<r>>) = << >>
           \/ \E s \in Known : WeakenAt(p, <<r>>) = <<s>> /\ Proposed(b, s) /\ Weaker(s, r) /\ Has(p, s)
<1> DEFINE out == outSet[p].checks
           n == FirstAlike(out, r)
<1>1. out \in Seq(Known) /\ IsCheck(r)
  BY Shape, KnownAreChecks DEF OutsKnown, Generated
<1>2. <<r>>[1] = r /\ <<r>> # << >>
  OBVIOUS
<1>3. CASE outSet[p].all
  <2>1. WeakenAt(p, <<r>>) = <<r>>
    BY <1>3 DEF WeakenAt
  <2> QED
    BY <1>1, <1>3, <2>1, WeakerSelf DEF Has
<1>4. CASE ~outSet[p].all /\ n = 0
  BY <1>2, <1>4 DEF WeakenAt
<1>5. CASE ~outSet[p].all /\ n # 0
  <2>1. n \in DOMAIN out /\ Alike(r, out[n])
    BY <1>1, <1>5, FirstAlikeFound
  <2>2. out[n] \in Known /\ out[n] \in Range(out)
    BY <1>1, <2>1 DEF Range
  <2>3. IsCheck(out[n])
    BY <2>2, KnownAreChecks
  <2>4. IF Stricter(r, out[n]) THEN Weaker(out[n], r) ELSE Weaker(r, out[n])
    BY <1>1, <2>1, <2>3, AlikeCompared
  <2>5. WeakenAt(p, <<r>>) = IF Stricter(r, out[n]) THEN <<out[n]>> ELSE <<r>>
    BY <1>2, <1>5 DEF WeakenAt
  <2>6. Proposed(b, out[n])
    BY <1>5, <2>2 DEF Proposed
  <2> HIDE DEF n
  <2>7. Weaker(r, r) /\ Weaker(out[n], out[n])
    BY <1>1, <2>3, WeakerSelf
  <2> QED
    BY <2>2, <2>4, <2>5, <2>6, <2>7 DEF Has
<1> QED
  BY <1>3, <1>4, <1>5

\* What identifyInSet has weakened is checked in each block before, as far
\* as the blocks before have been visited.
InFrom(b) == {r \in Known : Proposed(b, r) /\ \A p \in Preds(prog, b) : Has(p, r)}

LEMMA InAllGives ==
    ASSUME Generated, OutsKnown, Arrays = Static, NEW b \in Blocks(prog), NEW g \in Known, Proposed(b, g)
    PROVE  InAll(b, g) \in Seq(InFrom(b))
<1> DEFINE N == Len(prog.preds[b])
           Is(f) == f = [n \in 0 .. N |-> IF n = 0 THEN <<g>> ELSE WeakenAt(prog.preds[b][n], f[n - 1])]
           found == CHOOSE f : Is(f)
           X == {<< >>} \cup {<<r>> : r \in {s \in Known : Proposed(b, s)}}
           F == [n \in 1 .. N |-> [q \in X |-> WeakenAt(prog.preds[b][n], q)]]
<1>1. N \in Nat /\ \A n \in 1 .. N : prog.preds[b][n] \in Preds(prog, b)
  <2>1. prog.preds[b] \in Seq(Blocks(prog))
    BY Shape DEF Generated
  <2> QED
    BY <2>1 DEF Preds
<1>2. ASSUME NEW p \in Preds(prog, b), NEW q \in X
      PROVE  /\ WeakenAt(p, q) \in X
             /\ \A s : WeakenAt(p, q) = <<s>> =>
                         s \in Known /\ Proposed(b, s) /\ \E r \in Known : q = <<r>> /\ Weaker(s, r) /\ Has(p, s)
  <2>1. CASE q = << >>
    <3>1. WeakenAt(p, q) = << >>
      BY <2>1 DEF WeakenAt
    <3> QED
      BY <3>1
  <2>2. CASE q # << >>
    <3>1. PICK r \in Known : q = <<r>> /\ Proposed(b, r)
      BY <2>2
    <3>2. CASE WeakenAt(p, q) = << >>
      BY <3>2
    <3>3. CASE WeakenAt(p, q) # << >>
      <4>1. PICK s \in Known : WeakenAt(p, q) = <<s>> /\ Proposed(b, s) /\ Weaker(s, r) /\ Has(p, s)
        BY <3>1, <3>3, WeakenAtGives
      <4> QED
        BY <3>1, <4>1
    <3> QED
      BY <3>2, <3>3
  <2> QED
    BY <2>1, <2>2
<1>3. PICK h \in [0 .. N -> X] : Is(h)
  <2>1. F \in [1 .. N -> [X -> X]] /\ <<g>> \in X
    BY <1>1, <1>2
  <2>2. PICK h \in [0 .. N -> X] : IsRecursion(h, N, <<g>>, F)
    <3> HIDE DEF F, X, N
    <3> QED
      BY <1>1, <2>1, RecursionExists
  <2>3. ASSUME NEW n \in 0 .. N
        PROVE  h[n] = IF n = 0 THEN <<g>> ELSE WeakenAt(prog.preds[b][n], h[n - 1])
    <3>1. h[n] = IF n = 0 THEN <<g>> ELSE F[n][h[n - 1]]
      <4> HIDE DEF F, X
      <4> QED
        BY <2>2 DEF IsRecursion
    <3>2. n # 0 => n \in 1 .. N /\ n - 1 \in 0 .. N /\ h[n - 1] \in X
      BY <1>1
    <3> HIDE DEF X
    <3>3. n # 0 => F[n][h[n - 1]] = WeakenAt(prog.preds[b][n], h[n - 1])
      BY <3>2
    <3> QED
      BY <3>1, <3>3
  <2>4. h = [n \in 0 .. N |-> h[n]]
    OBVIOUS
  <2> HIDE DEF X, F
  <2>5. Is(h)
    BY <2>3, <2>4, Zenon
  <2> QED
    BY <2>5
<1>4. Is(found) /\ InAll(b, g) = found[N]
  BY <1>3, Zenon DEF InAll
<1> HIDE DEF found
<1> DEFINE Good(n) == found[n] = << >> \/ \E r \in Known :
                        found[n] = <<r>> /\ Proposed(b, r) /\ \A m \in 1 .. n : Has(prog.preds[b][m], r)
           T == {n \in 0 .. N : ~Good(n)}
<1>5. T = {}
  <2> SUFFICES ASSUME T # {} PROVE FALSE
    OBVIOUS
  <2>1. PICK n \in T : \A m \in T : n <= m
    <3>1. T \in SUBSET Nat
      BY <1>1
    <3> HIDE DEF T
    <3> QED
      BY <3>1, LeastNat
  <2>2. n \in 0 .. N /\ ~Good(n) /\ found[n] = IF n = 0 THEN <<g>> ELSE WeakenAt(prog.preds[b][n], found[n - 1])
    BY <1>4, <2>1
  <2>3. CASE n = 0
    BY <2>2, <2>3
  <2>4. CASE n # 0
    <3>1. n - 1 \in 0 .. N /\ n \in 1 .. N
      BY <1>1, <2>2, <2>4
    <3>2. Good(n - 1)
      BY <2>1, <3>1
    <3> DEFINE p == prog.preds[b][n]
    <3>3. p \in Preds(prog, b) /\ found[n] = WeakenAt(p, found[n - 1]) /\ found[n - 1] \in X
      BY <1>1, <2>2, <2>4, <3>1, <3>2
    <3>4. CASE found[n] = << >>
      BY <2>2, <3>4
    <3>5. CASE found[n] # << >>
      <4>1. found[n] \in X
        BY <1>2, <3>3
      <4>2. PICK s \in Known : found[n] = <<s>>
        BY <3>5, <4>1
      <4>3. Proposed(b, s) /\ \E r \in Known : found[n - 1] = <<r>> /\ Weaker(s, r) /\ Has(p, s)
        <5>1. \A c : WeakenAt(p, found[n - 1]) = <<c>> =>
                c \in Known /\ Proposed(b, c) /\ \E r \in Known : found[n - 1] = <<r>> /\ Weaker(c, r) /\ Has(p, c)
          BY <1>2, <3>3
        <5> HIDE DEF X, p
        <5> QED
          BY <5>1, <3>3, <4>2
      <4>4. PICK r \in Known : found[n - 1] = <<r>> /\ Weaker(s, r) /\ Has(p, s)
        BY <4>3
      <4>5. \A m \in 1 .. n - 1 : Has(prog.preds[b][m], r)
        BY <3>2, <4>4
      <4>6. ASSUME NEW m \in 1 .. n PROVE Has(prog.preds[b][m], s)
        <5>1. CASE m = n
          BY <4>4, <5>1
        <5>2. CASE m # n
          <6>1. m \in 1 .. n - 1
            BY <3>1, <5>2
          <6>2. Has(prog.preds[b][m], r) /\ prog.preds[b][m] \in Blocks(prog)
            BY <1>1, <3>1, <4>5, <6>1, Shape DEF Generated
          <6>3. CASE outSet[prog.preds[b][m]].all
            BY <6>3 DEF Has
          <6>4. CASE ~outSet[prog.preds[b][m]].all
            <7>1. PICK c \in Range(outSet[prog.preds[b][m]].checks) : Weaker(r, c)
              BY <6>2, <6>4 DEF Has
            <7>2. c \in Known
              BY <6>2, <7>1 DEF OutsKnown, Range
            <7>3. Weaker(s, c)
              BY <4>4, <7>1, <7>2, WeakerChain, KnownAreChecks
            <7> QED
              BY <7>1, <7>3 DEF Has
          <6> QED
            BY <6>3, <6>4
        <5> QED
          BY <5>1, <5>2
      <4> QED
        BY <2>2, <4>2, <4>3, <4>6
    <3> QED
      BY <3>4, <3>5
  <2> QED
    BY <2>3, <2>4
<1>6. Good(N)
  BY <1>1, <1>5
<1>7. CASE found[N] = << >>
  <2>1. InAll(b, g) = << >>
    BY <1>4, <1>7
  <2> HIDE DEF N
  <2> QED
    BY <2>1
<1>8. CASE found[N] # << >>
  <2>1. PICK r \in Known : found[N] = <<r>> /\ Proposed(b, r) /\ \A m \in 1 .. N : Has(prog.preds[b][m], r)
    BY <1>6, <1>8
  <2>2. \A p \in Preds(prog, b) : \E m \in 1 .. N : p = prog.preds[b][m]
    BY Shape DEF Preds, Generated
  <2>3. r \in InFrom(b)
    BY <2>1, <2>2 DEF InFrom
  <2>4. InAll(b, g) = <<r>>
    BY <1>4, <2>1
  <2> HIDE DEF N
  <2> QED
    BY <2>3, <2>4
<1> QED
  BY <1>7, <1>8

LEMMA InSetGives ==
    ASSUME Generated, OutsKnown, Arrays = Static, NEW b \in Blocks(prog)
    PROVE  /\ IdentifyInSet(b).all <=> \A p \in Preds(prog, b) : outSet[p].all
           /\ IdentifyInSet(b).checks \in Seq(InFrom(b))
<1> DEFINE open == {n \in DOMAIN prog.preds[b] : ~outSet[prog.preds[b][n]].all}
           first == prog.preds[b][CHOOSE n \in open : \A m \in open : n <= m]
           parts == [n \in DOMAIN outSet[first].checks |-> InAll(b, outSet[first].checks[n])]
<1>1. IdentifyInSet(b) = IF open = {} THEN [checks |-> << >>, all |-> TRUE]
                         ELSE [checks |-> FlattenSeq(parts), all |-> FALSE]
  BY Zenon DEF IdentifyInSet
<1>2. prog.preds[b] \in Seq(Blocks(prog))
  BY Shape DEF Generated
<1>3. open = {} <=> \A p \in Preds(prog, b) : outSet[p].all
  BY DEF Preds
<1>4. CASE open = {}
  <2>1. IdentifyInSet(b).all /\ IdentifyInSet(b).checks = << >>
    <3> HIDE DEF open, parts
    <3> QED
      BY <1>1, <1>4
  <2> HIDE DEF open
  <2> QED
    BY <1>3, <1>4, <2>1
<1>5. CASE open # {}
  <2>1. \E n \in open : \A m \in open : n <= m
    <3>1. open \in SUBSET Nat
      BY <1>2
    <3> HIDE DEF open
    <3> QED
      BY <1>5, <3>1, LeastNat
  <2>2. first \in Preds(prog, b) /\ ~outSet[first].all
    <3> DEFINE n == CHOOSE n \in open : \A m \in open : n <= m
    <3>1. n \in open
      <4> HIDE DEF open
      <4> QED
        BY <2>1
    <3>2. first = prog.preds[b][n]
      OBVIOUS
    <3> HIDE DEF n, first
    <3> QED
      BY <3>1, <3>2 DEF Preds
  <2> HIDE DEF first
  <2>3. first \in Blocks(prog) /\ outSet[first].checks \in Seq(Known)
    BY <1>2, <2>2 DEF OutsKnown, Preds
  <2>4. ASSUME NEW n \in DOMAIN outSet[first].checks PROVE InAll(b, outSet[first].checks[n]) \in Seq(InFrom(b))
    <3> DEFINE g == outSet[first].checks[n]
    <3>1. g \in Known /\ g \in Range(outSet[first].checks)
      BY <2>3, <2>4 DEF Range
    <3>2. Proposed(b, g)
      BY <2>2, <3>1 DEF Proposed
    <3> HIDE DEF g
    <3>3. InAll(b, g) \in Seq(InFrom(b))
      BY <3>1, <3>2, InAllGives
    <3> QED
      BY <3>3 DEF g
  <2>5. parts \in Seq(Seq(InFrom(b)))
    <3>1. DOMAIN outSet[first].checks = 1 .. Len(outSet[first].checks) /\ Len(outSet[first].checks) \in Nat
      BY <2>3
    <3> QED
      BY <2>4, <3>1
  <2>6. IdentifyInSet(b).checks = FlattenSeq(parts) /\ ~IdentifyInSet(b).all
    <3> HIDE DEF parts, open
    <3> QED
      BY <1>1, <1>5
  <2> HIDE DEF open, parts
  <2> QED
    BY <1>3, <1>5, <2>5, <2>6, FlattenTyped
<1> QED
  BY <1>4, <1>5

\* What a block generates, and what it lets through of its in set.
OutFrom(b, X) == Range(globals[b]) \cup {g \in X : Passes(b, g)}

LEMMA OutChecksGives ==
    ASSUME Generated, NEW b \in Blocks(prog), NEW X, NEW in, in.checks \in Seq(X)
    PROVE  OutChecks(b, in) \in Seq(OutFrom(b, X))
<1> DEFINE N == Len(globals[b])
           Y == OutFrom(b, X)
           Is(f) == f = [n \in 0 .. N |-> IF n = 0 THEN Surviving(b, in) ELSE Merge(f[n - 1], globals[b][n])]
           out == CHOOSE f : Is(f)
           F == [n \in 1 .. N |-> [q \in Seq(Y) |-> Merge(q, globals[b][n])]]
<1>1. N \in Nat /\ \A n \in 1 .. N : globals[b][n] \in Y
  BY DEF Generated, OutFrom, Range
<1>2. ASSUME NEW q \in Seq(Y), NEW n \in 1 .. N PROVE Merge(q, globals[b][n]) \in Seq(Y)
  <2> DEFINE m == FirstAlike(q, globals[b][n])
  <2>1. m # 0 => m \in DOMAIN q
    <3> HIDE DEF Y
    <3> QED
      BY <1>2, FirstAlikeFound
  <2>2. globals[b][n] \in Y
    BY <1>1
  <2>3. Merge(q, globals[b][n]) \in {Append(q, globals[b][n]), [q EXCEPT ![m] = globals[b][n]], q}
    BY DEF Merge
  <2>4. m # 0 => [q EXCEPT ![m] = globals[b][n]] \in Seq(Y)
    <3> HIDE DEF Y, m
    <3> QED
      BY <2>1, <2>2
  <2>5. m = 0 => Merge(q, globals[b][n]) = Append(q, globals[b][n])
    BY DEF Merge
  <2> HIDE DEF Y, m
  <2>6. Append(q, globals[b][n]) \in Seq(Y)
    BY <2>2
  <2> QED
    BY <2>3, <2>4, <2>5, <2>6
<1>3. Surviving(b, in) \in Seq(Y)
  <2> DEFINE parts == [n \in DOMAIN in.checks |-> IF Survives(b, in.checks[n]) THEN <<in.checks[n]>> ELSE << >>]
  <2>1. CASE KillAll(b) \/ b = Entry(prog)
    <3>1. Surviving(b, in) = << >>
      BY <2>1 DEF Surviving
    <3> HIDE DEF Y
    <3> QED
      BY <3>1
  <2>2. CASE ~(KillAll(b) \/ b = Entry(prog))
    <3>1. Surviving(b, in) = FlattenSeq(parts)
      BY <2>2, Zenon DEF Surviving
    <3>2. \A n \in DOMAIN in.checks : parts[n] \in Seq(Y)
      <4> SUFFICES ASSUME NEW n \in DOMAIN in.checks PROVE parts[n] \in Seq(Y)
        OBVIOUS
      <4>1. Survives(b, in.checks[n]) => in.checks[n] \in Y
        BY <2>2 DEF OutFrom, Passes
      <4> HIDE DEF Y
      <4> QED
        BY <4>1
    <3>3. DOMAIN in.checks = 1 .. Len(in.checks) /\ Len(in.checks) \in Nat
      OBVIOUS
    <3>4. parts \in Seq(Seq(Y))
      <4>1. DOMAIN parts = 1 .. Len(in.checks) /\ parts = [n \in 1 .. Len(in.checks) |-> parts[n]]
        BY <3>3
      <4> HIDE DEF parts, Y
      <4> QED
        BY <3>2, <3>3, <4>1
    <3> HIDE DEF parts, Y
    <3> QED
      BY <3>1, <3>4, FlattenTyped
  <2> QED
    BY <2>1, <2>2
<1>4. PICK h \in [0 .. N -> Seq(Y)] : Is(h)
  <2>1. F \in [1 .. N -> [Seq(Y) -> Seq(Y)]]
    BY <1>2
  <2>2. PICK h \in [0 .. N -> Seq(Y)] : IsRecursion(h, N, Surviving(b, in), F)
    <3> HIDE DEF F, Y, N
    <3> QED
      BY <1>1, <1>3, <2>1, RecursionExists
  <2>3. ASSUME NEW n \in 0 .. N
        PROVE  h[n] = IF n = 0 THEN Surviving(b, in) ELSE Merge(h[n - 1], globals[b][n])
    <3>1. h[n] = IF n = 0 THEN Surviving(b, in) ELSE F[n][h[n - 1]]
      <4> HIDE DEF F, Y
      <4> QED
        BY <2>2 DEF IsRecursion
    <3>2. n # 0 => n \in 1 .. N /\ n - 1 \in 0 .. N /\ h[n - 1] \in Seq(Y)
      BY <1>1
    <3> HIDE DEF Y
    <3>3. n # 0 => F[n][h[n - 1]] = Merge(h[n - 1], globals[b][n])
      BY <3>2
    <3> QED
      BY <3>1, <3>3
  <2>4. h = [n \in 0 .. N |-> h[n]]
    OBVIOUS
  <2> HIDE DEF Y, F
  <2>5. Is(h)
    BY <2>3, <2>4, Zenon
  <2> QED
    BY <2>5
<1>5. Is(out) /\ OutChecks(b, in) = out[N]
  BY <1>4, Zenon DEF OutChecks
<1> HIDE DEF out, Y
<1> DEFINE T == {n \in 0 .. N : out[n] \notin Seq(Y)}
<1>6. T = {}
  <2> SUFFICES ASSUME T # {} PROVE FALSE
    OBVIOUS
  <2>1. PICK n \in T : \A m \in T : n <= m
    <3>1. T \in SUBSET Nat
      BY <1>1
    <3> HIDE DEF T
    <3> QED
      BY <3>1, LeastNat
  <2>2. n \in 0 .. N /\ out[n] \notin Seq(Y) /\ out[n] = IF n = 0 THEN Surviving(b, in) ELSE Merge(out[n - 1], globals[b][n])
    BY <1>5, <2>1
  <2>3. n # 0 => n \in 1 .. N /\ out[n - 1] \in Seq(Y)
    BY <1>1, <2>1, <2>2
  <2> QED
    BY <1>2, <1>3, <2>2, <2>3
<1>7. N \in 0 .. N
  BY <1>1
<1>8. out[N] \in Seq(Y)
  BY <1>6, <1>7
<1> QED
  BY <1>5, <1>8 DEF Y

LEMMA BlocksFinite == ASSUME prog \in Programs PROVE IsFiniteSet(Blocks(prog))
<1>1. prog.blocks \in Seq(Blocks(prog))
  BY BlockProgramAssumption DEF Wellformed
<1>2. IsFiniteSet(DOMAIN prog.blocks) /\ prog.blocks \in [DOMAIN prog.blocks -> Blocks(prog)]
  BY <1>1, FS_Interval
<1>3. prog.blocks \in Surjection(DOMAIN prog.blocks, Blocks(prog))
  BY <1>2 DEF Surjection, Blocks
<1> QED
  BY <1>2, <1>3, FS_Surjection

LEMMA InLoopClosed ==
    ASSUME prog \in Programs, NEW b \in Blocks(prog), NEW q \in Blocks(prog)
    PROVE  /\ q \in InLoop(prog, b, q) /\ InLoop(prog, b, q) \subseteq Blocks(prog)
           /\ \A c \in InLoop(prog, b, q) \ {b} : Preds(prog, c) \subseteq InLoop(prog, b, q)
<1> DEFINE next == [c \in Blocks(prog) |-> IF c = b THEN {} ELSE Preds(prog, c)]
<1>1. DOMAIN next = Blocks(prog) /\ IsFiniteSet(DOMAIN next)
  BY BlocksFinite
<1>2. \A c \in DOMAIN next : next[c] \subseteq DOMAIN next
  BY Shape
<1>3. {q} \subseteq DOMAIN next
  OBVIOUS
<1>4. InLoop(prog, b, q) = Found(next, {q})
  BY Zenon DEF InLoop
<1>5. /\ {q} \subseteq Found(next, {q}) /\ Found(next, {q}) \subseteq DOMAIN next
      /\ \A c \in Found(next, {q}) : next[c] \subseteq Found(next, {q})
  <2> HIDE DEF next
  <2> QED
    BY <1>1, <1>2, <1>3, FoundIsClosed
<1>6. \A c \in Blocks(prog) \ {b} : next[c] = Preds(prog, c)
  OBVIOUS
<1> HIDE DEF next
<1> QED
  BY <1>1, <1>4, <1>5, <1>6

\* All blocks that carry a check, the most there can be.
Carrier(g) == UNION {some \in SUBSET Blocks(prog) : Carries(some, g)}

LEMMA CarrierCarries ==
    ASSUME NEW g
    PROVE  /\ Carrier(g) \in SUBSET Blocks(prog) /\ Carries(Carrier(g), g)
           /\ \A some : Carries(some, g) => some \subseteq Carrier(g)
  BY DEF Carries, Carrier

LEMMA CarriedByCarrier ==
    ASSUME NEW g \in Known, NEW b \in Blocks(prog)
    PROVE  /\ g \in CarriedOut(b) <=> b \in Carrier(g)
           /\ g \in CarriedIn(b) <=> b # Entry(prog) /\ Preds(prog, b) \subseteq Carrier(g)
<1> USE CarrierCarries
<1>1. g \in CarriedOut(b) <=> b \in Carrier(g)
  BY DEF CarriedOut
<1>2. g \in CarriedIn(b) <=> b # Entry(prog) /\ Preds(prog, b) \subseteq Carrier(g)
  BY DEF CarriedIn
<1> QED
  BY <1>1, <1>2

\* What is in the sets of the blocks visited is carried.
VisitedCarry ==
    \A b \in Blocks(prog) : outSet[b].checks \in Seq(CarriedOut(b))

LEMMA OutsAreKnown == ASSUME VisitedCarry PROVE OutsKnown
<1>1. \A b \in Blocks(prog) : CarriedOut(b) \subseteq Known
  BY DEF CarriedOut
<1> QED
  BY <1>1 DEF VisitedCarry, OutsKnown

\* A check of the in set that a block before has: the block carries it.
LEMMA HasCarries ==
    ASSUME Generated, VisitedCarry, NEW p \in Blocks(prog), NEW r \in Known, Has(p, r), ~outSet[p].all
    PROVE  p \in Carrier(r)
<1>1. PICK h \in Range(outSet[p].checks) : Weaker(r, h)
  BY DEF Has
<1>2. h \in CarriedOut(p)
  BY <1>1 DEF VisitedCarry, Range
<1>3. h \in Known /\ p \in Carrier(h)
  BY <1>2, CarriedByCarrier DEF CarriedOut
<1>4. Carries(Carrier(h), r)
  BY <1>1, <1>3, CarrierCarries, CarriesWeaker, KnownAreChecks
<1> QED
  BY <1>3, <1>4, CarrierCarries

\* A loop whose header comes after the check carries it round.
LEMMA LoopCarries ==
    ASSUME Generated, Sound(prog), NEW m \in DOMAIN prog.blocks, NEW b, b = prog.blocks[m], b # Entry(prog),
           NEW r, NEW k \in 1 .. m - 1, r \in Range(globals[prog.blocks[k]]),
           \A p \in Preds(prog, b) : p \in Carrier(r) \/ \E n \in DOMAIN prog.blocks : n >= m /\ p = prog.blocks[n]
    PROVE  Preds(prog, b) \subseteq Carrier(r)
<1> DEFINE tails == {p \in Preds(prog, b) : \E n \in DOMAIN prog.blocks : n >= m /\ p = prog.blocks[n]}
           S == Carrier(r) \cup UNION {InLoop(prog, b, q) : q \in tails}
<1>1. prog \in Programs /\ b \in Blocks(prog) /\ Settled(prog) /\ k \in DOMAIN prog.blocks
  BY Shape DEF Blocks, Generated, Sound
<1>2. tails \subseteq Blocks(prog) /\ tails \subseteq Preds(prog, b)
  BY <1>1, Shape
<1>3. Preds(prog, b) \subseteq S
  BY <1>1, <1>2, InLoopClosed
<1>4. r.var \in CheckedIn(prog, prog.blocks[k])
  <2>1. prog.blocks[k] \in Blocks(prog)
    BY <1>1 DEF Blocks
  <2>2. Faithful(prog.blocks[k], r)
    BY <2>1 DEF Generated
  <2> QED
    BY <2>2 DEF Faithful, CheckedIn
<1>5. ASSUME NEW q \in tails, NEW c \in InLoop(prog, b, q) PROVE Passes(c, r)
  <2>1. PICK n \in DOMAIN prog.blocks : n >= m /\ q = prog.blocks[n]
    OBVIOUS
  <2>2. m <= n /\ prog.blocks[n] \in Preds(prog, prog.blocks[m])
    BY <1>2, <2>1, Shape DEF Generated
  <2>3. c # Entry(prog) /\ \A v \in UNION {CheckedIn(prog, prog.blocks[l]) : l \in 1 .. m - 1} :
                              \A l \in DOMAIN prog.body[c] : ~Spoils(prog.body[c][l], v)
    BY <1>1, <2>1, <2>2 DEF Settled
  <2>4. \A l \in DOMAIN prog.body[c] : ~Spoils(prog.body[c][l], r.var)
    BY <1>4, <2>3
  <2>5. ~KillAll(c) /\ r.var \notin StoreSet(c)
    BY <2>4 DEF KillAll, StoreSet, Spoils
  <2> QED
    BY <2>3, <2>5 DEF Passes, Survives
<1>6. Carries(S, r)
  <2>1. S \subseteq Blocks(prog)
    BY <1>1, <1>2, CarrierCarries, InLoopClosed
  <2>2. ASSUME NEW c \in S PROVE Generates(c, r) \/ (Passes(c, r) /\ Preds(prog, c) \subseteq S)
    <3>1. CASE c \in Carrier(r)
      BY <3>1, CarrierCarries DEF Carries
    <3>2. CASE \E q \in tails : c \in InLoop(prog, b, q)
      <4>1. PICK q \in tails : c \in InLoop(prog, b, q)
        BY <3>2
      <4>2. Passes(c, r)
        BY <1>5, <4>1
      <4>3. CASE c = b
        BY <1>3, <4>2, <4>3
      <4>4. CASE c # b
        <5>1. Preds(prog, c) \subseteq InLoop(prog, b, q)
          BY <1>1, <1>2, <4>1, <4>4, InLoopClosed
        <5> QED
          BY <4>1, <4>2, <5>1
      <4> QED
        BY <4>3, <4>4
    <3> QED
      BY <3>1, <3>2
  <2> QED
    BY <2>1, <2>2 DEF Carries
<1> QED
  BY <1>3, <1>6, CarrierCarries

LEMMA CarriedStays ==
    ASSUME prog' = prog, globals' = globals
    PROVE  /\ Known' = Known /\ \A b : CarriedOut(b)' = CarriedOut(b) /\ CarriedIn(b)' = CarriedIn(b)
           /\ \A b : KillAll(b)' = KillAll(b)
<1>1. Known' = Known
  BY DEF Known
<1>2. \A b, g : (Generates(b, g)' <=> Generates(b, g)) /\ (Passes(b, g)' <=> Passes(b, g))
  BY DEF Generates, Passes, KillAll, Survives, StoreSet
<1>3. \A some, g : Carries(some, g)' <=> Carries(some, g)
  BY <1>2 DEF Carries
<1>4. \A b : CarriedOut(b)' = CarriedOut(b)
  BY <1>1, <1>3 DEF CarriedOut
<1>5. \A b : CarriedIn(b)' = CarriedIn(b)
  BY <1>1, <1>3 DEF CarriedIn
<1> QED
  BY <1>1, <1>4, <1>5 DEF KillAll

LEMMA AddTyped ==
    ASSUME NEW X, NEW old \in Seq(X), NEW new \in Seq(X) PROVE AddAvailable(old, new) \in Seq(X)
<1> DEFINE parts == [n \in DOMAIN new |->
             IF new[n] \in Range(old) \cup {new[m] : m \in 1 .. n - 1} THEN << >> ELSE <<new[n]>>]
<1>1. \A n \in DOMAIN new : parts[n] \in {<< >>, <<new[n]>>}
  OBVIOUS
<1>2. \A n \in DOMAIN new : << >> \in Seq(X) /\ <<new[n]>> \in Seq(X)
  OBVIOUS
<1>3. parts \in Seq(Seq(X))
  <2>1. DOMAIN parts = 1 .. Len(new) /\ Len(new) \in Nat /\ parts = [n \in 1 .. Len(new) |-> parts[n]]
    OBVIOUS
  <2>2. \A n \in 1 .. Len(new) : parts[n] \in Seq(X)
    <3> SUFFICES ASSUME NEW n \in 1 .. Len(new) PROVE parts[n] \in Seq(X)
      OBVIOUS
    <3>1. n \in DOMAIN new
      OBVIOUS
    <3>2. parts[n] \in {<< >>, <<new[n]>>} /\ << >> \in Seq(X) /\ <<new[n]>> \in Seq(X)
      BY <1>1, <1>2, <3>1, Zenon
    <3> HIDE DEF parts
    <3> QED
      BY <3>2
  <2> HIDE DEF parts
  <2> QED
    BY <2>1, <2>2
<1>4. AddAvailable(old, new) = old \o FlattenSeq(parts)
  BY Zenon DEF AddAvailable
<1>5. FlattenSeq(parts) \in Seq(X)
  BY <1>3, FlattenTyped
<1> HIDE DEF parts
<1> QED
  BY <1>4, <1>5

\* A block that is visited gets in and out sets that are carried.
LEMMA NewInCarried ==
    ASSUME Generated, Sound(prog), VisitedCarry, Swept, stage = "sweep", pos \in DOMAIN prog.blocks,
           NEW b, b = prog.blocks[pos], b # Entry(prog)
    PROVE  /\ ~IdentifyInSet(b).all
           /\ IdentifyInSet(b).checks \in Seq(InFrom(b) \cap CarriedIn(b))
<1>1. prog \in Programs /\ b \in Blocks(prog) /\ Arrays = Static /\ Settled(prog) /\ OutsKnown
  BY OutsAreKnown DEF Blocks, Generated, Sound
<1>2. DOMAIN prog.blocks = 1 .. Len(prog.blocks) /\ Len(prog.blocks) \in Nat /\ pos \in Nat
  BY <1>1, Shape
<1>3. ~IdentifyInSet(b).all
  <2>1. pos \in 2 .. Len(prog.blocks)
    BY <1>2 DEF Entry
  <2>2. PICK m \in 1 .. pos - 1 : prog.blocks[m] \in Preds(prog, b)
    BY <1>1, <2>1 DEF Settled
  <2>3. m \in DOMAIN prog.blocks /\ ~(m >= pos) /\ prog.blocks[m] \in Blocks(prog)
    BY <1>2, <2>2 DEF Blocks
  <2>4. ~outSet[prog.blocks[m]].all
    BY <2>3 DEF Swept, FirstSweep
  <2> QED
    BY <1>1, <2>2, <2>4, InSetGives
<1>4. ASSUME NEW r \in InFrom(b) PROVE r \in CarriedIn(b)
  <2>1. r \in Known /\ Proposed(b, r) /\ \A p \in Preds(prog, b) : Has(p, r)
    BY DEF InFrom
  <2>2. \A p \in Preds(prog, b) : p \in Blocks(prog) /\ (~outSet[p].all => p \in Carrier(r))
    BY <1>1, <2>1, Shape, HasCarries
  <2>3. CASE \A p \in Blocks(prog) : ~outSet[p].all
    BY <1>1, <2>1, <2>2, <2>3, CarriedByCarrier
  <2>4. CASE FirstSweep
    <3>1. PICK p \in Preds(prog, b) : r \in Range(outSet[p].checks)
      BY <2>1 DEF Proposed
    <3>2. \A q \in Blocks(prog) : \E n \in DOMAIN prog.blocks : q = prog.blocks[n]
      BY DEF Blocks
    <3>3. PICK k \in 1 .. pos - 1 : r \in Range(globals[prog.blocks[k]])
      BY <2>2, <2>4, <3>1, <3>2 DEF FirstSweep
    <3>4. ASSUME NEW q \in Preds(prog, b)
          PROVE  q \in Carrier(r) \/ \E n \in DOMAIN prog.blocks : n >= pos /\ q = prog.blocks[n]
      BY <2>2, <2>4, <3>2 DEF FirstSweep
    <3>5. Preds(prog, b) \subseteq Carrier(r)
      BY <3>3, <3>4, LoopCarries
    <3> QED
      BY <1>1, <2>1, <3>5, CarriedByCarrier
  <2> QED
    BY <2>3, <2>4 DEF Swept
<1>5. InFrom(b) \cap CarriedIn(b) = InFrom(b)
  BY <1>4
<1> QED
  BY <1>1, <1>3, <1>5, InSetGives

LEMMA OutFromCarried ==
    ASSUME Generated, NEW b \in Blocks(prog) PROVE OutFrom(b, CarriedIn(b)) \subseteq CarriedOut(b)
<1>1. ASSUME NEW g \in Range(globals[b]) PROVE g \in CarriedOut(b)
  <2>1. g \in Known
    BY DEF Known
  <2>2. Generates(b, g)
    BY <2>1, WeakerSelf, KnownAreChecks DEF Generates
  <2>3. Carries({b}, g)
    BY <2>2 DEF Carries
  <2> QED
    BY <2>1, <2>3 DEF CarriedOut
<1>2. ASSUME NEW g \in CarriedIn(b), Passes(b, g) PROVE g \in CarriedOut(b)
  <2>1. g \in Known /\ Preds(prog, b) \subseteq Carrier(g)
    BY CarriedByCarrier DEF CarriedIn
  <2>2. Carries(Carrier(g) \cup {b}, g)
    BY <1>2, <2>1, CarrierCarries DEF Carries
  <2> QED
    BY <2>1, <2>2, CarrierCarries, CarriedByCarrier
<1> QED
  BY <1>1, <1>2 DEF OutFrom

LEMMA VisitCarries ==
    ASSUME Generated, Sound(prog), Swept, Carried, Visit
    PROVE  Swept' /\ Carried'
<1> DEFINE b == prog.blocks[pos]
<1>1. /\ stage = "sweep" /\ pos <= Len(prog.blocks) /\ pos' = pos + 1 /\ stage' = "sweep"
      /\ prog' = prog /\ globals' = globals
  BY DEF Visit
<1>2. prog \in Programs /\ DOMAIN prog.blocks = 1 .. Len(prog.blocks) /\ Len(prog.blocks) \in Nat
  BY Shape DEF Generated
<1>3. pos \in DOMAIN prog.blocks /\ pos \in Nat /\ b \in Blocks(prog)
  BY <1>1, <1>2 DEF Swept, Blocks
<1> DEFINE in == IF b = Entry(prog) \/ KillAll(b) THEN inSet[b] ELSE IdentifyInSet(b)
           new == OutChecks(b, in)
           out == NextOut(b, in, new)
<1>4. inSet' = [inSet EXCEPT ![b] = in] /\ outSet' = [outSet EXCEPT ![b] = out]
  BY DEF Visit, IdentifyOutSet
<1> HIDE DEF b
<1>5. VisitedCarry
  BY DEF Carried, VisitedCarry
<1>6. in.checks \in Seq(CarriedIn(b))
  <2>1. CASE b = Entry(prog) \/ KillAll(b)
    BY <1>3, <2>1 DEF Carried
  <2>2. CASE ~(b = Entry(prog) \/ KillAll(b))
    <3>1. IdentifyInSet(b).checks \in Seq(InFrom(b) \cap CarriedIn(b))
      BY <1>1, <1>3, <1>5, <2>2, NewInCarried DEF b
    <3>2. in = IdentifyInSet(b)
      BY <2>2
    <3> HIDE DEF in
    <3> QED
      BY <3>1, <3>2
  <2> QED
    BY <2>1, <2>2
<1>7. b # Entry(prog) => ~in.all
  <2>1. CASE KillAll(b)
    BY <1>3, <2>1 DEF Swept
  <2>2. CASE b # Entry(prog) /\ ~KillAll(b)
    <3>1. ~IdentifyInSet(b).all
      BY <1>1, <1>3, <1>5, <2>2, NewInCarried DEF b
    <3> QED
      BY <2>2, <3>1
  <2> QED
    BY <2>1, <2>2
<1>8. ~out.all
  <2>1. CASE new # << >>
    BY <2>1 DEF NextOut
  <2>2. CASE new = << >>
    <3>1. out.all = (b # Entry(prog) /\ in.all)
      BY <2>2 DEF NextOut
    <3> HIDE DEF in, out
    <3> QED
      BY <1>7, <3>1
  <2> QED
    BY <2>1, <2>2
<1>9. ASSUME NEW Y, outSet[b].checks \in Seq(Y), new \in Seq(Y) PROVE out.checks \in Seq(Y)
  <2>1. CASE new # << >>
    <3>1. out.checks = AddAvailable(outSet[b].checks, new)
      BY <2>1 DEF NextOut
    <3> HIDE DEF out, new
    <3> QED
      BY <1>9, <3>1, AddTyped
  <2>2. CASE new = << >>
    <3>1. out.checks \in {outSet[b].checks, << >>}
      BY <2>2 DEF NextOut
    <3>2. << >> \in Seq(Y)
      OBVIOUS
    <3> HIDE DEF out, new
    <3> QED
      BY <1>9, <3>1, <3>2, Zenon
  <2> QED
    BY <2>1, <2>2
<1>10. out.checks \in Seq(CarriedOut(b))
  <2>1. new \in Seq(OutFrom(b, CarriedIn(b)))
    <3> HIDE DEF in
    <3> QED
      BY <1>3, <1>6, OutChecksGives
  <2>2. OutFrom(b, CarriedIn(b)) \subseteq CarriedOut(b)
    BY <1>3, OutFromCarried
  <2>3. new \in Seq(CarriedOut(b)) /\ outSet[b].checks \in Seq(CarriedOut(b))
    <3> HIDE DEF new
    <3> QED
      BY <1>3, <2>1, <2>2 DEF Carried
  <2> HIDE DEF out, new
  <2> QED
    BY <1>9, <2>3
<1>11. Carried'
  <2>1. Blocks(prog)' = Blocks(prog) /\ DOMAIN inSet' = Blocks(prog) /\ DOMAIN outSet' = Blocks(prog)
    BY <1>1, <1>4 DEF Carried
  <2> HIDE DEF in, out
  <2>2. ASSUME NEW c \in Blocks(prog)
        PROVE  outSet'[c].checks \in Seq(CarriedOut(c)) /\ inSet'[c].checks \in Seq(CarriedIn(c))
    BY <1>3, <1>4, <1>6, <1>10 DEF Carried
  <2> QED
    BY <1>1, <2>1, <2>2, CarriedStays DEF Carried
<1>12. \A c \in Blocks(prog) : KillAll(c) => ~inSet'[c].all
  <2>1. KillAll(b) => in = inSet[b]
    OBVIOUS
  <2> HIDE DEF in
  <2> QED
    BY <1>3, <1>4, <2>1 DEF Swept, Carried
<1>13. CASE \A c \in Blocks(prog) : ~outSet[c].all
  <2>1. \A c \in Blocks(prog) : ~outSet'[c].all
    <3> HIDE DEF out
    <3> QED
      BY <1>3, <1>4, <1>8, <1>13 DEF Carried
  <2> QED
    BY <1>1, <1>2, <1>3, <1>11, <1>12, <2>1, CarriedStays DEF Swept
<1>14. CASE FirstSweep
  <2>1. \A n \in DOMAIN prog.blocks : prog.blocks[n] \in Blocks(prog) /\ (prog.blocks[n] = b => n = pos)
    BY <1>3, BlockProgramAssumption, <1>2 DEF Blocks, Wellformed, b
  <2>2. \A n \in DOMAIN prog.blocks : outSet'[prog.blocks[n]].all <=> n >= pos + 1
    <3> SUFFICES ASSUME NEW n \in DOMAIN prog.blocks PROVE outSet'[prog.blocks[n]].all <=> n >= pos + 1
      OBVIOUS
    <3> HIDE DEF out
    <3>1. CASE n = pos
      BY <1>3, <1>4, <1>8, <3>1 DEF b, Carried
    <3>2. CASE n # pos
      <4>1. outSet'[prog.blocks[n]] = outSet[prog.blocks[n]]
        BY <1>4, <2>1, <3>2 DEF Carried
      <4>2. n \in Int /\ pos \in Int
        BY <1>2, <1>3
      <4> QED
        BY <1>14, <3>2, <4>1, <4>2 DEF FirstSweep
    <3> QED
      BY <3>1, <3>2
  <2> DEFINE Y == {g \in Known : \E m \in 1 .. pos : g \in Range(globals[prog.blocks[m]])}
  <2>3. \A n \in DOMAIN prog.blocks : outSet[prog.blocks[n]].checks \in Seq(Y)
    <3> SUFFICES ASSUME NEW n \in DOMAIN prog.blocks PROVE outSet[prog.blocks[n]].checks \in Seq(Y)
      OBVIOUS
    <3> DEFINE old == outSet[prog.blocks[n]].checks
    <3>1. old \in Seq(Known)
      BY <1>5, <2>1, OutsAreKnown DEF OutsKnown
    <3>2. \A g \in Range(old) : g \in Y
      <4> SUFFICES ASSUME NEW g \in Range(old) PROVE g \in Y
        OBVIOUS
      <4>1. g \in Known
        <5> HIDE DEF old
        <5> QED
          BY <3>1 DEF Range
      <4>2. PICK m \in 1 .. pos - 1 : g \in Range(globals[prog.blocks[m]])
        BY <1>14 DEF FirstSweep
      <4> QED
        BY <1>3, <4>1, <4>2
    <3> HIDE DEF old, Y
    <3>3. old \in Seq(Y)
      BY <3>1, <3>2 DEF Range
    <3> QED
      BY <3>3 DEF old
  <2>4. new \in Seq(Y)
    <3>1. \A g \in Range(globals[b]) : g \in Y
      <4>1. pos \in 1 .. pos
        BY <1>2, <1>3
      <4> QED
        BY <1>3, <4>1 DEF b, Known
    <3>2. CASE b = Entry(prog) \/ KillAll(b)
      <4>1. new \in Seq(OutFrom(b, CarriedIn(b)))
        <5> HIDE DEF in
        <5> QED
          BY <1>3, <1>6, OutChecksGives
      <4>2. OutFrom(b, CarriedIn(b)) \subseteq Y
        <5> HIDE DEF Y
        <5> QED
          BY <3>1, <3>2 DEF OutFrom, Passes
      <4> HIDE DEF new, Y
      <4> QED
        BY <4>1, <4>2
    <3>3. CASE ~(b = Entry(prog) \/ KillAll(b))
      <4>1. IdentifyInSet(b).checks \in Seq(InFrom(b) \cap CarriedIn(b))
        BY <1>1, <1>3, <1>5, <3>3, NewInCarried DEF b
      <4>2. in = IdentifyInSet(b)
        BY <3>3
      <4> HIDE DEF in
      <4>3. new \in Seq(OutFrom(b, InFrom(b) \cap CarriedIn(b)))
        BY <1>3, <4>1, <4>2, OutChecksGives
      <4>4. InFrom(b) \subseteq Y
        <5> SUFFICES ASSUME NEW r \in InFrom(b) PROVE r \in Y
          OBVIOUS
        <5>1. PICK p \in Preds(prog, b) : r \in Range(outSet[p].checks)
          BY DEF InFrom, Proposed
        <5>2. PICK n \in DOMAIN prog.blocks : p = prog.blocks[n]
          BY <1>2, <1>3, Shape DEF Blocks
        <5>3. outSet[p].checks \in Seq(Y)
          BY <2>3, <5>2
        <5> HIDE DEF Y
        <5> QED
          BY <5>1, <5>3 DEF Range
      <4>5. OutFrom(b, InFrom(b) \cap CarriedIn(b)) \subseteq Y
        <5> HIDE DEF Y
        <5> QED
          BY <3>1, <4>4 DEF OutFrom
      <4> DEFINE Z == OutFrom(b, InFrom(b) \cap CarriedIn(b))
      <4>6. new \in Seq(Z) /\ Z \subseteq Y
        BY <4>3, <4>5
      <4> HIDE DEF new, Y, Z
      <4> QED
        BY <4>6
    <3> QED
      BY <3>2, <3>3
  <2>5. \A n \in DOMAIN prog.blocks : outSet'[prog.blocks[n]].checks \in Seq(Y)
    <3>1. outSet[b].checks \in Seq(Y)
      BY <1>3, <2>3 DEF b
    <3> HIDE DEF Y, new, out
    <3>2. out.checks \in Seq(Y)
      BY <1>9, <2>4, <3>1
    <3> QED
      BY <1>3, <1>4, <2>1, <2>3, <3>2 DEF Carried
  <2>6. ASSUME NEW n \in DOMAIN prog.blocks, NEW g \in Range(outSet'[prog.blocks[n]].checks)
        PROVE  \E m \in 1 .. pos : g \in Range(globals[prog.blocks[m]])
    <3>1. outSet'[prog.blocks[n]].checks \in Seq(Y)
      BY <2>5
    <3>2. g \in Y
      <4> HIDE DEF Y
      <4> QED
        BY <2>6, <3>1 DEF Range
    <3> QED
      BY <3>2
  <2>7. (pos + 1) - 1 = pos
    BY <1>3
  <2>8. FirstSweep'
    BY <1>1, <2>2, <2>6, <2>7 DEF FirstSweep
  <2> QED
    BY <1>1, <1>2, <1>3, <1>11, <1>12, <2>8, CarriedStays DEF Swept
<1> QED
  BY <1>1, <1>13, <1>14 DEF Swept

-----------------------------------------------------------------------------
(***************************************************************************)
(* A run of a block that comes to its end.                                 *)
(***************************************************************************)
Runs == [env : [Variables -> Int], outcome : {"running", "cut", "trapped", "missed"}]

LEMMA EventTyped ==
    ASSUME prog \in Programs, NEW b \in Blocks(prog), NEW k \in DOMAIN prog.body[b], NEW run \in Runs,
           NEW left \in [Variables -> Int]
    PROVE  Event(b, k, run, left) \in Runs
<1> DEFINE I == prog.body[b][k]
<1>1. IsStatement(I)
  BY Shape
<1>2. CASE run.outcome # "running"
  BY <1>2 DEF Event
<1>3. CASE run.outcome = "running" /\ I.op = "call"
  BY <1>3 DEF Event, Runs
<1>4. CASE run.outcome = "running" /\ I.op = "set"
  <2>1. I.var \in Variables /\ I.by \in Int
    BY <1>1, <1>4 DEF IsStatement
  <2> HIDE DEF I
  <2>2. [run EXCEPT !.env[I.var] = I.by] \in Runs
    BY <2>1 DEF Runs
  <2> QED
    BY <1>4, <2>2 DEF Event, I
<1>5. CASE run.outcome = "running" /\ I.op = "add"
  <2>1. I.var \in Variables /\ I.by \in Int
    BY <1>1, <1>5 DEF IsStatement
  <2> HIDE DEF I
  <2>2. [run EXCEPT !.env[I.var] = @ + I.by] \in Runs /\ [run EXCEPT !.outcome = "cut"] \in Runs
    BY <2>1 DEF Runs
  <2> QED
    BY <1>5, <2>2 DEF Event, I
<1>6. CASE run.outcome = "running" /\ I.op \notin {"call", "set", "add"}
  <2>1. [run EXCEPT !.outcome = "trapped"] \in Runs /\ [run EXCEPT !.outcome = "missed"] \in Runs
    BY DEF Runs
  <2> QED
    BY <1>6, <2>1 DEF Event
<1> QED
  BY <1>2, <1>3, <1>4, <1>5, <1>6

\* The states of a run that comes to the end of the block.
AreSteps(run, b, e, left) ==
    /\ run \in [0 .. Len(prog.body[b]) -> Runs]
    /\ run[0].env = e /\ run[Len(prog.body[b])] = RunBlock(b, e, left)
    /\ \A k \in 0 .. Len(prog.body[b]) : run[k].outcome = "running"
    /\ \A k \in 1 .. Len(prog.body[b]) : run[k] = Event(b, k, run[k - 1], left)

LEMMA BlockSteps ==
    ASSUME prog \in Programs, NEW b \in Blocks(prog), NEW e \in [Variables -> Int], NEW left \in [Variables -> Int]
    PROVE  /\ RunBlock(b, e, left) \in Runs
           /\ RunBlock(b, e, left).outcome = "running" => \E run : AreSteps(run, b, e, left)
<1> DEFINE N == Len(prog.body[b])
           start == [env |-> e, outcome |-> "running"]
           Is(f) == f = [k \in 0 .. N |-> IF k = 0 THEN start ELSE Event(b, k, f[k - 1], left)]
           run == CHOOSE f : Is(f)
           F == [k \in 1 .. N |-> [q \in Runs |-> Event(b, k, q, left)]]
<1>1. N \in Nat /\ DOMAIN prog.body[b] = 1 .. N
  BY Shape
<1>2. start \in Runs
  BY DEF Runs
<1>3. \A q \in Runs, k \in 1 .. N : Event(b, k, q, left) \in Runs
  BY <1>1, EventTyped
<1>4. PICK h \in [0 .. N -> Runs] : Is(h)
  <2>1. F \in [1 .. N -> [Runs -> Runs]]
    BY <1>3
  <2>2. PICK h \in [0 .. N -> Runs] : IsRecursion(h, N, start, F)
    <3> HIDE DEF F, start, N
    <3> QED
      BY <1>1, <1>2, <2>1, RecursionExists
  <2>3. ASSUME NEW n \in 0 .. N
        PROVE  h[n] = IF n = 0 THEN start ELSE Event(b, n, h[n - 1], left)
    <3>1. h[n] = IF n = 0 THEN start ELSE F[n][h[n - 1]]
      <4> HIDE DEF F, start
      <4> QED
        BY <2>2 DEF IsRecursion
    <3>4. n # 0 => n \in 1 .. N /\ n - 1 \in 0 .. N
      BY <1>1
    <3>2. n # 0 => n \in 1 .. N /\ n - 1 \in 0 .. N /\ h[n - 1] \in Runs
      <4> HIDE DEF N, start, F
      <4> QED
        BY <2>2, <3>4
    <3>3. n # 0 => F[n][h[n - 1]] = Event(b, n, h[n - 1], left)
      BY <3>2
    <3> HIDE DEF start, F
    <3> QED
      BY <3>1, <3>3
  <2>4. h = [n \in 0 .. N |-> h[n]]
    OBVIOUS
  <2> HIDE DEF F, start
  <2>5. Is(h)
    BY <2>3, <2>4, Zenon
  <2> QED
    BY <2>5
<1>5. Is(run) /\ RunBlock(b, e, left) = run[N]
  BY <1>4, Zenon DEF RunBlock
<1> HIDE DEF run, start
<1> DEFINE T == {n \in 0 .. N : run[n] \notin Runs}
<1>6. T = {}
  <2> SUFFICES ASSUME T # {} PROVE FALSE
    OBVIOUS
  <2>1. PICK n \in T : \A m \in T : n <= m
    <3>1. T \in SUBSET Nat
      BY <1>1
    <3> HIDE DEF T
    <3> QED
      BY <3>1, LeastNat
  <2>2. n \in 0 .. N /\ run[n] \notin Runs /\ run[n] = IF n = 0 THEN start ELSE Event(b, n, run[n - 1], left)
    BY <1>5, <2>1
  <2>3. n # 0 => n \in 1 .. N /\ run[n - 1] \in Runs
    BY <1>1, <2>1, <2>2
  <2> QED
    BY <1>2, <1>3, <2>2, <2>3
<1>7. N \in 0 .. N /\ run[N] \in Runs
  <2>1. N \in 0 .. N
    BY <1>1
  <2> HIDE DEF N
  <2> QED
    BY <1>6, <2>1
<1>8. \A k \in 1 .. N : k - 1 \in 0 .. N /\ run[k] = Event(b, k, run[k - 1], left)
  <2> SUFFICES ASSUME NEW k \in 1 .. N PROVE k - 1 \in 0 .. N /\ run[k] = Event(b, k, run[k - 1], left)
    OBVIOUS
  <2>1. k \in 0 .. N /\ k # 0 /\ k - 1 \in 0 .. N
    BY <1>1
  <2> HIDE DEF N
  <2> QED
    BY <1>5, <2>1
<1>9. ASSUME run[N].outcome = "running" PROVE \A k \in 0 .. N : run[k].outcome = "running"
  <2> DEFINE U == {n \in 0 .. N : run[N - n].outcome # "running"}
  <2>1. U = {}
    <3> SUFFICES ASSUME U # {} PROVE FALSE
      OBVIOUS
    <3>1. PICK n \in U : \A m \in U : n <= m
      <4>1. U \in SUBSET Nat
        BY <1>1
      <4> HIDE DEF U
      <4> QED
        BY <4>1, LeastNat
    <3>2. n \in 0 .. N /\ run[N - n].outcome # "running"
      BY <3>1
    <3>3. n # 0
      BY <1>1, <1>9, <3>2
    <3>4. n - 1 \in 0 .. N /\ run[N - (n - 1)].outcome = "running"
      <4>1. n - 1 \in 0 .. N /\ ~(n <= n - 1)
        BY <1>1, <3>2, <3>3
      <4>2. n - 1 \notin U
        BY <3>1, <4>1
      <4> QED
        BY <4>1, <4>2
    <3> DEFINE k == N - (n - 1)
    <3>5. k \in 1 .. N /\ k - 1 = N - n
      BY <1>1, <3>2, <3>3
    <3>6. run[k] = Event(b, k, run[N - n], left)
      BY <1>8, <3>5
    <3>7. run[k] = run[N - n]
      BY <3>2, <3>6 DEF Event
    <3> QED
      BY <3>2, <3>4, <3>7
  <2>2. ASSUME NEW k \in 0 .. N PROVE run[k].outcome = "running"
    <3>1. N - k \in 0 .. N /\ N - (N - k) = k
      BY <1>1
    <3> QED
      BY <2>1, <3>1
  <2> QED
    BY <2>2
<1>10. run[0].env = e
  BY <1>1, <1>5 DEF start
<1>11. run \in [0 .. N -> Runs]
  BY <1>5, <1>6
<1>12. ASSUME RunBlock(b, e, left).outcome = "running" PROVE AreSteps(run, b, e, left)
  BY <1>5, <1>8, <1>9, <1>10, <1>11, <1>12 DEF AreSteps
<1> QED
  BY <1>5, <1>7, <1>12

\* A check that holds in a block goes on holding while nothing moves its
\* variable to the wrong side.
LEMMA GoesOnHolding ==
    ASSUME prog \in Programs, NEW b \in Blocks(prog), NEW e, NEW left, NEW run, AreSteps(run, b, e, left),
           NEW g, IsCheck(g), NEW k \in 0 .. Len(prog.body[b]), Holds(g, run[k].env),
           \A l \in DOMAIN prog.body[b] : l > k => prog.body[b][l].op # "call" /\ Slides(prog.body[b][l], g)
    PROVE  \A m \in k .. Len(prog.body[b]) : Holds(g, run[m].env)
<1> DEFINE N == Len(prog.body[b])
           T == {m \in k .. N : ~Holds(g, run[m].env)}
<1>1. N \in Nat /\ DOMAIN prog.body[b] = 1 .. N /\ k \in Nat
  BY Shape
<1>2. SUFFICES ASSUME T # {} PROVE FALSE
  OBVIOUS
<1>3. PICK m \in T : \A n \in T : m <= n
  <2>1. T \in SUBSET Nat
    BY <1>1
  <2> HIDE DEF T
  <2> QED
    BY <1>2, <2>1, LeastNat
<1>4. m \in k .. N /\ ~Holds(g, run[m].env) /\ m # k
  BY <1>3
<1>5. m - 1 \in k .. N /\ m - 1 \in 0 .. N /\ m \in 1 .. N /\ m > k /\ ~(m <= m - 1)
  BY <1>1, <1>4
<1>6. Holds(g, run[m - 1].env)
  BY <1>3, <1>5
<1> DEFINE I == prog.body[b][m]
           old == run[m - 1]
<1>7. run[m] = Event(b, m, old, left) /\ old \in Runs /\ old.outcome = "running" /\ run[m].outcome = "running"
  <2>1. m \in 0 .. N
    BY <1>1, <1>5
  <2> HIDE DEF N
  <2> QED
    BY <1>5, <2>1 DEF AreSteps, N
<1>8. IsStatement(I) /\ I.op # "call" /\ Slides(I, g)
  BY <1>1, <1>5, Shape
<1> HIDE DEF I, old
<1>9. IsConst(g.var) \/ run[m].env[g.var] = old.env[g.var] => Holds(g, run[m].env)
  BY <1>6 DEF Holds, old
<1>10. g.var \in Variables /\ ~IsConst(g.var)
  BY <1>4, <1>9, BlockProgramAssumption DEF IsCheck
<1>11. old.env \in [Variables -> Int] /\ old.env[g.var] \in Int
  BY <1>7, <1>10 DEF Runs
<1>12. CASE I.op = "set"
  <2>1. I.var \in Variables /\ g.var # I.var
    BY <1>8, <1>12 DEF IsStatement, Slides, Writes
  <2>2. run[m] = [old EXCEPT !.env[I.var] = I.by]
    BY <1>7, <1>12 DEF Event, I
  <2>3. run[m].env[g.var] = old.env[g.var]
    BY <1>7, <1>11, <2>1, <2>2 DEF Runs
  <2> QED
    BY <1>4, <1>9, <2>3
<1>13. CASE I.op = "add"
  <2>1. I.var \in Variables /\ I.by \in Int
    BY <1>8, <1>13 DEF IsStatement
  <2>2. run[m] = IF old.env[I.var] + I.by \in Values THEN [old EXCEPT !.env[I.var] = @ + I.by] ELSE [old EXCEPT !.outcome = "cut"]
    BY <1>7, <1>13 DEF Event, I
  <2>3. run[m] = [old EXCEPT !.env[I.var] = @ + I.by]
    <3>1. [old EXCEPT !.outcome = "cut"].outcome = "cut"
      BY <1>7 DEF Runs
    <3> QED
      BY <1>7, <2>2, <3>1
  <2>4. CASE g.var # I.var
    <3>1. run[m].env[g.var] = old.env[g.var]
      BY <1>7, <1>11, <2>1, <2>3, <2>4 DEF Runs
    <3> QED
      BY <1>4, <1>9, <3>1
  <2>5. CASE g.var = I.var
    <3>1. run[m].env[g.var] = old.env[g.var] + I.by
      BY <1>7, <1>11, <2>1, <2>3, <2>5 DEF Runs
    <3>2. IF g.upper THEN I.by <= 0 ELSE I.by >= 0
      BY <1>8, <1>13, <2>5 DEF Slides, Writes
    <3>3. Limit[g.array] \in Int
      BY BlockProgramAssumption DEF IsCheck
    <3> QED
      BY <1>4, <1>6, <1>10, <1>11, <2>1, <3>1, <3>2, <3>3 DEF Holds, old
  <2> QED
    BY <2>4, <2>5
<1>14. CASE I.op = "access"
  <2>1. run[m] \in {[old EXCEPT !.outcome = "trapped"], [old EXCEPT !.outcome = "missed"], old}
    BY <1>7, <1>14 DEF Event, I
  <2>2. [old EXCEPT !.outcome = "trapped"].env = old.env /\ [old EXCEPT !.outcome = "missed"].env = old.env
    BY <1>7 DEF Runs
  <2>3. run[m].env = old.env
    BY <2>1, <2>2
  <2> QED
    BY <1>4, <1>9, <2>3
<1> QED
  BY <1>8, <1>12, <1>13, <1>14 DEF IsStatement

\* An access that is passed is inside its array.
LEMMA AccessPassed ==
    ASSUME prog \in Programs, NEW b \in Blocks(prog), NEW e, NEW left, NEW run, AreSteps(run, b, e, left),
           NEW k \in DOMAIN prog.body[b], prog.body[b][k].op = "access"
    PROVE  run[k].env = run[k - 1].env /\ ~Outside(prog.body[b][k], run[k].env)
<1> DEFINE I == prog.body[b][k]
           old == run[k - 1]
<1>1. run[k] = Event(b, k, old, left) /\ old \in Runs /\ old.outcome = "running" /\ run[k].outcome = "running"
  <2>1. k \in 1 .. Len(prog.body[b]) /\ k \in 0 .. Len(prog.body[b]) /\ k - 1 \in 0 .. Len(prog.body[b])
    BY Shape
  <2> QED
    BY <2>1 DEF AreSteps
<1> HIDE DEF old
<1>2. run[k] = IF Traps(ChecksAt(b, k), old.env) THEN [old EXCEPT !.outcome = "trapped"]
               ELSE IF Outside(I, old.env) THEN [old EXCEPT !.outcome = "missed"] ELSE old
  BY <1>1 DEF Event
<1>3. [old EXCEPT !.outcome = "trapped"].outcome = "trapped" /\ [old EXCEPT !.outcome = "missed"].outcome = "missed"
  BY <1>1 DEF Runs
<1> HIDE DEF I
<1>4. run[k] = old /\ ~Outside(I, old.env)
  BY <1>1, <1>2, <1>3
<1> QED
  BY <1>4 DEF old, I

\* At the end of a block what it generates holds.
LEMMA GeneratedHolds ==
    ASSUME prog \in Programs, NEW b \in Blocks(prog), NEW e, NEW left, NEW run, AreSteps(run, b, e, left),
           NEW g, IsCheck(g), Faithful(b, g)
    PROVE  Holds(g, RunBlock(b, e, left).env)
<1>1. PICK k \in DOMAIN prog.body[b] : \A I \in {prog.body[b][k]} :
         /\ I.op = "access" /\ I.var = g.var /\ I.array = g.array
         /\ ~IsConst(g.var) => IF g.upper THEN I.by >= 0 ELSE I.by <= 0
         /\ \A l \in DOMAIN prog.body[b] :
              l > k => prog.body[b][l].op # "call" /\ Slides(prog.body[b][l], g)
  BY DEF Faithful
<1> DEFINE I == prog.body[b][k]
<1>2. k \in 0 .. Len(prog.body[b]) /\ Len(prog.body[b]) \in k .. Len(prog.body[b]) /\ IsStatement(I)
  BY Shape
<1>3. ~Outside(I, run[k].env) /\ run[k] \in Runs
  <2>1. prog.body[b][k].op = "access"
    BY <1>1
  <2>2. ~Outside(prog.body[b][k], run[k].env)
    BY <2>1, AccessPassed
  <2> QED
    BY <1>2, <2>2 DEF AreSteps
<1>4. Limit[g.array] \in Int
  BY BlockProgramAssumption DEF IsCheck
<1>5. Holds(g, run[k].env)
  <2>1. Index(I, run[k].env) \in 0 .. Limit[g.array] /\ I.var = g.var
    BY <1>1, <1>3 DEF Outside
  <2>2. CASE IsConst(g.var)
    BY <1>4, <2>1, <2>2 DEF Index, Holds
  <2>3. CASE ~IsConst(g.var)
    <3>1. g.var \in Variables /\ I.by \in Int /\ run[k].env[g.var] \in Int
      BY <1>1, <1>2, <1>3, <2>3 DEF IsCheck, IsStatement, Runs
    <3>2. IF g.upper THEN I.by >= 0 ELSE I.by <= 0
      BY <1>1, <2>3
    <3> HIDE DEF I
    <3> QED
      BY <1>4, <2>1, <2>3, <3>1, <3>2 DEF Index, Holds
  <2> QED
    BY <2>2, <2>3
<1>6. Holds(g, run[Len(prog.body[b])].env)
  BY <1>1, <1>2, <1>5, GoesOnHolding
<1> QED
  BY <1>6 DEF AreSteps

\* And what held before it and passes it.
LEMMA PassedHolds ==
    ASSUME prog \in Programs, NEW b \in Blocks(prog), NEW e, NEW left, NEW run, AreSteps(run, b, e, left),
           NEW g, IsCheck(g), Passes(b, g), Holds(g, e)
    PROVE  Holds(g, RunBlock(b, e, left).env)
<1>1. 0 \in 0 .. Len(prog.body[b]) /\ Len(prog.body[b]) \in 0 .. Len(prog.body[b])
  BY Shape
<1>2. \A l \in DOMAIN prog.body[b] : prog.body[b][l].op # "call" /\ Slides(prog.body[b][l], g)
  BY SurvivesMeans DEF Passes, KillAll, IsCheck
<1>3. Holds(g, run[Len(prog.body[b])].env)
  BY <1>1, <1>2, GoesOnHolding DEF AreSteps
<1> QED
  BY <1>3 DEF AreSteps

-----------------------------------------------------------------------------
(***************************************************************************)
(* The pass and the run.                                                   *)
(***************************************************************************)
\* What all blocks before the one the run has come to carry holds there.
RunCarried ==
    outcome = "running" /\ at # Entry(prog) =>
        \A g \in Known : Preds(prog, at) \subseteq Carrier(g) => Holds(g, env)
SetsInv ==
    /\ Generated
    /\ at \in Blocks(prog) /\ env \in [Variables -> Int]
    /\ stage # "run" => at = Entry(prog)
    /\ Sound(prog) => Swept /\ Carried /\ RunCarried

LEMMA SetsInvInit == Init => SetsInv
<1> SUFFICES ASSUME Init PROVE SetsInv
  OBVIOUS
<1>1. prog \in Programs /\ at = Entry(prog) /\ stage = "sweep" /\ pos = 1
  BY DEF Init, FlowInit
<1>2. Generated
  <2>1. PICK found : checks = LocalChecks(prog, found)
    BY DEF Init, FlowInit
  <2>2. ASSUME NEW b \in Blocks(prog)
        PROVE  globals[b] \in Seq(Range(globals[b])) /\ \A g \in Range(globals[b]) : Faithful(b, g)
    <3> DEFINE G == {g \in {GlobalCheck(c, upper) : c \in Range(checks[b]), upper \in BOOLEAN} : Faithful(b, g)}
    <3>1. globals[b] \in Seq(G)
      BY <1>1, <2>1, GlobalsFaithful DEF Init, FlowInit
    <3>2. \A g \in Range(globals[b]) : g \in G
      <4> HIDE DEF G
      <4> QED
        BY <3>1 DEF Range
    <3>3. globals[b] \in Seq(Range(globals[b]))
      <4> HIDE DEF G
      <4> QED
        BY <3>1 DEF Range
    <3> QED
      BY <3>2, <3>3
  <2> QED
    BY <1>1, <2>2 DEF Generated
<1>3. at \in Blocks(prog)
  BY <1>1, Shape
<1>4. env \in [Variables -> Int]
  BY DEF Init
<1>5. /\ DOMAIN inSet = Blocks(prog) /\ DOMAIN outSet = Blocks(prog)
      /\ \A b \in Blocks(prog) : /\ inSet[b].checks = << >> /\ ~inSet[b].all
                                 /\ outSet[b].checks = << >> /\ outSet[b].all
  BY DEF Init, FlowInit
<1>6. Carried
  <2>1. \A S : << >> \in Seq(S)
    OBVIOUS
  <2>2. ASSUME NEW b \in Blocks(prog)
        PROVE  outSet[b].checks \in Seq(CarriedOut(b)) /\ inSet[b].checks \in Seq(CarriedIn(b))
    <3>1. outSet[b].checks = << >> /\ inSet[b].checks = << >>
      BY <1>5, <2>2
    <3>2. << >> \in Seq(CarriedOut(b)) /\ << >> \in Seq(CarriedIn(b))
      BY <2>1
    <3> QED
      BY <3>1, <3>2
  <2> QED
    BY <1>5, <2>2 DEF Carried
<1>7. FirstSweep
  <2>1. DOMAIN prog.blocks = 1 .. Len(prog.blocks) /\ \A n \in DOMAIN prog.blocks : prog.blocks[n] \in Blocks(prog)
    BY <1>1, Shape DEF Blocks
  <2>2. Range(<< >>) = {}
    BY DEF Range
  <2> QED
    BY <1>1, <1>5, <2>1, <2>2 DEF FirstSweep
<1>8. Swept
  BY <1>1, <1>5, <1>7, Shape DEF Swept
<1>9. RunCarried
  BY <1>1 DEF RunCarried
<1> QED
  BY <1>1, <1>2, <1>3, <1>4, <1>6, <1>8, <1>9 DEF SetsInv

LEMMA GeneratedStays == ASSUME Generated, prog' = prog, globals' = globals PROVE Generated'
<1>1. \A b, g : Faithful(b, g)' <=> Faithful(b, g)
  BY DEF Faithful
<1> QED
  BY <1>1 DEF Generated

LEMMA CarrierStays == ASSUME prog' = prog, globals' = globals PROVE \A g : Carrier(g)' = Carrier(g)
<1>1. \A b, g : (Generates(b, g)' <=> Generates(b, g)) /\ (Passes(b, g)' <=> Passes(b, g))
  BY DEF Generates, Passes, KillAll, Survives, StoreSet
<1>2. \A some, g : Carries(some, g)' <=> Carries(some, g)
  BY <1>1 DEF Carries
<1> QED
  BY <1>2 DEF Carrier

\* What has come behind the sweeps does not touch the sets.
LEMMA SetsStay ==
    ASSUME SetsInv, prog' = prog, globals' = globals, inSet' = inSet, outSet' = outSet,
           at' = at, env' = env, outcome' = outcome, stage # "run", stage' \notin {"sweep", "run"}
    PROVE  SetsInv'
<1>1. Generated'
  BY GeneratedStays DEF SetsInv
<1>2. Sound(prog) => Swept' /\ Carried'
  BY CarriedStays DEF SetsInv, Swept, Carried
<1>3. RunCarried'
  BY DEF SetsInv, RunCarried
<1> QED
  BY <1>1, <1>2, <1>3 DEF SetsInv

LEMMA RunCarries ==
    ASSUME SetsInv, RunFunction PROVE SetsInv'
<1>1. /\ prog' = prog /\ stage' = "run" /\ globals' = globals /\ inSet' = inSet /\ outSet' = outSet
      /\ stage = "run" /\ outcome = "running"
  BY DEF RunFunction, flow
<1>2. Generated' /\ prog \in Programs
  BY <1>1, GeneratedStays DEF SetsInv, Generated
<1>3. PICK left \in IF KillAll(at) THEN [Variables -> Values] ELSE {env} :
         \E run \in {RunBlock(at, env, left)} :
           /\ env' = run.env
           /\ \/ run.outcome = "running" /\ at' \in Succs(prog, at) /\ outcome' = "running"
              \/ at' = at /\ outcome' # "running"
  <2>1. PICK left \in IF KillAll(at) THEN [Variables -> Values] ELSE {env} :
          LET run == RunBlock(at, env, left)
              ended == IF run.outcome = "running" /\ Traps(ChecksAtEnd(at), run.env)
                       THEN "trapped" ELSE run.outcome
          IN  /\ env' = run.env
              /\ \/ outcome' = ended /\ ended = "running" /\ at' \in Succs(prog, at)
                 \/ outcome' = ended /\ ended # "running" /\ UNCHANGED at
                 \/ ended = "running" /\ Succs(prog, at) = {} /\ outcome' = "returned" /\ UNCHANGED at
    BY DEF RunFunction
  <2> DEFINE run == RunBlock(at, env, left)
             ended == IF run.outcome = "running" /\ Traps(ChecksAtEnd(at), run.env) THEN "trapped" ELSE run.outcome
  <2>2. ended = "running" => run.outcome = "running"
    OBVIOUS
  <2> HIDE DEF run
  <2>3. env' = run.env /\ \/ run.outcome = "running" /\ at' \in Succs(prog, at) /\ outcome' = "running"
                          \/ at' = at /\ outcome' # "running"
    BY <2>1, <2>2 DEF run
  <2> QED
    BY <2>3 DEF run
<1>4. at \in Blocks(prog) /\ env \in [Variables -> Int] /\ left \in [Variables -> Int]
  BY <1>3, ValuesAssumption DEF SetsInv
<1> DEFINE end == RunBlock(at, env, left)
<1>5. end \in Runs /\ (end.outcome = "running" => \E run : AreSteps(run, at, env, left))
  BY <1>2, <1>4, BlockSteps
<1>6. /\ env' = end.env
      /\ \/ end.outcome = "running" /\ at' \in Succs(prog, at) /\ outcome' = "running"
         \/ at' = at /\ outcome' # "running"
  BY <1>3
<1>7. at' \in Blocks(prog) /\ env' \in [Variables -> Int]
  <2> HIDE DEF end
  <2> QED
    BY <1>4, <1>5, <1>6 DEF Succs, Runs
<1>8. Sound(prog) => Swept' /\ Carried'
  BY <1>1, CarriedStays DEF SetsInv, Swept, Carried
<1>9. ASSUME Sound(prog) PROVE RunCarried'
  <2>1. SUFFICES ASSUME outcome' = "running", NEW g \in Known, Preds(prog, at') \subseteq Carrier(g)
                 PROVE  Holds(g, env')
    BY <1>1, CarriedStays, CarrierStays DEF RunCarried
  <2>2. end.outcome = "running" /\ at' \in Succs(prog, at)
    BY <1>6, <2>1
  <2>3. at \in Carrier(g)
    BY <2>1, <2>2 DEF Succs
  <2>4. PICK run : AreSteps(run, at, env, left)
    BY <1>5, <2>2
  <2>5. IsCheck(g) /\ Generated /\ \A h \in Known : IsConst(g.var) /\ IsConst(h.var) => g.array = h.array
    BY <1>9, KnownAreChecks DEF SetsInv
  <2>6. CASE Generates(at, g)
    <3>1. PICK h \in Range(globals[at]) : Weaker(g, h)
      BY <2>6 DEF Generates
    <3>2. Faithful(at, h) /\ h \in Known
      BY <1>4, <2>5, <3>1 DEF Generated, Known
    <3>3. IsCheck(h)
      BY <2>5, <3>2, KnownAreChecks
    <3>4. Holds(h, end.env)
      BY <1>2, <1>4, <2>4, <3>2, <3>3, GeneratedHolds
    <3>5. end.env \in [Variables -> Int]
      BY <1>6, <1>7
    <3>6. IsConst(g.var) => g.array = h.array
      BY <2>5, <3>1, <3>2 DEF Weaker
    <3> HIDE DEF end
    <3>7. Holds(g, end.env)
      BY <2>5, <3>1, <3>3, <3>4, <3>5, <3>6, WeakerHolds
    <3> QED
      BY <1>6, <3>7
  <2>7. CASE Passes(at, g) /\ Preds(prog, at) \subseteq Carrier(g)
    <3>1. Holds(g, env)
      BY <1>1, <1>9, <2>7 DEF SetsInv, RunCarried, Passes
    <3>2. Holds(g, end.env)
      BY <1>2, <1>4, <2>4, <2>5, <2>7, <3>1, PassedHolds
    <3> QED
      BY <1>6, <3>2
  <2> QED
    BY <2>3, <2>6, <2>7, CarrierCarries DEF Carries
<1> QED
  BY <1>1, <1>2, <1>7, <1>8, <1>9 DEF SetsInv

LEMMA SetsInvNext == SetsInv /\ [Next]_vars => SetsInv'
<1> SUFFICES ASSUME SetsInv, [Next]_vars PROVE SetsInv'
  OBVIOUS
<1>1. CASE Visit /\ UNCHANGED <<at, env, outcome>>
  <2>1. prog' = prog /\ globals' = globals /\ stage = "sweep" /\ stage' = "sweep"
    BY <1>1 DEF Visit
  <2>2. Generated'
    BY <2>1, GeneratedStays DEF SetsInv
  <2>3. Sound(prog) => Swept' /\ Carried'
    BY <1>1, VisitCarries DEF SetsInv
  <2>4. RunCarried'
    BY <1>1, <2>1 DEF SetsInv, RunCarried
  <2> QED
    BY <1>1, <2>1, <2>2, <2>3, <2>4 DEF SetsInv
<1>2. CASE Again /\ UNCHANGED <<at, env, outcome>>
  <2>1. /\ prog' = prog /\ globals' = globals /\ stage = "sweep" /\ stage' \in {"sweep", "eliminate"}
        /\ inSet' = inSet /\ outSet' = outSet /\ pos' = 2 /\ pos > Len(prog.blocks)
    BY <1>2 DEF Again
  <2>2. Generated' /\ prog \in Programs
    BY <2>1, GeneratedStays DEF SetsInv, Generated
  <2>3. ASSUME Sound(prog) PROVE Swept' /\ Carried'
    <3>1. Swept /\ Carried
      BY <2>3 DEF SetsInv
    <3>2. Len(prog.blocks) \in Nat \ {0} /\ DOMAIN prog.blocks = 1 .. Len(prog.blocks)
      BY <2>2, Shape
    <3>3. \A b \in Blocks(prog) : ~outSet[b].all
      <4>1. CASE FirstSweep
        <5>1. \A n \in DOMAIN prog.blocks : ~(n >= pos)
          BY <2>1, <3>1, <3>2 DEF Swept
        <5> QED
          BY <4>1, <5>1 DEF FirstSweep, Blocks
      <4> QED
        BY <2>1, <3>1, <4>1 DEF Swept
    <3> QED
      BY <2>1, <3>1, <3>2, <3>3, CarriedStays DEF Swept, Carried
  <2>4. RunCarried'
    BY <1>2, <2>1 DEF SetsInv, RunCarried
  <2> QED
    BY <1>2, <2>1, <2>2, <2>3, <2>4 DEF SetsInv
<1>3. CASE Eliminate /\ UNCHANGED <<at, env, outcome>>
  BY <1>3, SetsStay DEF Eliminate
<1>4. CASE LoopNext /\ UNCHANGED <<at, env, outcome>>
  <2>1. CASE StartLoop
    BY <1>4, <2>1, SetsStay DEF StartLoop
  <2>2. CASE FindDirections
    BY <1>4, <2>2, SetsStay DEF FindDirections, flow
  <2>3. CASE MoveMonotonic
    BY <1>4, <2>3, SetsStay DEF MoveMonotonic
  <2> QED
    BY <1>4, <2>1, <2>2, <2>3 DEF LoopNext
<1>5. CASE InsertChecks
  <2>1. /\ prog' = prog /\ globals' = globals /\ stage # "run" /\ stage' = "run" /\ at' = at
        /\ inSet' = inSet /\ outSet' = outSet /\ env' \in [Variables -> Int]
    BY <1>5, ValuesAssumption DEF InsertChecks
  <2>2. Generated'
    BY <2>1, GeneratedStays DEF SetsInv
  <2>3. Sound(prog) => Swept' /\ Carried'
    BY <2>1, CarriedStays DEF SetsInv, Swept, Carried
  <2>4. RunCarried'
    BY <2>1 DEF SetsInv, RunCarried
  <2> QED
    BY <2>1, <2>2, <2>3, <2>4 DEF SetsInv
<1>6. CASE RunFunction
  BY <1>6, RunCarries
<1>7. CASE UNCHANGED vars
  <2>1. /\ prog' = prog /\ globals' = globals /\ stage' = stage /\ at' = at /\ env' = env /\ outcome' = outcome
        /\ inSet' = inSet /\ outSet' = outSet /\ pos' = pos
    BY <1>7 DEF vars, flow
  <2>2. Generated'
    BY <2>1, GeneratedStays DEF SetsInv
  <2>3. Sound(prog) => Swept' /\ Carried'
    BY <2>1, CarriedStays DEF SetsInv, Swept, Carried, FirstSweep
  <2>4. Sound(prog) => RunCarried'
    BY <2>1, CarriedStays, CarrierStays DEF SetsInv, RunCarried
  <2> QED
    BY <2>1, <2>2, <2>3, <2>4 DEF SetsInv
<1> QED
  BY <1>1, <1>2, <1>3, <1>4, <1>5, <1>6, <1>7 DEF Next, Analyse, FlowNext

LEMMA SetsInvHolds == SetsInv => InSetsHold
<1> SUFFICES ASSUME SetsInv, Sound(prog), stage = "run", outcome = "running", NEW n \in DOMAIN inSet[at].checks
             PROVE  Holds(inSet[at].checks[n], env)
  BY DEF InSetsHold, Available
<1> DEFINE g == inSet[at].checks[n]
<1>1. inSet[at].checks \in Seq(CarriedIn(at)) /\ at \in Blocks(prog)
  BY DEF SetsInv, Carried
<1>2. g \in CarriedIn(at)
  BY <1>1
<1> HIDE DEF g
<1>3. g \in Known
  BY <1>2 DEF CarriedIn
<1>4. Holds(g, env)
  BY <1>1, <1>2, <1>3, CarriedByCarrier DEF SetsInv, RunCarried
<1> QED
  BY <1>4 DEF g

\* In a function whose loops leave alone what was checked before them, the
\* checks GlobalAnalysis has found available at the beginning of a block hold
\* whenever a run gets there, although its out sets only grow, a sweep stops
\* when no set grows, and of two checks it keeps the weaker one.
THEOREM AvailableChecksHold == Spec => []InSetsHold
<1>1. Init => SetsInv
  BY SetsInvInit
<1>2. SetsInv /\ [Next]_vars => SetsInv'
  BY SetsInvNext
<1>3. SetsInv => InSetsHold
  BY SetsInvHolds
<1> QED
  BY <1>1, <1>2, <1>3, PTL DEF Spec
=============================================================================
