---------------------------- MODULE InsertionProofs ----------------------------
(***************************************************************************)
(* What the pass promises of every function: its counter is right, no      *)
(* store that matters to an index is missing from the graph, and where the *)
(* sizes and indices are such as the pass gets right, the calls catch      *)
(* every access outside of its array and stop no other.                    *)
(*                                                                         *)
(* The calls of a node stand for each other because the blocks of a node   *)
(* come one after another in every run, which is what ConstructMCFGProofs  *)
(* shows of the graph.                                                     *)
(***************************************************************************)
EXTENDS Insertion, SequenceTheorems

Made == INSTANCE ConstructMCFGProofs WITH Functions <- Flowgraphs, pos <- node

-----------------------------------------------------------------------------
(***************************************************************************)
(* The statements of a function.                                           *)
(***************************************************************************)
LEMMA ProgIsWellformed == ASSUME prog \in Programs PROVE Wellformed(prog)
  BY InsertionAssumption

LEMMA Bodies ==
    ASSUME prog \in Programs, NEW b \in Blocks(prog)
    PROVE  /\ Len(prog.body[b]) \in Nat /\ DOMAIN prog.body[b] = 1 .. Len(prog.body[b])
           /\ Len(prog.body[b]) > 0 /\ prog.succs[b] \subseteq Blocks(prog)
<1>1. prog.body[b] \in Seq(Range(prog.body[b])) /\ prog.body[b] # << >>
  BY ProgIsWellformed DEF Wellformed
<1>2. Len(prog.body[b]) \in Nat /\ DOMAIN prog.body[b] = 1 .. Len(prog.body[b])
  BY <1>1
<1>3. prog.succs[b] \subseteq Blocks(prog)
  BY ProgIsWellformed DEF Wellformed
<1> QED
  BY <1>1, <1>2, <1>3

LEMMA PlaceFacts ==
    ASSUME prog \in Programs, NEW c \in Places
    PROVE  /\ c = <<c[1], c[2]>> /\ c[1] \in Blocks(prog)
           /\ c[2] \in 1 .. Len(prog.body[c[1]]) /\ c[2] \in Nat
           /\ IsStatement(prog, Statement(c))
<1>0. PICK b \in Blocks(prog) : \E k \in DOMAIN prog.body[b] : c = <<b, k>>
  BY DEF Places
<1>1. PICK k \in DOMAIN prog.body[b] : c = <<b, k>>
  BY <1>0
<1>2. Len(prog.body[b]) \in Nat /\ DOMAIN prog.body[b] = 1 .. Len(prog.body[b])
  BY Bodies
<1>3. IsStatement(prog, prog.body[b][k])
  BY ProgIsWellformed DEF Wellformed
<1> QED
  BY <1>1, <1>2, <1>3 DEF Statement

LEMMA PlaceIsSome == ASSUME prog \in Programs, NEW c \in Places PROVE c # None
<1>1. c = <<c[1], c[2]>>
  BY PlaceFacts
<1>2. \A a, b : <<a, b>> # << >>
  OBVIOUS
<1> QED
  BY <1>1, <1>2, Zenon DEF None

LEMMA IsPlace ==
    ASSUME prog \in Programs, NEW b \in Blocks(prog), NEW k \in 1 .. Len(prog.body[b])
    PROVE  <<b, k>> \in Places
  BY Bodies DEF Places

LEMMA FiniteImage ==
    ASSUME NEW D, NEW T, IsFiniteSet(D), NEW f \in [D -> T], T = {f[x] : x \in D}
    PROVE  IsFiniteSet(T)
<1>1. f \in Surjection(D, T)
  BY DEF Surjection
<1> QED
  BY <1>1, FS_Surjection

LEMMA FinitelyManyPlaces == ASSUME prog \in Programs PROVE IsFiniteSet(Points)
<1>1. IsFiniteSet(Blocks(prog))
  <2>1. prog.blocks \in Seq(Blocks(prog))
    BY ProgIsWellformed DEF Wellformed
  <2>2. Len(prog.blocks) \in Nat /\ DOMAIN prog.blocks = 1 .. Len(prog.blocks)
    BY <2>1
  <2>3. IsFiniteSet(DOMAIN prog.blocks)
    BY <2>2, FS_Interval
  <2>4. prog.blocks \in [DOMAIN prog.blocks -> Blocks(prog)]
    BY <2>1, <2>2
  <2> QED
    BY <2>3, <2>4, FiniteImage DEF Blocks
<1> DEFINE In(b) == {<<b, k>> : k \in DOMAIN prog.body[b]}
           ins == [b \in Blocks(prog) |-> In(b)]
           Ins == {In(b) : b \in Blocks(prog)}
           ends == [b \in Blocks(prog) |-> <<b, Len(prog.body[b]) + 1>>]
           Ends == {<<b, Len(prog.body[b]) + 1>> : b \in Blocks(prog)}
<1>2. IsFiniteSet(Ins)
  <2>1. ins \in [Blocks(prog) -> Ins] /\ Ins = {ins[b] : b \in Blocks(prog)}
    OBVIOUS
  <2> HIDE DEF ins, Ins
  <2> QED
    BY <1>1, <2>1, FiniteImage
<1>3. ASSUME NEW T \in Ins PROVE IsFiniteSet(T)
  <2>1. PICK b \in Blocks(prog) : T = In(b)
    BY <1>3
  <2>2. IsFiniteSet(DOMAIN prog.body[b])
    BY Bodies, FS_Interval
  <2> DEFINE g == [k \in DOMAIN prog.body[b] |-> <<b, k>>]
  <2>3. g \in [DOMAIN prog.body[b] -> T] /\ T = {g[k] : k \in DOMAIN prog.body[b]}
    BY <2>1
  <2> HIDE DEF g
  <2> QED
    BY <2>2, <2>3, FiniteImage
<1>4. IsFiniteSet(UNION Ins)
  <2> HIDE DEF Ins
  <2> QED
    BY <1>2, <1>3, FS_UNION
<1>5. IsFiniteSet(Ends)
  <2>1. ends \in [Blocks(prog) -> Ends] /\ Ends = {ends[b] : b \in Blocks(prog)}
    OBVIOUS
  <2> HIDE DEF ends, Ends
  <2> QED
    BY <1>1, <2>1, FiniteImage
<1>6. Points = (UNION Ins) \cup Ends
  BY DEF Points, Places
<1> HIDE DEF Ins, Ends
<1> QED
  BY <1>4, <1>5, <1>6, FS_Union

-----------------------------------------------------------------------------
(***************************************************************************)
(* The graph.                                                              *)
(***************************************************************************)
LEMMA FlowgraphsAre == \A f \in Flowgraphs : Made!Flowgraph(f)
<1> SUFFICES ASSUME NEW p \in Programs, NEW K \in SUBSET Blocks(p), NEW f,
                    f = [blocks |-> p.blocks, succs |-> p.succs, kept |-> K]
             PROVE  Made!Flowgraph(f)
  BY DEF Flowgraphs
<1>1. Wellformed(p)
  BY InsertionAssumption
<1>2. \A b \in Blocks(p) : p.blocks[1] \notin p.succs[b]
  BY <1>1 DEF Wellformed, Preds, Entry
<1> QED
  BY <1>1, <1>2 DEF Wellformed, Blocks, Made!Flowgraph, Made!IsInjective

LEMMA SameSteps == Graph!Next => Made!Next
  BY DEF Graph!Next, Made!Next, Graph!Keep, Made!Keep, Graph!RemoveSelfLoop, Made!RemoveSelfLoop,
         Graph!Splice, Made!Splice, Graph!LeaveLinked, Made!LeaveLinked, Graph!Unlink, Made!Unlink,
         Graph!EraseDropped, Made!EraseDropped, Graph!BeginMerging, Made!BeginMerging,
         Graph!Pass, Made!Pass, Graph!Merge, Made!Merge, Graph!MergeWithItself, Made!MergeWithItself,
         Graph!EraseMerged, Made!EraseMerged, Graph!Return, Made!Return,
         Graph!At, Made!At, Graph!n, Made!n, Graph!Empty, Made!Empty, Graph!OnlyOne, Made!OnlyOne,
         Graph!Chained, Made!Chained, Graph!Drop, Made!Drop, Graph!Erase, Made!Erase,
         Graph!GoOn, Made!GoOn, Graph!Through, Made!Through, Graph!Blocks, Made!Blocks,
         Graph!Vector, Made!Vector, Graph!RemoveAt, Made!RemoveAt, Graph!Cardinality, Made!Cardinality

\* The graph is made of the function; its entry is kept, where an array or a
\* pointer is allocated.
GraphInv ==
    /\ prog \in Programs /\ stage \in {"collect", "insert", "construct", "local", "run"}
    /\ func \in Flowgraphs /\ func.blocks = prog.blocks /\ func.succs = prog.succs
    /\ stage \in {"collect", "insert"} => Made!Init
    /\ stage = "construct" => Made!Init \/ Made!CInv
    /\ stage \in {"local", "run"} => Made!CInv /\ step = "done"
    /\ stage \notin {"collect", "insert"} /\ DOMAIN prog.objects # {} => Entry(prog) \in func.kept

LEMMA GraphInvInit == Init => GraphInv
<1> SUFFICES ASSUME Init PROVE GraphInv
  OBVIOUS
<1>1. Made!Init
  BY DEF Init, Graph!Init, Made!Init, Graph!Blocks, Made!Blocks
<1> QED
  BY <1>1 DEF Init, GraphInv, Made!Init

\* A step that leaves the graph alone.
LEMMA GraphStays ==
    ASSUME GraphInv, prog' = prog, UNCHANGED graph,
           \/ stage' = stage
           \/ stage = "collect" /\ stage' = "insert"
           \/ stage = "construct" /\ stage' = "local" /\ step = "done"
           \/ stage = "local" /\ stage' = "run"
    PROVE  GraphInv'
<1>1. Made!CInv => Made!CInv'
  <2>1. UNCHANGED Made!vars
    BY DEF graph, Made!vars
  <2> QED
    BY <2>1, Made!CInvNext, FlowgraphsAre
<1>2. Made!Init => Made!Init'
  BY DEF graph, Made!Init, Made!Blocks
<1>3. Made!Init => step = "optimizeMCFG2"
  BY DEF Made!Init
<1>4. UNCHANGED <<func, step>>
  BY DEF graph
<1>5. Flowgraphs' = Flowgraphs
  BY DEF Flowgraphs
<1> QED
  BY <1>1, <1>2, <1>3, <1>4, <1>5 DEF GraphInv, Entry

LEMMA GraphStarts == ASSUME GraphInv, StartConstructing PROVE GraphInv'
<1>1. /\ prog' = prog /\ stage' = "construct" /\ Made!Init
      /\ func' = [func EXCEPT !.kept = Kept]
      /\ body' = [b \in Blocks(prog) |-> IF b \in Kept THEN <<b>> ELSE << >>]
      /\ UNCHANGED <<step, order, node, preds, succs, dropped, merged, crashed>>
  BY DEF GraphInv, StartConstructing
<1>2. Kept \subseteq Blocks(prog) /\ \A x \in DOMAIN prog.objects : Entry(prog) \in Kept
  <2>1. Entry(prog) \in Blocks(prog) /\ prog.conds \subseteq Blocks(prog)
    <3>1. Wellformed(prog)
      BY ProgIsWellformed DEF GraphInv
    <3>2. 1 \in DOMAIN prog.blocks
      BY <3>1 DEF Wellformed
    <3> QED
      BY <3>1, <3>2 DEF Wellformed, Entry, Blocks
  <2>2. \A w \in Index : w[1][1] \in Blocks(prog)
    BY PlaceFacts DEF Index, Calls, GraphInv
  <2>3. \A c \in GetMCFGInst : c[1] \in Blocks(prog)
    BY PlaceFacts DEF GetMCFGInst, GraphInv
  <2> QED
    BY <2>1, <2>2, <2>3 DEF Kept
<1>3. /\ func' \in Flowgraphs /\ func'.blocks = prog.blocks /\ func'.succs = prog.succs
      /\ func'.kept = Kept
  <2>0. PICK p \in Programs : \E K \in SUBSET Blocks(p) :
           func = [blocks |-> p.blocks, succs |-> p.succs, kept |-> K]
    BY DEF GraphInv, Flowgraphs
  <2>1. PICK K \in SUBSET Blocks(p) : func = [blocks |-> p.blocks, succs |-> p.succs, kept |-> K]
    BY <2>0
  <2>2. func' = [blocks |-> p.blocks, succs |-> p.succs, kept |-> Kept]
    BY <1>1, <2>1
  <2>3. Kept \in SUBSET Blocks(p)
    BY <1>2, <2>1 DEF GraphInv, Blocks
  <2> QED
    BY <1>1, <2>1, <2>2, <2>3 DEF Flowgraphs, GraphInv
<1>4. Made!Init'
  <2>1. Made!Blocks = Blocks(prog) /\ Made!Blocks' = Made!Blocks
    BY <1>3 DEF Made!Blocks, Blocks, GraphInv
  <2>2. preds = [b \in Made!Blocks |-> {a \in Made!Blocks : b \in func.succs[a]}]
    BY <1>1 DEF Made!Init
  <2>3. preds' = [b \in Made!Blocks |-> {a \in Made!Blocks : b \in func'.succs[a]}]
    BY <1>1, <1>3, <2>2 DEF GraphInv
  <2> QED
    BY <1>1, <1>3, <2>1, <2>3 DEF Made!Init, GraphInv
<1> QED
  BY <1>1, <1>2, <1>3, <1>4 DEF GraphInv, Entry

LEMMA GraphInvSteps == ASSUME GraphInv, [Next]_vars PROVE GraphInv'
<1>1. CASE StartConstructing
  BY <1>1, GraphStarts
<1>2. CASE Construct
  <2>1. /\ prog' = prog /\ stage' = stage /\ stage = "construct"
        /\ Made!Init \/ Made!CInv
    BY <1>2 DEF GraphInv, Construct, pass
  <2>2. Made!Next
    BY <1>2, SameSteps DEF Construct
  <2>3. Made!CInv
    BY <2>1, Made!CInvInit, FlowgraphsAre
  <2>4. Made!CInv'
    BY <2>2, <2>3, Made!CInvNext, FlowgraphsAre
  <2>5. func' = func
    BY <2>2 DEF Made!Next, Made!Keep, Made!RemoveSelfLoop, Made!Splice, Made!LeaveLinked, Made!Unlink,
         Made!EraseDropped, Made!BeginMerging, Made!Pass, Made!Merge, Made!MergeWithItself,
         Made!EraseMerged, Made!Return, Made!Drop, Made!Erase, Made!GoOn
  <2> QED
    BY <2>1, <2>4, <2>5 DEF GraphInv, Entry, Flowgraphs
<1>3. CASE LocalOpt
  BY <1>3, GraphStays DEF LocalOpt
<1>4. CASE Launch
  BY <1>4, GraphStays DEF Launch
<1>5. CASE Collect \/ StartInserting \/ Insert
  BY <1>5, GraphStays DEF Collect, StartInserting, Insert
<1>6. CASE Malloc \/ Copy \/ Store \/ Access \/ Skip \/ Branch \/ UNCHANGED vars
  BY <1>6, GraphStays DEF Malloc, Copy, Store, Access, Skip, Branch, vars, pass
<1> QED
  BY <1>1, <1>2, <1>3, <1>4, <1>5, <1>6 DEF Next

-----------------------------------------------------------------------------
(***************************************************************************)
(* The stores of the graph.                                                *)
(***************************************************************************)
LEMMA BeforeIsPoint == ASSUME prog \in Programs, NEW c \in Points PROVE Before(c) \subseteq Points
<1>0. PICK b \in Blocks(prog) : \E k \in 1 .. Len(prog.body[b]) + 1 : c = <<b, k>>
  <2>1. CASE c \in Places
    BY <2>1, PlaceFacts, Bodies
  <2>2. CASE c \notin Places
    <3>1. PICK b \in Blocks(prog) : c = <<b, Len(prog.body[b]) + 1>>
      BY <2>2 DEF Points
    <3>2. Len(prog.body[b]) + 1 \in 1 .. Len(prog.body[b]) + 1
      BY Bodies
    <3> QED
      BY <3>1, <3>2
  <2> QED
    BY <2>1, <2>2
<1>1. PICK k \in 1 .. Len(prog.body[b]) + 1 : c = <<b, k>>
  BY <1>0
<1>2. Len(prog.body[b]) \in Nat
  BY Bodies
<1>3. CASE k > 1
  <2>1. k - 1 \in 1 .. Len(prog.body[b])
    BY <1>2, <1>3
  <2>2. <<b, k - 1>> \in Places
    BY <2>1, IsPlace
  <2> QED
    BY <1>1, <1>3, <2>2 DEF Before, Points
<1>4. CASE ~(k > 1)
  BY <1>1, <1>4 DEF Before, Points, Preds
<1> QED
  BY <1>3, <1>4

\* A search that meets no store of a variable has been everywhere before.
LEMMA SearchMissesNone ==
    ASSUME prog \in Programs, NEW c \in Places, NEW v, FindDefinitions(v, Before(c)) = {}
    PROVE  \A d \in Earlier(c) : ~StoresTo(d, v)
<1> DEFINE all == [d \in Points |-> Before(d)]
           back == [d \in Points |-> IF StoresTo(d, v) THEN {} ELSE Before(d)]
           S == Found(back, Before(c))
<1>1. Before(c) \subseteq Points /\ IsFiniteSet(Points)
  BY BeforeIsPoint, FinitelyManyPlaces DEF Points
<1>2. DOMAIN back = Points /\ DOMAIN all = Points /\ Cardinality(Points) \in Nat
  BY <1>1, FS_CardinalityType
<1>3. \A d \in Points : back[d] \subseteq Points
  BY BeforeIsPoint
<1>4. \A d \in Points : all[d] = Before(d) /\ (~StoresTo(d, v) => back[d] = Before(d))
  OBVIOUS
<1>5. \A d \in S : ~StoresTo(d, v)
  BY DEF FindDefinitions
<1>6. Earlier(c) = Found(all, Before(c))
  BY DEF Earlier
<1> HIDE DEF all, back
<1>7. Before(c) \subseteq S /\ S \subseteq Points /\ \A d \in S : back[d] \subseteq S
  BY <1>1, <1>2, <1>3, FoundIsClosed
<1> HIDE DEF S
<1>8. \A d \in S : all[d] \subseteq S
  BY <1>4, <1>5, <1>7
<1>9. Found(all, Before(c)) \subseteq S
  BY <1>2, <1>7, <1>8, FoundIsLeast
<1> QED
  BY <1>5, <1>6, <1>9

LEMMA StoresAreSelected == ASSUME prog \in Programs PROVE SelectedStores
<1> SUFFICES ASSUME stage = "local", NEW w \in Index, NEW v \in SearchedLoads(IndexAt(w)),
                    NEW c \in Earlier(w[1]), StoresTo(c, v)
             PROVE  c \in GetMCFGInst
  BY DEF SelectedStores
<1>1. w[1] \in Places
  BY DEF Index, Calls
<1>2. FindDefinitions(v, Before(w[1])) # {}
  BY <1>1, SearchMissesNone
<1>3. c \in Places /\ IsStore(c) /\ Statement(c).var = v
  BY DEF StoresTo, IsStore
<1> QED
  BY <1>2, <1>3 DEF GetMCFGInst

-----------------------------------------------------------------------------
(***************************************************************************)
(* The blocks of a node come one after another in every run.               *)
(***************************************************************************)
LEMMA PointFacts ==
    ASSUME prog \in Programs, NEW c \in Points
    PROVE  /\ c = <<c[1], c[2]>> /\ c[1] \in Blocks(prog)
           /\ c[2] \in Nat /\ c[2] >= 1 /\ c[2] <= Len(prog.body[c[1]]) + 1
<1>1. CASE c \in Places
  BY <1>1, PlaceFacts, Bodies
<1>2. CASE c \notin Places
  <2>1. PICK b \in Blocks(prog) : c = <<b, Len(prog.body[b]) + 1>>
    BY <1>2 DEF Points
  <2> QED
    BY <2>1, Bodies
<1> QED
  BY <1>1, <1>2

LEMMA IsPoint ==
    ASSUME prog \in Programs, NEW b \in Blocks(prog), NEW k \in 1 .. Len(prog.body[b]) + 1
    PROVE  <<b, k>> \in Points
<1>1. CASE k \in 1 .. Len(prog.body[b])
  BY <1>1, IsPlace DEF Points
<1>2. CASE k = Len(prog.body[b]) + 1
  BY <1>2 DEF Points
<1> QED
  BY <1>1, <1>2, Bodies

\* A search back to a place holds what comes before the others it holds, and no
\* more than that.
LEMMA BetweenIsClosed ==
    ASSUME prog \in Programs, NEW c, NEW d \in Points
    PROVE  /\ d \in Between(c, d) /\ Between(c, d) \subseteq Points
           /\ \A p \in Between(c, d) \ {c} : Before(p) \subseteq Between(c, d)
<1> DEFINE back == [p \in Points |-> IF p = c THEN {} ELSE Before(p)]
<1>1. DOMAIN back = Points /\ IsFiniteSet(Points)
  BY FinitelyManyPlaces
<1>2. \A p \in Points : back[p] \subseteq Points /\ (p # c => back[p] = Before(p))
  BY BeforeIsPoint
<1>3. Between(c, d) = Found(back, {d})
  BY DEF Between
<1> HIDE DEF back
<1>4. /\ {d} \subseteq Found(back, {d}) /\ Found(back, {d}) \subseteq Points
      /\ \A p \in Found(back, {d}) : back[p] \subseteq Found(back, {d})
  BY <1>1, <1>2, FoundIsClosed
<1> QED
  BY <1>2, <1>3, <1>4

LEMMA BetweenIsLeast ==
    ASSUME prog \in Programs, NEW c, NEW d, NEW S \in SUBSET Points, d \in S,
           \A p \in S \ {c} : Before(p) \subseteq S
    PROVE  Between(c, d) \subseteq S
<1> DEFINE back == [p \in Points |-> IF p = c THEN {} ELSE Before(p)]
<1>1. DOMAIN back = Points /\ Cardinality(Points) \in Nat
  BY FinitelyManyPlaces, FS_CardinalityType
<1>2. \A p \in S : back[p] \subseteq S
  OBVIOUS
<1>3. Between(c, d) = Found(back, {d})
  BY DEF Between
<1> HIDE DEF back
<1> QED
  BY <1>1, <1>2, <1>3, FoundIsLeast

LEMMA FlowsOn ==
    ASSUME GraphInv, NEW q \in Blocks(prog), NEW b \in prog.succs[q]
    PROVE  /\ Made!FlowsInFunction(q, b)
           /\ q \notin func.kept => \A a : Made!FlowsInFunction(a, q) => Made!FlowsInFunction(a, b)
<1>1. Made!Blocks = Blocks(prog) /\ func.succs = prog.succs
  BY DEF Made!Blocks, Blocks, GraphInv
<1>2. b \in Made!Blocks
  BY <1>1, Bodies DEF GraphInv
<1> QED
  BY <1>1, <1>2 DEF Made!FlowsInFunction, Made!Beyond

\* No way from the entry comes to a place without coming to those that are
\* ahead of it.
LEMMA NoWayAround ==
    ASSUME GraphInv, stage \in {"local", "run"}, Entry(prog) \in func.kept,
           NEW e \in Places, NEW d \in Places, Ahead(e, d)
    PROVE  <<Entry(prog), 1>> \notin Between(e, d) \ {e}
<1>0. prog \in Programs /\ Made!CInv /\ step = "done"
  BY DEF GraphInv
<1>1. PICK m \in Range(order) : \E k, l \in DOMAIN body[m] :
         /\ body[m][k] = e[1] /\ body[m][l] = d[1]
         /\ k < l \/ (k = l /\ e[2] <= d[2])
  BY DEF Ahead
<1>2. PICK k \in DOMAIN body[m], l \in DOMAIN body[m] :
         /\ body[m][k] = e[1] /\ body[m][l] = d[1]
         /\ k < l \/ (k = l /\ e[2] <= d[2])
  BY <1>1
<1>3. m \in Made!Vector /\ body[m] \in Seq(func.kept)
  BY <1>0 DEF Made!Vector, Range, Made!CInv, Made!TypeOK
<1>4. /\ e = <<e[1], e[2]>> /\ d = <<d[1], d[2]>> /\ e[1] \in Blocks(prog) /\ d[1] \in Blocks(prog)
      /\ e[2] \in Nat /\ e[2] >= 1 /\ e[2] <= Len(prog.body[e[1]])
      /\ d[2] \in Nat /\ d[2] >= 1 /\ d[2] <= Len(prog.body[d[1]])
  BY <1>0, PlaceFacts, Bodies
<1>5. k \in Nat /\ l \in Nat /\ k >= 1 /\ l <= Len(body[m]) /\ DOMAIN body[m] = 1 .. Len(body[m])
  BY <1>3
<1> SUFFICES ASSUME <<Entry(prog), 1>> \in Between(e, d), <<Entry(prog), 1>> # e PROVE FALSE
  OBVIOUS
<1>6. CASE k = l
  <2> DEFINE S == {p \in Points : p[1] = e[1] /\ e[2] <= p[2]}
  <2>1. S \in SUBSET Points /\ d \in S
    BY <1>2, <1>5, <1>6 DEF Points
  <2>2. ASSUME NEW p \in S \ {e} PROVE Before(p) \subseteq S
    <3>1. p = <<p[1], p[2]>> /\ p[2] \in Nat /\ p[1] = e[1] /\ e[2] < p[2]
      BY <1>0, <1>4, PointFacts
    <3>2. Before(p) = {<<p[1], p[2] - 1>>} /\ Before(p) \subseteq Points
      BY <1>0, <1>4, <3>1, BeforeIsPoint DEF Before
    <3> QED
      BY <1>4, <3>1, <3>2
  <2> HIDE DEF S
  <2>3. Between(e, d) \subseteq S
    BY <1>0, <2>1, <2>2, BetweenIsLeast
  <2>4. <<Entry(prog), 1>> \in S
    BY <2>3
  <2> QED
    BY <1>4, <2>4 DEF S
<1>7. CASE k < l
  <2> DEFINE R == {b \in Blocks(prog) :
                     \/ \E j \in k + 1 .. l : b = body[m][j]
                     \/ /\ b \notin func.kept
                        /\ \A a \in func.kept : Made!FlowsInFunction(a, b) =>
                              \E j \in k .. l - 1 : a = body[m][j]}
             S == {p \in Points : p[1] \in R \/ (p[1] = e[1] /\ e[2] <= p[2])}
  <2>1. \A j \in k + 1 .. l :
          /\ j \in DOMAIN body[m] /\ j # 1 /\ body[m][j] # Entry(prog)
          /\ \A a \in func.kept : Made!FlowsInFunction(a, body[m][j]) => a = body[m][j - 1]
    <3> TAKE j \in k + 1 .. l
    <3>1. j \in DOMAIN body[m] /\ j # 1
      BY <1>5
    <3>2. Made!entry = Entry(prog)
      BY DEF Made!entry, Entry, GraphInv
    <3> QED
      BY <1>0, <1>3, <3>1, <3>2, Made!NodesAreChains, FlowgraphsAre
  <2>2. ASSUME NEW b \in R, NEW q \in Blocks(prog), b \in prog.succs[q] PROVE q \in R \/ q = e[1]
    <3>1. /\ Made!FlowsInFunction(q, b)
          /\ q \notin func.kept => \A a : Made!FlowsInFunction(a, q) => Made!FlowsInFunction(a, b)
      BY <2>2, FlowsOn
    <3>2. \A a \in func.kept : Made!FlowsInFunction(a, b) => \E j \in k .. l - 1 : a = body[m][j]
      <4>1. CASE \E j \in k + 1 .. l : b = body[m][j]
        <5>1. PICK j \in k + 1 .. l : b = body[m][j]
          BY <4>1
        <5>2. j - 1 \in k .. l - 1
          BY <1>5
        <5> QED
          BY <2>1, <5>1, <5>2
      <4>2. CASE ~\E j \in k + 1 .. l : b = body[m][j]
        BY <4>2
      <4> QED
        BY <4>1, <4>2
    <3>3. CASE q \in func.kept
      <4>1. PICK j \in k .. l - 1 : q = body[m][j]
        BY <3>1, <3>2, <3>3
      <4>2. j = k \/ j \in k + 1 .. l
        BY <1>5
      <4> QED
        BY <1>2, <4>1, <4>2
    <3>4. CASE q \notin func.kept
      BY <3>1, <3>2, <3>4
    <3> QED
      BY <3>3, <3>4
  <2>3. d[1] \in R /\ Entry(prog) \notin R
    <3>1. l \in k + 1 .. l
      BY <1>5, <1>7
    <3> QED
      BY <1>2, <1>4, <2>1, <3>1
  <2> HIDE DEF R
  <2>4. S \in SUBSET Points /\ d \in S
    BY <2>3 DEF Points
  <2>5. ASSUME NEW p \in S \ {e} PROVE Before(p) \subseteq S
    <3>1. /\ p = <<p[1], p[2]>> /\ p[1] \in Blocks(prog) /\ p[2] \in Nat /\ p[2] >= 1
          /\ p[1] \in R \/ (p[1] = e[1] /\ e[2] < p[2])
      BY <1>0, <1>4, PointFacts
    <3>2. Before(p) \subseteq Points
      BY <1>0, BeforeIsPoint
    <3>3. CASE p[2] > 1
      <4>1. Before(p) = {<<p[1], p[2] - 1>>}
        BY <3>3 DEF Before
      <4> QED
        BY <1>4, <3>1, <3>2, <4>1
    <3>4. CASE ~(p[2] > 1)
      <4>1. p[1] \in R
        BY <1>4, <3>1, <3>4
      <4> SUFFICES ASSUME NEW x \in Before(p) PROVE x \in S
        OBVIOUS
      <4>2. PICK q \in Preds(prog, p[1]) : x = <<q, Len(prog.body[q]) + 1>>
        BY <3>4 DEF Before
      <4>3. q \in R \/ q = e[1]
        BY <2>2, <4>1, <4>2 DEF Preds
      <4>4. q = e[1] => e[2] <= Len(prog.body[q]) + 1
        <5>1. Len(prog.body[e[1]]) \in Nat
          BY <1>0, <1>4, Bodies
        <5> QED
          BY <1>4, <5>1
      <4> QED
        BY <3>2, <4>2, <4>3, <4>4
    <3> QED
      BY <3>3, <3>4
  <2> HIDE DEF S
  <2>6. Between(e, d) \subseteq S
    BY <1>0, <2>4, <2>5, BetweenIsLeast
  <2>7. <<Entry(prog), 1>> \in S
    BY <2>6
  <2> QED
    BY <1>4, <2>3, <2>7 DEF S
<1> QED
  BY <1>2, <1>6, <1>7

-----------------------------------------------------------------------------
(***************************************************************************)
(* The sizes of arrays.                                                    *)
(***************************************************************************)
LEMMA ProductsExist ==
    ASSUME NEW dims, NEW m \in Nat
    PROVE  \E f : f = [n \in 0 .. m |-> IF n = 0 THEN 1 ELSE f[n - 1] * dims[n]]
<1> DEFINE Is(f, k) == f = [n \in 0 .. k |-> IF n = 0 THEN 1 ELSE f[n - 1] * dims[n]]
           T == {k \in Nat : ~\E f : Is(f, k)}
<1>0. T \in SUBSET Nat
  OBVIOUS
<1> SUFFICES ASSUME T # {} PROVE FALSE
  OBVIOUS
<1>1. PICK k \in T : \A y \in T : k <= y
  <2> HIDE DEF T
  <2> QED
    BY <1>0, LeastNat
<1>2. k # 0
  <2> DEFINE g == [r \in 0 .. 0 |-> 1]
  <2>1. Is(g, 0)
    OBVIOUS
  <2> QED
    BY <1>1, <2>1
<1>3. k \in Nat /\ k - 1 \in Nat /\ k - 1 \notin T /\ ~\E f : Is(f, k)
  BY <1>1, <1>2
<1>4. PICK g : Is(g, k - 1)
  BY <1>3
<1> DEFINE h == [r \in 0 .. k |-> IF r < k THEN g[r] ELSE g[k - 1] * dims[k]]
<1>5. ASSUME NEW r \in 0 .. k PROVE h[r] = IF r = 0 THEN 1 ELSE h[r - 1] * dims[r]
  <2>1. CASE r = k
    BY <1>2, <1>3, <2>1
  <2>2. CASE r # k
    <3>1. r \in 0 .. (k - 1) /\ h[r] = g[r] /\ (r # 0 => h[r - 1] = g[r - 1])
      BY <1>3, <2>2
    <3>2. g[r] = IF r = 0 THEN 1 ELSE g[r - 1] * dims[r]
      BY <1>4, <3>1
    <3> HIDE DEF h
    <3> QED
      BY <3>1, <3>2
  <2> QED
    BY <2>1, <2>2
<1>6. Is(h, k)
  <2>1. h = [r \in 0 .. k |-> h[r]]
    OBVIOUS
  <2> HIDE DEF h
  <2> QED
    BY <2>1, <1>5, Zenon
<1> QED
  BY <1>3, <1>6, Zenon

LEMMA ArraySizes ==
    ASSUME NEW dims \in Seq(Nat \ {0})
    PROVE  /\ CalArraySize(dims) \in Nat \ {0}
           /\ Len(dims) = 2 => CalArraySize(dims) = dims[1] * dims[2]
<1> DEFINE f == CHOOSE f : f = [n \in 0 .. Len(dims) |-> IF n = 0 THEN 1 ELSE f[n - 1] * dims[n]]
<1>0. Len(dims) \in Nat /\ \A n \in 1 .. Len(dims) : dims[n] \in Nat \ {0}
  OBVIOUS
<1>1. f = [n \in 0 .. Len(dims) |-> IF n = 0 THEN 1 ELSE f[n - 1] * dims[n]]
  <2>1. \E g : g = [n \in 0 .. Len(dims) |-> IF n = 0 THEN 1 ELSE g[n - 1] * dims[n]]
    BY <1>0, ProductsExist
  <2> QED
    BY <2>1, Zenon
<1>2. CalArraySize(dims) = f[Len(dims)]
  BY Zenon DEF CalArraySize
<1> HIDE DEF f
<1>3. f[0] = 1 /\ \A n \in 1 .. Len(dims) : f[n] = f[n - 1] * dims[n]
  BY <1>0, <1>1
<1> DEFINE T == {n \in 0 .. Len(dims) : f[n] \notin Nat \ {0}}
<1>4. T = {}
  <2> SUFFICES ASSUME T # {} PROVE FALSE
    OBVIOUS
  <2>1. PICK n \in T : \A y \in T : n <= y
    <3>1. T \in SUBSET Nat
      BY <1>0
    <3> HIDE DEF T
    <3> QED
      BY <3>1, LeastNat
  <2>2. n # 0
    BY <1>3, <2>1
  <2>3. n \in 1 .. Len(dims) /\ n - 1 \in 0 .. Len(dims) /\ f[n - 1] \in Nat \ {0}
    BY <1>0, <2>1, <2>2
  <2>4. \A x, y \in Nat \ {0} : x * y \in Nat \ {0}
    OBVIOUS
  <2>5. f[n] \in Nat \ {0}
    <3>1. f[n] = f[n - 1] * dims[n]
      BY <1>3, <2>3
    <3>2. dims[n] \in Nat \ {0}
      BY <1>0, <2>3
    <3> QED
      BY <2>3, <2>4, <3>1, <3>2
  <2> QED
    BY <2>1, <2>5
<1>5. ASSUME Len(dims) = 2 PROVE f[2] = dims[1] * dims[2]
  <2>1. f[1] = f[0] * dims[1] /\ f[2] = f[1] * dims[2] /\ dims[1] \in Nat
    BY <1>0, <1>3, <1>5
  <2>2. f[1] = dims[1]
    BY <1>3, <2>1
  <2> QED
    BY <2>1, <2>2
<1> QED
  BY <1>0, <1>2, <1>4, <1>5

-----------------------------------------------------------------------------
(***************************************************************************)
(* The loops over the instructions.                                        *)
(***************************************************************************)
PosInv ==
    /\ pos = <<pos[1], pos[2]>> /\ pos[1] \in 1 .. Len(prog.blocks) + 1
    /\ Looping => pos[2] \in 1 .. Len(prog.body[prog.blocks[pos[1]]])

\* The statements a loop has come to.
Reached(c) ==
    \E m \in DOMAIN prog.blocks :
        c[1] = prog.blocks[m] /\ (m < pos[1] \/ (m = pos[1] /\ c[2] < pos[2]))

LEMMA BlockFacts ==
    ASSUME prog \in Programs
    PROVE  /\ Len(prog.blocks) \in Nat \ {0} /\ DOMAIN prog.blocks = 1 .. Len(prog.blocks)
           /\ \A m \in DOMAIN prog.blocks : prog.blocks[m] \in Blocks(prog)
           /\ \A m, n \in DOMAIN prog.blocks : prog.blocks[m] = prog.blocks[n] => m = n
<1>1. prog.blocks # << >> /\ prog.blocks \in Seq(Blocks(prog))
  BY ProgIsWellformed DEF Wellformed
<1>2. \A m, n \in DOMAIN prog.blocks : prog.blocks[m] = prog.blocks[n] => m = n
  BY ProgIsWellformed DEF Wellformed
<1> QED
  BY <1>1, <1>2

LEMMA LoopStarts ==
    ASSUME prog \in Programs, pos = <<1, 1>> PROVE PosInv /\ \A c \in Places : ~Reached(c)
<1>1. PosInv
  <2>1. 1 \in DOMAIN prog.blocks /\ Len(prog.body[prog.blocks[1]]) \in Nat \ {0}
    BY BlockFacts, Bodies
  <2> QED
    BY <2>1, BlockFacts DEF PosInv
<1>2. ASSUME NEW c \in Places PROVE ~Reached(c)
  <2>1. c[2] \in Nat /\ c[2] >= 1
    BY PlaceFacts, Bodies
  <2> QED
    BY <2>1, BlockFacts DEF Reached
<1> QED
  BY <1>1, <1>2

LEMMA LoopStartsAgain ==
    ASSUME prog \in Programs, prog' = prog, pos' = <<1, 1>>
    PROVE  PosInv' /\ \A c \in Places : ~Reached(c)'
<1>1. PosInv'
  <2>1. 1 \in DOMAIN prog.blocks /\ Len(prog.body[prog.blocks[1]]) \in Nat \ {0}
    BY BlockFacts, Bodies
  <2> QED
    BY <2>1, BlockFacts DEF PosInv
<1>2. ASSUME NEW c \in Places PROVE ~Reached(c)'
  <2>1. c[2] \in Nat /\ c[2] >= 1
    BY PlaceFacts, Bodies
  <2> QED
    BY <2>1, BlockFacts DEF Reached
<1> QED
  BY <1>1, <1>2

LEMMA LoopEnds ==
    ASSUME prog \in Programs, PosInv, ~Looping, NEW c \in Places PROVE Reached(c)
<1>1. PICK m \in DOMAIN prog.blocks : c[1] = prog.blocks[m]
  BY PlaceFacts DEF Blocks
<1>2. m < pos[1]
  BY <1>1, BlockFacts DEF PosInv, Looping
<1> QED
  BY <1>1, <1>2 DEF Reached

LEMMA HereIsPlace ==
    ASSUME prog \in Programs, PosInv, Looping
    PROVE  Here \in Places /\ ~Reached(Here)
<1>1. pos[1] \in DOMAIN prog.blocks /\ prog.blocks[pos[1]] \in Blocks(prog) /\ pos[1] \in Nat
  BY BlockFacts DEF PosInv, Looping
<1>2. pos[2] \in 1 .. Len(prog.body[prog.blocks[pos[1]]])
  BY DEF PosInv
<1>3. Here \in Places
  BY <1>1, <1>2, IsPlace DEF Here
<1>4. Len(prog.body[prog.blocks[pos[1]]]) \in Nat
  BY <1>1, Bodies
<1>5. ~Reached(Here)
  BY <1>1, <1>2, <1>4, BlockFacts DEF Reached, Here
<1> QED
  BY <1>3, <1>5

LEMMA LoopGoesOn ==
    ASSUME prog \in Programs, PosInv, Looping, pos' = Following, prog' = prog
    PROVE  PosInv' /\ \A c \in Places : Reached(c)' <=> Reached(c) \/ c = Here
<1> DEFINE b == prog.blocks[pos[1]]
<1>1. pos[1] \in DOMAIN prog.blocks /\ b \in Blocks(prog) /\ pos[1] \in Nat
  BY BlockFacts DEF PosInv, Looping
<1>2. pos[2] \in 1 .. Len(prog.body[b]) /\ Len(prog.body[b]) \in Nat /\ Here = <<b, pos[2]>>
  BY <1>1, Bodies DEF PosInv, Here
<1>3. CASE pos[2] < Len(prog.body[b])
  <2>1. pos' = <<pos[1], pos[2] + 1>>
    BY <1>2, <1>3 DEF Following
  <2>2. PosInv'
    BY <1>1, <1>2, <1>3, <2>1 DEF PosInv, Looping
  <2>3. ASSUME NEW c \in Places PROVE Reached(c)' <=> Reached(c) \/ c = Here
    <3>1. c = <<c[1], c[2]>> /\ c[2] \in Nat
      BY PlaceFacts
    <3> QED
      BY <1>1, <1>2, <2>1, <3>1, BlockFacts DEF Reached
  <2> QED
    BY <2>2, <2>3
<1>4. CASE ~(pos[2] < Len(prog.body[b]))
  <2>1. pos' = <<pos[1] + 1, 1>> /\ pos[2] = Len(prog.body[b])
    BY <1>2, <1>4 DEF Following
  <2>2. PosInv'
    <3>1. pos[1] + 1 \in 1 .. Len(prog.blocks) + 1
      BY <1>1, BlockFacts
    <3>2. pos[1] + 1 <= Len(prog.blocks) => 1 \in 1 .. Len(prog.body[prog.blocks[pos[1] + 1]])
      <4>1. SUFFICES ASSUME pos[1] + 1 <= Len(prog.blocks)
                     PROVE  1 \in 1 .. Len(prog.body[prog.blocks[pos[1] + 1]])
        OBVIOUS
      <4>2. prog.blocks[pos[1] + 1] \in Blocks(prog)
        BY <1>1, <4>1, BlockFacts
      <4> QED
        BY <4>2, Bodies
    <3> QED
      BY <2>1, <3>1, <3>2 DEF PosInv, Looping
  <2>3. ASSUME NEW c \in Places PROVE Reached(c)' <=> Reached(c) \/ c = Here
    <3>1. c = <<c[1], c[2]>> /\ c[2] \in Nat /\ c[2] >= 1 /\ c[2] <= Len(prog.body[c[1]]) /\ Len(prog.body[c[1]]) \in Nat
      BY PlaceFacts, Bodies
    <3>2. c[1] = b => c[2] <= pos[2]
      BY <2>1, <3>1
    <3> QED
      BY <1>1, <1>2, <2>1, <3>1, <3>2, BlockFacts DEF Reached
  <2> QED
    BY <2>2, <2>3
<1> QED
  BY <1>3, <1>4

-----------------------------------------------------------------------------
(***************************************************************************)
(* The calls an access is given, and what localopt leaves of them.         *)
(***************************************************************************)
Given(c) == IF Statement(c).op = "access" THEN ProcessGEP(Statement(c)) ELSE << >>

LEMMA GivenFacts ==
    ASSUME prog \in Programs, NEW c \in Places
    PROVE  /\ IsFiniteSet(DOMAIN Given(c))
           /\ \A d \in DOMAIN Given(c) :
                /\ Statement(c).op = "access" /\ d \in DOMAIN Statement(c).indices
                /\ Called(Statement(c).indices[d], LimitOf(Statement(c).array, d))
                /\ Given(c)[d] = NewCall(Statement(c).indices[d], LimitOf(Statement(c).array, d))
<1>1. CASE Statement(c).op = "access"
  <2>1. Statement(c).indices \in Seq(Range(Statement(c).indices))
    BY <1>1, PlaceFacts DEF IsStatement
  <2>2. IsFiniteSet(DOMAIN Statement(c).indices)
    BY <2>1, FS_Interval
  <2>3. DOMAIN Given(c) \subseteq DOMAIN Statement(c).indices
    BY <1>1 DEF Given, ProcessGEP
  <2>4. IsFiniteSet(DOMAIN Given(c))
    BY <2>2, <2>3, FS_Subset
  <2> QED
    BY <1>1, <2>4 DEF Given, ProcessGEP
<1>2. CASE Statement(c).op # "access"
  <2>1. DOMAIN Given(c) = {}
    BY <1>2 DEF Given
  <2> QED
    BY <2>1, FS_EmptySet
<1> QED
  BY <1>1, <1>2

SizesTyped ==
    /\ DOMAIN arrayMap = DOMAIN prog.objects
    /\ \A x \in DOMAIN arrayMap :
         /\ arrayMap[x] \in [top : Int, bottom : Int, dyn : Places \cup {None}]
         /\ arrayMap[x].top >= -1

\* Each call that was deleted stands behind one like it that was kept.
Sifted ==
    \E kept \in SUBSET Calls :
      /\ \A c \in Places : DOMAIN calls[c] = DOMAIN Given(c)
      /\ \A c \in Places : \A d \in DOMAIN calls[c] :
           calls[c][d] = [Given(c)[d] EXCEPT !.min = <<c, d>> \in kept, !.max = <<c, d>> \in kept]
      /\ counter = 2 * Cardinality(kept)
      /\ \A w \in Calls \ kept : \E garbage \in BOOLEAN, v \in kept :
           Precedes(v, w) /\ SameCheck(CallAt(v).record, CallAt(w).record, garbage)
      /\ outcome # "crashed" => ~Crashes(kept)

PassInv ==
    /\ prog \in Programs /\ stage \in {"collect", "insert", "construct", "local", "run"}
    /\ outcome \in {"none", "crashed", "running", "trapped", "stopped", "missed", "cut", "returned"}
    /\ stage \in {"collect", "insert", "construct"} => outcome = "none"
    /\ stage \in {"collect", "insert"} => PosInv
    /\ SizesTyped
    /\ DOMAIN calls = Places /\ IsFiniteSet(Calls)
    /\ stage = "collect" => counter = 0 /\ \A c \in Places : calls[c] = << >>
    /\ stage = "insert" => /\ counter = 2 * Cardinality(Calls)
                           /\ \A c \in Places : calls[c] = IF Reached(c) THEN Given(c) ELSE << >>
    /\ stage = "construct" => counter = 2 * Cardinality(Calls) /\ \A c \in Places : calls[c] = Given(c)
    /\ stage \in {"local", "run"} => Sifted

LEMMA PassInvTypes == PassInv => TypeOK
<1> SUFFICES ASSUME PassInv PROVE TypeOK
  OBVIOUS
<1>1. Cardinality(Calls) \in Nat /\ \A S \in SUBSET Calls : Cardinality(S) \in Nat
  BY FS_CardinalityType, FS_Subset DEF PassInv
<1>2. \A x \in DOMAIN arrayMap : arrayMap[x].top >= -1 /\ arrayMap[x].dyn \in Places \cup {None}
  BY DEF PassInv, SizesTyped
<1>3. counter = Cardinality({w \in Calls : CallAt(w).min}) + Cardinality({w \in Calls : CallAt(w).max})
  <2>1. CASE stage = "collect"
    <3>1. Calls = {} /\ counter = 0
      BY <2>1 DEF PassInv, Calls
    <3>2. {w \in Calls : CallAt(w).min} = {} /\ {w \in Calls : CallAt(w).max} = {}
      BY <3>1
    <3> QED
      BY <3>1, <3>2, FS_EmptySet
  <2>2. CASE stage \in {"insert", "construct"}
    <3>1. ASSUME NEW w \in Calls PROVE CallAt(w).min = TRUE /\ CallAt(w).max = TRUE
      <4>1. PICK c \in Places : \E d \in DOMAIN calls[c] : w = <<c, d>>
        BY DEF Calls
      <4>2. PICK d \in DOMAIN calls[c] : w = <<c, d>>
        BY <4>1
      <4>3. calls[c] = Given(c)
        <5>1. DOMAIN << >> = {}
          OBVIOUS
        <5> QED
          BY <2>2, <4>2, <5>1 DEF PassInv
      <4> QED
        BY <4>2, <4>3, GivenFacts DEF CallAt, NewCall, PassInv
    <3>2. {w \in Calls : CallAt(w).min} = Calls /\ {w \in Calls : CallAt(w).max} = Calls
      BY <3>1
    <3>3. counter = Cardinality(Calls) + Cardinality(Calls)
      BY <1>1, <2>2 DEF PassInv
    <3> QED
      BY <3>2, <3>3, Zenon
  <2>3. CASE stage \in {"local", "run"}
    <3>1. PICK kept \in SUBSET Calls :
            /\ \A c \in Places : DOMAIN calls[c] = DOMAIN Given(c)
            /\ \A c \in Places : \A d \in DOMAIN calls[c] :
                 calls[c][d] = [Given(c)[d] EXCEPT !.min = <<c, d>> \in kept, !.max = <<c, d>> \in kept]
            /\ counter = 2 * Cardinality(kept)
      BY <2>3 DEF PassInv, Sifted
    <3>2. ASSUME NEW w \in Calls PROVE CallAt(w).min = (w \in kept) /\ CallAt(w).max = (w \in kept)
      <4>1. PICK c \in Places : \E d \in DOMAIN calls[c] : w = <<c, d>>
        BY DEF Calls
      <4>2. PICK d \in DOMAIN calls[c] : w = <<c, d>>
        BY <4>1
      <4>3. calls[c][d] = [Given(c)[d] EXCEPT !.min = <<c, d>> \in kept, !.max = <<c, d>> \in kept]
        BY <3>1
      <4>4. Given(c)[d] = NewCall(Statement(c).indices[d], LimitOf(Statement(c).array, d))
        BY <3>1, GivenFacts DEF PassInv
      <4> QED
        BY <4>2, <4>3, <4>4 DEF CallAt, NewCall
    <3>3. {w \in Calls : CallAt(w).min} = kept /\ {w \in Calls : CallAt(w).max} = kept
      BY <3>2
    <3>4. Cardinality(kept) \in Nat /\ counter = 2 * Cardinality(kept)
      BY <1>1, <3>1
    <3>5. counter = Cardinality(kept) + Cardinality(kept)
      BY <3>4
    <3> QED
      BY <3>3, <3>5, Zenon
  <2> QED
    BY <2>1, <2>2, <2>3 DEF PassInv
<1> QED
  BY <1>2, <1>3 DEF PassInv, TypeOK

LEMMA PassInvInit == Init => PassInv
<1> SUFFICES ASSUME Init PROVE PassInv
  OBVIOUS
<1>1. prog \in Programs /\ stage = "collect" /\ outcome = "none" /\ counter = 0
  BY DEF Init
<1>2. PosInv
  BY <1>1, LoopStarts DEF Init
<1>3. SizesTyped
  <2>1. ASSUME NEW x \in DOMAIN prog.objects
        PROVE  /\ Allocated(prog.objects[x]) \in [top : Int, bottom : Int, dyn : Places \cup {None}]
               /\ Allocated(prog.objects[x]).top >= -1
    <3>1. prog.objects[x].dims \in Seq(Nat \ {0})
      BY <1>1, ProgIsWellformed DEF Wellformed
    <3>2. CalArraySize(prog.objects[x].dims) \in Nat \ {0}
      BY <3>1, ArraySizes
    <3> QED
      BY <3>2 DEF Allocated
  <2> QED
    BY <2>1 DEF Init, SizesTyped
<1>4. DOMAIN calls = Places /\ \A c \in Places : calls[c] = << >>
  BY DEF Init
<1>5. Calls = {}
  BY <1>4 DEF Calls
<1> QED
  BY <1>1, <1>2, <1>3, <1>4, <1>5, FS_EmptySet DEF PassInv

LEMMA PlacesStay == ASSUME prog' = prog PROVE Places' = Places /\ \A c : Statement(c)' = Statement(c)
  BY DEF Places, Blocks, Statement

LEMMA CallsStay ==
    ASSUME prog' = prog, calls' = calls
    PROVE  Calls' = Calls /\ \A w : CallAt(w)' = CallAt(w)
  BY PlacesStay DEF Calls, CallAt

LEMMA LimitsStay ==
    ASSUME prog' = prog, arrayMap' = arrayMap
    PROVE  /\ \A c : Given(c)' = Given(c) /\ Warned(c)' = Warned(c)
           /\ \A x, d : LimitOf(x, d)' = LimitOf(x, d)
<1>1. \A x, d : LimitOf(x, d)' = LimitOf(x, d)
  BY DEF LimitOf
<1>2. \A c : Statement(c)' = Statement(c)
  BY PlacesStay
<1> QED
  BY <1>1, <1>2 DEF Given, ProcessGEP, Warned

LEMMA NodesStay ==
    ASSUME UNCHANGED <<order, body>> PROVE \A c, d : Ahead(c, d)' <=> Ahead(c, d)
  BY DEF Ahead

LEMMA SiftedStays ==
    ASSUME Sifted, prog' = prog, arrayMap' = arrayMap, calls' = calls, counter' = counter,
           UNCHANGED graph, outcome' # "crashed" => outcome # "crashed"
    PROVE  Sifted'
<1>1. Places' = Places /\ Calls' = Calls
  BY PlacesStay, CallsStay
<1>2. \A w : CallAt(w)' = CallAt(w)
  BY CallsStay
<1>3. \A c : Given(c)' = Given(c)
  BY LimitsStay
<1>4. \A kept : Crashes(kept)' <=> Crashes(kept)
  BY <1>1, <1>2 DEF Crashes
<1>5. \A v, w : Precedes(v, w)' <=> Precedes(v, w)
  BY <1>1, <1>2, NodesStay DEF Precedes, Index, graph
<1> QED
  BY <1>1, <1>2, <1>3, <1>4, <1>5 DEF Sifted

LEMMA SizesStay ==
    ASSUME SizesTyped, prog' = prog, arrayMap' = arrayMap PROVE SizesTyped'
  BY PlacesStay DEF SizesTyped

\* What the function is run on stays as the pass has left it.
LEMMA RunSteps ==
    ASSUME PassInv, prog' = prog, arrayMap' = arrayMap, calls' = calls, counter' = counter,
           UNCHANGED graph, stage \in {"local", "run"}, stage' \in {"local", "run"},
           outcome' = outcome \/ outcome' \in {"running", "trapped", "stopped", "missed", "cut", "returned"},
           outcome' # "crashed" => outcome # "crashed"
    PROVE  PassInv'
<1>1. Sifted'
  BY SiftedStays DEF PassInv
<1>2. SizesTyped'
  BY SizesStay DEF PassInv
<1>3. Places' = Places /\ Calls' = Calls
  BY PlacesStay, CallsStay
<1>4. DOMAIN calls' = Places' /\ IsFiniteSet(Calls')
  BY <1>3 DEF PassInv
<1> QED
  BY <1>1, <1>2, <1>4 DEF PassInv

LEMMA CollectSizes ==
    ASSUME prog \in Programs, SizesTyped, NEW c \in Places, Statement(c).op = "malloc", prog' = prog,
           arrayMap' = ProcessCallInst(c)
    PROVE  SizesTyped'
<1>1. IsIndex(Statement(c).size) /\ (Constant(Statement(c).size) => Statement(c).size.args[1][2] \in Nat)
  BY PlaceFacts DEF IsStatement
<1>2. ASSUME NEW x \in DOMAIN arrayMap
      PROVE  /\ ProcessCallInst(c)[x] \in [top : Int, bottom : Int, dyn : Places \cup {None}]
             /\ ProcessCallInst(c)[x].top >= -1
  <2>1. arrayMap[x] \in [top : Int, bottom : Int, dyn : Places \cup {None}] /\ arrayMap[x].top >= -1
    BY DEF SizesTyped
  <2>2. /\ Sized(arrayMap[x], c, Statement(c).size) \in [top : Int, bottom : Int, dyn : Places \cup {None}]
        /\ Sized(arrayMap[x], c, Statement(c).size).top >= -1
    BY <1>1, <2>1 DEF Sized
  <2> QED
    BY <2>1, <2>2 DEF ProcessCallInst
<1>3. DOMAIN arrayMap' = DOMAIN arrayMap
  BY DEF ProcessCallInst
<1> QED
  BY <1>2, <1>3, PlacesStay DEF SizesTyped

LEMMA PassInvCollect == ASSUME PassInv, Collect PROVE PassInv'
<1>1. prog' = prog /\ stage' = "collect" /\ calls' = calls /\ counter' = counter /\ outcome' = outcome
  BY DEF Collect, run
<1>2. PosInv'
  BY LoopGoesOn DEF PassInv, Collect
<1>3. SizesTyped'
  <2>1. CASE Statement(Here).op = "malloc"
    <3>1. Here \in Places
      BY HereIsPlace DEF PassInv, Collect
    <3> QED
      BY <1>1, <2>1, <3>1, CollectSizes DEF PassInv, Collect
  <2>2. CASE Statement(Here).op # "malloc"
    BY <1>1, <2>2, SizesStay DEF PassInv, Collect
  <2> QED
    BY <2>1, <2>2
<1>4. Places' = Places /\ Calls' = Calls
  BY <1>1, PlacesStay, CallsStay
<1>5. counter = 0 /\ \A c \in Places : calls[c] = << >>
  BY DEF PassInv, Collect
<1> QED
  BY <1>1, <1>2, <1>3, <1>4, <1>5 DEF PassInv, Collect

LEMMA PassInvStartInserting == ASSUME PassInv, StartInserting PROVE PassInv'
<1>1. /\ prog' = prog /\ stage' = "insert" /\ pos' = <<1, 1>> /\ arrayMap' = arrayMap /\ calls' = calls
      /\ counter' = counter /\ outcome' = outcome
  BY DEF StartInserting, run
<1>2. prog' \in Programs /\ Places' = Places /\ Calls' = Calls
  BY <1>1, PlacesStay, CallsStay DEF PassInv
<1>3. PosInv' /\ \A c \in Places' : ~Reached(c)'
  BY <1>1, <1>2, LoopStartsAgain
<1>4. SizesTyped'
  BY <1>1, SizesStay DEF PassInv
<1>5. counter = 0 /\ \A c \in Places : calls[c] = << >>
  BY DEF PassInv, StartInserting
<1>6. Calls = {}
  BY <1>5 DEF Calls
<1>7. counter' = 2 * Cardinality(Calls')
  BY <1>1, <1>2, <1>5, <1>6, FS_EmptySet
<1> QED
  BY <1>1, <1>2, <1>3, <1>4, <1>5, <1>7 DEF PassInv, StartInserting

LEMMA PairsAreAsMany ==
    ASSUME NEW c, NEW D, IsFiniteSet(D)
    PROVE  LET pairs == {<<c, d>> : d \in D}
           IN  IsFiniteSet(pairs) /\ Cardinality(pairs) = Cardinality(D)
<1> DEFINE pairs == {<<c, d>> : d \in D}
           f == [d \in D |-> <<c, d>>]
<1>1. f \in Bijection(D, pairs)
  BY DEF Bijection, Injection, Surjection, IsInjective
<1>2. ExistsBijection(D, pairs)
  <2> HIDE DEF f
  <2> QED
    BY <1>1 DEF ExistsBijection
<1> HIDE DEF pairs
<1>3. IsFiniteSet(pairs) /\ Cardinality(pairs) = Cardinality(D)
  BY <1>2, FS_Bijection
<1> QED
  BY <1>3 DEF pairs

LEMMA PassInvInsert == ASSUME PassInv, Insert PROVE PassInv'
<1> DEFINE new == Given(Here)
           pairs == {<<Here, d>> : d \in DOMAIN new}
<1>1. /\ prog' = prog /\ stage = "insert" /\ stage' = "insert" /\ arrayMap' = arrayMap /\ outcome' = outcome
      /\ calls' = [calls EXCEPT ![Here] = new] /\ counter' = counter + 2 * Cardinality(DOMAIN new)
  BY DEF Insert, run, Given
<1>2. PosInv' /\ \A c \in Places : Reached(c)' <=> Reached(c) \/ c = Here
  BY LoopGoesOn DEF PassInv, Insert
<1>3. Here \in Places /\ ~Reached(Here) /\ calls[Here] = << >>
  BY HereIsPlace DEF PassInv, Insert
<1>4. SizesTyped'
  BY <1>1, SizesStay DEF PassInv
<1>5. Places' = Places /\ \A c : Given(c)' = Given(c)
  BY <1>1, PlacesStay, LimitsStay
<1>6. DOMAIN calls' = Places' /\ \A c \in Places' : calls'[c] = IF Reached(c)' THEN Given(c)' ELSE << >>
  <2> HIDE DEF new
  <2>1. DOMAIN calls' = Places' /\ \A c \in Places : calls'[c] = IF c = Here THEN new ELSE calls[c]
    BY <1>1, <1>5 DEF PassInv
  <2>2. \A c \in Places : calls[c] = IF Reached(c) THEN Given(c) ELSE << >>
    BY <1>1 DEF PassInv
  <2>3. ASSUME NEW c \in Places PROVE calls'[c] = IF Reached(c)' THEN Given(c)' ELSE << >>
    <3>1. CASE c = Here
      BY <1>2, <1>3, <1>5, <2>1, <3>1 DEF new
    <3>2. CASE c # Here
      BY <1>2, <1>5, <2>1, <2>2, <3>2
    <3> QED
      BY <3>1, <3>2
  <2> QED
    BY <1>5, <2>1, <2>3
<1>7. Calls' = Calls \cup pairs /\ Calls \cap pairs = {}
  <2>1. \A c \in Places : calls'[c] = IF c = Here THEN new ELSE calls[c]
    BY <1>1 DEF PassInv
  <2> HIDE DEF new
  <2>2. Calls' = UNION {{<<c, d>> : d \in DOMAIN calls'[c]} : c \in Places}
    BY <1>5 DEF Calls
  <2>3. \A w \in Calls' : w \in Calls \cup pairs
    BY <2>1, <2>2 DEF Calls
  <2>4. \A w \in Calls : w \in Calls' /\ w \notin pairs
    <3>1. DOMAIN calls[Here] = {}
      BY <1>3
    <3> QED
      BY <2>1, <2>2, <3>1 DEF Calls
  <2>5. \A w \in pairs : w \in Calls'
    BY <1>3, <2>1, <2>2
  <2> QED
    BY <2>3, <2>4, <2>5
<1>8. IsFiniteSet(pairs) /\ Cardinality(pairs) = Cardinality(DOMAIN new) /\ Cardinality(pairs) \in Nat
  <2>1. IsFiniteSet(DOMAIN new)
    BY <1>3, GivenFacts DEF PassInv
  <2> HIDE DEF new
  <2> QED
    BY <2>1, PairsAreAsMany, FS_CardinalityType
<1>9. IsFiniteSet(Calls') /\ counter' = 2 * Cardinality(Calls')
  <2> HIDE DEF pairs, new
  <2>1. IsFiniteSet(Calls) /\ Cardinality(Calls) \in Nat /\ counter = 2 * Cardinality(Calls)
    BY <1>1, FS_CardinalityType DEF PassInv
  <2>2. IsFiniteSet(Calls') /\ Cardinality(Calls') = Cardinality(Calls) + Cardinality(pairs) - Cardinality(Calls \cap pairs)
    BY <1>7, <1>8, <2>1, FS_Union
  <2>3. Cardinality(Calls \cap pairs) = 0
    BY <1>7, FS_EmptySet
  <2> QED
    BY <1>1, <1>8, <2>1, <2>2, <2>3
<1> HIDE DEF new, pairs
<1> QED
  BY <1>1, <1>2, <1>4, <1>6, <1>9 DEF PassInv

LEMMA PassInvConstruct == ASSUME PassInv, StartConstructing \/ Construct PROVE PassInv'
<1>1. /\ prog' = prog /\ stage' = "construct" /\ arrayMap' = arrayMap /\ calls' = calls
      /\ counter' = counter /\ outcome' = outcome /\ outcome = "none"
  BY DEF StartConstructing, Construct, pass, run, PassInv
<1>2. counter = 2 * Cardinality(Calls) /\ \A c \in Places : calls[c] = Given(c)
  <2>1. CASE StartConstructing
    BY <2>1, LoopEnds DEF PassInv, StartConstructing
  <2>2. CASE Construct
    BY <2>2 DEF PassInv, Construct
  <2> QED
    BY <2>1, <2>2
<1>3. Places' = Places /\ Calls' = Calls /\ \A c : Given(c)' = Given(c)
  BY <1>1, PlacesStay, CallsStay, LimitsStay
<1>4. SizesTyped'
  BY <1>1, SizesStay DEF PassInv
<1> QED
  BY <1>1, <1>2, <1>3, <1>4 DEF PassInv

LEMMA PassInvLocalOpt == ASSUME PassInv, LocalOpt PROVE PassInv'
<1>1. /\ prog' = prog /\ stage = "construct" /\ stage' = "local" /\ arrayMap' = arrayMap
      /\ UNCHANGED <<order, body>>
  BY DEF LocalOpt, graph
<1>2. PICK garbage \in BOOLEAN : \E kept \in KeptCalls(garbage) :
        /\ calls' = [c \in Places |->
                       [d \in DOMAIN calls[c] |->
                          [calls[c][d] EXCEPT !.min = <<c, d>> \in kept, !.max = <<c, d>> \in kept]]]
        /\ counter' = 2 * Cardinality(kept)
        /\ outcome' = IF Crashes(kept) THEN "crashed" ELSE outcome
  BY DEF LocalOpt
<1>3. PICK kept \in KeptCalls(garbage) :
        /\ calls' = [c \in Places |->
                       [d \in DOMAIN calls[c] |->
                          [calls[c][d] EXCEPT !.min = <<c, d>> \in kept, !.max = <<c, d>> \in kept]]]
        /\ counter' = 2 * Cardinality(kept)
        /\ outcome' = IF Crashes(kept) THEN "crashed" ELSE outcome
  BY <1>2
<1>4. Places' = Places /\ \A c : Given(c)' = Given(c)
  BY <1>1, PlacesStay, LimitsStay
<1>5. \A c \in Places : calls[c] = Given(c)
  BY <1>1 DEF PassInv
<1>6. DOMAIN calls' = Places' /\ \A c \in Places : DOMAIN calls'[c] = DOMAIN calls[c]
  BY <1>3, <1>4
<1>7. Calls' = Calls
  BY <1>4, <1>6 DEF Calls
<1>8. \A w \in Calls : CallAt(w)'.record = CallAt(w).record /\ CallAt(w)'.index = CallAt(w).index
  <2>1. ASSUME NEW w \in Calls
        PROVE  CallAt(w)'.record = CallAt(w).record /\ CallAt(w)'.index = CallAt(w).index
    <3>1. PICK c \in Places : \E d \in DOMAIN calls[c] : w = <<c, d>>
      BY DEF Calls
    <3>2. PICK d \in DOMAIN calls[c] : w = <<c, d>>
      BY <3>1
    <3>3. calls[c][d] = NewCall(Statement(c).indices[d], LimitOf(Statement(c).array, d))
      BY <1>5, GivenFacts DEF PassInv
    <3>4. calls'[c][d] = [calls[c][d] EXCEPT !.min = <<c, d>> \in kept, !.max = <<c, d>> \in kept]
      BY <1>3
    <3> QED
      BY <3>2, <3>3, <3>4 DEF CallAt, NewCall
  <2> QED
    BY <2>1
<1>9. Sifted'
  <2>1. kept \in SUBSET Calls'
    BY <1>3, <1>7 DEF KeptCalls
  <2>2. \A c \in Places' : DOMAIN calls'[c] = DOMAIN Given(c)'
    BY <1>4, <1>5, <1>6
  <2>3. \A c \in Places' : \A d \in DOMAIN calls'[c] :
          calls'[c][d] = [Given(c)'[d] EXCEPT !.min = <<c, d>> \in kept, !.max = <<c, d>> \in kept]
    BY <1>3, <1>4, <1>5
  <2>4. \A w \in Calls \ kept : \E v \in kept :
          Precedes(v, w) /\ SameCheck(CallAt(v).record, CallAt(w).record, garbage)
    BY <1>3 DEF KeptCalls
  <2>5. \A v, w : Precedes(v, w)' <=> Precedes(v, w)
    <3>1. Index' = Index
      BY <1>7, <1>8 DEF Index
    <3> QED
      BY <1>1, <3>1, NodesStay DEF Precedes
  <2>6. \A w \in Calls' \ kept : \E v \in kept :
          Precedes(v, w)' /\ SameCheck(CallAt(v)'.record, CallAt(w)'.record, garbage)
    BY <1>7, <1>8, <2>1, <2>4, <2>5
  <2>7. outcome' # "crashed" => ~Crashes(kept)'
    BY <1>3, <1>7, <1>8 DEF Crashes
  <2> QED
    BY <1>3, <2>1, <2>2, <2>3, <2>6, <2>7 DEF Sifted
<1>10. SizesTyped'
  BY <1>1, SizesStay DEF PassInv
<1>11. outcome' \in {"none", "crashed"}
  BY <1>1, <1>3 DEF PassInv
<1> QED
  BY <1>1, <1>4, <1>6, <1>7, <1>9, <1>10, <1>11 DEF PassInv

LEMMA PassInvSteps == ASSUME PassInv, [Next]_vars PROVE PassInv'
<1>1. ASSUME UNCHANGED <<prog, stage, arrayMap, calls, counter, graph>>, stage = "run", outcome = "running",
             outcome' \in {outcome, "trapped", "stopped", "missed", "cut", "returned"}
      PROVE  PassInv'
  BY <1>1, RunSteps DEF PassInv
<1>2. CASE Collect
  BY <1>2, PassInvCollect
<1>3. CASE StartInserting
  BY <1>3, PassInvStartInserting
<1>4. CASE Insert
  BY <1>4, PassInvInsert
<1>5. CASE LocalOpt
  BY <1>5, PassInvLocalOpt
<1>6. CASE Launch
  <2>1. prog' = prog /\ arrayMap' = arrayMap /\ calls' = calls /\ counter' = counter
        /\ stage = "local" /\ stage' = "run" /\ outcome = "none" /\ outcome' = "running" /\ UNCHANGED graph
    BY <1>6 DEF Launch
  <2> QED
    BY <2>1, RunSteps
<1>7. CASE Malloc
  BY <1>1, <1>7 DEF Malloc, Running, pass
<1>8. CASE Copy
  BY <1>1, <1>8 DEF Copy, Running, pass
<1>9. CASE Store
  BY <1>1, <1>9 DEF Store, Running, pass
<1>10. CASE Access
  BY <1>1, <1>10 DEF Access, Running, pass
<1>11. CASE Branch
  BY <1>1, <1>11 DEF Branch, pass
<1>12. CASE StartConstructing \/ Construct
  BY <1>12, PassInvConstruct
<1>13. CASE Skip
  BY <1>1, <1>13 DEF Skip, Running, pass
<1>14. CASE UNCHANGED vars
  <2>1. /\ prog' = prog /\ stage' = stage /\ pos' = pos /\ arrayMap' = arrayMap /\ calls' = calls
        /\ counter' = counter /\ outcome' = outcome /\ UNCHANGED graph
    BY <1>14 DEF vars, pass, run
  <2>2. CASE stage \in {"local", "run"}
    BY <2>1, <2>2, RunSteps DEF PassInv
  <2>3. CASE stage \notin {"local", "run"}
    <3>1. Places' = Places /\ Calls' = Calls /\ \A c : Given(c)' = Given(c)
      BY <2>1, PlacesStay, CallsStay, LimitsStay
    <3>2. SizesTyped' /\ PosInv' = PosInv /\ \A c : Reached(c)' = Reached(c)
      BY <2>1, SizesStay DEF PassInv, PosInv, Looping, Reached
    <3> QED
      BY <2>1, <2>3, <3>1, <3>2 DEF PassInv
  <2> QED
    BY <2>2, <2>3
<1> QED
  BY <1>2, <1>3, <1>4, <1>5, <1>6, <1>7, <1>8, <1>9, <1>10, <1>11, <1>12, <1>13, <1>14 DEF Next

\* The counter of runOnFunction is the number of calls in the function at
\* every point, and the sizes it has collected are sizes.
THEOREM CounterCountsCalls == Spec => []TypeOK
<1>1. Init => PassInv
  BY PassInvInit
<1>2. PassInv /\ [Next]_vars => PassInv'
  BY PassInvSteps
<1>3. PassInv => TypeOK
  BY PassInvTypes
<1> QED
  BY <1>1, <1>2, <1>3, PTL DEF Spec

\* Of the stores that may come before an index, none to a variable of it is
\* missing from the graph that getMCFGInst makes, in any function.
THEOREM GraphHasEveryStore == Spec => []SelectedStores
<1>1. Init => prog \in Programs
  BY DEF Init
<1>2. prog \in Programs /\ [Next]_vars => (prog \in Programs)'
  BY DEF Next, Collect, StartInserting, Insert, StartConstructing, Construct, LocalOpt, Launch,
         Malloc, Copy, Store, Access, Skip, Branch, vars, pass
<1>3. prog \in Programs => SelectedStores
  BY StoresAreSelected
<1> QED
  BY <1>1, <1>2, <1>3, PTL DEF Spec

-----------------------------------------------------------------------------
(***************************************************************************)
(* The sizes that are collected.                                           *)
(***************************************************************************)
AllocatedAt(x, d) ==
    /\ Statement(d).op = "malloc" /\ Statement(d).size.op = ""
    /\ {e \in Places : SetsPointer(Statement(e), x)} = {d}

\* What is known of a pointer that is allocated once, when the loop over the
\* allocations has come to that one and before.
Collected(d) ==
    IF stage = "collect" /\ ~Reached(d) THEN [top |-> -1, bottom |-> -1, dyn |-> None]
    ELSE IF Constant(Statement(d).size)
         THEN [top |-> Statement(d).size.args[1][2], bottom |-> 0, dyn |-> None]
         ELSE [top |-> -1, bottom |-> 0, dyn |-> d]

SizesFound ==
    \A x \in DOMAIN prog.objects :
      /\ prog.objects[x].dims # << >> => arrayMap[x] = Allocated(prog.objects[x])
      /\ prog.objects[x].dims = << >> =>
           \A d \in Places : AllocatedAt(x, d) => arrayMap[x] = Collected(d)

\* The warnings that have been given, and where a run starts.
Prepared ==
    /\ stage = "insert" => \A c \in Places : Reached(c) /\ Statement(c).op = "access" => Warned(c) \subseteq warned
    /\ stage \in {"construct", "local", "run"} =>
         \A c \in Places : Statement(c).op = "access" => Warned(c) \subseteq warned
    /\ stage # "run" => /\ at = <<Entry(prog), 1>> /\ outcome \in {"none", "crashed"}
                        /\ DOMAIN sizes = DOMAIN prog.objects /\ DOMAIN loaded = Places
    /\ stage = "run" => outcome \notin {"none", "crashed"}

LEMMA SizesFoundCollecting ==
    ASSUME PassInv, SizesFound, Collect PROVE SizesFound'
<1>1. prog' = prog /\ stage = "collect" /\ stage' = "collect" /\ prog \in Programs
  BY DEF PassInv, Collect
<1>2. \A c \in Places : Reached(c)' <=> Reached(c) \/ c = Here
  BY LoopGoesOn DEF PassInv, Collect
<1>3. Here \in Places /\ ~Reached(Here)
  BY HereIsPlace DEF PassInv, Collect
<1>4. Places' = Places /\ (\A c : Statement(c)' = Statement(c)) /\ DOMAIN arrayMap = DOMAIN prog.objects
  BY <1>1, PlacesStay DEF PassInv, SizesTyped
<1> SUFFICES ASSUME NEW x \in DOMAIN prog.objects
             PROVE  /\ prog.objects[x].dims # << >> => arrayMap'[x] = Allocated(prog.objects[x])
                    /\ prog.objects[x].dims = << >> =>
                         \A d \in Places : AllocatedAt(x, d) => arrayMap'[x] = Collected(d)'
  BY <1>1, <1>4 DEF SizesFound, AllocatedAt, Allocated
<1>5. arrayMap'[x] = IF Statement(Here).op = "malloc" /\ x \in Statement(Here).slots
                     THEN Sized(arrayMap[x], Here, Statement(Here).size) ELSE arrayMap[x]
  BY <1>4 DEF Collect, ProcessCallInst
<1>6. CASE prog.objects[x].dims # << >>
  <2>1. Statement(Here).op = "malloc" => x \notin Statement(Here).slots
    BY <1>1, <1>3, <1>6, PlaceFacts DEF IsStatement, Pointers
  <2> QED
    BY <1>5, <1>6, <2>1 DEF SizesFound
<1>7. CASE prog.objects[x].dims = << >>
  <2> SUFFICES ASSUME NEW d \in Places, AllocatedAt(x, d) PROVE arrayMap'[x] = Collected(d)'
    BY <1>7
  <2>1. SetsPointer(Statement(d), x) /\ \A e \in Places : SetsPointer(Statement(e), x) => e = d
    BY DEF AllocatedAt
  <2>2. arrayMap[x] = Collected(d)
    BY <1>7 DEF SizesFound
  <2>3. CASE Here = d
    <3>1. Statement(d).op = "malloc" /\ x \in Statement(d).slots
      BY <2>1 DEF AllocatedAt, SetsPointer
    <3>2. arrayMap[x] = [top |-> -1, bottom |-> -1, dyn |-> None] /\ Reached(d)'
      BY <1>1, <1>2, <1>3, <2>2, <2>3 DEF Collected
    <3>3. arrayMap'[x] = Sized(arrayMap[x], d, Statement(d).size)
      BY <1>5, <2>3, <3>1
    <3> QED
      BY <1>4, <3>2, <3>3 DEF Sized, Collected
  <2>4. CASE Here # d
    <3>1. ~(Statement(Here).op = "malloc" /\ x \in Statement(Here).slots)
      BY <1>3, <2>1, <2>4 DEF SetsPointer
    <3>2. Reached(d)' <=> Reached(d)
      BY <1>2, <2>4
    <3> QED
      BY <1>1, <1>4, <1>5, <2>2, <3>1, <3>2 DEF Collected
  <2> QED
    BY <2>3, <2>4
<1> QED
  BY <1>6, <1>7

LEMMA SizesFoundInit == ASSUME Init PROVE SizesFound
<1>1. prog \in Programs /\ stage = "collect" /\ \A c \in Places : ~Reached(c)
  BY LoopStarts DEF Init
<1>2. \A x \in DOMAIN prog.objects : arrayMap[x] = Allocated(prog.objects[x])
  BY DEF Init
<1> QED
  BY <1>1, <1>2 DEF SizesFound, Collected, Allocated

\* Once they are collected the sizes stay.
LEMMA SizesFoundStay ==
    ASSUME SizesFound, prog' = prog, arrayMap' = arrayMap, stage' # "collect",
           stage = "collect" => \A c \in Places : Reached(c)
    PROVE  SizesFound'
<1>1. Places' = Places /\ \A c : Statement(c)' = Statement(c)
  BY PlacesStay
<1>2. \A d \in Places : Collected(d)' = Collected(d)
  BY <1>1 DEF Collected
<1>3. \A x, d : AllocatedAt(x, d)' <=> AllocatedAt(x, d)
  BY <1>1 DEF AllocatedAt
<1> QED
  BY <1>1, <1>2, <1>3 DEF SizesFound

LEMMA InnerSize == ASSUME NEW m \in Nat \ {0}, NEW n \in Nat \ {0} PROVE (m * n) \div m = n
  OBVIOUS

\* The limits of an access whose size is known: its array has that extent.
LEMMA LimitsAreExtents ==
    ASSUME PassInv, SizesFound, stage # "collect",
           NEW c \in Places, Statement(c).op = "access", SizeKnown(c),
           NEW d \in DOMAIN Statement(c).indices
    PROVE  LET x == Statement(c).array
               dims == prog.objects[x].dims
           IN  /\ x \in DOMAIN prog.objects
               /\ dims # << >> => LimitOf(x, d) = Static(dims[d]) /\ dims[d] \in Nat
               /\ dims = << >> =>
                    \E e \in Places :
                      /\ AllocatedAt(x, e) /\ e[1] \in {c[1], Entry(prog)} /\ (e[1] = c[1] => e[2] < c[2])
                      /\ LimitOf(x, d) = IF Constant(Statement(e).size)
                                         THEN Static(Statement(e).size.args[1][2]) ELSE Dynamic(e)
<1> DEFINE x == Statement(c).array
           dims == prog.objects[x].dims
<1>1. prog \in Programs
  BY DEF PassInv
<1>2. /\ x \in DOMAIN prog.objects /\ Statement(c).indices \in Seq(Range(Statement(c).indices))
      /\ Len(Statement(c).indices) <= IF x \in Pointers(prog) THEN 1 ELSE Len(dims)
  BY <1>1, PlaceFacts DEF IsStatement
<1>3. d \in Nat /\ d >= 1 /\ d <= Len(Statement(c).indices) /\ Len(Statement(c).indices) \in Nat
  BY <1>2
<1>4. dims \in Seq(Nat \ {0})
  BY <1>1, <1>2, ProgIsWellformed DEF Wellformed
<1>5. CASE dims # << >>
  <2>1. Len(dims) <= 2 /\ d <= Len(dims)
    BY <1>2, <1>3, <1>5 DEF SizeKnown, Pointers
  <2>2. arrayMap[x].top = CalArraySize(dims)
    <3>1. arrayMap[x] = Allocated(prog.objects[x])
      BY <1>2, <1>5 DEF SizesFound
    <3> QED
      BY <1>5, <3>1 DEF Allocated
  <2>3. CASE d = 1
    <3>1. dims[1] \in Nat
      BY <1>4, <2>1, <2>3
    <3> QED
      BY <1>2, <1>5, <2>3, <3>1 DEF LimitOf
  <2>4. CASE d = 2
    <3>0. Len(dims) \in Nat /\ \A n \in 1 .. Len(dims) : dims[n] \in Nat \ {0}
      BY <1>4
    <3>1. Len(dims) = 2 /\ dims[1] \in Nat \ {0} /\ dims[2] \in Nat \ {0}
      <4>1. Len(dims) = 2
        <5>1. 2 <= Len(dims) /\ Len(dims) <= 2
          BY <2>1, <2>4
        <5>2. Len(dims) \in Nat
          BY <3>0
        <5>3. \A n \in Nat : 2 <= n /\ n <= 2 => n = 2
          OBVIOUS
        <5> QED
          BY <5>1, <5>2, <5>3
      <4>2. 1 \in 1 .. Len(dims) /\ 2 \in 1 .. Len(dims)
        BY <4>1
      <4> QED
        BY <3>0, <4>1, <4>2
    <3>2. CalArraySize(dims) \div dims[1] = dims[2]
      <4>1. CalArraySize(dims) = dims[1] * dims[2]
        BY <1>4, <3>1, ArraySizes
      <4>2. (dims[1] * dims[2]) \div dims[1] = dims[2]
        BY <3>1, InnerSize
      <4> QED
        BY <4>1, <4>2, Zenon
    <3>3. LimitOf(x, 2) = Static(arrayMap[x].top \div dims[1])
      BY <1>5 DEF LimitOf
    <3> QED
      BY <1>2, <1>5, <2>2, <2>4, <3>1, <3>2, <3>3
  <2> QED
    BY <1>3, <1>4, <2>1, <2>3, <2>4
<1>6. CASE dims = << >>
  <2>1. d = 1
    BY <1>2, <1>3, <1>6 DEF Pointers
  <2>2. AllocatedOnce(x, c)
    BY <1>6 DEF SizeKnown
  <2>3. PICK e \in Places :
          AllocatedAt(x, e) /\ e[1] \in {c[1], Entry(prog)} /\ (e[1] = c[1] => e[2] < c[2])
    BY <2>2 DEF AllocatedOnce, AllocatedAt, Entry
  <2>4. arrayMap[x] = Collected(e)
    BY <1>2, <1>6, <2>3 DEF SizesFound
  <2>5. Constant(Statement(e).size) => Statement(e).size.args[1][2] \in Nat
    BY <1>1, <2>3, PlaceFacts DEF IsStatement, AllocatedAt
  <2>6. e # None
    BY <1>1, PlaceIsSome
  <2>7. LimitOf(x, 1) = IF Constant(Statement(e).size)
                        THEN Static(Statement(e).size.args[1][2]) ELSE Dynamic(e)
    <3>1. CASE Constant(Statement(e).size)
      <4>1. arrayMap[x].top = Statement(e).size.args[1][2] /\ arrayMap[x].top # -1
        BY <2>4, <2>5, <3>1 DEF Collected
      <4> QED
        BY <1>6, <3>1, <4>1 DEF LimitOf
    <3>2. CASE ~Constant(Statement(e).size)
      <4>1. arrayMap[x].top = -1 /\ arrayMap[x].dyn = e
        BY <2>4, <3>2 DEF Collected
      <4> QED
        BY <1>6, <2>6, <3>2, <4>1 DEF LimitOf
    <3> QED
      BY <3>1, <3>2
  <2> QED
    BY <1>2, <1>6, <2>1, <2>3, <2>7
<1> QED
  BY <1>5, <1>6

-----------------------------------------------------------------------------
(***************************************************************************)
(* The values of indices.                                                  *)
(***************************************************************************)
LEMMA IndexArgs ==
    ASSUME NEW x, IsIndex(x)
    PROVE  /\ 1 \in DOMAIN x.args /\ (x.op # "" => 2 \in DOMAIN x.args)
           /\ x.op \in {"", "add", "sub", "mul", "div"}
<1>1. DOMAIN x.args = 1 .. (IF x.op = "" THEN 1 ELSE 2) /\ x.op \in {"", "add", "sub", "mul", "div"}
  BY Zenon DEF IsIndex
<1>2. 1 \in 1 .. 1 /\ 1 \in 1 .. 2 /\ 2 \in 1 .. 2
  OBVIOUS
<1>3. CASE x.op = ""
  <2>1. DOMAIN x.args = 1 .. 1
    BY <1>1, <1>3, Zenon
  <2> QED
    BY <1>1, <1>2, <1>3, <2>1, Zenon
<1>4. CASE x.op # ""
  <2>1. DOMAIN x.args = 1 .. 2
    BY <1>1, <1>4, Zenon
  <2> QED
    BY <1>1, <1>2, <1>4, <2>1, Zenon
<1> QED
  BY <1>3, <1>4

LEMMA OperandIsInt ==
    ASSUME env \in [Variables -> Values], NEW x, IsIndex(x), NEW n \in DOMAIN x.args
    PROVE  Operand(x.args[n]) \in Int /\ (~IsConst(x.args[n]) => x.args[n][2] \in VariablesOf(x))
<1>1. IsOperand(x.args[n])
  BY DEF IsIndex
<1>2. Operand(x.args[n]) \in Int
  BY <1>1, InsertionAssumption DEF IsOperand, Operand
<1>3. ~IsConst(x.args[n]) => x.args[n][2] \in VariablesOf(x)
  BY DEF VariablesOf
<1> QED
  BY <1>2, <1>3

LEMMA ValueIsInt ==
    ASSUME env \in [Variables -> Values], NEW x, IsIndex(x) PROVE Value(x) \in Int
<1>1. /\ 1 \in DOMAIN x.args /\ (x.op # "" => 2 \in DOMAIN x.args)
      /\ x.op \in {"", "add", "sub", "mul", "div"}
  BY IndexArgs
<1>2. Operand(x.args[1]) \in Int
  BY <1>1, OperandIsInt
<1>3. CASE x.op = ""
  BY <1>2, <1>3 DEF Value
<1>4. CASE x.op # ""
  <2>1. Operand(x.args[2]) \in Int
    BY <1>1, <1>4, OperandIsInt
  <2>2. CASE x.op = "div"
    <3>1. Operand(x.args[2]) = x.args[2][2] /\ x.args[2][2] > 0
      BY <2>2 DEF IsIndex, Operand
    <3>2. \A a \in Int, b \in Int : b > 0 => Truncated(a, b) \in Int
      BY DEF Truncated
    <3>3. Value(x) = Truncated(Operand(x.args[1]), Operand(x.args[2]))
      BY <2>2 DEF Value
    <3> QED
      BY <1>2, <2>1, <3>1, <3>2, <3>3
  <2>3. CASE x.op \in {"add", "sub", "mul"}
    <3>1. \A a \in Int, b \in Int : a + b \in Int /\ a - b \in Int /\ a * b \in Int
      OBVIOUS
    <3> QED
      BY <1>2, <2>1, <2>3, <3>1 DEF Value
  <2> QED
    BY <1>1, <1>4, <2>2, <2>3
<1> QED
  BY <1>3, <1>4

LEMMA SwappedHasSameValue ==
    ASSUME env \in [Variables -> Values], NEW x, NEW y, IsIndex(x), SameValue(x, y)
    PROVE  Value(y) = Value(x)
<1> SUFFICES ASSUME Commutes(x.op), y = Swapped(x) PROVE Value(y) = Value(x)
  BY DEF SameValue
<1>1. DOMAIN x.args = 1 .. 2 /\ x.op \in {"add", "mul"}
  BY DEF Commutes, IsIndex
<1>2. Operand(x.args[1]) \in Int /\ Operand(x.args[2]) \in Int
  BY <1>1, OperandIsInt
<1>3. Reverse(x.args) = [n \in 1 .. 2 |-> x.args[(2 - n) + 1]]
  <2>1. Len(x.args) = 2
    BY <1>1
  <2> QED
    BY <2>1 DEF Reverse
<1>4. y.op = x.op /\ y.args = Reverse(x.args)
  BY DEF Swapped
<1>5. y.args[1] = x.args[2] /\ y.args[2] = x.args[1]
  BY <1>3, <1>4
<1>6. \A a \in Int, b \in Int : a + b = b + a /\ a * b = b * a
  OBVIOUS
<1> QED
  BY <1>1, <1>2, <1>4, <1>5, <1>6 DEF Value

LEMMA ValueStays ==
    ASSUME env \in [Variables -> Values], NEW x, IsIndex(x), \A v \in VariablesOf(x) : env'[v] = env[v]
    PROVE  Value(x)' = Value(x)
<1>1. /\ 1 \in DOMAIN x.args /\ (x.op # "" => 2 \in DOMAIN x.args)
      /\ x.op \in {"", "add", "sub", "mul", "div"}
  BY IndexArgs
<1>2. \A n \in DOMAIN x.args : Operand(x.args[n])' = Operand(x.args[n])
  BY OperandIsInt DEF Operand
<1>3. CASE x.op = ""
  BY <1>1, <1>2, <1>3 DEF Value
<1>4. CASE x.op # ""
  BY <1>1, <1>2, <1>4 DEF Value
<1> QED
  BY <1>3, <1>4

-----------------------------------------------------------------------------
(***************************************************************************)
(* A run: the sizes the calls read are the ones the memory has.            *)
(***************************************************************************)
RunTyped ==
    /\ at = <<at[1], at[2]>> /\ at[1] \in Blocks(prog) /\ at[2] \in 1 .. Len(prog.body[at[1]]) + 1
    /\ env \in [Variables -> Values]
    /\ DOMAIN sizes = DOMAIN prog.objects /\ DOMAIN loaded = Places

\* The statements that every way to the place of the run has led over.
Passed(d) == (d[1] = at[1] /\ d[2] < at[2]) \/ (d[1] = Entry(prog) /\ at[1] # Entry(prog))

Memory ==
    \A x \in DOMAIN prog.objects, d \in Places :
        AllocatedAt(x, d) /\ Passed(d) =>
            /\ sizes[x] \in Int
            /\ sizes[x] = IF Constant(Statement(d).size) THEN Statement(d).size.args[1][2] ELSE loaded[d]

LEMMA AtIsPlace ==
    ASSUME prog \in Programs, RunTyped, NEW op, Running(op), Step, prog' = prog
    PROVE  /\ at \in Places /\ at' = <<at[1], at[2] + 1>> /\ at'[1] = at[1] /\ at'[2] = at[2] + 1
           /\ at'[1] \in Blocks(prog) /\ at'[2] \in 1 .. Len(prog.body[at'[1]]) + 1
           /\ \A d \in Places : Passed(d)' => Passed(d) \/ d = at
<1>1. at[2] \in 1 .. Len(prog.body[at[1]]) /\ Len(prog.body[at[1]]) \in Nat
  BY Bodies DEF RunTyped, Running
<1>2. at \in Places
  BY <1>1, IsPlace DEF RunTyped
<1>3. at' = <<at[1], at[2] + 1>>
  BY DEF Step
<1>4. ASSUME NEW d \in Places, Passed(d)' PROVE Passed(d) \/ d = at
  <2>1. d = <<d[1], d[2]>> /\ d[2] \in Nat /\ at = <<at[1], at[2]>>
    BY PlaceFacts DEF RunTyped
  <2> QED
    BY <1>1, <1>3, <1>4, <2>1 DEF Passed, Entry
<1> QED
  BY <1>1, <1>2, <1>3, <1>4 DEF RunTyped

LEMMA AllocationsStay ==
    ASSUME prog' = prog PROVE \A x, d : AllocatedAt(x, d)' <=> AllocatedAt(x, d)
  BY PlacesStay DEF AllocatedAt

LEMMA MallocKeepsMemory ==
    ASSUME PassInv, RunTyped, Memory, Malloc, outcome' = "running" PROVE RunTyped' /\ Memory'
<1>1. prog' = prog /\ env' = env /\ prog \in Programs /\ Statement(at).op = "malloc"
  BY DEF Malloc, pass, PassInv, Running
<1>2. /\ at \in Places /\ at' = <<at[1], at[2] + 1>> /\ at'[1] \in Blocks(prog)
      /\ at'[2] \in 1 .. Len(prog.body[at'[1]]) + 1 /\ at'[1] = at[1] /\ at'[2] = at[2] + 1
      /\ \A d \in Places : Passed(d)' => Passed(d) \/ d = at
  BY <1>1, AtIsPlace DEF Malloc
<1>3. /\ Places' = Places /\ (\A c : Statement(c)' = Statement(c))
      /\ \A x, d : AllocatedAt(x, d)' <=> AllocatedAt(x, d)
  BY <1>1, PlacesStay, AllocationsStay
<1>4. /\ sizes' = [x \in DOMAIN sizes |-> IF x \in Statement(at).slots THEN Value(Statement(at).size) ELSE sizes[x]]
      /\ loaded' = [loaded EXCEPT ![at] =
                      IF Constant(Statement(at).size) THEN 0 ELSE Operand(GetInstLoad(Statement(at).size))]
  BY DEF Malloc
<1>5. RunTyped'
  BY <1>1, <1>2, <1>3, <1>4 DEF RunTyped
<1>6. ASSUME NEW x \in DOMAIN prog.objects, NEW d \in Places, AllocatedAt(x, d), Passed(d)'
      PROVE  /\ sizes'[x] \in Int
             /\ sizes'[x] = IF Constant(Statement(d).size) THEN Statement(d).size.args[1][2] ELSE loaded'[d]
  <2>1. SetsPointer(Statement(d), x) /\ \A e \in Places : SetsPointer(Statement(e), x) => e = d
    BY <1>6 DEF AllocatedAt
  <2>2. x \in DOMAIN sizes /\ at \in DOMAIN loaded /\ d \in DOMAIN loaded
    BY <1>2 DEF RunTyped
  <2>3. CASE d = at
    <3>1. x \in Statement(at).slots
      BY <1>1, <2>1, <2>3 DEF SetsPointer
    <3>2. IsIndex(Statement(at).size) /\ Statement(at).size.op = ""
      BY <1>1, <1>2, <1>6, <2>3, PlaceFacts DEF AllocatedAt, IsStatement
    <3> DEFINE size == Statement(at).size
    <3>3. sizes'[x] = Value(size) /\ Value(size) = Operand(size.args[1])
      BY <1>4, <2>2, <3>1, <3>2 DEF Value
    <3>4. sizes'[x] \in Int
      BY <3>2, <3>3, ValueIsInt DEF RunTyped
    <3>5. CASE Constant(size)
      BY <2>3, <3>3, <3>4, <3>5 DEF Constant, Operand
    <3>6. CASE ~Constant(size)
      <4>1. ~IsConst(size.args[1])
        BY <3>2, <3>6 DEF Constant
      <4>2. DOMAIN size.args = 1 .. 1
        <5>1. DOMAIN size.args = 1 .. (IF size.op = "" THEN 1 ELSE 2)
          BY <3>2, Zenon DEF IsIndex
        <5> QED
          BY <3>2, <5>1, Zenon
      <4>3. {n \in DOMAIN size.args : ~IsConst(size.args[n])} = {1}
        BY <4>1, <4>2
      <4>4. GetInstLoad(size) = size.args[1]
        <5> HIDE DEF size
        <5>1. (CHOOSE n \in {1} : \A m \in {1} : m <= n) = 1
          OBVIOUS
        <5> QED
          BY <4>3, <5>1 DEF GetInstLoad
      <4> QED
        BY <1>4, <2>2, <2>3, <3>3, <3>4, <3>6, <4>4
    <3> QED
      BY <3>5, <3>6
  <2>4. CASE d # at
    <3>1. Passed(d)
      BY <1>2, <1>6, <2>4
    <3>2. x \notin Statement(at).slots
      BY <1>1, <1>2, <2>1, <2>4 DEF SetsPointer
    <3>3. sizes'[x] = sizes[x] /\ loaded'[d] = loaded[d]
      BY <1>4, <2>2, <2>4, <3>2
    <3> QED
      BY <1>6, <3>1, <3>3 DEF Memory
  <2> QED
    BY <2>3, <2>4
<1>7. Memory'
  BY <1>1, <1>3, <1>6 DEF Memory
<1> QED
  BY <1>5, <1>7

\* A statement that allocates nothing and sets no pointer that is allocated
\* once.
LEMMA OthersKeepMemory ==
    ASSUME PassInv, Memory, prog' = prog, at \in Places, Statement(at).op # "malloc",
           \A d \in Places : Passed(d)' => Passed(d) \/ d = at,
           loaded' = loaded,
           \A x \in DOMAIN prog.objects : ~SetsPointer(Statement(at), x) => sizes'[x] = sizes[x]
    PROVE  Memory'
<1>1. /\ Places' = Places /\ (\A c : Statement(c)' = Statement(c))
      /\ \A x, d : AllocatedAt(x, d)' <=> AllocatedAt(x, d)
  BY PlacesStay, AllocationsStay
<1>2. ASSUME NEW x \in DOMAIN prog.objects, NEW d \in Places, AllocatedAt(x, d), Passed(d)'
      PROVE  /\ sizes'[x] \in Int
             /\ sizes'[x] = IF Constant(Statement(d).size) THEN Statement(d).size.args[1][2] ELSE loaded'[d]
  <2>1. \A e \in Places : SetsPointer(Statement(e), x) => e = d
    BY <1>2 DEF AllocatedAt
  <2>2. d # at
    BY <1>2 DEF AllocatedAt
  <2>3. Passed(d) /\ sizes'[x] = sizes[x]
    BY <1>2, <2>1, <2>2
  <2> QED
    BY <1>2, <2>3 DEF Memory
<1> QED
  BY <1>1, <1>2 DEF Memory

LEMMA CopyKeepsMemory ==
    ASSUME PassInv, RunTyped, Memory, Copy PROVE RunTyped' /\ Memory'
<1>1. prog' = prog /\ env' = env /\ loaded' = loaded /\ prog \in Programs /\ Statement(at).op = "copy"
  BY DEF Copy, pass, PassInv, Running
<1>2. /\ at \in Places /\ at' = <<at[1], at[2] + 1>> /\ at'[1] \in Blocks(prog)
      /\ at'[2] \in 1 .. Len(prog.body[at'[1]]) + 1 /\ at'[1] = at[1] /\ at'[2] = at[2] + 1
      /\ \A d \in Places : Passed(d)' => Passed(d) \/ d = at
  BY <1>1, AtIsPlace DEF Copy
<1>3. sizes' = [sizes EXCEPT ![Statement(at).to] = sizes[Statement(at).from]]
  BY DEF Copy
<1>4. RunTyped'
  BY <1>1, <1>2, <1>3, PlacesStay DEF RunTyped
<1>5. \A x \in DOMAIN prog.objects : ~SetsPointer(Statement(at), x) => sizes'[x] = sizes[x]
  BY <1>1, <1>3 DEF SetsPointer, RunTyped
<1> QED
  BY <1>1, <1>2, <1>4, <1>5, OthersKeepMemory

LEMMA StoreKeepsMemory ==
    ASSUME PassInv, RunTyped, Memory, Store, outcome' = "running" PROVE RunTyped' /\ Memory'
<1>1. /\ prog' = prog /\ sizes' = sizes /\ loaded' = loaded /\ prog \in Programs
      /\ Statement(at).op = "store" /\ outcome = "running"
  BY DEF Store, pass, PassInv, Running
<1>2. /\ at \in Places /\ at' = <<at[1], at[2] + 1>> /\ at'[1] \in Blocks(prog)
      /\ at'[2] \in 1 .. Len(prog.body[at'[1]]) + 1 /\ at'[1] = at[1] /\ at'[2] = at[2] + 1
      /\ \A d \in Places : Passed(d)' => Passed(d) \/ d = at
  BY <1>1, AtIsPlace DEF Store
<1>3. env' \in [Variables -> Values]
  <2>1. CASE Value(Statement(at).value) \in Values
    <3>1. env' = [env EXCEPT ![Statement(at).var] = Value(Statement(at).value)]
      BY <2>1 DEF Store
    <3> QED
      BY <2>1, <3>1 DEF RunTyped
  <2>2. CASE Value(Statement(at).value) \notin Values
    BY <2>2 DEF Store
  <2> QED
    BY <2>1, <2>2
<1>4. RunTyped'
  BY <1>1, <1>2, <1>3, PlacesStay DEF RunTyped
<1> QED
  BY <1>1, <1>2, <1>4, OthersKeepMemory

LEMMA AccessKeepsMemory ==
    ASSUME PassInv, RunTyped, Memory, Access PROVE RunTyped' /\ Memory'
<1>1. /\ prog' = prog /\ sizes' = sizes /\ loaded' = loaded /\ env' = env /\ prog \in Programs
      /\ Statement(at).op = "access"
  BY DEF Access, pass, PassInv, Running
<1>2. /\ at \in Places /\ at' = <<at[1], at[2] + 1>> /\ at'[1] \in Blocks(prog)
      /\ at'[2] \in 1 .. Len(prog.body[at'[1]]) + 1 /\ at'[1] = at[1] /\ at'[2] = at[2] + 1
      /\ \A d \in Places : Passed(d)' => Passed(d) \/ d = at
  BY <1>1, AtIsPlace DEF Access
<1>3. RunTyped'
  BY <1>1, <1>2, PlacesStay DEF RunTyped
<1> QED
  BY <1>1, <1>2, <1>3, OthersKeepMemory

LEMMA SkipKeepsMemory ==
    ASSUME PassInv, RunTyped, Memory, Skip PROVE RunTyped' /\ Memory'
<1>1. /\ prog' = prog /\ sizes' = sizes /\ loaded' = loaded /\ env' = env /\ prog \in Programs
      /\ Statement(at).op = "other"
  BY DEF Skip, pass, PassInv, Running
<1>2. /\ at \in Places /\ at' = <<at[1], at[2] + 1>> /\ at'[1] \in Blocks(prog)
      /\ at'[2] \in 1 .. Len(prog.body[at'[1]]) + 1 /\ at'[1] = at[1] /\ at'[2] = at[2] + 1
      /\ \A d \in Places : Passed(d)' => Passed(d) \/ d = at
  BY <1>1, AtIsPlace DEF Skip
<1>3. RunTyped'
  BY <1>1, <1>2, PlacesStay DEF RunTyped
<1> QED
  BY <1>1, <1>2, <1>3, OthersKeepMemory

LEMMA BranchKeepsMemory ==
    ASSUME PassInv, RunTyped, Memory, Branch, outcome' = "running"
    PROVE  RunTyped' /\ Memory'
<1>1. /\ prog' = prog /\ sizes' = sizes /\ loaded' = loaded /\ env' = env /\ prog \in Programs
      /\ at[2] > Len(prog.body[at[1]])
  BY DEF Branch, pass, PassInv
<1>2. PICK b \in prog.succs[at[1]] : at' = <<b, 1>>
  BY DEF Branch
<1>3. b \in Blocks(prog) /\ 1 \in 1 .. Len(prog.body[b]) + 1
  <2>1. b \in Blocks(prog)
    BY <1>1, Bodies DEF RunTyped
  <2> QED
    BY <1>1, <2>1, Bodies
<1>4. RunTyped'
  BY <1>1, <1>2, <1>3, PlacesStay DEF RunTyped
<1>5. ASSUME NEW d \in Places, Passed(d)' PROVE Passed(d)
  <2>1. d[2] \in Nat /\ d[2] >= 1 /\ d[2] <= Len(prog.body[d[1]]) /\ Len(prog.body[d[1]]) \in Nat
    BY <1>1, PlaceFacts, Bodies
  <2>2. d[1] = Entry(prog)
    BY <1>1, <1>2, <1>5, <2>1 DEF Passed, Entry
  <2>3. at[1] = d[1] => d[2] < at[2]
    BY <1>1, <2>1 DEF RunTyped
  <2> QED
    BY <2>2, <2>3 DEF Passed
<1>6. /\ Places' = Places /\ (\A c : Statement(c)' = Statement(c))
      /\ \A x, d : AllocatedAt(x, d)' <=> AllocatedAt(x, d)
  BY <1>1, PlacesStay, AllocationsStay
<1>7. Memory'
  BY <1>1, <1>5, <1>6 DEF Memory
<1> QED
  BY <1>4, <1>7

-----------------------------------------------------------------------------
(***************************************************************************)
(* A run: what the calls that stand for deleted ones have checked.         *)
(***************************************************************************)
LEMMA CallFacts ==
    ASSUME PassInv, stage \in {"local", "run"}, NEW c \in Places, NEW d \in DOMAIN calls[c]
    PROVE  LET index == Statement(c).indices[d]
               limit == LimitOf(Statement(c).array, d)
           IN  /\ Statement(c).op = "access" /\ d \in DOMAIN Statement(c).indices
               /\ calls[c][d].index = index /\ calls[c][d].limit = limit /\ Called(index, limit)
               /\ calls[c][d].min = calls[c][d].max
               /\ calls[c][d].record = IF limit.dyn = None THEN [index |-> index, top |-> limit.max]
                                       ELSE [index |-> None, top |-> 0]
<1> DEFINE index == Statement(c).indices[d]
           limit == LimitOf(Statement(c).array, d)
<1>1. PICK kept \in SUBSET Calls :
        /\ \A a \in Places : DOMAIN calls[a] = DOMAIN Given(a)
        /\ \A a \in Places : \A b \in DOMAIN calls[a] :
             calls[a][b] = [Given(a)[b] EXCEPT !.min = <<a, b>> \in kept, !.max = <<a, b>> \in kept]
  BY DEF PassInv, Sifted
<1>2. d \in DOMAIN Given(c)
  BY <1>1
<1>3. /\ Statement(c).op = "access" /\ d \in DOMAIN Statement(c).indices /\ Called(index, limit)
      /\ Given(c)[d] = NewCall(index, limit)
  BY <1>2, GivenFacts DEF PassInv
<1>4. calls[c][d] = [NewCall(index, limit) EXCEPT !.min = <<c, d>> \in kept, !.max = <<c, d>> \in kept]
  BY <1>1, <1>3
<1> HIDE DEF index, limit
<1>5. /\ calls[c][d].index = index /\ calls[c][d].limit = limit /\ calls[c][d].min = calls[c][d].max
      /\ calls[c][d].record = IF limit.dyn = None THEN [index |-> index, top |-> limit.max]
                              ELSE [index |-> None, top |-> 0]
  BY <1>4 DEF NewCall
<1> QED
  BY <1>3, <1>5 DEF index, limit

LEMMA RecordOfCall ==
    ASSUME PassInv, stage \in {"local", "run"}, NEW c \in Places, NEW d \in DOMAIN calls[c],
           calls[c][d].record.index # None
    PROVE  /\ calls[c][d].limit.dyn = None
           /\ calls[c][d].record.index = calls[c][d].index
           /\ calls[c][d].record.top = calls[c][d].limit.max
<1> DEFINE index == Statement(c).indices[d]
           limit == LimitOf(Statement(c).array, d)
<1>1. /\ calls[c][d].index = index /\ calls[c][d].limit = limit
      /\ calls[c][d].record = IF limit.dyn = None THEN [index |-> index, top |-> limit.max]
                              ELSE [index |-> None, top |-> 0]
  BY CallFacts
<1> HIDE DEF index, limit
<1> QED
  BY <1>1

LEMMA EveryCall ==
    ASSUME PassInv, stage \in {"local", "run"}, NEW c \in Places
    PROVE  DOMAIN calls[c] = DOMAIN Given(c)
  BY DEF PassInv, Sifted

LEMMA GarbageFindsMore ==
    ASSUME NEW l, NEW r, NEW garbage \in BOOLEAN, IdenticalValue(l, r, garbage)
    PROVE  IdenticalValue(l, r, TRUE)
  BY DEF IdenticalValue, InstIsIdentical

\* A call that was deleted: the one that stands for it.
LEMMA DeletedHasLike ==
    ASSUME PassInv, stage \in {"local", "run"}, outcome # "crashed",
           NEW c \in Places, NEW d \in DOMAIN calls[c], ~calls[c][d].min
    PROVE  /\ calls[c][d].limit.dyn = None
           /\ \E e \in Places : \E f \in DOMAIN calls[e] :
                /\ calls[e][f].min /\ calls[e][f].limit.dyn = None
                /\ calls[e][f].limit.max = calls[c][d].limit.max
                /\ IdenticalValue(calls[e][f].index, calls[c][d].index, TRUE)
                /\ ~Constant(calls[e][f].index) /\ ~Constant(calls[c][d].index)
                /\ Ahead(e, c)
<1>1. PICK kept \in SUBSET Calls :
        /\ \A a \in Places : DOMAIN calls[a] = DOMAIN Given(a)
        /\ \A a \in Places : \A b \in DOMAIN calls[a] :
             calls[a][b] = [Given(a)[b] EXCEPT !.min = <<a, b>> \in kept, !.max = <<a, b>> \in kept]
        /\ \A w \in Calls \ kept : \E garbage \in BOOLEAN, v \in kept :
             Precedes(v, w) /\ SameCheck(CallAt(v).record, CallAt(w).record, garbage)
        /\ ~Crashes(kept)
  BY DEF PassInv, Sifted
<1>2. ASSUME NEW a \in Places, NEW b \in DOMAIN calls[a] PROVE calls[a][b].min = (<<a, b>> \in kept)
  <2>1. b \in DOMAIN Given(a)
    BY <1>1
  <2>2. Given(a)[b] = NewCall(Statement(a).indices[b], LimitOf(Statement(a).array, b))
    BY <2>1, GivenFacts DEF PassInv
  <2>3. calls[a][b] = [Given(a)[b] EXCEPT !.min = <<a, b>> \in kept, !.max = <<a, b>> \in kept]
    BY <1>1
  <2> QED
    BY <2>2, <2>3 DEF NewCall
<1> DEFINE w == <<c, d>>
<1>3. w \in Calls \ kept
  <2>1. w \in Calls
    BY DEF Calls
  <2>2. w \notin kept
    BY <1>2
  <2> QED
    BY <2>1, <2>2
<1>4. CallAt(w) = calls[c][d] /\ w[1] = c
  BY DEF CallAt
<1>5. CallAt(w).record.index # None
  BY <1>1, <1>3 DEF Crashes
<1>6. /\ calls[c][d].limit.dyn = None /\ calls[c][d].record.index = calls[c][d].index
      /\ calls[c][d].record.top = calls[c][d].limit.max
  BY <1>4, <1>5, RecordOfCall
<1>7. PICK garbage \in BOOLEAN, v \in kept :
        Precedes(v, w) /\ SameCheck(CallAt(v).record, CallAt(w).record, garbage)
  <2> HIDE DEF w
  <2> QED
    BY <1>1, <1>3
<1>8. v \in Calls
  BY <1>1
<1>9. PICK e \in Places : \E f \in DOMAIN calls[e] : v = <<e, f>>
  BY <1>8 DEF Calls
<1>10. PICK f \in DOMAIN calls[e] : v = <<e, f>>
  BY <1>9
<1>11. CallAt(v) = calls[e][f] /\ v[1] = e /\ calls[e][f].min
  BY <1>2, <1>7, <1>10 DEF CallAt
<1>12. calls[e][f].record.index # None
  <2> HIDE DEF w
  <2> QED
    BY <1>5, <1>7, <1>11 DEF SameCheck, IdenticalValue
<1>13. /\ calls[e][f].limit.dyn = None /\ calls[e][f].record.index = calls[e][f].index
       /\ calls[e][f].record.top = calls[e][f].limit.max
  BY <1>12, RecordOfCall
<1>14. /\ calls[e][f].limit.max = calls[c][d].limit.max
       /\ IdenticalValue(calls[e][f].index, calls[c][d].index, garbage)
  <2>1. SameCheck(calls[e][f].record, calls[c][d].record, garbage)
    BY <1>4, <1>7, <1>11
  <2> QED
    BY <1>6, <1>13, <2>1 DEF SameCheck
<1>15. IdenticalValue(calls[e][f].index, calls[c][d].index, TRUE)
  BY <1>14, GarbageFindsMore
<1>16. Ahead(e, c) /\ ~Constant(calls[e][f].index) /\ ~Constant(calls[c][d].index)
  <2>1. {v, w} \subseteq Index /\ Ahead(e, c)
    BY <1>4, <1>7, <1>11 DEF Precedes
  <2> QED
    BY <1>4, <1>11, <2>1 DEF Index
<1> QED
  BY <1>6, <1>11, <1>13, <1>14, <1>15, <1>16

\* A kept call that every way here comes by has checked its index, if its
\* variables have not been stored to on the way.
ChecksHold ==
    \A here \in {at} : \A c \in Places : \A d \in DOMAIN calls[c] : \A index \in {calls[c][d].index} :
        /\ calls[c][d].min /\ calls[c][d].limit.dyn = None /\ c # here
        /\ <<Entry(prog), 1>> \notin Between(c, here) \ {c} /\ Unstored(c, here, index)
        => Value(index) >= 0 /\ ~(Value(index) >= calls[c][d].limit.max)

LEMMA WaysStay ==
    ASSUME prog' = prog
    PROVE  /\ Entry(prog)' = Entry(prog) /\ \A c, d : Between(c, d)' = Between(c, d)
           /\ \A c, d, x : Unstored(c, d, x)' <=> Unstored(c, d, x)
<1>1. Places' = Places /\ \A c : Statement(c)' = Statement(c)
  BY PlacesStay
<1>2. Points' = Points /\ \A c : Before(c)' = Before(c)
  BY <1>1 DEF Points, Before, Blocks, Preds
<1>3. \A c, d : Between(c, d)' = Between(c, d)
  BY <1>2 DEF Between
<1>4. \A c, v : StoresTo(c, v)' <=> StoresTo(c, v)
  BY <1>1 DEF StoresTo, IsStore
<1> QED
  BY <1>3, <1>4 DEF Unstored, Entry

LEMMA CallIndex ==
    ASSUME PassInv, stage \in {"local", "run"}, NEW c \in Places, NEW d \in DOMAIN calls[c]
    PROVE  IsIndex(calls[c][d].index) /\ calls[c][d].index \in Range(Statement(c).indices)
<1>1. Statement(c).op = "access" /\ d \in DOMAIN Statement(c).indices /\ calls[c][d].index = Statement(c).indices[d]
  BY CallFacts
<1>2. IsIndex(Statement(c).indices[d])
  BY <1>1, PlaceFacts DEF PassInv, IsStatement
<1> QED
  BY <1>1, <1>2 DEF Range

LEMMA ChecksStep ==
    ASSUME PassInv, RunTyped, ChecksHold, stage = "run", prog' = prog, calls' = calls,
           at \in Points, at' \in Points, at \in Before(at'),
           \A v \in Variables : env'[v] = env[v] \/ StoresTo(at, v),
           at \in Places => \A d \in DOMAIN calls[at] : ~Fails(calls[at][d])
    PROVE  ChecksHold'
<1>1. Places' = Places /\ prog \in Programs
  BY PlacesStay DEF PassInv
<1> SUFFICES ASSUME NEW there \in {at'}, NEW c \in Places', NEW d \in DOMAIN calls'[c],
                    NEW index \in {calls'[c][d].index},
                    /\ calls'[c][d].min /\ calls'[c][d].limit.dyn = None /\ c # there
                    /\ <<Entry(prog)', 1>> \notin Between(c, there)' \ {c} /\ Unstored(c, there, index)'
             PROVE  Value(index)' >= 0 /\ ~(Value(index)' >= calls'[c][d].limit.max)
  BY Zenon DEF ChecksHold
<1>2. /\ c \in Places /\ d \in DOMAIN calls[c] /\ index = calls[c][d].index
      /\ calls[c][d].min /\ calls[c][d].limit.dyn = None /\ c # there
      /\ <<Entry(prog), 1>> \notin Between(c, there) \ {c} /\ Unstored(c, there, index)
  BY <1>1, WaysStay
<1>3. IsIndex(index) /\ env \in [Variables -> Values]
  BY <1>2, CallIndex DEF RunTyped
<1>4. VariablesOf(index) \subseteq Variables
  <2> SUFFICES ASSUME NEW v \in VariablesOf(index) PROVE v \in Variables
    OBVIOUS
  <2>1. PICK n \in DOMAIN index.args : ~IsConst(index.args[n]) /\ v = index.args[n][2]
    BY DEF VariablesOf
  <2> QED
    BY <1>3, <2>1 DEF IsIndex, IsOperand
<1>5. /\ there \in Between(c, there) /\ Between(c, there) \subseteq Points
      /\ \A p \in Between(c, there) \ {c} : Before(p) \subseteq Between(c, there)
  BY <1>1, BetweenIsClosed
<1>6. at \in Between(c, there)
  BY <1>2, <1>5
<1>7. \A v \in VariablesOf(index) : env'[v] = env[v]
  BY <1>2, <1>4, <1>6 DEF Unstored
<1>8. Value(index)' = Value(index) /\ Value(index) \in Int
  BY <1>3, <1>7, ValueStays, ValueIsInt
<1>9. Value(index) >= 0 /\ ~(Value(index) >= calls[c][d].limit.max)
  <2>1. CASE c = at
    <3>1. calls[c][d].max = TRUE /\ calls[c][d].min = TRUE
      BY <1>1, <1>2, CallFacts
    <3>2. ~Fails(calls[c][d])
      BY <1>2, <2>1
    <3> QED
      BY <1>2, <1>8, <3>1, <3>2 DEF Fails
  <2>2. CASE c # at
    <3>1. Between(c, at) \subseteq Between(c, there)
      BY <1>1, <1>5, <1>6, BetweenIsLeast
    <3>2. <<Entry(prog), 1>> \notin Between(c, at) \ {c} /\ Unstored(c, at, index)
      BY <1>2, <3>1 DEF Unstored
    <3> QED
      BY <1>2, <2>2, <3>2 DEF ChecksHold
  <2> QED
    BY <2>1, <2>2
<1> QED
  BY <1>2, <1>8, <1>9

-----------------------------------------------------------------------------
(***************************************************************************)
(* The calls behind an access tell whether it is inside its array.         *)
(***************************************************************************)
\* What the calls compare an index with is the extent of the array.
LEMMA LimitIsExtent ==
    ASSUME PassInv, SizesFound, stage = "run", RunTyped, Memory,
           at \in Places, Statement(at).op = "access", SizeKnown(at),
           NEW d \in DOMAIN Statement(at).indices, NEW limit, limit = LimitOf(Statement(at).array, d)
    PROVE  /\ limit.known /\ Extent(Statement(at).array, d) \in Int
           /\ Extent(Statement(at).array, d) = IF limit.dyn = None THEN limit.max ELSE loaded[limit.dyn]
<1> DEFINE x == Statement(at).array
           dims == prog.objects[x].dims
<1>1. /\ x \in DOMAIN prog.objects
      /\ dims # << >> => limit = Static(dims[d]) /\ dims[d] \in Nat
      /\ dims = << >> =>
           \E e \in Places :
             /\ AllocatedAt(x, e) /\ e[1] \in {at[1], Entry(prog)} /\ (e[1] = at[1] => e[2] < at[2])
             /\ limit = IF Constant(Statement(e).size)
                        THEN Static(Statement(e).size.args[1][2]) ELSE Dynamic(e)
  BY LimitsAreExtents
<1>2. CASE dims # << >>
  BY <1>1, <1>2 DEF Extent, Static
<1>3. CASE dims = << >>
  <2>1. PICK e \in Places :
          /\ AllocatedAt(x, e) /\ e[1] \in {at[1], Entry(prog)} /\ (e[1] = at[1] => e[2] < at[2])
          /\ limit = IF Constant(Statement(e).size)
                     THEN Static(Statement(e).size.args[1][2]) ELSE Dynamic(e)
    BY <1>1, <1>3
  <2>2. Passed(e)
    BY <2>1 DEF Passed
  <2>3. /\ sizes[x] \in Int
        /\ sizes[x] = IF Constant(Statement(e).size) THEN Statement(e).size.args[1][2] ELSE loaded[e]
    BY <1>1, <2>1, <2>2 DEF Memory
  <2>4. e # None
    BY PlaceIsSome DEF PassInv
  <2>5. Extent(x, d) = sizes[x]
    BY <1>3 DEF Extent
  <2> QED
    BY <2>1, <2>3, <2>4, <2>5 DEF Static, Dynamic
<1> QED
  BY <1>2, <1>3

LEMMA SoundAt ==
    ASSUME Sound, NEW c \in Places, Statement(c).op = "access"
    PROVE  /\ SizeKnown(c) /\ BelowLimit(c)
           /\ \A d \in Places : Statement(d).op = "access" => ToldApart(c, d)
  BY DEF Sound

\* A call that fails stands behind an access outside of its array.
LEMMA FailingIsOutside ==
    ASSUME PassInv, SizesFound, stage = "run", RunTyped, Memory, Sound,
           at \in Places, Statement(at).op = "access", NEW d \in DOMAIN calls[at], Fails(calls[at][d])
    PROVE  Outside(Statement(at))
<1>1. PICK limit : limit = LimitOf(Statement(at).array, d)
  OBVIOUS
<1>2. PICK index : index = Statement(at).indices[d]
  OBVIOUS
<1>3. /\ d \in DOMAIN Statement(at).indices /\ calls[at][d].index = index /\ calls[at][d].limit = limit
      /\ calls[at][d].min = calls[at][d].max
  BY <1>1, <1>2, CallFacts
<1>4. Value(index) \in Int
  BY <1>3, CallIndex, ValueIsInt DEF RunTyped
<1>5. /\ Extent(Statement(at).array, d) \in Int
      /\ Extent(Statement(at).array, d) = IF limit.dyn = None THEN limit.max ELSE loaded[limit.dyn]
  BY <1>1, <1>3, SoundAt, LimitIsExtent
<1>6. Value(index) < 0 \/ Value(index) >= Extent(Statement(at).array, d)
  BY <1>3, <1>5 DEF Fails
<1> QED
  BY <1>2, <1>3, <1>4, <1>5, <1>6 DEF Outside

\* Where no call fails and the compiler has not warned, every index is inside.
LEMMA PassingIsInside ==
    ASSUME PassInv, GraphInv, SizesFound, Prepared, stage = "run", outcome = "running",
           RunTyped, Memory, ChecksHold, Sound,
           at \in Places, Statement(at).op = "access", warned = {},
           \A d \in DOMAIN calls[at] : ~Fails(calls[at][d])
    PROVE  ~Outside(Statement(at))
<1> SUFFICES ASSUME NEW d \in DOMAIN Statement(at).indices, NEW index, index = Statement(at).indices[d],
                    NEW extent, extent = Extent(Statement(at).array, d)
             PROVE  Value(index) \in 0 .. extent - 1
  BY DEF Outside
<1>1. PICK limit : limit = LimitOf(Statement(at).array, d)
  OBVIOUS
<1>2. SizeKnown(at) /\ BelowLimit(at)
  BY SoundAt
<1>3. limit.known /\ extent \in Int /\ extent = IF limit.dyn = None THEN limit.max ELSE loaded[limit.dyn]
  BY <1>1, <1>2, LimitIsExtent
<1>4. IsIndex(index)
  BY PlaceFacts DEF PassInv, IsStatement
<1>5. Value(index) \in Int
  BY <1>4, ValueIsInt DEF RunTyped
<1>6. CASE Called(index, limit)
  <2>1. d \in DOMAIN calls[at]
    <3>1. d \in DOMAIN Given(at)
      BY <1>1, <1>6 DEF Given, ProcessGEP
    <3> QED
      BY <3>1, EveryCall
  <2>2. calls[at][d].index = index /\ calls[at][d].limit = limit /\ calls[at][d].min = calls[at][d].max
    BY <1>1, <2>1, CallFacts
  <2>3. CASE calls[at][d].min
    <3>1. ~(Value(index) < 0) /\ ~(Value(index) >= extent)
      BY <1>3, <2>1, <2>2, <2>3 DEF Fails
    <3> QED
      BY <1>3, <1>5, <3>1
  <2>4. CASE ~calls[at][d].min
    <3>1. limit.dyn = None
      BY <2>1, <2>2, <2>4, DeletedHasLike
    <3>2. PICK e \in Places : \E f \in DOMAIN calls[e] :
            /\ calls[e][f].min /\ calls[e][f].limit.dyn = None
            /\ calls[e][f].limit.max = calls[at][d].limit.max
            /\ IdenticalValue(calls[e][f].index, calls[at][d].index, TRUE)
            /\ ~Constant(calls[e][f].index) /\ ~Constant(calls[at][d].index) /\ Ahead(e, at)
      BY <2>1, <2>4, DeletedHasLike
    <3>3. PICK f \in DOMAIN calls[e] :
            /\ calls[e][f].min /\ calls[e][f].limit.dyn = None /\ calls[e][f].limit.max = limit.max
            /\ IdenticalValue(calls[e][f].index, index, TRUE)
            /\ ~Constant(calls[e][f].index) /\ ~Constant(index) /\ Ahead(e, at)
      BY <2>2, <3>2
    <3>4. PICK other : other = calls[e][f].index
      OBVIOUS
    <3>5. IsIndex(other) /\ other \in Range(Statement(e).indices) /\ Statement(e).op = "access"
      BY <3>4, CallIndex, CallFacts
    <3>6. SameValue(other, index) /\ Unstored(e, at, other)
      <4>1. ToldApart(e, at)
        BY <3>5, SoundAt
      <4>2. index \in Range(Statement(at).indices)
        BY DEF Range
      <4> QED
        BY <3>3, <3>4, <3>5, <4>1, <4>2 DEF ToldApart
    <3>7. Value(index) = Value(other)
      BY <3>5, <3>6, SwappedHasSameValue DEF RunTyped
    <3>8. Value(other) >= 0 /\ ~(Value(other) >= limit.max)
      <4>1. CASE e = at
        <5>1. calls[at][f].max = calls[at][f].min
          BY <3>3, <4>1, CallFacts
        <5> QED
          BY <1>5, <3>3, <3>4, <3>7, <4>1, <5>1 DEF Fails
      <4>2. CASE e # at
        <5>1. Entry(prog) \in func.kept
          <6>1. Statement(at).array \in DOMAIN prog.objects
            BY PlaceFacts DEF PassInv, IsStatement
          <6> QED
            BY <6>1 DEF GraphInv
        <5>2. <<Entry(prog), 1>> \notin Between(e, at) \ {e}
          BY <3>3, <5>1, NoWayAround
        <5> QED
          BY <3>3, <3>4, <3>6, <4>2, <5>2 DEF ChecksHold
      <4> QED
        BY <4>1, <4>2
    <3> QED
      BY <1>3, <1>5, <3>1, <3>7, <3>8
  <2> QED
    BY <2>3, <2>4
<1>7. CASE ~Called(index, limit)
  <2>1. Constant(index) /\ limit.dyn = None
    BY <1>3, <1>7 DEF Called
  <2>2. Value(index) = index.args[1][2]
    BY <2>1 DEF Constant, Value, Operand
  <2>3. Warned(at) = {}
    BY DEF Prepared
  <2>4. ~(index.args[1][2] < 0 \/ index.args[1][2] > limit.max)
    <3>1. index.args[1][2] < 0 \/ index.args[1][2] > limit.max => <<at, d>> \in Warned(at)
      BY <1>1, <1>3, <1>7 DEF Warned
    <3> QED
      BY <2>3, <3>1
  <2>5. index.args[1][2] # limit.max
    BY <1>1, <1>2, <1>3, <2>1 DEF BelowLimit
  <2> QED
    BY <1>3, <1>5, <2>1, <2>2, <2>4, <2>5
<1> QED
  BY <1>6, <1>7

-----------------------------------------------------------------------------
(***************************************************************************)
(* The invariant, from the collection of the sizes to the end of the run.  *)
(***************************************************************************)
ChecksInv ==
    /\ PassInv /\ GraphInv /\ SizesFound /\ Prepared
    /\ stage = "run" /\ outcome = "running" /\ Sound => RunTyped /\ Memory /\ ChecksHold
    /\ NoMissedViolation /\ NoSpuriousTrap

LEMMA SoundStays ==
    ASSUME prog' = prog, arrayMap' = arrayMap, UNCHANGED graph PROVE Sound' <=> Sound
<1>1. Places' = Places /\ \A c : Statement(c)' = Statement(c)
  BY PlacesStay
<1>2. \A x, d : LimitOf(x, d)' = LimitOf(x, d)
  BY LimitsStay
<1>3. \A c : SizeKnown(c)' <=> SizeKnown(c)
  BY <1>1 DEF SizeKnown, AllocatedOnce
<1>4. \A c : BelowLimit(c)' <=> BelowLimit(c)
  BY <1>1, <1>2 DEF BelowLimit
<1>5. \A c, d : ToldApart(c, d)' <=> ToldApart(c, d)
  BY <1>1, NodesStay, WaysStay DEF ToldApart, graph
<1> QED
  BY <1>1, <1>3, <1>4, <1>5 DEF Sound

LEMMA ChecksInvInit == Init => ChecksInv
<1> SUFFICES ASSUME Init PROVE ChecksInv
  OBVIOUS
<1>1. PassInv /\ GraphInv /\ SizesFound
  BY PassInvInit, GraphInvInit, SizesFoundInit
<1>2. Prepared
  BY DEF Init, Prepared, Entry
<1> QED
  BY <1>1, <1>2 DEF Init, ChecksInv, NoMissedViolation, NoSpuriousTrap

LEMMA ChecksInvPass ==
    ASSUME ChecksInv, Collect \/ StartInserting \/ Insert \/ StartConstructing \/ Construct \/ LocalOpt
    PROVE  ChecksInv'
<1>1. PassInv /\ PassInv' /\ GraphInv' /\ SizesFound /\ Prepared
  BY PassInvSteps, GraphInvSteps DEF ChecksInv, Next
<1>2. prog' = prog /\ prog \in Programs
  BY <1>1 DEF Collect, StartInserting, Insert, StartConstructing, Construct, LocalOpt, PassInv, pass
<1>3. Places' = Places /\ \A c : Statement(c)' = Statement(c)
  BY <1>2, PlacesStay
<1>4. SizesFound'
  <2>1. CASE Collect
    BY <1>1, <2>1, SizesFoundCollecting
  <2>2. CASE StartInserting
    <3>1. \A c \in Places : Reached(c)
      BY <1>1, <2>2, LoopEnds DEF PassInv, StartInserting
    <3> QED
      BY <1>1, <1>2, <2>2, <3>1, SizesFoundStay DEF StartInserting
  <2>3. CASE Insert \/ StartConstructing \/ Construct \/ LocalOpt
    BY <1>1, <1>2, <2>3, SizesFoundStay DEF Insert, StartConstructing, Construct, LocalOpt, pass
  <2> QED
    BY <2>1, <2>2, <2>3
<1>5. at' = at /\ sizes' = sizes /\ loaded' = loaded /\ stage # "run" /\ stage' # "run"
  BY DEF Collect, StartInserting, Insert, StartConstructing, Construct, LocalOpt, run, pass
<1>6. outcome' \in {"none", "crashed"}
  BY <1>1, <1>5 DEF Collect, StartInserting, Insert, StartConstructing, Construct, LocalOpt, run, Prepared
<1>7. stage' = "insert" => \A c \in Places : Reached(c)' /\ Statement(c).op = "access" => Warned(c)' \subseteq warned'
  <2>1. CASE StartInserting
    BY <1>2, <2>1, LoopStartsAgain DEF StartInserting
  <2>2. CASE Insert
    <3>1. \A c : Warned(c)' = Warned(c)
      BY <1>2, <2>2, LimitsStay DEF Insert
    <3>2. \A c \in Places : Reached(c)' <=> Reached(c) \/ c = Here
      BY <1>1, <2>2, LoopGoesOn DEF PassInv, Insert
    <3>3. stage = "insert" /\ warned' = warned \cup (IF Statement(Here).op = "access" THEN Warned(Here) ELSE {})
      BY <2>2 DEF Insert
    <3> QED
      BY <1>1, <3>1, <3>2, <3>3 DEF Prepared
  <2>3. CASE Collect \/ StartConstructing \/ Construct \/ LocalOpt
    BY <2>3 DEF Collect, StartConstructing, Construct, LocalOpt, pass
  <2> QED
    BY <2>1, <2>2, <2>3
<1>8. stage' \in {"construct", "local", "run"} =>
        \A c \in Places : Statement(c).op = "access" => Warned(c)' \subseteq warned'
  <2>1. CASE StartConstructing \/ Construct \/ LocalOpt
    <3>1. /\ \A c : Warned(c)' = Warned(c)
          /\ warned' = warned
      BY <1>2, <2>1, LimitsStay DEF StartConstructing, Construct, LocalOpt, pass
    <3>2. \A c \in Places : Statement(c).op = "access" => Warned(c) \subseteq warned
      <4>1. CASE StartConstructing
        <5>1. \A c \in Places : Reached(c)
          BY <1>1, <4>1, LoopEnds DEF PassInv, StartConstructing
        <5> QED
          BY <1>1, <4>1, <5>1 DEF Prepared, StartConstructing
      <4>2. CASE Construct \/ LocalOpt
        BY <1>1, <4>2 DEF Prepared, Construct, LocalOpt
      <4> QED
        BY <2>1, <4>1, <4>2
    <3> QED
      BY <3>1, <3>2
  <2>2. CASE Collect \/ StartInserting \/ Insert
    BY <2>2 DEF Collect, StartInserting, Insert
  <2> QED
    BY <2>1, <2>2
<1>9. Prepared'
  BY <1>1, <1>2, <1>3, <1>5, <1>6, <1>7, <1>8 DEF Prepared, Entry
<1>10. NoMissedViolation' /\ NoSpuriousTrap'
  BY <1>6 DEF NoMissedViolation, NoSpuriousTrap
<1> QED
  BY <1>1, <1>4, <1>5, <1>9, <1>10 DEF ChecksInv

LEMMA ChecksInvLaunch == ASSUME ChecksInv, Launch PROVE ChecksInv'
<1>1. PassInv /\ PassInv' /\ GraphInv' /\ SizesFound /\ Prepared
  BY PassInvSteps, GraphInvSteps DEF ChecksInv, Next
<1>2. /\ prog' = prog /\ arrayMap' = arrayMap /\ calls' = calls /\ warned' = warned /\ at' = at /\ sizes' = sizes
      /\ loaded' = loaded /\ stage = "local" /\ stage' = "run" /\ outcome' = "running" /\ prog \in Programs
      /\ env' \in [Variables -> Values]
  BY <1>1 DEF Launch, PassInv
<1>3. Places' = Places /\ (\A c : Statement(c)' = Statement(c)) /\ (\A c : Warned(c)' = Warned(c))
  BY <1>2, PlacesStay, LimitsStay
<1>4. SizesFound' /\ Prepared'
  <2>1. SizesFound'
    BY <1>1, <1>2, SizesFoundStay
  <2> QED
    BY <1>1, <1>2, <1>3, <2>1 DEF Prepared
<1>5. at = <<Entry(prog), 1>> /\ Entry(prog) \in Blocks(prog) /\ at[2] = 1
  BY <1>1, <1>2, BlockFacts DEF Prepared, Entry
<1>6. RunTyped'
  <2>1. 1 \in 1 .. Len(prog.body[Entry(prog)]) + 1
    BY <1>2, <1>5, Bodies
  <2> QED
    BY <1>1, <1>2, <1>3, <1>5, <2>1 DEF RunTyped, Prepared
<1>7. \A c \in Places : ~(c[2] < 1)
  BY <1>2, PlaceFacts
<1>8. Memory'
  BY <1>2, <1>3, <1>5, <1>7 DEF Memory, Passed, Entry
\* Every way here comes by the entry, at which it is.
<1>9. ChecksHold'
  <2>1. at \in Points
    <3>1. 1 \in 1 .. Len(prog.body[Entry(prog)]) + 1
      BY <1>2, <1>5, Bodies
    <3> QED
      BY <1>2, <1>5, <3>1, IsPoint
  <2>2. \A c : at \in Between(c, at)
    BY <1>2, <2>1, BetweenIsClosed
  <2>3. \A c : c # at => <<Entry(prog), 1>> \in Between(c, at) \ {c}
    BY <1>5, <2>2
  <2> QED
    BY <1>2, <1>3, <2>3, WaysStay DEF ChecksHold
<1> QED
  BY <1>1, <1>2, <1>4, <1>6, <1>8, <1>9 DEF ChecksInv, NoMissedViolation, NoSpuriousTrap

LEMMA ChecksInvRun ==
    ASSUME ChecksInv, Malloc \/ Copy \/ Store \/ Access \/ Skip \/ Branch PROVE ChecksInv'
<1>1. PassInv /\ PassInv' /\ GraphInv /\ GraphInv' /\ SizesFound /\ Prepared
  BY PassInvSteps, GraphInvSteps DEF ChecksInv, Next
<1>2. /\ prog' = prog /\ arrayMap' = arrayMap /\ calls' = calls /\ warned' = warned /\ stage = "run"
      /\ stage' = "run" /\ outcome = "running" /\ prog \in Programs /\ UNCHANGED graph
  BY <1>1 DEF Malloc, Copy, Store, Access, Skip, Branch, Running, pass, PassInv
<1>3. Places' = Places /\ (\A c : Statement(c)' = Statement(c)) /\ (\A c : Warned(c)' = Warned(c))
  BY <1>2, PlacesStay, LimitsStay
<1>4. outcome' \in {"running", "trapped", "stopped", "missed", "cut", "returned"}
  BY <1>2 DEF Malloc, Copy, Store, Access, Skip, Branch
<1>5. SizesFound' /\ Prepared'
  <2>1. SizesFound'
    BY <1>1, <1>2, SizesFoundStay
  <2> QED
    BY <1>1, <1>2, <1>3, <1>4, <2>1 DEF Prepared
<1>6. Sound' <=> Sound
  BY <1>2, SoundStays
<1> SUFFICES ASSUME Sound
             PROVE  /\ outcome' = "running" => RunTyped' /\ Memory' /\ ChecksHold'
                    /\ outcome' = "missed" => warned # {}
                    /\ outcome' # "stopped"
  BY <1>1, <1>2, <1>5, <1>6 DEF ChecksInv, NoMissedViolation, NoSpuriousTrap
<1>7. RunTyped /\ Memory /\ ChecksHold
  BY <1>2 DEF ChecksInv
<1>8. \A c \in Places : Statement(c).op # "access" => DOMAIN calls[c] = {}
  BY <1>1, <1>2, CallFacts
<1>0. /\ at \in Places => at \in Points
      /\ at \in Places /\ at' = <<at[1], at[2] + 1>> => at' \in Points /\ at \in Before(at')
  <2>1. at \in Places => at \in Points
    BY DEF Points
  <2>2. ASSUME at \in Places, at' = <<at[1], at[2] + 1>> PROVE at' \in Points /\ at \in Before(at')
    <3>1. /\ at = <<at[1], at[2]>> /\ at[1] \in Blocks(prog) /\ at[2] \in 1 .. Len(prog.body[at[1]])
          /\ Len(prog.body[at[1]]) \in Nat
      BY <1>2, <2>2, PlaceFacts, Bodies
    <3>2. at[2] + 1 \in 1 .. Len(prog.body[at[1]]) + 1
      BY <3>1
    <3>3. at' \in Points
      BY <1>2, <2>2, <3>1, <3>2, IsPoint
    <3> QED
      BY <2>2, <3>1, <3>3 DEF Before
  <2> QED
    BY <2>1, <2>2
<1>9. CASE Malloc
  <2>1. /\ at \in Places /\ at' = <<at[1], at[2] + 1>> /\ Statement(at).op = "malloc"
        /\ env' = env /\ outcome' \in {"running", "cut"}
    BY <1>2, <1>7, <1>9, AtIsPlace DEF Malloc, Running
  <2> QED
    BY <1>0, <1>1, <1>2, <1>7, <1>8, <1>9, <2>1, MallocKeepsMemory, ChecksStep
<1>10. CASE Copy
  <2>1. /\ at \in Places /\ at' = <<at[1], at[2] + 1>> /\ Statement(at).op = "copy"
        /\ env' = env /\ outcome' = "running"
    BY <1>2, <1>7, <1>10, AtIsPlace DEF Copy, Running
  <2> QED
    BY <1>0, <1>1, <1>2, <1>7, <1>8, <1>10, <2>1, CopyKeepsMemory, ChecksStep
<1>11. CASE Store
  <2>1. /\ at \in Places /\ at' = <<at[1], at[2] + 1>> /\ Statement(at).op = "store"
        /\ outcome' \in {"running", "cut"}
    BY <1>2, <1>7, <1>11, AtIsPlace DEF Store, Running, pass
  <2>2. \A v \in Variables : env'[v] = env[v] \/ StoresTo(at, v)
    BY <1>7, <1>11, <2>1 DEF Store, RunTyped, StoresTo, IsStore
  <2> QED
    BY <1>0, <1>1, <1>2, <1>7, <1>8, <1>11, <2>1, <2>2, StoreKeepsMemory, ChecksStep
<1>12. CASE Access
  <2>1. /\ at \in Places /\ at' = <<at[1], at[2] + 1>> /\ Statement(at).op = "access" /\ env' = env
    BY <1>2, <1>7, <1>12, AtIsPlace DEF Access, Running, pass
  <2>2. CASE \E d \in DOMAIN calls[at] : Fails(calls[at][d])
    <3>1. Outside(Statement(at))
      BY <1>1, <1>2, <1>7, <2>1, <2>2, FailingIsOutside
    <3>2. outcome' = "trapped"
      BY <1>12, <2>2, <3>1 DEF Access
    <3> QED
      BY <3>2
  <2>3. CASE \A d \in DOMAIN calls[at] : ~Fails(calls[at][d])
    <3>1. warned = {} => ~Outside(Statement(at))
      BY <1>1, <1>2, <1>7, <2>1, <2>3, PassingIsInside
    <3>2. outcome' = IF Outside(Statement(at)) THEN "missed" ELSE "running"
      BY <1>2, <1>12, <2>3 DEF Access
    <3>3. RunTyped' /\ Memory' /\ ChecksHold'
      BY <1>0, <1>1, <1>2, <1>7, <1>12, <2>1, <2>3, AccessKeepsMemory, ChecksStep
    <3> QED
      BY <3>1, <3>2, <3>3
  <2> QED
    BY <2>2, <2>3
<1>13. CASE Branch
  <2>1. outcome' \in {"running", "returned"}
    BY <1>2, <1>13 DEF Branch
  <2>2. SUFFICES ASSUME outcome' = "running" PROVE RunTyped' /\ Memory' /\ ChecksHold'
    BY <2>1
  <2>3. RunTyped' /\ Memory'
    BY <1>1, <1>7, <1>13, <2>2, BranchKeepsMemory
  <2>4. /\ env' = env /\ at[2] > Len(prog.body[at[1]])
        /\ at[1] \in Blocks(prog) /\ at = <<at[1], at[2]>> /\ at[2] \in 1 .. Len(prog.body[at[1]]) + 1
        /\ Len(prog.body[at[1]]) \in Nat
    BY <1>2, <1>7, <1>13, Bodies DEF Branch, RunTyped
  <2>5. PICK b \in prog.succs[at[1]] : at' = <<b, 1>>
    BY <1>13, <2>2 DEF Branch
  <2>6. at \in Points /\ at \notin Places /\ at = <<at[1], Len(prog.body[at[1]]) + 1>>
    BY <1>2, <2>4, PlaceFacts DEF Points
  <2>7. at' \in Points /\ at \in Before(at')
    <3>1. b \in Blocks(prog) /\ 1 \in 1 .. Len(prog.body[b]) + 1
      <4>1. b \in Blocks(prog)
        BY <1>2, <2>4, Bodies
      <4> QED
        BY <1>2, <4>1, Bodies
    <3>2. at' \in Points
      BY <1>2, <2>5, <3>1, IsPoint
    <3>3. at[1] \in Preds(prog, b)
      BY <2>4, <2>5 DEF Preds
    <3> QED
      BY <2>5, <2>6, <3>2, <3>3 DEF Before
  <2>8. ChecksHold'
    BY <1>1, <1>2, <1>7, <2>4, <2>6, <2>7, ChecksStep
  <2> QED
    BY <2>3, <2>8
<1>14. CASE Skip
  <2>1. /\ at \in Places /\ at' = <<at[1], at[2] + 1>> /\ Statement(at).op = "other"
        /\ env' = env /\ outcome' = "running"
    BY <1>2, <1>7, <1>14, AtIsPlace DEF Skip, Running
  <2>2. RunTyped' /\ Memory'
    BY <1>1, <1>7, <1>14, SkipKeepsMemory
  <2> QED
    BY <1>0, <1>1, <1>2, <1>7, <1>8, <2>1, <2>2, ChecksStep
<1> QED
  BY <1>9, <1>10, <1>11, <1>12, <1>13, <1>14

LEMMA ChecksInvSteps == ASSUME ChecksInv, [Next]_vars PROVE ChecksInv'
<1>1. CASE Next
  BY <1>1, ChecksInvPass, ChecksInvLaunch, ChecksInvRun DEF Next
<1>2. CASE UNCHANGED vars
  <2>1. PassInv' /\ GraphInv'
    BY <1>2, PassInvSteps, GraphInvSteps DEF ChecksInv
  <2>2. /\ UNCHANGED graph /\ prog' = prog /\ arrayMap' = arrayMap /\ calls' = calls /\ warned' = warned /\ stage' = stage
        /\ outcome' = outcome /\ pos' = pos /\ at' = at /\ env' = env /\ sizes' = sizes /\ loaded' = loaded
    BY <1>2 DEF vars, pass, run
  <2>3. /\ Places' = Places /\ (\A c : Statement(c)' = Statement(c)) /\ (\A c : Warned(c)' = Warned(c))
        /\ (\A x, d : AllocatedAt(x, d)' <=> AllocatedAt(x, d)) /\ (\A c : Reached(c)' <=> Reached(c))
    BY <2>2, PlacesStay, LimitsStay, AllocationsStay DEF Reached
  <2>4. SizesFound' /\ Prepared'
    <3>1. \A d \in Places : Collected(d)' = Collected(d)
      BY <2>2, <2>3 DEF Collected
    <3>2. SizesFound'
      BY <2>2, <2>3, <3>1 DEF ChecksInv, SizesFound
    <3> QED
      BY <2>2, <2>3, <3>2 DEF ChecksInv, Prepared
  <2>5. Sound' <=> Sound
    BY <2>2, SoundStays
  <2>6. ASSUME RunTyped, Memory, ChecksHold PROVE RunTyped' /\ Memory' /\ ChecksHold'
    <3>1. RunTyped'
      BY <2>2, <2>3, <2>6 DEF RunTyped
    <3>2. Memory'
      BY <2>2, <2>3, <2>6 DEF Memory, Passed
    <3>3. \A index : Value(index)' = Value(index)
      BY <2>2 DEF Value, Operand
    <3>4. ChecksHold'
      BY <2>2, <2>3, <2>6, <3>3, WaysStay DEF ChecksHold
    <3> QED
      BY <3>1, <3>2, <3>4
  <2> QED
    BY <2>1, <2>2, <2>4, <2>5, <2>6 DEF ChecksInv, NoMissedViolation, NoSpuriousTrap
<1> QED
  BY <1>1, <1>2

\* In every function whose sizes and indices are such as the pass gets right,
\* no run makes an access outside its array that neither the calls behind it
\* stop nor the compiler has warned of: the sizes that were collected without
\* regard to the flow are those the memory has when the access is made, and
\* the calls left by localopt stand for the deleted ones, ahead of which they
\* are in a node of the graph: every way to a deleted call comes by them.
THEOREM AccessesAreCaught == Spec => []NoMissedViolation
<1>1. Init => ChecksInv
  BY ChecksInvInit
<1>2. ChecksInv /\ [Next]_vars => ChecksInv'
  BY ChecksInvSteps
<1>3. ChecksInv => NoMissedViolation
  BY DEF ChecksInv
<1> QED
  BY <1>1, <1>2, <1>3, PTL DEF Spec

\* In such a function no call stops a run at an access inside its array.
THEOREM NoAccessIsStopped == Spec => []NoSpuriousTrap
<1>1. Init => ChecksInv
  BY ChecksInvInit
<1>2. ChecksInv /\ [Next]_vars => ChecksInv'
  BY ChecksInvSteps
<1>3. ChecksInv => NoSpuriousTrap
  BY DEF ChecksInv
<1> QED
  BY <1>1, <1>2, <1>3, PTL DEF Spec
=============================================================================
