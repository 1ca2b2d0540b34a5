--------------------------- MODULE ConstraintGraph ---------------------------
(***************************************************************************)
(* ConstraintGraph.hpp: the graph the second pass builds for a basic block *)
(* and the questions it asks of it.  Every node has at most one            *)
(* predecessor, so the graph is a forest and an edge is kept with the node *)
(* it leads to: the code's weight from the predecessor to the node is      *)
(* "weight", the one on the successor edge is its negation.                *)
(*                                                                         *)
(* A value is <<"reg", k>> (the result of instruction k of the block),     *)
(* <<"mem", v>> (the address of variable v) or <<"const", c>>.             *)
(***************************************************************************)
EXTENDS Integers, Sequences, SequencesExt

CONSTANT Variables      \* the variables the block can load and store

Reg(k) == <<"reg", k>>
Mem(v) == <<"mem", v>>
Const(c) == <<"const", c>>
IsConst(val) == val[1] = "const"

Compared == {"UNKNOWN", "LESS_THAN", "EQUALS", "GREATER_THAN"}
Absent == -1            \* a variable memoryNodes does not hold yet

EmptyGraph == [nodes |-> << >>, memory |-> [v \in Variables |-> Absent]]

\* getNode: the first node made for a value, 0 when there is none.
NodeOf(G, val, id) == SelectInSeq(G.nodes, LAMBDA n : n.val = val /\ n.id = id)

Orphan(val, id, const, canMove) ==
    [val |-> val, id |-> id, pred |-> 0, weight |-> 0, type |-> "UNKNOWN",
     const |-> const, canMove |-> canMove]
Push(G, node) == [G EXCEPT !.nodes = Append(@, node)]

\* An operand no node stands for yet gets one that cannot be moved.
AddNode(G, val) == Push(G, Orphan(val, 0, {}, FALSE))
WithOperand(G, val) == IF NodeOf(G, val, 0) = 0 THEN AddNode(G, val) ELSE G

\* setPredecessor and addEdgeTo, for the node made last.
Link(G, node, from, weight, type) ==
    Push(G, [node EXCEPT !.pred = from, !.weight = weight, !.type = type])

AddStoreEdge(G, from, v) ==
    LET id == IF G.memory[v] = Absent THEN 1 ELSE G.memory[v] + 1
        H == [G EXCEPT !.memory[v] = id]
        F == IF IsConst(from) \/ NodeOf(H, from, 0) # 0
             THEN H ELSE Push(H, Orphan(from, 0, {}, TRUE))
        n == NodeOf(F, from, 0)
    IN  IF IsConst(from)
        THEN Push(F, Orphan(Mem(v), id, {from[2]}, FALSE))
        ELSE Link(F, Orphan(Mem(v), id, F.nodes[n].const, FALSE), n, 0, "STORE")

AddLoadEdge(G, v, to) ==
    LET F == IF G.memory[v] = Absent
             THEN Push([G EXCEPT !.memory[v] = 0], Orphan(Mem(v), 0, {}, FALSE)) ELSE G
        n == NodeOf(F, Mem(v), F.memory[v])
    IN  Link(F, Orphan(to, 0, F.nodes[n].const, TRUE), n, 0, "LOAD")

AddCastEdge(G, from, to) ==
    LET F == WithOperand(G, from)
        n == NodeOf(F, from, 0)
    IN  Link(F, Orphan(to, 0, F.nodes[n].const, TRUE), n, 0, "EQUALS")

\* addAddEdge, addSubEdge, addMulEdge and addDivEdge.
AddArithmeticEdge(G, op, from, to, c) ==
    LET F == WithOperand(G, from)
        n == NodeOf(F, from, 0)
        folded == {CASE op = "ADD" -> k + c [] op = "SUB" -> k - c [] OTHER -> k * c :
                     k \in F.nodes[n].const}
        weight == CASE op = "ADD" -> c
                    [] op = "SUB" -> -c
                    [] op = "MUL" -> IF c = 0 THEN -1 ELSE c
                    [] op = "DIV" -> -1
    IN  Link(F, Orphan(to, 0, folded, TRUE), n, weight, op)

\* As if a call left the variables alone.
KillNothing(G) == G

\* A call: every variable met so far gets a node nothing leads to.
KillMemoryLocations(G) ==
    LET met == SetToSeq({v \in Variables : G.memory[v] # Absent})
    IN  [nodes |-> G.nodes \o [j \in DOMAIN met |->
                                 Orphan(Mem(met[j]), G.memory[met[j]] + 1, {}, TRUE)],
         memory |-> [v \in Variables |->
                       IF G.memory[v] = Absent THEN Absent ELSE G.memory[v] + 1]]

-----------------------------------------------------------------------------
(***************************************************************************)
(* Paths.  A strict path never mixes positive and negative weights; a      *)
(* propagated one adds them up and crosses no multiplication or division.  *)
(* From a node the search goes down to its successors, then up one edge.   *)
(* The visited list is left out: in a forest it only keeps the search from *)
(* going down the edge it has just come up.                                *)
(***************************************************************************)
Successors(G, u) == {s \in DOMAIN G.nodes : G.nodes[s].pred = u}

Keep(weight, w) ==
    IF weight = 0 THEN {w} ELSE IF weight * w >= 0 THEN {weight} ELSE {}

Opaque == {"UNKNOWN", "MUL", "DIV"}

\* treeSearch and treeSearchPropogate: the weight of the target, if found.
RECURSIVE TreeSearch(_, _, _, _)
TreeSearch(G, u, target, weight) ==
    IF u = target THEN {weight}
    ELSE UNION {UNION {TreeSearch(G, s, target, w) : w \in Keep(weight, -G.nodes[s].weight)} :
                  s \in Successors(G, u)}

RECURSIVE TreeSearchPropogate(_, _, _, _)
TreeSearchPropogate(G, u, target, weight) ==
    LET seen == {s \in Successors(G, u) :
                   \A r \in Successors(G, u) : r <= s => G.nodes[r].type \notin Opaque}
    IN  IF u = target THEN {weight}
        ELSE UNION {TreeSearchPropogate(G, s, target, weight - G.nodes[s].weight) : s \in seen}

RECURSIVE Strict(_, _, _, _)
Strict(G, u, target, weight) ==
    IF u = 0 THEN {}
    ELSE LET below == TreeSearch(G, u, target, weight)
         IN  IF below # {} THEN below
             ELSE UNION {Strict(G, G.nodes[u].pred, target, w) :
                           w \in Keep(weight, G.nodes[u].weight)}

RECURSIVE Propogate(_, _, _, _)
Propogate(G, u, target, weight) ==
    LET below == TreeSearchPropogate(G, u, target, weight)
    IN  IF below # {} THEN below
        ELSE IF G.nodes[u].type \in Opaque THEN {}
        ELSE Propogate(G, G.nodes[u].pred, target, weight + G.nodes[u].weight)

\* What a distance from the first value to the second says.
Verdict(distances) ==
    IF distances = {} THEN "UNKNOWN"
    ELSE IF \E w \in distances : w > 0 THEN "LESS_THAN"
    ELSE IF \E w \in distances : w < 0 THEN "GREATER_THAN" ELSE "EQUALS"

CompareStrict(G, n1, n2) == Verdict(Strict(G, n2, n1, 0))
ComparePropogate(G, n1, n2) == Verdict(Propogate(G, n2, n1, 0))

ConstOf(G, val) ==
    IF IsConst(val) THEN {val[2]}
    ELSE IF NodeOf(G, val, 0) = 0 THEN {} ELSE G.nodes[NodeOf(G, val, 0)].const

\* compare.  Of two constants both are read from the first value, so that
\* they are always equal.
Compare(G, val1, val2) ==
    LET n1 == NodeOf(G, val1, 0)
        n2 == NodeOf(G, val2, 0)
        strict == CompareStrict(G, n1, n2)
    IN  IF IsConst(val1) /\ IsConst(val2) THEN "EQUALS"
        ELSE IF ConstOf(G, val1) # {} /\ ConstOf(G, val2) # {}
        THEN Verdict({c2 - c1 : c1 \in ConstOf(G, val1), c2 \in ConstOf(G, val2)})
        ELSE IF n1 = 0 \/ n2 = 0 THEN "UNKNOWN"
        ELSE IF n1 = n2 THEN "EQUALS"
        ELSE IF strict = "UNKNOWN" THEN ComparePropogate(G, n1, n2) ELSE strict

-----------------------------------------------------------------------------
NoPath == [found |-> FALSE, insts |-> << >>]
PathTo(insts) == [found |-> TRUE, insts |-> insts]

\* findStrictPath and findPropogatePath: the instructions from the second
\* node up to where the first one is reached; none may be a store.
RECURSIVE FindPath(_, _, _, _, _, _)
FindPath(G, strict, u, target, weight, insts) ==
    LET node == G.nodes[u]
        more == Append(insts, node.val)
        below == IF strict THEN TreeSearch(G, u, target, weight)
                           ELSE TreeSearchPropogate(G, u, target, weight)
        ahead == IF strict THEN Keep(weight, node.weight)
                 ELSE IF node.type \in Opaque THEN {} ELSE {weight + node.weight}
    IN  IF u = 0 THEN NoPath
        ELSE IF below # {} THEN PathTo(insts)
        ELSE IF ~node.canMove \/ ahead = {} THEN NoPath
        ELSE IF node.pred = target THEN PathTo(more)
        ELSE FindPath(G, strict, node.pred, target, CHOOSE w \in ahead : TRUE, more)

\* findDependencyPath(val1, val2, dependentInsts).  The second constant is
\* read from the first value here too: no path to a constant val1.
FindDependencyPath(G, val1, val2) ==
    LET n1 == NodeOf(G, val1, 0)
        n2 == NodeOf(G, val2, 0)
        strict == FindPath(G, TRUE, n2, n1, 0, << >>)
    IN  IF IsConst(val1) \/ n1 = 0 \/ n2 = 0 \/ n1 = n2 THEN NoPath
        ELSE IF strict.found THEN strict ELSE FindPath(G, FALSE, n2, n1, 0, << >>)

\* findFirstLoad: the load a register comes from, the variable loaded, and
\* how the register compares to it.
RECURSIVE ClimbToLoad(_, _, _, _)
ClimbToLoad(G, u, weight, known) ==
    LET node == G.nodes[u]
        w == Keep(weight, node.weight)
        here == [from |-> node.val, weight |-> weight, known |-> known,
                 var |-> IF node.type = "LOAD" THEN G.nodes[node.pred].val ELSE node.val]
    IN  IF node.type = "LOAD" \/ node.pred = 0 THEN here
        ELSE ClimbToLoad(G, node.pred, IF w = {} THEN weight ELSE CHOOSE x \in w : TRUE,
                         known /\ w # {})
FindFirstLoad(G, val) == ClimbToLoad(G, NodeOf(G, val, 0), 0, TRUE)

\* As if the direction from the last value back were that of the change.
ChangeUnturned(G, v) ==
    LET first == NodeOf(G, Mem(v), 0)
    IN  IF G.memory[v] \in {Absent, 0} THEN "EQUALS"
        ELSE IF first = 0 THEN "UNKNOWN"
        ELSE CompareStrict(G, first, NodeOf(G, Mem(v), G.memory[v]))

\* identifyMemoryChange: how the block changes a variable.
IdentifyMemoryChange(G, v) ==
    LET first == NodeOf(G, Mem(v), 0)
        cmp == CompareStrict(G, first, NodeOf(G, Mem(v), G.memory[v]))
    IN  IF G.memory[v] \in {Absent, 0} THEN "EQUALS"
        ELSE IF first = 0 THEN "UNKNOWN"
        ELSE CASE cmp = "LESS_THAN" -> "GREATER_THAN"
               [] cmp = "GREATER_THAN" -> "LESS_THAN"
               [] OTHER -> cmp
=============================================================================
