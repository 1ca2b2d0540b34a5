---------------------------- MODULE ConstructMCFG ----------------------------
(***************************************************************************)
(* constructMCFG: the control-flow graph of a function is copied, the      *)
(* nodes left with no relevant instruction are taken out of it, and chains *)
(* of nodes are merged.                                                    *)
(*                                                                         *)
(* A node is named after the basic block it is made for.  Of a block's     *)
(* instructions only one thing matters here: whether any is left in it.    *)
(***************************************************************************)
EXTENDS Integers, Sequences, FiniteSets, SequencesExt

CONSTANT Functions      \* the functions the pass is run on

\* A function: its blocks in order, the entry first, the successors of each
\* block, and the blocks with relevant instructions.
Flowgraph(f) ==
    LET blocks == {f.blocks[b] : b \in DOMAIN f.blocks} IN
    /\ f.blocks \in Seq(blocks) \ {<<>>} /\ IsInjective(f.blocks)
    /\ f.succs \in [blocks -> SUBSET blocks]
    /\ f.kept \subseteq blocks
    /\ \A b \in blocks : f.blocks[1] \notin f.succs[b]

ASSUME FunctionsAssumption == \A f \in Functions : Flowgraph(f)

VARIABLES
    func,       \* the function
    step,       \* "optimizeMCFG2", "optimizeMCFG3", "done"
    order,      \* the vector of nodes
    pos,        \* the place in it of the node to visit next
    preds, succs,
    body,       \* the blocks whose instructions a node holds
    dropped, merged,    \* toRemove of optimizeMCFG2 and of optimizeMCFG3
    crashed

vars == <<func, step, order, pos, preds, succs, body, dropped, merged, crashed>>

Blocks == {func.blocks[b] : b \in DOMAIN func.blocks}
Vector == {order[p] : p \in DOMAIN order}

\* initializeMCFG and optimizeMCFG1.
Init ==
    /\ func \in Functions
    /\ step = "optimizeMCFG2"
    /\ order = func.blocks /\ pos = 1
    /\ succs = func.succs
    /\ preds = [b \in Blocks |-> {a \in Blocks : b \in func.succs[a]}]
    /\ body = [b \in Blocks |-> IF b \in func.kept THEN <<b>> ELSE <<>>]
    /\ dropped = {} /\ merged = {} /\ crashed = FALSE

At(s) == step = s /\ pos <= Len(order) /\ ~crashed
n == order[pos]
Empty(m) == body[m] = <<>>

-----------------------------------------------------------------------------
\* optimizeMCFG2.
Keep ==
    /\ At("optimizeMCFG2") /\ ~Empty(n)
    /\ pos' = pos + 1
    /\ UNCHANGED <<func, step, order, preds, succs, body, dropped, merged, crashed>>

\* Mutant: the self loop is half removed.
RemoveSelfLoopHalf ==
    /\ At("optimizeMCFG2") /\ Empty(n) /\ n \in preds[n]
    /\ succs' = [succs EXCEPT ![n] = @ \ {n}]
    /\ UNCHANGED <<func, step, order, pos, preds, body, dropped, merged, crashed>>

\* T2; the node is visited again.
RemoveSelfLoop ==
    /\ At("optimizeMCFG2") /\ Empty(n) /\ n \in preds[n]
    /\ preds' = [preds EXCEPT ![n] = @ \ {n}]
    /\ succs' = [succs EXCEPT ![n] = @ \ {n}]
    /\ UNCHANGED <<func, step, order, pos, body, dropped, merged, crashed>>

\* Mutant: the node is erased while the vector is gone through.
DropAtOnce ==
    /\ At("optimizeMCFG2") /\ Empty(n) /\ n \notin preds[n]
    /\ dropped' = dropped \cup {n}
    /\ order' = RemoveAt(order, pos) /\ pos' = pos + 1
    /\ UNCHANGED <<func, step, body, merged, crashed>>

\* T1.
Drop ==
    /\ At("optimizeMCFG2") /\ Empty(n) /\ n \notin preds[n]
    /\ dropped' = dropped \cup {n}
    /\ pos' = pos + 1
    /\ UNCHANGED <<func, step, order, body, merged, crashed>>

OnlyOne(S) == Cardinality(S) = 1

\* The neighbours are connected when there is one on each side.
Splice ==
    /\ Drop
    /\ OnlyOne(preds[n]) /\ OnlyOne(succs[n])
    /\ \E p \in preds[n], s \in succs[n] :
          /\ succs' = [succs EXCEPT ![p] = (@ \ {n}) \cup {s}]
          /\ preds' = [preds EXCEPT ![s] = (@ \ {n}) \cup {p}]

\* Mutant: the node is taken off its successors, as one without predecessors is.
LeaveHalfLinked ==
    /\ Drop
    /\ preds[n] # {} /\ succs[n] # {}
    /\ ~(OnlyOne(preds[n]) /\ OnlyOne(succs[n]))
    /\ preds' = [m \in Blocks |-> IF m \in succs[n] THEN preds[m] \ {n} ELSE preds[m]]
    /\ UNCHANGED succs

\* When there are more, the node stays linked to them.
LeaveLinked ==
    /\ Drop
    /\ preds[n] # {} /\ succs[n] # {}
    /\ ~(OnlyOne(preds[n]) /\ OnlyOne(succs[n]))
    /\ UNCHANGED <<preds, succs>>

\* A node without predecessors or without successors is taken off the others.
Unlink ==
    /\ Drop
    /\ preds[n] = {} \/ succs[n] = {}
    /\ succs' = [m \in Blocks |-> IF m \in preds[n] THEN succs[m] \ {n} ELSE succs[m]]
    /\ preds' = [m \in Blocks |-> IF m \in succs[n] THEN preds[m] \ {n} ELSE preds[m]]

\* When the nodes are through, those that are listed are looked for and erased
\* one after the other, in the order of the vector.
Through(s) == step = s /\ pos > Len(order) /\ ~crashed

Erase(s, gone) ==
    /\ Through(s)
    /\ \E p \in DOMAIN order :
          /\ order[p] \in gone /\ \A q \in 1..(p - 1) : order[q] \notin gone
          /\ order' = RemoveAt(order, p)
    /\ pos' = pos - 1
    /\ UNCHANGED <<func, step, preds, succs, body, dropped, merged, crashed>>

GoOn(s, gone, next) ==
    /\ Through(s) /\ Vector \cap gone = {}
    /\ step' = next /\ pos' = 1
    /\ UNCHANGED <<func, order, preds, succs, body, dropped, merged, crashed>>

EraseDropped == Erase("optimizeMCFG2", dropped)
BeginMerging == GoOn("optimizeMCFG2", dropped, "optimizeMCFG3")

-----------------------------------------------------------------------------
\* optimizeMCFG3: T5 and T6.
Chained == OnlyOne(preds[n]) /\ \A p \in preds[n] : OnlyOne(succs[p])

Pass ==
    /\ At("optimizeMCFG3") /\ ~Chained
    /\ pos' = pos + 1
    /\ UNCHANGED <<func, step, order, preds, succs, body, dropped, merged, crashed>>

\* Mutants: the instructions are put in front, and the successors are not told.
MergeInFront ==
    /\ At("optimizeMCFG3") /\ Chained /\ n \notin preds[n]
    /\ \E p \in preds[n] :
          /\ body' = [body EXCEPT ![p] = body[n] \o @]
          /\ succs' = [succs EXCEPT ![p] = succs[n]]
          /\ preds' = [m \in Blocks |->
                         IF m = n THEN {}
                         ELSE IF m \in succs[n] THEN (preds[m] \ {n}) \cup {p}
                         ELSE preds[m]]
    /\ merged' = merged \cup {n}
    /\ pos' = pos + 1
    /\ UNCHANGED <<func, step, order, dropped, crashed>>
MergeUntold ==
    /\ At("optimizeMCFG3") /\ Chained /\ n \notin preds[n]
    /\ \E p \in preds[n] :
          /\ body' = [body EXCEPT ![p] = @ \o body[n]]
          /\ succs' = [succs EXCEPT ![p] = succs[n]]
          /\ preds' = [preds EXCEPT ![n] = {}]
    /\ merged' = merged \cup {n}
    /\ pos' = pos + 1
    /\ UNCHANGED <<func, step, order, dropped, crashed>>

Merge ==
    /\ At("optimizeMCFG3") /\ Chained /\ n \notin preds[n]
    /\ \E p \in preds[n] :
          /\ body' = [body EXCEPT ![p] = @ \o body[n]]
          /\ succs' = [succs EXCEPT ![p] = succs[n]]
          /\ preds' = [m \in Blocks |->
                         IF m = n THEN {}
                         ELSE IF m \in succs[n] THEN (preds[m] \ {n}) \cup {p}
                         ELSE preds[m]]
    /\ merged' = merged \cup {n}
    /\ pos' = pos + 1
    /\ UNCHANGED <<func, step, order, dropped, crashed>>

\* The only predecessor is the node itself, and the loop over its instructions
\* appends to them.
MergeWithItself ==
    /\ At("optimizeMCFG3") /\ Chained /\ n \in preds[n]
    /\ crashed' = TRUE
    /\ UNCHANGED <<func, step, order, pos, preds, succs, body, dropped, merged>>

EraseMerged == Erase("optimizeMCFG3", merged)
Return == GoOn("optimizeMCFG3", merged, "done")

Next ==
    \/ Keep \/ RemoveSelfLoop \/ Splice \/ LeaveLinked \/ Unlink \/ EraseDropped \/ BeginMerging
    \/ Pass \/ Merge \/ MergeWithItself \/ EraseMerged \/ Return

Spec == Init /\ [][Next]_vars

\* The construction is sequential code that nothing interrupts.
FairSpec == Spec /\ WF_vars(Next)

-----------------------------------------------------------------------------
TypeOK ==
    /\ step \in {"optimizeMCFG2", "optimizeMCFG3", "done"}
    /\ order \in Seq(Blocks) /\ pos \in 1..(Len(order) + 1)
    /\ preds \in [Blocks -> SUBSET Blocks] /\ succs \in [Blocks -> SUBSET Blocks]
    /\ body \in [Blocks -> Seq(func.kept)]
    /\ dropped \subseteq Blocks /\ merged \subseteq Blocks /\ crashed \in BOOLEAN

\* The least set with the successors of m that has the successors of its
\* transparent members as well.
Beyond(m, successors, transparent) ==
    {b \in Blocks :
        \A S \in SUBSET Blocks :
            (\A a \in {m} \cup (S \cap transparent) : successors[a] \subseteq S) => b \in S}

\* One block's instructions come next after another's: in the function ...
FlowsInFunction(a, b) == b \in Beyond(a, func.succs, Blocks \ func.kept)

\* ... and in the graph, in one node or from the end of one to another.
FlowsInGraph(a, b) ==
    \E m \in Blocks \ merged : \E l \in DOMAIN body[m] :
        /\ body[m][l] = a
        /\ IF l < Len(body[m]) THEN body[m][l + 1] = b
           ELSE \E k \in Beyond(m, succs, {e \in Blocks : Empty(e)}) :
                   ~Empty(k) /\ Head(body[k]) = b

\* Dropping and merging nodes neither loses nor invents a way for the
\* instructions to follow each other, whatever the order of the blocks.
FlowKept ==
    ~crashed => \A a, b \in func.kept : FlowsInFunction(a, b) <=> FlowsInGraph(a, b)

\* What the nodes of the vector can get at.
Linked ==
    {b \in Blocks :
        \A S \in SUBSET Blocks :
            Vector \subseteq S /\ (\A a \in S : preds[a] \cup succs[a] \subseteq S) => b \in S}

\* The entry is kept and all blocks can be reached.
Entered ==
    LET entry == func.blocks[1]
    IN  entry \in func.kept /\ Beyond(entry, func.succs, Blocks) = Blocks \ {entry}

Places(b) == {ml \in UNION {{<<m, l>> : l \in DOMAIN body[m]} : m \in Blocks \ merged} :
                 body[ml[1]][ml[2]] = b}

\* When the graph is done, each block's instructions are in one node, once, and
\* the vector gets at all of them if the function can be entered; the
\* predecessors are the inverse of the successors; and an entry that was kept
\* begins a node of the vector without predecessors.
Consistent ==
    step = "done" =>
        /\ \A b \in func.kept : Cardinality(Places(b)) = 1
        /\ Entered => \A m \in Blocks \ merged : Empty(m) \/ m \in Linked
        /\ \A m \in Linked : preds[m] = {k \in Linked : m \in succs[k]}
        /\ LET entry == func.blocks[1]
           IN  entry \in func.kept =>
                 entry \in Vector /\ preds[entry] = {} /\ Head(body[entry]) = entry

\* The merge is safe in such a function: a node is never its own only
\* predecessor.
Survives == Entered => ~crashed

\* The loops end, although a node with a self loop is visited again.
Termination == <>(step = "done" \/ crashed)
=============================================================================
