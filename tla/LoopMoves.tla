------------------------------- MODULE LoopMoves -------------------------------
(***************************************************************************)
(* loopopt of project.cpp: the calls of run-time checks that stand in the  *)
(* loops of LoopFinder are taken out of them.  The function is then run.   *)
(* (runOnFunction has its call commented out.)                             *)
(*                                                                         *)
(* A function with code is a record of                                     *)
(*   succs, inside  the MCFG; inside[n] is the successor of a header n     *)
(*                  that is taken when its comparison holds;               *)
(*   code           what is left of the block of each node:                *)
(*       [op |-> "icmp", var |-> v, pred |-> "slt", const |-> c]           *)
(*       [op |-> "store", var |-> v, value |-> index]                      *)
(*       [op |-> "access", value |-> index, limit |-> n]                   *)
(*       [op |-> "other"]     an alloca, or an instruction of no interest  *)
(* with indices as in Insertion: [op, args, wide].  Every access has a     *)
(* call for each limit.  No node has been merged with another one.         *)
(***************************************************************************)
EXTENDS LoopFinder

CONSTANTS
    Variables,
    Inputs,         \* what the variables hold to begin with
    Wrap            \* 2^32: negative constants become unsigned

ASSUME MovesAssumption ==
    /\ Inputs \subseteq Int /\ Wrap \in Nat
    /\ \A f \in Flows : DOMAIN f.code = Nodes(f) /\ \A n \in Nodes(f) : f.code[n] # << >>

VARIABLES
    moves,          \* for every header: the loopInfoBounds
    kept,           \* the calls left at the accesses: <<access, "min" or "max">>
    moved,          \* for every node: the calls at its end
    chains,         \* for every node: the accesses with their index computed in it
    at, env,        \* the run: its place, its variables,
    frozen,         \* the indices computed ahead,
    trapped, violated, missed, strayed, ended

opt == <<moves, kept, moved, chains>>
run == <<at, env, frozen, trapped, violated, missed, strayed, ended>>
vars == <<finder, stage, opt, run>>

-----------------------------------------------------------------------------
Places(f) == UNION {{<<n, k>> : k \in DOMAIN f.code[n]} : n \in Nodes(f)}
Statement(c) == flow.code[c[1]][c[2]]
Are(op) == {c \in Places(flow) : Statement(c).op = op}
Sides == {"min", "max"}

IsConst(operand) == operand[1] = "const"
Consts(index) == {index.args[n][2] : n \in {m \in DOMAIN index.args : IsConst(index.args[m])}}
VariablesOf(index) == {index.args[n][2] : n \in {m \in DOMAIN index.args : ~IsConst(index.args[m])}}

\* getAllRelatedInstrs: the loads it sees in the expression of an index, and
\* their definitions.  An index that is a load itself is none of them.
SeenLoads(index) == IF index.op = "" /\ index.wide THEN {} ELSE VariablesOf(index)

Before(c) ==
    IF c[2] > 1 THEN {<<c[1], c[2] - 1>>}
    ELSE {<<n, Len(flow.code[n])>> : n \in Preds(flow, c[1])}
StoresTo(c, v) == Statement(c).op = "store" /\ Statement(c).var = v
FindDefinitions(c, v) ==
    LET back == [d \in Places(flow) |-> IF StoresTo(d, v) THEN {} ELSE Before(d)]
    IN  {d \in Found(back, Before(c)) : StoresTo(d, v)}
DefInstrs(c) == UNION {FindDefinitions(c, v) : v \in SeenLoads(Statement(c).value)}

-----------------------------------------------------------------------------
(***************************************************************************)
(* findForMonoloticalLoops.                                                *)
(***************************************************************************)
Increasing(style) == style \in {"slt", "sle"}
Counted(n) ==
    LET I == flow.code[n][1]
    IN  I.op = "icmp" /\ I.pred \in {"slt", "sle", "sgt", "sge"}
\* Mutant: the strict comparisons and the others are taken for each other.
FarBoundSwapped(I) ==
    CASE I.pred = "sle" -> I.const - 1
      [] I.pred = "sge" -> I.const + 1
      [] OTHER -> I.const

FarBound(I) ==
    CASE I.pred = "slt" -> I.const - 1
      [] I.pred = "sgt" -> I.const + 1
      [] OTHER -> I.const

\* The predecessor looked at last; and the variable its block stores to last,
\* the first instruction of the block not counted.
LoopPred(e) == CHOOSE n \in Preds(flow, e[2]) \ {e[1]} : \A m \in Preds(flow, e[2]) \ {e[1]} : m <= n
First(c) == c[2] = 1 /\ Len(Statement(c).value.args) = 1 /\ Consts(Statement(c).value) # {}
LoopVariable(n) ==
    LET stores == {k \in DOMAIN flow.code[n] : flow.code[n][k].op = "store" /\ ~First(<<n, k>>)}
    IN  IF stores = {} THEN {} ELSE {flow.code[n][CHOOSE k \in stores : \A l \in stores : l <= k].var}

\* What the names of the opcodes tell: a division is called sdiv, not div.  The
\* expression of an index starts with its operands, so that the operation of a
\* wide one, which is the index itself, is not in it.
Monotonic(index, style) ==
    LET c == CHOOSE k \in Consts(index) : TRUE
    IN  \/ index.op \in {"", "sdiv"} \/ index.wide
        \/ Consts(index) # {} /\ index.op = "add" /\ IF Increasing(style) THEN c >= 0 ELSE c <= 0
        \/ Consts(index) # {} /\ index.op = "sub" /\ IF Increasing(style) THEN c <= 0 ELSE c >= 0
        \/ Consts(index) # {} /\ index.op = "mul" /\ IF Increasing(style) THEN c >= 0 ELSE c <= 1

NoBound == << >>

\* Whether the definitions outside the loop store the same constant: the one
\* looked at last decides.
Earlier(c, d) == c[1] < d[1] \/ (c[1] = d[1] /\ c[2] < d[2])
IsConstant(value) == value.op = "" /\ Consts(value) # {}
Initial(defs, e) ==
    LET initial == SetToSortSeq({d \in defs : d[1] \notin loops[e]}, Earlier)
    IN  [n \in DOMAIN initial |-> Statement(initial[n]).value]
NearBound(defs, e) ==
    LET constants == SelectSeq(Initial(defs, e), IsConstant)
    IN  IF constants = << >> THEN NoBound ELSE <<Head(constants).args[1][2]>>
SameConstant(defs, e) ==
    /\ Initial(defs, e) # << >>
    /\ LET last == Initial(defs, e)[Len(Initial(defs, e))]
       IN  IsConstant(last) /\ <<last.args[1][2]>> = NearBound(defs, e)

\* The move of the calls at an access out of a loop, if there is one.
MoveOf(c, e) ==
    LET header == flow.code[e[2]][1]
        index == Statement(c).value
        defs == DefInstrs(c)
        defLoc == \A d \in defs : d[1] \in loops[e] => d[1] = e[1]
        sameVar == SeenLoads(index) \cap LoopVariable(LoopPred(e)) # {}
        invariant == ~sameVar /\ \A d \in defs : d[1] # e[2]
        toDelete == IF ~sameVar /\ ~invariant THEN \A d \in defs : d[1] \notin loops[e]
                    ELSE ~sameVar \/ SameConstant(defs, e)
        near == NearBound(defs, e)
        far == <<FarBound(header)>>
        move(style, cmin, cmax) ==
            {[access |-> c, current |-> e[2], to |-> LoopPred(e), style |-> style, cmin |-> cmin, cmax |-> cmax]}
    IN  IF ~defLoc \/ ~toDelete THEN {}
        ELSE IF invariant THEN move("none", NoBound, NoBound)
        ELSE IF ~Monotonic(index, header.pred) THEN {}
        ELSE IF Increasing(header.pred) THEN move(header.pred, near, far)
        ELSE move(header.pred, far, near)

FindForMonoloticalLoops ==
    [n \in {e[2] : e \in {e \in DOMAIN loops : Counted(e[2])}} |->
       UNION {UNION {MoveOf(c, e) : c \in {c \in Are("access") : c[1] \in loops[e]}} :
                e \in {e \in DOMAIN loops : e[2] = n}}]

-----------------------------------------------------------------------------
(***************************************************************************)
(* mergeNestedLoopMoves and mergeNestedLoopMovesDuplicates, for the moves  *)
(* of two headers: afterwards a pair of calls is moved out of one loop.    *)
(***************************************************************************)
Pairs(m) == SetToSortSeq({w \in (DOMAIN m) \X (DOMAIN m) : w[1] # w[2]}, Earlier)

Continues(m1, m2) ==
    /\ m1.access = m2.access /\ m1.current = m2.to
    /\ m1.cmin = m2.cmin /\ m1.cmax = m2.cmax
MergePair(m, w) ==
    LET gone == {m2 \in m[w[2]] : \E m1 \in m[w[1]] : Continues(m1, m2)}
        updated(m1) ==
            IF \E m2 \in gone : Continues(m1, m2)
            THEN [m1 EXCEPT !.current = (CHOOSE m2 \in gone : Continues(m1, m2)).current]
            ELSE m1
    IN  [m EXCEPT ![w[2]] = @ \ gone, ![w[1]] = {updated(m1) : m1 \in @}]

WeakPoints(move) ==
    Cardinality({x \in {<<"max", move.cmax>>, <<"min", move.cmin>>, <<"style", move.style>>} :
                   x[2] \in {NoBound, "none"}})
\* The same expression counts for the second.
FindWeakestBounds(m1, m2) == WeakPoints(m1) > WeakPoints(m2) + 1
DropPair(m, w) ==
    LET weak == {m1 \in m[w[1]] : \E m2 \in m[w[2]] :
                   m1.access = m2.access /\ FindWeakestBounds(m1, m2)}
        strong == {m2 \in m[w[2]] : \E m1 \in m[w[1]] \ weak : m1.access = m2.access}
    IN  [m EXCEPT ![w[1]] = @ \ weak, ![w[2]] = @ \ strong]

Merged(m) == FoldLeft(DropPair, FoldLeft(MergePair, m, Pairs(m)), Pairs(m))

-----------------------------------------------------------------------------
InitMoves ==
    /\ InitFinder
    /\ moves = Empty
    /\ kept = Are("access") \X Sides
    /\ moved = [n \in Nodes(flow) |-> {}] /\ chains = [n \in Nodes(flow) |-> {}]
    /\ at = <<1, 1>> /\ env = [v \in Variables |-> 0] /\ frozen = Empty
    /\ trapped = FALSE /\ violated = FALSE /\ missed = FALSE /\ strayed = FALSE /\ ended = FALSE

Find == (Visit \/ FindLoops) /\ UNCHANGED <<opt, run>>

FindMoves ==
    /\ stage = "loops" /\ stage' = "moves"
    /\ moves' = Merged(FindForMonoloticalLoops)
    /\ UNCHANGED <<finder, kept, moved, chains, run>>

\* The calls that are made instead.  AddMaxCallLoop and AddMinCallLoop take a
\* constant as unsigned; without a constant the call is on the index.
Unsigned(c) == IF c < 0 THEN c + Wrap ELSE c
OnConstant(c, side, bound) ==
    [side |-> side, access |-> c, const |-> <<Unsigned(bound)>>, limit |-> Statement(c).limit]
OnIndex(c, side) ==
    [side |-> side, access |-> c, const |-> NoBound, limit |-> Statement(c).limit]
MaxCall(m) ==
    IF m.cmax = NoBound THEN OnIndex(m.access, "max") ELSE OnConstant(m.access, "max", m.cmax[1])
MinCall(m) ==
    IF m.cmin = NoBound THEN OnIndex(m.access, "min") ELSE OnConstant(m.access, "min", m.cmin[1])

\* Mutant: a call on a constant takes the computation with it as well.
ChainsOfAll(m) == {m.access}

\* invariantChackLoopMoveDepInst: what computes the index of such a call goes
\* before the last instruction of the block.
ChainsOf(m) == IF NoBound \in {m.cmin, m.cmax} THEN {m.access} ELSE {}

\* moveCallsLoops, one move.  Of two moves of the same access, out of loops
\* with one header, the second erases calls that are gone.
MoveCalls ==
    /\ stage = "moves"
    /\ \E n \in DOMAIN moves : \E move \in moves[n] :
         /\ moves' = [moves EXCEPT ![n] = @ \ {move}]
         /\ kept' = kept \ ({move.access} \X Sides)
         /\ moved' = [moved EXCEPT ![move.to] = @ \cup {MinCall(move), MaxCall(move)}]
         /\ chains' = [chains EXCEPT ![move.to] = @ \cup ChainsOf(move)]
         /\ stage' = IF {move.access} \X Sides \subseteq kept THEN stage ELSE "crashed"
    /\ UNCHANGED <<finder, run>>

Launch ==
    /\ stage = "moves" /\ \A n \in DOMAIN moves : moves[n] = {}
    /\ Are("access") # {}
    /\ stage' = "run" /\ env' \in [Variables -> Inputs]
    /\ UNCHANGED <<finder, opt, at, frozen, trapped, violated, missed, strayed, ended>>

-----------------------------------------------------------------------------
(***************************************************************************)
(* The run.  It goes on behind a trap, as the function would have done     *)
(* without its checks, to see whether there was a reason for the trap.     *)
(***************************************************************************)
Operand(e, operand) == IF IsConst(operand) THEN operand[2] ELSE e[operand[2]]
Truncated(x, y) == IF x >= 0 THEN x \div y ELSE -((-x) \div y)
Value(e, index) ==
    LET x == Operand(e, index.args[1])
        y == Operand(e, index.args[2])
    IN  CASE index.op = "" -> x
          [] index.op = "add" -> x + y
          [] index.op = "sub" -> x - y
          [] index.op = "mul" -> x * y
          [] index.op = "sdiv" -> Truncated(x, y)

Compare(I, x) ==
    CASE I.pred = "slt" -> x < I.const
      [] I.pred = "sle" -> x <= I.const
      [] I.pred = "sgt" -> x > I.const
      [] I.pred = "sge" -> x >= I.const
      [] I.pred = "ne" -> x # I.const

\* The index an access uses.
Used(c, computed) == IF c \in DOMAIN computed THEN computed[c] ELSE Value(env, Statement(c).value)
Beyond(side, i, limit) == IF side = "min" THEN i < 0 ELSE i >= limit
Fails(call, computed) ==
    Beyond(call.side, IF call.const = NoBound THEN computed[call.access] ELSE call.const[1], call.limit)

\* One statement.  Before the last one of a block the indices moved there
\* are computed, behind it the calls moved there are made.
Execute ==
    /\ stage = "run" /\ ~ended /\ at[2] <= Len(flow.code[at[1]])
    /\ LET n == at[1]
           I == Statement(at)
           last == at[2] = Len(flow.code[n])
           computed == IF ~last THEN frozen
                       ELSE [c \in DOMAIN frozen \cup chains[n] |->
                               IF c \in chains[n] THEN Value(env, Statement(c).value) ELSE frozen[c]]
           used == Used(at, computed)
           stopped == \/ I.op = "access" /\ \E s \in Sides : <<at, s>> \in kept /\ Beyond(s, used, I.limit)
           out == I.op = "access" /\ \E s \in Sides : Beyond(s, used, I.limit)
       IN  /\ frozen' = computed
           /\ env' = IF I.op = "store" THEN [env EXCEPT ![I.var] = Value(env, I.value)] ELSE env
           /\ trapped' = (trapped \/ stopped \/ (last /\ \E call \in moved[n] : Fails(call, computed)))
           /\ violated' = (violated \/ out)
           /\ missed' = (missed \/ (out /\ ~trapped /\ ~stopped))
           /\ strayed' = (strayed \/ (I.op = "access" /\ used # Value(env, I.value)))
    /\ at' = <<at[1], at[2] + 1>>
    /\ UNCHANGED <<finder, stage, opt, ended>>

Branch ==
    /\ stage = "run" /\ ~ended /\ at[2] > Len(flow.code[at[1]])
    /\ LET n == at[1]
           last == flow.code[n][Len(flow.code[n])]
           next == CASE last.op = "icmp" /\ Compare(last, env[last.var]) -> {flow.inside[n]}
                     [] last.op = "icmp" /\ ~Compare(last, env[last.var]) -> flow.succs[n] \ {flow.inside[n]}
                     [] OTHER -> flow.succs[n]
       IN  \/ \E m \in next : at' = <<m, 1>> /\ UNCHANGED ended
           \/ next = {} /\ ended' = TRUE /\ UNCHANGED at
    /\ UNCHANGED <<finder, stage, opt, env, frozen, trapped, violated, missed, strayed>>

Next == Find \/ FindMoves \/ MoveCalls \/ Launch \/ Execute \/ Branch
Spec == InitMoves /\ [][Next]_vars

-----------------------------------------------------------------------------
(***************************************************************************)
(* The moves that are right.  A loop may not store what an invariant index *)
(* is computed from; any other index is the loop's variable, which only    *)
(* the end of the loop counts, by ones, between bounds that are no         *)
(* negative numbers.                                                       *)
(***************************************************************************)
StoredIn(e, v) == {d \in Are("store") : d[1] \in loops[e] /\ Statement(d).var = v}
Negative(bound) == bound # NoBound /\ bound[1] < 0
Steps(d, v, by) ==
    LET x == Statement(d).value
    IN  x.op = "add" /\ x.args = <<<<"var", v>>, <<"const", by>>>>
Unchanged(c, e) == \A v \in VariablesOf(Statement(c).value) : StoredIn(e, v) = {}
Counts(c, e, move) ==
    LET v == flow.code[e[2]][1].var
        by == IF Increasing(move.style) THEN 1 ELSE -1
    IN  /\ Statement(c).value.op = "" /\ VariablesOf(Statement(c).value) = {v}
        /\ Cardinality(StoredIn(e, v)) = 1
        /\ \A d \in StoredIn(e, v) : d[1] = e[1] /\ Steps(d, v, by)
        /\ ~Negative(move.cmin) /\ ~Negative(move.cmax)
Moves == {w \in Are("access") \X DOMAIN loops :
            w[1][1] \in loops[w[2]] /\ Counted(w[2][2]) /\ MoveOf(w[1], w[2]) # {}}
Sound ==
    \A w \in Moves : \A move \in MoveOf(w[1], w[2]) :
        IF move.style = "none" THEN Unchanged(w[1], w[2]) ELSE Counts(w[1], w[2], move)

\* A loop is entered whose variable starts from a constant within its bound;
\* and an access is certain to be made in one if every way round leads there
\* or into an inner loop with it, and only the header leads out.
Entered(e) ==
    LET I == flow.code[e[2]][1]
    IN  \A n \in Preds(flow, e[2]) \ loops[e] :
          \E k \in DOMAIN flow.code[n] :
            /\ flow.code[n][k].op = "store" /\ flow.code[n][k].var = I.var
            /\ IsConstant(flow.code[n][k].value)
            /\ Compare(I, flow.code[n][k].value.args[1][2])
            /\ \A l \in k + 1 .. Len(flow.code[n]) : ~StoresTo(<<n, l>>, I.var)
Inner(c, e) ==
    {f[2] : f \in {f \in DOMAIN loops : c[1] \in loops[f] /\ f[2] \in loops[e] \ {e[2]} /\ Counted(f[2]) /\ Entered(f)}}
Certain(c, e) ==
    /\ Entered(e)
    /\ \E n \in {c[1]} \cup Inner(c, e) : e[1] \notin Reach(flow, e[2], {n})
    /\ \A n \in loops[e] \ {e[2]} : flow.succs[n] \subseteq loops[e]

\* An access outside of its array comes behind the trap of a check, whether
\* the check stands at the access or was moved to the way into the loop.
NoMissedViolation == Sound => ~missed

\* A check moved out of a loop fails only if an access in the loop would.
NoSpuriousTrap ==
    ended /\ trapped /\ Sound /\ (\A w \in Moves : Certain(w[1], w[2])) => violated

\* Where the index of an access is computed ahead of its loop, it is the one
\* the access would have computed.
IndicesKept == (\A w \in Moves : \A move \in MoveOf(w[1], w[2]) :
                  move.style = "none" => Unchanged(w[1], w[2])) => ~strayed
=============================================================================
