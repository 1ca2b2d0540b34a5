----------------------------- MODULE LoopAnalysis -----------------------------
(***************************************************************************)
(* LoopAnalysis of the second pass.  Of one loop after the other, the      *)
(* inner ones first, it moves the checks of variables the loop does not    *)
(* store to the preheader, finds out in which direction the loop moves the *)
(* others (Monotonic.hpp), and checks the bound they move away from in the *)
(* preheader only.                                                         *)
(***************************************************************************)
EXTENDS BlockFlow

VARIABLES
    varIn, varOut   \* of every block of the loop: how it has moved each variable

loopVars == <<varIn, varOut>>

Loop == prog.loops[pos]
LoopBlocks == {Loop.blocks[n] : n \in DOMAIN Loop.blocks}
FlowBlocks == LoopBlocks \cup {Loop.preheader, Loop.exit}

\* A call or a store of a pointer can change any variable.
CanHoist == \A b \in LoopBlocks : ~KillAll(b)
Stored == UNION {StoreSet(b) : b \in LoopBlocks}

-----------------------------------------------------------------------------
\* A copy has no variable's address to be invariant by: what it checks is
\* stored in the loop it was copied out of.
Invariant(c) == StillExists(c) /\ c.var \notin Stored

\* Those of some checks that are the loop's, in the order of its blocks.
OfLoop(some) ==
    FlattenSeq([n \in DOMAIN Loop.blocks |-> Those(checks[Loop.blocks[n]], some)])
LoopChecks == UNION {Range(checks[b]) : b \in LoopBlocks}

\* BoundsCheck::hoistCheck.
HoistCheck(c) == [c EXCEPT !.end = TRUE]
Hoisted ==
    LET up == OfLoop({c \in LoopChecks : Invariant(c)})
    IN  [b \in Blocks(prog) |->
           CASE b \in LoopBlocks -> Those(checks[b], {c \in Range(checks[b]) : ~Invariant(c)})
             [] b = Loop.preheader -> checks[b] \o [n \in DOMAIN up |-> HoistCheck(up[n])]
             [] OTHER -> checks[b]]

-----------------------------------------------------------------------------
(***************************************************************************)
(* VarFlow: how the way from the preheader can have moved a variable.      *)
(***************************************************************************)
Unmoved == [v \in Variables |-> "EQUALS"]

\* As if the first direction found were the one on every path.
JoinFirst(x, y) == IF x = "EQUALS" THEN y ELSE x

Join(x, y) == IF x = "EQUALS" THEN y ELSE IF y \in {x, "EQUALS"} THEN x ELSE "UNKNOWN"
Direction(change) ==
    CASE change = "LESS_THAN" -> "DECREASING"
      [] change = "GREATER_THAN" -> "INCREASING"
      [] OTHER -> change

FlowIn(b) ==
    [v \in Variables |->
       LET moved[n \in 0 .. Len(prog.preds[b])] ==
               IF n = 0 THEN varIn[b][v] ELSE Join(moved[n - 1], varOut[prog.preds[b][n]][v])
       IN  moved[Len(prog.preds[b])]]
FlowOut(b) ==
    IF b = Loop.exit THEN varOut[b]
    ELSE [v \in Variables |-> Join(FlowIn(b)[v], Direction(Change(prog, b, v)))]

StartLoop ==
    /\ stage = "loops" /\ pos <= Len(prog.loops)
    /\ stage' = IF CanHoist THEN "directions" ELSE "loops"
    /\ pos' = IF CanHoist THEN pos ELSE pos + 1
    /\ checks' = IF CanHoist THEN Hoisted ELSE checks
    /\ varIn' = [b \in Blocks(prog) |-> Unmoved]
    /\ varOut' = [b \in Blocks(prog) |-> Unmoved]
    /\ UNCHANGED <<prog, changed, inSet, outSet, globals>>

\* identifyOutSet of VarFlow: the blocks come in the order of their
\* addresses, whatever that is.
Unsettled == {b \in FlowBlocks \ {Loop.preheader} : <<FlowIn(b), FlowOut(b)>> # <<varIn[b], varOut[b]>>}
FindDirections ==
    /\ stage = "directions"
    /\ \E b \in Unsettled :
         /\ varIn' = [varIn EXCEPT ![b] = FlowIn(b)]
         /\ varOut' = [varOut EXCEPT ![b] = FlowOut(b)]
    /\ UNCHANGED flow

-----------------------------------------------------------------------------
\* createCopyAt.  The graph of the block a copy was put into does not know
\* its index, so that no copy is copied again.
CopyAt(c, b, lower) ==
    [c EXCEPT !.block = b, !.lower = lower, !.upper = ~lower, !.end = TRUE, !.copy = TRUE]

Moves(c, direction) ==
    /\ StillExists(c) /\ c.known /\ ~c.copy /\ ~IsConst(c.var)
    /\ varIn[Loop.exit][c.var] = direction
MovesLower(c) == Moves(c, "INCREASING") /\ c.by >= 0
MovesUpper(c) == Moves(c, "DECREASING") /\ c.by <= 0

MoveMonotonic ==
    /\ stage = "directions" /\ Unsettled = {}
    /\ LET up == OfLoop({c \in LoopChecks : MovesLower(c) \/ MovesUpper(c)})
           copies == [n \in DOMAIN up |-> CopyAt(up[n], Loop.preheader, MovesLower(up[n]))]
       IN  checks' = [b \in Blocks(prog) |->
             CASE b \in LoopBlocks ->
                    [n \in DOMAIN checks[b] |->
                       [checks[b][n] EXCEPT !.lower = @ /\ ~MovesLower(checks[b][n]),
                                            !.upper = @ /\ ~MovesUpper(checks[b][n])]]
               [] b = Loop.preheader -> checks[b] \o copies
               [] OTHER -> checks[b]]
    /\ stage' = "loops" /\ pos' = pos + 1
    /\ UNCHANGED <<prog, changed, inSet, outSet, globals, loopVars>>

LoopInit == varIn = << >> /\ varOut = << >>
LoopNext == StartLoop \/ FindDirections \/ MoveMonotonic
=============================================================================
