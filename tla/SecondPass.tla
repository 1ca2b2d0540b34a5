------------------------------ MODULE SecondPass ------------------------------
(***************************************************************************)
(* runOnFunction of BoundsChecking.cpp: the global analysis, the analysis  *)
(* of the loops and the insertion of what is left, on a function whose     *)
(* blocks LocalAnalysis is through with.  Then the function is run.        *)
(***************************************************************************)
EXTENDS LoopAnalysis

CONSTANT Values         \* what a variable can hold; a run that leaves them is cut off

ASSUME ValuesAssumption == Values \subseteq Int

VARIABLES
    at,         \* the block the run has come to
    env,        \* what the variables hold
    outcome     \* "running", "trapped", "missed", "returned", "cut"

vars == <<flow, loopVars, at, env, outcome>>

-----------------------------------------------------------------------------
\* InsertCheck.  The upper check compares the offset as an unsigned number;
\* handleCopyCheck gives the one of a copy the index for an offset.
Index(I, e) == IF IsConst(I.var) THEN I.var[2] ELSE e[I.var] + I.by
UpperFails(c, i) ==
    LET offset == IF c.copy THEN i ELSE ElementSize * i
    IN  offset < 0 \/ offset > ElementSize * Limit[c.array]
Fails(c, e) ==
    LET i == Index(c, e)
    IN  (c.upper /\ UpperFails(c, i)) \/ (c.lower /\ i < 0)

\* As InsertCheck takes it, the element behind the last one is inside.
Outside(I, e) == Index(I, e) \notin 0 .. Limit[I.array]

Traps(some, e) == \E c \in some : Fails(c, e)
ChecksAt(b, k) == {c \in Range(checks[b]) : ~c.end /\ c.at = k}
ChecksAtEnd(b) == {c \in Range(checks[b]) : c.end}

\* One event of a block.  left is what a call leaves in the variables.
Event(b, k, run, left) ==
    LET I == prog.body[b][k]
        e == run.env
    IN  IF run.outcome # "running" THEN run
        ELSE CASE I.op = "call" -> [run EXCEPT !.env = left]
               [] I.op = "set" -> [run EXCEPT !.env[I.var] = I.by]
               [] I.op = "add" ->
                    IF e[I.var] + I.by \in Values THEN [run EXCEPT !.env[I.var] = @ + I.by]
                    ELSE [run EXCEPT !.outcome = "cut"]
               [] OTHER -> IF Traps(ChecksAt(b, k), e) THEN [run EXCEPT !.outcome = "trapped"]
                           ELSE IF Outside(I, e) THEN [run EXCEPT !.outcome = "missed"] ELSE run
RunBlock(b, e, left) ==
    LET run[k \in 0 .. Len(prog.body[b])] ==
            IF k = 0 THEN [env |-> e, outcome |-> "running"] ELSE Event(b, k, run[k - 1], left)
    IN  run[Len(prog.body[b])]

Init ==
    /\ FlowInit /\ LoopInit
    /\ at = Entry(prog) /\ env = [v \in Variables |-> 0] /\ outcome = "none"

Analyse ==
    /\ \/ FlowNext /\ UNCHANGED loopVars
       \/ LoopNext
    /\ UNCHANGED <<at, env, outcome>>

InsertChecks ==
    /\ stage = "loops" /\ pos > Len(prog.loops)
    /\ stage' = "run" /\ outcome' = "running"
    /\ env' \in [Variables -> Values]
    /\ UNCHANGED <<prog, pos, changed, inSet, outSet, checks, globals, loopVars, at>>

\* A block is run, its branch can go either way.
RunFunction ==
    /\ stage = "run" /\ outcome = "running"
    /\ \E left \in IF KillAll(at) THEN [Variables -> Values] ELSE {env} :
         LET run == RunBlock(at, env, left)
             ended == IF run.outcome = "running" /\ Traps(ChecksAtEnd(at), run.env)
                      THEN "trapped" ELSE run.outcome
         IN  /\ env' = run.env
             /\ \/ outcome' = ended /\ ended = "running" /\ at' \in Succs(prog, at)
                \/ outcome' = ended /\ ended # "running" /\ UNCHANGED at
                \/ ended = "running" /\ Succs(prog, at) = {} /\ outcome' = "returned" /\ UNCHANGED at
    /\ UNCHANGED <<flow, loopVars>>

Next == Analyse \/ InsertChecks \/ RunFunction
Spec == Init /\ [][Next]_vars
FairSpec == Spec /\ WF_vars(Analyse \/ InsertChecks)

-----------------------------------------------------------------------------
\* The functions for which the pass reasons about the values it compares: no
\* block but the entry changes a variable before it checks it; the blocks are
\* in an order in which only loops go back, and no loop changes a variable
\* that was checked before it; elements at constant places are of one array,
\* and the sizes are constants.
Spoils(I, v) == I.op = "call" \/ Writes(I, v)
ChecksFirst(p) ==
    \A b \in Blocks(p) \ {Entry(p)} : \A k, l \in DOMAIN p.body[b] :
        k < l /\ p.body[b][l].op = "access" => ~Spoils(p.body[b][k], p.body[b][l].var)
InLoop(p, head, tail) ==
    Found([b \in Blocks(p) |-> IF b = head THEN {} ELSE Preds(p, b)], {tail})
CheckedIn(p, b) == {p.body[b][k].var : k \in {l \in DOMAIN p.body[b] : p.body[b][l].op = "access"}}
Settled(p) ==
    /\ \A n \in 2 .. Len(p.blocks) : \E m \in 1 .. n - 1 : p.blocks[m] \in Preds(p, p.blocks[n])
    /\ \A m, n \in DOMAIN p.blocks : m <= n /\ p.blocks[n] \in Preds(p, p.blocks[m]) =>
         \A b \in InLoop(p, p.blocks[m], p.blocks[n]) :
            /\ b # Entry(p)
            /\ \A v \in UNION {CheckedIn(p, p.blocks[k]) : k \in 1 .. m - 1} :
                 \A k \in DOMAIN p.body[b] : ~Spoils(p.body[b][k], v)
AtConstants(p) ==
    {J \in UNION {Range(p.body[b]) : b \in Blocks(p)} : J.op = "access" /\ IsConst(J.var)}
Sound(p) ==
    /\ ChecksFirst(p) /\ Settled(p) /\ Arrays = Static
    /\ \A I, J \in AtConstants(p) : I.array = J.array

\* Every access outside its array is caught: a check is only deleted where
\* checks that come before it on every path stand for it, and a loop only
\* leaves the bound to the preheader its variable moves away from.  There the
\* index is compared with the size in bytes.
NoMissedViolation == outcome = "missed" => ~Sound(prog) \/ ElementSize # 1

Holds(g, e) ==
    LET i == IF IsConst(g.var) THEN g.var[2] ELSE e[g.var]
    IN  IF g.upper THEN i <= Limit[g.array] ELSE i >= 0

\* What the analysis calls available at the beginning of a block holds there
\* on every path that comes to it, calls and assignments notwithstanding.
Available ==
    stage = "run" /\ outcome = "running" =>
        \A n \in DOMAIN inSet[at].checks : Holds(inSet[at].checks[n], env)

\* So it does of the functions the pass reasons about.
InSetsHold == ~Available => ~Sound(prog)

\* The sweeps and the loops come to an end: what is left is inserted.
Terminates == <>(stage = "run")
=============================================================================
