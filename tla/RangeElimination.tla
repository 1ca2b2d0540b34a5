--------------------------- MODULE RangeElimination ---------------------------
(***************************************************************************)
(* runOnModule of Project_Nazari_Sample/project_all.cpp up to its loops:   *)
(* every access gets two checks, checks of both branches are hoisted, and  *)
(* those that others make superfluous are eliminated, within the nodes     *)
(* (localElimination) and across them (globalElimination).  Then the       *)
(* function is run.                                                        *)
(*                                                                         *)
(* code holds the function as the pass leaves it, block by block:          *)
(*     <<"index", n>>      computes the index of the access at n           *)
(*     <<"max", n>>, <<"min", n>>, <<"access", n>>, <<"store", n>>         *)
(*                                                                         *)
(* A function is a record of blocks, the sequence of its blocks, succs and *)
(* code; code[b] is a sequence of                                          *)
(*     [op |-> "access", size |-> number of elements, index |-> value]     *)
(*     [op |-> "store", var |-> v, value |-> value]                        *)
(* and a value is [op |-> o, var |-> v, const |-> c]: the variable itself  *)
(* if o is "", the result of add, sub, mul or sdiv with c on the right, or *)
(* c alone if o is "const".  As the code assumes, c is positive in v + c   *)
(* and v - c.  Places are pairs of a block and a position in it; the       *)
(* checks of the access at n are <<"max", n>> and <<"min", n>>.            *)
(***************************************************************************)
EXTENDS Integers, Sequences, FiniteSets, SequencesExt

CONSTANTS
    Programs,       \* the functions the pass is run on
    Variables,      \* their variables
    Values          \* what they can hold; a run that leaves them is cut off

\* Functions for which a block with its checks is one node of the MCFG: no
\* two blocks are merged, hoisting leaves every block a check, and the meet
\* of more than two ways is not needed.  Constants are positive, as the
\* pass assumes.
PredsIn(f, b) == {c \in Range(f.blocks) : b \in f.succs[c]}
CountAccesses(f, b) == Cardinality({k \in DOMAIN f.code[b] : f.code[b][k].op = "access"})
ASSUME ProgramsAssumption ==
    \A f \in Programs :
      /\ PredsIn(f, f.blocks[1]) = {}
      /\ \A b \in Range(f.blocks) :
           /\ CountAccesses(f, b) > 0 /\ Cardinality(f.succs[b]) <= 2 /\ Cardinality(PredsIn(f, b)) <= 2
           /\ \A c \in f.succs[b] : PredsIn(f, c) = {b} => f.succs[b] # {c}
           /\ Cardinality(f.succs[b]) = 2 /\ (\A c \in f.succs[b] : PredsIn(f, c) = {b})
                => \A c \in f.succs[b] : CountAccesses(f, c) > 1
           /\ \A k \in DOMAIN f.code[b] :
                f.code[b][k].op = "access" => f.code[b][k].index.const > 0

VARIABLES
    prog,   \* the function
    info,   \* for every check: the place its index is computed for; its bound
    defs,   \* for every access: the stores its index may have been read from
    stage,          \* "hoist", "local", "busy", "modify", "available", "replace", "run"
    code,
    todo,           \* the blocks or checks the stage has not come to
    byExpr, byBound,    \* visitedUpperChecks and -LowerChecks; -UpperBound, -LowerBound
    gone,           \* toRemoveChecks
    toReplace,
    met, passed,    \* OUT and IN of the busy checks; IN and OUT of the available ones
    before,         \* busyChecks, avaiChecks: the set each check was added to
    queue, visited, changed,
    at, env, computed,      \* the run: its place, the variables, the indices computed
    outcome

elimination == <<byExpr, byBound, gone, toReplace>>
analysis == <<met, passed, before, queue, visited, changed>>
run == <<at, env, computed, outcome>>
vars == <<prog, info, defs, stage, code, todo, elimination, analysis, run>>

-----------------------------------------------------------------------------
(* What the analyses do with checks and sets of them. *)
Statement(n) == prog.code[n[1]][n[2]]
IsMax(c) == c[1] = "max"
Expr(c) == Statement(info[c].index).index
Bound(c) == info[c].bound

\* getEffect: which way a store moves its variable.
Trend(n) ==
    LET s == Statement(n)
    IN  CASE s.value.op = "add" /\ s.value.var = s.var /\ s.value.const > 0 -> "Inc"
          [] s.value.op = "mul" /\ s.value.var = s.var /\ s.value.const > 1 -> "Inc"
          [] s.value.op = "sub" /\ s.value.var = s.var /\ s.value.const > 0 -> "Dec"
          [] s.value.op = "sdiv" /\ s.value.var = s.var /\ s.value.const > 1 -> "Dec"
          [] OTHER -> "changed"

\* CheckExprType, as the pair of what v and f do in fv_vInc_fInc and so on.
Single == << >>
CheckExprType(c) ==
    LET op == Expr(c).op
    IN  CASE op = "" -> Single
          [] op \in {"add", "sub", "mul"} -> IF IsMax(c) THEN <<"Inc", "Inc">> ELSE <<"Dec", "Dec">>
          [] op = "sdiv" -> IF IsMax(c) THEN <<"Dec", "Inc">> ELSE <<"Inc", "Dec">>

\* A check stays in a set across a store that moves its index to one side.
Stays(c, n, side) ==
    \/ Expr(c).var # Statement(n).var
    \/ CheckExprType(c) = Single /\ Trend(n) = side
    \/ CheckExprType(c) = <<Trend(n), side>>
Harder(c) == IF IsMax(c) THEN "Inc" ELSE "Dec"
Easier(c) == IF IsMax(c) THEN "Dec" ELSE "Inc"
\* Mutant: what is available survives the stores that what is busy survives.
ForwardHarder(set, n) == {c \in set : Stays(c, n, Harder(c))}

\* Mutant: what is busy stays so across the stores that what is available survives.
BackwardEasier(set, n) == {c \in set : Stays(c, n, Easier(c))}

Forward(set, n) == {c \in set : Stays(c, n, Easier(c))}
Backward(set, n) == {c \in set : Stays(c, n, Harder(c))}

-----------------------------------------------------------------------------
\* compareLocalCheckExprs and compareGlobalCheckExprs: 1 if the first index
\* is the greater one, -1 if it is not, 0 if that is not known.
Offset(e) == CASE e.op = "add" -> 1 [] e.op = "sub" -> -1 [] OTHER -> 0
CompareExprs(e, f) ==
    CASE e.op # "" /\ f.op = "" -> Offset(e)
      [] e.op = "" /\ f.op # "" -> -Offset(f)
      [] e.op = "add" /\ f.op = "add" -> IF e.const > f.const THEN 1 ELSE -1
      [] e.op = "sub" /\ f.op = "sub" -> IF e.const > f.const THEN -1 ELSE 1
      [] e.op = "add" /\ f.op = "sub" -> 1
      [] e.op = "sub" /\ f.op = "add" -> -1
      [] e.op = "" /\ f.op = "" -> -1
      [] OTHER -> 0
SameDefs(c, d) == defs[c[2]] = defs[d[2]]
CompareLocal(c, d) == IF SameDefs(c, d) THEN CompareExprs(Expr(c), Expr(d)) ELSE 0
CompareGlobal(c, d) == IF Expr(c).var = Expr(d).var THEN CompareExprs(Expr(c), Expr(d)) ELSE 0

\* The result that makes the first of two checks the stronger one.
Stronger(c) == IF IsMax(c) THEN 1 ELSE -1

Subsume(c, d) ==
    /\ c[1] = d[1]
    /\ IF Expr(c) # Expr(d) THEN Bound(c) = Bound(d) /\ CompareGlobal(c, d) = Stronger(c)
       ELSE IF IsMax(c) THEN Bound(c) <= Bound(d) ELSE Bound(c) >= Bound(d)

\* equalCheck compares the side of the first check with itself.
EqualCheck(c, d) == Expr(c) = Expr(d) /\ Bound(c) = Bound(d)

UnionChecks(set, c) ==
    IF \E d \in set : Subsume(d, c) THEN set
    ELSE {d \in set : ~Subsume(c, d)} \cup {c}

Implied(set, c) == \E d \in set : EqualCheck(d, c) \/ Subsume(d, c)
IntersectChecks(s, t) == {c \in s : Implied(t, c)} \cup {c \in t : Implied(s, c)}

-----------------------------------------------------------------------------
Blocks == Range(prog.blocks)
Preds(b) == {c \in Blocks : b \in prog.succs[c]}
Accesses(b) == {<<b, k>> : k \in {k \in DOMAIN prog.code[b] : prog.code[b][k].op = "access"}}
ChecksOf(n) == {<<"max", n>>, <<"min", n>>}
IsCheck(item) == item[1] \in {"max", "min"}
Items(b) ==
    FlattenSeq([k \in DOMAIN prog.code[b] |->
        IF prog.code[b][k].op = "store" THEN <<<<"store", <<b, k>>>>>>
        ELSE [m \in 1 .. 4 |-> <<<<"index", "max", "min", "access">>[m], <<b, k>>>>]])
ItemsIn(b) == Range(code[b])
BlockOf(item) == CHOOSE b \in Blocks : item \in ItemsIn(b)

\* findDefinitions: the stores of a variable a run may have passed last
\* before an item; Entry(v) is the one the function begins with, of a value
\* that comes from outside.
Entry(v) == <<v>>
IsStoreTo(item, v) == item[1] = "store" /\ Statement(item[2]).var = v
StoresIn(b, v) == {n \in DOMAIN code[b] : IsStoreTo(code[b][n], v)}
Backwards(b, v) ==
    FoldLeft(LAMBDA found, c : found \cup UNION {Preds(d) : d \in {d \in found : StoresIn(d, v) = {}}},
             Preds(b), prog.blocks \o prog.blocks)
LastStore(b, v) == code[b][CHOOSE n \in StoresIn(b, v) : \A m \in StoresIn(b, v) : m <= n][2]
FindDefinitions(item, v) ==
    LET b == BlockOf(item)
        here == {n \in StoresIn(b, v) : \E m \in DOMAIN code[b] : n < m /\ code[b][m] = item}
        ways == Backwards(b, v)
        first == prog.blocks[1]
    IN  IF here # {} THEN {code[b][CHOOSE n \in here : \A m \in here : m <= n][2]}
        ELSE {LastStore(d, v) : d \in {d \in ways : StoresIn(d, v) # {}}} \cup
             (IF b = first \/ (first \in ways /\ StoresIn(first, v) = {}) THEN {Entry(v)} ELSE {})
Definitions ==
    [n \in UNION {Accesses(b) : b \in Blocks} |-> FindDefinitions(<<"index", n>>, Statement(n).index.var)]

\* What optimizeMCFG1 leaves of a block, without the checks eliminated since:
\* checks and the definitions of their indices.
Checks == {item \in UNION {ItemsIn(b) : b \in Blocks} : IsCheck(item)}
Related == UNION {defs[c[2]] : c \in Checks}
Instrs(b) ==
    SelectSeq(code[b], LAMBDA item : \/ IsCheck(item) /\ item \notin gone
                                     \/ item[1] = "store" /\ item[2] \in Related)

InsertAllBoundChecks ==
    /\ code = [b \in Blocks |-> Items(b)]
    /\ info = [c \in UNION {ChecksOf(n) : n \in UNION {Accesses(b) : b \in Blocks}} |->
                 [index |-> c[2], bound |-> IF IsMax(c) THEN Statement(c[2]).size ELSE 0]]

Init ==
    /\ prog \in Programs /\ stage = "hoist" /\ todo = prog.blocks
    /\ InsertAllBoundChecks /\ defs = Definitions
    /\ byExpr = << >> /\ byBound = << >> /\ gone = {} /\ toReplace = << >>
    /\ met = [b \in Blocks |-> {}] /\ passed = met /\ before = << >>
    /\ queue = << >> /\ visited = {} /\ changed = FALSE
    /\ at = <<prog.blocks[1], 1>> /\ env = [v \in Variables |-> 0] /\ computed = << >>
    /\ outcome = "running"

-----------------------------------------------------------------------------
(***************************************************************************)
(* hoistBusyIndex: of two accesses in the two blocks behind a branch, the  *)
(* checks of one are moved before the branch and those of the other are    *)
(* deleted, if the arrays are of one size and the variables of the indices *)
(* have the same definitions.  The indices are not compared.               *)
(***************************************************************************)
Candidates(b) ==
    {<<n, m>> \in UNION {Accesses(c) \X Accesses(d) : c, d \in prog.succs[b]} :
        /\ n[1] # m[1] /\ Preds(n[1]) = {b} /\ Preds(m[1]) = {b}
        /\ Statement(n).size = Statement(m).size /\ defs[n] = defs[m]}
HoistCompleteRedundantCheck(b, n, m) ==
    [c \in Blocks |->
       SelectSeq(code[c], LAMBDA item : item \notin {<<"index", n>>} \cup ChecksOf(n) \cup ChecksOf(m))
       \o (IF c = b THEN <<<<"index", n>>, <<"max", n>>, <<"min", n>>>> ELSE << >>)]

\* One branch.  Which candidate comes first depends on where objects lie in
\* memory; the order of the blocks behind the branch is not modelled.
HoistBusyIndex ==
    /\ stage = "hoist" /\ todo # << >>
    /\ LET b == Head(todo)
       IN  \/ Candidates(b) = {} /\ UNCHANGED code
           \/ \E w \in Candidates(b) : code' = HoistCompleteRedundantCheck(b, w[1], w[2])
    /\ todo' = Tail(todo)
    /\ UNCHANGED <<prog, info, defs, stage, elimination, analysis, run>>

\* getAllRelatedInstrs on the function as it is now.
StartLocal ==
    /\ stage = "hoist" /\ todo = << >>
    /\ stage' = "local"
    /\ defs' = Definitions
    /\ todo' = FlattenSeq([n \in DOMAIN prog.blocks |-> SelectSeq(code[prog.blocks[n]], IsCheck)])
    /\ UNCHANGED <<prog, info, code, elimination, analysis, run>>

\* localElimination, one check: against the check of the same index, if
\* there is one before it in its node, otherwise against the first check
\* with the same bound.
Key(c) == <<BlockOf(c), c[1], Expr(c)>>
Limit(c) == <<BlockOf(c), c[1], Bound(c)>>
NewLimit(c) ==
    /\ Key(c) \notin DOMAIN byExpr /\ Limit(c) \notin DOMAIN byBound
    /\ byBound' = byBound @@ (Limit(c) :> c) /\ byExpr' = byExpr @@ (Key(c) :> c)
    /\ UNCHANGED <<info, gone, toReplace>>
SameLimit(c) ==
    /\ Key(c) \notin DOMAIN byExpr /\ Limit(c) \in DOMAIN byBound
    /\ byExpr' = byExpr @@ (Key(c) :> c)
    /\ LET v == byBound[Limit(c)]
       IN  CASE CompareLocal(v, c) = 0 -> UNCHANGED <<info, gone, toReplace>>
             [] CompareLocal(v, c) = Stronger(c) ->
                  gone' = gone \cup {c} /\ UNCHANGED <<info, toReplace>>
             [] OTHER ->
                  /\ gone' = gone \cup {c}
                  /\ info' = [info EXCEPT ![v].index = info[c].index]
                  /\ toReplace' = (v :> c) @@ toReplace
    /\ UNCHANGED byBound
SameExpr(c) ==
    /\ Key(c) \in DOMAIN byExpr
    /\ LET v == byExpr[Key(c)]
           tight == IF (Bound(v) >= Bound(c)) = IsMax(c) THEN Bound(c) ELSE Bound(v)
       IN  IF SameDefs(v, c)
           THEN gone' = gone \cup {c} /\ info' = [info EXCEPT ![v].bound = tight] /\ UNCHANGED byExpr
           ELSE byExpr' = [byExpr EXCEPT ![Key(c)] = c] /\ UNCHANGED <<gone, info>>
    /\ UNCHANGED <<byBound, toReplace>>
LocalElimination ==
    /\ stage = "local" /\ todo # << >>
    /\ NewLimit(Head(todo)) \/ SameLimit(Head(todo)) \/ SameExpr(Head(todo))
    /\ todo' = Tail(todo)
    /\ UNCHANGED <<prog, defs, stage, code, analysis, run>>

-----------------------------------------------------------------------------
(***************************************************************************)
(* computeVeryBusyChecks, against the flow from the nodes without          *)
(* successors, and computeAvailableChecks, with it from the first node:    *)
(* breadth first, again and again, until no set has changed.               *)
(***************************************************************************)
Exits == SelectSeq(prog.blocks, LAMBDA b : prog.succs[b] = {})
Roots(direction) == IF direction = "busy" THEN Exits ELSE <<prog.blocks[1]>>
Sources(b) == IF stage = "busy" THEN prog.succs[b] ELSE Preds(b)
Targets(b) == IF stage = "busy" THEN Preds(b) ELSE prog.succs[b]

StartAnalysis(direction) ==
    /\ stage' = direction
    /\ met' = [b \in Blocks |-> {}] /\ passed' = met' /\ before' = << >>
    /\ queue' = Roots(direction) /\ visited' = {} /\ changed' = FALSE

StartBusy ==
    /\ stage = "local" /\ todo = << >>
    /\ toReplace' = [c \in DOMAIN toReplace \ gone |-> toReplace[c]]
    /\ StartAnalysis("busy")
    /\ UNCHANGED <<prog, info, defs, code, todo, byExpr, byBound, gone, run>>

Meet(b) ==
    IF Sources(b) = {} THEN met[b]
    ELSE LET c == CHOOSE c \in Sources(b) : TRUE
             d == CHOOSE d \in Sources(b) : d # c \/ Cardinality(Sources(b)) = 1
         IN  IF c = d THEN passed[c] ELSE IntersectChecks(passed[c], passed[d])

\* The sets from instruction to instruction.
Through(t, item) ==
    IF IsCheck(item)
    THEN [set |-> UnionChecks(t.set, item), before |-> (item :> t.set) @@ t.before]
    ELSE [t EXCEPT !.set = IF stage = "busy" THEN Backward(@, item[2]) ELSE Forward(@, item[2])]
Transfer(b, set) ==
    FoldLeft(Through, [set |-> set, before |-> << >>],
             IF stage = "busy" THEN Reverse(Instrs(b)) ELSE Instrs(b))

Visit ==
    /\ stage \in {"busy", "available"} /\ queue # << >>
    /\ LET b == Head(queue)
           t == Transfer(b, Meet(b))
       IN  /\ met' = [met EXCEPT ![b] = Meet(b)]
           /\ passed' = [passed EXCEPT ![b] = t.set]
           /\ before' = t.before @@ before
           /\ visited' = visited \cup {b}
           /\ \E next \in SetToSeqs(Targets(b) \ visited') : queue' = Tail(queue) \o next
    /\ changed' = (changed \/ met' # met \/ passed' # passed)
    /\ UNCHANGED <<prog, info, defs, stage, code, todo, elimination, run>>

\* Mutant: the sweeps are counted from the first one, which finds no change.
AgainStale ==
    /\ stage \in {"busy", "available"} /\ queue = << >> /\ changed
    /\ queue' = Roots(stage) /\ visited' = {}
    /\ UNCHANGED <<prog, info, defs, stage, code, todo, elimination, met, passed, before, changed, run>>

Again ==
    /\ stage \in {"busy", "available"} /\ queue = << >> /\ changed
    /\ queue' = Roots(stage) /\ visited' = {} /\ changed' = FALSE
    /\ UNCHANGED <<prog, info, defs, stage, code, todo, elimination, met, passed, before, run>>

-----------------------------------------------------------------------------
StartModify ==
    /\ stage = "busy" /\ queue = << >> /\ ~changed
    /\ stage' = "modify" /\ todo' = DOMAIN before
    /\ UNCHANGED <<prog, info, defs, code, elimination, analysis, run>>

\* modifyChecks, one check: the first busy check that subsumes it decides.
ModifyBy(c, d) ==
    CASE Expr(c) = Expr(d) -> info' = [info EXCEPT ![c].bound = Bound(d)] /\ UNCHANGED toReplace
      [] Expr(c) # Expr(d) /\ SameDefs(c, d) ->
           info' = [info EXCEPT ![c].index = info[d].index] /\ toReplace' = (c :> d) @@ toReplace
      [] OTHER -> UNCHANGED <<info, toReplace>>
ModifyChecks ==
    /\ stage = "modify"
    /\ \E c \in todo :
         /\ todo' = todo \ {c}
         /\ LET subsuming == {d \in before[c] : Subsume(d, c)}
            IN  \/ subsuming = {} /\ UNCHANGED <<info, toReplace>>
                \/ \E d \in subsuming : ModifyBy(c, d)
    /\ UNCHANGED <<prog, defs, stage, code, byExpr, byBound, gone, analysis, run>>

StartAvailable ==
    /\ stage = "modify" /\ todo = {}
    /\ StartAnalysis("available")
    /\ UNCHANGED <<prog, info, defs, code, todo, elimination, run>>

RemoveRedundantAvaiChecks ==
    /\ stage = "available" /\ queue = << >> /\ ~changed
    /\ gone' = gone \cup {c \in DOMAIN before : \E d \in before[c] : Subsume(d, c)}
    /\ stage' = "replace"
    /\ UNCHANGED <<prog, info, defs, code, todo, byExpr, byBound, toReplace, analysis, run>>

\* replace: the instructions that compute the index of the second check are
\* moved in front of the first.
MovedBefore(c, item) ==
    [b \in Blocks |->
       FlattenSeq([n \in DOMAIN code[b] |->
          IF code[b][n] = c THEN <<item, c>> ELSE IF code[b][n] = item THEN << >> ELSE <<code[b][n]>>])]
Replace ==
    /\ stage = "replace"
    /\ \E c \in DOMAIN toReplace :
         /\ code' = MovedBefore(c, <<"index", toReplace[c][2]>>)
         /\ toReplace' = [d \in DOMAIN toReplace \ {c} |-> toReplace[d]]
    /\ UNCHANGED <<prog, info, defs, stage, todo, byExpr, byBound, gone, analysis, run>>

RemoveChecks ==
    /\ stage = "replace" /\ DOMAIN toReplace = {}
    /\ stage' = "run"
    /\ code' = [b \in Blocks |-> SelectSeq(code[b], LAMBDA item : item \notin gone)]
    /\ env' \in [Variables -> Values]
    /\ UNCHANGED <<prog, info, defs, todo, elimination, analysis, at, computed, outcome>>

Pass ==
    \/ HoistBusyIndex \/ StartLocal \/ LocalElimination
    \/ StartBusy \/ Visit \/ Again \/ StartModify \/ ModifyChecks
    \/ StartAvailable \/ RemoveRedundantAvaiChecks \/ Replace \/ RemoveChecks

-----------------------------------------------------------------------------
\* A run.  It goes on behind a check that fails, to see whether the access
\* the check is for, or another one, does lie outside.
Truncated(x, y) == IF x >= 0 THEN x \div y ELSE -((-x) \div y)
Value(e) ==
    CASE e.op = "const" -> e.const
      [] e.op = "" -> env[e.var]
      [] e.op = "add" -> env[e.var] + e.const
      [] e.op = "sub" -> env[e.var] - e.const
      [] e.op = "mul" -> env[e.var] * e.const
      [] e.op = "sdiv" -> Truncated(env[e.var], e.const)

Running(kinds) ==
    /\ stage = "run" /\ outcome \in {"running", "stopped"}
    /\ at[2] <= Len(code[at[1]]) /\ code[at[1]][at[2]][1] \in kinds
    /\ at' = <<at[1], at[2] + 1>>
Place == code[at[1]][at[2]][2]
Index ==
    /\ Running({"index"})
    /\ computed' = (Place :> Value(Statement(Place).index)) @@ computed
    /\ UNCHANGED <<env, outcome>>
Check ==
    /\ Running({"max", "min"})
    /\ LET c == code[at[1]][at[2]]
           n == info[c].index
       IN  outcome' = IF outcome = "stopped" THEN outcome
                      ELSE IF n \notin DOMAIN computed THEN "broken"
                      ELSE IF IsMax(c) = (computed[n] >= Bound(c)) THEN "stopped" ELSE outcome
    /\ UNCHANGED <<env, computed>>
Access ==
    /\ Running({"access"})
    /\ LET s == Statement(Place)
           outside == Value(s.index) \notin 0 .. s.size - 1
       IN  outcome' = IF outcome = "stopped" THEN IF outside THEN "caught" ELSE outcome
                      ELSE IF Place \notin DOMAIN computed THEN "broken"
                      ELSE IF computed[Place] # Value(s.index) THEN "broken"
                      ELSE IF outside THEN "missed" ELSE outcome
    /\ UNCHANGED <<env, computed>>
Store ==
    /\ Running({"store"})
    /\ LET s == Statement(Place)
       IN  IF Value(s.value) \in Values THEN env' = [env EXCEPT ![s.var] = Value(s.value)] /\ UNCHANGED outcome
           ELSE outcome' = "cut" /\ UNCHANGED env
    /\ UNCHANGED computed
Branch ==
    /\ stage = "run" /\ outcome \in {"running", "stopped"} /\ at[2] > Len(code[at[1]])
    /\ \/ \E b \in prog.succs[at[1]] : at' = <<b, 1>> /\ UNCHANGED outcome
       \/ /\ prog.succs[at[1]] = {} /\ UNCHANGED at
          /\ outcome' = IF outcome = "stopped" THEN "spurious" ELSE "returned"
    /\ UNCHANGED <<env, computed>>
Run ==
    /\ Index \/ Check \/ Access \/ Store \/ Branch
    /\ UNCHANGED <<prog, info, defs, stage, code, todo, elimination, analysis>>

Next == Pass \/ Run
Spec == Init /\ [][Next]_vars /\ WF_vars(Pass)

-----------------------------------------------------------------------------
\* The functions the pass is right about: no block has three accesses by one
\* variable (localElimination tightens a check that it may then remove), and
\* accesses on both ways of a branch that hoistBusyIndex takes for the same
\* have the same index.
Sound ==
    /\ \A b \in Blocks, v \in Variables :
         Cardinality({n \in Accesses(b) : Statement(n).index.var = v}) <= 2
    /\ \A b \in Blocks : \A n, m \in UNION {Accesses(c) : c \in {c \in prog.succs[b] : Preds(c) = {b}}} :
         n[1] # m[1] /\ Statement(n).size = Statement(m).size
             /\ Statement(n).index.var = Statement(m).index.var
           => Statement(n).index = Statement(m).index

\* Every access that lies outside its array comes behind a check that fails,
\* whatever localElimination and removeRedundantAvaiChecks have removed, and
\* the index that checks and access use is the one the source computes,
\* wherever replace and hoistBusyIndex have moved it.
NoMissedViolation == Sound => outcome \notin {"missed", "broken"}

\* A run whose accesses all lie inside is not stopped by a check that
\* modifyChecks or localElimination has made stronger or hoistBusyIndex has
\* moved before the branch.
NoSpuriousTrap == Sound => outcome # "spurious"

\* The sweeps of computeVeryBusyChecks and computeAvailableChecks, whose sets
\* of pointers are compared with those of the sweep before, come to an end,
\* and the pass with them.
Terminates == <>(stage = "run")
=============================================================================
