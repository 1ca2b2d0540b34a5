---------------------------- MODULE BoundsChecking ----------------------------
(***************************************************************************)
(* LocalAnalysis of BoundsChecking.cpp, on one basic block: the checks are *)
(* identified, the constraint graph is built, checks another one covers    *)
(* are deleted forwards and backwards, the instructions a check that was   *)
(* moved up needs are moved with it, and the checks are inserted.  Then    *)
(* the block is run.                                                       *)
(***************************************************************************)
EXTENDS ConstraintGraph

CONSTANTS
    Arrays,         \* the arrays the block indexes
    Limit,          \* their numbers of elements
    Static,         \* the arrays whose size is a constant
    ElementSize,    \* bytes in an element
    Statements,     \* what the block can be made of
    MaxStatements,
    MaxCalls,       \* how many of them can be calls
    Values          \* what a variable can hold

ASSUME BoundsCheckingAssumption ==
    /\ Static \subseteq Arrays /\ Limit \in [Arrays -> Nat]
    /\ ElementSize \in Nat \ {0} /\ MaxStatements \in Nat /\ MaxCalls \in Nat
    /\ Values \subseteq Int

VARIABLES
    stage,      \* "emit", "forwards", "backwards", "promote", "insert", "ran"
    statements, \* how many statements the block has
    code,       \* its instructions
    cg,         \* its constraint graph
    checks,     \* its bounds checks, in the order of their instructions
    i, j,       \* the loops over the checks
    layout,     \* the numbers of the instructions, in the order they have now
    reg,        \* what every instruction computes, in the order of the source
    mem,        \* the variables before the block and after it
    outcome     \* how the run ended

vars == <<stage, statements, code, cg, checks, i, j, layout, reg, mem, outcome>>

-----------------------------------------------------------------------------
(***************************************************************************)
(* The code clang -O0 makes of a statement, from instruction b + 1 on.     *)
(***************************************************************************)
Load(v) == [op |-> "load", var |-> v]
Store(from, v) == [op |-> "store", from |-> from, var |-> v]
Arithmetic(op, k, c) == [op |-> op, from |-> Reg(k), by |-> c]
Cast(k) == [op |-> "cast", from |-> Reg(k)]
CallInst == [op |-> "call"]
Access(a, index, offset) ==
    [op |-> "access", array |-> a, index |-> index, offset |-> offset]

Scale(k) == IF ElementSize = 1 THEN << >> ELSE <<Arithmetic("MUL", k, ElementSize)>>
Indexed(b, front, a) ==
    LET k == b + Len(front)
        scaled == front \o Scale(k)
    IN  Append(scaled, Access(a, Reg(k), Reg(b + Len(scaled))))

Emitted(b, s) ==
    CASE s.kind = "index" /\ s.op = "" ->
           Indexed(b, <<Load(s.var), Cast(b + 1)>>, s.array)
      [] s.kind = "index" /\ s.op # "" ->
           Indexed(b, <<Load(s.var), Arithmetic(s.op, b + 1, s.by), Cast(b + 2)>>, s.array)
      [] s.kind = "element" ->
           <<Access(s.array, Const(s.by), Const(ElementSize * s.by))>>
      [] s.kind = "set" -> <<Store(Const(s.by), s.var)>>
      [] s.kind = "assign" ->
           <<Load(s.from), Arithmetic(s.op, b + 1, s.by), Store(Reg(b + 2), s.var)>>
      [] s.kind = "call" -> <<CallInst>>

\* buildConstraintGraph.  The memory an access is to has a name of its own,
\* the address computed for it, and is left out.
AddInst(G, k) ==
    LET I == code[k] IN
    CASE I.op = "load" -> AddLoadEdge(G, I.var, Reg(k))
      [] I.op = "store" -> AddStoreEdge(G, I.from, I.var)
      [] I.op = "cast" -> AddCastEdge(G, I.from, Reg(k))
      [] I.op = "call" -> KillMemoryLocations(G)
      [] I.op = "access" -> G
      [] OTHER -> AddArithmeticEdge(G, I.op, I.from, Reg(k), I.by)
RECURSIVE GraphOf(_)
GraphOf(k) == IF k = 0 THEN EmptyGraph ELSE AddInst(GraphOf(k - 1), k)
BuildConstraintGraph == GraphOf(Len(code))

\* The upper bound of a check: a constant, or a value of another block.
UpperBound(a) == IF a \in Static THEN Const(ElementSize * Limit[a]) ELSE <<"size", a>>

\* createBoundsCheck makes none for a constant offset inside the array.
InRange(I) == I.array \in Static /\ IsConst(I.index) /\ I.index[2] \in 0 .. Limit[I.array] - 1
NewCheck(k) ==
    [at |-> k, array |-> code[k].array, index |-> code[k].index, offset |-> code[k].offset,
     lower |-> TRUE, upper |-> TRUE, insts |-> << >>, loc |-> k, moved |-> FALSE]
IdentifyBoundsChecks ==
    LET places == SelectSeq([k \in DOMAIN code |-> k],
                            LAMBDA k : code[k].op = "access" /\ ~InRange(code[k]))
    IN  [n \in DOMAIN places |-> NewCheck(places[n])]

StillExists(c) == c.lower \/ c.upper

-----------------------------------------------------------------------------
\* As if a larger index being above 0 said it of a smaller one.
EliminateForwardsFlipped(c1, c2) ==
    LET cmp == Compare(cg, c1.index, c2.index)
    IN  [c2 EXCEPT !.lower = @ /\ ~(c1.lower /\ cmp \in {"GREATER_THAN", "EQUALS"}),
                   !.upper = @ /\ ~(c1.upper /\ cmp = "EQUALS" /\ c1.array = c2.array)]

\* eliminateForwards: what the earlier check c1 leaves of the later c2.
EliminateForwards(c1, c2) ==
    LET cmp == Compare(cg, c1.index, c2.index)
        bounds == Compare(cg, UpperBound(c1.array), UpperBound(c2.array))
    IN  [c2 EXCEPT
           !.lower = @ /\ ~(c1.lower /\ c2.upper /\ cmp \in {"LESS_THAN", "EQUALS"}),
           !.upper = @ /\ ~(c1.upper /\ cmp \in {"EQUALS", "GREATER_THAN"}
                                      /\ bounds \in {"LESS_THAN", "EQUALS"})]

\* eliminateBackwards: one side of the earlier check c1 is deleted when the
\* same side of the later c2 covers it and c2 can be moved to before the
\* index of c1.  dependentInsts is cleared whether it can or not.
Covers(c1, c2, side) ==
    LET cmp == Compare(cg, c1.index, c2.index)
        bounds == Compare(cg, UpperBound(c1.array), UpperBound(c2.array))
    IN  c1[side] /\ c2[side] /\
        IF side = "lower" THEN cmp \in {"EQUALS", "GREATER_THAN"}
        ELSE cmp \in {"LESS_THAN", "EQUALS"} /\ bounds \in {"GREATER_THAN", "EQUALS"}

Pull(pair, side, target) ==
    LET c1 == pair[1]
        c2 == pair[2]
        path == FindDependencyPath(cg, c1.index, target)
    IN  IF ~Covers(c1, c2, side) THEN pair
        ELSE IF ~path.found THEN <<c1, [c2 EXCEPT !.insts = << >>]>>
        ELSE <<[c1 EXCEPT ![side] = FALSE],
               [c2 EXCEPT !.insts = path.insts, !.loc = c1.index[2], !.moved = TRUE]>>

EliminateBackwards(c1, c2) ==
    Pull(Pull(<<c1, c2>>, "lower", c2.index), "upper", c2.offset)

-----------------------------------------------------------------------------
Init ==
    /\ stage = "emit" /\ statements = 0
    /\ code = << >> /\ cg = EmptyGraph
    /\ checks = << >> /\ i = 0 /\ j = 0
    /\ layout = << >> /\ reg = << >> /\ mem = << >> /\ outcome = "none"

Calls == {k \in DOMAIN code : code[k].op = "call"}

Emit ==
    /\ stage = "emit" /\ statements < MaxStatements
    /\ \E s \in Statements :
         /\ s.kind = "call" => Cardinality(Calls) < MaxCalls
         /\ code' = code \o Emitted(Len(code), s)
    /\ statements' = statements + 1
    /\ UNCHANGED <<stage, cg, checks, i, j, layout, reg, mem, outcome>>

Identify ==
    /\ stage = "emit" /\ statements > 0
    /\ stage' = "forwards"
    /\ checks' = IdentifyBoundsChecks
    /\ cg' = BuildConstraintGraph
    /\ i' = 1 /\ j' = 0
    /\ layout' = [k \in DOMAIN code |-> k]
    /\ UNCHANGED <<statements, code, reg, mem, outcome>>

\* EliminateBoundsChecks, first loop: one step for each check.
Forwards ==
    /\ stage = "forwards" /\ i < Len(checks)
    /\ checks' = [m \in DOMAIN checks |->
                    IF m > i /\ StillExists(checks[i]) /\ StillExists(checks[m])
                    THEN EliminateForwards(checks[i], checks[m]) ELSE checks[m]]
    /\ i' = i + 1
    /\ UNCHANGED <<stage, statements, code, cg, j, layout, reg, mem, outcome>>

StartBackwards ==
    /\ stage = "forwards" /\ i >= Len(checks)
    /\ stage' = "backwards"
    /\ i' = Len(checks) /\ j' = Len(checks) - 1
    /\ UNCHANGED <<statements, code, cg, checks, layout, reg, mem, outcome>>

\* Second loop: one step for each pair, the later check first.
Backwards ==
    /\ stage = "backwards" /\ i > 1
    /\ LET pair == IF j > 0 /\ StillExists(checks[i]) /\ StillExists(checks[j])
                   THEN EliminateBackwards(checks[j], checks[i])
                   ELSE <<checks[i], checks[i]>>
       IN  checks' = IF j > 0 /\ StillExists(checks[i]) /\ StillExists(checks[j])
                     THEN [checks EXCEPT ![j] = pair[1], ![i] = pair[2]] ELSE checks
    /\ i' = IF j > 1 THEN i ELSE i - 1
    /\ j' = IF j > 1 THEN j - 1 ELSE i - 2
    /\ UNCHANGED <<stage, statements, code, cg, layout, reg, mem, outcome>>

StartPromote ==
    /\ stage = "backwards" /\ i <= 1
    /\ stage' = "promote" /\ i' = 1
    /\ UNCHANGED <<statements, code, cg, checks, j, layout, reg, mem, outcome>>

\* moveBefore, and promoteCheck: each instruction goes before the last one.
MoveBefore(l, k, point) ==
    LET rest == Remove(l, k)
    IN  InsertAt(rest, SelectInSeq(rest, LAMBDA m : m = point), k)
RECURSIVE MoveAll(_, _, _)
MoveAll(l, insts, point) ==
    IF insts = << >> THEN l
    ELSE MoveAll(MoveBefore(l, Head(insts)[2], point), Tail(insts), Head(insts)[2])

PromoteCheck ==
    /\ stage = "promote" /\ i <= Len(checks)
    /\ layout' = IF StillExists(checks[i]) /\ checks[i].moved
                 THEN MoveAll(layout, checks[i].insts, checks[i].loc) ELSE layout
    /\ i' = i + 1
    /\ UNCHANGED <<stage, statements, code, cg, checks, j, reg, mem, outcome>>

-----------------------------------------------------------------------------
(***************************************************************************)
(* InsertChecks: the checks that still exist go before their place, in     *)
(* their order.  A check is <<"check", n>>, an instruction <<"inst", k>>.  *)
(***************************************************************************)
CheckItems(k) ==
    LET here == SelectSeq([n \in DOMAIN checks |-> n],
                          LAMBDA n : checks[n].loc = k /\ StillExists(checks[n]))
    IN  [m \in DOMAIN here |-> <<"check", here[m]>>]
Inserted == FlattenSeq([p \in DOMAIN layout |->
                          Append(CheckItems(layout[p]), <<"inst", layout[p]>>)])

Operands(item) ==
    LET I == code[item[2]]
        c == checks[item[2]]
        used == IF item[1] = "check"
                THEN (IF c.lower THEN {c.index} ELSE {}) \cup (IF c.upper THEN {c.offset} ELSE {})
                ELSE CASE I.op \in {"load", "call"} -> {}
                       [] I.op = "access" -> {I.index, I.offset}
                       [] OTHER -> {I.from}
    IN  {val[2] : val \in {x \in used : ~IsConst(x)}}

\* The verifier: every operand is computed before it is used.
Verified(program) ==
    \A p \in DOMAIN program : \A k \in Operands(program[p]) :
        \E q \in 1 .. p - 1 : program[q] = <<"inst", k>>

\* One instruction: what it computes and what it leaves in the variables.
Value(val, r) == IF IsConst(val) THEN val[2] ELSE r[val[2]]
Truncated(x, y) == IF x >= 0 THEN x \div y ELSE -((-x) \div y)
Result(I, env, r) ==
    CASE I.op = "load" -> env[I.var]
      [] I.op = "cast" -> Value(I.from, r)
      [] I.op = "ADD" -> Value(I.from, r) + I.by
      [] I.op = "SUB" -> Value(I.from, r) - I.by
      [] I.op = "MUL" -> Value(I.from, r) * I.by
      [] I.op = "DIV" -> Truncated(Value(I.from, r), I.by)
      [] OTHER -> 0
After(I, env, r, left) ==
    CASE I.op = "store" -> [env EXCEPT ![I.var] = Value(I.from, r)]
      [] I.op = "call" -> left
      [] OTHER -> env

\* The offset is compared as an unsigned number: a negative one is too large.
Fails(c, r) ==
    \/ c.upper /\ (Value(c.offset, r) < 0 \/ Value(c.offset, r) > ElementSize * Limit[c.array])
    \/ c.lower /\ Value(c.index, r) < 0

\* As InsertCheck takes it, the element behind the last one is inside.
Outside(I, r) == Value(I.index, r) < 0 \/ Value(I.index, r) > Limit[I.array]

\* left[k]: the variables after call k, which the block does not know.
RECURSIVE Run(_, _, _, _)
Run(program, env, r, left) ==
    LET item == Head(program)
        I == code[item[2]]
    IN  IF program = << >> THEN "finished"
        ELSE IF item[1] = "check"
        THEN IF Fails(checks[item[2]], r) THEN "trapped" ELSE Run(Tail(program), env, r, left)
        ELSE IF I.op = "access" /\ Outside(I, r) THEN "missed"
        ELSE Run(Tail(program), After(I, env, r, left[item[2]]),
                 [r EXCEPT ![item[2]] = Result(I, env, r)], left)

\* What the source computes and leaves in the variables, in its own order
\* and without a check.
RECURSIVE SourceValues(_, _, _, _)
SourceValues(k, env, r, left) ==
    IF k > Len(code) THEN <<r, env>>
    ELSE SourceValues(k + 1, After(code[k], env, r, left[k]),
                      [r EXCEPT ![k] = Result(code[k], env, r)], left)

Nothing == [k \in DOMAIN code |-> 0]

Execute ==
    /\ stage = "promote" /\ i > Len(checks)
    /\ stage' = "ran"
    /\ \E env \in [Variables -> Values] : \E given \in [Calls -> [Variables -> Values]] :
         LET left == [k \in DOMAIN code |-> IF k \in Calls THEN given[k] ELSE env]
         IN  /\ reg' = SourceValues(1, env, Nothing, left)[1]
             /\ mem' = <<env, SourceValues(1, env, Nothing, left)[2]>>
             /\ outcome' = IF Verified(Inserted) THEN Run(Inserted, env, Nothing, left)
                           ELSE "rejected"
    /\ UNCHANGED <<statements, code, cg, checks, i, j, layout>>

Next ==
    \/ Emit \/ Identify \/ Forwards \/ StartBackwards \/ Backwards
    \/ StartPromote \/ PromoteCheck \/ Execute
Spec == Init /\ [][Next]_vars

-----------------------------------------------------------------------------
\* No access outside its array is reached: of the checks eliminateForwards
\* and eliminateBackwards delete, one that fails whenever they would is left.
NoMissedViolation == outcome # "missed"

\* The code moved checks up: a check traps only when the block would come to
\* an access outside its array.
NoSpuriousTrap ==
    outcome = "trapped" =>
        \E k \in DOMAIN code : code[k].op = "access" /\ Outside(code[k], reg)

\* compare tells the truth about the indices of the checks, whatever the
\* block stores in between and whatever its calls leave in the variables.
ComparisonsHold ==
    stage = "ran" =>
        \A m, n \in DOMAIN checks :
            LET cmp == Compare(cg, checks[m].index, checks[n].index)
                x == Value(checks[m].index, reg)
                y == Value(checks[n].index, reg)
            IN  /\ cmp = "LESS_THAN" => x < y
                /\ cmp = "EQUALS" => x = y
                /\ cmp = "GREATER_THAN" => x > y

\* What the analyses of the whole function take from the graph is true: an
\* index findFirstLoad compares to a variable is on that side of what was
\* loaded from it, and a block without a call moves a variable the way
\* identifyMemoryChange says.
DirectionsHold ==
    stage = "ran" =>
        /\ \A n \in DOMAIN checks :
             LET found == FindFirstLoad(cg, checks[n].index)
                 moved == Value(checks[n].index, reg) - Value(found.from, reg)
             IN  ~IsConst(checks[n].index) /\ found.known =>
                    /\ found.weight >= 0 => moved >= 0
                    /\ found.weight <= 0 => moved <= 0
        /\ \A v \in Variables :
             LET change == IdentifyMemoryChange(cg, v)
             IN  Calls = {} =>
                    /\ change = "EQUALS" => mem[2][v] = mem[1][v]
                    /\ change = "GREATER_THAN" => mem[2][v] > mem[1][v]
                    /\ change = "LESS_THAN" => mem[2][v] < mem[1][v]
=============================================================================
