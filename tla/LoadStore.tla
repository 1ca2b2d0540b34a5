------------------------------- MODULE LoadStore -------------------------------
(***************************************************************************)
(* The functions that the passes of HW2 are run on, and their runs.  A     *)
(* function is a record of succs and code over the blocks 1, 2, ... in     *)
(* their order; code[b] is a sequence of                                   *)
(*     [op |-> "load", var |-> v]                                          *)
(*     [op |-> "store", var |-> v, const |-> c]                            *)
(*     [op |-> "store", var |-> v, near |-> N, far |-> F]                  *)
(* The last stores what is computed from loads of its block: the loads at  *)
(* N are its operand or operands of that, those at F are further away.     *)
(* Variables are locals whose address is not taken.                        *)
(***************************************************************************)
EXTENDS Integers, Sequences, FiniteSets

CONSTANTS Programs, Variables

Blocks(p) == DOMAIN p.succs
IsStore(I) == I.op = "store"
IsConst(I) == IsStore(I) /\ "const" \in DOMAIN I
Sources(I) == IF IsConst(I) THEN {} ELSE I.near \cup I.far
Instructions(p, b) == {p.code[b][k] : k \in DOMAIN p.code[b]}
Stored(p, b) == {I.var : I \in {I \in Instructions(p, b) : IsStore(I)}}
Loaded(p, b) == {I.var : I \in {I \in Instructions(p, b) : ~IsStore(I)}}
Preds(p, b) == {c \in Blocks(p) : b \in p.succs[c]}

Instrs ==
    [op : {"load"}, var : Variables]
      \cup [op : {"store"}, var : Variables, const : Int]
      \cup [op : {"store"}, var : Variables, near : SUBSET Nat, far : SUBSET Nat]

ASSUME LoadStoreAssumption ==
    \A p \in Programs :
        /\ p.succs \in Seq(SUBSET (2..Len(p.succs))) \ {<<>>}
        /\ p.code \in Seq(Seq(Instrs)) /\ Len(p.code) = Len(p.succs)
        /\ \A b \in Blocks(p) : \A k \in DOMAIN p.code[b] :
              IsStore(p.code[b][k]) =>
                \A n \in Sources(p.code[b][k]) : n \in 1..(k - 1) /\ p.code[b][n].op = "load"

VARIABLES
    prog,       \* the function
    pass,       \* "Assignment_2" or "Assignment_4", the pass it is compiled with
    stage,      \* the phase of the pass, or "run"
    pos,        \* the block the phase has come to
    change,     \* the counter of its loop
    at,         \* the run: its place,
    env,        \* what the variables hold,
    bad,        \* the variables that depend on one that held nothing,
    loaded,     \* what the loads of this block have read
    uses        \* the variables used before they held anything, and where

compile == <<prog, pass, stage, pos, change>>
run == <<at, env, bad, loaded, uses>>

\* What a variable holds: nothing, a constant <<c>>, or some other value.
Nothing == <<>>
Computed == <<"computed", "value">>

InitRun ==
    /\ at = <<1, 1>> /\ env = [v \in Variables |-> Nothing] /\ bad = {}
    /\ loaded = <<>> /\ uses = {}

AtInstruction == stage = "run" /\ at[2] <= Len(prog.code[at[1]])
Instruction == prog.code[at[1]][at[2]]

\* A load the pass has replaced gives the constant.
Load(value) ==
    /\ AtInstruction /\ ~IsStore(Instruction)
    /\ loaded' = Append(loaded, [value |-> value, bad |-> env[Instruction.var] = Nothing
                                                           \/ Instruction.var \in bad])
    /\ uses' = IF env[Instruction.var] = Nothing THEN uses \cup {<<Instruction.var, at[1]>>} ELSE uses
    /\ at' = <<at[1], at[2] + 1>>
    /\ UNCHANGED <<env, bad>>

\* A copy of what one load has read, or the result of a computation.
Store ==
    /\ AtInstruction /\ IsStore(Instruction)
    /\ LET v == Instruction.var
           copied == {loaded[n].value : n \in Sources(Instruction)}
           value == IF IsConst(Instruction) THEN <<Instruction.const>>
                    ELSE IF Cardinality(Sources(Instruction)) = 1 /\ copied # {Nothing}
                         THEN CHOOSE x \in copied : TRUE
                         ELSE Computed
       IN  /\ env' = [env EXCEPT ![v] = value]
           /\ bad' = IF \E n \in Sources(Instruction) : loaded[n].bad THEN bad \cup {v} ELSE bad \ {v}
    /\ loaded' = Append(loaded, [value |-> Nothing, bad |-> FALSE])
    /\ at' = <<at[1], at[2] + 1>>
    /\ UNCHANGED uses

Branch ==
    /\ stage = "run" /\ at[2] > Len(prog.code[at[1]])
    /\ \E b \in prog.succs[at[1]] : at' = <<b, 1>>
    /\ loaded' = <<>>
    /\ UNCHANGED <<env, bad, uses>>
=============================================================================
