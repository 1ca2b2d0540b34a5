----------------------------- MODULE ConstantLoads -----------------------------
(***************************************************************************)
(* HW2/Part2/Assignment_2.cc: a load of a variable that only one store     *)
(* reaches, of a constant, is replaced by the constant.                    *)
(***************************************************************************)
EXTENDS LoadStore, FiniteSetsExt

VARIABLES
    valueMap,   \* for every block: the stores that reach it
    replaced    \* the loads that are gone

constants == <<valueMap, replaced>>

\* The values a variable may have been stored: constants and, as the SSA
\* values they are, results of the function.
ValueOf(b, k) ==
    LET I == prog.code[b][k] IN IF IsConst(I) THEN <<I.const>> ELSE <<b, k>>
Values(b, v) == {w[2] : w \in {w \in valueMap[b] : w[1] = v}}

InitConstants ==
    /\ valueMap = [b \in Blocks(prog) |->
                     {<<prog.code[b][k].var, ValueOf(b, k)>> :
                        k \in {k \in DOMAIN prog.code[b] : IsStore(prog.code[b][k])}}]
    /\ replaced = {}

\* createReachingDefinitionWithConstants: a store is killed by no other.
\* One block of a sweep; sweeps go on until one has changed nothing.
Propagate ==
    LET new == valueMap[pos] \cup UNION {valueMap[c] : c \in Preds(prog, pos)}
        now == IF new # valueMap[pos] THEN 1 ELSE change
        last == pos = Cardinality(Blocks(prog))
    IN  /\ stage = "reach"
        /\ valueMap' = [valueMap EXCEPT ![pos] = new]
        /\ pos' = IF last THEN 1 ELSE pos + 1
        /\ change' = IF ~last THEN now ELSE IF now = 0 THEN 1 ELSE 0
        /\ stage' = IF last /\ now = 0 THEN "replace" ELSE stage
        /\ UNCHANGED <<prog, pass, replaced, run>>

\* Mutant: a constant is taken although other stores reach the load.
SomeConstant(b, v) == {x \in Values(b, v) : Len(x) = 1}

OnlyConstant(b, v) ==
    IF Cardinality(Values(b, v)) = 1 THEN {x \in Values(b, v) : Len(x) = 1} ELSE {}

Known(b, k) == ~IsStore(prog.code[b][k]) /\ OnlyConstant(b, prog.code[b][k].var) # {}

\* replaceConstants, one block: behind a load that is erased the next
\* instruction is passed over.  There are two sweeps.
Erased(b) ==
    LET left == {k \in DOMAIN prog.code[b] : <<b, k>> \notin replaced}
        before(k) == {l \in left : l < k}
        passed[k \in left] ==
            before(k) # {} /\ Known(b, Max(before(k))) /\ ~passed[Max(before(k))]
    IN  {<<b, k>> : k \in {l \in left : Known(b, l) /\ ~passed[l]}}

Replace ==
    LET last == pos = Cardinality(Blocks(prog))
    IN  /\ stage = "replace"
        /\ replaced' = replaced \cup Erased(pos)
        /\ pos' = IF last THEN 1 ELSE pos + 1
        /\ change' = IF last THEN change - 1 ELSE change
        /\ stage' = IF last /\ change = 0 THEN "run" ELSE stage
        /\ UNCHANGED <<prog, pass, valueMap, run>>

Constant(c) == CHOOSE x \in OnlyConstant(c[1], prog.code[c[1]][c[2]].var) : TRUE

\* A load that was replaced would have read the constant, or nothing yet,
\* whatever way the function has gone.
ConstantsHold ==
    AtInstruction /\ at \in replaced => env[Instruction.var] \in {Constant(at), Nothing}
=============================================================================
