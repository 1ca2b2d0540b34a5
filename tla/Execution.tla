------------------------------ MODULE Execution ------------------------------
(***************************************************************************)
(* A run of the compiled function, and beside it the run that the checks   *)
(* as first inserted would have made of the same inputs.                   *)
(*                                                                         *)
(* `code` is what the pass has made of `prog.code`; both have the same     *)
(* loads and stores at the same places, so one walk serves both.  A call   *)
(* of ProjectFinal/test_/checkbounds.c that fails ends the process.  When  *)
(* a call of `code` fails, `trapped` records it and the walk goes on as    *)
(* the original run; it ends when a check of `prog.code` fails.            *)
(***************************************************************************)
EXTENDS Code

CONSTANT Values     \* the integers a variable can hold
ASSUME ValuesAssumption == Values \subseteq Int

VARIABLES
    status,         \* "ready", "running", "returned", "violated" or "undefined"
    node, idx,      \* the next instruction
    env, reg,       \* the variables and the SSA values
    trapped         \* whether a call of `code` has failed

state == <<status, node, idx, env, reg, trapped>>
program == <<prog, code>>

Ready(p) ==
    /\ status = "ready" /\ node = p.entry /\ idx = 1
    /\ env = [v \in Vars |-> 0] /\ reg = [t \in Tmps |-> 0] /\ trapped = FALSE

\* Parameters and uninitialised variables have any value.
Launch ==
    /\ status = "ready"
    /\ status' = "running"
    /\ env' \in [Vars -> Values]
    /\ UNCHANGED <<program, node, idx, reg, trapped>>

\* The values that a store may leave; none when the operation is undefined.
Results(s) == Values \cap Outcomes(s, env[s.base])

Running == status = "running"
AtInstr == idx <= Len(code[node])

Load ==
    /\ Running /\ AtInstr /\ code[node][idx].op = "load"
    /\ LET i == code[node][idx] IN reg' = [reg EXCEPT ![i.tmp] = env[i.var]]
    /\ idx' = idx + 1
    /\ UNCHANGED <<program, status, node, env, trapped>>

Store ==
    /\ Running /\ AtInstr /\ code[node][idx].op = "store"
    /\ LET i == code[node][idx]
       IN  \E x \in Results(i) : env' = [env EXCEPT ![i.var] = x]
    /\ idx' = idx + 1
    /\ UNCHANGED <<program, status, node, reg, trapped>>

\* Signed overflow and division by zero: the source program has no meaning.
Undefined ==
    /\ Running /\ AtInstr /\ code[node][idx].op = "store"
    /\ Results(code[node][idx]) = {}
    /\ status' = "undefined"
    /\ UNCHANGED <<program, node, idx, env, reg, trapped>>

\* A call that is still there, or was: __checkArrayBounds_max and _min.
Fails(i) == i.op = "call" /\ ~Passes(i.kind, reg[i.tmp], CheckOf(i))

Check ==
    /\ Running /\ AtInstr /\ prog.code[node][idx].op \notin {"load", "store"}
    /\ trapped' = (trapped \/ Fails(code[node][idx]))
    /\ IF Fails(prog.code[node][idx])
       THEN status' = "violated" /\ UNCHANGED idx
       ELSE idx' = idx + 1 /\ UNCHANGED status
    /\ UNCHANGED <<program, node, env, reg>>

Branch ==
    /\ Running /\ ~AtInstr
    /\ node' \in prog.succs[node]
    /\ idx' = 1
    /\ UNCHANGED <<program, status, env, reg, trapped>>

Return ==
    /\ Running /\ ~AtInstr /\ node \in prog.exits
    /\ status' = "returned"
    /\ UNCHANGED <<program, node, idx, env, reg, trapped>>

RunNext == Launch \/ Load \/ Store \/ Undefined \/ Check \/ Branch \/ Return
=============================================================================
