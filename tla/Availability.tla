----------------------------- MODULE Availability -----------------------------
(***************************************************************************)
(* What the forward analysis promises, whatever the order of its sweeps:   *)
(* for each kind, once, an answer that solves the equations of available   *)
(* checks over the whole graph.                                            *)
(***************************************************************************)
EXTENDS MCFG

VARIABLES prog, code,
          answer    \* for each kind, <<>> or the pair of its in and out sets

Unsolved == <<>>

InEquation(in, out, n) ==
    in[n] = IF preds(prog, n) = {} THEN {}
            ELSE myintersect({out[m] : m \in preds(prog, n)})
OutEquation(k, in, out, n) ==
    out[n] = myunion(mysubtract2(in[n], init_kill(code, n, k)), init_gen(code[n], k))

\* The equations hold at the nodes of the vector; the others have no sets.
IsSolution(k, in, out) ==
    \A n \in prog.nodes :
        IF n \in InVector(prog)
        THEN InEquation(in, out, n) /\ OutEquation(k, in, out, n)
        ELSE in[n] = {} /\ out[n] = {}

Init == answer = [k \in Kinds |-> Unsolved]

Solve(k) ==
    /\ answer[k] = Unsolved
    /\ answer'[k] # Unsolved /\ IsSolution(k, answer'[k][1], answer'[k][2])
    /\ \A l \in Kinds \ {k} : answer'[l] = answer[l]
    /\ UNCHANGED <<prog, code>>

Next == Solve("min") \/ (answer["min"] # Unsolved /\ Solve("max"))

Spec == Init /\ [][Next]_<<prog, code, answer>>
=============================================================================
