----------------------------- MODULE Anticipation -----------------------------
(***************************************************************************)
(* What the backward analysis promises, whatever the order of its sweeps:  *)
(* for each kind, once, an answer that solves the equations of anticipated *)
(* checks over the whole graph, with at most one check for each index.     *)
(***************************************************************************)
EXTENDS MCFG

VARIABLES prog, code,
          answer    \* for each kind, <<>> or the pair of its in and out sets

Unsolved == <<>>

OutEquation(in, out, n) ==
    out[n] = IF prog.succs[n] = {} THEN {}
             ELSE myintersect2({in[m] : m \in prog.succs[n]})
\* Only the max loop takes the killed checks out.
InEquation(k, in, out, n) ==
    in[n] = myunion2(IF k = "min" THEN out[n]
                     ELSE mysubtract2(out[n], init_kill_BW(code, n, k)),
                     init_gen_bw(code[n], k))

IsSolution(k, in, out) ==
    \A n \in prog.nodes :
        /\ OnePerIndex(in[n]) /\ OnePerIndex(out[n])
        /\ IF n \in InVector(prog)
           THEN OutEquation(in, out, n) /\ InEquation(k, in, out, n)
           ELSE in[n] = {} /\ out[n] = {}

Init == answer = [k \in Kinds |-> Unsolved]

Solve(k) ==
    /\ answer[k] = Unsolved
    /\ answer'[k] # Unsolved /\ IsSolution(k, answer'[k][1], answer'[k][2])
    /\ \A l \in Kinds \ {k} : answer'[l] = answer[l]
    /\ UNCHANGED <<prog, code>>

Next == Solve("min") \/ (answer["min"] # Unsolved /\ Solve("max"))

Spec == Init /\ [][Next]_<<prog, code, answer>>
=============================================================================
