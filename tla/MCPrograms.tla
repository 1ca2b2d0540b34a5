------------------------------ MODULE MCPrograms ------------------------------
(***************************************************************************)
(* Small functions to run the passes on: graph shapes, the fragments of    *)
(* code that fill their nodes, and every way of filling them.              *)
(***************************************************************************)
EXTENDS MCFG

CONSTANTS vi, vj,     \* two index variables
          vt         \* the value loaded last

MCVars == {vi, vj}
MCTmps == {vt}

\* An array of `top` elements is accessed at index v.
Access(v, top) ==
    <<load(vt, v), call("min", vt, v, 0, top), call("max", vt, v, 0, top)>>

\* a[v++] and a[v--]: the value tested is the one before the store.
AccessPost(v, opc, top) ==
    <<load(vt, v), store(v, opc, v, 1, FALSE),
      call("min", vt, v, 0, top), call("max", vt, v, 0, top)>>

Inc(v) == <<store(v, "add", v, 1, FALSE)>>
Dec(v) == <<store(v, "sub", v, 1, FALSE)>>
Neg(v) == <<store(v, "sub", v, 3, TRUE)>>        \* v = 3 - v
Twice(v) == <<store(v, "mul", v, 2, FALSE)>>
Half(v) == <<store(v, "sdiv", v, 2, FALSE)>>
Set(v, c) == <<store(v, "const", v, c, FALSE)>>
Read(v) == <<store(v, "input", v, 0, FALSE)>>
Copy(v, w) == <<store(v, "add", w, 0, FALSE)>>
Allocas == <<Other>>
Icmp == <<Other>>

-----------------------------------------------------------------------------
Graph(order, ghosts, succs, exits) ==
    [order |-> order, nodes |-> {order[k] : k \in DOMAIN order} \cup ghosts,
     succs |-> succs, entry |-> order[1], exits |-> exits]

\* if (..) B else C; D
Diamond ==
    Graph(<<"A", "B", "C", "D">>, {},
          [A |-> {"B", "C"}, B |-> {"D"}, C |-> {"D"}, D |-> {}], {"D"})

\* if (..) B else C; the empty end of the function was unlinked.
Fork == Graph(<<"A", "B", "C">>, {}, [A |-> {"B", "C"}, B |-> {}, C |-> {}], {"B", "C"})

\* while (..) B; X
Loop ==
    Graph(<<"A", "H", "B", "X">>, {},
          [A |-> {"H"}, H |-> {"B", "X"}, B |-> {"H"}, X |-> {}], {"X"})

\* The same, with the way out before the loop in the function.
LoopAfter == [Loop EXCEPT !.order = <<"A", "X", "H", "B">>]

\* if (..) B; G; if (..) D else E  where the empty join was dropped but left
\* linked, and has taken in the node after it.
Ghosted ==
    Graph(<<"A", "B", "D", "E">>, {"G"},
          [A |-> {"B", "G"}, B |-> {"G"}, G |-> {"D", "E"}, D |-> {}, E |-> {}],
          {"D", "E"})

\* if (..) return; B  where the empty returning node was unlinked.
EarlyReturn ==
    Graph(<<"A", "B">>, {}, [A |-> {"B"}, B |-> {}], {"A", "B"})

\* Every way to fill the nodes; Choices(n) lists the fragments for a node, at
\* most MaxChoices of them.
MaxChoices == 8
Fill(g, Choices(_)) ==
    LET picks == {f \in [g.nodes -> 1 .. MaxChoices] :
                    \A n \in g.nodes : f[n] <= Len(Choices(n))}
    IN  {[order |-> g.order, nodes |-> g.nodes, succs |-> g.succs, entry |-> g.entry,
          exits |-> g.exits,
          code |-> [n \in g.nodes |->
                      IF n = g.entry THEN Allocas \o Choices(n)[f[n]]
                                     ELSE Choices(n)[f[n]]]] :
           f \in picks}
=============================================================================
