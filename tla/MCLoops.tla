------------------------------- MODULE MCLoops -------------------------------
(***************************************************************************)
(* Every graph without goto of five nodes, one of them without successors  *)
(* and the others with one or two; and small functions with loops.         *)
(***************************************************************************)
EXTENDS LoopMoves

CONSTANTS i, j, k

UpTo(m, S) == UNION {kSubset(n, S) : n \in 0 .. m}
Graphs ==
    {f \in [succs : {<<s, t, u, v, w>> : s \in {{2}, {2, 3}},
                       t, u, v, w \in UpTo(2, 2 .. 5)}] :
       /\ \E n \in 2 .. 5 : \A m \in 2 .. 5 : f.succs[m] = {} <=> m = n
       /\ UNION {f.succs[n] : n \in 1 .. 5} = 2 .. 5
       /\ Reach(f, 1, {}) = 1 .. 5 /\ Structured(f)}
Bare == {[succs |-> f.succs, inside |-> <<0, 0, 0, 0, 0>>, code |-> [n \in 1 .. 5 |-> <<[op |-> "other"]>>]] :
           f \in Graphs}

-----------------------------------------------------------------------------
Of(op, v, c) == [op |-> op, args |-> <<<<"var", v>>, <<"const", c>>>>, wide |-> FALSE]
Var(v) == [op |-> "", args |-> <<<<"var", v>>>>, wide |-> FALSE]
Const(c) == [op |-> "", args |-> <<<<"const", c>>>>, wide |-> FALSE]
Store(v, value) == [op |-> "store", var |-> v, value |-> value]
Access(value, limit) == [op |-> "access", value |-> value, limit |-> limit]
Icmp(v, pred, c) == [op |-> "icmp", var |-> v, pred |-> pred, const |-> c]
Other == [op |-> "other"]
Step(v, d) == Store(v, Of("add", v, d))

\* for (v = from; v pred to; v += step) with a body and what comes behind.
For(v, from, pred, to, step, body, behind) ==
    [succs |-> <<{2}, {3, 4}, {2}, {}>>, inside |-> <<0, 3, 0, 0>>,
     code |-> <<<<Other, Store(v, from)>>, <<Icmp(v, pred, to)>>, Append(body, Step(v, step)), behind>>]

Up == {<<"slt", 2, 1>>, <<"slt", 3, 1>>, <<"sle", 2, 1>>}
Down == {<<"sgt", 0, -1>>, <<"sge", 0, -1>>, <<"sgt", -1, -1>>}
Counting ==
    {For(i, Const(IF w \in Up THEN s ELSE s + 2), w[1], w[2], w[3], <<Access(x, n)>>, <<Access(Var(i), n)>>) :
       w \in Up \cup Down, s \in 0 .. 1, n \in 1 .. 3,
       x \in {Var(i), Var(k), Of("add", k, 1), Of("sdiv", k, 2)}}

\* A loop in a loop; and one with two ways back to its header.
Nested(between, body, latch, size) ==
    [succs |-> <<{2}, {3, 7}, {4}, {5, 6}, {4}, {2}, {}>>, inside |-> <<0, 3, 0, 5, 0, 0, 0>>,
     code |-> <<<<Other, Store(i, Const(0))>>, <<Icmp(i, "slt", 2)>>, between, <<Icmp(j, "slt", size)>>,
                Append(body, Step(j, 1)), latch, <<Other>>>>]
Continued(body) ==
    [succs |-> <<{2}, {3, 5}, {2, 4}, {2}, {}>>, inside |-> <<0, 3, 0, 0, 0>>,
     code |-> <<<<Other, Store(i, Const(0))>>, <<Icmp(i, "slt", 2)>>, <<Step(i, 1), body>>, <<body>>, <<Other>>>>]
Deep == {Nested(b, <<Access(x, n)>>, Append(l, Step(i, 1)), 2) :
           b \in {<<Other, Store(j, Const(0))>>, <<Access(Var(i), 1), Store(j, Const(0))>>},
           x \in {Var(i), Var(j), Var(k)}, n \in 0 .. 2, l \in {<< >>, <<Access(Var(k), 1)>>}}
       \cup {Continued(Access(Var(k), 1))}

\* Loops that may run no time, that count by twos or below zero, that change
\* what an index is computed from, and with indices that are longs.
Wide(index) == [index EXCEPT !.wide = TRUE]
Bodies ==
    {<<Access(x, 1)>> : x \in {Var(i), Wide(Var(i)), Wide(Var(k)), Of("add", i, 1), Of("sub", k, 1),
                                Wide(Of("sub", i, 1)), Wide(Of("add", k, 1))}}
    \cup {<<Access(x, 1), Store(k, Const(0))>> : x \in {Var(i), Of("add", k, 1)}}
    \cup {<<Store(k, Var(i)), Access(x, 1)>> : x \in {Var(k), Of("add", k, 1)}}
    \cup {<<Step(i, 1), Access(Var(i), 1)>>}
Odd == {For(i, s, w[1], w[2], w[3], b, <<Access(Var(i), 2)>>) :
          s \in {Const(-2), Const(2), Var(k)}, b \in Bodies,
          w \in {<<"slt", 2, 1>>, <<"slt", 3, 2>>, <<"sgt", 0, -1>>, <<"sgt", -2, -1>>}}
Changing ==
    {Nested(<<Access(x, 1)>> \o b, <<Access(y, 1)>> \o c, <<Access(Var(k), 1), Step(i, 1)>>, 2) :
       x \in {Var(i), Var(j)}, y \in {Var(k), Of("add", i, 1)},
       b \in {<<Store(k, Const(1)), Store(j, Const(0))>>, <<Store(j, Var(i))>>},
       c \in {<< >>, <<Store(k, Var(i))>>}}
MCFlows == Odd \cup Changing \cup Deep \cup Bare \cup Counting
=============================================================================
