---------------------------- MODULE MCInsertion ----------------------------
(***************************************************************************)
(* Functions with arrays of one and two dimensions, pointers that get      *)
(* memory of a constant or computed size, and indices of every form; in    *)
(* one block, on two ways or in a loop, and in blocks that become one node *)
(* of the graph when those between them hold nothing that matters.         *)
(***************************************************************************)
EXTENDS Insertion

I == <<"var", "i">>
N == <<"var", "n">>
MCVariables == {"i", "n"}
MCValues == -1 .. 4

Num(c) == [op |-> "", args |-> <<<<"const", c>>>>, wide |-> FALSE]
Var(v) == [op |-> "", args |-> <<v>>, wide |-> FALSE]
Long(v) == [op |-> "", args |-> <<v>>, wide |-> TRUE]
Op(op, x, y) == [op |-> op, args |-> <<x, y>>, wide |-> FALSE]
C(c) == <<"const", c>>

Malloc1(p, size) == [op |-> "malloc", slots |-> {p}, size |-> size]
Malloc2(size) == [op |-> "malloc", slots |-> {"p", "q"}, size |-> size]
CopyTo(q, p) == [op |-> "copy", to |-> q, from |-> p]
Set(v, value) == [op |-> "store", var |-> v, value |-> value]
At(x, index) == [op |-> "access", array |-> x, indices |-> <<index>>]
At2(x, i1, i2) == [op |-> "access", array |-> x, indices |-> <<i1, i2>>]

MCObjects == [a |-> [dims |-> <<2>>], m |-> [dims |-> <<2, 3>>], t |-> [dims |-> <<2, 2, 2>>],
              p |-> [dims |-> << >>], q |-> [dims |-> << >>]]

Other == [op |-> "other"]

Function(b, s, text) ==
    [blocks |-> b, succs |-> s, body |-> text, objects |-> MCObjects, conds |-> {}]
Block(s) == Function(<<"s">>, [s |-> {}], [s |-> s])
DoWhile(s, t, v) ==
    Function(<<"s", "t", "v">>, [s |-> {"t"}, t |-> {"t", "v"}, v |-> {}],
             [s |-> s, t |-> t, v |-> v])
Diamond(s, t, u, v) ==
    Function(<<"s", "t", "u", "v">>, [s |-> {"t", "u"}, t |-> {"v"}, u |-> {"v"}, v |-> {}],
             [s |-> s, t |-> t, u |-> u, v |-> v])

Indices == {Var(I), Long(I), Op("add", I, C(1)), Op("add", C(1), I), Op("sub", I, C(1)),
            Op("sub", C(1), I), Op("mul", I, N), Op("mul", N, I), Op("div", I, C(2))}
Sizes == {Num(3), Var(N), Op("add", N, C(1))}
Second == {At("a", Num(1)), At("a", Num(2)), At2("m", Var(I), Var(N)), At2("m", Num(1), Var(I)),
           At("a", Op("add", C(1), I)), At("a", Op("mul", N, I)),
           At("a", Op("add", I, C(2))), At("a", Op("sub", C(2), I)), At("a", Num(4))}
Single == {Block(<<At("a", i), y>>) : i \in Indices, y \in Second}
Dynamics == {Block(<<Malloc1("p", size), x, At("p", i)>>) :
               size \in Sizes, i \in Indices, x \in {Set("n", Num(0)), Set("i", Op("add", I, C(1)))}}
Copies == {Block(<<Malloc2(Num(2)), At("p", Var(I)), At("q", Var(N))>>),
           Block(<<Malloc1("p", Var(N)), CopyTo("q", "p"), At("p", Var(I)), At("q", Num(0))>>)}
Branches == {Diamond(<<Malloc1("p", Num(2)), At("a", Var(N))>>, <<Set("i", x), At("a", Var(I))>>,
                     <<At("a", Num(0)), y>>, <<At("p", i)>>) :
               x \in {Num(1), Op("add", I, C(1))}, y \in {Set("n", Var(I)), At2("m", Num(0), Var(I))},
               i \in {Var(I), Var(N), Op("add", I, N)}}
Loops == {DoWhile(<<At("a", Var(N))>>, <<Malloc1("p", size), At("p", Var(I)), Set("i", Op("add", I, C(1)))>>,
                  <<At("a", i)>>) : size \in Sizes, i \in {Var(I), Op("sub", I, C(1))}}

\* Checks that are repeated across blocks.
Spanning == {Diamond(<<At("a", i)>>, <<x>>, <<y>>, <<At("a", i), At("a", Var(N))>>) :
               i \in {Op("add", I, C(1)), Var(I), Long(I)},
               x \in {At("a", Num(0)), Other, Set("n", Num(1)), Set("i", Num(2))}, y \in {Other, At("a", Var(N))}}
Rounds == {[DoWhile(<<At("a", Var(I)), At("a", Var(N))>>, <<x>>, <<At("a", Var(I))>>) EXCEPT !.conds = c] :
             x \in {Other, At("a", Num(1)), Set("n", Op("add", N, C(1)))}, c \in {{}, {"t"}}}

\* Functions the pass does not get right.
Confused == {Block(<<At("a", Op("add", I, C(1))), Set("i", Op("add", I, C(1))), At("a", Op("add", I, C(1)))>>),
             Block(<<At("a", Num(4)), [op |-> "access", array |-> "t", indices |-> <<Num(0), Num(1), Var(I)>>]>>),
             Block(<<Malloc1("p", Var(N)), CopyTo("q", "p"), At("q", Var(I))>>),
             Block(<<Malloc1("p", Op("mul", N, C(2))), At("p", Var(I))>>),
             Block(<<Malloc1("p", Var(N)), At("p", Var(I)), At("p", Num(0))>>),
             Block(<<Malloc1("p", Var(N)), At("p", Var(I)), At("p", Var(I))>>),
             Diamond(<<At("a", Op("add", I, C(1)))>>, <<At("a", Num(0))>>, <<At("a", Num(1))>>,
                     <<At("a", Op("add", I, C(2)))>>),
             Diamond(<<At("a", Var(N))>>, <<Malloc1("p", Num(3)), At("p", Num(0))>>,
                     <<Malloc1("p", Num(2)), At("p", Num(0))>>, <<At("p", Var(I))>>)}
MCPrograms == Single \cup Dynamics \cup Copies \cup Branches \cup Loops \cup Spanning \cup Rounds \cup Confused
=============================================================================
