-------------------------- MODULE MCRangeElimination --------------------------
(***************************************************************************)
(* Functions of one block, with a way around a block, with two ways, and   *)
(* with a loop; arrays of two and three elements.                          *)
(***************************************************************************)
EXTENDS RangeElimination

MCVariables == {"i", "j"}
MCValues == -2 .. 4

Var(v) == [op |-> "", var |-> v, const |-> 1]
Of(op, v, c) == [op |-> op, var |-> v, const |-> c]
At(size, index) == [op |-> "access", size |-> size, index |-> index]
Set(v, value) == [op |-> "store", var |-> v, value |-> value]
Step(op, v, c) == Set(v, Of(op, v, c))

Function(blocks, succs, body) == [blocks |-> blocks, succs |-> succs, code |-> body]
Block(s) == Function(<<"s">>, [s |-> {}], [s |-> s])
Around(s, t, v) ==
    Function(<<"s", "t", "v">>, [s |-> {"t", "v"}, t |-> {"v"}, v |-> {}], [s |-> s, t |-> t, v |-> v])
Diamond(s, t, u, v) ==
    Function(<<"s", "t", "u", "v">>, [s |-> {"t", "u"}, t |-> {"v"}, u |-> {"v"}, v |-> {}],
             [s |-> s, t |-> t, u |-> u, v |-> v])
DoWhile(s, t, v) ==
    Function(<<"s", "t", "v">>, [s |-> {"t"}, t |-> {"t", "v"}, v |-> {}], [s |-> s, t |-> t, v |-> v])

I == Var("i")
Indices == {I, Of("add", "i", 1), Of("sub", "i", 1), Of("mul", "i", 2)}
Stores == {Step("add", "i", 1), Step("sub", "i", 1), Step("mul", "i", 2), Step("sdiv", "i", 2),
           Set("i", Var("j"))}
Blocks1 == {Block(<<At(2, x), y>>) : x \in Indices, y \in {At(n, z) : n \in 2 .. 3, z \in Indices \cup {Var("j")}}}
Blocks2 == {Block(<<At(n, x), y, At(2, z)>>) : n \in 2 .. 3, x \in Indices, y \in Stores, z \in Indices}
Arounds == {Around(<<At(3, x)>>, <<At(2, y), s>>, <<At(2, z)>>) :
              x \in Indices, y \in {I, Of("add", "i", 1)}, s \in Stores, z \in {I, Of("sub", "i", 1)}}
Diamonds == {Diamond(<<At(3, x)>>, <<At(2, I), At(3, y), s>>, <<At(2, I), At(3, z)>>, <<At(2, I)>>) :
              x \in {I, Var("j")}, y, z \in {I, Var("j")}, s \in {Step("add", "i", 1), Step("sub", "i", 1)}}
Loops == {DoWhile(<<At(3, x)>>, <<At(2, y), s>>, <<At(2, z)>>) :
              x \in {I, Var("j")}, y \in Indices, s \in Stores, z \in {I, Of("add", "i", 1)}}

\* Functions the pass does not get right.
Wrong == {Block(<<At(3, Of("sub", "i", 1)), At(3, Of("add", "i", 1)), At(2, Of("add", "i", 1))>>),
          Diamond(<<At(3, Var("j"))>>, <<At(2, I), At(3, I)>>, <<At(2, Of("add", "i", 1)), At(3, I)>>, <<At(2, Var("j"))>>)}
MCPrograms == Wrong \cup Blocks1 \cup Blocks2 \cup Arounds \cup Diamonds \cup Loops
=============================================================================
