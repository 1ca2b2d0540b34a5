------------------------------ MODULE MCHomework ------------------------------
(***************************************************************************)
(* Every function of four blocks, in a loop or in two branches, that have  *)
(* some of seven pieces of code.                                           *)
(***************************************************************************)
EXTENDS Homework

CONSTANTS x, y, z

LoadOf(v) == [op |-> "load", var |-> v]
Const(v, c) == [op |-> "store", var |-> v, const |-> c]
Result(v, near, far) == [op |-> "store", var |-> v, near |-> near, far |-> far]

Pieces == {
    << >>,
    <<Const(x, 1)>>,
    <<Const(x, 2), Const(y, 2)>>,
    <<LoadOf(x), Result(y, {1}, {})>>,
    <<LoadOf(y), Result(z, {1}, {})>>,
    <<LoadOf(x), LoadOf(y), Result(x, {1}, {2})>>,
    <<LoadOf(x), LoadOf(y), LoadOf(z), Result(z, {2, 3}, {1})>>}

Loop == <<{2}, {3, 4}, {2}, {}>>
Branches == <<{2, 3}, {4}, {4}, {}>>

MCPrograms ==
    {[succs |-> s, code |-> <<a, b, c, d>>] : s \in {Loop, Branches}, a, b, c, d \in Pieces}
=============================================================================
