-------------------------- MODULE MCBoundsChecking --------------------------
(***************************************************************************)
(* Blocks of up to four statements over two variables that index two       *)
(* arrays of the same size.                                                *)
(***************************************************************************)
EXTENDS BoundsChecking

Index(v, op, c, a) == [kind |-> "index", op |-> op, var |-> v, by |-> c, array |-> a]
Element(c, a) == [kind |-> "element", by |-> c, array |-> a]
Assign(v, from, op, c) == [kind |-> "assign", var |-> v, from |-> from, op |-> op, by |-> c]
Set(v, c) == [kind |-> "set", var |-> v, by |-> c]
Call == [kind |-> "call"]

MCVariables == {"i", "k"}
MCArrays == {"a", "b"}
SameLimit == [a \in MCArrays |-> 1]
MCValues == -1 .. 1
MCStatements ==
    {Index("i", "", 0, "a"), Index("i", "ADD", 1, "a"), Index("i", "SUB", 1, "a"),
     Index("k", "", 0, "b"), Element(3, "a"), Set("i", 1), Call,
     Assign("i", "i", "ADD", 1), Assign("i", "i", "SUB", 2), Assign("k", "i", "ADD", 1)}
=============================================================================
