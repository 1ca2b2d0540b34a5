---------------------------- MODULE MCSecondPass ----------------------------
(***************************************************************************)
(* Functions for the second pass: a branch that joins again, a loop run at *)
(* least once, one that is run any number of times, a loop in a loop, and  *)
(* (Stale) a loop after a check of what it counts.                         *)
(***************************************************************************)
EXTENDS SecondPass

I == <<"mem", "i">>
K == <<"mem", "k">>
MCVariables == {I, K}
MCArrays == {"a", "b"}
MCLimit == [a \in MCArrays |-> IF a = "a" THEN 1 ELSE 2]
MCValues == -1 .. 3

Access(v, c, a) == [op |-> "access", var |-> v, by |-> c, array |-> a]
Element(n, a) == Access(<<"const", n>>, 0, a)
Add(v, c) == [op |-> "add", var |-> v, by |-> c]
Set(v, c) == [op |-> "set", var |-> v, by |-> c]
Call == [op |-> "call"]

\* s then t or u, then v.
Diamond(s, t, u, v) ==
    [blocks |-> <<"s", "t", "u", "v">>,
     preds |-> [s |-> << >>, t |-> <<"s">>, u |-> <<"s">>, v |-> <<"t", "u">>],
     body |-> [s |-> s, t |-> t, u |-> u, v |-> v],
     loops |-> << >>]

\* do { t } while (...) after s, then v.
DoWhile(s, t, v) ==
    [blocks |-> <<"s", "t", "v">>,
     preds |-> [s |-> << >>, t |-> <<"s", "t">>, v |-> <<"t">>],
     body |-> [s |-> s, t |-> t, v |-> v],
     loops |-> <<[preheader |-> "s", blocks |-> <<"t">>, exit |-> "v"]>>]

\* while (...) { t } after s, then v.
While(s, t, v) ==
    [blocks |-> <<"s", "h", "t", "v">>,
     preds |-> [s |-> << >>, h |-> <<"s", "t">>, t |-> <<"h">>, v |-> <<"h">>],
     body |-> [s |-> s, h |-> << >>, t |-> t, v |-> v],
     loops |-> <<[preheader |-> "s", blocks |-> <<"h", "t">>, exit |-> "v"]>>]

\* do { p; do { t } while (...); q } while (...) after s, then v.
Nested(s, p, t, q, v) ==
    [blocks |-> <<"s", "p", "t", "q", "v">>,
     preds |-> [s |-> << >>, p |-> <<"s", "q">>, t |-> <<"p", "t">>, q |-> <<"t">>, v |-> <<"q">>],
     body |-> [s |-> s, p |-> p, t |-> t, q |-> q, v |-> v],
     loops |-> <<[preheader |-> "p", blocks |-> <<"t">>, exit |-> "q"],
                 [preheader |-> "s", blocks |-> <<"p", "t", "q">>, exit |-> "v"]>>]

Before == {<< >>, <<Access(I, 0, "a")>>, <<Access(I, 1, "a")>>, <<Access(I, -1, "b")>>,
          <<Access(I, 0, "b"), Add(I, -1)>>, <<Call, Access(I, 0, "a")>>, <<Access(I, 0, "a"), Call>>}
Arm == {<< >>, <<Access(I, 0, "a")>>, <<Access(I, 0, "b"), Add(I, 1)>>, <<Add(I, -1)>>, <<Call>>}
Below == {<<Access(I, 0, "b")>>, <<Access(I, 1, "a")>>, <<Access(I, -1, "a"), Element(4, "b")>>}
Diamonds == {Diamond(s, t, u, v) : s \in Before, t \in Arm, u \in Arm, v \in Below}
Elements == {Diamond(<<Element(5, "a")>>, t, <<Element(4, "a")>>, <<Element(4, "a")>>) : t \in Arm}

Counted == {<<Access(I, c, "a"), Add(I, d)>> : c \in {-1, 0, 1}, d \in {-1, 1}}
           \cup {<<Access(I, 0, "a"), Add(I, 1), Add(I, -1)>>, <<Access(I, 0, "b"), Set(I, 0)>>,
                 <<Access(I, 0, "a"), Add(K, 1)>>, <<Access(I, 0, "a"), Call>>, <<Access(I, 0, "a"), Element(4, "b")>>}
Loops == {DoWhile(s, t, v) : s \in {<< >>, <<Access(K, 0, "b")>>, <<Set(I, 0)>>}, t \in Counted,
                             v \in {<< >>, <<Access(I, 0, "a")>>}}
Whiles == {While(s, t, << >>) : s \in {<< >>, <<Set(I, 0)>>}, t \in Counted}
Nests == {Nested(<< >>, p, t, q, << >>) :
            p \in {<< >>, <<Set(I, 0)>>}, t \in Counted,
            q \in {<< >>, <<Add(K, 1)>>, <<Add(I, -1)>>}}
MCPrograms == Diamonds \cup Elements \cup Loops \cup Whiles \cup Nests

Stale == {While(<<Access(I, 0, "a")>>, <<Access(I, 0, "a"), Add(I, 1)>>, << >>)}
=============================================================================
