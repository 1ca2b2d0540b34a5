----------------------------- MODULE LightChecks -----------------------------
(***************************************************************************)
(* The sets of LightCheck that the dataflow analyses of                    *)
(* ProjectFinal/project.cpp compute with.  A LightCheck says that the      *)
(* variable `realindex` lies within [bottom_limit, top_limit).  Checks     *)
(* come in two kinds, one per run-time function: "min" compares with       *)
(* bottom_limit, "max" with top_limit; each keeps both limits.             *)
(*                                                                         *)
(* Every index here is a variable's alloca, so identicalValue is equality. *)
(***************************************************************************)
EXTENDS Integers, FiniteSets

Kinds == {"min", "max"}

LightCheck(Vars, Limits) ==
    [realindex : Vars, bottom_limit : Limits, top_limit : Limits]

\* What a call of a kind tests at run time: the value passes a check.
Passes(k, value, check) ==
    IF k = "min" THEN value >= check.bottom_limit ELSE value < check.top_limit

Roots(checks) == {c.realindex : c \in checks}

Of(checks, v) == {c \in checks : c.realindex = v}

\* The smallest and the largest element of a non-empty finite set of numbers.
Least(S) == CHOOSE x \in S : \A y \in S : x <= y
Greatest(S) == CHOOSE x \in S : \A y \in S : x >= y

\* The conjunction (std::max of bottoms, std::min of tops) and the disjunction
\* of checks on one variable.
Tighten(v, checks) ==
    [realindex |-> v, bottom_limit |-> Greatest({c.bottom_limit : c \in checks}),
     top_limit |-> Least({c.top_limit : c \in checks})]
Loosen(v, checks) ==
    [realindex |-> v, bottom_limit |-> Least({c.bottom_limit : c \in checks}),
     top_limit |-> Greatest({c.top_limit : c \in checks})]

-----------------------------------------------------------------------------
\* Forward sets are compared check by check.

\* The intersection, over a non-empty set of predecessors, that a copy of the
\* first one followed by one myintersect per predecessor leaves.
myintersect(sets) == {c \in UNION sets : \A s \in sets : c \in s}

\* Every check on a variable that `kill` mentions is dropped.
mysubtract2(out, kill) == {c \in out : c.realindex \notin Roots(kill)}

myunion(out, gen) == out \cup gen

-----------------------------------------------------------------------------
\* Backward sets are compared variable by variable.

\* The variables checked in every set, each with the weakest of its checks.
myintersect2(sets) ==
    {Loosen(v, Of(UNION sets, v)) :
        v \in {w \in Roots(UNION sets) : \A s \in sets : w \in Roots(s)}}

\* Mutants: a plain union, and one that does not absorb.
myunion2Plain(out, gen) == out \cup gen
myunion2Lax(out, gen) ==
    out \cup {Tighten(v, Of(gen, v)) : v \in Roots(gen) \ Roots(out)}

\* A check of `out` absorbs those of `gen` on its variable; the variables that
\* `out` does not mention are added.
myunion2(out, gen) ==
    {Tighten(c.realindex, {c} \cup Of(gen, c.realindex)) : c \in out}
      \cup {Tighten(v, Of(gen, v)) : v \in Roots(gen) \ Roots(out)}

\* Walking the ordered set, a check merges with the next one on the same
\* variable, which is erased, and the walk goes on past it: of each variable's
\* checks, in increasing order of top_limit, every other one stays.
subsumeGen(checks) ==
    {c \in checks :
        Cardinality({d \in Of(checks, c.realindex) : d.top_limit < c.top_limit}) % 2 = 0}

OnePerIndex(checks) ==
    \A c, d \in checks : c.realindex = d.realindex => c = d
=============================================================================
