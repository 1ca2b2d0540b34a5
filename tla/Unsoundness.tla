------------------------------ MODULE Unsoundness ------------------------------
(***************************************************************************)
(* HW2/Part4/Assignment_4.cc: a backward analysis finds the variables      *)
(* that may be used before they are stored, a forward one those that are   *)
(* computed from them.                                                     *)
(***************************************************************************)
EXTENDS LoadStore

VARIABLES
    uninit,     \* for every block: the sets of basicBlockDataUninit
    sound       \* and of basicBlockDataUnsound

sets == <<uninit, sound>>

EmptySets == [gen |-> {}, kill |-> {}, in |-> {}, out |-> {}]

InitUnsoundness ==
    /\ uninit = [b \in Blocks(prog) |->
                   [EmptySets EXCEPT !.gen = Loaded(prog, b), !.kill = Stored(prog, b)]]
    /\ sound = [b \in Blocks(prog) |-> EmptySets]

\* Mutant: the counter is not counted down.
SweepUncounted(again, next, changed) ==
    /\ pos' = IF pos = Cardinality(Blocks(prog)) THEN 1 ELSE pos + 1
    /\ change' = IF changed THEN 2 ELSE change
    /\ stage' = IF pos < Cardinality(Blocks(prog)) THEN stage ELSE IF change' # 0 THEN again ELSE next

\* do ... while (change--), one block at a time: a sweep that has changed
\* something is followed by two more.
Sweep(again, next, changed) ==
    LET now == IF changed THEN 2 ELSE change
    IN  \/ /\ pos < Cardinality(Blocks(prog))
           /\ pos' = pos + 1 /\ change' = now /\ UNCHANGED stage
        \/ /\ pos = Cardinality(Blocks(prog)) /\ now # 0
           /\ pos' = 1 /\ change' = now - 1 /\ stage' = again
        \/ /\ pos = Cardinality(Blocks(prog)) /\ now = 0
           /\ pos' = 1 /\ change' = 1 /\ stage' = next

\* The backward analysis, with a block's old out set for its new in set.
InValues(b) == uninit[b].in \cup (uninit[b].out \ uninit[b].kill)
OutValues(b, in) ==
    uninit[b].out \cup
        ((uninit[b].gen \cup UNION {IF c = b THEN in ELSE uninit[c].in : c \in prog.succs[b]}) \ uninit[b].kill)

SweepUninit ==
    LET in == InValues(pos)
        new == [uninit[pos] EXCEPT !.in = in, !.out = OutValues(pos, in)]
    IN  /\ stage = "uninit"
        /\ uninit' = [uninit EXCEPT ![pos] = new]
        /\ Sweep("uninit", "gen", new # uninit[pos])
        /\ UNCHANGED <<prog, pass, sound, run>>

\* What is in the entry's in set and used in some block that has it.
UnInitVariables ==
    uninit[1].in \cap UNION {uninit[b].in \cap uninit[b].gen : b \in Blocks(prog)}

-----------------------------------------------------------------------------

\* The variables a block stores what depends on a bad load to, looking from
\* the load only at its users and their users.
Bad(b) == UnInitVariables \cup sound[b].out
\* Mutant: a load of what is only unsound is passed over.
GenOfUninit(b) ==
    {I.var : I \in {I \in Instructions(prog, b) :
        /\ IsStore(I) /\ ~IsConst(I)
        /\ \E n \in I.near : prog.code[b][n].var \in UnInitVariables}}

GenOf(b) ==
    {I.var : I \in {I \in Instructions(prog, b) :
        /\ IsStore(I) /\ ~IsConst(I)
        /\ \E n \in I.near : prog.code[b][n].var \in Bad(b)}}

\* The gen and kill sets of all blocks are brought up to date before a sweep.
\* A store kills if the gen set lacks its variable when the store is reached:
\* the loads before it have been seen.
KilledOf(b) ==
    {prog.code[b][k].var : k \in {k \in DOMAIN prog.code[b] :
        /\ IsStore(prog.code[b][k])
        /\ prog.code[b][k].var \notin sound[b].gen
        /\ ~\E l \in DOMAIN prog.code[b] :
               LET I == prog.code[b][l]
               IN  /\ IsStore(I) /\ ~IsConst(I) /\ I.var = prog.code[b][k].var
                   /\ \E n \in I.near : n < k /\ prog.code[b][n].var \in Bad(b)}}

GenAndKill ==
    /\ stage = "gen"
    /\ sound' = [b \in Blocks(prog) |->
                   [sound[b] EXCEPT !.gen = @ \cup GenOf(b), !.kill = @ \cup KilledOf(b)]]
    /\ stage' = "sound"
    /\ UNCHANGED <<prog, pass, pos, change, uninit, run>>

\* The forward analysis.
SweepSound ==
    LET in == sound[pos].in \cup UNION {sound[c].out : c \in Preds(prog, pos)}
        new == [sound[pos] EXCEPT !.in = in, !.out = @ \cup (in \ sound[pos].kill) \cup sound[pos].gen]
    IN  /\ stage = "sound"
        /\ sound' = [sound EXCEPT ![pos] = new]
        /\ Sweep("gen", "run", new # sound[pos])
        /\ UNCHANGED <<prog, pass, uninit, run>>

Analyse == SweepUninit \/ GenAndKill \/ SweepSound

-----------------------------------------------------------------------------
\* No block stores a variable it loads.
Separate(p) == \A b \in Blocks(p) : Stored(p, b) \cap Loaded(p, b) = {}
Direct(p) == \A b \in Blocks(p) : \A I \in Instructions(p, b) :
               IsStore(I) /\ ~IsConst(I) => I.far = {}

UsesReported ==
    \A w \in uses : w[1] \in uninit[w[2]].kill \/ w[1] \in UnInitVariables \cap uninit[w[2]].out
UnsoundReported ==
    at[2] > Len(prog.code[at[1]]) => bad \subseteq sound[at[1]].out

\* A variable that is used before it is stored is warned of in the block that
\* uses it, unless the block stores it as well.  So is, behind every block,
\* what was computed from it over whatever chain of variables and blocks, in
\* functions whose blocks load no variable they store and compute in one step.
Reported ==
    stage = "run" /\ pass = "Assignment_4" =>
        UsesReported /\ (Separate(prog) /\ Direct(prog) => UnsoundReported)
=============================================================================
