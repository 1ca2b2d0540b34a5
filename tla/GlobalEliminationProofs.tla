----------------------- MODULE GlobalEliminationProofs -----------------------
(***************************************************************************)
(* What the analyses say of runs, and what they are used for.  Both are    *)
(* right about every run; and what localopt, ModifyMin and -Max and        *)
(* EliminateRedundanteMin and -Max make of a function stops every run that *)
(* its checks would have stopped, and no other, under the conditions that  *)
(* GlobalElimination names; and the counter is right.                      *)
(***************************************************************************)
EXTENDS GlobalElimination, AvailableChecks, AnticipatedChecks, AnalysisProofs

-----------------------------------------------------------------------------
(***************************************************************************)
(* The forward analysis is sound: what it calls available holds in every   *)
(* run, for all functions that are SoundFW and whatever values there are.  *)
(***************************************************************************)
\* A run starts when the analysis is over.
LaunchedFW == status = "ready" \/ kind = "done"

\* A check available at the node holds until a store spoils it ...
Held ==
    \A k \in Kinds : \A c \in In[k][node] :
        Untouched(code[node], c.realindex, Spoils(k), 1, idx - 1) => Passes(k, env[c.realindex], c)

\* ... and so does a check that the node has made.
MadeFW ==
    \A k \in Kinds : \A j \in 1..(idx - 1) :
        LET i == code[node][j] IN
        isCall(i, k) /\ Untouched(code[node], i.root, Spoils(k), j, idx - 1)
            => Passes(k, env[i.root], CheckOf(i))

RunInv == SoundFW(prog) /\ status = "running" => Held /\ MadeFW /\ Fresh

AInv == code = prog.code /\ FixInvFW /\ OwnFW /\ LaunchedFW /\ Place /\ RunInv

-----------------------------------------------------------------------------
(***************************************************************************)
(* The analysis keeps the invariant.                                       *)
(***************************************************************************)
\* What the calls of a function without empty arrays say.
LEMMA CheckNotEmpty ==
    ASSUME AInv, NonEmptyArrays(prog), NEW k \in Kinds, NEW c \in Checks(code, k)
    PROVE  c \in AllChecks /\ c.bottom_limit = 0 /\ c.top_limit > 0
<1>1. code \in [prog.nodes -> Seq(Instrs)] /\ code = prog.code
  BY DEF AInv, FixInvFW, Typed, TypeOK
<1>2. PICK n \in prog.nodes :
         \E j \in DOMAIN code[n] : isCall(code[n][j], k) /\ c = CheckOf(code[n][j])
  BY <1>1, CheckOfCall
<1>3. c.top_limit > 0
  BY <1>1, <1>2 DEF isCall, CheckOf, NonEmptyArrays
<1> QED
  BY <1>1, <1>3, OwnCheck

LEMMA RunsOwnCodeFW == AInv => RunsCode /\ SameSteps(code)
  BY ProgramsAssumption DEF AInv, FixInvFW, Typed, TypeOK, RunsCode, SameSteps

LEMMA AInvInit == AInitFW => AInv
<1> SUFFICES ASSUME AInitFW PROVE AInv
  OBVIOUS
<1>1. FixInvFW /\ OwnFW /\ LaunchedFW /\ code = prog.code
  BY StartsTypedFW, FixInitFW, OwnInitFW DEF AInitFW, StartOnProgram, LaunchedFW, Ready
<1>2. Place
  BY <1>1, ProgramsAssumption, PlaceInit DEF AInitFW, FixInvFW, Typed, TypeOK, RunsCode
<1>3. RunInv
  BY DEF AInitFW, Ready, RunInv
<1> QED
  BY <1>1, <1>2, <1>3 DEF AInv

LEMMA AnalyseStepFW == AInv /\ AnalyseFW => AInv'
<1> SUFFICES ASSUME AInv, AnalyseFW PROVE AInv'
  OBVIOUS
<1>1. FixInvFW' /\ OwnFW'
  BY FixNextFW, OwnNextFW DEF AInv, AnalyseFW, FixInvFW
<1>2. kind # "done" /\ UNCHANGED <<prog, code>>
  BY DEF AnalyseFW, NextFW, AdvanceFW, VisitFW, Repeat, Finish, CrashFW, Looping, Kinds
<1>3. status = "ready" /\ UNCHANGED state
  BY <1>2 DEF AInv, LaunchedFW, AnalyseFW
<1>4. LaunchedFW' /\ Place' /\ RunInv'
  BY <1>2, <1>3 DEF AInv, LaunchedFW, Place, RunInv, state
<1> QED
  BY <1>1, <1>2, <1>4 DEF AInv

-----------------------------------------------------------------------------
(***************************************************************************)
(* So does the run.                                                        *)
(***************************************************************************)
\* The steps of the run leave the program and the sets alone.
LEMMA ExecuteKeeps ==
    ASSUME AInv, ExecuteFW
    PROVE  /\ UNCHANGED analysis /\ kind = "done" /\ prog' = prog /\ code' = code
           /\ RunsCode /\ SameSteps(code) /\ Place /\ Place'
           /\ code = prog.code /\ FixInvFW' /\ OwnFW' /\ LaunchedFW'
<1>1. RunsCode /\ SameSteps(code) /\ Place
  BY RunsOwnCodeFW DEF AInv
<1>2. Place' /\ UNCHANGED program
  BY <1>1, PlaceNext DEF ExecuteFW
<1>3. UNCHANGED analysis /\ kind = "done"
  BY <1>2 DEF ExecuteFW, analysis, program
<1>4. FixInvFW' /\ OwnFW'
  BY <1>3, FixNextFW, OwnNextFW DEF AInv, FixInvFW
<1> QED
  BY <1>1, <1>2, <1>3, <1>4 DEF AInv, LaunchedFW, analysis

LEMMA LaunchStep ==
    ASSUME AInv, ExecuteFW, Launch PROVE RunInv'
<1>1. UNCHANGED analysis
  BY ExecuteKeeps
<1>2. node' = prog.entry /\ idx' = 1
  BY DEF Launch, AInv, Place
<1>3. \A k \in Kinds : In'[k][prog.entry] = {}
  <2>1. WellFormed(prog)
    BY ProgramsAssumption DEF AInv, FixInvFW, Typed
  <2> QED
    BY <1>1, <2>1, EntryIsNode DEF WellFormed, analysis, AInv, FixInvFW, OutsideFW
<1> QED
  BY <1>1, <1>2, <1>3 DEF RunInv, Held, MadeFW, Fresh, analysis

LEMMA LoadStep ==
    ASSUME AInv, ExecuteFW, Load, SoundFW(prog) PROVE Held' /\ MadeFW' /\ Fresh'
<1> DEFINE i == code[node][idx]
<1>1. UNCHANGED analysis /\ RunsCode /\ Place
  BY ExecuteKeeps
<1>2. /\ i.op = "load" /\ i.tmp \in Tmps /\ i.var \in Vars
      /\ idx \in 1..Len(code[node]) /\ Len(code[node]) \in Nat /\ status = "running"
      /\ reg' = [reg EXCEPT ![i.tmp] = env[i.var]] /\ idx' = idx + 1 /\ UNCHANGED <<node, env>>
  BY <1>1, LoadEffect DEF Running
<1>3. Held /\ MadeFW /\ Fresh
  BY <1>2 DEF AInv, RunInv
<1>4. Held'
  <2> SUFFICES ASSUME NEW k \in Kinds, NEW c \in In[k][node],
                      Untouched(code[node], c.realindex, Spoils(k), 1, idx)
               PROVE  Passes(k, env[c.realindex], c)
    BY <1>1, <1>2 DEF Held, Untouched, analysis
  <2> QED
    BY <1>2, <1>3 DEF Held, Untouched
<1>5. MadeFW'
  BY <1>1, <1>2, <1>3 DEF MadeFW, Untouched, analysis, isCall
<1>6. Fresh'
  BY <1>3, ExecuteKeeps, FreshStays
<1> QED
  BY <1>4, <1>5, <1>6

\* After a store, a check that held and that the store does not spoil holds.
LEMMA StoreKeepsOwn ==
    ASSUME AInv, Store, SoundFW(prog), NEW k \in Kinds, NEW c \in Checks(code, k),
           ~HasEffect(code[node][idx], c.realindex, Spoils(k)),
           Passes(k, env[c.realindex], c)
    PROVE  Passes(k, env'[c.realindex], c)
<1> DEFINE s == code[node][idx]
<1>1. /\ s \in Stores /\ s.op = "store" /\ idx \in 1..Len(code[node])
      /\ \E x \in Int : x \in Outcomes(s, env[s.base]) /\ env' = [env EXCEPT ![s.var] = x]
  BY RunsOwnCodeFW, StoreEffect DEF AInv
<1>2. s.constfirst => s.opc \notin {"sub", "sdiv"}
  <2>1. idx \in DOMAIN prog.code[node] /\ node \in prog.nodes
    BY <1>1 DEF AInv, FixInvFW, Typed, TypeOK, Place
  <2> QED
    BY <1>1, <2>1 DEF SoundFW, HonestStores, AInv
<1>3. c \in AllChecks /\ c.bottom_limit = 0 /\ c.top_limit > 0 /\ env \in [Vars -> Int]
  BY CheckNotEmpty DEF AInv, SoundFW, Place
<1>4. PICK x \in Outcomes(s, env[s.base]) : env' = [env EXCEPT ![s.var] = x]
  BY <1>1
<1> QED
  BY <1>1, <1>2, <1>3, <1>4, StoreKeepsCheck

LEMMA StoreStep ==
    ASSUME AInv, ExecuteFW, Store, SoundFW(prog) PROVE Held' /\ MadeFW' /\ Fresh'
<1> DEFINE s == code[node][idx]
<1>1. UNCHANGED analysis /\ RunsCode /\ Place /\ code \in [prog.nodes -> Seq(Instrs)]
  BY ExecuteKeeps DEF RunsCode
<1>2. /\ s \in Stores /\ s.op = "store" /\ s.var \in Vars
      /\ idx \in 1..Len(code[node]) /\ Len(code[node]) \in Nat /\ status = "running"
      /\ \E x \in Int : env' = [env EXCEPT ![s.var] = x]
      /\ idx' = idx + 1 /\ UNCHANGED <<node, reg>>
  BY <1>1, StoreEffect DEF Running
<1>3. Held /\ MadeFW /\ Fresh
  BY <1>2 DEF AInv, RunInv
<1>4. idx' - 1 = idx /\ UNCHANGED <<code, node, In, reg>> /\ node \in prog.nodes
  BY <1>1, <1>2 DEF analysis, Place
<1>5. Held'
  <2> SUFFICES ASSUME NEW k \in Kinds, NEW c \in In[k][node],
                      Untouched(code[node], c.realindex, Spoils(k), 1, idx)
               PROVE  Passes(k, env'[c.realindex], c)
    BY <1>4 DEF Held, Untouched
  <2>1. Passes(k, env[c.realindex], c) /\ ~HasEffect(s, c.realindex, Spoils(k))
    BY <1>2, <1>3 DEF Held, Untouched
  <2>2. c \in Checks(code, k)
    BY <1>4 DEF AInv, OwnFW
  <2> QED
    BY <2>1, <2>2, StoreKeepsOwn
<1>6. MadeFW'
  <2> SUFFICES ASSUME NEW k \in Kinds, NEW j \in 1..idx, isCall(code[node][j], k),
                      Untouched(code[node], code[node][j].root, Spoils(k), j, idx)
               PROVE  Passes(k, env'[code[node][j].root], CheckOf(code[node][j]))
    BY <1>4 DEF MadeFW, Untouched
  <2> DEFINE c == CheckOf(code[node][j])
  <2>1. j \in 1..(idx - 1) /\ j \in DOMAIN code[node] /\ c.realindex = code[node][j].root
    BY <1>1, <1>2, <1>4 DEF isCall, CheckOf
  <2>2. Passes(k, env[c.realindex], c) /\ ~HasEffect(s, c.realindex, Spoils(k))
    BY <1>2, <1>3, <2>1 DEF MadeFW, Untouched
  <2>3. c \in Checks(code, k)
    BY <1>1, <1>4, <2>1, CallIsOwn
  <2> QED
    BY <2>1, <2>2, <2>3, StoreKeepsOwn
<1>7. Fresh'
  BY <1>3, ExecuteKeeps, FreshStays
<1> QED
  BY <1>5, <1>6, <1>7

LEMMA CheckStep ==
    ASSUME AInv, ExecuteFW, Check, SoundFW(prog), status' = "running"
    PROVE  Held' /\ MadeFW' /\ Fresh'
<1> DEFINE i == code[node][idx]
<1>1. UNCHANGED analysis /\ RunsCode /\ Place /\ code = prog.code
  BY ExecuteKeeps
<1>2. /\ idx \in 1..Len(code[node]) /\ status = "running" /\ UNCHANGED <<node, env, reg>>
      /\ idx' = idx + 1 /\ ~Fails(i) /\ i.op # "load"
  BY <1>1, CurrentInstr DEF Check, Running
<1>3. Held /\ MadeFW /\ Fresh
  BY <1>2 DEF AInv, RunInv
<1>4. idx' - 1 = idx /\ UNCHANGED <<code, node, In, env, reg>>
  BY <1>1, <1>2 DEF analysis
<1>5. Held'
  <2> SUFFICES ASSUME NEW k \in Kinds, NEW c \in In[k][node],
                      Untouched(code[node], c.realindex, Spoils(k), 1, idx)
               PROVE  Passes(k, env[c.realindex], c)
    BY <1>4 DEF Held, Untouched
  <2> QED
    BY <1>2, <1>3 DEF Held, Untouched
<1>6. MadeFW'
  <2> SUFFICES ASSUME NEW k \in Kinds, NEW j \in 1..idx, isCall(code[node][j], k),
                      Untouched(code[node], code[node][j].root, Spoils(k), j, idx)
               PROVE  Passes(k, env[code[node][j].root], CheckOf(code[node][j]))
    BY <1>4 DEF MadeFW, Untouched
  <2>1. CASE j = idx
    <3>1. reg[i.tmp] = env[i.root]
      BY <1>1, <1>3, <2>1, ExecuteKeeps, CallIsFresh DEF isCall, SoundFW
    <3>2. Passes(i.kind, reg[i.tmp], CheckOf(i))
      BY <1>2, <2>1 DEF Fails, isCall
    <3> QED
      BY <2>1, <3>1, <3>2 DEF isCall
  <2>2. CASE j # idx
    BY <1>2, <1>3, <2>2 DEF MadeFW, Untouched
  <2> QED
    BY <2>1, <2>2
<1>7. Fresh'
  BY <1>3, ExecuteKeeps, FreshStays
<1> QED
  BY <1>5, <1>6, <1>7

\* What is available at the beginning of a successor holds at a node's end.
LEMMA EdgeKeeps ==
    ASSUME AInv, kind = "done", Held, MadeFW, idx = Len(code[node]) + 1,
           NEW m \in prog.succs[node], m \in prog.nodes,
           NEW k \in Kinds, NEW c \in In[k][m]
    PROVE  Passes(k, env[c.realindex], c)
<1>0. Typed /\ node \in prog.nodes /\ SolvedAtFW(k) /\ code[node] \in Seq(Instrs)
  BY DEF AInv, FixInvFW, Place, FinishedFW, Solved, Typed, TypeOK
<1>1. node \in preds(prog, m)
  BY <1>0 DEF preds
<1>2. In[k][m] = InOf(k, m)
  BY <1>0 DEF SolvedAtFW, SettledFW
<1>3. c \in out[k][node]
  BY <1>1, <1>2 DEF InOf, myintersect
<1>4. out[k][node] = TransferFW(k, node, In[k][node])
  BY <1>0, <1>3 DEF SolvedAtFW, SettledFW
<1>5. CASE c \in init_gen(code[node], k)
  <2>1. PICK j \in DOMAIN code[node] :
           /\ c = CheckOf(code[node][j]) /\ isCall(code[node][j], k)
           /\ \A q \in j..Len(code[node]) :
                 ~HasEffect(code[node][q], code[node][j].root, Spoils(k))
    BY <1>5 DEF init_gen, Untouched
  <2>2. j \in 1..(idx - 1) /\ idx - 1 = Len(code[node])
    BY <1>0
  <2>3. c.realindex = code[node][j].root
    BY <2>1 DEF CheckOf
  <2> QED
    BY <2>1, <2>2, <2>3 DEF MadeFW, Untouched
<1>6. CASE c \in In[k][node] /\ c.realindex \notin Roots(init_kill(code, node, k))
  <2>1. c \in Checks(code, k)
    BY <1>0, <1>6 DEF AInv, OwnFW
  <2>2. c.realindex \in Checked(code, k)
    BY <2>1 DEF Checked, Roots
  <2>3. \A j \in DOMAIN code[node] : ~HasEffect(code[node][j], c.realindex, Spoils(k))
    <3> SUFFICES ASSUME NEW j \in DOMAIN code[node],
                        HasEffect(code[node][j], c.realindex, Spoils(k))
                 PROVE  FALSE
      OBVIOUS
    <3> DEFINE killed == [realindex |-> c.realindex, bottom_limit |-> 0, top_limit |-> 0]
    <3>1. killed \in init_kill(code, node, k)
      BY <2>2 DEF init_kill, KillSet
    <3>2. killed.realindex \in Roots(init_kill(code, node, k))
      BY <3>1 DEF Roots
    <3> QED
      BY <1>6, <3>2
  <2>4. Untouched(code[node], c.realindex, Spoils(k), 1, idx - 1)
    BY <1>0, <2>3 DEF Untouched
  <2> QED
    BY <1>6, <2>4 DEF Held
<1> QED
  BY <1>3, <1>4, <1>5, <1>6 DEF TransferFW, myunion, mysubtract2

LEMMA BranchStep ==
    ASSUME AInv, ExecuteFW, Branch, SoundFW(prog) PROVE Held' /\ MadeFW' /\ Fresh'
<1>1. UNCHANGED analysis /\ RunsCode /\ Place /\ kind = "done"
  BY ExecuteKeeps
<1>2. /\ idx = Len(code[node]) + 1 /\ node' \in prog.nodes /\ node' \in prog.succs[node]
      /\ idx' = 1 /\ status = "running" /\ UNCHANGED <<env, reg>>
  BY <1>1, BranchEffect DEF Running
<1>3. Held /\ MadeFW
  BY <1>2 DEF AInv, RunInv
<1>4. \A k \in Kinds : \A c \in In[k][node'] : Passes(k, env[c.realindex], c)
  BY <1>1, <1>2, <1>3, EdgeKeeps
<1>5. Held'
  BY <1>1, <1>2, <1>4 DEF Held, analysis
<1>6. MadeFW' /\ Fresh'
  BY <1>2 DEF MadeFW, Fresh
<1> QED
  BY <1>5, <1>6

LEMMA ExecuteStepFW == ASSUME AInv, ExecuteFW PROVE AInv'
<1>1. UNCHANGED analysis /\ Place' /\ code = prog.code /\ FixInvFW' /\ OwnFW' /\ LaunchedFW'
  BY ExecuteKeeps
<1>2. CASE Launch
  BY <1>1, <1>2, LaunchStep DEF AInv, analysis
<1>3. CASE Load
  BY <1>1, <1>3, LoadStep DEF AInv, RunInv, analysis
<1>4. CASE Store
  BY <1>1, <1>4, StoreStep DEF AInv, RunInv, analysis
<1>5. CASE Check
  BY <1>1, <1>5, CheckStep DEF AInv, RunInv, analysis
<1>6. CASE Branch
  BY <1>1, <1>6, BranchStep DEF AInv, RunInv, analysis
<1>7. CASE Undefined \/ Return
  BY <1>1, <1>7 DEF AInv, RunInv, analysis, Undefined, Return
<1> QED
  BY <1>2, <1>3, <1>4, <1>5, <1>6, <1>7 DEF ExecuteFW, RunNext

LEMMA AInvNext == AInv /\ [ANextFW]_<<analysis, state>> => AInv'
<1> SUFFICES ASSUME AInv, [ANextFW]_<<analysis, state>> PROVE AInv'
  OBVIOUS
<1>1. CASE AnalyseFW
  BY <1>1, AnalyseStepFW
<1>2. CASE ExecuteFW
  BY <1>2, ExecuteStepFW
<1>3. CASE UNCHANGED <<analysis, state>>
  <2>1. FixInvFW' /\ OwnFW'
    BY <1>3, FixNextFW, OwnNextFW DEF AInv, FixInvFW
  <2> QED
    BY <1>3, <2>1 DEF AInv, LaunchedFW, Place, RunInv, Held, MadeFW, Fresh, Untouched,
       analysis, state
<1> QED
  BY <1>1, <1>2, <1>3 DEF ANextFW

\* Of a function with fresh loads, honest stores and no empty array, every
\* check that is available at a node holds there in every run, for all graphs,
\* node orders, arrays and values: this is what licenses its elimination.
THEOREM AvailabilityIsSound == ASpecFW => []AvailableHolds
<1>1. AInv => AvailableHolds
  <2> SUFFICES ASSUME AInv, SoundFW(prog), status = "running", idx = 1,
                      NEW k \in Kinds, NEW c \in In[k][node]
               PROVE  Passes(k, env[c.realindex], c)
    BY DEF AvailableHolds
  <2>1. Untouched(code[node], c.realindex, Spoils(k), 1, idx - 1)
    BY DEF Untouched
  <2> QED
    BY <2>1 DEF AInv, RunInv, Held
<1> QED
  BY <1>1, AInvInit, AInvNext, PTL DEF ASpecFW

-----------------------------------------------------------------------------
(***************************************************************************)
(* The order of the vector does not matter: both the sweeps and the rounds *)
(* end in the least solution of the equations.                             *)
(***************************************************************************)
LEMMA LeastNatural ==
    ASSUME NEW T \in SUBSET Nat, T # {} PROVE \E x \in T : \A y \in T : x <= y
<1> DEFINE R == {ss \in Nat \X Nat : ss[1] < ss[2]}
<1>1. IsWellFoundedOn(R, Nat)
  BY Zenon, NatLessThanWellFounded DEF OpToRel
<1>2. PICK x \in T : \A y \in T : ~(<<y, x>> \in R)
  <2> HIDE DEF R
  <2> QED
    BY <1>1, WFMin
<1>3. \A y \in T : x \in Nat /\ y \in Nat /\ (y < x => <<y, x>> \in R)
  OBVIOUS
<1> HIDE DEF R
<1>4. ASSUME NEW y \in T PROVE x <= y
  <2>1. x \in Nat /\ y \in Nat /\ ~(y < x)
    BY <1>2, <1>3
  <2> QED
    BY <2>1
<1> QED
  BY <1>4

NoneYet == [n \in prog.nodes |-> {}]

\* What a round makes of the out sets of the one before.
Round(k, X) ==
    [n \in prog.nodes |->
       IF n \notin InVector(prog) THEN {}
       ELSE TransferFW(k, n,
              IF preds(prog, n) = {} THEN {} ELSE myintersect({X[m] : m \in preds(prog, n)}))]

AreRounds(k, g, N) ==
    g = [r \in 0..N |-> IF r = 0 THEN NoneYet ELSE Round(k, g[r - 1])]

LEMMA RoundsExist == ASSUME NEW k, NEW N \in Nat PROVE \E g : AreRounds(k, g, N)
<1> DEFINE Bad == {m \in Nat : ~\E g : AreRounds(k, g, m)}
<1> SUFFICES ASSUME Bad # {} PROVE FALSE
  OBVIOUS
<1>1. PICK m \in Bad : \A y \in Bad : m <= y
  BY LeastNatural
<1>2. m # 0
  <2> DEFINE g == [r \in 0..0 |-> NoneYet]
  <2>1. AreRounds(k, g, 0)
    BY DEF AreRounds
  <2> QED
    BY <1>1, <2>1
<1>3. PICK g : AreRounds(k, g, m - 1)
  BY <1>1, <1>2
<1> DEFINE h == [r \in 0..m |-> IF r < m THEN g[r] ELSE Round(k, g[m - 1])]
<1>4. AreRounds(k, h, m)
  <2>1. \A r \in 0..(m - 1) :
           g[r] = IF r = 0 THEN NoneYet ELSE Round(k, g[r - 1])
    BY <1>3 DEF AreRounds
  <2>2. ASSUME NEW r \in 0..m
        PROVE  h[r] = IF r = 0 THEN NoneYet ELSE Round(k, h[r - 1])
    <3>1. CASE r < m
      <4>1. r \in 0..(m - 1) /\ h[r] = g[r] /\ (r # 0 => h[r - 1] = g[r - 1])
        BY <1>1, <3>1
      <4> HIDE DEF h
      <4> QED
        BY <2>1, <4>1
    <3>2. CASE r = m
      <4>1. h[r] = Round(k, g[m - 1]) /\ h[r - 1] = g[r - 1] /\ r # 0
        BY <1>1, <1>2, <3>2
      <4> HIDE DEF h
      <4> QED
        BY <3>2, <4>1
    <3> QED
      BY <1>1, <3>1, <3>2
  <2>3. h = [r \in 0..m |-> h[r]]
    OBVIOUS
  <2> HIDE DEF h
  <2> QED
    BY <2>2, <2>3 DEF AreRounds
<1> QED
  BY <1>1, <1>4

LEMMA RoundsAre ==
    ASSUME NEW k, NEW N, N = 3 * Cardinality(prog.nodes), N \in Nat
    PROVE  \E g : AreRounds(k, g, N) /\ Rounds(k) = g[N]
<1> DEFINE g == CHOOSE f : AreRounds(k, f, N)
<1>1. AreRounds(k, g, N)
  BY RoundsExist
<1>2. Rounds(k) = g[N]
  BY DEF Rounds, AreRounds, Round, NoneYet
<1> QED
  BY <1>1, <1>2

\* Whether a check is in a set of the next round depends on where it is now, and
\* being in more sets now never makes it be in fewer then.
Where(c, X) == {n \in prog.nodes : c \in X[n]}

LEMMA RoundMonotone ==
    ASSUME NEW k, NEW X, NEW Y, NEW c, Where(c, X) \subseteq Where(c, Y)
    PROVE  Where(c, Round(k, X)) \subseteq Where(c, Round(k, Y))
<1> SUFFICES ASSUME NEW n \in prog.nodes, c \in Round(k, X)[n] PROVE c \in Round(k, Y)[n]
  BY DEF Where
<1> DEFINE in(Z) == IF preds(prog, n) = {} THEN {} ELSE myintersect({Z[m] : m \in preds(prog, n)})
<1>1. n \in InVector(prog) /\ c \in TransferFW(k, n, in(X))
  BY DEF Round
<1>2. c \in in(X) => c \in in(Y)
  <2> SUFFICES ASSUME preds(prog, n) # {}, c \in myintersect({X[m] : m \in preds(prog, n)})
               PROVE  c \in myintersect({Y[m] : m \in preds(prog, n)})
    OBVIOUS
  <2>1. \A m \in preds(prog, n) : c \in X[m]
    BY DEF myintersect
  <2>2. \A m \in preds(prog, n) : c \in Y[m]
    BY <2>1 DEF Where, preds
  <2> QED
    BY <2>2 DEF myintersect
<1>3. c \in TransferFW(k, n, in(Y))
  <2> HIDE DEF in
  <2> QED
    BY <1>1, <1>2 DEF TransferFW, myunion, mysubtract2
<1> QED
  BY <1>1, <1>3 DEF Round

LEMMA RoundsSteps ==
    ASSUME NEW k, NEW N \in Nat, NEW g, AreRounds(k, g, N)
    PROVE  g[0] = NoneYet /\ \A r \in 1..N : g[r] = Round(k, g[r - 1])
<1>1. \A r \in 0..N : g[r] = IF r = 0 THEN NoneYet ELSE Round(k, g[r - 1])
  BY DEF AreRounds
<1> QED
  BY <1>1

\* In every round a check gets to a node that did not have it, or to none from
\* then on: there are no more rounds of the first kind than nodes.
LEMMA RoundsSettle ==
    ASSUME NEW k, IsFiniteSet(prog.nodes), NEW N \in Nat, N > Cardinality(prog.nodes),
           NEW g, AreRounds(k, g, N)
    PROVE  Round(k, g[N]) = g[N]
<1>1. g[0] = NoneYet /\ \A r \in 1..N : g[r] = Round(k, g[r - 1])
  BY RoundsSteps
<1>2. Cardinality(prog.nodes) \in Nat /\ N >= 1
  BY FS_CardinalityType
<1>3. ASSUME NEW c PROVE Where(c, Round(k, g[N])) = Where(c, g[N])
  <2> DEFINE W(r) == Where(c, g[r])
  <2>1. W(0) = {} /\ \A r \in 0..N : IsFiniteSet(W(r)) /\ Cardinality(W(r)) \in Nat
                                     /\ Cardinality(W(r)) <= Cardinality(prog.nodes)
    <3>1. W(0) = {}
      BY <1>1 DEF Where, NoneYet
    <3>2. \A r : W(r) \subseteq prog.nodes
      BY DEF Where
    <3> QED
      BY <3>1, <3>2, FS_Subset, FS_CardinalityType
  \* What holds of a round holds of the next.
  <2>2. \A q, r \in 0..(N - 1) : W(q) \subseteq W(r) => W(q + 1) \subseteq W(r + 1)
    <3>1. ASSUME NEW r \in 0..(N - 1) PROVE g[r + 1] = Round(k, g[r])
      <4>1. r + 1 \in 1..N /\ (r + 1) - 1 = r
        OBVIOUS
      <4> QED
        BY <1>1, <4>1
    <3> QED
      BY <3>1, RoundMonotone
  <2> HIDE DEF W
  <2>3. \A r \in 0..(N - 1) : W(r) \subseteq W(r + 1)
    <3> DEFINE Bad == {r \in 0..(N - 1) : ~(W(r) \subseteq W(r + 1))}
    <3> SUFFICES ASSUME Bad # {} PROVE FALSE
      OBVIOUS
    <3>1. Bad \in SUBSET Nat
      OBVIOUS
    <3> HIDE DEF Bad
    <3>2. PICK r \in Bad : \A y \in Bad : r <= y
      BY <3>1, LeastNatural
    <3>3. r \in 0..(N - 1) /\ ~(W(r) \subseteq W(r + 1))
      BY DEF Bad
    <3>4. r # 0
      BY <2>1, <3>3
    <3>5. r - 1 \in 0..(N - 1) /\ r - 1 \notin Bad /\ (r - 1) + 1 = r
      BY <3>2, <3>3, <3>4
    <3>6. W(r - 1) \subseteq W(r)
      BY <3>5 DEF Bad
    <3> QED
      BY <2>2, <3>3, <3>5, <3>6
  <2>4. \E s \in 0..(N - 1) : W(s) = W(s + 1)
    <3> SUFFICES ASSUME \A s \in 0..(N - 1) : W(s) # W(s + 1) PROVE FALSE
      OBVIOUS
    <3> DEFINE Bad == {r \in 0..N : Cardinality(W(r)) < r}
    <3>1. N \in Bad /\ Bad \in SUBSET Nat
      BY <1>2, <2>1
    <3> HIDE DEF Bad
    <3>2. PICK r \in Bad : \A y \in Bad : r <= y
      BY <3>1, LeastNatural
    <3>3. r \in 0..N /\ Cardinality(W(r)) < r
      BY DEF Bad
    <3>4. r # 0
      BY <2>1, <3>3
    <3> DEFINE q == r - 1
    <3>5. q \in 0..(N - 1) /\ q \in 0..N /\ q \notin Bad /\ q + 1 = r
      BY <3>2, <3>3, <3>4
    <3>6. Cardinality(W(q)) >= q
      BY <2>1, <3>5 DEF Bad
    <3>7. W(q) \subseteq W(r) /\ W(q) # W(r)
      BY <2>3, <3>5
    <3>8. Cardinality(W(q)) < Cardinality(W(r))
      <4>1. IsFiniteSet(W(r)) /\ W(q) \in SUBSET W(r)
        BY <2>1, <3>3, <3>7
      <4>2. /\ Cardinality(W(q)) <= Cardinality(W(r))
            /\ Cardinality(W(q)) # Cardinality(W(r))
        BY <3>7, <4>1, FS_Subset
      <4>3. Cardinality(W(q)) \in Nat /\ Cardinality(W(r)) \in Nat
        BY <2>1, <3>3, <3>5
      <4> HIDE DEF q
      <4> QED
        BY <4>2, <4>3
    <3> HIDE DEF q
    <3> QED
      BY <2>1, <3>3, <3>5, <3>6, <3>8
  <2>5. PICK s \in 0..(N - 1) : W(s) = W(s + 1)
    BY <2>4
  <2>6. \A r \in s..(N - 1) : W(r) = W(r + 1)
    <3> DEFINE Bad == {r \in s..(N - 1) : W(r) # W(r + 1)}
    <3> SUFFICES ASSUME Bad # {} PROVE FALSE
      OBVIOUS
    <3>1. Bad \in SUBSET Nat
      OBVIOUS
    <3> HIDE DEF Bad
    <3>2. PICK r \in Bad : \A y \in Bad : r <= y
      BY <3>1, LeastNatural
    <3>3. r \in s..(N - 1) /\ W(r) # W(r + 1)
      BY DEF Bad
    <3>4. r # s
      BY <2>5, <3>3
    <3> DEFINE q == r - 1
    <3>5. q \in s..(N - 1) /\ q \in 0..(N - 1) /\ r \in 0..(N - 1) /\ q \notin Bad /\ q + 1 = r
      BY <3>2, <3>3, <3>4
    <3>6. W(q) = W(r)
      BY <3>5 DEF Bad
    <3> HIDE DEF q
    <3> QED
      BY <2>2, <3>3, <3>5, <3>6
  <2>7. W(N - 1) = W(N)
    <3>1. N - 1 \in s..(N - 1) /\ (N - 1) + 1 = N
      BY <1>2
    <3> QED
      BY <2>6, <3>1
  <2>8. Where(c, Round(k, g[N])) = Where(c, Round(k, g[N - 1]))
    <3>1. Where(c, g[N]) \subseteq Where(c, g[N - 1]) /\ Where(c, g[N - 1]) \subseteq Where(c, g[N])
      BY <2>7 DEF W
    <3>2. /\ Where(c, Round(k, g[N])) \subseteq Where(c, Round(k, g[N - 1]))
          /\ Where(c, Round(k, g[N - 1])) \subseteq Where(c, Round(k, g[N]))
      BY <3>1, RoundMonotone
    <3> QED
      BY <3>2
  <2> QED
    BY <1>1, <1>2, <2>7, <2>8 DEF W
<1>4. g[N] = Round(k, g[N - 1])
  BY <1>1, <1>2
<1>5. \A n \in prog.nodes : Round(k, g[N])[n] = g[N][n]
  <2> SUFFICES ASSUME NEW n \in prog.nodes
               PROVE  \A c : c \in Round(k, g[N])[n] <=> c \in g[N][n]
    OBVIOUS
  <2> QED
    BY <1>3 DEF Where
<1> DEFINE f == g[N]
           h == Round(k, g[N])
<1>6. f = [n \in prog.nodes |-> f[n]] /\ h = [n \in prog.nodes |-> h[n]]
  BY <1>4 DEF Round
<1>7. \A n \in prog.nodes : h[n] = f[n]
  BY <1>5
<1> HIDE DEF f, h
<1>8. h = f
  BY <1>6, <1>7
<1> QED
  BY <1>8 DEF f, h

\* No sweep gets beyond a solution of the equations.
NotBeyond ==
    \A k \in Kinds : \A F : Round(k, F) = F => \A n \in prog.nodes : out[k][n] \subseteq F[n]

LEMMA NotBeyondInit == AInitFW => NotBeyond
  BY DEF AInitFW, StartOnProgram, Start, NoSets, NotBeyond

LEMMA SameRound == ASSUME UNCHANGED <<prog, code>>, NEW k, NEW F PROVE Round(k, F)' = Round(k, F)
  BY DEF Round, TransferFW

LEMMA NotBeyondNext == FixInvFW /\ NotBeyond /\ [NextFW]_analysis => NotBeyond'
<1> SUFFICES ASSUME FixInvFW, NotBeyond, [NextFW]_analysis PROVE NotBeyond'
  OBVIOUS
<1>1. UNCHANGED <<prog, code>>
  BY DEF NextFW, AdvanceFW, VisitFW, Repeat, Finish, CrashFW, analysis
<1> SUFFICES ASSUME NEW k \in Kinds, NEW F, Round(k, F) = F, NEW n \in prog.nodes
             PROVE  out'[k][n] \subseteq F[n]
  BY <1>1, SameRound DEF NotBeyond
<1>2. CASE VisitFW
  <2> DEFINE x == prog.order[pos]
  <2>1. /\ kind \in Kinds /\ x \in prog.nodes /\ x \in InVector(prog)
        /\ In'[kind][x] = InOf(kind, x)
        /\ out'[kind][x] = TransferFW(kind, x, In'[kind][x])
        /\ \A l \in Kinds, m \in prog.nodes :
              l # kind \/ m # x => In'[l][m] = In[l][m] /\ out'[l][m] = out[l][m]
    BY <1>2, VisitEffectFW DEF FixInvFW
  <2>2. CASE k = kind /\ n = x
    <3>1. out'[k][n] = Round(k, out[k])[n]
      <4>1. out'[k][n] = TransferFW(k, n, InOf(k, n))
        BY <2>1, <2>2
      <4>2. InOf(k, n) = IF preds(prog, n) = {} THEN {}
                         ELSE myintersect({out[k][m] : m \in preds(prog, n)})
        BY DEF InOf, FixInvFW, OutsideFW
      <4> QED
        BY <2>1, <2>2, <4>1, <4>2 DEF Round
    <3>2. \A c : Where(c, out[k]) \subseteq Where(c, F)
      BY DEF NotBeyond, Where
    <3>3. \A c : Where(c, Round(k, out[k])) \subseteq Where(c, Round(k, F))
      BY <3>2, RoundMonotone
    <3>4. \A c : c \in Round(k, out[k])[n] => c \in F[n]
      BY <3>3 DEF Where
    <3> QED
      BY <3>1, <3>4
  <2>3. CASE k # kind \/ n # x
    BY <2>1, <2>3 DEF NotBeyond
  <2> QED
    BY <2>2, <2>3
<1>3. CASE Repeat \/ Finish \/ CrashFW \/ UNCHANGED analysis
  BY <1>3 DEF Repeat, Finish, CrashFW, analysis, NotBeyond
<1> QED
  BY <1>2, <1>3 DEF NextFW, AdvanceFW

\* A loop that is over has solved the equations, which no round gets beyond.
LEMMA SolvedIsRounds ==
    ASSUME FixInvFW, NotBeyond, NEW k \in Kinds, Solved(k) PROVE out[k] = Rounds(k)
<1> DEFINE N == 3 * Cardinality(prog.nodes)
<1>1. IsFiniteSet(prog.nodes) /\ prog.entry \in prog.nodes
  BY ProgramsAssumption, VectorOfNodes DEF FixInvFW, Typed, WellFormed
<1>2. N \in Nat /\ N > Cardinality(prog.nodes)
  <2>1. Cardinality(prog.nodes) \in Nat /\ Cardinality(prog.nodes) # 0
    BY <1>1, FS_CardinalityType, FS_EmptySet
  <2> QED
    BY <2>1
<1> HIDE DEF N
<1>3. PICK g : AreRounds(k, g, N) /\ Rounds(k) = g[N]
  BY <1>2, RoundsAre DEF N
<1>4. Round(k, g[N]) = g[N]
  BY <1>1, <1>2, <1>3, RoundsSettle
<1>5. \A n \in prog.nodes : out[k][n] \subseteq g[N][n]
  BY <1>4 DEF NotBeyond
<1>6. \A n \in prog.nodes : Round(k, out[k])[n] = out[k][n]
  <2>1. SolvedAtFW(k)
    BY DEF FixInvFW, FinishedFW
  <2> SUFFICES ASSUME NEW n \in prog.nodes, n \in InVector(prog)
               PROVE  Round(k, out[k])[n] = out[k][n]
    BY <2>1 DEF Round, SolvedAtFW
  <2>2. out[k][n] = TransferFW(k, n, InOf(k, n))
    BY <2>1 DEF SolvedAtFW, SettledFW
  <2>3. InOf(k, n) = IF preds(prog, n) = {} THEN {}
                     ELSE myintersect({out[k][m] : m \in preds(prog, n)})
    BY DEF InOf, FixInvFW, OutsideFW
  <2> QED
    BY <2>2, <2>3 DEF Round
<1>7. g[0] = NoneYet /\ \A r \in 1..N : g[r] = Round(k, g[r - 1])
  BY <1>2, <1>3, RoundsSteps
<1>8. \A r \in 0..N : \A n \in prog.nodes : g[r][n] \subseteq out[k][n]
  <2> DEFINE Inside(r) == \A n \in prog.nodes : g[r][n] \subseteq out[k][n]
             Bad == {r \in 0..N : ~Inside(r)}
  <2> SUFFICES ASSUME Bad # {} PROVE FALSE
    OBVIOUS
  <2>1. Bad \in SUBSET Nat
    BY <1>2
  <2> HIDE DEF Bad
  <2>2. PICK r \in Bad : \A y \in Bad : r <= y
    BY <2>1, LeastNatural
  <2>3. r \in 0..N /\ ~Inside(r)
    BY DEF Bad
  <2>4. r # 0
    BY <1>7, <2>3 DEF NoneYet
  <2>5. r - 1 \in 0..N /\ r - 1 \notin Bad /\ r \in 1..N
    BY <1>2, <2>2, <2>3, <2>4
  <2>6. Inside(r - 1) /\ g[r] = Round(k, g[r - 1])
    BY <1>7, <2>5 DEF Bad
  <2>7. \A c : Where(c, Round(k, g[r - 1])) \subseteq Where(c, Round(k, out[k]))
    <3>1. \A c : Where(c, g[r - 1]) \subseteq Where(c, out[k])
      BY <2>6 DEF Where
    <3> QED
      BY <3>1, RoundMonotone
  <2>8. \A n \in prog.nodes : \A c : c \in g[r][n] => c \in Round(k, out[k])[n]
    BY <2>6, <2>7 DEF Where
  <2> QED
    BY <1>6, <2>3, <2>8
<1> DEFINE f == out[k]
           h == g[N]
<1>9. f = [n \in prog.nodes |-> f[n]] /\ h = [n \in prog.nodes |-> h[n]]
  <2>1. out \in [Kinds -> [prog.nodes -> SUBSET LightCheck(Vars, Int)]]
    BY DEF FixInvFW, Typed, TypeOK
  <2>2. h = Round(k, h)
    BY <1>4
  <2> QED
    BY <2>1, <2>2 DEF Round
<1>10. \A n \in prog.nodes : f[n] = h[n]
  <2>1. N \in 0..N
    BY <1>2
  <2> QED
    BY <1>5, <1>8, <2>1
<1> HIDE DEF f, h
<1>11. f = h
  BY <1>9, <1>10
<1> QED
  BY <1>3, <1>11 DEF f, h

\* The order of the vector makes no difference: the sweeps end in the sets that
\* computing all nodes at once, three rounds for every node, would give.
THEOREM OrderDoesNotMatter == ASpecFW => []OrderIndependent
<1>1. AInv /\ NotBeyond => OrderIndependent
  BY SolvedIsRounds DEF AInv, OrderIndependent
<1>2. AInv /\ NotBeyond /\ [ANextFW]_<<analysis, state>> => NotBeyond'
  <2> SUFFICES ASSUME AInv, NotBeyond, [ANextFW]_<<analysis, state>> PROVE NotBeyond'
    OBVIOUS
  <2>1. [NextFW]_analysis
    BY ExecuteKeeps DEF ANextFW, AnalyseFW
  <2> QED
    BY <2>1, NotBeyondNext DEF AInv
<1> QED
  BY <1>1, <1>2, AInvInit, AInvNext, NotBeyondInit, PTL DEF ASpecFW

-----------------------------------------------------------------------------
(***************************************************************************)
(* The backward analysis is right about every run: where a check that it   *)
(* calls anticipated fails, some check of the function will.               *)
(***************************************************************************)
\* A run starts when the analysis is over.
Launched == status = "ready" \/ kind = "done"

\* As long as the run goes on, the check that failed is to come, on a path
\* that no store repairs.
Owes ==
    /\ status = "ready" => ~owed
    /\ Sound(prog) /\ status = "running" /\ owed => Debt(code, out["max"], node, idx, env, reg)
    /\ AnticipatedFails

DInv == code = prog.code /\ FixInvBW /\ OwnBW /\ Launched /\ Place /\ Owes

-----------------------------------------------------------------------------
LEMMA RunsOwnCode == DInv => RunsCode /\ SameSteps(code) /\ Fewer(code)
  BY ProgramsAssumption DEF DInv, FixInvBW, Shaped, RunsCode, SameSteps, Fewer

LEMMA DInvInit == AInit => DInv
<1> SUFFICES ASSUME AInit PROVE DInv
  OBVIOUS
<1>1. FixInvBW /\ OwnBW /\ Launched /\ code = prog.code
  BY StartsTypedBW, FixInitBW, OwnInitBW DEF AInit, StartOnProgram, Launched, Ready
<1>2. Place
  BY <1>1, ProgramsAssumption, PlaceInit DEF AInit, FixInvBW, Shaped, RunsCode
<1>3. Owes
  BY DEF AInit, Ready, Owes, AnticipatedFails
<1> QED
  BY <1>1, <1>2, <1>3 DEF DInv

LEMMA AnalyseStep == ASSUME DInv, Analyse PROVE DInv'
<1>1. FixInvBW' /\ OwnBW'
  BY FixNextBW, OwnNextBW DEF DInv, Analyse, FixInvBW
<1>2. kind # "done" /\ UNCHANGED <<prog, code>>
  BY DEF Analyse, NextBW, AdvanceBW, VisitBW, Repeat, Finish, CrashBW, Looping, Kinds
<1>3. status = "ready" /\ UNCHANGED <<state, owed>>
  BY <1>2 DEF DInv, Launched, Analyse
<1>4. Launched' /\ Place' /\ Owes'
  BY <1>2, <1>3 DEF DInv, Launched, Place, Owes, AnticipatedFails, state
<1> QED
  BY <1>1, <1>2, <1>4 DEF DInv

\* The steps of the run leave the program and the sets alone.
LEMMA ProceedKeeps ==
    ASSUME DInv, Proceed
    PROVE  /\ UNCHANGED analysis /\ RunsCode /\ SameSteps(code) /\ Fewer(code) /\ Place'
           /\ Anticipates(prog, code, In["max"], out["max"])
           /\ code = prog.code /\ FixInvBW' /\ OwnBW' /\ Launched'
<1>1. RunsCode /\ SameSteps(code) /\ Fewer(code) /\ Anticipates(prog, code, In["max"], out["max"])
  BY RunsOwnCode, DoneAnticipates DEF Proceed, DInv
<1>2. Place' /\ UNCHANGED program
  BY <1>1, PlaceNext DEF Proceed, DInv
<1>3. UNCHANGED analysis /\ kind = "done"
  BY <1>2 DEF Proceed, analysis, program
<1>4. FixInvBW' /\ OwnBW'
  BY <1>3, FixNextBW, OwnNextBW DEF DInv, FixInvBW
<1> QED
  BY <1>1, <1>2, <1>3, <1>4 DEF DInv, Launched, analysis

\* At the beginning of a node a failing check makes a debt.
LEMMA ArrivalOwes ==
    ASSUME DInv, Proceed, Sound(prog), FailsAnticipated, idx' = 1
    PROVE  Debt(code, out["max"], node', idx', env', reg')
<1>1. WellFormed(prog) /\ Fewer(code) /\ Anticipates(prog, code, In["max"], out["max"]) /\ Place'
      /\ prog' = prog
  BY ProceedKeeps DEF RunsCode, analysis
<1>2. PICK c \in In["max"][node'] : ~Passes("max", env'[c.realindex], c)
  BY DEF FailsAnticipated
<1>3. node' \in prog.nodes /\ env' \in [Vars -> Int]
  BY <1>1 DEF Place
<1>4. Beyond(c, env')
  <2>1. c \in Checks(code, "max") /\ "max" \in Kinds /\ code \in [prog.nodes -> Seq(Instrs)]
    BY <1>1, <1>3 DEF Anticipates, Kinds, Fewer, SameSteps
  <2>2. c \in AllChecks
    BY <2>1, OwnCheck
  <2>3. env'[c.realindex] \in Int /\ c.top_limit \in Int
    BY <1>3, <2>2 DEF AllChecks, LightCheck
  <2> QED
    BY <1>2, <2>3 DEF Passes, Beyond
<1> QED
  BY <1>1, <1>3, <1>4, DebtArises DEF Sound

\* A step of a run in debt that goes on leaves it in debt.
LEMMA StepOwes ==
    ASSUME DInv, Proceed, Sound(prog), status = "running", owed, status' = "running"
    PROVE  Debt(code, out["max"], node', idx', env', reg')
<1>1. /\ RunsCode /\ SameSteps(code) /\ Fewer(code) /\ Anticipates(prog, code, In["max"], out["max"])
      /\ Place /\ Debt(code, out["max"], node, idx, env, reg)
  BY ProceedKeeps DEF DInv, Owes
<1>2. out["max"][node] \subseteq Checks(code, "max") /\ out["max"][node] \subseteq AllChecks
  <2>1. out["max"][node] \subseteq Checks(code, "max") /\ "max" \in Kinds
        /\ code \in [prog.nodes -> Seq(Instrs)]
    BY <1>1 DEF Anticipates, Place, Kinds, RunsCode
  <2> QED
    BY <2>1, OwnCheck
<1>3. CASE Load
  BY <1>1, <1>2, <1>3, LoadKeepsDebt DEF Load
<1>4. CASE Store
  BY <1>1, <1>2, <1>4, StoreKeepsDebt DEF Store
<1>5. CASE Check
  <2>1. idx' = idx + 1 /\ UNCHANGED <<node, env, reg>>
    BY <1>5 DEF Check
  <2> QED
    BY <1>1, <1>2, <1>5, <2>1, CheckKeepsDebt
<1>6. CASE Branch
  BY <1>1, <1>6, BranchKeepsDebt DEF Branch, Sound
<1>7. ~Launch /\ ~Undefined /\ ~Return
  BY DEF Launch, Undefined, Return
<1> QED
  BY <1>3, <1>4, <1>5, <1>6, <1>7 DEF Proceed, RunNext

LEMMA ProceedStep == ASSUME DInv, Proceed PROVE DInv'
<1>1. UNCHANGED analysis /\ Place' /\ code = prog.code /\ FixInvBW' /\ OwnBW' /\ Launched'
  BY ProceedKeeps
<1>2. status' # "ready"
  BY DEF Proceed, RunNext, Launch, Load, Store, Undefined, Check, Branch, Return, Running
<1>3. ASSUME Sound(prog), status' = "running", owed'
      PROVE  Debt(code, out["max"], node', idx', env', reg')
  <2>1. CASE idx' = 1 /\ FailsAnticipated
    BY <1>3, <2>1, ArrivalOwes
  <2>2. CASE owed
    <3>1. status = "running"
      BY <1>3, <2>2 DEF DInv, Owes, Proceed, RunNext, Launch, Load, Store, Undefined, Check,
         Branch, Return, Running
    <3> QED
      BY <1>3, <2>2, <3>1, StepOwes
  <2> QED
    BY <1>3, <2>1, <2>2 DEF Proceed
<1>4. ASSUME Sound(prog), status' = "returned" PROVE ~owed'
  <2>1. Return /\ status = "running"
    BY <1>4 DEF Proceed, RunNext, Launch, Load, Store, Undefined, Check, Branch, Return, Running
  <2>2. ~Debt(code, out["max"], node, idx, env, reg)
    BY <1>4, <2>1, ProceedKeeps, NoReturnInDebt DEF DInv, Sound
  <2>3. ~owed
    BY <1>4, <2>1, <2>2 DEF DInv, Owes
  <2> QED
    BY <1>4, <2>3 DEF Proceed
<1>5. Debt(code, out["max"], node, idx, env, reg)' = Debt(code, out["max"], node', idx', env', reg')
  BY <1>1 DEF analysis, Debt, CallToCome, EndToCome
<1>6. Owes'
  BY <1>1, <1>2, <1>3, <1>4, <1>5 DEF Owes, AnticipatedFails, analysis
<1> QED
  BY <1>1, <1>6 DEF DInv, analysis

LEMMA DInvNext == DInv /\ [ANext]_<<analysis, state, owed>> => DInv'
<1> SUFFICES ASSUME DInv, [ANext]_<<analysis, state, owed>> PROVE DInv'
  OBVIOUS
<1>1. CASE Analyse
  BY <1>1, AnalyseStep
<1>2. CASE Proceed
  BY <1>2, ProceedStep
<1>3. CASE UNCHANGED <<analysis, state, owed>>
  <2>1. FixInvBW' /\ OwnBW'
    BY <1>3, FixNextBW, OwnNextBW DEF DInv, FixInvBW
  <2>2. Debt(code, out["max"], node, idx, env, reg)' = Debt(code, out["max"], node, idx, env, reg)
    BY <1>3 DEF analysis, state, Debt, CallToCome, EndToCome, Beyond
  <2> QED
    BY <1>3, <2>1, <2>2 DEF DInv, Launched, Place, Owes, AnticipatedFails, analysis, state
<1> QED
  BY <1>1, <1>2, <1>3 DEF ANext

\* Of a function whose calls test values loaded in their node, where the scan
\* for stores misses none and no path leaves unseen, a run that has been at a
\* node with a variable beyond an anticipated max check never returns, for all
\* graphs, node orders, arrays and values: strengthening a check at the node
\* stops no run that would have ended well.
THEOREM AnticipationIsSound == ASpec => []AnticipatedFails
<1>1. DInv => AnticipatedFails
  BY DEF DInv, Owes
<1> QED
  BY <1>1, DInvInit, DInvNext, PTL DEF ASpec

-----------------------------------------------------------------------------
(***************************************************************************)
(* What the stages make of the instructions.                               *)
(***************************************************************************)
\* One call in place of another: only its limits may differ.
SameTest(i, j) ==
    i.op = "call" /\ j.op = "call" /\ i.kind = j.kind /\ i.tmp = j.tmp /\ i.root = j.root

\* The calls of c are calls of the function, each against a limit that some
\* check of the function has.
Derived(c) ==
    /\ SameSteps(c)
    /\ \A n \in prog.nodes : \A j \in 1..Len(c[n]) :
          c[n][j].op = "call" => SameTest(c[n][j], prog.code[n][j])
    /\ \A k \in Kinds : Checks(c, k) \subseteq Checks(prog.code, k)

\* For each call of the function, c has one on the same variable that is not
\* behind it and is as strong.
StandsFor(c, n, m, j) ==
    /\ isCall(c[n][m], prog.code[n][j].kind)
    /\ c[n][m].root = prog.code[n][j].root /\ c[n][m].top <= prog.code[n][j].top
Standing(c) ==
    \A n \in prog.nodes : \A j \in 1..Len(prog.code[n]) :
        prog.code[n][j].op = "call" => \E m \in 1..j : StandsFor(c, n, m, j)

\* The calls of c are those of L, except for max calls against a check of O.
Justified(c, L, O) ==
    \A n \in prog.nodes : \A j \in 1..Len(c[n]) :
        c[n][j].op = "call" =>
            \/ c[n][j] = L[n][j]
            \/ isCall(c[n][j], "max") /\ CheckOf(c[n][j]) \in O[n]

\* The calls of c are those of M, and any other is covered by a check of I.
Covers(d, i) ==
    /\ d.realindex = i.root
    /\ IF i.kind = "min" THEN i.bottom <= d.bottom_limit ELSE i.top >= d.top_limit
Eliminated(c, M, I) ==
    \A n \in prog.nodes : \A j \in 1..Len(M[n]) :
        M[n][j].op = "call" =>
            \/ c[n][j] = M[n][j]
            \/ c[n][j] = Other /\ \E d \in I[M[n][j].kind][n] : Covers(d, M[n][j])

\* Instructions of a function, at a place.
LEMMA InstrAt ==
    ASSUME WellFormed(prog), NEW c, SameSteps(c), NEW n \in prog.nodes
    PROVE  /\ c[n] \in Seq(Instrs) /\ prog.code[n] \in Seq(Instrs)
           /\ Len(c[n]) = Len(prog.code[n]) /\ Len(c[n]) \in Nat
           /\ DOMAIN c[n] = 1..Len(c[n]) /\ DOMAIN prog.code[n] = 1..Len(c[n])
           /\ \A j \in 1..Len(c[n]) : /\ c[n][j] \in Instrs /\ prog.code[n][j] \in Instrs
                                      /\ c[n][j].op = "call" => c[n][j] \in Calls
                                      /\ prog.code[n][j].op = "call" => prog.code[n][j] \in Calls
<1>1. c[n] \in Seq(Instrs) /\ prog.code[n] \in Seq(Instrs) /\ Len(c[n]) = Len(prog.code[n])
  BY DEF SameSteps, WellFormed
<1>2. \A i \in Instrs : i.op = "call" => i \in Calls
  BY DEF Instrs, Loads, Stores, Calls, Other
<1> QED
  BY <1>1, <1>2

\* The stores of c are those of the function, and so are their effects.
LEMMA SameUntouched ==
    ASSUME WellFormed(prog), NEW c, SameSteps(c), NEW n \in prog.nodes,
           NEW v, NEW S, NEW a \in Nat \ {0}, NEW b \in Int, b <= Len(c[n])
    PROVE  Untouched(c[n], v, S, a, b) <=> Untouched(prog.code[n], v, S, a, b)
<1>1. \A q \in a..b : q \in 1..Len(c[n])
  BY InstrAt
<1>2. \A q \in 1..Len(c[n]) : HasEffect(c[n][q], v, S) <=> HasEffect(prog.code[n][q], v, S)
  BY DEF SameSteps, HasEffect, isStoreTo
<1> QED
  BY <1>1, <1>2 DEF Untouched

LEMMA FewerIsDerived == ASSUME WellFormed(prog), NEW c, Fewer(c) PROVE Derived(c)
<1>0. SameSteps(c)
  BY DEF Fewer
<1>1. ASSUME NEW n \in prog.nodes, NEW j \in 1..Len(c[n]), c[n][j].op = "call"
      PROVE  SameTest(c[n][j], prog.code[n][j])
  BY <1>1 DEF Fewer, SameTest
<1>2. ASSUME NEW k \in Kinds, NEW d \in Checks(c, k) PROVE d \in Checks(prog.code, k)
  <2>1. PICK n \in prog.nodes : \E j \in DOMAIN c[n] : isCall(c[n][j], k) /\ d = CheckOf(c[n][j])
    BY <1>0, CheckOfCall DEF SameSteps
  <2>2. PICK j \in DOMAIN c[n] : isCall(c[n][j], k) /\ d = CheckOf(c[n][j])
    BY <2>1
  <2>3. j \in 1..Len(c[n]) /\ j \in DOMAIN prog.code[n]
    BY <1>0, <2>2, InstrAt
  <2>4. c[n][j] = prog.code[n][j]
    BY <2>2, <2>3 DEF Fewer, isCall
  <2> QED
    BY <2>2, <2>3, <2>4, CallIsOwn DEF WellFormed
<1> QED
  BY <1>0, <1>1, <1>2 DEF Derived

\* Erasing calls leaves instructions of the function.
LEMMA EraseDerived ==
    ASSUME WellFormed(prog), NEW c, Derived(c), NEW d, NEW E,
           d = [n \in DOMAIN c |-> Erase(c[n], E[n])],
           \A n \in prog.nodes : \A j \in E[n] : j \in DOMAIN c[n] => c[n][j].op = "call"
    PROVE  /\ Derived(d) /\ DOMAIN c = prog.nodes
           /\ \A n \in prog.nodes : \A j \in 1..Len(c[n]) :
                 d[n][j] = IF j \in E[n] THEN Other ELSE c[n][j]
<1>0. SameSteps(c) /\ DOMAIN c = prog.nodes
  BY DEF Derived, SameSteps
<1>1. ASSUME NEW n \in prog.nodes
      PROVE  /\ d[n] \in Seq(Instrs) /\ Len(d[n]) = Len(c[n])
             /\ \A j \in 1..Len(c[n]) : d[n][j] = IF j \in E[n] THEN Other ELSE c[n][j]
  <2>1. d[n] = [j \in 1..Len(c[n]) |-> IF j \in E[n] THEN Other ELSE c[n][j]]
    BY <1>0, InstrAt DEF Erase
  <2>2. Len(c[n]) \in Nat /\ \A j \in 1..Len(c[n]) : c[n][j] \in Instrs
    BY <1>0, InstrAt
  <2>3. Other \in Instrs
    BY DEF Instrs
  <2> QED
    BY <2>1, <2>2, <2>3
<1>2. SameSteps(d)
  <2>1. d \in [prog.nodes -> Seq(Instrs)]
    BY <1>0, <1>1
  <2>2. ASSUME NEW n \in prog.nodes, NEW j \in 1..Len(d[n]),
               d[n][j].op \in {"load", "store"} \/ prog.code[n][j].op \in {"load", "store"}
        PROVE  d[n][j] = prog.code[n][j]
    <3>1. j \in 1..Len(c[n]) /\ j \in DOMAIN c[n]
      BY <1>0, <1>1, InstrAt
    <3>2. CASE j \in E[n]
      <4>1. d[n][j].op = "other" /\ c[n][j].op = "call"
        BY <1>1, <3>1, <3>2 DEF Other
      <4>2. prog.code[n][j].op = "call"
        BY <3>1, <4>1 DEF Derived, SameTest
      <4> QED
        BY <2>2, <4>1, <4>2
    <3>3. CASE j \notin E[n]
      BY <1>0, <1>1, <2>2, <3>1, <3>3 DEF SameSteps
    <3> QED
      BY <3>2, <3>3
  <2> QED
    BY <1>0, <1>1, <2>1, <2>2 DEF SameSteps
<1>3. ASSUME NEW n \in prog.nodes, NEW j \in 1..Len(d[n]), d[n][j].op = "call"
      PROVE  d[n][j] = c[n][j] /\ j \in 1..Len(c[n]) /\ c[n][j].op = "call"
  BY <1>1, <1>3 DEF Other
<1>4. ASSUME NEW k \in Kinds, NEW e \in Checks(d, k) PROVE e \in Checks(prog.code, k)
  <2>1. PICK n \in prog.nodes : \E j \in DOMAIN d[n] : isCall(d[n][j], k) /\ e = CheckOf(d[n][j])
    BY <1>2, CheckOfCall DEF SameSteps
  <2>2. PICK j \in DOMAIN d[n] : isCall(d[n][j], k) /\ e = CheckOf(d[n][j])
    BY <2>1
  <2>3. d[n][j] = c[n][j] /\ j \in DOMAIN c[n]
    <3>1. j \in 1..Len(d[n]) /\ d[n][j].op = "call"
      BY <1>2, <2>2, InstrAt DEF isCall
    <3>2. d[n][j] = c[n][j] /\ j \in 1..Len(c[n])
      BY <1>3, <3>1
    <3> QED
      BY <1>0, <3>2, InstrAt
  <2>4. e \in Checks(c, k)
    BY <1>0, <2>2, <2>3, CallIsOwn DEF SameSteps
  <2> QED
    BY <2>4 DEF Derived
<1>5. ASSUME NEW n \in prog.nodes, NEW j \in 1..Len(d[n]), d[n][j].op = "call"
      PROVE  SameTest(d[n][j], prog.code[n][j])
  BY <1>3, <1>5 DEF Derived
<1> QED
  BY <1>0, <1>1, <1>2, <1>4, <1>5 DEF Derived

-----------------------------------------------------------------------------
(***************************************************************************)
(* localopt.                                                               *)
(***************************************************************************)
\* The first of several equal calls is not a repetition.
LEMMA FirstIsKept ==
    ASSUME NEW c \in Seq(Instrs), NEW k, NEW m \in Repeated(c, k)
    PROVE  \E q \in 1..(m - 1) : /\ q \notin Repeated(c, k) /\ q \in DOMAIN c
                                 /\ isCall(c[q], k) /\ CheckOf(c[q]) = CheckOf(c[m])
<1> DEFINE T == {q \in 1..(m - 1) : isCall(c[q], k) /\ CheckOf(c[q]) = CheckOf(c[m])}
<1>1. m \in 1..Len(c) /\ Len(c) \in Nat /\ DOMAIN c = 1..Len(c)
  BY DEF Repeated
<1>2. T # {}
  BY DEF Repeated
<1>3. T \subseteq Int /\ IsFiniteSet(T)
  <2>1. m - 1 \in Int
    BY <1>1
  <2>2. IsFiniteSet(1..(m - 1))
    BY <2>1, FS_Interval
  <2>3. T \in SUBSET (1..(m - 1))
    OBVIOUS
  <2>4. IsFiniteSet(T)
    <3> HIDE DEF T
    <3> QED
      BY <2>2, <2>3, FS_Subset
  <2> QED
    BY <2>1, <2>4
<1>4. Least(T) \in T /\ \A x \in T : Least(T) <= x
  <2> HIDE DEF T
  <2> QED
    BY <1>2, <1>3, LeastOfFinite
<1> DEFINE q == Least(T)
<1>5. q \in 1..(m - 1) /\ isCall(c[q], k) /\ CheckOf(c[q]) = CheckOf(c[m])
  BY <1>4
<1>6. ASSUME q \in Repeated(c, k) PROVE FALSE
  <2>1. PICK r \in 1..(q - 1) : isCall(c[r], k) /\ CheckOf(c[r]) = CheckOf(c[q])
    BY <1>6 DEF Repeated
  <2>2. r \in T /\ ~(q <= r)
    <3> HIDE DEF q
    <3> QED
      BY <1>1, <1>5, <2>1
  <2> QED
    BY <1>4, <2>2
<1>7. q \in DOMAIN c
  <2> HIDE DEF q
  <2> QED
    BY <1>1, <1>5
<1> QED
  BY <1>5, <1>6, <1>7

\* A node is visited: its repetitions are erased, and the first calls stand
\* for them.
LEMMA VisitLocalErases ==
    ASSUME WellFormed(prog), Fewer(code), VisitLocal, prog.order[pos] \in prog.nodes
    PROVE  LET E == [m \in prog.nodes |->
                       IF m = prog.order[pos] THEN Repeated(code[m], kind) ELSE {}]
           IN  /\ code' = [n \in DOMAIN code |-> Erase(code[n], E[n])]
               /\ \A n \in prog.nodes : \A j \in E[n] :
                     /\ j \in DOMAIN code[n] /\ isCall(code[n][j], kind)
                     /\ \E q \in 1..(j - 1) : /\ q \notin E[n] /\ q \in DOMAIN code[n]
                                              /\ isCall(code[n][q], kind)
                                              /\ CheckOf(code[n][q]) = CheckOf(code[n][j])
<1> DEFINE here == prog.order[pos]
           E == [m \in prog.nodes |-> IF m = here THEN Repeated(code[m], kind) ELSE {}]
<1>1. code \in [prog.nodes -> Seq(Instrs)]
  BY DEF Fewer, SameSteps
<1>2. code' = [code EXCEPT ![here] = Erase(code[here], Repeated(code[here], kind))]
  BY DEF VisitLocal
<1>3. ASSUME NEW n \in prog.nodes PROVE code'[n] = Erase(code[n], E[n])
  <2>1. CASE n = here
    BY <1>1, <1>2, <2>1
  <2>2. CASE n # here
    <3>1. code[n] = [l \in DOMAIN code[n] |-> code[n][l]]
      BY <1>1
    <3> QED
      BY <1>1, <1>2, <2>2, <3>1 DEF Erase
  <2> QED
    BY <2>1, <2>2
<1>4. code' = [n \in DOMAIN code |-> Erase(code[n], E[n])]
  BY <1>1, <1>2, <1>3
<1>5. ASSUME NEW n \in prog.nodes, NEW j \in E[n]
      PROVE  /\ j \in DOMAIN code[n] /\ isCall(code[n][j], kind)
             /\ \E q \in 1..(j - 1) : /\ q \notin E[n] /\ q \in DOMAIN code[n]
                                      /\ isCall(code[n][q], kind)
                                      /\ CheckOf(code[n][q]) = CheckOf(code[n][j])
  <2>1. n = here /\ E[n] = Repeated(code[n], kind)
    BY <1>5
  <2>2. j \in DOMAIN code[n] /\ isCall(code[n][j], kind)
    BY <2>1 DEF Repeated
  <2> QED
    BY <1>1, <2>1, <2>2, FirstIsKept
<1> QED
  BY <1>4, <1>5

LEMMA VisitLocalKeeps ==
    ASSUME WellFormed(prog), Fewer(code), Standing(code), VisitLocal, prog.order[pos] \in prog.nodes
    PROVE  Fewer(code') /\ Standing(code')
<1> DEFINE E == [m \in prog.nodes |-> IF m = prog.order[pos] THEN Repeated(code[m], kind) ELSE {}]
<1>1. /\ code' = [n \in DOMAIN code |-> Erase(code[n], E[n])]
      /\ \A n \in prog.nodes : \A j \in E[n] :
            /\ j \in DOMAIN code[n] /\ isCall(code[n][j], kind)
            /\ \E q \in 1..(j - 1) : /\ q \notin E[n] /\ q \in DOMAIN code[n]
                                     /\ isCall(code[n][q], kind)
                                     /\ CheckOf(code[n][q]) = CheckOf(code[n][j])
  BY VisitLocalErases
<1> HIDE DEF E
<1>2. /\ Derived(code')
      /\ \A n \in prog.nodes : \A j \in 1..Len(code[n]) :
            code'[n][j] = IF j \in E[n] THEN Other ELSE code[n][j]
  <2>1. \A n \in prog.nodes : \A j \in E[n] : j \in DOMAIN code[n] => code[n][j].op = "call"
    BY <1>1 DEF isCall
  <2> QED
    BY <1>1, <2>1, FewerIsDerived, EraseDerived
<1>3. Fewer(code')
  <2>1. SameSteps(code') /\ SameSteps(code)
    BY <1>2 DEF Derived, Fewer
  <2>2. ASSUME NEW n \in prog.nodes, NEW j \in 1..Len(code'[n]), code'[n][j].op = "call"
        PROVE  code'[n][j] = prog.code[n][j]
    <3>1. j \in 1..Len(code[n])
      BY <2>1 DEF SameSteps
    <3>2. code'[n][j] = code[n][j]
      BY <1>2, <2>2, <3>1 DEF Other
    <3> QED
      BY <2>2, <3>1, <3>2 DEF Fewer
  <2> QED
    BY <2>1, <2>2 DEF Fewer
<1>4. Standing(code')
  <2> SUFFICES ASSUME NEW n \in prog.nodes, NEW j \in 1..Len(prog.code[n]),
                      prog.code[n][j].op = "call"
               PROVE  \E m \in 1..j : StandsFor(code', n, m, j)
    BY DEF Standing
  <2>1. PICK m \in 1..j : StandsFor(code, n, m, j)
    BY DEF Standing
  <2>2. Len(code[n]) = Len(prog.code[n]) /\ Len(code[n]) \in Nat /\ DOMAIN code[n] = 1..Len(code[n])
    BY InstrAt DEF Fewer
  <2>3. m \in 1..Len(code[n])
    BY <2>2
  <2>4. CASE m \notin E[n]
    <3>1. code'[n][m] = code[n][m]
      BY <1>2, <2>3, <2>4
    <3> QED
      BY <2>1, <3>1 DEF StandsFor
  <2>5. CASE m \in E[n]
    <3>1. PICK q \in 1..(m - 1) : /\ q \notin E[n] /\ q \in DOMAIN code[n]
                                  /\ isCall(code[n][q], kind)
                                  /\ CheckOf(code[n][q]) = CheckOf(code[n][m])
      BY <1>1, <2>5
    <3>2. code'[n][q] = code[n][q] /\ q \in 1..j
      BY <1>2, <2>2, <3>1
    <3>3. isCall(code[n][m], kind)
      BY <1>1, <2>5
    <3>4. StandsFor(code', n, q, j)
      BY <2>1, <3>1, <3>2, <3>3 DEF StandsFor, isCall, CheckOf
    <3> QED
      BY <3>2, <3>4
  <2> QED
    BY <2>4, <2>5
<1> QED
  BY <1>3, <1>4

-----------------------------------------------------------------------------
(***************************************************************************)
(* ModifyMin and ModifyMax.                                                *)
(***************************************************************************)
\* A call that is replaced is a max call, since every bottom is 0, and its new
\* limit is that of a check anticipated.
LEMMA StrengthenedIs ==
    ASSUME NEW K, Alike(K), \A c \in K : c.top_limit \in Nat,
           NEW S \in SUBSET K, NEW i \in Calls
    PROVE  LET s == Strengthened(i, S) IN
           /\ s \in Calls /\ SameTest(s, i) /\ s.top <= i.top
           /\ s = i \/ (isCall(s, "max") /\ CheckOf(s) \in S)
<1> DEFINE T == Stronger(i.kind, i, S)
<1>1. /\ i.op = "call" /\ i.kind \in Kinds /\ i.tmp \in Tmps /\ i.root \in Vars /\ i.bottom = 0
      /\ i.top \in Nat /\ i = [op |-> "call", kind |-> i.kind, tmp |-> i.tmp, root |-> i.root,
                               bottom |-> 0, top |-> i.top]
  BY DEF Calls
<1>2. CASE T = {}
  BY <1>1, <1>2 DEF Strengthened, SameTest
<1>3. CASE T # {}
  <2>1. T \subseteq S /\ \A c \in T : c.realindex = i.root
    BY DEF Stronger, Of
  <2>2. i.kind = "max"
    <3> SUFFICES ASSUME i.kind = "min" PROVE FALSE
      BY <1>1 DEF Kinds
    <3>1. PICK c \in T : i.bottom < c.bottom_limit
      BY <1>3 DEF Stronger
    <3> QED
      BY <1>1, <2>1, <3>1 DEF Alike
  <2>3. \A c \in T : i.top > c.top_limit
    BY <2>2 DEF Stronger
  <2> DEFINE d == Tighten(i.root, T)
             s == [i EXCEPT !.top = d.top_limit]
  <2>4. d \in T
    <3> HIDE DEF T, d
    <3>1. Alike(T)
      BY <2>1, AlikeSubset
    <3> QED
      BY <1>3, <2>1, <3>1, TightenIsOne DEF d
  <2>5. Strengthened(i, S) = s
    BY <1>1, <1>3, <2>2 DEF Strengthened
  <2>6. /\ d \in AllChecks /\ d.bottom_limit = 0 /\ d.top_limit \in Nat
        /\ d.realindex = i.root /\ d.top_limit < i.top /\ d \in S
    <3> HIDE DEF d, T
    <3> QED
      BY <2>1, <2>3, <2>4 DEF Alike
  <2> HIDE DEF d
  <2>7. s = [op |-> "call", kind |-> i.kind, tmp |-> i.tmp, root |-> i.root,
             bottom |-> 0, top |-> d.top_limit]
    BY <1>1
  <2>8. s \in Calls /\ SameTest(s, i) /\ s.top <= i.top
    BY <1>1, <2>6, <2>7 DEF Calls, SameTest
  <2>9. CheckOf(s) = d
    <3>1. CheckOf(s) = [realindex |-> i.root, bottom_limit |-> 0, top_limit |-> d.top_limit]
      BY <2>7 DEF CheckOf
    <3> QED
      BY <2>6, <3>1, CheckIs
  <2> QED
    BY <2>2, <2>5, <2>6, <2>7, <2>8, <2>9 DEF isCall
<1> QED
  BY <1>2, <1>3

LEMMA ModifyIs ==
    ASSUME WellFormed(prog), Derived(code), Modify,
           \A k \in Kinds, n \in prog.nodes : out[k][n] \subseteq Checks(code, k)
    PROVE  /\ code' \in [prog.nodes -> Seq(Instrs)]
           /\ \A n \in prog.nodes :
                 /\ Len(code'[n]) = Len(code[n])
                 /\ \A j \in 1..Len(code[n]) :
                       LET i == code[n][j]
                           s == code'[n][j]
                       IN  /\ i.op # "call" => s = i
                           /\ i.op = "call" =>
                                 /\ SameTest(s, i) /\ s.top <= i.top
                                 /\ s = i \/ (isCall(s, "max") /\ CheckOf(s) \in out["max"][n])
<1>0. SameSteps(code) /\ code \in [prog.nodes -> Seq(Instrs)]
  BY DEF Derived, SameSteps
<1> DEFINE S(n, j) == IF n \in InVector(prog) /\ code[n][j].op = "call"
                      THEN out[code[n][j].kind][n] ELSE {}
<1>1. code' = [n \in prog.nodes |-> [j \in DOMAIN code[n] |-> Strengthened(code[n][j], S(n, j))]]
  BY <1>0 DEF Modify
<1>2. ASSUME NEW n \in prog.nodes, NEW j \in 1..Len(code[n])
      PROVE  LET i == code[n][j]
                 s == Strengthened(i, S(n, j))
             IN  /\ s \in Instrs
                 /\ i.op # "call" => s = i
                 /\ i.op = "call" =>
                       /\ SameTest(s, i) /\ s.top <= i.top
                       /\ s = i \/ (isCall(s, "max") /\ CheckOf(s) \in out["max"][n])
  <2> DEFINE i == code[n][j]
  <2>1. i \in Instrs
    BY <1>0, InstrAt
  <2>2. CASE i.op # "call"
    BY <2>1, <2>2 DEF Strengthened
  <2>3. CASE i.op = "call"
    <3>1. i \in Calls /\ i.kind \in Kinds
      BY <1>0, <2>3, InstrAt DEF Calls
    <3> DEFINE K == Checks(code, i.kind)
    <3>2. Alike(K) /\ \A c \in K : c.top_limit \in Nat
      BY <1>0, <3>1, ChecksAlike, OwnCheck DEF WellFormed
    <3>3. S(n, j) \in SUBSET K /\ S(n, j) \subseteq out[i.kind][n]
      BY <3>1
    <3> HIDE DEF K, S
    <3>4. LET s == Strengthened(i, S(n, j)) IN
          /\ s \in Calls /\ SameTest(s, i) /\ s.top <= i.top
          /\ s = i \/ (isCall(s, "max") /\ CheckOf(s) \in S(n, j))
      BY <3>1, <3>2, <3>3, StrengthenedIs
    <3>5. SameTest(Strengthened(i, S(n, j)), i) /\ isCall(Strengthened(i, S(n, j)), "max")
             => i.kind = "max"
      BY DEF SameTest, isCall
    <3> QED
      BY <2>3, <3>3, <3>4, <3>5 DEF Instrs
  <2> QED
    BY <2>2, <2>3
<1> HIDE DEF S
<1>3. ASSUME NEW n \in prog.nodes
      PROVE  /\ code'[n] = [j \in 1..Len(code[n]) |-> Strengthened(code[n][j], S(n, j))]
             /\ code'[n] \in Seq(Instrs) /\ Len(code'[n]) = Len(code[n])
  <2>1. DOMAIN code[n] = 1..Len(code[n]) /\ Len(code[n]) \in Nat
    BY <1>0, InstrAt
  <2>2. code'[n] = [j \in 1..Len(code[n]) |-> Strengthened(code[n][j], S(n, j))]
    BY <1>1, <2>1
  <2>3. \A j \in 1..Len(code[n]) : Strengthened(code[n][j], S(n, j)) \in Instrs
    BY <1>2
  <2> QED
    BY <2>1, <2>2, <2>3
<1>4. code' \in [prog.nodes -> Seq(Instrs)]
  BY <1>1, <1>3
<1> QED
  BY <1>2, <1>3, <1>4

LEMMA ModifyKeeps ==
    ASSUME WellFormed(prog), Fewer(code), Standing(code), Modify,
           \A k \in Kinds, n \in prog.nodes : out[k][n] \subseteq Checks(code, k)
    PROVE  Derived(code') /\ Standing(code') /\ Justified(code', code, out["max"])
<1>0. Derived(code) /\ SameSteps(code) /\ code \in [prog.nodes -> Seq(Instrs)]
  BY FewerIsDerived DEF Derived, SameSteps
<1>1. code' \in [prog.nodes -> Seq(Instrs)]
  BY <1>0, ModifyIs
<1>2. ASSUME NEW n \in prog.nodes, NEW j \in 1..Len(code[n])
      PROVE  LET i == code[n][j]
                 s == code'[n][j]
             IN  /\ Len(code'[n]) = Len(code[n])
                 /\ i.op # "call" => s = i
                 /\ i.op = "call" =>
                       /\ SameTest(s, i) /\ s.top <= i.top
                       /\ s = i \/ (isCall(s, "max") /\ CheckOf(s) \in out["max"][n])
  BY <1>0, ModifyIs
<1>3. \A n \in prog.nodes : Len(code'[n]) = Len(code[n]) /\ Len(code[n]) = Len(prog.code[n])
  BY <1>0, ModifyIs DEF SameSteps
<1>4. SameSteps(code')
  <2>1. ASSUME NEW n \in prog.nodes, NEW j \in 1..Len(code[n]),
               code'[n][j].op \in {"load", "store"} \/ prog.code[n][j].op \in {"load", "store"}
        PROVE  code'[n][j] = prog.code[n][j]
    <3>1. CASE code[n][j].op # "call"
      BY <1>0, <1>2, <2>1, <3>1 DEF SameSteps
    <3>2. CASE code[n][j].op = "call"
      <4>1. code'[n][j].op = "call" /\ prog.code[n][j].op = "call"
        BY <1>0, <1>2, <3>2 DEF SameTest, Derived
      <4> QED
        BY <2>1, <4>1
    <3> QED
      BY <3>1, <3>2
  <2> QED
    BY <1>1, <1>3, <2>1 DEF SameSteps
<1>5. ASSUME NEW n \in prog.nodes, NEW j \in 1..Len(code'[n]), code'[n][j].op = "call"
      PROVE  /\ j \in 1..Len(code[n]) /\ code[n][j].op = "call"
             /\ SameTest(code'[n][j], code[n][j]) /\ SameTest(code[n][j], prog.code[n][j])
  <2>1. j \in 1..Len(code[n])
    BY <1>3
  <2>2. code[n][j].op = "call"
    BY <1>2, <1>5, <2>1
  <2> QED
    BY <1>0, <1>2, <2>1, <2>2 DEF Derived
<1>6. ASSUME NEW k \in Kinds, NEW d \in Checks(code', k) PROVE d \in Checks(prog.code, k)
  <2>1. PICK n \in prog.nodes :
           \E j \in DOMAIN code'[n] : isCall(code'[n][j], k) /\ d = CheckOf(code'[n][j])
    BY <1>1, CheckOfCall
  <2>2. PICK j \in DOMAIN code'[n] : isCall(code'[n][j], k) /\ d = CheckOf(code'[n][j])
    BY <2>1
  <2>3. j \in 1..Len(code'[n]) /\ code'[n][j].op = "call"
    BY <1>1, <2>2 DEF isCall
  <2>4. j \in 1..Len(code[n]) /\ j \in DOMAIN code[n] /\ SameTest(code'[n][j], code[n][j])
        /\ code[n][j].op = "call"
    BY <1>0, <1>5, <2>3
  <2>5. d \in Checks(code, k)
    <3>1. CASE code'[n][j] = code[n][j]
      BY <1>0, <2>2, <2>4, <3>1, CallIsOwn
    <3>2. CASE isCall(code'[n][j], "max") /\ CheckOf(code'[n][j]) \in out["max"][n]
      BY <2>2, <3>2 DEF isCall
    <3> QED
      BY <1>2, <2>4, <3>1, <3>2
  <2> QED
    BY <1>0, <2>5 DEF Derived
<1>7. Derived(code')
  <2>1. \A n \in prog.nodes : \A j \in 1..Len(code'[n]) :
          code'[n][j].op = "call" => SameTest(code'[n][j], prog.code[n][j])
    BY <1>5 DEF SameTest
  <2> QED
    BY <1>4, <1>6, <2>1 DEF Derived
<1>8. Standing(code')
  <2> SUFFICES ASSUME NEW n \in prog.nodes, NEW j \in 1..Len(prog.code[n]),
                      prog.code[n][j].op = "call"
               PROVE  \E m \in 1..j : StandsFor(code', n, m, j)
    BY DEF Standing
  <2>1. PICK m \in 1..j : StandsFor(code, n, m, j)
    BY DEF Standing
  <2>2. m \in 1..Len(code[n]) /\ j \in 1..Len(code[n])
    BY <1>0, InstrAt
  <2>3. SameTest(code'[n][m], code[n][m]) /\ code'[n][m].top <= code[n][m].top
        /\ code[n][m].op = "call"
    BY <1>2, <2>1, <2>2 DEF StandsFor, isCall
  <2>4. code'[n][m] \in Calls /\ code[n][m] \in Calls /\ prog.code[n][j] \in Calls
    BY <1>0, <1>3, <1>4, <2>2, <2>3, InstrAt DEF SameTest
  <2>5. StandsFor(code', n, m, j)
    BY <2>1, <2>3, <2>4 DEF StandsFor, SameTest, isCall, Calls
  <2> QED
    BY <2>5
<1>9. Justified(code', code, out["max"])
  <2> SUFFICES ASSUME NEW n \in prog.nodes, NEW j \in 1..Len(code'[n]), code'[n][j].op = "call"
               PROVE  \/ code'[n][j] = code[n][j]
                      \/ isCall(code'[n][j], "max") /\ CheckOf(code'[n][j]) \in out["max"][n]
    BY DEF Justified
  <2> QED
    BY <1>2, <1>5
<1> QED
  BY <1>7, <1>8, <1>9

-----------------------------------------------------------------------------
(***************************************************************************)
(* EliminateRedundanteMin and EliminateRedundanteMax.                      *)
(***************************************************************************)
LEMMA EliminateKeeps ==
    ASSUME WellFormed(prog), Derived(code), Eliminate
    PROVE  /\ Derived(code') /\ Eliminated(code', code, In)
           /\ \A n \in prog.nodes : \A j \in 1..Len(code'[n]) :
                 code'[n][j].op = "call" => j \in 1..Len(code[n]) /\ code'[n][j] = code[n][j]
<1> DEFINE E == [n \in prog.nodes |-> CoveredPlaces(n)]
<1>0. SameSteps(code) /\ code \in [prog.nodes -> Seq(Instrs)]
  BY DEF Derived, SameSteps
<1>1. code' = [n \in DOMAIN code |-> Erase(code[n], E[n])]
  BY <1>0 DEF Eliminate
<1>2. \A n \in prog.nodes : \A j \in E[n] : /\ j \in DOMAIN code[n] /\ code[n][j].op = "call"
                                             /\ Covering(n, code[n][j]) # {}
  BY DEF CoveredPlaces
<1> HIDE DEF E
<1>3. /\ Derived(code')
      /\ \A n \in prog.nodes : \A j \in 1..Len(code[n]) :
            code'[n][j] = IF j \in E[n] THEN Other ELSE code[n][j]
  BY <1>1, <1>2, EraseDerived
<1>4. Eliminated(code', code, In)
  <2> SUFFICES ASSUME NEW n \in prog.nodes, NEW j \in 1..Len(code[n]), code[n][j].op = "call",
                      code'[n][j] # code[n][j]
               PROVE  code'[n][j] = Other /\ \E d \in In[code[n][j].kind][n] : Covers(d, code[n][j])
    BY DEF Eliminated
  <2>1. j \in E[n] /\ code'[n][j] = Other
    BY <1>3
  <2>2. PICK d \in Covering(n, code[n][j]) : TRUE
    BY <1>2, <2>1
  <2>3. d \in In[code[n][j].kind][n] /\ Covers(d, code[n][j])
    BY <2>2 DEF Covering, Of, Covers
  <2> QED
    BY <2>1, <2>3
<1>5. ASSUME NEW n \in prog.nodes, NEW j \in 1..Len(code'[n]), code'[n][j].op = "call"
      PROVE  j \in 1..Len(code[n]) /\ code'[n][j] = code[n][j]
  <2>1. j \in 1..Len(code[n])
    BY <1>0, <1>3 DEF Derived, SameSteps
  <2> QED
    BY <1>3, <1>5, <2>1 DEF Other
<1> QED
  BY <1>3, <1>4, <1>5

-----------------------------------------------------------------------------
(***************************************************************************)
(* No violation is missed: as long as no call that is left has failed,     *)
(* each check that the analysis found available holds, and so does each    *)
(* check that M, the code that was analysed, makes in the node.            *)
(***************************************************************************)
HeldIn(I, n, i, e, r) ==
    \A k \in Kinds : \A d \in I[k][n] : Holding(k, d, 0, n, i, e, r)
Made(M, n, i, e, r) ==
    \A j \in 1..(i - 1) : \A l \in 1..(j - 1) :
        M[n][j].op = "call" /\ Loaded(prog.code[n], l, j)
            => Holding(M[n][j].kind, CheckOf(M[n][j]), l, n, i, e, r)

\* What holds of a loaded value held of the variable behind the load.
Carried(n, i, e, r) ==
    \A k \in Kinds, c \in AllChecks : \A l \in 1..(i - 1) :
        LET d == prog.code[n][l] IN
        Solid(c) /\ Kept(prog.code[n], l, i) /\ d.var = c.realindex /\ Passes(k, r[d.tmp], c)
            => Holding(k, c, l, n, i, e, r)
Assured(M, I, n, i, e, r) ==
    HeldIn(I, n, i, e, r) /\ Made(M, n, i, e, r) /\ Carried(n, i, e, r)

\* The checks of a function without empty arrays.
LEMMA ChecksSolid ==
    ASSUME WellFormed(prog), NonEmptyArrays(prog), NEW k \in Kinds,
           NEW c \in Checks(prog.code, k)
    PROVE  Solid(c)
<1>1. prog.code \in [prog.nodes -> Seq(Instrs)]
  BY DEF WellFormed
<1>2. PICK n \in prog.nodes :
         \E j \in DOMAIN prog.code[n] : isCall(prog.code[n][j], k) /\ c = CheckOf(prog.code[n][j])
  BY <1>1, CheckOfCall
<1>3. c.top_limit > 0
  BY <1>2 DEF isCall, CheckOf, NonEmptyArrays
<1> QED
  BY <1>1, <1>3, OwnCheck DEF Solid

\* A call of M, the call of the function that it stands at, and its load.
LEMMA CallSolid ==
    ASSUME WellFormed(prog), NonEmptyArrays(prog), NEW M, Derived(M), NEW n \in prog.nodes,
           NEW j \in 1..Len(M[n]), M[n][j].op = "call"
    PROVE  LET i == M[n][j]
               s == prog.code[n][j]
           IN  /\ i \in Calls /\ i.kind \in Kinds /\ i.bottom = 0
               /\ Solid(CheckOf(i)) /\ CheckOf(i).realindex = i.root
               /\ s \in Calls /\ SameTest(i, s) /\ j \in DOMAIN prog.code[n]
               /\ CheckOf(i) \in Checks(M, i.kind)
<1>1. SameSteps(M) /\ M \in [prog.nodes -> Seq(Instrs)]
  BY DEF Derived, SameSteps
<1>2. M[n][j] \in Calls /\ SameTest(M[n][j], prog.code[n][j])
  BY <1>1, InstrAt DEF Derived
<1>3. prog.code[n][j] \in Calls /\ j \in DOMAIN prog.code[n] /\ j \in DOMAIN M[n]
  BY <1>1, <1>2, InstrAt DEF SameTest
<1>4. M[n][j].kind \in Kinds /\ M[n][j].bottom = 0
  BY <1>2 DEF Calls
<1>5. CheckOf(M[n][j]) \in Checks(M, M[n][j].kind)
  BY <1>1, <1>3, <1>4, CallIsOwn DEF isCall
<1>6. Solid(CheckOf(M[n][j]))
  BY <1>4, <1>5, ChecksSolid DEF Derived
<1> QED
  BY <1>2, <1>3, <1>4, <1>5, <1>6 DEF CheckOf

LEMMA LoadedIsKept ==
    ASSUME WellFormed(prog), NEW n \in prog.nodes, NEW j \in DOMAIN prog.code[n],
           NEW l \in 1..(j - 1), Loaded(prog.code[n], l, j)
    PROVE  /\ Kept(prog.code[n], l, j)
           /\ prog.code[n][l].tmp = prog.code[n][j].tmp
            /\ prog.code[n][l].var = prog.code[n][j].root
  BY DEF Loaded, load, Kept

\* A value that passes a check passes the calls that it covers.
LEMMA CoveredPasses ==
    ASSUME NEW i \in Calls, NEW d \in AllChecks, Covers(d, i), NEW x \in Int, Passes(i.kind, x, d)
    PROVE  Passes(i.kind, x, CheckOf(i))
  BY DEF Calls, Kinds, AllChecks, LightCheck, Covers, Passes, CheckOf

\* The register that a call tests passes the call of M at the place, whether
\* that is still there or was covered.
LEMMA CallPasses ==
    ASSUME RunsCode, Place, SameSteps(code), Erasable(prog), Check,
           NEW M, NEW I, NEW O, Derived(M), Avails(prog, M, I, O), Eliminated(code, M, I),
           HeldIn(I, node, idx, env, reg), ~Fails(code[node][idx]),
           M[node][idx].op = "call"
    PROVE  LET i == M[node][idx] IN Passes(i.kind, reg[i.tmp], CheckOf(i))
<1> DEFINE i == M[node][idx]
           s == prog.code[node][idx]
           P == prog.code[node]
<1>0. WellFormed(prog) /\ NonEmptyArrays(prog) /\ LoadedHere(prog) /\ ChecksFirst(prog)
  BY DEF RunsCode, Erasable
<1>1. node \in prog.nodes /\ idx \in 1..Len(M[node]) /\ idx \in DOMAIN P /\ idx \in Int
  <2>1. node \in prog.nodes /\ idx \in 1..Len(code[node]) /\ idx \in Int
    BY CurrentInstr DEF Check, Place
  <2>2. Len(code[node]) = Len(P) /\ Len(M[node]) = Len(P) /\ DOMAIN P = 1..Len(M[node])
    BY <1>0, <2>1, InstrAt DEF SameSteps, Derived
  <2> QED
    BY <2>1, <2>2
<1>2. /\ i \in Calls /\ i.kind \in Kinds /\ s.op = "call" /\ SameTest(i, s)
      /\ reg[i.tmp] \in Int
  <2>1. i \in Calls /\ i.kind \in Kinds /\ SameTest(i, s)
    BY <1>0, <1>1, CallSolid
  <2> QED
    BY <2>1 DEF SameTest, Calls, Place
<1>3. CASE code[node][idx] = i
  BY <1>2, <1>3 DEF Fails
<1>4. CASE code[node][idx] = Other /\ \E d \in I[i.kind][node] : Covers(d, i)
  <2>1. PICK d \in I[i.kind][node] : Covers(d, i)
    BY <1>4
  <2>2. d \in AllChecks
    BY <1>0, <1>1, <1>2, ChecksSolid DEF Avails, Derived, Solid
  <2>3. PICK l \in 1..(idx - 1) : Loaded(P, l, idx)
    BY <1>1, <1>2 DEF LoadedHere, Erasable
  <2>4. Kept(P, l, idx) /\ P[l].tmp = i.tmp /\ P[l].var = d.realindex
    BY <1>0, <1>1, <1>2, <2>1, <2>3, LoadedIsKept DEF SameTest, Covers
  <2>5. Untouched(P, s.root, Spoils(s.kind), 1, idx - 1)
    BY <1>0, <1>1, <1>2 DEF ChecksFirst
  <2>6. Untouched(P, d.realindex, Spoils(i.kind), 0 + 1, l)
    BY <1>1, <1>2, <2>1, <2>5 DEF SameTest, Covers, Untouched
  <2>7. Holding(i.kind, d, 0, node, idx, env, reg)
    BY <1>2, <2>1 DEF HeldIn
  <2>8. Passes(i.kind, reg[i.tmp], d)
    BY <1>1, <2>3, <2>4, <2>6, <2>7 DEF Holding
  <2> QED
    BY <1>2, <2>1, <2>2, <2>8, CoveredPasses
<1> QED
  BY <1>1, <1>2, <1>3, <1>4 DEF Eliminated

\* Inside a node the run stays assured.
LEMMA HeldInStays ==
    ASSUME RunsCode, Place, SameSteps(code), Erasable(prog),
           Load \/ Store \/ (Check /\ status' = "running"),
           NEW M, NEW I, NEW O, Derived(M), Avails(prog, M, I, O),
           HeldIn(I, node, idx, env, reg)
    PROVE  HeldIn(I, node, idx + 1, env', reg')
<1> SUFFICES ASSUME NEW k \in Kinds, NEW d \in I[k][node]
             PROVE  Holding(k, d, 0, node, idx + 1, env', reg')
  BY DEF HeldIn
<1>1. node \in prog.nodes /\ idx \in 1..Len(prog.code[node])
  BY StepInNode
<1>2. Solid(d)
  BY <1>1, ChecksSolid DEF Avails, Derived, RunsCode, Erasable
<1>3. 0 \in 0..(idx - 1)
  BY <1>1
<1> QED
  BY <1>2, <1>3, HoldingStays DEF HeldIn, Erasable

LEMMA CarriedStays ==
    ASSUME RunsCode, Place, SameSteps(code), Erasable(prog),
           Load \/ Store \/ (Check /\ status' = "running"), Carried(node, idx, env, reg)
    PROVE  Carried(node, idx + 1, env', reg')
<1> DEFINE P == prog.code[node]
<1> SUFFICES ASSUME NEW k \in Kinds, NEW c \in AllChecks, NEW l \in 1..((idx + 1) - 1),
                    Solid(c), Kept(P, l, idx + 1), P[l].var = c.realindex,
                    Passes(k, reg'[P[l].tmp], c)
             PROVE  Holding(k, c, l, node, idx + 1, env', reg')
  BY DEF Carried
<1>1. /\ node \in prog.nodes /\ P \in Seq(Instrs) /\ Len(P) \in Nat
      /\ idx \in 1..Len(P) /\ idx \in Int /\ l \in 1..idx
  BY StepInNode
<1>2. P[l] \in Loads /\ P[l].op = "load" /\ P[l].tmp \in Tmps
  <2>1. P[l] \in Instrs /\ P[l].op = "load"
    BY <1>1 DEF Kept
  <2> QED
    BY <2>1 DEF Instrs, Loads, Stores, Calls, Other
<1>3. CASE l = idx
  <2>1. Load
    <3>1. code[node][idx] = P[idx]
      BY <1>1, <1>2, <1>3 DEF SameSteps
    <3>2. code[node][idx].op = "load"
      BY <1>2, <1>3, <3>1
    <3> QED
      BY <1>2, <1>3, <3>2 DEF Store, Check
  <2> QED
    BY <1>3, <2>1, HoldingBegins
<1>4. CASE l # idx
  <2>1. l \in 1..(idx - 1) /\ idx \in (l + 1)..((idx + 1) - 1) /\ l \in 0..(idx - 1)
    BY <1>1, <1>4
  <2>2. Kept(P, l, idx) /\ ~isLoadInto(P[idx], P[l].tmp)
    BY <1>1, <2>1 DEF Kept
  <2>3. reg'[P[l].tmp] = reg[P[l].tmp]
    BY <1>2, <2>2, StepInNode DEF isLoadInto, Place
  <2>4. Holding(k, c, l, node, idx, env, reg)
    BY <2>1, <2>2, <2>3 DEF Carried
  <2> QED
    BY <2>1, <2>4, HoldingStays DEF Erasable
<1> QED
  BY <1>3, <1>4

LEMMA MadeStays ==
    ASSUME RunsCode, Place, SameSteps(code), Erasable(prog),
           Load \/ Store \/ (Check /\ status' = "running"), trapped' = FALSE,
           NEW M, NEW I, NEW O, Derived(M), Avails(prog, M, I, O), Eliminated(code, M, I),
           Assured(M, I, node, idx, env, reg)
    PROVE  Made(M, node, idx + 1, env', reg')
<1> DEFINE P == prog.code[node]
<1> SUFFICES ASSUME NEW j \in 1..((idx + 1) - 1), NEW l \in 1..(j - 1),
                    M[node][j].op = "call", Loaded(P, l, j)
             PROVE  Holding(M[node][j].kind, CheckOf(M[node][j]), l, node, idx + 1, env', reg')
  BY DEF Made
<1> DEFINE i == M[node][j]
<1>1. /\ node \in prog.nodes /\ Len(P) \in Nat /\ idx \in 1..Len(P) /\ idx \in Int
      /\ j \in 1..idx /\ j \in Int /\ l \in 0..(idx - 1) /\ l \in 1..(idx - 1)
  BY StepInNode
<1>2. Len(M[node]) = Len(P) /\ WellFormed(prog) /\ NonEmptyArrays(prog)
  BY <1>1 DEF Derived, SameSteps, RunsCode, Erasable
<1>3. /\ i \in Calls /\ i.kind \in Kinds /\ Solid(CheckOf(i)) /\ CheckOf(i).realindex = i.root
      /\ SameTest(i, P[j]) /\ j \in DOMAIN P
  <2>1. j \in 1..Len(M[node])
    BY <1>1, <1>2
  <2> QED
    BY <1>1, <1>2, <2>1, CallSolid
<1>4. CASE j = idx
  <2>1. Check
    <3>1. P[idx].op = "call"
      BY <1>3, <1>4 DEF SameTest
    <3>2. code[node][idx].op \in {"load", "store"} => code[node][idx] = P[idx]
      BY <1>1 DEF SameSteps
    <3> QED
      BY <3>1, <3>2 DEF Load, Store
  <2>2. ~Fails(code[node][idx])
    BY <2>1 DEF Check
  <2>3. Passes(i.kind, reg[i.tmp], CheckOf(i))
    BY <1>4, <2>1, <2>2, CallPasses DEF Assured
  <2>4. Kept(P, l, idx) /\ P[l].tmp = i.tmp /\ P[l].var = i.root
    BY <1>1, <1>2, <1>3, <1>4, LoadedIsKept DEF SameTest
  <2>5. CheckOf(i) \in AllChecks
    BY <1>3 DEF Solid
  <2>6. Holding(i.kind, CheckOf(i), l, node, idx, env, reg)
    BY <1>1, <1>3, <2>3, <2>4, <2>5 DEF Assured, Carried
  <2> QED
    BY <1>1, <1>3, <2>6, HoldingStays DEF Erasable
<1>5. CASE j # idx
  <2>1. j \in 1..(idx - 1)
    BY <1>1, <1>5
  <2>2. Holding(i.kind, CheckOf(i), l, node, idx, env, reg)
    BY <2>1 DEF Assured, Made
  <2> QED
    BY <1>1, <1>3, <2>2, HoldingStays DEF Erasable
<1> QED
  BY <1>4, <1>5

LEMMA AssuredStays ==
    ASSUME RunsCode, Place, SameSteps(code), Erasable(prog),
           Load \/ Store \/ (Check /\ status' = "running"), trapped' = FALSE,
           NEW M, NEW I, NEW O, Derived(M), Avails(prog, M, I, O), Eliminated(code, M, I),
           Assured(M, I, node, idx, env, reg)
    PROVE  Assured(M, I, node, idx + 1, env', reg')
  BY HeldInStays, CarriedStays, MadeStays DEF Assured

\* On an edge of the graph what is available at the end of a node holds.
LEMMA AssuredOnEdge ==
    ASSUME RunsCode, Place, SameSteps(code), Erasable(prog), Branch,
           NEW M, NEW I, NEW O, Derived(M), Avails(prog, M, I, O),
           Assured(M, I, node, idx, env, reg)
    PROVE  Assured(M, I, node', 1, env, reg)
<1> DEFINE P == prog.code[node]
<1>0. /\ WellFormed(prog) /\ NonEmptyArrays(prog) /\ LoadedHere(prog) /\ ChecksFirst(prog)
      /\ SameSteps(M) /\ M \in [prog.nodes -> Seq(Instrs)]
  BY DEF RunsCode, Erasable, Derived, SameSteps
<1>1. /\ node \in prog.nodes /\ node' \in prog.nodes /\ node' \in prog.succs[node]
      /\ idx = Len(P) + 1 /\ Len(P) \in Nat /\ Len(M[node]) = Len(P) /\ DOMAIN M[node] = 1..Len(P)
  <2>1. node \in prog.nodes /\ idx = Len(code[node]) + 1 /\ node' \in prog.nodes
        /\ node' \in prog.succs[node]
    BY BranchEffect DEF Place
  <2> QED
    BY <1>0, <2>1, InstrAt DEF SameSteps
<1>2. ASSUME NEW k \in Kinds, NEW d \in I[k][node'] PROVE Passes(k, env[d.realindex], d)
  <2>1. node \in preds(prog, node')
    BY <1>1 DEF preds
  <2>2. I[k][node'] = myintersect({O[k][m] : m \in preds(prog, node')})
    BY <1>1, <1>2, <2>1 DEF Avails
  <2>3. d \in O[k][node]
    BY <2>1, <2>2 DEF myintersect
  <2>4. O[k][node] = myunion(mysubtract2(I[k][node], init_kill(M, node, k)), init_gen(M[node], k))
    BY <1>1, <2>3 DEF Avails
  <2>5. CASE d \in init_gen(M[node], k)
    <3>1. PICK j \in DOMAIN M[node] :
             /\ d = CheckOf(M[node][j]) /\ isCall(M[node][j], k)
             /\ Untouched(M[node], M[node][j].root, Spoils(k), j, Len(M[node]))
      BY <2>5 DEF init_gen
    <3> DEFINE i == M[node][j]
               s == P[j]
    <3>2. j \in 1..Len(P) /\ j \in Nat \ {0} /\ j \in 1..(idx - 1)
          /\ i.op = "call" /\ i.kind = k /\ d.realindex = i.root
      BY <1>1, <3>1 DEF isCall, CheckOf
    <3>3. s.op = "call" /\ SameTest(i, s) /\ j \in DOMAIN P
      BY <1>0, <1>1, <3>2, CallSolid DEF SameTest
    <3>4. Untouched(P, i.root, Spoils(k), j, Len(P))
      <4>1. Len(P) \in Int /\ Len(P) <= Len(M[node]) /\ j \in Nat \ {0}
        BY <1>1, <3>2
      <4> HIDE DEF P, i
      <4> QED
        BY <1>0, <1>1, <3>1, <4>1, SameUntouched DEF P, i
    <3>5. Untouched(P, i.root, Spoils(k), 1, j - 1)
      BY <1>0, <1>1, <3>2, <3>3 DEF ChecksFirst, SameTest
    <3>6. PICK l \in 1..(j - 1) : Loaded(P, l, j)
      BY <1>0, <1>1, <3>3 DEF LoadedHere
    <3>7. Untouched(P, d.realindex, Spoils(k), l + 1, idx - 1)
      BY <1>1, <3>2, <3>4, <3>5, <3>6 DEF Untouched
    <3>8. Holding(k, d, l, node, idx, env, reg)
      BY <3>1, <3>2, <3>6 DEF Assured, Made
    <3> QED
      BY <3>7, <3>8 DEF Holding
  <2>6. CASE d \in I[k][node] /\ d.realindex \notin Roots(init_kill(M, node, k))
    <3>1. d.realindex \in Checked(M, k)
      BY <1>1, <2>6 DEF Avails, Checked, Roots
    <3>2. \A q \in DOMAIN M[node] : ~HasEffect(M[node][q], d.realindex, Spoils(k))
      <4> SUFFICES ASSUME NEW q \in DOMAIN M[node], HasEffect(M[node][q], d.realindex, Spoils(k))
                   PROVE  FALSE
        OBVIOUS
      <4> DEFINE killed == [realindex |-> d.realindex, bottom_limit |-> 0, top_limit |-> 0]
      <4>1. killed \in init_kill(M, node, k)
        BY <3>1 DEF init_kill, KillSet
      <4>2. killed.realindex \in Roots(init_kill(M, node, k))
        BY <4>1 DEF Roots
      <4> QED
        BY <2>6, <4>2
    <3>3. Untouched(M[node], d.realindex, Spoils(k), 1, Len(P))
      BY <1>1, <3>2 DEF Untouched
    <3>4. Untouched(P, d.realindex, Spoils(k), 1, Len(P))
      <4>1. Len(P) \in Int /\ Len(P) <= Len(M[node]) /\ 1 \in Nat \ {0}
        BY <1>1
      <4> QED
        BY <1>0, <1>1, <3>3, <4>1, SameUntouched
    <3>5. Untouched(P, d.realindex, Spoils(k), 0 + 1, idx - 1)
      BY <1>1, <3>4 DEF Untouched
    <3>6. Holding(k, d, 0, node, idx, env, reg)
      BY <2>6 DEF Assured, HeldIn
    <3> QED
      BY <3>5, <3>6 DEF Holding
  <2> QED
    BY <2>3, <2>4, <2>5, <2>6 DEF myunion, mysubtract2
<1>3. HeldIn(I, node', 1, env, reg)
  BY <1>2, HoldingAtBeginning DEF HeldIn
<1>4. Made(M, node', 1, env, reg) /\ Carried(node', 1, env, reg)
  BY DEF Made, Carried
<1> QED
  BY <1>3, <1>4 DEF Assured

LEMMA AssuredAtEntry ==
    ASSUME WellFormed(prog), NEW M, NEW I, NEW O, Avails(prog, M, I, O), NEW e, NEW r
    PROVE  Assured(M, I, prog.entry, 1, e, r)
<1>1. \A k \in Kinds : I[k][prog.entry] = {}
  BY EntryIsNode DEF WellFormed, Avails
<1> QED
  BY <1>1 DEF Assured, HeldIn, Made, Carried

\* A check of the function that fails is not missed: the call that stands for
\* it fails now, or would have failed before.
LEMMA ViolationTraps ==
    ASSUME RunsCode, Place, SameSteps(code), Erasable(prog), Check, Fails(prog.code[node][idx]),
           NEW M, NEW I, NEW O, Derived(M), Standing(M), Avails(prog, M, I, O),
           Eliminated(code, M, I), Assured(M, I, node, idx, env, reg)
    PROVE  Fails(code[node][idx])
<1> DEFINE P == prog.code[node]
           s == P[idx]
<1> SUFFICES ASSUME ~Fails(code[node][idx]) PROVE FALSE
  OBVIOUS
<1>0. /\ WellFormed(prog) /\ NonEmptyArrays(prog) /\ LoadedHere(prog) /\ ChecksFirst(prog)
      /\ LoadsInOrder(prog) /\ SameSteps(M)
  BY DEF RunsCode, Erasable, Derived
<1>1. /\ node \in prog.nodes /\ idx \in 1..Len(P) /\ Len(P) \in Nat /\ idx \in DOMAIN P
      /\ idx \in Int /\ Len(M[node]) = Len(P)
  <2>1. node \in prog.nodes /\ idx \in 1..Len(code[node]) /\ idx \in Int
    BY CurrentInstr DEF Check, Place
  <2> QED
    BY <1>0, <2>1, InstrAt DEF SameSteps
<1>2. /\ s.op = "call" /\ s \in Calls /\ ~Passes(s.kind, reg[s.tmp], CheckOf(s))
      /\ reg[s.tmp] \in Int
  <2>1. s.op = "call" /\ ~Passes(s.kind, reg[s.tmp], CheckOf(s))
    BY DEF Fails
  <2>2. s \in Calls
    BY <1>0, <1>1, <2>1, InstrAt
  <2> QED
    BY <2>1, <2>2 DEF Calls, Place
<1>3. PICK m \in 1..idx : StandsFor(M, node, m, idx)
  BY <1>1, <1>2 DEF Standing
<1> DEFINE i == M[node][m]
<1>4. m \in 1..Len(M[node]) /\ i.op = "call" /\ i.kind = s.kind /\ i.root = s.root /\ i.top <= s.top
  BY <1>1, <1>3 DEF StandsFor, isCall
<1>5. /\ i \in Calls /\ SameTest(i, P[m]) /\ m \in DOMAIN P /\ Solid(CheckOf(i))
      /\ CheckOf(i).realindex = i.root
  BY <1>0, <1>1, <1>4, CallSolid
<1>6. CheckOf(i) \in AllChecks /\ Covers(CheckOf(i), s)
  BY <1>2, <1>4, <1>5 DEF Calls, CheckOf, Covers, Solid
<1>7. ~Passes(s.kind, reg[s.tmp], CheckOf(i))
  BY <1>2, <1>6, CoveredPasses
<1>8. CASE m = idx
  <2>1. Passes(i.kind, reg[i.tmp], CheckOf(i))
    BY <1>4, <1>8, CallPasses DEF Assured
  <2> QED
    BY <1>4, <1>5, <1>7, <1>8, <2>1 DEF SameTest
<1>9. CASE m # idx
  <2>1. m \in 1..(idx - 1)
    BY <1>1, <1>9
  <2>2. PICK l \in 1..(idx - 1) : Loaded(P, l, idx)
    BY <1>0, <1>1, <1>2 DEF LoadedHere
  <2>3. PICK q \in 1..(m - 1) : Loaded(P, q, m)
    BY <1>0, <1>1, <1>5 DEF LoadedHere, SameTest
  <2>4. q <= l
    BY <1>0, <1>1, <1>2, <1>4, <1>5, <2>1, <2>2, <2>3 DEF LoadsInOrder, SameTest, isCall
  <2>5. Holding(i.kind, CheckOf(i), q, node, idx, env, reg)
    BY <1>4, <2>1, <2>3 DEF Assured, Made
  <2>6. Kept(P, l, idx) /\ P[l].tmp = s.tmp /\ P[l].var = s.root
    BY <1>0, <1>1, <2>2, LoadedIsKept
  <2>7. Untouched(P, s.root, Spoils(s.kind), 1, idx - 1)
    BY <1>0, <1>1, <1>2 DEF ChecksFirst
  <2>8. Untouched(P, CheckOf(i).realindex, Spoils(i.kind), q + 1, l)
    <3>1. q \in Nat /\ l \in Nat /\ l <= idx - 1 /\ idx \in Int
      BY <1>1, <2>1, <2>2, <2>3
    <3>2. \A k \in (q + 1)..l : k \in 1..(idx - 1)
      BY <3>1
    <3>3. Untouched(P, s.root, Spoils(s.kind), q + 1, l)
      <4> HIDE DEF P, s
      <4> QED
        BY <2>7, <3>2 DEF Untouched
    <3>4. CheckOf(i).realindex = s.root /\ Spoils(i.kind) = Spoils(s.kind)
      BY <1>4, <1>5
    <3> QED
      BY <3>3, <3>4
  <2>9. Passes(i.kind, reg[P[l].tmp], CheckOf(i))
    BY <1>4, <1>5, <2>2, <2>4, <2>5, <2>6, <2>8 DEF Holding
  <2> QED
    BY <1>4, <1>7, <2>6, <2>9
<1> QED
  BY <1>8, <1>9

-----------------------------------------------------------------------------
(***************************************************************************)
(* No call stops a run that would have ended well: a strengthened call     *)
(* that fails, of a value that its variable still has, shows that a check  *)
(* anticipated at the end of the node fails, which puts the run in debt.   *)
(***************************************************************************)
LEMMA TrapOwes ==
    ASSUME RunsCode, Place, SameSteps(code), Derived(code), Strengthenable(prog), Fresh,
           Check, status' = "running", Fails(code[node][idx]),
           NEW L, NEW O, Fewer(L), Justified(code, L, O), O[node] \subseteq AllChecks
    PROVE  EndToCome(L, O, node, idx + 1, env)
<1> DEFINE P == prog.code[node]
           i == code[node][idx]
           s == P[idx]
           d == CheckOf(i)
<1>0. WellFormed(prog) /\ SameSteps(L) /\ FreshLoads(prog) /\ ChecksLast(prog)
  BY DEF RunsCode, Fewer, Strengthenable
<1>1. /\ node \in prog.nodes /\ idx \in 1..Len(code[node]) /\ idx \in 1..Len(P) /\ idx \in Int
      /\ idx \in DOMAIN P /\ Len(P) \in Nat /\ Len(L[node]) = Len(P) /\ idx \in 1..Len(L[node])
  <2>1. node \in prog.nodes /\ idx \in 1..Len(code[node]) /\ idx \in Int
    BY CurrentInstr DEF Check, Place
  <2> QED
    BY <1>0, <2>1, InstrAt DEF SameSteps
<1>2. /\ i.op = "call" /\ SameTest(i, s) /\ s.op = "call" /\ i \in Calls
      /\ ~Passes(i.kind, reg[i.tmp], d) /\ reg[i.tmp] \in Int
  <2>1. i.op = "call" /\ ~Passes(i.kind, reg[i.tmp], d)
    BY DEF Fails
  <2>2. SameTest(i, s) /\ i \in Calls
    BY <1>0, <1>1, <2>1, InstrAt DEF Derived
  <2> QED
    BY <2>1, <2>2 DEF SameTest, Calls, Place
<1>3. ~Fails(s)
  BY DEF Check
<1>4. i # L[node][idx]
  <2> SUFFICES ASSUME i = L[node][idx] PROVE FALSE
    OBVIOUS
  <2>1. i = s
    BY <1>1, <1>2 DEF Fewer
  <2> QED
    BY <1>2, <1>3, <2>1 DEF Fails
<1>5. isCall(i, "max") /\ d \in O[node]
  BY <1>1, <1>2, <1>4 DEF Justified
<1>6. reg[i.tmp] = env[i.root]
  BY <1>0, <1>2, CallIsFresh DEF SameTest
<1>7. Beyond(d, env)
  <2>1. d.realindex = i.root /\ d.top_limit = i.top /\ i.top \in Int
    BY <1>2 DEF CheckOf, Calls
  <2> QED
    BY <1>2, <1>5, <1>6, <2>1 DEF isCall, Passes, Beyond
<1>8. Untouched(P, s.root, Repairs("max"), idx + 1, Len(P))
  BY <1>0, <1>1, <1>2, <1>5 DEF ChecksLast, SameTest, isCall
<1>9. Untouched(L[node], d.realindex, Repairs("max"), idx + 1, Len(L[node]))
  <2>1. d.realindex = s.root
    BY <1>2 DEF CheckOf, SameTest
  <2>2. idx + 1 \in Nat \ {0} /\ Len(L[node]) \in Int /\ Len(L[node]) <= Len(L[node])
    BY <1>1
  <2> HIDE DEF P, d, s
  <2> QED
    BY <1>0, <1>1, <1>8, <2>1, <2>2, SameUntouched DEF P
<1> QED
  BY <1>5, <1>7, <1>9 DEF EndToCome

Owing(L, O) ==
    Strengthenable(prog) =>
        /\ status = "running" => /\ Fresh
                                 /\ trapped => Debt(L, O, node, idx, env, reg)
        /\ status = "returned" => ~trapped

\* A run in debt stays in it, and a run that is not returns with every call
\* passed.
LEMMA OwingStays ==
    ASSUME RunsCode, Place, SameSteps(code), Derived(code), RunNext,
           status = "ready" => ~trapped,
           NEW L, NEW I, NEW O, Fewer(L), Anticipates(prog, L, I, O), Justified(code, L, O),
           Owing(L, O)
    PROVE  Owing(L, O)'
<1> SUFFICES ASSUME Strengthenable(prog)
             PROVE  /\ status' = "running" => /\ Fresh'
                                              /\ trapped' => Debt(L, O, node', idx', env', reg')
                    /\ status' = "returned" => ~trapped'
  <2>1. UNCHANGED program
    BY PlaceNext
  <2>2. Debt(L, O, node, idx, env, reg)' <=> Debt(L, O, node', idx', env', reg')
    BY <2>1 DEF program, Debt, CallToCome, EndToCome
  <2> QED
    BY <2>1, <2>2 DEF Owing, program
<1>0. /\ FreshLoads(prog) /\ ScanComplete(prog) /\ NoHiddenReturn(prog) /\ LoadedHere(prog)
      /\ O[node] \subseteq Checks(L, "max") /\ O[node] \subseteq AllChecks
  <2>1. O[node] \subseteq Checks(L, "max") /\ L \in [prog.nodes -> Seq(Instrs)] /\ "max" \in Kinds
    BY DEF Anticipates, Place, Fewer, SameSteps, Kinds
  <2>2. LoadedHere(prog)
    BY DEF Strengthenable, FreshLoads, LoadedHere
  <2> QED
    BY <2>1, <2>2, OwnCheck DEF Strengthenable
<1>1. CASE Launch
  BY <1>1 DEF Launch, Fresh, Place
<1>2. CASE Load
  <2>1. /\ Running /\ status' = status /\ node' = node /\ idx' = idx + 1 /\ env' = env
        /\ trapped' = trapped /\ Fresh /\ (trapped => Debt(L, O, node, idx, env, reg))
    BY <1>2 DEF Load, Owing, Running
  <2> QED
    BY <1>0, <1>2, <2>1, FreshStays, LoadKeepsDebt DEF Running
<1>3. CASE Store
  <2>1. /\ Running /\ status' = status /\ node' = node /\ idx' = idx + 1 /\ reg' = reg
        /\ trapped' = trapped /\ Fresh /\ (trapped => Debt(L, O, node, idx, env, reg))
    BY <1>3 DEF Store, Owing, Running
  <2> QED
    BY <1>0, <1>3, <2>1, FreshStays, StoreKeepsDebt DEF Running
<1>4. CASE Check
  <2>1. /\ Running /\ node' = node /\ env' = env /\ reg' = reg
        /\ trapped' = (trapped \/ Fails(code[node][idx]))
        /\ Fresh /\ (trapped => Debt(L, O, node, idx, env, reg))
    BY <1>4 DEF Check, Owing, Running
  <2>2. CASE status' = "running"
    <3>1. idx' = idx + 1 /\ Fresh'
      BY <1>4, <2>1, <2>2, FreshStays DEF Check
    <3>2. trapped => Debt(L, O, node, idx + 1, env, reg)
      BY <1>0, <1>4, <2>1, <2>2, CheckKeepsDebt
    <3>3. Fails(code[node][idx]) => EndToCome(L, O, node, idx + 1, env)
      BY <1>0, <1>4, <2>1, <2>2, TrapOwes
    <3> QED
      BY <2>1, <2>2, <3>1, <3>2, <3>3 DEF Debt
  <2>3. status' # "running" => status' = "violated"
    BY <1>4 DEF Check, Running
  <2> QED
    BY <2>2, <2>3
<1>5. CASE Branch
  <2>1. /\ Running /\ status' = status /\ idx' = 1 /\ env' = env /\ reg' = reg
        /\ trapped' = trapped /\ (trapped => Debt(L, O, node, idx, env, reg))
    BY <1>5 DEF Branch, Owing, Running
  <2>2. Fresh'
    BY <2>1 DEF Fresh
  <2> QED
    BY <1>0, <1>5, <2>1, <2>2, BranchKeepsDebt DEF Running
<1>6. CASE Undefined
  BY <1>6 DEF Undefined
<1>7. CASE Return
  <2>1. status' = "returned" /\ trapped' = trapped /\ (trapped => Debt(L, O, node, idx, env, reg))
    BY <1>7 DEF Return, Owing, Running
  <2>2. ~Debt(L, O, node, idx, env, reg)
    BY <1>0, <1>7, NoReturnInDebt
  <2> QED
    BY <2>1, <2>2
<1> QED
  BY <1>1, <1>2, <1>3, <1>4, <1>5, <1>6, <1>7 DEF RunNext

\* The same of the runs that no call that is left has stopped.
Unmissed(M, I) ==
    Erasable(prog) /\ ~trapped =>
        /\ status = "running" => Assured(M, I, node, idx, env, reg)
        /\ status # "violated"

LEMMA UnmissedStays ==
    ASSUME RunsCode, Place, SameSteps(code), RunNext, trapped \in BOOLEAN,
           NEW M, NEW I, NEW O, Derived(M), Standing(M), Avails(prog, M, I, O),
           Eliminated(code, M, I), Unmissed(M, I)
    PROVE  Unmissed(M, I)'
<1> SUFFICES ASSUME Erasable(prog), ~trapped'
             PROVE  /\ status' = "running" => Assured(M, I, node', idx', env', reg')
                    /\ status' # "violated"
  <2>1. UNCHANGED program
    BY PlaceNext
  <2>2. Assured(M, I, node, idx, env, reg)' <=> Assured(M, I, node', idx', env', reg')
    BY <2>1 DEF program, Assured, HeldIn, Made, Carried, Holding
  <2> QED
    BY <2>1, <2>2 DEF Unmissed, program
<1>0. ~trapped /\ (status = "running" => Assured(M, I, node, idx, env, reg))
  BY DEF Unmissed, RunNext, Launch, Load, Store, Undefined, Check, Branch, Return
<1>1. CASE Launch
  <2>1. node' = prog.entry /\ idx' = 1
    BY <1>1 DEF Launch, Place
  <2> QED
    BY <1>1, <2>1, AssuredAtEntry DEF Launch, RunsCode
<1>2. CASE Load
  <2>1. Running /\ status' = status /\ node' = node /\ idx' = idx + 1 /\ trapped' = FALSE
    BY <1>0, <1>2 DEF Load
  <2> QED
    BY <1>0, <1>2, <2>1, AssuredStays DEF Running
<1>3. CASE Store
  <2>1. Running /\ status' = status /\ node' = node /\ idx' = idx + 1 /\ trapped' = FALSE
    BY <1>0, <1>3 DEF Store
  <2> QED
    BY <1>0, <1>3, <2>1, AssuredStays DEF Running
<1>4. CASE Check
  <2>1. Running /\ node' = node /\ ~Fails(code[node][idx])
    BY <1>4 DEF Check
  <2>2. ~Fails(prog.code[node][idx])
    BY <1>0, <1>4, <2>1, ViolationTraps DEF Running
  <2>3. status' = "running" /\ idx' = idx + 1 /\ trapped' = FALSE
    BY <1>0, <1>4, <2>1, <2>2 DEF Check, Running
  <2> QED
    BY <1>0, <1>4, <2>1, <2>3, AssuredStays DEF Running
<1>5. CASE Branch
  <2>1. Running /\ status' = status /\ idx' = 1 /\ env' = env /\ reg' = reg
    BY <1>5 DEF Branch
  <2> QED
    BY <1>0, <1>5, <2>1, AssuredOnEdge DEF Running
<1>6. CASE Undefined \/ Return
  BY <1>6 DEF Undefined, Return
<1> QED
  BY <1>1, <1>2, <1>3, <1>4, <1>5, <1>6 DEF RunNext

-----------------------------------------------------------------------------
(***************************************************************************)
(* The stages.                                                             *)
(***************************************************************************)
InLocal == Fewer(code) /\ Standing(code) /\ pos \in 1..(Len(prog.order) + 1)
InBackward == Fewer(code) /\ Standing(code) /\ FixInvBW /\ OwnBW
InForward ==
    /\ Standing(code) /\ FixInvFW /\ OwnFW
    /\ \E L, I, O : Fewer(L) /\ Anticipates(prog, L, I, O) /\ Justified(code, L, O)
InDone ==
    /\ \E M, I, O : /\ Derived(M) /\ Standing(M) /\ Avails(prog, M, I, O)
                    /\ Eliminated(code, M, I) /\ Unmissed(M, I)
    /\ \E L, I, O : /\ Fewer(L) /\ Anticipates(prog, L, I, O)
                    /\ Justified(code, L, O) /\ Owing(L, O)

GInv ==
    /\ prog \in Programs /\ Derived(code) /\ Place /\ trapped \in BOOLEAN
    /\ stage \in {"local", "backward", "forward", "done"}
    /\ stage # "done" => status = "ready"
    /\ status = "ready" => ~trapped
    /\ stage = "local" => InLocal
    /\ stage = "backward" => InBackward
    /\ stage = "forward" => InForward
    /\ stage = "done" => InDone

LEMMA GInvShape ==
    ASSUME GInv
    PROVE  /\ WellFormed(prog) /\ RunsCode /\ SameSteps(code)
           /\ code \in [prog.nodes -> Seq(Instrs)]
  BY ProgramsAssumption DEF GInv, Derived, SameSteps, RunsCode

\* The pass does not move a run that has not begun.
LEMMA PlaceKept ==
    ASSUME WellFormed(prog), SameSteps(code), SameSteps(code'), Place, UNCHANGED <<prog, state>>
    PROVE  Place'
<1>1. node \in prog.nodes
  BY DEF Place
<1>2. Len(code'[node]) = Len(code[node])
  BY <1>1 DEF SameSteps
<1> QED
  BY <1>2 DEF Place, state

LEMMA StartsBW ==
    (prog \in Programs /\ code \in [prog.nodes -> Seq(Instrs)] /\ Start => FixInvBW /\ OwnBW)'
  BY FixInitBW, OwnInitBW, PTL
LEMMA StartsFW ==
    (prog \in Programs /\ code \in [prog.nodes -> Seq(Instrs)] /\ Start => FixInvFW /\ OwnFW)'
  BY FixInitFW, OwnInitFW, PTL

LEMMA LeaveStarts ==
    ASSUME GInv, NEW s, NEW next, Leave(s, next), Derived(code')
    PROVE  /\ Start' /\ prog' = prog /\ prog' \in Programs
           /\ code' \in [prog'.nodes -> Seq(Instrs)]
           /\ stage = s /\ stage' = next /\ kind = "done" /\ UNCHANGED state
  BY DEF GInv, Leave, Reset, Start, Derived, SameSteps

\* What is said of the instructions depends on the function only.
LEMMA SamePrime ==
    ASSUME prog' = prog
    PROVE  /\ Derived(code)' <=> Derived(code')
           /\ Standing(code)' <=> Standing(code')
           /\ Fewer(code)' <=> Fewer(code')
  BY DEF Derived, Standing, StandsFor, Fewer, SameSteps

LEMMA GInvInit == ASSUME Init PROVE GInv
<1>1. prog \in Programs /\ code = prog.code /\ WellFormed(prog) /\ Ready(prog) /\ pos = 1
  BY ProgramsAssumption DEF Init, StartOnProgram, Start
<1>2. Fewer(code) /\ code \in [prog.nodes -> Seq(Instrs)]
  BY <1>1 DEF Fewer, SameSteps, WellFormed
<1>3. Derived(code)
  BY <1>1, <1>2, FewerIsDerived
<1>4. Standing(code)
  <2> SUFFICES ASSUME NEW n \in prog.nodes, NEW j \in 1..Len(prog.code[n]),
                      prog.code[n][j].op = "call"
               PROVE  \E m \in 1..j : StandsFor(code, n, m, j)
    BY DEF Standing
  <2>1. prog.code[n][j] \in Calls /\ Len(code[n]) \in Nat
    BY <1>1, <1>2, InstrAt DEF Fewer
  <2>2. StandsFor(code, n, j, j) /\ j \in 1..j
    BY <1>1, <2>1 DEF StandsFor, isCall, Calls
  <2> QED
    BY <2>2
<1>5. Place
  BY <1>1, <1>2, PlaceInit DEF RunsCode
<1>6. pos \in 1..(Len(prog.order) + 1)
  BY <1>1, VectorOfNodes
<1> QED
  BY <1>1, <1>2, <1>3, <1>4, <1>5, <1>6 DEF Init, Ready, GInv, InLocal

LEMMA LocalStep == ASSUME GInv, LocalStage PROVE GInv'
<1>1. /\ WellFormed(prog) /\ SameSteps(code) /\ Place /\ InLocal /\ stage' = "local"
      /\ UNCHANGED <<prog, state>>
  BY GInvShape DEF GInv, LocalStage, NextLocal, VisitLocal, FinishLocal, CrashLocal
<1>2. Len(prog.order) \in Nat /\ \A q \in 1..Len(prog.order) : prog.order[q] \in prog.nodes
  BY <1>1, VectorOfNodes
<1>3. Fewer(code') /\ Standing(code') /\ pos' \in 1..(Len(prog.order) + 1)
  <2>1. CASE VisitLocal
    <3>1. pos' \in 1..(Len(prog.order) + 1) /\ prog.order[pos] \in prog.nodes
      BY <1>1, <1>2, <2>1 DEF VisitLocal, InLocal
    <3> QED
      BY <1>1, <2>1, <3>1, VisitLocalKeeps DEF InLocal
  <2>2. CASE FinishLocal \/ CrashLocal
    BY <1>1, <1>2, <2>2 DEF FinishLocal, CrashLocal, InLocal
  <2> QED
    BY <2>1, <2>2 DEF LocalStage, NextLocal
<1>4. Derived(code') /\ SameSteps(code')
  BY <1>1, <1>3, FewerIsDerived DEF Derived
<1>5. Place'
  BY <1>1, <1>4, PlaceKept
<1>6. InLocal' /\ Derived(code)'
  BY <1>1, <1>3, <1>4, SamePrime DEF InLocal
<1> QED
  BY <1>1, <1>5, <1>6 DEF GInv, state, LocalStage

LEMMA StartBackwardStep == ASSUME GInv, StartBackward PROVE GInv'
<1>1. /\ WellFormed(prog) /\ SameSteps(code) /\ Place /\ InLocal /\ code' = code
      /\ Derived(code') /\ Leave("local", "backward")
  BY GInvShape DEF GInv, StartBackward, Leave
<1>2. /\ Start' /\ prog' = prog /\ prog' \in Programs /\ code' \in [prog'.nodes -> Seq(Instrs)]
      /\ stage' = "backward" /\ UNCHANGED state
  BY <1>1, LeaveStarts
<1>3. FixInvBW' /\ OwnBW'
  BY <1>2, StartsBW
<1>4. InBackward' /\ Derived(code)' /\ Place'
  BY <1>1, <1>2, <1>3, SamePrime, PlaceKept DEF InBackward, InLocal
<1> QED
  BY <1>1, <1>2, <1>4 DEF GInv, state, StartBackward, Leave

LEMMA BackwardStep == ASSUME GInv, BackwardStage PROVE GInv'
<1>1. /\ WellFormed(prog) /\ SameSteps(code) /\ Place /\ InBackward /\ stage' = "backward"
      /\ UNCHANGED <<prog, code, state>>
  BY GInvShape DEF GInv, BackwardStage, NextBW, AdvanceBW, VisitBW, Repeat, Finish, CrashBW
<1>2. FixInvBW' /\ OwnBW'
  BY <1>1, FixNextBW, OwnNextBW DEF InBackward, BackwardStage, FixInvBW
<1>3. InBackward' /\ Derived(code)' /\ Place'
  BY <1>1, <1>2, SamePrime, PlaceKept DEF InBackward, GInv
<1> QED
  BY <1>1, <1>3 DEF GInv, state, BackwardStage

LEMMA ModifyStep == ASSUME GInv, Modify PROVE GInv'
<1>1. /\ WellFormed(prog) /\ SameSteps(code) /\ Place /\ InBackward
      /\ Leave("backward", "forward") /\ kind = "done"
  BY GInvShape DEF GInv, Modify, Leave
<1>2. Derived(code') /\ Standing(code') /\ Justified(code', code, out["max"])
  BY <1>1, ModifyKeeps DEF InBackward, OwnBW
<1>3. /\ Start' /\ prog' = prog /\ prog' \in Programs /\ code' \in [prog'.nodes -> Seq(Instrs)]
      /\ stage' = "forward" /\ UNCHANGED state
  BY <1>1, <1>2, LeaveStarts
<1>4. FixInvFW' /\ OwnFW'
  BY <1>3, StartsFW
<1>5. Anticipates(prog, code, In["max"], out["max"]) /\ Fewer(code)
  BY <1>1, DoneAnticipates DEF InBackward
<1>6. (\E L, I, O : Fewer(L) /\ Anticipates(prog, L, I, O) /\ Justified(code, L, O))'
  <2>1. \E L, I, O : Fewer(L) /\ Anticipates(prog, L, I, O) /\ Justified(code', L, O)
    BY <1>2, <1>5
  <2>2. PICK L, I, O : Fewer(L) /\ Anticipates(prog, L, I, O) /\ Justified(code', L, O)
    BY <2>1
  <2>3. Fewer(L)' /\ Anticipates(prog, L, I, O)' /\ Justified(code, L, O)'
    BY <1>3, <2>2 DEF Fewer, SameSteps, Justified
  <2> QED
    BY <2>3
<1>7. InForward' /\ Derived(code)' /\ Place'
  BY <1>1, <1>2, <1>3, <1>4, <1>6, SamePrime, PlaceKept DEF InForward, Derived
<1> QED
  BY <1>3, <1>7 DEF GInv, state, Modify, Leave

LEMMA ForwardStep == ASSUME GInv, ForwardStage PROVE GInv'
<1>1. /\ WellFormed(prog) /\ SameSteps(code) /\ Place /\ InForward /\ stage' = "forward"
      /\ UNCHANGED <<prog, code, state>>
  BY GInvShape DEF GInv, ForwardStage, NextFW, AdvanceFW, VisitFW, Repeat, Finish, CrashFW
<1>2. FixInvFW' /\ OwnFW'
  BY <1>1, FixNextFW, OwnNextFW DEF InForward, ForwardStage, FixInvFW
<1>3. PICK L, I, O : Fewer(L) /\ Anticipates(prog, L, I, O) /\ Justified(code, L, O)
  BY <1>1 DEF InForward
<1>4. Fewer(L)' /\ Anticipates(prog, L, I, O)' /\ Justified(code, L, O)'
  BY <1>1, <1>3 DEF Fewer, SameSteps, Justified
<1>5. InForward' /\ Derived(code)' /\ Place'
  BY <1>1, <1>2, <1>4, SamePrime, PlaceKept DEF InForward, GInv
<1> QED
  BY <1>1, <1>5 DEF GInv, state, ForwardStage

LEMMA EliminateStep == ASSUME GInv, Eliminate PROVE GInv'
<1>1. /\ WellFormed(prog) /\ SameSteps(code) /\ Place /\ InForward /\ Derived(code)
      /\ Leave("forward", "done") /\ kind = "done" /\ status = "ready" /\ ~trapped
  BY GInvShape DEF GInv, Eliminate, Leave
<1>2. /\ Derived(code') /\ Eliminated(code', code, In)
      /\ \A n \in prog.nodes : \A j \in 1..Len(code'[n]) :
            code'[n][j].op = "call" => j \in 1..Len(code[n]) /\ code'[n][j] = code[n][j]
  BY <1>1, EliminateKeeps
<1>3. prog' = prog /\ prog' \in Programs /\ stage' = "done" /\ UNCHANGED state
  BY <1>1, <1>2, LeaveStarts
<1>4. Avails(prog, code, In, out)
  BY <1>1, DoneAvails DEF InForward
<1>5. PICK L, I, O : Fewer(L) /\ Anticipates(prog, L, I, O) /\ Justified(code, L, O)
  BY <1>1 DEF InForward
<1>6. Justified(code', L, O)
  BY <1>2, <1>5 DEF Justified
<1>7. Fewer(L)' /\ Anticipates(prog, L, I, O)' /\ Justified(code, L, O)' /\ Owing(L, O)'
  <2>1. Fewer(L)' /\ Anticipates(prog, L, I, O)' /\ Justified(code, L, O)'
    BY <1>3, <1>5, <1>6 DEF Fewer, SameSteps, Justified
  <2>2. Owing(L, O)'
    BY <1>1, <1>3 DEF Owing, state
  <2> QED
    BY <2>1, <2>2
<1>8. \E M, J, U : /\ Derived(M) /\ Standing(M) /\ Avails(prog, M, J, U)
                   /\ Eliminated(code', M, J)
  BY <1>1, <1>2, <1>4 DEF InForward
<1>9. PICK M, J, U : /\ Derived(M) /\ Standing(M) /\ Avails(prog, M, J, U)
                     /\ Eliminated(code', M, J)
  BY <1>8
<1>10. /\ Derived(M)' /\ Standing(M)' /\ Avails(prog, M, J, U)'
       /\ Eliminated(code, M, J)' /\ Unmissed(M, J)'
  <2>1. Derived(M)' /\ Standing(M)' /\ Avails(prog, M, J, U)' /\ Eliminated(code, M, J)'
    BY <1>3, <1>9 DEF Derived, SameSteps, Standing, StandsFor, Eliminated
  <2>2. Unmissed(M, J)'
    BY <1>1, <1>3 DEF Unmissed, state
  <2> QED
    BY <2>1, <2>2
<1>11. InDone' /\ Derived(code)' /\ Place'
  BY <1>1, <1>2, <1>3, <1>7, <1>10, SamePrime, PlaceKept DEF InDone, Derived
<1> QED
  BY <1>1, <1>3, <1>11 DEF GInv, state

LEMMA ExecuteStep == ASSUME GInv, Execute PROVE GInv'
<1>1. /\ RunsCode /\ SameSteps(code) /\ Derived(code) /\ Place /\ InDone /\ RunNext
      /\ stage' = "done" /\ trapped \in BOOLEAN /\ (status = "ready" => ~trapped)
  BY GInvShape DEF GInv, Execute
<1>2. Place' /\ prog' = prog /\ code' = code
  BY <1>1, PlaceNext DEF program
<1>3. trapped' \in BOOLEAN /\ status' # "ready"
  BY <1>1 DEF RunNext, Launch, Load, Store, Undefined, Check, Branch, Return, Running
<1>4. PICK M, I, O : /\ Derived(M) /\ Standing(M) /\ Avails(prog, M, I, O)
                     /\ Eliminated(code, M, I) /\ Unmissed(M, I)
  BY <1>1 DEF InDone
<1>5. /\ Derived(M)' /\ Standing(M)' /\ Avails(prog, M, I, O)'
      /\ Eliminated(code, M, I)' /\ Unmissed(M, I)'
  <2>1. Derived(M)' /\ Standing(M)' /\ Avails(prog, M, I, O)' /\ Eliminated(code, M, I)'
    BY <1>2, <1>4 DEF Derived, SameSteps, Standing, StandsFor, Eliminated
  <2>2. Unmissed(M, I)'
    BY <1>1, <1>4, UnmissedStays
  <2> QED
    BY <2>1, <2>2
<1>6. PICK L, J, U : /\ Fewer(L) /\ Anticipates(prog, L, J, U)
                     /\ Justified(code, L, U) /\ Owing(L, U)
  BY <1>1 DEF InDone
<1>7. Fewer(L)' /\ Anticipates(prog, L, J, U)' /\ Justified(code, L, U)' /\ Owing(L, U)'
  <2>1. Fewer(L)' /\ Anticipates(prog, L, J, U)' /\ Justified(code, L, U)'
    BY <1>2, <1>6 DEF Fewer, SameSteps, Justified
  <2>2. Owing(L, U)'
    BY <1>1, <1>6, OwingStays
  <2> QED
    BY <2>1, <2>2
<1>8. InDone' /\ Derived(code)'
  BY <1>1, <1>2, <1>5, <1>7, SamePrime DEF InDone
<1> QED
  BY <1>1, <1>2, <1>3, <1>8 DEF GInv

LEMMA GInvNext == GInv /\ [Next]_vars => GInv'
<1> SUFFICES ASSUME GInv, [Next]_vars PROVE GInv'
  OBVIOUS
<1>1. CASE UNCHANGED vars
  <2>1. UNCHANGED <<prog, code, stage, kind, pos, changed, In, out, crashed, state>>
        /\ UNCHANGED <<status, node, idx, env, reg, trapped>>
    BY <1>1 DEF vars, loop, state
  <2>2. InLocal' <=> InLocal
    BY <2>1 DEF InLocal, Fewer, SameSteps, Standing, StandsFor
  <2>3. stage = "backward" => InBackward'
    <3>1. stage = "backward" => FixInvBW' /\ OwnBW'
      BY <2>1, FixNextBW, OwnNextBW DEF GInv, InBackward, FixInvBW, analysis
    <3> QED
      BY <2>1, <3>1, SamePrime DEF GInv, InBackward
  <2>4. stage = "forward" => InForward'
    <3> SUFFICES ASSUME stage = "forward" PROVE InForward'
      OBVIOUS
    <3>1. FixInvFW' /\ OwnFW'
      BY <2>1, FixNextFW, OwnNextFW DEF GInv, InForward, FixInvFW, analysis
    <3>2. PICK L, I, O : Fewer(L) /\ Anticipates(prog, L, I, O) /\ Justified(code, L, O)
      BY DEF GInv, InForward
    <3>3. Fewer(L)' /\ Anticipates(prog, L, I, O)' /\ Justified(code, L, O)'
      BY <2>1, <3>2 DEF Fewer, SameSteps, Justified
    <3> QED
      BY <2>1, <3>1, <3>3, SamePrime DEF GInv, InForward
  <2>5. stage = "done" => InDone'
    <3> SUFFICES ASSUME stage = "done" PROVE InDone'
      OBVIOUS
    <3>1. PICK M, I, O : /\ Derived(M) /\ Standing(M) /\ Avails(prog, M, I, O)
                         /\ Eliminated(code, M, I) /\ Unmissed(M, I)
      BY DEF GInv, InDone
    <3>2. /\ Derived(M)' /\ Standing(M)' /\ Avails(prog, M, I, O)'
          /\ Eliminated(code, M, I)' /\ Unmissed(M, I)'
      <4>1. Derived(M)' /\ Standing(M)' /\ Avails(prog, M, I, O)' /\ Eliminated(code, M, I)'
        BY <2>1, <3>1 DEF Derived, SameSteps, Standing, StandsFor, Eliminated
      <4>2. Unmissed(M, I)'
        BY <2>1, <3>1 DEF Unmissed, Assured, HeldIn, Made, Carried, Holding
      <4> QED
        BY <4>1, <4>2
    <3>3. PICK L, J, U : /\ Fewer(L) /\ Anticipates(prog, L, J, U)
                         /\ Justified(code, L, U) /\ Owing(L, U)
      BY DEF GInv, InDone
    <3>4. Fewer(L)' /\ Anticipates(prog, L, J, U)' /\ Justified(code, L, U)' /\ Owing(L, U)'
      <4>1. Fewer(L)' /\ Anticipates(prog, L, J, U)' /\ Justified(code, L, U)'
        BY <2>1, <3>3 DEF Fewer, SameSteps, Justified
      <4>2. Owing(L, U)'
        BY <2>1, <3>3 DEF Owing, Fresh, Debt, CallToCome, EndToCome, Beyond
      <4> QED
        BY <4>1, <4>2
    <3> QED
      BY <3>2, <3>4 DEF InDone
  <2> QED
    BY <2>1, <2>2, <2>3, <2>4, <2>5, SamePrime DEF GInv, Place
<1> QED
  BY <1>1, LocalStep, StartBackwardStep, BackwardStep, ModifyStep, ForwardStep, EliminateStep,
     ExecuteStep DEF Next, Pass

\* Of a function whose calls test values loaded in their node, in the order of
\* the loads, with no store before a call that lets it fail, no dishonest store
\* and no empty array, a run that a check of the original code ends has been
\* stopped by a check that localopt and the eliminations have left, for all
\* graphs, node orders, arrays and values.
THEOREM EliminationIsSafe == Spec => []NoMissedViolation
<1>1. GInv => NoMissedViolation
  <2> SUFFICES ASSUME GInv, Erasable(prog), status = "violated", ~trapped PROVE FALSE
    BY DEF NoMissedViolation
  <2>1. InDone
    BY DEF GInv
  <2> QED
    BY <2>1 DEF InDone, Unmissed
<1> QED
  BY <1>1, GInvInit, GInvNext, PTL DEF Spec

\* Of a function whose calls test values that their variables still have, with
\* no store after a max check of a node that repairs a violation, where the
\* scan for stores misses none and no path leaves unseen, no check that
\* ModifyMax has strengthened stops a run that the original code would have let
\* return, for all graphs, node orders, arrays and values.
THEOREM StrengtheningIsSafe == Spec => []NoSpuriousTrap
<1>1. GInv => NoSpuriousTrap
  <2> SUFFICES ASSUME GInv, Strengthenable(prog), status = "returned" PROVE ~trapped
    BY DEF NoSpuriousTrap
  <2>1. InDone
    BY DEF GInv
  <2> QED
    BY <2>1 DEF InDone, Owing
<1> QED
  BY <1>1, GInvInit, GInvNext, PTL DEF Spec

-----------------------------------------------------------------------------
(***************************************************************************)
(* The counter.  It counts the calls of the code: localopt takes one off   *)
(* for each call that it erases, ModifyMin and -Max put as many calls in   *)
(* as they take out, and EliminateRedundanteMin and -Max take one off for  *)
(* each available check that covers a call, of which there is one if each  *)
(* variable is checked against one array size.                             *)
(***************************************************************************)
Places == UNION {{<<n, j>> : j \in 1..Len(prog.code[n])} : n \in prog.nodes}

LEMMA PlaceOf ==
    /\ \A x \in Places : /\ x[1] \in prog.nodes /\ x[2] \in 1..Len(prog.code[x[1]])
                         /\ x = <<x[1], x[2]>>
    /\ \A n \in prog.nodes : \A j \in 1..Len(prog.code[n]) : <<n, j>> \in Places
  BY DEF Places

LEMMA PlacesFinite == ASSUME WellFormed(prog) PROVE IsFiniteSet(Places)
<1> DEFINE N == prog.nodes
           Q(n) == {<<n, j>> : j \in 1..Len(prog.code[n])}
           g == [n \in N |-> Q(n)]
<1>1. ASSUME NEW n \in N PROVE IsFiniteSet(Q(n))
  <2> DEFINE J == 1..Len(prog.code[n])
             f == [j \in J |-> <<n, j>>]
  <2>1. Len(prog.code[n]) \in Int
    BY DEF WellFormed
  <2>2. IsFiniteSet(J)
    BY <2>1, FS_Interval
  <2>3. f \in Surjection(J, Q(n))
    BY DEF Surjection
  <2> HIDE DEF f, J, Q
  <2> QED
    BY <2>2, <2>3, FS_Surjection
<1>2. IsFiniteSet({Q(n) : n \in N})
  <2> HIDE DEF Q
  <2>1. g \in Surjection(N, {Q(n) : n \in N})
    BY DEF Surjection
  <2>2. IsFiniteSet(N)
    BY DEF WellFormed
  <2> HIDE DEF g
  <2> QED
    BY <2>1, <2>2, FS_Surjection
<1> QED
  BY <1>1, <1>2, FS_UNION DEF Places

LEMMA CallPlacesAre ==
    ASSUME WellFormed(prog), NEW c, SameSteps(c)
    PROVE  /\ CallPlaces(c) = {x \in Places : c[x[1]][x[2]].op = "call"}
           /\ IsFiniteSet(CallPlaces(c)) /\ CallCount(c) \in Nat
<1>1. DOMAIN c = prog.nodes
  BY DEF SameSteps
<1>2. \A n \in prog.nodes : DOMAIN c[n] = 1..Len(prog.code[n])
  BY InstrAt
<1>3. UNION {{<<n, j>> : j \in DOMAIN c[n]} : n \in DOMAIN c} = Places
  BY <1>1, <1>2 DEF Places
<1>4. CallPlaces(c) = {x \in Places : c[x[1]][x[2]].op = "call"}
  BY <1>3 DEF CallPlaces
<1>5. IsFiniteSet(CallPlaces(c))
  BY <1>4, PlacesFinite, FS_Subset
<1> QED
  BY <1>4, <1>5, FS_CardinalityType DEF CallCount

\* No stage has more calls than the function, so that the counter does not
\* wrap around.
LEMMA CountFits ==
    ASSUME prog \in Programs, NEW c, Derived(c) PROVE CallCount(c) < CounterWord
<1>1. WellFormed(prog) /\ SameSteps(c) /\ SameSteps(prog.code)
  BY ProgramsAssumption DEF Derived, SameSteps, WellFormed
<1>2. CallPlaces(c) \subseteq CallPlaces(prog.code)
  <2> SUFFICES ASSUME NEW x \in Places, c[x[1]][x[2]].op = "call"
               PROVE  prog.code[x[1]][x[2]].op = "call"
    BY <1>1, CallPlacesAre
  <2>1. x[1] \in prog.nodes /\ x[2] \in 1..Len(c[x[1]])
    BY <1>1, PlaceOf, InstrAt
  <2> QED
    BY <2>1 DEF Derived, SameTest
<1>3. CallCount(c) <= CallCount(prog.code)
  BY <1>1, <1>2, CallPlacesAre, FS_Subset DEF CallCount
<1>4. CallCount(prog.code) < CounterWord
  BY CounterWordAssumption
<1> QED
  BY <1>1, <1>3, <1>4, CallPlacesAre, CounterWordAssumption

LEMMA InWord == ASSUME NEW x \in Nat, x < CounterWord PROVE x % CounterWord = x
  BY CounterWordAssumption

\* Erasing calls at the places G takes that many off the count.
LEMMA ErasedCount ==
    ASSUME WellFormed(prog), NEW c, SameSteps(c), NEW d, SameSteps(d),
           NEW G \in SUBSET CallPlaces(c),
           \A n \in prog.nodes : \A j \in 1..Len(c[n]) :
              d[n][j] = IF <<n, j>> \in G THEN Other ELSE c[n][j]
    PROVE  /\ IsFiniteSet(G) /\ CallCount(d) = CallCount(c) - Cardinality(G)
           /\ CallCount(d) \in Nat
<1>1. CallPlaces(d) = CallPlaces(c) \ G
  <2> SUFFICES ASSUME NEW x \in Places
               PROVE  d[x[1]][x[2]].op = "call" <=> c[x[1]][x[2]].op = "call" /\ x \notin G
    BY CallPlacesAre
  <2>1. x[1] \in prog.nodes /\ x[2] \in 1..Len(c[x[1]]) /\ x = <<x[1], x[2]>>
    BY PlaceOf, InstrAt
  <2>2. d[x[1]][x[2]] = IF x \in G THEN Other ELSE c[x[1]][x[2]]
    BY <2>1
  <2> QED
    BY <2>2 DEF Other
<1>2. CallPlaces(c) \cap G = G
  OBVIOUS
<1>3. IsFiniteSet(CallPlaces(c))
  BY CallPlacesAre
<1>4. Cardinality(CallPlaces(c) \ G) = Cardinality(CallPlaces(c)) - Cardinality(G)
  BY <1>2, <1>3, FS_Difference
<1> QED
  BY <1>1, <1>3, <1>4, FS_Subset, CallPlacesAre DEF CallCount

LEMMA LocalCounts ==
    ASSUME prog \in Programs, Fewer(code), Standing(code), VisitLocal,
           prog.order[pos] \in prog.nodes, counter = CallCount(code)
    PROVE  counter' = CallCount(code')
<1> DEFINE here == prog.order[pos]
           R == Repeated(code[here], kind)
           E == [m \in prog.nodes |-> IF m = here THEN Repeated(code[m], kind) ELSE {}]
           G == {<<here, j>> : j \in R}
           f == [j \in R |-> <<here, j>>]
<1>0. WellFormed(prog) /\ SameSteps(code) /\ here \in prog.nodes
  BY ProgramsAssumption DEF Fewer
<1>1. /\ code' = [n \in DOMAIN code |-> Erase(code[n], E[n])]
      /\ \A n \in prog.nodes : \A j \in E[n] : j \in DOMAIN code[n] /\ isCall(code[n][j], kind)
  BY <1>0, VisitLocalErases
<1>2. E[here] = R /\ \A n \in prog.nodes : n # here => E[n] = {}
  BY <1>0
<1> HIDE DEF E
<1>3. \A j \in R : j \in 1..Len(code[here]) /\ code[here][j].op = "call"
  <2> HIDE DEF R, G, f, here
  <2>1. DOMAIN code[here] = 1..Len(code[here])
    BY <1>0, InstrAt
  <2>2. \A j \in R : j \in DOMAIN code[here] /\ isCall(code[here][j], kind)
    BY <1>0, <1>1, <1>2
  <2> QED
    BY <2>1, <2>2 DEF isCall
<1>4. /\ Derived(code')
      /\ \A n \in prog.nodes : \A j \in 1..Len(code[n]) :
            code'[n][j] = IF j \in E[n] THEN Other ELSE code[n][j]
  <2>1. \A n \in prog.nodes : \A j \in E[n] : j \in DOMAIN code[n] => code[n][j].op = "call"
    BY <1>1 DEF isCall
  <2> QED
    BY <1>0, <1>1, <2>1, FewerIsDerived, EraseDerived
<1> HIDE DEF R
<1>5. G \in SUBSET CallPlaces(code)
  <2> SUFFICES ASSUME NEW j \in R PROVE <<here, j>> \in CallPlaces(code)
    OBVIOUS
  <2>1. <<here, j>> \in Places /\ code[here][j].op = "call"
    BY <1>0, <1>3, PlaceOf, InstrAt
  <2> QED
    BY <1>0, <2>1, CallPlacesAre
<1>6. \A n \in prog.nodes : \A j \in 1..Len(code[n]) :
         code'[n][j] = IF <<n, j>> \in G THEN Other ELSE code[n][j]
  <2> SUFFICES ASSUME NEW n \in prog.nodes, NEW j \in 1..Len(code[n])
               PROVE  <<n, j>> \in G <=> j \in E[n]
    BY <1>4
  <2> QED
    BY <1>2
<1>7. /\ IsFiniteSet(G) /\ CallCount(code') = CallCount(code) - Cardinality(G)
      /\ CallCount(code') \in Nat /\ CallCount(code') < CounterWord
  <2>1. SameSteps(code')
    BY <1>4 DEF Derived
  <2> HIDE DEF G, here, f
  <2>2. IsFiniteSet(G) /\ CallCount(code') = CallCount(code) - Cardinality(G)
        /\ CallCount(code') \in Nat
    BY <1>0, <1>5, <1>6, <2>1, ErasedCount
  <2>3. CallCount(code') < CounterWord
    BY <1>4, CountFits
  <2> QED
    BY <2>2, <2>3
<1>8. Cardinality(R) = Cardinality(G)
  <2>1. f \in Injection(R, G) /\ f \in Surjection(R, G)
    BY DEF Injection, Surjection, IsInjective
  <2> HIDE DEF f, G
  <2> QED
    BY <1>7, <2>1, FS_Injection
<1>9. counter' = (counter - Cardinality(R)) % CounterWord
  BY DEF VisitLocal, R
<1> QED
  BY <1>7, <1>8, <1>9, InWord

LEMMA ModifyCounts ==
    ASSUME WellFormed(prog), Fewer(code), Modify,
           \A k \in Kinds, n \in prog.nodes : out[k][n] \subseteq Checks(code, k)
    PROVE  CallCount(code') = CallCount(code)
<1>1. Derived(code) /\ SameSteps(code)
  BY FewerIsDerived DEF Fewer
<1>2. /\ code' \in [prog.nodes -> Seq(Instrs)]
      /\ \A n \in prog.nodes : \A j \in 1..Len(code[n]) :
            code'[n][j].op = "call" <=> code[n][j].op = "call"
      /\ \A n \in prog.nodes : DOMAIN code'[n] = DOMAIN code[n]
  <2>1. code' \in [prog.nodes -> Seq(Instrs)]
    BY <1>1, ModifyIs
  <2>2. ASSUME NEW n \in prog.nodes, NEW j \in 1..Len(code[n])
        PROVE  code'[n][j].op = "call" <=> code[n][j].op = "call"
    BY <1>1, ModifyIs DEF SameTest
  <2>3. ASSUME NEW n \in prog.nodes PROVE DOMAIN code'[n] = DOMAIN code[n]
    <3>1. Len(code'[n]) = Len(code[n])
      BY <1>1, ModifyIs
    <3>2. code'[n] \in Seq(Instrs) /\ code[n] \in Seq(Instrs)
      BY <1>1, <2>1 DEF SameSteps
    <3> QED
      BY <3>1, <3>2
  <2> QED
    BY <2>1, <2>2, <2>3
<1>3. DOMAIN code' = prog.nodes /\ DOMAIN code = prog.nodes
  BY <1>1, <1>2 DEF SameSteps
<1>4. UNION {{<<n, j>> : j \in DOMAIN code'[n]} : n \in DOMAIN code'}
         = UNION {{<<n, j>> : j \in DOMAIN code[n]} : n \in DOMAIN code}
  BY <1>2, <1>3
<1>5. \A x \in UNION {{<<n, j>> : j \in DOMAIN code[n]} : n \in DOMAIN code} :
         x[1] \in prog.nodes /\ x[2] \in 1..Len(code[x[1]])
  BY <1>1, <1>3, InstrAt
<1>6. CallPlaces(code') = CallPlaces(code)
  BY <1>2, <1>4, <1>5 DEF CallPlaces
<1> QED
  BY <1>6 DEF CallCount

\* A call is covered by one check at most.
LEMMA CoveringUnique ==
    ASSUME WellFormed(prog), Derived(code), UniformLimits(prog), OwnFW, NEW n \in prog.nodes,
           NEW l \in 1..Len(code[n]), code[n][l].op = "call",
           NEW c \in Covering(n, code[n][l]), NEW d \in Covering(n, code[n][l])
    PROVE  c = d
<1> DEFINE i == code[n][l]
<1>1. i.kind \in Kinds
  BY InstrAt DEF Derived, Calls
<1>2. c \in In[i.kind][n] /\ d \in In[i.kind][n] /\ c.realindex = i.root /\ d.realindex = i.root
  BY DEF Covering, Of
<1>3. c \in Checks(prog.code, i.kind) /\ d \in Checks(prog.code, i.kind)
  BY <1>1, <1>2 DEF OwnFW, Derived
<1>4. c.top_limit = d.top_limit
  BY <1>1, <1>2, <1>3 DEF UniformLimits
<1>5. c \in AllChecks /\ d \in AllChecks /\ c.bottom_limit = 0 /\ d.bottom_limit = 0
  BY <1>1, <1>3, OwnCheck DEF WellFormed
<1> QED
  BY <1>2, <1>4, <1>5, CheckIs

LEMMA EliminateCounts ==
    ASSUME prog \in Programs, Derived(code), UniformLimits(prog), FixInvFW, OwnFW, Eliminate,
           counter = CallCount(code)
    PROVE  counter' = CallCount(code')
<1> DEFINE E == [n \in prog.nodes |-> CoveredPlaces(n)]
           G == UNION {{<<n, j>> : j \in E[n]} : n \in prog.nodes}
           f == [x \in Coverings |-> <<x[1], x[2]>>]
<1>0. WellFormed(prog) /\ SameSteps(code) /\ code \in [prog.nodes -> Seq(Instrs)]
      /\ InVector(prog) \subseteq prog.nodes
  BY ProgramsAssumption, VectorOfNodes DEF Derived, SameSteps
<1>1. code' = [n \in DOMAIN code |-> Erase(code[n], E[n])]
  BY <1>0 DEF Eliminate
<1>2. \A n \in prog.nodes : E[n] = CoveredPlaces(n) /\
         \A j \in E[n] : /\ j \in DOMAIN code[n] /\ code[n][j].op = "call"
                         /\ Covering(n, code[n][j]) # {}
  BY DEF CoveredPlaces
<1> HIDE DEF E
<1>3. /\ Derived(code')
      /\ \A n \in prog.nodes : \A j \in 1..Len(code[n]) :
            code'[n][j] = IF j \in E[n] THEN Other ELSE code[n][j]
  <2> HIDE DEF G, f
  <2>1. \A n \in prog.nodes : \A j \in E[n] : j \in DOMAIN code[n] => code[n][j].op = "call"
    BY <1>2
  <2>2. WellFormed(prog) /\ Derived(code)
    BY <1>0
  <2> QED
    BY <1>1, <2>1, <2>2, EraseDerived
<1>4. \A n \in prog.nodes : \A j \in E[n] : j \in 1..Len(code[n]) /\ j \in 1..Len(prog.code[n])
  BY <1>0, <1>2, InstrAt
<1>5. \A x \in G : x[1] \in prog.nodes /\ x[2] \in E[x[1]] /\ x = <<x[1], x[2]>>
  OBVIOUS
<1>6. \A n \in prog.nodes : \A j : j \in E[n] <=> <<n, j>> \in G
  OBVIOUS
<1> HIDE DEF G
<1>7. G \in SUBSET CallPlaces(code)
  <2> SUFFICES ASSUME NEW x \in G PROVE x \in CallPlaces(code)
    OBVIOUS
  <2>1. x \in Places /\ code[x[1]][x[2]].op = "call"
    BY <1>2, <1>4, <1>5, PlaceOf
  <2> QED
    BY <1>0, <2>1, CallPlacesAre
<1>8. /\ IsFiniteSet(G) /\ CallCount(code') = CallCount(code) - Cardinality(G)
      /\ CallCount(code') \in Nat /\ CallCount(code') < CounterWord
  <2>1. SameSteps(code')
    BY <1>3 DEF Derived
  <2>2. \A n \in prog.nodes : \A j \in 1..Len(code[n]) :
           code'[n][j] = IF <<n, j>> \in G THEN Other ELSE code[n][j]
    BY <1>3, <1>6
  <2>3. /\ IsFiniteSet(G) /\ CallCount(code') = CallCount(code) - Cardinality(G)
        /\ CallCount(code') \in Nat
    BY <1>0, <1>7, <2>1, <2>2, ErasedCount
  <2>4. CallCount(code') < CounterWord
    BY <1>3, CountFits
  <2> QED
    BY <2>3, <2>4
<1>9. \A x \in Coverings : /\ x[1] \in prog.nodes /\ x[2] \in E[x[1]]
                           /\ x[3] \in Covering(x[1], code[x[1]][x[2]])
                           /\ x = <<x[1], x[2], x[3]>>
  BY <1>0, <1>2 DEF Coverings
<1>10. f \in Injection(Coverings, G)
  <2>1. f \in [Coverings -> G]
    BY <1>6, <1>9
  <2>2. ASSUME NEW x \in Coverings, NEW y \in Coverings, f[x] = f[y] PROVE x = y
    <3>1. x[1] = y[1] /\ x[2] = y[2]
      BY <2>2
    <3>2. x[3] = y[3]
      <4> DEFINE n == x[1]
                 l == x[2]
      <4>1. n \in prog.nodes /\ l \in 1..Len(code[n]) /\ code[n][l].op = "call"
        BY <1>2, <1>4, <1>9
      <4>2. x[3] \in Covering(n, code[n][l]) /\ y[3] \in Covering(n, code[n][l])
        BY <1>9, <3>1
      <4> HIDE DEF n, l
      <4> QED
        BY <1>0, <4>1, <4>2, CoveringUnique
    <3> QED
      BY <1>9, <3>1, <3>2
  <2> QED
    BY <2>1, <2>2 DEF Injection, IsInjective
<1>11. f \in Surjection(Coverings, G)
  <2>1. f \in [Coverings -> G]
    BY <1>6, <1>9
  <2>2. ASSUME NEW y \in G PROVE \E x \in Coverings : f[x] = y
    <3> DEFINE n == y[1]
               l == y[2]
    <3>1. n \in prog.nodes /\ l \in E[n] /\ y = <<n, l>>
      BY <1>5
    <3>2. PICK c \in Covering(n, code[n][l]) : TRUE
      BY <1>2, <3>1
    <3>3. n \in InVector(prog)
      <4>1. c \in In[code[n][l].kind][n] /\ code[n][l].kind \in Kinds
        BY <1>0, <1>2, <1>4, <3>1, <3>2, InstrAt DEF Covering, Of, Calls
      <4> QED
        BY <3>1, <4>1 DEF FixInvFW, OutsideFW
    <3>4. <<n, l, c>> \in Coverings
      <4> HIDE DEF n, l
      <4> QED
        BY <1>2, <3>1, <3>2, <3>3 DEF Coverings
    <3>5. f[<<n, l, c>>] = y
      BY <3>1, <3>4
    <3> QED
      BY <3>4, <3>5
  <2> QED
    BY <2>1, <2>2 DEF Surjection
<1>12. Cardinality(Coverings) = Cardinality(G)
  <2> HIDE DEF f
  <2> QED
    BY <1>8, <1>10, <1>11, FS_Injection
<1>13. counter' = (counter - Cardinality(Coverings)) % CounterWord
  BY DEF Eliminate
<1> QED
  BY <1>8, <1>12, <1>13, InWord

CounterInv == UniformLimits(prog) => counter = CallCount(code)

LEMMA CounterNext == GInv /\ CounterInv /\ [Next]_vars => CounterInv'
<1> SUFFICES ASSUME GInv, CounterInv, [Next]_vars PROVE CounterInv'
  OBVIOUS
<1>0. prog \in Programs /\ WellFormed(prog) /\ Derived(code)
  BY GInvShape DEF GInv
<1>1. CASE LocalStage
  <2>1. InLocal
    BY <1>1 DEF GInv, LocalStage
  <2>2. CASE VisitLocal
    <3>1. prog.order[pos] \in prog.nodes
      BY <1>0, <2>1, <2>2, VectorOfNodes DEF VisitLocal, InLocal
    <3> QED
      BY <1>0, <2>1, <2>2, <3>1, LocalCounts DEF CounterInv, InLocal, VisitLocal
  <2>3. CASE FinishLocal \/ CrashLocal
    BY <2>3 DEF FinishLocal, CrashLocal, CounterInv
  <2> QED
    BY <1>1, <2>2, <2>3 DEF LocalStage, NextLocal
<1>2. CASE StartBackward
  BY <1>2 DEF StartBackward, Leave, CounterInv
<1>3. CASE BackwardStage
  BY <1>3 DEF BackwardStage, NextBW, AdvanceBW, VisitBW, Repeat, Finish, CrashBW, CounterInv
<1>4. CASE Modify
  <2>1. InBackward
    BY <1>4 DEF GInv, Modify, Leave
  <2>2. CallCount(code') = CallCount(code)
    BY <1>0, <1>4, <2>1, ModifyCounts DEF InBackward, OwnBW
  <2> QED
    BY <1>4, <2>2 DEF Modify, Leave, CounterInv
<1>5. CASE ForwardStage
  BY <1>5 DEF ForwardStage, NextFW, AdvanceFW, VisitFW, Repeat, Finish, CrashFW, CounterInv
<1>6. CASE Eliminate
  <2>1. InForward
    BY <1>6 DEF GInv, Eliminate, Leave
  <2> QED
    BY <1>0, <1>6, <2>1, EliminateCounts DEF InForward, CounterInv, Eliminate, Leave
<1>7. CASE Execute
  <2>1. UNCHANGED program
    BY <1>7, GInvShape, PlaceNext DEF Execute, GInv
  <2> QED
    BY <1>7, <2>1 DEF Execute, program, CounterInv
<1>8. CASE UNCHANGED vars
  BY <1>8 DEF vars, CounterInv
<1> QED
  BY <1>1, <1>2, <1>3, <1>4, <1>5, <1>6, <1>7, <1>8 DEF Next, Pass

\* When each variable is checked against one array size, the number of checks
\* that printresults reports is the number of calls that are left, for all
\* functions with fewer calls than the counter can hold.
THEOREM CounterIsExact == Spec => []CounterExact
<1>1. Init => CounterInv
  BY DEF Init, CounterInv
<1>2. CounterInv => CounterExact
  BY DEF CounterInv, CounterExact
<1> QED
  BY <1>1, <1>2, GInvInit, GInvNext, CounterNext, PTL DEF Spec
=============================================================================
