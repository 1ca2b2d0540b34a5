---------------------------- MODULE HomeworkProofs ----------------------------
(***************************************************************************)
(* The two passes of HW2 are right about every run of every function: the  *)
(* constants that replace loads, and the warnings about variables.         *)
(***************************************************************************)
EXTENDS Homework, FiniteSetTheorems, TLAPS

\* What a variable may hold, and what a value map may say of it.
Held == Seq(Int) \cup {Computed}

Code(b) == prog.code[b]

DataSets == [gen : SUBSET Variables, kill : SUBSET Variables,
             in : SUBSET Variables, out : SUBSET Variables]

TypeInv ==
    /\ prog \in Programs
    /\ \/ pass = "Assignment_4" /\ stage \in {"uninit", "gen", "sound", "run"}
       \/ pass = "Assignment_2" /\ stage \in {"reach", "replace", "run"}
    /\ pos \in Blocks(prog) /\ change \in -1..2 /\ (stage # "run" => change >= 0)
    /\ valueMap \in [Blocks(prog) -> SUBSET (Variables \X Seq(Int))]
    /\ uninit \in [Blocks(prog) -> DataSets] /\ sound \in [Blocks(prog) -> DataSets]
    /\ \A b \in Blocks(prog) : uninit[b].gen = Loaded(prog, b) /\ uninit[b].kill = Stored(prog, b)
    /\ at \in Blocks(prog) \X Nat /\ at[2] \in 1..(Len(Code(at[1])) + 1)
    /\ env \in [Variables -> Held] /\ bad \subseteq Variables
    /\ loaded \in Seq([value : Held, bad : BOOLEAN]) /\ Len(loaded) = at[2] - 1

\* The function does not run before it is compiled.
Waiting ==
    stage # "run" => at = <<1, 1>> /\ (\A v \in Variables : env[v] = Nothing) /\ bad = {} /\ uses = {}

-----------------------------------------------------------------------------
(***************************************************************************)
(* Functions.                                                              *)
(***************************************************************************)
LEMMA BlocksAre ==
    ASSUME NEW p \in Programs
    PROVE  /\ Len(p.succs) \in Nat \ {0} /\ Blocks(p) = 1..Len(p.succs)
           /\ Cardinality(Blocks(p)) = Len(p.succs) /\ 1 \in Blocks(p)
           /\ \A b \in Blocks(p) : p.succs[b] \subseteq Blocks(p)
           /\ \A b \in Blocks(p) : p.code[b] \in Seq(Instrs)
<1>1. p.succs \in Seq(SUBSET (2..Len(p.succs))) /\ p.succs # <<>>
  BY LoadStoreAssumption
<1>2. Len(p.succs) \in Nat \ {0} /\ Blocks(p) = 1..Len(p.succs)
  BY <1>1 DEF Blocks
<1>3. Cardinality(Blocks(p)) = Len(p.succs)
  BY <1>2, FS_Interval
<1>4. \A b \in Blocks(p) : p.succs[b] \subseteq Blocks(p)
  BY <1>1, <1>2
<1>5. p.code \in Seq(Seq(Instrs)) /\ Len(p.code) = Len(p.succs)
  BY LoadStoreAssumption
<1>6. \A b \in Blocks(p) : p.code[b] \in Seq(Instrs)
  BY <1>2, <1>5
<1> QED
  BY <1>2, <1>3, <1>4, <1>6

\* An instruction loads a variable, or stores a constant or a result to it.
LEMMA InstrIs ==
    ASSUME NEW I \in Instrs
    PROVE  /\ I.var \in Variables
           /\ IsStore(I) <=> I.op = "store"
           /\ ~IsStore(I) <=> I.op = "load"
           /\ IsConst(I) => I.const \in Int
  BY DEF Instrs, IsStore, IsConst

LEMMA SourcesAre ==
    ASSUME NEW p \in Programs, NEW b \in Blocks(p), NEW k \in DOMAIN p.code[b],
           IsStore(p.code[b][k])
    PROVE  /\ \A n \in Sources(p.code[b][k]) : /\ n \in 1..(k - 1) /\ n \in DOMAIN p.code[b]
                                               /\ p.code[b][n].op = "load"
           /\ IsFiniteSet(Sources(p.code[b][k]))
<1>1. p.code[b] \in Seq(Instrs)
  BY BlocksAre
<1>2. \A n \in Sources(p.code[b][k]) : n \in 1..(k - 1) /\ p.code[b][n].op = "load"
  BY LoadStoreAssumption
<1>3. k \in 1..Len(p.code[b]) /\ Len(p.code[b]) \in Nat
  BY <1>1
<1>4. Sources(p.code[b][k]) \subseteq 1..(k - 1) /\ IsFiniteSet(1..(k - 1))
  <2>1. 1 \in Int /\ k - 1 \in Int
    BY <1>3
  <2> QED
    BY <1>2, <2>1, FS_Interval
<1> QED
  BY <1>1, <1>2, <1>3, <1>4, FS_Subset

LEMMA StoredAre ==
    ASSUME NEW p, NEW b, NEW k \in DOMAIN p.code[b]
    PROVE  /\ IsStore(p.code[b][k]) => p.code[b][k].var \in Stored(p, b)
           /\ ~IsStore(p.code[b][k]) => p.code[b][k].var \in Loaded(p, b)
  BY DEF Stored, Loaded, Instructions

LEMMA ElementIn == ASSUME NEW S, NEW s \in Seq(S), NEW n \in DOMAIN s PROVE s[n] \in S
  OBVIOUS

\* The value that a store leaves is never the nothing of a fresh variable.
StoredValue ==
    LET copied == {loaded[n].value : n \in Sources(Instruction)}
    IN  IF IsConst(Instruction) THEN <<Instruction.const>>
        ELSE IF Cardinality(Sources(Instruction)) = 1 /\ copied # {Nothing}
             THEN CHOOSE x \in copied : TRUE
             ELSE Computed

LEMMA HereIs ==
    ASSUME TypeInv, AtInstruction
    PROVE  /\ at[1] \in Blocks(prog) /\ at[2] \in DOMAIN Code(at[1]) /\ at = <<at[1], at[2]>>
           /\ Instruction = Code(at[1])[at[2]] /\ Instruction \in Instrs
           /\ at[2] \in Nat \ {0} /\ Len(Code(at[1])) \in Nat /\ at[2] <= Len(Code(at[1]))
           /\ DOMAIN loaded = 1..(at[2] - 1)
<1>1. Code(at[1]) \in Seq(Instrs)
  BY BlocksAre DEF TypeInv, Code
<1> QED
  BY <1>1 DEF TypeInv, AtInstruction, Instruction, Code

LEMMA SomethingStored ==
    ASSUME TypeInv, AtInstruction, IsStore(Instruction)
    PROVE  StoredValue \in Held /\ StoredValue # Nothing
<1>1. Instruction \in Instrs
  BY HereIs
<1>2. CASE IsConst(Instruction)
  BY <1>1, <1>2, InstrIs DEF StoredValue, Held, Nothing
<1>3. CASE ~IsConst(Instruction)
  <2> DEFINE copied == {loaded[n].value : n \in Sources(Instruction)}
  <2>1. CASE Cardinality(Sources(Instruction)) = 1 /\ copied # {Nothing}
    <3>1. IsFiniteSet(Sources(Instruction)) /\ \A n \in Sources(Instruction) : n \in DOMAIN loaded
      <4>1. /\ prog \in Programs /\ at[1] \in Blocks(prog) /\ at[2] \in DOMAIN prog.code[at[1]]
            /\ Instruction = prog.code[at[1]][at[2]] /\ DOMAIN loaded = 1..(at[2] - 1)
        BY HereIs DEF TypeInv, Code
      <4> QED
        BY <4>1, SourcesAre
    <3>2. PICK n : Sources(Instruction) = {n}
      BY <2>1, <3>1, FS_Singleton
    <3>3. copied = {loaded[n].value}
      BY <3>2
    <3>4. loaded[n].value \in Held
      <4>1. n \in DOMAIN loaded /\ loaded \in Seq([value : Held, bad : BOOLEAN])
        BY <3>1, <3>2 DEF TypeInv
      <4>2. loaded[n] \in [value : Held, bad : BOOLEAN]
        BY <4>1, ElementIn
      <4> QED
        BY <4>2
    <3>5. StoredValue = CHOOSE x \in copied : TRUE
      BY <1>3, <2>1 DEF StoredValue
    <3>6. StoredValue = loaded[n].value
      BY <3>3, <3>5
    <3> QED
      BY <2>1, <3>3, <3>4, <3>6
  <2>2. CASE ~(Cardinality(Sources(Instruction)) = 1 /\ copied # {Nothing})
    BY <1>3, <2>2 DEF StoredValue, Held, Computed, Nothing
  <2> QED
    BY <2>1, <2>2
<1> QED
  BY <1>2, <1>3

-----------------------------------------------------------------------------
(***************************************************************************)
(* Types.                                                                  *)
(***************************************************************************)
LEMMA VarsOfBlock ==
    ASSUME NEW p \in Programs, NEW b \in Blocks(p)
    PROVE  Stored(p, b) \subseteq Variables /\ Loaded(p, b) \subseteq Variables
<1>1. p.code[b] \in Seq(Instrs)
  BY BlocksAre
<1>2. \A I \in Instructions(p, b) : I.var \in Variables
  BY <1>1, ElementIn, InstrIs DEF Instructions
<1> QED
  BY <1>2 DEF Stored, Loaded

LEMMA TypeInit == Init => TypeInv /\ Waiting
<1> SUFFICES ASSUME Init PROVE TypeInv /\ Waiting
  OBVIOUS
<1>1. prog \in Programs /\ pos = 1 /\ InitRun /\ InitUnsoundness /\ InitConstants
  BY DEF Init
<1>2. valueMap \in [Blocks(prog) -> SUBSET (Variables \X Seq(Int))]
  <2> SUFFICES ASSUME NEW b \in Blocks(prog), NEW k \in DOMAIN prog.code[b], IsStore(prog.code[b][k])
               PROVE  prog.code[b][k].var \in Variables /\ ValueOf(b, k) \in Seq(Int)
    BY <1>1 DEF InitConstants
  <2>1. prog.code[b] \in Seq(Instrs) /\ b \in Int
    BY <1>1, BlocksAre
  <2>2. prog.code[b][k] \in Instrs /\ k \in Int
    BY <2>1, ElementIn
  <2> QED
    BY <2>1, <2>2, InstrIs DEF ValueOf
<1>3. /\ uninit \in [Blocks(prog) -> DataSets] /\ sound \in [Blocks(prog) -> DataSets]
      /\ \A b \in Blocks(prog) : uninit[b].gen = Loaded(prog, b) /\ uninit[b].kill = Stored(prog, b)
  BY <1>1, VarsOfBlock DEF InitUnsoundness, EmptySets, DataSets
<1>4. /\ at \in Blocks(prog) \X Nat /\ at[2] \in 1..(Len(Code(at[1])) + 1)
      /\ env \in [Variables -> Held] /\ bad \subseteq Variables
      /\ loaded \in Seq([value : Held, bad : BOOLEAN]) /\ Len(loaded) = at[2] - 1
  <2>1. 1 \in Blocks(prog) /\ Code(1) \in Seq(Instrs)
    BY <1>1, BlocksAre DEF Code
  <2>2. at = <<1, 1>> /\ env = [v \in Variables |-> <<>>] /\ bad = {} /\ loaded = <<>>
    BY <1>1 DEF InitRun, Nothing
  <2> QED
    BY <2>1, <2>2 DEF Held
<1> QED
  BY <1>1, <1>2, <1>3, <1>4, BlocksAre DEF TypeInv, Init, Waiting, InitRun

\* A block in turn, the next one, and the first after the last.
LEMMA Places ==
    ASSUME TypeInv
    PROVE  /\ Cardinality(Blocks(prog)) \in Nat \ {0}
           /\ Blocks(prog) = 1..Cardinality(Blocks(prog)) /\ 1 \in Blocks(prog)
           /\ pos \in Nat /\ pos <= Cardinality(Blocks(prog))
           /\ pos < Cardinality(Blocks(prog)) => pos + 1 \in Blocks(prog)
<1>1. prog \in Programs /\ pos \in Blocks(prog)
  BY DEF TypeInv
<1> QED
  BY <1>1, BlocksAre

LEMMA TypePropagate ==
    ASSUME TypeInv, pass = "Assignment_2", Propagate, UNCHANGED sets PROVE TypeInv'
<1>1. valueMap[pos] \cup UNION {valueMap[c] : c \in Preds(prog, pos)}
        \in SUBSET (Variables \X Seq(Int))
  BY DEF TypeInv, Preds
<1>2. valueMap' \in [Blocks(prog) -> SUBSET (Variables \X Seq(Int))]
  BY <1>1 DEF TypeInv, Propagate
<1>3. UNCHANGED <<prog, pass, uninit, sound, at, env, bad, loaded, uses>>
  BY DEF Propagate, run, sets
<1>4. pos' \in Blocks(prog) /\ change' \in 0..2 /\ stage' \in {"reach", "replace"}
  BY Places DEF Propagate, TypeInv
<1> QED
  BY <1>2, <1>3, <1>4 DEF TypeInv, Code

LEMMA TypeReplace ==
    ASSUME TypeInv, pass = "Assignment_2", Replace, UNCHANGED sets PROVE TypeInv'
<1>1. UNCHANGED <<prog, pass, valueMap, uninit, sound, at, env, bad, loaded, uses>>
  BY DEF Replace, run, sets
<1>2. pos' \in Blocks(prog) /\ stage' \in {"replace", "run"}
  BY Places DEF Replace, TypeInv
<1>3. change' \in -1..2 /\ (stage' # "run" => change' >= 0)
  BY DEF Replace, TypeInv
<1> QED
  BY <1>1, <1>2, <1>3 DEF TypeInv, Code

LEMMA TypeSweep ==
    ASSUME TypeInv, stage # "run", NEW again, NEW next, NEW changed, Sweep(again, next, changed)
    PROVE  /\ pos' \in Blocks(prog) /\ change' \in 0..2 /\ stage' \in {stage, again, next}
           /\ stage' = again /\ again # stage => change' \in 0..1
  BY Places DEF Sweep, TypeInv

LEMMA ValuesTyped ==
    ASSUME TypeInv, NEW in \in SUBSET Variables
    PROVE  InValues(pos) \subseteq Variables /\ OutValues(pos, in) \subseteq Variables
<1>1. \A b \in Blocks(prog) : /\ uninit[b].in \subseteq Variables /\ uninit[b].out \subseteq Variables
                             /\ uninit[b].gen \subseteq Variables
  BY DEF TypeInv, DataSets
<1>2. pos \in Blocks(prog) /\ prog.succs[pos] \subseteq Blocks(prog)
  BY BlocksAre DEF TypeInv
<1>3. InValues(pos) \subseteq Variables
  BY <1>1, <1>2 DEF InValues
<1>4. \A c \in prog.succs[pos] : (IF c = pos THEN in ELSE uninit[c].in) \subseteq Variables
  BY <1>1, <1>2
<1>5. OutValues(pos, in) \subseteq Variables
  BY <1>1, <1>2, <1>4, Zenon DEF OutValues
<1> QED
  BY <1>3, <1>5

LEMMA TypeSweepUninit ==
    ASSUME TypeInv, pass = "Assignment_4", SweepUninit, UNCHANGED constants
    PROVE  /\ TypeInv'
           /\ uninit' = [uninit EXCEPT ![pos] =
                           [uninit[pos] EXCEPT !.in = InValues(pos),
                                               !.out = OutValues(pos, InValues(pos))]]
<1> DEFINE in == InValues(pos)
           new == [uninit[pos] EXCEPT !.in = in, !.out = OutValues(pos, in)]
<1>1. /\ stage = "uninit" /\ uninit' = [uninit EXCEPT ![pos] = new]
      /\ Sweep("uninit", "gen", new # uninit[pos])
      /\ UNCHANGED <<prog, pass, sound, valueMap, at, env, bad, loaded, uses>>
  BY DEF SweepUninit, run, constants
<1>2. /\ new \in DataSets /\ new.gen = uninit[pos].gen /\ new.kill = uninit[pos].kill
      /\ pos \in Blocks(prog)
  <2>1. in \subseteq Variables /\ OutValues(pos, in) \subseteq Variables
    BY ValuesTyped
  <2>2. uninit[pos] \in DataSets /\ pos \in Blocks(prog)
    BY DEF TypeInv
  <2> HIDE DEF in
  <2> QED
    BY <2>1, <2>2 DEF DataSets
<1> HIDE DEF new
<1>3. /\ uninit' \in [Blocks(prog) -> DataSets]
      /\ \A b \in Blocks(prog) : uninit'[b].gen = Loaded(prog, b) /\ uninit'[b].kill = Stored(prog, b)
  BY <1>1, <1>2 DEF TypeInv
<1>4. pos' \in Blocks(prog) /\ change' \in 0..2 /\ stage' \in {"uninit", "gen"}
  BY <1>1, TypeSweep
<1> QED
  BY <1>1, <1>3, <1>4 DEF TypeInv, Code, new

LEMMA GenKillTyped ==
    ASSUME TypeInv, NEW b \in Blocks(prog)
    PROVE  GenOf(b) \subseteq Stored(prog, b) /\ KilledOf(b) \subseteq Stored(prog, b)
  BY DEF GenOf, KilledOf, Stored, Instructions

LEMMA TypeGenAndKill ==
    ASSUME TypeInv, pass = "Assignment_4", GenAndKill, UNCHANGED constants PROVE TypeInv'
<1>1. UNCHANGED <<prog, pass, pos, change, uninit, valueMap, at, env, bad, loaded, uses>>
  BY DEF GenAndKill, run, constants
<1>2. sound' \in [Blocks(prog) -> DataSets]
  <2> SUFFICES ASSUME NEW b \in Blocks(prog)
               PROVE  [sound[b] EXCEPT !.gen = @ \cup GenOf(b), !.kill = @ \cup KilledOf(b)]
                        \in DataSets
    BY DEF GenAndKill
  <2>1. GenOf(b) \subseteq Variables /\ KilledOf(b) \subseteq Variables
    BY GenKillTyped, VarsOfBlock DEF TypeInv
  <2>2. sound[b] \in DataSets
    BY DEF TypeInv
  <2> QED
    BY <2>1, <2>2 DEF DataSets
<1>3. stage = "gen" /\ stage' = "sound"
  BY DEF GenAndKill
<1> QED
  BY <1>1, <1>2, <1>3 DEF TypeInv, Code

SoundIn == sound[pos].in \cup UNION {sound[c].out : c \in Preds(prog, pos)}
SoundNew ==
    [sound[pos] EXCEPT !.in = SoundIn, !.out = @ \cup (SoundIn \ sound[pos].kill) \cup sound[pos].gen]

LEMMA TypeSweepSound ==
    ASSUME TypeInv, pass = "Assignment_4", SweepSound, UNCHANGED constants
    PROVE  /\ TypeInv' /\ SoundNew \in DataSets
           /\ sound' = [sound EXCEPT ![pos] = SoundNew]
           /\ Sweep("gen", "run", SoundNew # sound[pos])
           /\ UNCHANGED <<prog, pass, uninit>>
<1>1. /\ stage = "sound" /\ sound' = [sound EXCEPT ![pos] = SoundNew]
      /\ Sweep("gen", "run", SoundNew # sound[pos])
      /\ UNCHANGED <<prog, pass, uninit, valueMap, at, env, bad, loaded, uses>>
  BY DEF SweepSound, SoundIn, SoundNew, run, constants
<1>2. SoundNew \in DataSets
  <2>1. \A b \in Blocks(prog) : sound[b] \in DataSets
    BY DEF TypeInv
  <2>2. pos \in Blocks(prog) /\ Preds(prog, pos) \subseteq Blocks(prog)
    BY DEF TypeInv, Preds
  <2>3. SoundIn \subseteq Variables
    BY <2>1, <2>2 DEF SoundIn, DataSets
  <2> QED
    BY <2>1, <2>2, <2>3 DEF SoundNew, DataSets
<1>3. sound' \in [Blocks(prog) -> DataSets]
  BY <1>1, <1>2 DEF TypeInv
<1>4. pos' \in Blocks(prog) /\ change' \in 0..2 /\ stage' \in {"sound", "gen", "run"}
  BY <1>1, TypeSweep
<1> QED
  BY <1>1, <1>2, <1>3, <1>4 DEF TypeInv, Code

LEMMA AppendTyped ==
    ASSUME NEW S, NEW s \in Seq(S), NEW e \in S
    PROVE  /\ Append(s, e) \in Seq(S) /\ Len(Append(s, e)) = Len(s) + 1 /\ Len(s) \in Nat
           /\ \A n \in 1..Len(s) : Append(s, e)[n] = s[n]
           /\ Append(s, e)[Len(s) + 1] = e
  OBVIOUS

\* What a step of a run within a block does to its place and its loads.
LEMMA InBlock ==
    ASSUME TypeInv, AtInstruction, at' = <<at[1], at[2] + 1>>, UNCHANGED prog,
           NEW e \in [value : Held, bad : BOOLEAN], loaded' = Append(loaded, e)
    PROVE  /\ at' \in Blocks(prog) \X Nat /\ at'[1] = at[1] /\ at'[2] = at[2] + 1
           /\ at'[2] \in 1..(Len(Code(at[1])) + 1)
           /\ loaded' \in Seq([value : Held, bad : BOOLEAN]) /\ Len(loaded') = at'[2] - 1
           /\ \A n \in 1..(at[2] - 1) : loaded'[n] = loaded[n]
           /\ loaded'[at[2]] = e
<1> DEFINE S == [value : Held, bad : BOOLEAN]
<1>1. loaded \in Seq(S) /\ e \in S /\ Len(loaded) = at[2] - 1
  BY DEF TypeInv
<1> HIDE DEF S
<1>2. /\ loaded' \in Seq(S) /\ Len(loaded') = Len(loaded) + 1
      /\ \A n \in 1..Len(loaded) : loaded'[n] = loaded[n]
      /\ loaded'[Len(loaded) + 1] = e
  BY <1>1, AppendTyped
<1>3. /\ at[1] \in Blocks(prog) /\ at[2] \in Nat \ {0} /\ Len(Code(at[1])) \in Nat
      /\ at[2] <= Len(Code(at[1]))
  BY HereIs
<1> QED
  BY <1>1, <1>2, <1>3 DEF S

LEMMA TypeLoad ==
    ASSUME TypeInv, NEW value \in Held, Load(value), UNCHANGED <<compile, sets, constants>>
    PROVE  TypeInv'
<1> DEFINE e == [value |-> value, bad |-> env[Instruction.var] = Nothing \/ Instruction.var \in bad]
<1>1. /\ AtInstruction /\ loaded' = Append(loaded, e) /\ at' = <<at[1], at[2] + 1>>
      /\ UNCHANGED <<prog, pass, stage, pos, change, uninit, sound, valueMap, env, bad>>
  BY DEF Load, compile, sets, constants
<1>2. e \in [value : Held, bad : BOOLEAN]
  OBVIOUS
<1> HIDE DEF e
<1>3. /\ at' \in Blocks(prog) \X Nat /\ at'[1] = at[1]
      /\ at'[2] \in 1..(Len(Code(at[1])) + 1)
      /\ loaded' \in Seq([value : Held, bad : BOOLEAN]) /\ Len(loaded') = at'[2] - 1
  BY <1>1, <1>2, InBlock
<1> QED
  BY <1>1, <1>3 DEF TypeInv, Code

LEMMA StoreIs ==
    ASSUME TypeInv, Store
    PROVE  /\ AtInstruction /\ IsStore(Instruction) /\ Instruction.var \in Variables
           /\ env' = [env EXCEPT ![Instruction.var] = StoredValue]
           /\ bad' = IF \E n \in Sources(Instruction) : loaded[n].bad
                     THEN bad \cup {Instruction.var} ELSE bad \ {Instruction.var}
           /\ loaded' = Append(loaded, [value |-> Nothing, bad |-> FALSE])
           /\ at' = <<at[1], at[2] + 1>> /\ uses' = uses
<1>1. AtInstruction /\ IsStore(Instruction)
  BY DEF Store
<1>2. Instruction.var \in Variables
  BY <1>1, HereIs, InstrIs
<1>3. env' = [env EXCEPT ![Instruction.var] = StoredValue]
  BY DEF Store, StoredValue
<1> QED
  BY <1>1, <1>2, <1>3 DEF Store

LEMMA TypeStore ==
    ASSUME TypeInv, Store, UNCHANGED <<compile, sets, constants>> PROVE TypeInv'
<1> DEFINE e == [value |-> Nothing, bad |-> FALSE]
<1>1. /\ AtInstruction /\ IsStore(Instruction) /\ Instruction.var \in Variables
      /\ env' = [env EXCEPT ![Instruction.var] = StoredValue]
      /\ bad' \subseteq bad \cup {Instruction.var}
      /\ loaded' = Append(loaded, e) /\ at' = <<at[1], at[2] + 1>>
  BY StoreIs
<1>2. UNCHANGED <<prog, pass, stage, pos, change, uninit, sound, valueMap>>
  BY DEF compile, sets, constants
<1>3. e \in [value : Held, bad : BOOLEAN]
  BY DEF Held, Nothing
<1> HIDE DEF e
<1>4. /\ at' \in Blocks(prog) \X Nat /\ at'[1] = at[1]
      /\ at'[2] \in 1..(Len(Code(at[1])) + 1)
      /\ loaded' \in Seq([value : Held, bad : BOOLEAN]) /\ Len(loaded') = at'[2] - 1
  BY <1>1, <1>2, <1>3, InBlock
<1>5. env' \in [Variables -> Held] /\ bad' \subseteq Variables
  BY <1>1, SomethingStored DEF TypeInv
<1> QED
  BY <1>2, <1>4, <1>5 DEF TypeInv, Code

LEMMA BranchIs ==
    ASSUME TypeInv, Branch
    PROVE  /\ stage = "run" /\ at[1] \in Blocks(prog) /\ at[2] = Len(Code(at[1])) + 1
           /\ at'[1] \in prog.succs[at[1]] /\ at'[1] \in Blocks(prog) /\ at' = <<at'[1], 1>>
           /\ at[1] \in Preds(prog, at'[1])
           /\ loaded' = <<>> /\ UNCHANGED <<env, bad, uses>>
<1>1. at[1] \in Blocks(prog) /\ Len(Code(at[1])) \in Nat
  BY BlocksAre DEF TypeInv, Code
<1>2. at[2] = Len(Code(at[1])) + 1
  BY <1>1 DEF Branch, TypeInv, Code
<1>3. prog.succs[at[1]] \subseteq Blocks(prog)
  BY <1>1, BlocksAre DEF TypeInv
<1> QED
  BY <1>1, <1>2, <1>3 DEF Branch, Preds

LEMMA TypeBranch ==
    ASSUME TypeInv, Branch, UNCHANGED <<compile, sets, constants>> PROVE TypeInv'
<1>1. /\ at'[1] \in Blocks(prog) /\ at' = <<at'[1], 1>> /\ loaded' = <<>> /\ UNCHANGED <<env, bad>>
  BY BranchIs
<1>2. UNCHANGED <<prog, pass, stage, pos, change, uninit, sound, valueMap>>
  BY DEF compile, sets, constants
<1>3. Len(Code(at'[1])) \in Nat
  BY <1>1, BlocksAre DEF TypeInv, Code
<1>4. /\ at' \in Blocks(prog) \X Nat /\ at'[2] \in 1..(Len(Code(at'[1])) + 1)
      /\ loaded' \in Seq([value : Held, bad : BOOLEAN]) /\ Len(loaded') = at'[2] - 1
  BY <1>1, <1>3
<1> QED
  BY <1>1, <1>2, <1>4 DEF TypeInv, Code

-----------------------------------------------------------------------------
(***************************************************************************)
(* Assignment_2.  When the sweeps end, a block has the values of those     *)
(* before it, so that what a variable holds in a run is a value that its   *)
(* block has for it, if it is a constant at all.                           *)
(***************************************************************************)
Flowed(b) == \A c \in Preds(prog, b) : valueMap[c] \subseteq valueMap[b]

OwnValues ==
    \A b \in Blocks(prog) : \A k \in DOMAIN Code(b) :
        IsStore(Code(b)[k]) => <<Code(b)[k].var, ValueOf(b, k)>> \in valueMap[b]

Flowing ==
    /\ stage = "reach" => replaced = {} /\ (change = 0 => \A b \in 1..(pos - 1) : Flowed(b))
    /\ stage \in {"replace", "run"} => \A b \in Blocks(prog) : Flowed(b)

Replaced ==
    \A c \in replaced : /\ c \in Blocks(prog) \X Nat /\ c[2] \in DOMAIN Code(c[1])
                        /\ Known(c[1], c[2])

Values2 ==
    \A v \in Variables :
        env[v] # Nothing =>
            \E w \in Seq(Int) : <<v, w>> \in valueMap[at[1]] /\ (Len(w) = 1 => env[v] = w)

LEMMA FiniteImage ==
    ASSUME NEW D, NEW T, IsFiniteSet(D), NEW f \in [D -> T], T = {f[x] : x \in D}
    PROVE  IsFiniteSet(T)
<1>1. f \in Surjection(D, T)
  BY DEF Surjection
<1> QED
  BY <1>1, FS_Surjection

FinitelyMany == \A b \in Blocks(prog) : IsFiniteSet(valueMap[b])

Inv2 ==
    /\ Replaced
    /\ pass = "Assignment_2" => OwnValues /\ FinitelyMany /\ Flowing /\ Values2

LEMMA Inv2Init == Init => Inv2
<1> SUFFICES ASSUME Init
             PROVE  Replaced /\ (pass = "Assignment_2" => OwnValues /\ FinitelyMany /\ Flowing /\ Values2)
  BY DEF Inv2
<1>1. /\ InitConstants /\ InitRun /\ prog \in Programs /\ pos = 1
      /\ pass = "Assignment_2" => stage = "reach"
  BY DEF Init
<1>2. FinitelyMany
  <2> SUFFICES ASSUME NEW b \in Blocks(prog) PROVE IsFiniteSet(valueMap[b])
    BY DEF FinitelyMany
  <2> DEFINE K == {k \in DOMAIN prog.code[b] : IsStore(prog.code[b][k])}
             value(k) == <<prog.code[b][k].var, ValueOf(b, k)>>
  <2>1. prog.code[b] \in Seq(Instrs)
    BY <1>1, BlocksAre
  <2>2. IsFiniteSet(1..Len(prog.code[b])) /\ K \subseteq 1..Len(prog.code[b])
    BY <2>1, FS_Interval
  <2>3. IsFiniteSet({value(k) : k \in K})
    <3>1. IsFiniteSet(K)
      BY <2>2, FS_Subset
    <3> HIDE DEF K, value
    <3> DEFINE T == {value(k) : k \in K}
               f == [k \in K |-> value(k)]
    <3>2. f \in [K -> T] /\ T = {f[k] : k \in K}
      OBVIOUS
    <3> HIDE DEF T, f
    <3>3. IsFiniteSet(T)
      BY <3>1, <3>2, FiniteImage
    <3> QED
      BY <3>3 DEF T
  <2> QED
    BY <1>1, <2>3 DEF InitConstants
<1> QED
  BY <1>1, <1>2 DEF InitConstants, InitRun, OwnValues, Flowing, Replaced, Values2, Code

LEMMA PropagateStep ==
    ASSUME TypeInv, Waiting, Inv2, pass = "Assignment_2", Propagate PROVE Inv2'
<1> DEFINE new == valueMap[pos] \cup UNION {valueMap[c] : c \in Preds(prog, pos)}
<1>1. /\ stage = "reach" /\ valueMap' = [valueMap EXCEPT ![pos] = new] /\ pos \in Blocks(prog)
      /\ UNCHANGED <<prog, pass, replaced, at, env>>
      /\ at = <<1, 1>> /\ \A v \in Variables : env[v] = Nothing
  BY DEF Propagate, TypeInv, run, Waiting
<1>2. valueMap[pos] \subseteq new /\ \A c \in Preds(prog, pos) : valueMap[c] \subseteq new
  OBVIOUS
<1>3. new = valueMap[pos] => valueMap' = valueMap /\ Flowed(pos)
  BY <1>1, <1>2 DEF TypeInv, Flowed
<1>4. /\ change' = 0 \/ stage' = "replace" => pos' = 1 \/ (new = valueMap[pos] /\ change = 0)
      /\ stage' = "replace" => new = valueMap[pos] /\ change = 0 /\ pos = Cardinality(Blocks(prog))
      /\ stage' # "replace" => stage' = "reach"
      /\ pos' # 1 => pos' = pos + 1
  BY <1>1, Places DEF Propagate
<1> HIDE DEF new
<1>5. OwnValues'
  <2>1. \A b \in Blocks(prog) : valueMap[b] \subseteq valueMap'[b]
    BY <1>1, <1>2 DEF TypeInv
  <2> QED
    BY <1>1, <2>1 DEF Inv2, OwnValues, Code, ValueOf
<1>6. Flowing'
  <2>1. ASSUME stage' = "reach", change' = 0, NEW b \in 1..(pos' - 1) PROVE Flowed(b)'
    <3>1. pos' # 1 /\ pos' = pos + 1
      BY <1>4, <2>1
    <3>2. new = valueMap[pos] /\ change = 0
      BY <1>4, <2>1, <3>1
    <3>3. Flowed(b)
      BY <1>1, <1>3, <3>1, <3>2, Places DEF Inv2, Flowing
    <3> QED
      BY <1>1, <1>3, <3>2, <3>3 DEF Flowed
  <2>2. ASSUME stage' = "replace", NEW b \in Blocks(prog) PROVE Flowed(b)'
    <3>1. new = valueMap[pos] /\ change = 0 /\ pos = Cardinality(Blocks(prog))
      BY <1>4, <2>2
    <3>2. Flowed(b)
      BY <1>1, <1>3, <3>1, Places DEF Inv2, Flowing
    <3> QED
      BY <1>1, <1>3, <3>1, <3>2 DEF Flowed
  <2> QED
    BY <1>1, <1>4, <2>1, <2>2 DEF Flowing, Inv2
<1>7. Replaced' /\ Values2'
  BY <1>1 DEF Inv2, Flowing, Replaced, Values2
<1>8. FinitelyMany'
  <2>1. IsFiniteSet({valueMap[c] : c \in Preds(prog, pos)})
    <3>1. IsFiniteSet(Blocks(prog)) /\ Preds(prog, pos) \subseteq Blocks(prog)
      BY Places, FS_Interval DEF Preds
    <3>2. IsFiniteSet(Preds(prog, pos))
      BY <3>1, FS_Subset
    <3> DEFINE T == {valueMap[c] : c \in Preds(prog, pos)}
               f == [c \in Preds(prog, pos) |-> valueMap[c]]
    <3>3. f \in [Preds(prog, pos) -> T] /\ T = {f[c] : c \in Preds(prog, pos)}
      OBVIOUS
    <3> HIDE DEF f, T
    <3>4. IsFiniteSet(T)
      BY <3>2, <3>3, FiniteImage
    <3> QED
      BY <3>4 DEF T
  <2>2. \A c \in Preds(prog, pos) : IsFiniteSet(valueMap[c])
    BY DEF Inv2, FinitelyMany, Preds
  <2>3. IsFiniteSet(UNION {valueMap[c] : c \in Preds(prog, pos)})
    BY <2>1, <2>2, FS_UNION
  <2>4. IsFiniteSet(new)
    BY <1>1, <2>3, FS_Union DEF new, Inv2, FinitelyMany
  <2> QED
    BY <1>1, <2>4 DEF Inv2, FinitelyMany, TypeInv
<1> QED
  BY <1>5, <1>6, <1>7, <1>8 DEF Inv2

LEMMA ErasedAre ==
    ASSUME NEW b, NEW c \in Erased(b)
    PROVE  \E k \in DOMAIN Code(b) : c = <<b, k>> /\ Known(b, k)
<1> DEFINE left == {k \in DOMAIN prog.code[b] : <<b, k>> \notin replaced}
           before(k) == {l \in left : l < k}
           passed == CHOOSE passed : passed = [k \in left |->
               before(k) # {} /\ Known(b, Max(before(k))) /\ ~passed[Max(before(k))]]
<1>1. Erased(b) = {<<b, k>> : k \in {l \in left : Known(b, l) /\ ~passed[l]}}
  BY Zenon DEF Erased
<1> HIDE DEF passed
<1> QED
  BY <1>1 DEF Code

LEMMA ReplaceStep ==
    ASSUME TypeInv, Waiting, Inv2, pass = "Assignment_2", Replace PROVE Inv2'
<1>1. /\ UNCHANGED <<prog, pass, valueMap, at, env>> /\ stage = "replace"
      /\ stage' \in {"replace", "run"} /\ replaced' = replaced \cup Erased(pos)
      /\ pos \in Blocks(prog)
  BY DEF Replace, run, TypeInv
<1>2. \A c \in Erased(pos) : c = <<pos, c[2]>> /\ c[2] \in DOMAIN Code(pos) /\ Known(pos, c[2])
  BY ErasedAre
<1>3. DOMAIN Code(pos) \subseteq Nat
  <2>1. Code(pos) \in Seq(Instrs)
    BY <1>1, BlocksAre DEF TypeInv, Code
  <2> QED
    BY <2>1
<1>4. Replaced'
  <2>1. \A b, k : Known(b, k)' = Known(b, k)
    BY <1>1 DEF Known, OnlyConstant, Values
  <2> QED
    BY <1>1, <1>2, <1>3, <2>1 DEF Inv2, Replaced, Code
<1> QED
  BY <1>1, <1>4 DEF Inv2, OwnValues, FinitelyMany, Flowing, Flowed, Values2, Code, ValueOf

\* A load is replaced by what its block knows of the variable.
LEMMA ConstantTyped ==
    ASSUME TypeInv, Inv2, AtInstruction, at \in replaced
    PROVE  /\ ~IsStore(Instruction) /\ OnlyConstant(at[1], Instruction.var) # {}
           /\ Constant(at) \in OnlyConstant(at[1], Instruction.var) /\ Constant(at) \in Held
<1>1. Instruction = prog.code[at[1]][at[2]] /\ at[1] \in Blocks(prog)
  BY HereIs DEF Code
<1>2. ~IsStore(Instruction) /\ OnlyConstant(at[1], Instruction.var) # {}
  BY <1>1 DEF Inv2, Replaced, Known
<1>3. Constant(at) \in OnlyConstant(at[1], Instruction.var)
  BY <1>1, <1>2 DEF Constant
<1>4. OnlyConstant(at[1], Instruction.var) \subseteq Seq(Int)
  BY <1>1 DEF OnlyConstant, Values, TypeInv
<1> QED
  BY <1>2, <1>3, <1>4 DEF Held

LEMMA ValueTyped ==
    ASSUME TypeInv, Inv2, AtInstruction
    PROVE  (IF at \in replaced THEN Constant(at) ELSE env[Instruction.var]) \in Held
  BY ConstantTyped, HereIs, InstrIs DEF TypeInv

LEMMA Running2 ==
    ASSUME TypeInv, Inv2, UNCHANGED <<compile, constants>>, Values2' PROVE Inv2'
<1>1. UNCHANGED <<prog, pass, stage, pos, change, valueMap, replaced>>
  BY DEF compile, constants
<1> QED
  BY <1>1 DEF Inv2, OwnValues, FinitelyMany, Flowing, Flowed, Replaced, Known, OnlyConstant, Values,
              Code, ValueOf

LEMMA LoadStep2 ==
    ASSUME TypeInv, Inv2, NEW value, Load(value), UNCHANGED <<compile, constants>> PROVE Inv2'
<1>1. UNCHANGED <<prog, pass, valueMap, env>> /\ at' = <<at[1], at[2] + 1>>
  BY DEF Load, compile, constants
<1>2. CASE pass = "Assignment_2"
  BY <1>1, <1>2, Running2 DEF Inv2, Values2
<1>3. CASE pass # "Assignment_2"
  BY <1>3 DEF Inv2, Replaced, Known, OnlyConstant, Values, Code, compile, constants
<1> QED
  BY <1>2, <1>3

LEMMA StoreStep2 ==
    ASSUME TypeInv, Inv2, Store, UNCHANGED <<compile, constants>> PROVE Inv2'
<1>1. /\ UNCHANGED <<prog, pass, valueMap>> /\ at' = <<at[1], at[2] + 1>>
      /\ AtInstruction /\ IsStore(Instruction)
      /\ env' = [env EXCEPT ![Instruction.var] = StoredValue]
  BY StoreIs DEF compile, constants
<1>2. CASE pass = "Assignment_2"
  <2> DEFINE w == ValueOf(at[1], at[2])
  <2>1. /\ Instruction = Code(at[1])[at[2]] /\ at[1] \in Blocks(prog) /\ at[2] \in DOMAIN Code(at[1])
        /\ at[1] \in Int /\ at[2] \in Int /\ Instruction \in Instrs
    BY <1>1, HereIs, Places
  <2>2. <<Instruction.var, w>> \in valueMap[at[1]]
    BY <1>1, <1>2, <2>1 DEF Inv2, OwnValues
  <2>3. w \in Seq(Int) /\ (Len(w) = 1 => StoredValue = w)
    <3>1. CASE IsConst(Instruction)
      BY <2>1, <3>1, InstrIs DEF ValueOf, StoredValue, Code
    <3>2. CASE ~IsConst(Instruction)
      BY <2>1, <3>2 DEF ValueOf, Code
    <3> QED
      BY <3>1, <3>2
  <2> HIDE DEF w
  <2>4. Values2'
    <3> SUFFICES ASSUME NEW v \in Variables, env'[v] # Nothing
                 PROVE  \E u \in Seq(Int) : <<v, u>> \in valueMap[at[1]] /\ (Len(u) = 1 => env'[v] = u)
      BY <1>1 DEF Values2
    <3>1. CASE v = Instruction.var
      BY <1>1, <2>2, <2>3, <3>1 DEF TypeInv
    <3>2. CASE v # Instruction.var
      BY <1>1, <1>2, <3>2 DEF TypeInv, Inv2, Values2
    <3> QED
      BY <3>1, <3>2
  <2> QED
    BY <2>4, Running2
<1>3. CASE pass # "Assignment_2"
  BY <1>3 DEF Inv2, Replaced, Known, OnlyConstant, Values, Code, compile, constants
<1> QED
  BY <1>2, <1>3

LEMMA BranchStep2 ==
    ASSUME TypeInv, Inv2, Branch, UNCHANGED <<compile, constants>> PROVE Inv2'
<1>1. /\ UNCHANGED <<prog, pass, valueMap, env>> /\ stage = "run"
      /\ at[1] \in Blocks(prog) /\ at'[1] \in Blocks(prog) /\ at[1] \in Preds(prog, at'[1])
  BY BranchIs DEF compile, constants
<1>2. CASE pass = "Assignment_2"
  <2>1. valueMap[at[1]] \subseteq valueMap[at'[1]]
    BY <1>1, <1>2 DEF Inv2, Flowing, Flowed
  <2>2. Values2'
    BY <1>1, <1>2, <2>1 DEF Inv2, Values2
  <2> QED
    BY <2>2, Running2
<1>3. CASE pass # "Assignment_2"
  BY <1>3 DEF Inv2, Replaced, Known, OnlyConstant, Values, Code, compile, constants
<1> QED
  BY <1>2, <1>3

\* There is one value the variable can have been stored, and it is the constant.
LEMMA OnlyValue ==
    ASSUME TypeInv, Inv2, pass = "Assignment_2"
    PROVE  ConstantsHold
<1> SUFFICES ASSUME AtInstruction, at \in replaced, env[Instruction.var] # Nothing
             PROVE  env[Instruction.var] = Constant(at)
  BY DEF ConstantsHold
<1> DEFINE v == Instruction.var
           V == Values(at[1], v)
<1>1. /\ v \in Variables /\ at[1] \in Blocks(prog)
      /\ OnlyConstant(at[1], v) # {} /\ Constant(at) \in OnlyConstant(at[1], v)
  BY ConstantTyped, HereIs, InstrIs
<1>2. Cardinality(V) = 1 /\ Constant(at) \in V /\ Len(Constant(at)) = 1
  BY <1>1 DEF OnlyConstant
<1>3. PICK w \in Seq(Int) : <<v, w>> \in valueMap[at[1]] /\ (Len(w) = 1 => env[v] = w)
  BY <1>1 DEF Inv2, Values2
<1>4. w \in V
  BY <1>3 DEF Values
<1>5. IsFiniteSet(V)
  <2> DEFINE M == {u \in valueMap[at[1]] : u[1] = v}
             f == [u \in M |-> u[2]]
  <2>1. IsFiniteSet(M)
    BY <1>1, FS_Subset DEF Inv2, FinitelyMany
  <2>2. f \in [M -> V] /\ V = {f[u] : u \in M}
    BY DEF Values
  <2> HIDE DEF M, f, V
  <2> QED
    BY <2>1, <2>2, FiniteImage
<1>6. w = Constant(at)
  BY <1>2, <1>4, <1>5, FS_Singleton
<1> QED
  BY <1>2, <1>3, <1>6

-----------------------------------------------------------------------------
(***************************************************************************)
(* The steps together.                                                     *)
(***************************************************************************)
LEMMA TypeNext == ASSUME TypeInv, Inv2, Next PROVE TypeInv'
<1>1. CASE pass = "Assignment_4" /\ Analyse /\ UNCHANGED constants
  BY <1>1, TypeSweepUninit, TypeGenAndKill, TypeSweepSound DEF Analyse
<1>2. CASE pass = "Assignment_2" /\ (Propagate \/ Replace) /\ UNCHANGED sets
  BY <1>2, TypePropagate, TypeReplace
<1>3. CASE Run
  <2> DEFINE value == IF at \in replaced THEN Constant(at) ELSE env[Instruction.var]
  <2>1. (Load(value) \/ Store \/ Branch) /\ UNCHANGED <<compile, sets, constants>>
    BY <1>3 DEF Run
  <2>2. CASE Load(value)
    <3>1. value \in Held
      BY <2>2, ValueTyped DEF Load
    <3> HIDE DEF value
    <3> QED
      BY <2>1, <2>2, <3>1, TypeLoad
  <2> QED
    BY <2>1, <2>2, TypeStore, TypeBranch
<1> QED
  BY <1>1, <1>2, <1>3 DEF Next, Compile

LEMMA WaitingNext == ASSUME TypeInv, Waiting, Next PROVE Waiting'
<1>1. CASE Run
  BY <1>1 DEF Run, Load, Store, Branch, AtInstruction, compile, Waiting
<1>2. CASE Compile
  <2>1. UNCHANGED <<at, env, bad, uses>> /\ stage # "run"
    BY <1>2 DEF Compile, Analyse, SweepUninit, GenAndKill, SweepSound, Propagate, Replace, run
  <2> QED
    BY <2>1 DEF Waiting
<1> QED
  BY <1>1, <1>2 DEF Next

LEMMA Next2 == ASSUME TypeInv, Waiting, Inv2, Next PROVE Inv2'
<1>1. CASE pass = "Assignment_4" /\ Analyse /\ UNCHANGED constants
  <2>1. UNCHANGED <<prog, pass, valueMap, replaced>>
    BY <1>1 DEF Analyse, SweepUninit, GenAndKill, SweepSound, constants
  <2> QED
    BY <1>1, <2>1 DEF Inv2, Replaced, Known, OnlyConstant, Values, Code
<1>2. CASE pass = "Assignment_2" /\ (Propagate \/ Replace) /\ UNCHANGED sets
  BY <1>2, PropagateStep, ReplaceStep
<1>3. CASE Run
  BY <1>3, LoadStep2, StoreStep2, BranchStep2 DEF Run
<1> QED
  BY <1>1, <1>2, <1>3 DEF Next, Compile

LEMMA Replaced4 == TypeInv /\ pass = "Assignment_4" /\ replaced = {} => ConstantsHold
  BY DEF ConstantsHold

\* In Assignment_4 nothing is replaced.
Untouched == pass = "Assignment_4" => replaced = {}

LEMMA Inv2Always == Spec => [](TypeInv /\ Waiting /\ Inv2 /\ Untouched)
<1> DEFINE I == TypeInv /\ Waiting /\ Inv2 /\ Untouched
<1>1. Init => I
  BY TypeInit, Inv2Init DEF Init, InitConstants, Untouched
<1>2. I /\ [Next]_vars => I'
  <2> SUFFICES ASSUME I, [Next]_vars PROVE I'
    OBVIOUS
  <2>1. CASE Next
    <3>1. Untouched'
      BY <2>1 DEF Untouched, Next, Compile, Run, compile, constants, Analyse, SweepUninit, GenAndKill,
                  SweepSound, Propagate, Replace
    <3> QED
      BY <2>1, <3>1, TypeNext, WaitingNext, Next2
  <2>2. CASE UNCHANGED vars
    BY <2>2 DEF vars, compile, sets, constants, run, TypeInv, Waiting, Inv2, Untouched, Code,
                OwnValues, FinitelyMany, Flowing, Flowed, Values2, ValueOf, Replaced, Known,
                OnlyConstant, Values
  <2> QED
    BY <2>1, <2>2
<1> QED
  BY <1>1, <1>2, PTL DEF Spec

(***************************************************************************)
(* A load that Assignment_2.cc replaces by a constant would have read that *)
(* constant, or nothing yet, on every way a run can come to it.            *)
(***************************************************************************)
THEOREM ConstantsAreRight == Spec => []ConstantsHold
<1>1. TypeInv => pass \in {"Assignment_2", "Assignment_4"}
  BY DEF TypeInv
<1>2. TypeInv /\ Inv2 /\ Untouched => ConstantsHold
  BY <1>1, OnlyValue, Replaced4 DEF Untouched
<1> QED
  BY <1>2, Inv2Always, PTL

-----------------------------------------------------------------------------
(***************************************************************************)
(* Assignment_4.  When the backward analysis ends, a variable that is used *)
(* in a block before it is stored is in the sets of every block on the way *)
(* to it, back to the entry.  When the forward one ends, what is computed  *)
(* from such a variable is in the sets of every block behind.              *)
(***************************************************************************)
UpSettled(b) ==
    InValues(b) \subseteq uninit[b].in /\ OutValues(b, uninit[b].in) \subseteq uninit[b].out

DownSettled(b) ==
    /\ \A c \in Preds(prog, b) : sound[c].out \subseteq sound[b].in
    /\ (sound[b].in \ sound[b].kill) \cup sound[b].gen \subseteq sound[b].out

Generated == \A b \in Blocks(prog) : GenOf(b) \subseteq sound[b].gen

UpFlow ==
    /\ stage = "uninit" /\ change = 0 => \A b \in 1..(pos - 1) : UpSettled(b)
    /\ stage # "uninit" => \A b \in Blocks(prog) : UpSettled(b)

DownFlow ==
    /\ stage = "gen" => pos = 1
    /\ stage = "sound" /\ change = 0 => Generated /\ \A b \in 1..(pos - 1) : DownSettled(b)
    /\ stage = "run" => Generated /\ \A b \in Blocks(prog) : DownSettled(b)
    /\ \A b \in Blocks(prog) : sound[b].kill \subseteq Stored(prog, b)

StoredBefore(v) == \E k \in 1..(at[2] - 1) : IsStore(Code(at[1])[k]) /\ Code(at[1])[k].var = v

\* What still holds nothing was stored by no block on the way.
Fresh ==
    \A v \in Variables :
        env[v] = Nothing => ~StoredBefore(v) /\ (v \in uninit[at[1]].in => v \in uninit[1].in)

Spoilt ==
    /\ \A v \in bad : IF StoredBefore(v) THEN v \in sound[at[1]].gen ELSE v \in sound[at[1]].in
    /\ \A n \in 1..(at[2] - 1) : loaded[n].bad => Code(at[1])[n].var \in Bad(at[1])

Inv4 ==
    pass = "Assignment_4" =>
        /\ UpFlow /\ DownFlow /\ Fresh /\ UsesReported
        /\ Separate(prog) /\ Direct(prog) => Spoilt

LEMMA SweepIs ==
    ASSUME TypeInv, NEW again, NEW next, NEW changed, Sweep(again, next, changed)
    PROVE  \/ pos' = pos + 1 /\ stage' = stage /\ (change' = 0 => ~changed /\ change = 0)
           \/ pos' = 1 /\ stage' = again
           \/ /\ pos' = 1 /\ stage' = next /\ ~changed /\ change = 0
              /\ pos = Cardinality(Blocks(prog))
  BY Places DEF Sweep

LEMMA NothingRun ==
    ASSUME Waiting, stage # "run", UNCHANGED <<prog, at, env, bad, uses>>
    PROVE  Fresh' /\ UsesReported' /\ Spoilt'
<1>1. at' = <<1, 1>> /\ bad' = {} /\ uses' = {} /\ 1..(at'[2] - 1) = {}
  BY DEF Waiting
<1>2. Fresh'
  BY <1>1 DEF Fresh, StoredBefore
<1> QED
  BY <1>1, <1>2 DEF UsesReported, Spoilt

LEMMA Inv4Init == Init => Inv4
<1> SUFFICES ASSUME Init, pass = "Assignment_4"
             PROVE  UpFlow /\ DownFlow /\ Fresh /\ UsesReported /\ Spoilt
  BY DEF Inv4
<1>1. stage = "uninit" /\ change = 1 /\ InitRun /\ InitUnsoundness
  BY DEF Init
<1>2. at = <<1, 1>> /\ bad = {} /\ uses = {} /\ 1..(at[2] - 1) = {}
  BY <1>1 DEF InitRun
<1>3. Fresh
  BY <1>2 DEF Fresh, StoredBefore
<1>4. \A b \in Blocks(prog) : sound[b].kill = {}
  BY <1>1 DEF InitUnsoundness, EmptySets
<1> QED
  BY <1>1, <1>2, <1>3, <1>4 DEF UpFlow, DownFlow, UsesReported, Spoilt

LEMMA SweepUninitStep ==
    ASSUME TypeInv, Waiting, Inv4, pass = "Assignment_4", SweepUninit, UNCHANGED constants
    PROVE  Inv4'
<1> DEFINE new == [uninit[pos] EXCEPT !.in = InValues(pos), !.out = OutValues(pos, InValues(pos))]
<1>1. /\ stage = "uninit" /\ Sweep("uninit", "gen", new # uninit[pos])
      /\ UNCHANGED <<prog, pass, sound, at, env, bad, uses>>
  BY DEF SweepUninit, run
<1>2. uninit' = [uninit EXCEPT ![pos] = new] /\ pos \in Blocks(prog) /\ uninit[pos] \in DataSets
  BY TypeSweepUninit DEF TypeInv
<1>3. new = uninit[pos] => uninit' = uninit /\ UpSettled(pos)
  <2>1. new.in = InValues(pos) /\ new.out = OutValues(pos, InValues(pos))
    BY <1>2 DEF DataSets
  <2> HIDE DEF new
  <2> QED
    BY <1>2, <2>1 DEF TypeInv, UpSettled
<1> HIDE DEF new
<1>4. \/ pos' = pos + 1 /\ stage' = "uninit" /\ (change' = 0 => new = uninit[pos] /\ change = 0)
      \/ pos' = 1 /\ stage' = "uninit"
      \/ /\ pos' = 1 /\ stage' = "gen" /\ new = uninit[pos] /\ change = 0
         /\ pos = Cardinality(Blocks(prog))
  BY <1>1, SweepIs
<1>5. ASSUME new = uninit[pos], change = 0, NEW b \in 1..pos PROVE UpSettled(b)'
  <2>1. UpSettled(b)
    <3>1. CASE b = pos
      BY <1>3, <1>5, <3>1
    <3>2. CASE b # pos
      <4>1. b \in 1..(pos - 1)
        BY <1>5, <3>2, Places
      <4> QED
        BY <1>1, <1>5, <4>1 DEF Inv4, UpFlow
    <3> QED
      BY <3>1, <3>2
  <2> QED
    BY <1>1, <1>3, <1>5, <2>1 DEF UpSettled, InValues, OutValues
<1>6. UpFlow'
  <2>1. ASSUME stage' = "uninit", change' = 0, NEW b \in 1..(pos' - 1) PROVE UpSettled(b)'
    <3>1. pos' = pos + 1 /\ new = uninit[pos] /\ change = 0
      BY <1>4, <2>1
    <3>2. b \in 1..pos
      BY <2>1, <3>1, Places
    <3> QED
      BY <1>5, <3>1, <3>2
  <2>2. ASSUME stage' # "uninit", NEW b \in Blocks(prog) PROVE UpSettled(b)'
    <3>1. pos = Cardinality(Blocks(prog)) /\ new = uninit[pos] /\ change = 0
      BY <1>4, <2>2
    <3> QED
      BY <1>5, <2>2, <3>1, Places
  <2> QED
    BY <1>1, <2>1, <2>2 DEF UpFlow
<1>7. DownFlow'
  BY <1>1, <1>4 DEF Inv4, DownFlow
<1> QED
  BY <1>1, <1>6, <1>7, NothingRun DEF Inv4

LEMMA GenAndKillStep ==
    ASSUME TypeInv, Waiting, Inv4, pass = "Assignment_4", GenAndKill, UNCHANGED constants
    PROVE  Inv4'
<1>1. /\ stage = "gen" /\ stage' = "sound"
      /\ UNCHANGED <<prog, pass, pos, change, uninit, at, env, bad, uses>>
  BY DEF GenAndKill, run
<1>2. ASSUME NEW b \in Blocks(prog)
      PROVE  /\ sound'[b].out = sound[b].out /\ GenOf(b) \subseteq sound'[b].gen
             /\ sound'[b].kill \subseteq Stored(prog, b)
  <2>1. sound[b] \in DataSets /\ sound[b].kill \subseteq Stored(prog, b)
    BY DEF TypeInv, Inv4, DownFlow
  <2>2. KilledOf(b) \subseteq Stored(prog, b)
    BY GenKillTyped
  <2>3. sound' = [c \in Blocks(prog) |->
                    [sound[c] EXCEPT !.gen = @ \cup GenOf(c), !.kill = @ \cup KilledOf(c)]]
    BY DEF GenAndKill
  <2> QED
    BY <2>1, <2>2, <2>3 DEF DataSets
<1>3. \A b \in Blocks(prog) : GenOf(b)' = GenOf(b)
  <2>1. \A b \in Blocks(prog) : Bad(b)' = Bad(b)
    BY <1>1, <1>2 DEF Bad, UnInitVariables
  <2> QED
    BY <1>1, <2>1 DEF GenOf
<1>4. pos' = 1
  BY <1>1 DEF Inv4, DownFlow
<1>5. DownFlow'
  <2>1. Generated'
    BY <1>1, <1>2, <1>3 DEF Generated
  <2> QED
    BY <1>1, <1>2, <1>4, <2>1 DEF DownFlow
<1>6. UpFlow'
  <2>1. \A b \in Blocks(prog) : UpSettled(b)
    BY <1>1 DEF Inv4, UpFlow
  <2>2. \A b \in Blocks(prog) : UpSettled(b)' = UpSettled(b)
    BY <1>1 DEF UpSettled, InValues, OutValues
  <2> QED
    BY <1>1, <2>1, <2>2 DEF UpFlow
<1> QED
  BY <1>1, <1>5, <1>6, NothingRun DEF Inv4

LEMMA SweepSoundStep ==
    ASSUME TypeInv, Waiting, Inv4, pass = "Assignment_4", SweepSound, UNCHANGED constants
    PROVE  Inv4'
<1>1. /\ stage = "sound" /\ UNCHANGED <<prog, pass, uninit, at, env, bad, uses>>
      /\ sound' = [sound EXCEPT ![pos] = SoundNew] /\ Sweep("gen", "run", SoundNew # sound[pos])
  BY TypeSweepSound DEF SweepSound, run
<1>2. pos \in Blocks(prog) /\ sound[pos] \in DataSets
  BY DEF TypeInv
<1>3. /\ SoundNew.in = SoundIn /\ SoundNew.kill = sound[pos].kill /\ SoundNew.gen = sound[pos].gen
      /\ SoundNew.out = sound[pos].out \cup (SoundIn \ sound[pos].kill) \cup sound[pos].gen
  BY <1>2 DEF SoundNew, DataSets
<1>4. SoundNew = sound[pos] => sound' = sound /\ DownSettled(pos)
  <2>1. \A c \in Preds(prog, pos) : sound[c].out \subseteq SoundIn
    BY DEF SoundIn
  <2> QED
    BY <1>1, <1>2, <1>3, <2>1 DEF TypeInv, DownSettled
<1>5. \/ pos' = pos + 1 /\ stage' = "sound" /\ (change' = 0 => SoundNew = sound[pos] /\ change = 0)
      \/ pos' = 1 /\ stage' = "gen"
      \/ /\ pos' = 1 /\ stage' = "run" /\ SoundNew = sound[pos] /\ change = 0
         /\ pos = Cardinality(Blocks(prog))
  BY <1>1, SweepIs
<1>6. ASSUME SoundNew = sound[pos], change = 0
      PROVE  Generated' /\ \A b \in 1..pos : DownSettled(b)'
  <2>1. UNCHANGED <<prog, uninit, sound>>
    BY <1>1, <1>4, <1>6
  <2>2. Generated
    BY <1>1, <1>6 DEF Inv4, DownFlow
  <2>3. Generated'
    BY <2>1, <2>2 DEF Generated, GenOf, Bad, UnInitVariables
  <2>4. ASSUME NEW b \in 1..pos PROVE DownSettled(b)
    <3>1. CASE b = pos
      BY <1>4, <1>6, <3>1
    <3>2. CASE b # pos
      <4>1. b \in 1..(pos - 1)
        BY <2>4, <3>2, Places
      <4> QED
        BY <1>1, <1>6, <4>1 DEF Inv4, DownFlow
    <3> QED
      BY <3>1, <3>2
  <2> QED
    BY <2>1, <2>3, <2>4 DEF DownSettled
<1>7. DownFlow'
  <2>1. \A b \in Blocks(prog) : sound'[b].kill \subseteq Stored(prog, b)
    BY <1>1, <1>2, <1>3 DEF TypeInv, Inv4, DownFlow
  <2>2. ASSUME stage' = "sound", change' = 0
        PROVE  Generated' /\ \A b \in 1..(pos' - 1) : DownSettled(b)'
    <3>1. pos' = pos + 1 /\ SoundNew = sound[pos] /\ change = 0
      BY <1>5, <2>2
    <3>2. 1..(pos' - 1) = 1..pos
      BY <3>1, Places
    <3> QED
      BY <1>6, <3>1, <3>2
  <2>3. ASSUME stage' = "run" PROVE Generated' /\ \A b \in Blocks(prog) : DownSettled(b)'
    <3>1. SoundNew = sound[pos] /\ change = 0 /\ Blocks(prog) = 1..pos
      BY <1>5, <2>3, Places
    <3> QED
      BY <1>6, <3>1
  <2> QED
    BY <1>1, <1>5, <2>1, <2>2, <2>3 DEF DownFlow
<1>8. UpFlow'
  <2>1. stage' # "uninit"
    BY <1>5
  <2> QED
    BY <1>1, <2>1 DEF Inv4, UpFlow, UpSettled, InValues, OutValues
<1> QED
  BY <1>1, <1>7, <1>8, NothingRun DEF Inv4

LEMMA StoredThere ==
    ASSUME TypeInv, NEW v
    PROVE  /\ StoredBefore(v) => v \in Stored(prog, at[1])
           /\ at[2] = Len(Code(at[1])) + 1 /\ v \in Stored(prog, at[1]) => StoredBefore(v)
<1>1. Code(at[1]) \in Seq(Instrs) /\ at[2] \in 1..(Len(Code(at[1])) + 1)
  BY BlocksAre DEF TypeInv, Code
<1>2. \A k \in 1..(at[2] - 1) : k \in DOMAIN Code(at[1])
  BY <1>1
<1>3. DOMAIN Code(at[1]) = 1..Len(Code(at[1]))
  BY <1>1
<1>4. StoredBefore(v) => v \in Stored(prog, at[1])
  BY <1>2 DEF StoredBefore, Stored, Instructions, Code
<1>5. ASSUME at[2] = Len(Code(at[1])) + 1, v \in Stored(prog, at[1]) PROVE StoredBefore(v)
  <2>1. PICK k \in DOMAIN Code(at[1]) : IsStore(Code(at[1])[k]) /\ Code(at[1])[k].var = v
    BY <1>5 DEF Stored, Instructions, Code
  <2> QED
    BY <1>1, <1>3, <1>5, <2>1 DEF StoredBefore
<1> QED
  BY <1>4, <1>5

LEMMA StoredNext ==
    ASSUME TypeInv, AtInstruction, at' = <<at[1], at[2] + 1>>, UNCHANGED prog, NEW v
    PROVE  StoredBefore(v)' <=> StoredBefore(v) \/ (IsStore(Instruction) /\ Instruction.var = v)
<1>1. /\ at'[1] = at[1] /\ at[2] \in Nat \ {0} /\ at'[2] - 1 = at[2]
      /\ Instruction = Code(at[1])[at[2]]
  BY HereIs
<1>2. 1..(at'[2] - 1) = 1..(at[2] - 1) \cup {at[2]}
  BY <1>1
<1> QED
  BY <1>1, <1>2 DEF StoredBefore, Code

LEMMA Settled4 ==
    ASSUME TypeInv, Inv4, pass = "Assignment_4", stage = "run", NEW b \in Blocks(prog)
    PROVE  /\ uninit[b].gen \ uninit[b].kill \subseteq uninit[b].out
           /\ uninit[b].out \ uninit[b].kill \subseteq uninit[b].in
           /\ \A c \in prog.succs[b] : uninit[c].in \ uninit[b].kill \subseteq uninit[b].out
           /\ uninit[b].gen = Loaded(prog, b) /\ uninit[b].kill = Stored(prog, b)
           /\ \A c \in Preds(prog, b) : sound[c].out \subseteq sound[b].in
           /\ sound[b].in \ Stored(prog, b) \subseteq sound[b].out
           /\ sound[b].gen \subseteq sound[b].out /\ GenOf(b) \subseteq sound[b].gen
<1>1. UpSettled(b) /\ DownSettled(b) /\ Generated
  BY DEF Inv4, UpFlow, DownFlow
<1>2. sound[b].kill \subseteq Stored(prog, b)
  BY DEF Inv4, DownFlow
<1>3. OutValues(b, uninit[b].in) \subseteq uninit[b].out /\ InValues(b) \subseteq uninit[b].in
  BY <1>1 DEF UpSettled
<1>4. uninit[b].gen \ uninit[b].kill \subseteq OutValues(b, uninit[b].in)
  BY DEF OutValues
<1>5. \A c \in prog.succs[b] : uninit[c].in \ uninit[b].kill \subseteq OutValues(b, uninit[b].in)
  BY DEF OutValues
<1>6. uninit[b].out \ uninit[b].kill \subseteq InValues(b)
  BY DEF InValues
<1>7. uninit[b].gen = Loaded(prog, b) /\ uninit[b].kill = Stored(prog, b)
  BY DEF TypeInv
<1>8. /\ \A c \in Preds(prog, b) : sound[c].out \subseteq sound[b].in
      /\ (sound[b].in \ sound[b].kill) \cup sound[b].gen \subseteq sound[b].out
      /\ GenOf(b) \subseteq sound[b].gen
  BY <1>1 DEF DownSettled, Generated
<1> QED
  BY <1>2, <1>3, <1>4, <1>5, <1>6, <1>7, <1>8

\* The load of a variable that holds nothing is warned of.
LEMMA UseIsReported ==
    ASSUME TypeInv, Inv4, pass = "Assignment_4", AtInstruction, ~IsStore(Instruction),
           env[Instruction.var] = Nothing
    PROVE  \/ Instruction.var \in uninit[at[1]].kill
           \/ Instruction.var \in UnInitVariables \cap uninit[at[1]].out
<1> DEFINE v == Instruction.var
<1> SUFFICES ASSUME v \notin uninit[at[1]].kill PROVE v \in UnInitVariables /\ v \in uninit[at[1]].out
  OBVIOUS
<1>1. at[1] \in Blocks(prog) /\ stage = "run" /\ v \in Variables /\ v \in Loaded(prog, at[1])
  BY HereIs, InstrIs, StoredAre DEF AtInstruction, Code
<1>2. v \in uninit[at[1]].gen /\ v \in uninit[at[1]].out /\ v \in uninit[at[1]].in
  BY <1>1, Settled4
<1>3. v \in uninit[1].in
  BY <1>1, <1>2 DEF Inv4, Fresh
<1> QED
  BY <1>1, <1>2, <1>3 DEF UnInitVariables

LEMMA SpoiltLoad ==
    ASSUME TypeInv, Inv4, pass = "Assignment_4", AtInstruction, ~IsStore(Instruction),
           Separate(prog), Direct(prog), env[Instruction.var] = Nothing \/ Instruction.var \in bad
    PROVE  Instruction.var \in Bad(at[1])
<1> DEFINE v == Instruction.var
<1>1. at[1] \in Blocks(prog) /\ stage = "run" /\ v \in Loaded(prog, at[1]) /\ v \notin Stored(prog, at[1])
  BY HereIs, StoredAre DEF AtInstruction, Code, Separate
<1>2. CASE env[v] = Nothing
  BY <1>1, <1>2, UseIsReported, Settled4 DEF Bad
<1>3. CASE v \in bad
  <2>1. v \in sound[at[1]].in
    BY <1>1, <1>3, StoredThere DEF Inv4, Spoilt
  <2> QED
    BY <1>1, <2>1, Settled4 DEF Bad
<1> QED
  BY <1>2, <1>3

LEMMA RunningFlows ==
    ASSUME Inv4, pass = "Assignment_4", UNCHANGED <<compile, sets>>
    PROVE  UpFlow' /\ DownFlow'
<1>1. UNCHANGED <<prog, stage, pos, change, uninit, sound>>
  BY DEF compile, sets
<1>2. UpFlow'
  BY <1>1 DEF Inv4, UpFlow, UpSettled, InValues, OutValues
<1>3. DownFlow'
  BY <1>1 DEF Inv4, DownFlow, DownSettled, Generated, GenOf, Bad, UnInitVariables
<1> QED
  BY <1>2, <1>3

LEMMA LoadStep4 ==
    ASSUME TypeInv, Inv4, pass = "Assignment_4", NEW value \in Held, Load(value),
           UNCHANGED <<compile, sets, constants>>
    PROVE  Inv4'
<1> DEFINE v == Instruction.var
           e == [value |-> value, bad |-> env[v] = Nothing \/ v \in bad]
<1>1. /\ AtInstruction /\ ~IsStore(Instruction)
      /\ loaded' = Append(loaded, e) /\ at' = <<at[1], at[2] + 1>>
      /\ uses' = IF env[v] = Nothing THEN uses \cup {<<v, at[1]>>} ELSE uses
      /\ UNCHANGED <<prog, pass, uninit, sound, env, bad>>
  BY DEF Load, compile, sets
<1>2. /\ at[2] \in Nat \ {0} /\ at'[1] = at[1] /\ at'[2] - 1 = at[2]
      /\ Instruction = Code(at[1])[at[2]]
  BY <1>1, HereIs
<1>3. \A w : StoredBefore(w)' <=> StoredBefore(w)
  BY <1>1, StoredNext
<1>4. Fresh'
  BY <1>1, <1>2, <1>3 DEF Inv4, Fresh
<1>5. UsesReported'
  <2>1. \A w \in uses' : w[1] \in uninit[w[2]].kill \/ w[1] \in UnInitVariables \cap uninit[w[2]].out
    BY <1>1, UseIsReported DEF Inv4, UsesReported
  <2> QED
    BY <1>1, <2>1 DEF UsesReported, UnInitVariables
<1>6. ASSUME Separate(prog), Direct(prog) PROVE Spoilt'
  <2>1. Spoilt
    BY <1>6 DEF Inv4
  <2>2. Bad(at[1])' = Bad(at[1])
    BY <1>1, <1>2 DEF Bad, UnInitVariables
  <2>3. e \in [value : Held, bad : BOOLEAN]
    OBVIOUS
  <2>4. e.bad => v \in Bad(at[1])
    BY <1>1, <1>6, SpoiltLoad
  <2> HIDE DEF e
  <2>5. loaded'[at[2]] = e /\ \A n \in 1..(at[2] - 1) : loaded'[n] = loaded[n]
    BY <1>1, <2>3, InBlock
  <2>6. ASSUME NEW n \in 1..at[2], loaded'[n].bad PROVE Code(at[1])[n].var \in Bad(at[1])
    <3>1. CASE n = at[2]
      BY <1>2, <2>4, <2>5, <2>6, <3>1
    <3>2. CASE n # at[2]
      BY <1>2, <2>1, <2>5, <2>6, <3>2 DEF Spoilt
    <3> QED
      BY <3>1, <3>2
  <2> QED
    BY <1>1, <1>2, <1>3, <2>1, <2>2, <2>6 DEF Spoilt, Code
<1> QED
  BY <1>1, <1>4, <1>5, <1>6, RunningFlows DEF Inv4

LEMMA StoreStep4 ==
    ASSUME TypeInv, Inv4, pass = "Assignment_4", Store, UNCHANGED <<compile, sets, constants>>
    PROVE  Inv4'
<1> DEFINE v == Instruction.var
           e == [value |-> Nothing, bad |-> FALSE]
<1>1. /\ AtInstruction /\ IsStore(Instruction)
      /\ env' = [env EXCEPT ![v] = StoredValue]
      /\ bad' = IF \E n \in Sources(Instruction) : loaded[n].bad THEN bad \cup {v} ELSE bad \ {v}
      /\ loaded' = Append(loaded, e) /\ at' = <<at[1], at[2] + 1>>
      /\ UNCHANGED <<prog, pass, stage, uninit, sound, uses>>
  BY StoreIs DEF compile, sets
<1>2. /\ at[1] \in Blocks(prog) /\ at[2] \in DOMAIN Code(at[1]) /\ stage = "run"
      /\ at[2] \in Nat \ {0} /\ at'[1] = at[1] /\ at'[2] - 1 = at[2]
      /\ Instruction = Code(at[1])[at[2]] /\ v \in Variables
  BY <1>1, HereIs, InstrIs DEF AtInstruction
<1>3. \A w : StoredBefore(w)' <=> StoredBefore(w) \/ v = w
  BY <1>1, StoredNext
<1>4. Fresh'
  <2>1. env'[v] # Nothing /\ \A w \in Variables : w # v => env'[w] = env[w]
    BY <1>1, <1>2, SomethingStored DEF TypeInv
  <2> QED
    BY <1>1, <1>2, <1>3, <2>1 DEF Inv4, Fresh
<1>5. UsesReported'
  BY <1>1 DEF Inv4, UsesReported, UnInitVariables
<1>6. ASSUME Separate(prog), Direct(prog) PROVE Spoilt'
  <2>1. Spoilt
    BY <1>6 DEF Inv4
  <2>2. Bad(at[1])' = Bad(at[1])
    BY <1>1, <1>2 DEF Bad, UnInitVariables
  <2>3. e \in [value : Held, bad : BOOLEAN]
    BY DEF Held, Nothing
  <2>4. loaded'[at[2]].bad = FALSE /\ \A n \in 1..(at[2] - 1) : loaded'[n] = loaded[n]
    BY <1>1, <2>3, InBlock
  <2>5. ASSUME NEW n \in 1..at[2], loaded'[n].bad PROVE Code(at[1])[n].var \in Bad(at[1])
    BY <1>2, <2>1, <2>4, <2>5 DEF Spoilt
  <2>6. ASSUME v \in bad' PROVE v \in sound[at[1]].gen
    <3>1. PICK n \in Sources(Instruction) : loaded[n].bad
      BY <1>1, <2>6
    <3>2. ~IsConst(Instruction) /\ n \in Instruction.near \cup Instruction.far
      BY <3>1 DEF Sources
    <3>3. n \in 1..(at[2] - 1)
      BY <1>1, <1>2, <3>1, SourcesAre DEF TypeInv, Code
    <3>4. Code(at[1])[n].var \in Bad(at[1])
      BY <2>1, <3>1, <3>3 DEF Spoilt
    <3>5. Instruction \in Instructions(prog, at[1])
      BY <1>2 DEF Instructions, Code
    <3>6. n \in Instruction.near
      BY <1>1, <1>2, <1>6, <3>2, <3>5 DEF Direct
    <3>7. v \in GenOf(at[1])
      BY <1>1, <3>2, <3>4, <3>5, <3>6 DEF GenOf, Code
    <3> QED
      BY <1>2, <3>7, Settled4
  <2>7. ASSUME NEW w \in bad'
        PROVE  IF StoredBefore(w)' THEN w \in sound[at[1]].gen ELSE w \in sound[at[1]].in
    <3>1. CASE w = v
      BY <1>3, <2>6, <2>7, <3>1
    <3>2. CASE w # v
      BY <1>1, <1>3, <2>1, <2>7, <3>2 DEF Spoilt
    <3> QED
      BY <3>1, <3>2
  <2> QED
    BY <1>1, <1>2, <2>2, <2>5, <2>7 DEF Spoilt, Code
<1> QED
  BY <1>1, <1>4, <1>5, <1>6, RunningFlows DEF Inv4

LEMMA SpoiltAtEnd ==
    ASSUME TypeInv, Inv4, pass = "Assignment_4", stage = "run", Separate(prog), Direct(prog),
           at[2] = Len(Code(at[1])) + 1
    PROVE  bad \subseteq sound[at[1]].out
<1>1. at[1] \in Blocks(prog) /\ Spoilt
  BY DEF TypeInv, Inv4
<1> SUFFICES ASSUME NEW v \in bad PROVE v \in sound[at[1]].out
  OBVIOUS
<1>2. CASE StoredBefore(v)
  BY <1>1, <1>2, Settled4 DEF Spoilt
<1>3. CASE ~StoredBefore(v)
  BY <1>1, <1>3, Settled4, StoredThere DEF Spoilt
<1> QED
  BY <1>2, <1>3

LEMMA BranchStep4 ==
    ASSUME TypeInv, Inv4, pass = "Assignment_4", Branch, UNCHANGED <<compile, sets, constants>>
    PROVE  Inv4'
<1>1. /\ stage = "run" /\ at[1] \in Blocks(prog) /\ at[2] = Len(Code(at[1])) + 1
      /\ at'[1] \in prog.succs[at[1]] /\ at'[1] \in Blocks(prog) /\ at'[2] = 1
      /\ at[1] \in Preds(prog, at'[1])
      /\ UNCHANGED <<prog, pass, uninit, sound, env, bad, uses>>
  BY BranchIs DEF compile, sets
<1>2. 1..(at'[2] - 1) = {}
  BY <1>1
<1>3. \A w : ~StoredBefore(w)'
  BY <1>2 DEF StoredBefore
<1>4. Fresh'
  <2> SUFFICES ASSUME NEW v \in Variables, env[v] = Nothing, v \in uninit[at'[1]].in
               PROVE  v \in uninit[1].in
    BY <1>1, <1>3 DEF Fresh
  <2>1. v \notin uninit[at[1]].kill
    BY <1>1, StoredThere, Settled4 DEF Inv4, Fresh
  <2>2. v \in uninit[at[1]].in
    BY <1>1, <2>1, Settled4
  <2> QED
    BY <2>2 DEF Inv4, Fresh
<1>5. UsesReported'
  BY <1>1 DEF Inv4, UsesReported, UnInitVariables
<1>6. ASSUME Separate(prog), Direct(prog) PROVE Spoilt'
  <2>1. bad \subseteq sound[at'[1]].in
    BY <1>1, <1>6, SpoiltAtEnd, Settled4
  <2> QED
    BY <1>1, <1>2, <1>3, <2>1 DEF Spoilt
<1> QED
  BY <1>1, <1>4, <1>5, <1>6, RunningFlows DEF Inv4

LEMMA Next4 == ASSUME TypeInv, Waiting, Inv2, Inv4, Next PROVE Inv4'
<1>1. CASE pass # "Assignment_4"
  BY <1>1 DEF Next, Compile, Run, compile, Propagate, Replace, Inv4
<1> SUFFICES ASSUME pass = "Assignment_4" PROVE Inv4'
  BY <1>1
<1>2. CASE Analyse /\ UNCHANGED constants
  BY <1>2, SweepUninitStep, GenAndKillStep, SweepSoundStep DEF Analyse
<1>3. CASE Run
  <2> DEFINE value == IF at \in replaced THEN Constant(at) ELSE env[Instruction.var]
  <2>1. (Load(value) \/ Store \/ Branch) /\ UNCHANGED <<compile, sets, constants>>
    BY <1>3 DEF Run
  <2>2. CASE Load(value)
    <3>1. value \in Held
      BY <2>2, ValueTyped DEF Load
    <3> HIDE DEF value
    <3> QED
      BY <2>1, <2>2, <3>1, LoadStep4
  <2> QED
    BY <2>1, <2>2, StoreStep4, BranchStep4
<1> QED
  BY <1>2, <1>3 DEF Next, Compile

LEMMA Inv4Always == Spec => []Inv4
<1> DEFINE I == TypeInv /\ Waiting /\ Inv2
<1>1. Init => Inv4
  BY Inv4Init
<1>2. I /\ Inv4 /\ [Next]_vars => Inv4'
  <2> SUFFICES ASSUME I, Inv4, [Next]_vars PROVE Inv4'
    OBVIOUS
  <2>1. CASE UNCHANGED vars
    <3>1. UNCHANGED <<prog, pass, stage, pos, change, uninit, sound, at, env, bad, loaded, uses>>
      BY <2>1 DEF vars, compile, sets, run
    <3>2. CASE pass = "Assignment_4"
      <4>1. UpFlow' /\ DownFlow'
        BY <2>1, <3>2, RunningFlows DEF vars
      <4>2. Fresh' /\ UsesReported'
        BY <3>1, <3>2 DEF Inv4, Fresh, StoredBefore, UsesReported, UnInitVariables, Code
      <4>3. Spoilt => Spoilt'
        BY <3>1 DEF Spoilt, StoredBefore, Bad, UnInitVariables, Code
      <4> QED
        BY <3>1, <3>2, <4>1, <4>2, <4>3 DEF Inv4
    <3> QED
      BY <3>1, <3>2 DEF Inv4
  <2> QED
    BY <2>1, Next4
<1> QED
  BY <1>1, <1>2, Inv2Always, PTL DEF Spec

(***************************************************************************)
(* Assignment_4.cc warns of every use of a variable that nothing is stored *)
(* to before, wherever a run goes, and of all that is computed from it.    *)
(***************************************************************************)
THEOREM AllIsReported == Spec => []Reported
<1>1. TypeInv /\ Inv4 => Reported
  <2> SUFFICES ASSUME TypeInv, Inv4, stage = "run", pass = "Assignment_4"
               PROVE  UsesReported /\ (Separate(prog) /\ Direct(prog) => UnsoundReported)
    BY DEF Reported
  <2>1. ASSUME Separate(prog), Direct(prog), at[2] > Len(prog.code[at[1]])
        PROVE  bad \subseteq sound[at[1]].out
    <3>1. Len(Code(at[1])) \in Nat /\ at[2] \in 1..(Len(Code(at[1])) + 1)
      BY BlocksAre DEF TypeInv, Code
    <3>2. at[2] = Len(Code(at[1])) + 1
      BY <2>1, <3>1 DEF Code
    <3> QED
      BY <2>1, <3>2, SpoiltAtEnd
  <2> QED
    BY <2>1 DEF Inv4, UnsoundReported
<1> QED
  BY <1>1, Inv2Always, Inv4Always, PTL
===============================================================================
