# A verification development of the bounds-check passes

`ProjectFinal/project.cpp` is an LLVM pass. It inserts calls that check array
indices at run time, and then takes out those that it can prove redundant. The
repository holds two more implementations of the idea: a second pass
(`Instrumentation/BoundsChecking.cpp`), built on constraint graphs, and an
earlier sample (`Project_Nazari_Sample/project_all.cpp`). This directory models
all three, and two data-flow passes of homework 2, in TLA+; it checks the models
with TLC on small functions, and proves with TLAPS, for all functions, what the runs
check of insertion, graph construction, both analyses, the eliminations and the loops found of
`project.cpp`, and of the homework passes.

## 1. The system

| Component | Source | State | Operations |
|---|---|---|---|
| Run-time checks | `ProjectFinal/test_/checkbounds.c` | none | `__checkArrayBounds_max_*` and `_min_*` end the process when `idx >= max` or `idx < min` |
| Insertion | `project.cpp` 262-983 | `arrayMap`, `index`, `maxcalltocheckinfo`, `mincalltocheckinfo`, `counter` | `processAllocateInst`, `processCallInst`, `processGEP`, `insertBoundCheck` |
| Identity of indices | 66-260, 5109-5314 | none | `identicalValue`, `instIsIdentical`, `constIsSame`, `live` |
| Instruction selection | 2711-2940 | `indexdefmap`, `MCFGInst` | `findindexwithgvn`, `getMCFGInst`, `findDefinitions` |
| Graph construction | 2943-3157 | the vector of `MCFG_Node`, each with `instrs`, `preds`, `succs` | `initializeMCFG`, `optimizeMCFG1`, `optimizeMCFG2`, `optimizeMCFG3` |
| Gen and kill sets | 2213-2624 | `gen_*`, `kill_*` of the nodes | `init_gen`, `init_kill`, `init_gen_bw`, `init_kill_BW`, `getEffect` |
| Set operations | 2043-2209 | a `std::set<LightCheck>` | `subsumeGen`, `myintersect`, `myintersect2`, `mysubtract2`, `myunion`, `myunion2` |
| Backward analysis | 1767-1873 | `In_*`, `out_*` | `ComputeBackward`, `ModifyMin`, `ModifyMax` |
| Forward analysis | 1876-1985 | `In_*`, `out_*` | `ComputeFirst`, `EliminateRedundanteMin`, `EliminateRedundanteMax` |
| Local elimination | 1384-1487 | the calls | `localopt` |
| Loop optimisation | 3444-5105 | `dominatorSet`, loops, moves | `loopopt` and what it calls; `runOnFunction` has its call commented out |
| Second pass | `Instrumentation/BoundsChecking.cpp` with `ConstraintGraph.hpp`, `GlobalAnalysis.hpp`, `BoundsCheck.hpp`, `Monotonic.hpp` | a constraint graph and a list of checks for each block; in and out sets; flows of variables round a loop | `LocalAnalysis`, `GlobalAnalysis`, `LoopAnalysis`, `InsertChecks` |
| Sample | `Project_Nazari_Sample/project_all.cpp` | range checks, sets of them, `toReplaceChecks` | insertion, `hoistBusyIndex`, `localElimination`, `globalElimination`, `replace`, loops |
| Homework 2 | `HW2/Part2/Assignment_2.cc`, `HW2/Part4/Assignment_4.cc` | reaching stores; variables not stored, what comes of them | replacement of loads, warnings |
| Homework 1 | `HW1` | counters | counting, reachability |

`runOnFunction` (1019) drives `project.cpp`, one function at a time: insertion,
instruction selection and graph construction (`MCFGreset`), `localopt`,
`globalelimination` (backward analysis, strengthening, forward analysis,
elimination), each followed by `resetcalltocheckinfo` and `MCFGreset`. The
components share the function's instructions, the checkinfo maps and the vector
of nodes. The second pass works block by block, then on the function, then loop
by loop, and inserts the checks that are left at the end. The sample inserts
first and eliminates then, as `project.cpp` does. There is no concurrency and
nothing is persisted. What is hard is that

- the analyses are fixpoint computations whose sets are changed in place, in an
  order that block order and pointer values determine;
- what they claim is about *every run* of another program, the instrumented
  function, with stores and calls between the place a fact is computed for and
  the place it is used at;
- each stage changes the checks that the next stage works on: a check may be
  deleted because of one that is deleted, moved or weakened later;
- the graph is not the control-flow graph but what is left of it.

## 2. The modules

For `project.cpp`:

| Module | Models |
|---|---|
| `LightChecks` | checks, their run-time meaning `Passes`, and the six set operations |
| `MCFG` | programs for the analyses (graph, vector, instructions), `getEffect`, gen and kill sets |
| `Code` | the function at hand: as inserted, and as the pass has left it |
| `ConstructMCFG` | graph construction, one action for each case of the visit of a node, and the erasures after a loop |
| `Sweeps` | what the two analyses share: the loops over the vector, `Repeat` a sweep, `Finish` a loop |
| `ComputeFirst` | the forward analysis: `VisitFW` of a node, `CrashFW` |
| `Availability` | what it promises: once for each kind, an answer that solves the equations |
| `ComputeBackward`, `Anticipation` | the same for the backward analysis |
| `Execution` | runs of the instrumented function beside the original one, instruction by instruction |
| `AvailableChecks`, `AnticipatedChecks` | an analysis followed by a run of the function it analysed |
| `LocalOpt` | `localopt` on checks with one variable for an index |
| `GlobalElimination` | composes all of these as `runOnFunction` does, with the counter, and runs the result |
| `Insertion` | collection of sizes, insertion of calls, the stores selected for the graph, the graph (an instance of `ConstructMCFG`), identity of indices, `localopt` on the calls of each node, and a run |
| `Search` | the search of a graph that `findDefinitions` and the loops make, also by which the blocks of a loop are told |
| `LoopFinder` | dominators, back edges, loops |
| `LoopMoves` | moves of calls out of loops, their merging, the calls and computations inserted instead, and a run |

For the second pass:

| Module | Models |
|---|---|
| `ConstraintGraph` | edges and memory nodes, comparison, the first load of an index, the change of a variable |
| `BoundsChecking` | `LocalAnalysis` of one block, instruction by instruction, and a run of the block |
| `BlockFlow` | functions as the later analyses see them, the checks a block is left with, and `GlobalAnalysis`: in and out sets, sweep by sweep, and `eliminateRedundantChecks` |
| `LoopAnalysis` | hoisting of invariant checks, directions of variables round a loop, monotonic checks |
| `SecondPass` | composes the two, inserts what is left, and runs the function |

For the sample and the homework:

| Module | Models |
|---|---|
| `RangeElimination` | range checks (comparison, subsumption, meet, transfer over a store), the stages of `runOnModule` up to its loops, and a run |
| `LoadStore` | functions of loads and stores, and their runs |
| `Unsoundness` | `Assignment_4.cc`: variables that may not be stored yet, and what is computed from them |
| `ConstantLoads` | `Assignment_2.cc`: stores that reach a block, loads replaced by constants |
| `Homework` | composes each of the two with a run |

`MCPrograms` has functions to instantiate the models of `project.cpp` with, and
`MC*` are the instances that TLC checks. The theorems:

| Module | Proves about |
|---|---|
| `AnalysisProofs` | lemmas (graph, set operations, gen and kill sets, what a store does to a check, where a run is and what it has still to check); `ComputeFirst` and `ComputeBackward` |
| `GlobalEliminationProofs` | both analyses on runs, that the order of the forward one does not matter, and the composition of all stages |
| `ConstructMCFGProofs` | graph construction |
| `InsertionProofs` | insertion, identity of indices, `localopt` on the nodes of the graph, the selected stores |
| `LoopMovesProofs` | the loops found |
| `Search` | what its search finds: the least set that is closed |
| `SecondPassProofs` | the second pass: what `GlobalAnalysis` calls available |
| `HomeworkProofs` | both passes of homework 2 |

### How state and actions correspond to the code

*A program* (`MCFG`) is the vector of nodes (`order`), the nodes linked to it
(`nodes`, `succs`), the nodes from which the function may return (`exits`) and
the instructions of each node. Nodes that are linked but not in the vector are
real: see `LeaveLinked` of `ConstructMCFG`. Instructions are loads, stores,
calls of the run-time checks and `Other`. The index of a check is an SSA value
loaded from a variable; `root` is the variable that `indexdefmap` has for it.
In these modules no index is an expression, so `identicalValue` is
equality (`Insertion` has expressions), and arrays have constant sizes, as every
check that the maps record.

*The loops.* `kind` is the loop that runs (min, then max), `pos` the iterator,
`changed` the flag, `In` and `out` the sets of both kinds. Definitions that end in `FW` belong to the
forward analysis, in `BW` to the backward one. One `VisitFW` or `VisitBW` is one
pass through the body of the inner loop: it reads the neighbours' sets as they
are at that moment, and so mixes old and new ones as the code does. After a sweep that changed a set comes `Repeat`, after one that did not `Finish`.
`myintersect` over a copy of the first neighbour's set is one operator on the
set of the neighbours' sets. `CrashFW` (`CrashBW`) stands for the erasures through the
iterator that walks the set, which C++ leaves undefined: the build may die there
or go on. What a surviving build computes is what `LightChecks` says for up to
three checks, which the assumption `SmallSets` states.

*Graph construction.* `dropped` and `merged` are the two vectors `toRemove`;
`body` is `instrs`, a block standing for the instructions that `optimizeMCFG1`
leaves of it. Behind each loop `EraseDropped` (`EraseMerged`) takes the nodes of `toRemove`
out of the vector, one at a time. `MergeWithItself` is undefined behaviour, as the vector that is
walked grows, and ends in `crashed`. `Linked` is what the nodes of the vector get at by
following `preds` and `succs`: a node left linked when it was dropped (`LeaveLinked`) is
still there for the analyses. In a function whose entry has no relevant
instruction, or with blocks that cannot be reached, even nodes with instructions may get
lost: with blocks 1 to 4, ways from 1 to 2, 2 to 3, 3 to 2 and 4, and
instructions in 2 only, 1 and 4 are unlinked, 3 stays linked to 2, and 2 is merged into 3,
which is not in the vector, so that the vector is empty. `Entered` excludes such functions; the allocations of a function with local arrays keep its entry.

*Runs.* `Execution` walks the function once for two programs: `code`, what the
pass has made of it, and `prog.code`, the function with every check. `trapped`
records that a call of `code` failed, `status = "violated"` that one of
`prog.code` did, which ends the walk. Values are a small interval; arithmetic
that leaves it is undefined, as signed overflow is in C.

*The counter* is an unsigned word: subtraction is modulo `CounterWord`.

*Insertion.* `Collect` and `Insert` are one turn each of the two loops over the
instructions, in the order of the function's text. `arrayMap` has for each array
or pointer `top`, `bottom` and `dynSize`, here the place of the allocation whose
size operand was loaded last (`loaded` is what that load gave in the run). `calls` and `loaded`
belong to places, `<<block, position>>`. `StartConstructing` tells which blocks have something
that matters (`Kept`: the entry, indices with their calls, selected stores, comparisons of loops) and
gives them to `ConstructMCFG`, of which `Construct` makes one step; the module's function is `func`, its
`pos` is `node` here, and its other variables have their names. An access with a constant index to an
array of known size gets no call, so its block may be spliced out and its neighbours merged. `localopt` then takes
calls of several blocks, those of one node, for repeated ones: `Ahead` is the order of the node's instructions.
`garbage` is what `constIsSame` reads when it takes a load for a constant: either
answer is possible.

*Loops.* `moves` is the map of `loopInfoBounds`, `kept` the calls that are still
at their accesses, `moved` and `chains` what `moveCallsLoops` puts before
the loop. The run records `trapped`, `violated`, `missed` and `strayed` (a
computation moved ahead gave another index), and goes on behind a trap as the
function without checks would, to see whether the trap was justified.

*The second pass.* A block of `BoundsChecking` is built statement by statement as
clang emits it (`Emit`), then analysed by the loops `i` and `j` of
`eliminateForwards` and `eliminateBackwards`. `layout` is where an instruction is
after `promoteCheck` has moved it. Fields of new graph nodes that the constructor
leaves unset are a choice (`Uninitialized`). `BlockFlow` visits blocks in the
order of the worklist; `FindDirections` takes the blocks of a loop in any order,
as the code's sets of pointers do.

*The sample.* The function is one sequence of items for each block: index
computations, checks, accesses and stores, which the stages delete and move.
Sets of checks are walked in the order of pointers in the code, so `Meet`,
`ModifyChecks` and `Replace` choose.

*Homework.* `Sweep` is one visit of a block by the sweeps, with the counter
`change` that ends them.

## 3. What is checked

| Run | Question | Distinct states |
|---|---|---|
| `construct` | Does `constructMCFG` keep exactly the flow of the function? | 209 000 |
| `available` | Is the answer of `ComputeFirst` a solution, the same whatever the order, and true of every run? | 541 000 |
| `anticipated` | Is the answer of `ComputeBackward` a solution, with one check for each index, and true of the rest of every run? | 413 000 |
| `global` | Do all stages together lose no violation and add none, and count right? | 485 000 |
| `insertion` | Are the calls that are inserted, and left by `localopt`, the right ones, and all stores they depend on selected? | 26 000 |
| `loops` | Are the loops the true ones, and do calls and computations moved ahead of them do what they did inside? | 48 000 |
| `second_local` | Does the constraint graph compare truthfully, and is a block's every violation caught, and no other run stopped? | 374 000 |
| `second_function` | Do the sweeps end with checks that hold on every path, and is every violation still caught? | 196 000 |
| `range` | The sample: do the checks left stop exactly the runs that access an array outside? | 230 000 |
| `homework` | Are all uses before a store reported, loads replaced only by what they would read, and do the sweeps end? | 404 000 |
| `report`, `stale` | Statements of the repository that the code does not live up to | violated |

### Properties

- `FlowKept` (`construct`): in every state of the construction, two blocks'
  instructions can follow each other in the graph exactly if they can in the
  function, through blocks without relevant instructions. It covers splicing,
  unlinking, nodes left linked, and merging in any block order.
- `Consistent`: in the finished graph each block is held once, in a node that the
  vector gets at if the function is `Entered`; among what it gets at `preds` is the
  inverse of `succs` (the analyses' models derive it so); and an entry that was kept begins
  the graph. This is what `WellFormed` of `MCFG` takes for granted.
- `Survives`: merging a node with itself happens only when the entry was dropped
  or a block cannot be reached.
- `ImplementsAvailability`, `ImplementsAnticipation`: refinement. A loop is left
  only with a solution of the data-flow equations at all nodes of the vector;
  the sets of a finished loop do not change.
- `OrderIndependent`: the result is that of simultaneous rounds from empty sets.
- `Grows`, `Strengthens`: no visit takes a check back or weakens it. This is why
  the loops end (`SweepsEnd`, `LoopsEnd`).
- `AvailableHolds`: a run that has passed every check so far and gets to a node
  passes the checks available there.
- `AnticipatedFails`: a run that is beyond an anticipated max check at a node
  does not return.
- `NoMissedViolation` and `NoSpuriousTrap` are stated in every module that ends
  with a run: an access outside its array comes behind a check that stops the
  run, and no run is stopped without such an access.
- `CounterExact`: `printresults` reports the number of calls that are left.
- `SelectedStores`: a store that can reach a load of an index is in the graph.
- `LoopsHold`: in every structured graph of five nodes the back edges are the
  true ones, and a loop has all nodes of the natural loop and none that does not
  go round, although a node keeps the dominators it was given first.
- `IndicesKept`: an index computed ahead of a loop is the one of the access.
- `ComparisonsHold`, `DirectionsHold`: what `compare`, `findFirstLoad` and
  `identifyMemoryChange` say of a block is true of every run of it.
- `InSetsHold`: what is available at the beginning of a block holds there.
- `Reported`: a use before a store is warned of, and so is what is computed from it
  over chains of variables and blocks. `ConstantsHold`: a replaced load would
  have read the constant.
- `Terminates`: each of these passes comes to an end.

### Conditions

The code does not have most of the properties about runs for every function. Each is stated
for the functions that satisfy named conditions, and the instances hold functions
that satisfy them and functions that do not. The conditions are
the description of where each pass can be relied on. For `project.cpp`:

| Condition | Excludes | Needed by |
|---|---|---|
| `FreshLoads` | `a[i++]`: a store between the load and the check | available, strengthening |
| `HonestStores` | `i = c - i`, `i = c / i` | available, erasing |
| `NonEmptyArrays` | arrays of no elements | available, erasing |
| `LoadsInOrder` | two calls of a node on one variable that are not in the order of their loads | erasing |
| `Entered` | graphs whose entry was dropped, blocks that cannot be reached | construction |
| `ScanComplete` | a repairing store in the first place of a node with a check | anticipated, strengthening |
| `NoHiddenReturn` | a return from an empty block that was unlinked | anticipated, strengthening |
| `LoadedHere` | a check of a value loaded in another node | anticipated, erasing |
| `ChecksFirst` | a spoiling store before a check in its node | erasing |
| `ChecksLast` | a repairing store after a max check in its node | strengthening |
| `UniformLimits` | one index for arrays of different sizes | counter |
| `Insertion`: `SizeKnown` | pointers allocated twice or copied, computed sizes such as `n + 1` (the calls get `n`), arrays of three dimensions | insertion |
| `Insertion`: `ToldApart` | `a[i+1]` and `a[i+2]`, or `a[i+1]` on both sides of a store to `i`, in a node of the graph; also across blocks, as in `a[i+1]; if (..) a[0]; else a[1]; a[i+2]`, whose branches are not in the graph | `localopt` |
| `Insertion`: `warned = {}` | constant indices outside, of which only the compiler warns | no missed violation |
| `Insertion`: `BelowLimit` | constant indices that equal the size, which get neither a warning nor a call | no missed violation |
| `LoopMoves`: `Unchanged` | a loop that stores what an "invariant" index is computed from | loops |
| `LoopMoves`: `Counts` | moved indices other than the loop's variable, steps other than one, negative bounds | loops |
| `LoopMoves`: `Certain` | loops that may run no time, or leave early; accesses in a branch of a loop | no spurious trap |

For the others:

| Condition | Excludes |
|---|---|
| `SecondPass`: `ChecksFirst` | a block (not the entry) that stores or calls before it checks: `eliminateRedundantChecks` does not look where in the block the check is |
| `SecondPass`: `Settled` | a loop that spoils a check made in a block before it: out sets only grow (run `stale`); and orders of the blocks in which one has no predecessor before it |
| `SecondPass`: `AtConstants`, sizes | constant places in different arrays, and sizes that are no constants: both are compared without the array |
| `SecondPass`: `ElementSize = 1` | elements of more than one byte, for `NoMissedViolation` only: the check of a copy in front of a loop gets the index where the offset belongs |
| `RangeElimination`: `Sound` | three accesses by one variable in a block; different indices of one variable on the two ways of a branch |
| `Unsoundness`: `Separate`, `Direct` | blocks that load what they store; results over two steps |

Missed violations only are checked of loops in the second pass: hoisting a check
before a loop that may run no time is what it does, and no property asks whether a trap was due there.

What counts as outside is what the code at hand tests: the run-time checks of
`project.cpp` and the sample stop an index that equals the size, `InsertCheck` of
the second pass lets the byte offset be equal to the size in bytes, so that
`BoundsChecking` and `SecondPass` count the element behind the last one as inside.

### Statements that do not hold

- `report`: the report says that the inserted calls end the program on a
  violation. In its own example (`c[j]; if (..) b[j]; else { j++; a[j]; }`) the
  check of `a[j]` is erased.
- `stale`: `BoundsChecking.cpp` says that it performs the available expression
  analysis. In `a[i]; while (..) { a[i]; i++; }` the check before the loop
  stays available at the loop's header, where it does not hold after one round,
  since `addAvailableCheck` never takes anything out.

### Bounds

For the analyses of `project.cpp`, graphs have up to five nodes: a diamond, a
fork, a loop whose exit stands after or before it in the vector, a branch with a
node left linked, an early return. They have the joins, branches, back edges,
hidden returns and dropped nodes between which the code distinguishes, and both
orders of vector and flow. Two index variables suffice to tell a check from one on
another variable, and limits 2 and 3 to tell a stronger from a weaker one. Values
from -1 to 4 reach below the bottom and beyond both limits by one step of each kind of
store. Every combination of the listed fragments of code fills the nodes. No
set has more than three checks. `construct` takes every graph of three blocks and every
connected one of four, in every block order: a node left linked, something
merged into it and a loop around both need no more. `CounterWord` is larger
than any number of calls, as `CounterWordAssumption` says, so that only a wrap below zero could be seen.

`insertion` has one block with every pair of a form of index (plain, long, sum,
difference, product, quotient, constants on both sides) and a second access;
diamonds and loops with allocations; and diamonds and loops in which some blocks have nothing that matters, so that
nodes of one to three blocks arise and calls are deleted because of others in a block before, once with the
comparison of a loop between them. `loops` has every structured graph
of five nodes for `LoopsHold`, and functions with one loop, loops in loops and two back edges to a header,
for all four comparisons, with limits just below, at and beyond the bound, and with indices that are longs, of whose
operation the pass has no record (`Monotonic`). `Wrap`
(1000) stands for 2^32: any number larger than every limit does. `second_local` has every block
of up to four statements from a list of ten with at most one call: two checks, a
store between them and a call before, between or behind. `second_function` has
diamonds, loops with the test at the end and at the beginning, and loops in loops, where up to
two sweeps after the first one change something. `range` has one block, a block
with a way around, diamonds and loops; `homework` every function of four blocks in two shapes,
each block one of seven pieces. A run that leaves `Values` is cut off there: it has gone
beyond every limit by then, so that a check would have failed before.

### Fairness

Weak fairness on the steps of the passes: they are sequential code that nothing
blocks. Nothing is assumed of the instrumented function, which may loop for
ever. Deadlock checking is off because pass and run end.

## 4. What is proved

Twenty-three theorems, each for every set of functions and every value of the other
constants that the assumptions allow. Of the runs `construct`, `available`,
`anticipated`, `global`, `insertion` and `homework` every property except termination is a
theorem, and `LoopsHold` of `loops` and `InSetsHold` of `second_function`.

**The analyses** (`AnalysisProofs`).

- `TypeCorrect`: types of the forward analysis. It rests on
  `InitGenType` and `CheckOfType`: gen sets hold checks.
- `SolvesEquations` (`SpecFW => ImplementsAvailability`). The invariant `FixInvFW`
  strengthens types by three parts: nodes outside the vector have no sets and
  those without predecessors an empty in set (`OutsideFW`); as long as `changed`
  is false, every node that this sweep has visited satisfies its equations, with
  the sets as they are *now* (`SweptFW`); finished loops are solved (`FinishedFW`).
  `SweptFW` is what makes the flag right: a visit that changes an out set raises it,
  so a visit that does not cannot disturb what others read.
- `SweepsOnlyAdd` (`SpecFW => Grows`): each set is contained in the right-hand side of
  its equation (`Below`), and the right-hand sides are monotonic.
- `SolvesBackwardEquations` (`SpecBW => ImplementsAnticipation`), the same for
  `ComputeBackward`, whose meet and union replace a check by a weaker or stronger one
  of the same index. `FixInvBW` has besides the three parts one more,
  `Single`: no set ever has two checks of one index. It holds
  although `subsumeGen` may leave several checks of an index in a gen set
  (`MeetSingle`, `UnionSingle`, `TransferSingle`), and it is part of what
  `Anticipation` promises: a check of an index is *the* check of the index.
- `SweepsStrengthen` (`SpecBW => Strengthens`): sets are compared by `Within`, "for each check
  of the one the other has a check on the same index that is as strong". Meet and union are monotonic
  in it (`MeetMonotone`, `JoinMonotone`), for checks with bottom 0, which all checks here
  have (`BottomsAreZero`). `Grown` says that every set is within its right-hand side.

**What the analyses say of runs.**

- `AvailabilityIsSound` (`GlobalEliminationProofs`), for all `Values \subseteq Int`,
  all effects of stores and all runs. The invariant `AInv` joins `FixInvFW` with what
  holds in the middle of a node: checks available at its beginning and checks it
  has made hold until a store spoils them (`Held`, `Made`), and a loaded value is
  its variable's until a store (`Fresh`). `AvailableHolds` speaks of beginnings of nodes
  only and is not inductive. The proof found the need for `NonEmptyArrays`.
- `OrderDoesNotMatter` (`GlobalEliminationProofs`): the sets of a finished loop are those
  that `Cardinality(prog.nodes) * 3` simultaneous rounds from empty sets would give. The
  sweeps never get beyond a solution of the equations (`NotBeyond`, with any solution `F`);
  the rounds have reached a solution, since a round that adds no check anywhere is the last to
  change anything and there are not more checks and nodes to add (induction as the least
  number with a property, `LeastNatural`); and no round gets beyond what the
  sweeps have found, which solves the equations.
- `AnticipationIsSound` (`GlobalEliminationProofs`). A run that is beyond an anticipated max
  check owes a violation. The invariant `DInv` says where it is due (`Debt`): a call later in
  this node that the stores up to it do not repair, or the end of the node, with the check
  anticipated on every way on. A node that has no way on lets no debt through, so a
  run in debt does not return.

**The stages together** (`GlobalEliminationProofs`).

- `EliminationIsSafe` (`NoMissedViolation`), `StrengtheningIsSafe` (`NoSpuriousTrap`). The
  invariant `GInv` describes what each stage has made of the instructions: calls of the
  function, with limits of some check of it (`Derived`); for each call of the function one not
  behind it that is as strong (`Standing`, kept by `localopt` and by strengthening);
  after strengthening, each call that was changed asks for a check that the backward analysis
  has at the end of its node (`Justified`); after elimination, each call
  that is gone is covered by a check that the forward analysis has at the beginning
  (`Eliminated`). What the analyses have found is remembered as the solution it is,
  bound by a quantifier, as the code forgets it. In the run a check that has held
  once in a node holds until a store spoils it, also of the values loaded before
  (`Holding`, `Assured`), so that a violation needs a call that was erased, and what covered it
  has failed before. And a run stopped by a stronger call is in debt (`Owing`). The proof found the need for
  `NonEmptyArrays` and `LoadsInOrder`: without the second, a counterexample that TLC confirms is
  `t1 = load v; v = v - 1; t2 = load v`, with the calls on `t2` and `t1` in this order.
- `CounterIsExact` (`CounterExact`): with one limit for each variable, no two available checks
  cover one call, so that what `Eliminate` takes off is the number of calls erased
  (`CounterInv`); the rest is about cardinalities.

**Graph construction** (`ConstructMCFGProofs`): `TypeCorrect`, `FlowIsKept`,
`GraphIsConsistent`, `MergeIsSafe`. A node that was spliced out, unlinked or merged keeps links
of its own, so `preds` is *not* the inverse of `succs`. The invariant `CInv` has a set `D` of
nodes that may be forgotten (`Forgotten`): nothing outside `D` refers to them, and outside `D` the two
are inverse. Besides it says how far the loops are (`Ordered`), that the entry
stays (`EntryStays`), that each kept block is held at one place
(`HeldOnce`), and `FlowKept` for the nodes at hand (`FlowIs`). Flow is a least set; that a step keeps it is shown by giving,
for a set closed under the links before the step, one closed under those after it, and
the other way round. `MergeIsSafe` needs that all nodes outside `D` are reached from the entry: one
that is its own only predecessor is not.

**Insertion** (`InsertionProofs`).

- `CounterCountsCalls` (`TypeOK`). `PassInv` says what the loops have done so far: `Reached` places, and
  nothing else, have the calls `Given` to an access, so `counter` is twice their number;
  after `localopt`, each call it deleted has one before it in the node that it took for the same (`Sifted`).
- `GraphHasEveryStore` (`SelectedStores`). `findDefinitions` stops at a store to the variable it looks for,
  the property asks for every store on a way without another one to this variable. What
  the search finds is the least closed set (`FoundIsLeast`, `FoundIsClosed`), and the reference lies in it.
- `AccessesAreCaught` (`NoMissedViolation`), `NoAccessIsStopped` (`NoSpuriousTrap`). `ChecksInv` adds that
  `arrayMap` has the size of the only allocation (`SizesFound`), which warnings were given
  (`Prepared`), and of a run of a `Sound` function that once it has passed an allocation the array has
  as many elements as were collected, or as the load for the size gave (`Memory`), and that
  a call that is left, and that every way to this place comes by, has checked the value its index has here, if none of the
  index's variables is stored to in between (`ChecksHold`). Without the last, a call that `localopt` deleted could not be answered for: its twin
  was executed earlier, and possibly in another block. What makes it hold is the shape of the nodes, for which the
  theorems on the construction are used (`GraphInv` is their invariant): the blocks of a node follow each other as
  a chain (`NodesAreChains`), so that no way from the entry gets to one without coming by those ahead of it
  (`NoWayAround`), and whatever lies on a way from the one to the other is in `Between`, where `ToldApart` allows no
  store to the index's variables. That two calls taken for the same have the same value (`identicalValue`, with `garbage`)
  follows from `ToldApart`, and that an access lies within all dimensions or a call for one of them fails from `SizeKnown`.

**The loop finder** (`LoopMovesProofs`). `LoopsAreFound` (`LoopsHold`). A node keeps the dominators it
was given first, computed from those neighbours that had some by then, and so may have too many.
`DominatorsInv` bounds them from both sides (`IsDominatorSet`): all true dominators, and only nodes
from which the node can be reached, also without the back edges. In a function without `goto`, a node that is
wrongly held for a dominator of one of its predecessors would close a cycle of forward
edges, so the back edges are the true ones all the same. Bodies of loops are searches.

**The second pass** (`SecondPassProofs`). `AvailableChecksHold` (`InSetsHold`). `Available` itself is not
inductive: a sweep takes out sets that were found with less knowledge of the loops, never
takes anything out of them, and passes over what it changed from "all checks" to none. `SetsInv` says instead why a check may
be in a set: it is one of `CarriedOut(b)`, that is, `b` is in a set of blocks each of
which makes a check at least as strong, or lets this one through and has all blocks before it
in the set as well (`Carries`). This is about the function alone, so that a set that
has grown stays right. A block that is not yet visited has all checks; in the first sweep
(`FirstSweep`) a check is therefore taken over from fewer blocks than there are. The missing ones are
the ends of ways back, and `Settled` says that from there back to this block nothing
spoils what was checked in an earlier block, so that the loop may be added to the set (`LoopCarries`).
In the run, what all blocks before this one carry holds (`RunCarried`): a block that made a check
leaves it holding, as its GEN set has only checks that the rest of the block does not move to the wrong side
(`GeneratedHolds`), and a block that lets it through keeps it (`PassedHolds`). The pass's walks over lists are
functions of a position defined from the one before (`RecursionExists`, by
the least position at which there is none).

**The homework** (`HomeworkProofs`).

- `ConstantsAreRight` (`ConstantsHold`). `Flowing`: in a sweep that has changed nothing, the blocks gone
  through have the values of all blocks before them, and all blocks do when the sweeps are
  over. Hence what a variable holds is a value its block has for it, if it is a constant (`Values2`), and with a
  single value there is no choice.
- `AllIsReported` (`Reported`). `UpFlow` and `DownFlow` say the same of the two analyses, whose
  counter asks for sweeps more: a sweep that starts with `change = 0` and changes nothing is the last,
  and `Generated` that the gen sets are then up to date with the out sets they were made from.
  `Fresh`: what holds nothing was stored by no block on the way, and is in the entry's in set
  if it is in this block's. `Spoilt`: what was computed from it is in the in set, or in the gen set once it is stored here.

Assumptions: `ProgramsAssumption` (well-formed functions: finitely many nodes, the entry is in
the vector and no way leads to it),
`SmallSets` (at most three checks of a kind), `ValuesAssumption` (integers),
`CounterWordAssumption` (fewer calls than the counter can hold), `FunctionsAssumption`
(construction: each block once, no way to the entry), `InsertionAssumption` (insertion: blocks in an
order, none empty, no way to the entry; indices of at most one operator, dividing by positive constants
only, as `\div` is defined for no other; at most one index for each dimension), `FlowsAssumption` (loops: all
nodes can be reached from the entry, to which no way leads; only `LoopsHold` itself is restricted to
functions without `goto`), `BlockProgramAssumption` and `ValuesAssumption` of `SecondPass` (the second pass:
well-formed functions, whose loops have a preheader and one exit; integers) and `LoadStoreAssumption` (homework: the sources of a store are loads before
it in its block).

Only model-checked:

- liveness (`Termination`, `SweepsEnd`, `Terminates`, `LoopsEnd`), which is out of the prover's reach;
- `second_local`: `ConstraintGraph` declares recursive operators, which walk paths of a graph and
  build it anew on the way, and the prover accepts none;
- `NoMissedViolation` of `second_function`, which needs besides `InSetsHold` what hoisting and monotonic checks
  leave in front of a loop: that a copy made for the whole loop answers for all
  its rounds;
- `range`, and the moves of `loops` (`NoMissedViolation`, `NoSpuriousTrap`, `IndicesKept`):
  these passes go through lists of checks and of nodes with folds, each step of which
  changes what the next one sees. What a fold computes is shown by induction over data, for
  which the library's theorems cannot be used. Where the result is a least set, as with `Search`, or a
  function of a position, as in `BlockFlow`, a least counterexample does instead; these folds are of neither form.

## 5. Not modelled

- `localoptsubsum` and `live` (`project.cpp`): `runOnFunction` has the call of the first
  commented out, and only the identity of indices it uses asks the second.
- The sample's loop part (`findForLoops` to `hoistInsideLoop`), its arrays of
  unknown size, and the functions of all passes that only print.
- In the second pass: stores through pointers other than the variables', and
  checks of indices computed by multiplication or division except for the offset of an access,
  which is one (`ElementSize`).
- Null pointers where a pass casts what it expects to be an instruction: `getEffect` (2562-2568) takes the operands of
  whatever is stored to a variable that serves as an index, and dereferences a null pointer when that is an argument
  of the function. The functions of `MCFG` store constants and results of instructions only.
- Merged nodes in `LoopMoves`, and nodes of more than one block in `RangeElimination`:
  `ProgramsAssumption` and `MovesAssumption` say so.
- Homework 1 (counting passes and searches for reachable blocks), and
  `base_implementation.cc` and `other.cc` of homework 2, which are
  earlier attempts at `Assignment_2.cc`.
- The other files of `Instrumentation/`, which are LLVM's, and the test programs.

What could be proved next: `NoMissedViolation` of `SecondPass`, from `AvailableChecksHold` and
what `LoopAnalysis` does to the checks of a loop.
