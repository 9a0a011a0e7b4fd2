# CGRA-Tool in TLA+

CGRA-Tool takes a loop in LLVM IR, builds a data-flow graph (DFG) from it,
schedules the graph, and maps it onto a coarse-grained reconfigurable array
(CGRA): every operation gets a processing element and a time modulo the
initiation interval (II), every edge a route. This directory models that
pipeline, model-checks it with TLC and proves with TLAPS every safety property the
passing runs check: of the construction of the graph, the scheduler, the resource graph
and its copies, the path search, the ILP mapper, the II search and the placement search.

The program is one thread. What makes it hard is not interleaving but

- recursion over a cyclic graph, where one order (node IDs) can be taken for
  another (instruction order),
- four passes over the schedule in different orders, each relying on the last,
- loops of the form `for (i = a; i != b; i++)` that do not end when `a > b`,
- a constraint system written row by row whose rows are only right together,
- a graph search without visited set on a graph with cycles,
- a graph that grows while it is looked at, by a function that calls itself
  through its own lookups,
- results returned by value, whose copies find every node and edge again by value
  or by an ID that need not be unique,
- a search loop that races the clock, around a solver that may answer late,
  wrongly or never.

## The system

| Component | State | Operations | Talks to |
|---|---|---|---|
| DFG construction (`src/src/dfg`) | `insts`, `nodes`, `edges`, `ctrlEdges` | constructor, `parseInst` and the `parse*` functions, `parseCtrlEdge`, `addEdge` | LLVM IR in; read by everything below |
| Scheduling (`DFG.cpp`) | `earliestCycle`, `latestCycle`, `cycle` per node, `cycleIsCalculated` | `topologySortedNodes`, `calculateCycle`, `getRecMII` | called by the driver and by the exhaustive mapper; the cycles are read by `mapII` |
| CGRA description (`hardware-modeler`) | `PEs`, `connections`, `adjList` | `init2dmesh`, `loadFromToml`, `operator=` | copied into every mapper and MRRG |
| MRRG (`mapper/MRRG.cpp`) | `nodes`, `edges`, `II`, `TT`, counters | constructor, `extendGraphUntil`, `findPath`, `operator=` | one for each II tried; extended by lookups beyond its end |
| Mapping (`mapper/Mapping.cpp`) | placement, `route_map`, an MRRG of its own | `shuffle`, `isLegal`, `isNull`, `operator=` | filled by the mappers, returned by value |
| ILP mapper (`mapper/ILPMapper.cpp`) | variables and rows of one integer program | `map`, `mapII` | OR-Tools; the mapper the driver uses |
| Random, exhaustive mapper | the placement tried, a counter | `map`, `mapII` | `Mapping::isLegal` |
| Heuristic, feasible mapper | none | stubs | nobody |
| Driver (`CGRATool.cpp`) | none | options, files, one loop | all of the above, in a straight line |

What makes each correct:

- *Construction*: one node per instruction, every operand an edge, the edge
  kind (forward, anti, control) determined by the instructions and not by the
  order the recursion took, a root edge exactly where the mapper will ask for
  one.
- *Scheduling*: the cycles respect the dependences, lie in the windows the other
  mappers search, waste no cycle, and never change once read; RecMII never
  exceeds what some schedule could achieve.
- *MRRG*: however it was made, extended and copied, one node for each unit and
  cycle and the edges between them; a mapping points into its own graph only.
- *MRRG path search*: exactly the walks between two nodes, and an end.
- *Placement*: every placement is tried once, what is accepted is legal, and the
  program stops on nothing that could have been mapped.
- *ILP mapper*: any solution the solver may return is a legal modulo mapping;
  `mapII` returns.
- *II search*: no interval skipped, no answer lost, an end.

`PROJECT.json` lists under `hazards` each place in the code where one of these
could fail, with the property that would show it.

## Modules

| Module | Models | Its state against the code |
|---|---|---|
| `DFGBuild` | `DFG::DFG(BBs)` and the parse functions | `stack` is the call stack of `parseInst`; a node is its position in `nodes` (ID + 2). The ten parse functions differ for the graph in two points only: `parseCall` doubles value operands, `parseBr` takes constants for values |
| `DFGBuildProofs` | - | the inductive invariant and the theorems |
| `DFGSchedule` | `topologySortedNodes`, `calculateCycle`, `getRecMII` | the vectors of vectors are kept as what they decide: the level an operation lies in is its earliest cycle, or its latest counted from the end. `vec` is the part of level `i` not visited yet; the order inside a level is left open |
| `DFGScheduleProofs` | - | the inductive invariant and the theorems |
| `CGRA` | the arrays of `init2dmesh` and `loadFromToml` | `connections` and `adjList` are apart, as in the class |
| `MRRGGraph` | the MRRG's nodes and edges | a unit is `<<PE, time>>`, the root `<<-1, -1>>`; edges added for the interval, the closing edges T-1 -> 0, and what an extension adds |
| `MRRGObject` | one `MRRG` object, its operations as functions | the vectors `nodes` and `edges` and `node_counter`; a pointer is a position in `nodes`, or `Stray` when nothing was ever stored there. `extendGraphUntil` is a record of its locals (`Enter`) and one function for a turn of each of its loops (`UnitStep`, `ConnectionStep`); `Close` is its end |
| `MRRGStore` | the life of `Mapping` objects, each with its MRRG | `store[m]` holds the members; a pointer names the object that owns the node, so that a dangling one shows; `call` is the `extendGraphUntil` that runs, with its loop variables, and nothing else runs until it returns; `last` is history, the copy just made |
| `MRRGStoreProofs` | - | the inductive invariant and the theorems |
| `Placement` | `mapII` of the exhaustive and the random mapper, `Mapping::shuffle`, `isLegal` | `places`, `counter`, `mapping` are its variables; of the graph only `TT` is kept, since the rest follows from it (`GraphIsMRRG`) |
| `PlacementSearch` | abstract | what they promise for one II: every placement tried once, giving up only when none is left or the time is over |
| `PlacementProofs` | - | the inductive invariant, the theorems and the refinement |
| `Order`, `OrderProofs` | the loops that filter a vector (`childrenOf`, `getEdgesTo`, ...) or go through all of one | `InOrder(S)` lists the positions `S` as such a loop meets them, `ListedBy(S, Less)` the elements of a vector that is sorted by `Less`; both are proved to |
| `FindPath` | `MRRG::findPath` | `edges` is the vector of the graph, in whatever order it was built (in the runs, the one `MRRGObject` builds), which decides the order of the search; `notVstd`, `curPath` and `paths` are its variables; one action per turn of its loop |
| `FindPathProofs` | - | the inductive invariants and the theorems |
| `ModuloMapping` | abstract | what a mapper promises for one II: nothing, or a legal modulo mapping |
| `ILPMapper` | `ILPMapper::mapII` | `rows` and `conts` are the constraints; `pc`, `node`, `at` and `i` say which loop adds them: the phase, the operation, which of its edges, the loop variable. An edge is its position in `edges`, since two may join the same operations. The binary variables of a row are the MRRG edges between its two times, so a 0/1 solution of the "exactly one" rows is one MRRG edge per row (`sol`); the other constraints are predicates on it |
| `ILPMapperProofs` | - | the inductive invariant, the theorems and the refinement |
| `IISearch` | `map` of three mappers, and the limits of their `mapII` | `ii`, `mapping`; of the clock the two differences `now - start` the code compares with its limits (`elapsed`, `elapsedII`). Reading the clock, the start of `mapII` (`begin`) and each placement are steps of their own, so time passes between a look at the clock and what follows from it. `found`, `failed`, `overrun` are history |
| `IISearchProofs` | - | the inductive invariant and the theorems |

`ILPMapper`, `FindPath` and `Placement` use `MRRGGraph` and take their arrays
from `CGRA`; `MRRGStore` extends `MRRGObject` and shows that the graph it builds
is the one of `MRRGGraph`; `Placement` implements `PlacementSearch` and takes the
answer of `findPath` as `FindPath` shows it: nothing, the walks, or no end;
`ILPMapper` implements `ModuloMapping` (`ImplementsModuloMapping`, with
`outcome`, `place` and `route` read off `route_map`). Its inputs carry the
cycles `DFGSchedule` would assign (written as functions in `MCILPMapper`).
`IISearch` sees `mapII`, or the check of one placement, as something that finds, fails
or hangs; `ILPMapper` and `Placement` say which of these happens, and where `Placement`
crashes or aborts. The solver is external: `Pick` and `NotSolved` let it
return any solution, or give up at any time.

An `MC` module next to a component gives its constants the values of a run.
Definitions marked "Mutant" are plausible slips of the code; each property has
one that TLC finds it to refute.

## What the runs show

Bounds are the constants of the `MC` modules; nothing else is bounded.

**schedule** (`MCDFGSchedule`): all 64 forward dependence graphs on four
operations, each with at most one anti edge and one control edge, 11968 graphs.
Four operations are the least with two parallel chains and a join. Larger sets
of recurrence edges only take the maximum over more of the same bounds.
`RecMIIIsLowerBound` compares RecMII with every assignment of start cycles, so it
is checked here and proved for every size. `CyclesFrozen` covers the second
call; `AnswerComes` is the end of both sorts.

**slack** (`MCDFGSlack`): six operations around a dependence chain of four,
every set of further forward edges: the smallest shape where the backward
pass moves an operation whose predecessors have moved too.
`ProducedBeforeUsed`, `CycleInWindow`, `NoSlack`.

**build** (`MCDFGBuild`): all loops of one block with a phi, an operation or a
call, an operation and a branch with operands from everywhere, and five larger
loops (mutual phis with uses before definitions, if-then-else, if-then,
unknown instructions). SSA form and dominance order of the blocks are the only
things assumed of a loop.

**ilp** (`MCILPMapper`): loops of two to five operations on two PEs: the
accumulation, the counted loop, operands that wait, recurrences that come
early, control edges that are not anti, calls and chains of calls, II from 1 to 4.
Two PEs (three for one problem) make the resources scarce enough that exclusivity
matters, and the solver's choice is exhaustive. `ImplementsModuloMapping` is the
main property; it promises nothing of a graph in which two edges join the same
operations, which the mapper tells apart nowhere. Three others say what the
constraint system costs. No edge spans more than II cycles (`SpanWithinII`), but for a
forward control edge to an operation whose operands are all doubled; `CallMerge` is
such a graph and is mapped. A doubled operand edge is mapped only if every use of the
result is doubled too (`DoublesGoOn`), as in `CallChain`; so a call whose result goes
to anything but calls never is. Two operands under way in the same time slot are
forced onto one unit (`OperandsTravelTogether`). `CoveredProblemsReturn` is the
condition under which the loops end. Where it is not met, `SlackRecurrence` and
`LongSlackRecurrence` pass the bound of a loop in two ways, in a continuation and in
a row loop.

**paths** (`MCFindPath`): every pair of nodes of a 1x2 mesh, II 1 to 4, in the
graph of the interval and in one extended to twice its length, with closing edges
at every time of the extension and every kind of value in the root pointer it
does not set; and 2x2 meshes. Paths of
more than nine nodes are not followed: inside an interval none has more than five,
and a search that gets there is on its way around the interval, which
`ReturnsOnlyWithinInterval` says has no end; only where the root pointer happens
to hold a unit's address can the search give up instead. `FindsAllWalks` excludes the case
that the indeterminate root pointer happens to hold a unit's address.

**search** (`MCIISearch`): limits of one and two ticks, at most four IIs, minimum II
from -1 to 2, every set of legal IIs, IIs that hang. Time may pass between any two
steps; a difference stands still once it is past its limit, since the code sees no more
of it. `FirstFound` and `SolutionKept` say that no II is skipped and no answer lost.
`map` reads the clock before a call and `mapII` sets out later and reads it again, so a
`mapII` may begin after the limit; `OneOverrun` says that no more than one ends
after it, whichever way, and that it is the last. `SearchEnds` is the end of the three
loops.

**store** (`MCMRRGStore`): two mappings of one operation and one edge on a 1x2
mesh with II 2, made, extended, filled, cleared, copied, assigned and destroyed in
every order. Two objects are the least for a copy and its original; extensions
go to time 4, two beyond the interval, so that an extension enters itself again and
a second one follows the first. Every turn of its loops is a step, which gives 452,592
states. `GraphIsMRRG` says that all this leaves the graph
`MRRGGraph` has in closed form, `OwnPointers` that a mapping survives the one it was
copied from, `CopiesAgree` that a copy says what the original says. Two facts limit
the last ones. The counter of IDs is not copied: after an extension of a copy two
nodes have one ID, and a route found again by IDs may become another. And an
extension leaves root edges with an uninitialized source, which the next copy
dereferences; `RoutesCopySafely` says that the ILP mapper, whose graph is not
extended, never returns such a mapping. A third way to stop is the comparison
of operations, which reads members no constructor sets. Extensions start at a
counter of at most 2, a route is one hop and the client uses one PE: bounds on
repetition only.

**placement** (`MCPlacement`): two and three operations on two PEs, connected or,
as in an array from a file, not; windows that lie inside the interval or reach
behind its end; operations that both PEs, one or none supports; forward edges, anti
edges, both, none; II 1 to 3. Two operations are the least that conflict, three the least
with an operation between two digits of the counter. `ImplementsSearch` is
the refinement of `PlacementSearch`: the combinations below the counter are those not
tried. `LegalInsideInterval` shows what `isLegal` comes to: a loop with an anti
edge is never accepted, because the destination an II later lies behind a closing
edge and `findPath` does not return from there. `UnitsUsedOnce` holds although the
conflict check compares IDs, which nodes an II apart do not share; it is
stated of operations with an edge, since the same check accepts two operations
without any edge on one unit and cycle of the interval. `StopsOnlyIfUnmappable` says
when the index out of range and the two assertions are reached. That of `shuffle` is
about the length it has just drawn. That of `isLegal` compares with `*nodes.end()`, which
is behind the vector and may hold anything: on an anti edge the model lets it fail or not.
`SearchReturns` ends every call, unless a path search hangs.
The exit above `MAXT` belongs to `IISearch`.

Four runs show the code contradict what it says of itself (details under
`findings` in `PROJECT.json`):

- **call**: `parseCall` adds each value operand twice, and a call whose result
  is unused is then mapped to two places at once.
- **recurrence**: RecMII comes from earliest and latest cycles, the row loop of an
  anti edge counts from the assigned ones. In a loop of six operations the source is in
  cycle 3 when the destination's next iteration is in cycle 2, at II = RecMII = 2: the
  row loop starts past its bound and `mapII` does not return, adding a row at every turn.
  (With the source in cycle 2 the row loop would end at once and the continuation
  loop, which starts one cycle later, miss the bound; run **ilp** has such a problem.)
- **control**: "Control edges are all anti edges" does not hold for the merge of
  an if-then-else, and `mapII` treats such an edge in two ways.
- **random**: the random (and exhaustive) mapper never recognises a mapping it
  has found, because the line that stores routes is commented out. The driver
  does not use these mappers, and no functional unit is given instructions in this
  repository; the run takes a client that does.

### Fairness

Every component is one thread that runs on: weak fairness of its next-state
relation. `IISearch` adds weak fairness of the clock, `Placement` only for the
random mapper: the exhaustive one ends by its counter. `MRRGStore` is a client
that may do anything and has no fairness. Of the solver nothing is
assumed but that it returns at some point, with or without a solution; this is
what `Solve` without a time limit gives for a finite integer program.
Deadlock checking is off where the function returns and the model stops with it.

## What is proved

`DFGBuildProofs`, for every set of loops of any size (assumptions: an operand is an
instruction of the loop, a constant or something outside; only a phi uses what
does not come before it): the safety invariants of `build`. The invariant ties the
graph to the stack of parse calls:

1. A frame on the stack has its node (`StackInv`), because `parseInst` makes the node
   before it looks at the operands. So an operand without node is not
   under way, its frame is a new one, and no instruction gets a second node (`NodeInv`).
2. The operands an instruction has passed are those before `op` in its frame, or all
   when it has none (`Reached`). An edge is that of an operand passed (`EdgeInv`), and
   an operand passed has its edges (`OperandInv`). A return changes neither,
   since the frame it drops had passed every operand.
3. The end of an edge that names an instruction is stated by the instruction
   and not by its node, which is found again only at the end: so the invariant
   does not mention nodes that are still to come.
4. The root is no operation, so its edges are not visible and never change which
   operations lack an in-edge (`RootInv`).

`DFGScheduleProofs`, for every number of operations and every set of graphs
(assumptions: `N` is a positive number, `Graphs` are sets of edges over the operations):
`TypeOK`, `ProducedBeforeUsed`, `CycleInWindow`, `NoSlack`,
`RecMIIIsLowerBound`, `CyclesFrozen`. None of them is inductive. The invariant
`IInv` follows the passes, one conjunct for each:

1. While a sort runs, the edges left are those among the operations left, and
   every placed operation has its predecessors (in reverse, successors) placed
   in earlier rounds and one exactly in the round before. So the level is
   the longest chain, which is what `SortLowerBound` says: no schedule starts the
   operation earlier. `RSortUpperBound` is its mirror image.
2. The forward pass makes `cycle` equal to `earliestCycle`, level by level.
3. The backward pass keeps every dependence at each single move, because all
   successors of an operation lie in levels already visited. An operation
   visited sits just before its first use and not after `latestCycle`.
4. `maxII` is the bound of one of the recurrence edges; by the two bounds of 1,
   any schedule needs at least that II for that edge.

`IISearchProofs`, for every set of calls, limits and clock: `TypeOK`, `FirstFound`,
`SolutionKept`, `OneOverrun`. The invariant ties the mapping in hand to
the II just tried and says that every smaller II came back empty, and that no
`mapII` is begun or under way after one that overran the limit: the time passed never
shrinks, so the next look at the clock is past the limit too.

`PlacementProofs`, for every set of problems (any number of operations, windows
and lists of units, edges and array; assumptions: an II and a number of operations
of at least one, a finite array, windows that are not empty): the safety
invariants of `placement` and `ImplementsSearch`. The invariant `IInv` adds to them:

1. What is looked up does not depend on the order of lookups, and the graph reaches
   behind it (`PlacesInv`, `GraphInv`).
2. A digit of the counter is -1 only if its operation has no places or is the
   first, and none is while a placement is looked at (`CounterInv`).
3. Every edge `isLegal` has passed lies inside the interval (`EdgeInv`): a
   walk that crosses no closing edge starts and ends before II - 1 is over, and the
   destination of an anti edge never does. Inside the interval a time is its own
   remainder, so that equal units and cycles are equal nodes with equal IDs, which
   is what the conflict check sees.

For the refinement, combinations are ordered by the first digit in which they
differ (`FirstDifference`, from `LeastElement`, by well-foundedness of inclusion).
The counter starts above all others (`AllUpToFirst`), and one step of it passes over
none (`NextBelow`), so the combinations at or below it lose exactly the one
that is tried; when the first digit is -1 none is left.

`OrderProofs`, for every finite set of positions: `InOrder` lists each once and in
increasing order (`InOrderLists`), and positions whose values count up from `lo` to
`hi` are listed in that order (`InOrderCounts`). Both of the next modules use it.

`FindPathProofs`, for every array, interval, extension, pair of nodes and value of the
stale root pointer (assumptions: an II of at least one, an extension not shorter
than it, connections between PEs of the array, both nodes in the graph; the
vector has the edges of `Graph` in any order and any number of times; any bound
`MaxPath`): the safety invariants of `paths`. What makes `findPath` hard is that it
keeps no predecessors: after a node is popped, the path is cut back to the
longest prefix whose last node has an edge to it.

1. The path leads to every node of the stack: there is a function from stack positions
   to path positions, not decreasing, such that the path node has an edge to the
   stack node (`Rooted`). So a cut never leaves nothing, and the path always starts
   at `src`.
2. As long as a closing edge lies between `src` and `des`, the stack holds a node at or
   before it (`IntervalInv`): its child on the same PE leads up to the edge, and the
   edge leads back to time 0. A stack that is never empty never returns.
3. When none does, position and time of a path node advance together (`PathInv`). A walk
   from `src` to `des` is either found or still followed: one of its nodes is on the
   stack and the path has those before it (`WalkInv`).

`ILPMapperProofs`, for every graph, schedule, array and II (assumptions: at least one
operation, an II of at least one, edges between operations, control edges after the
data edges and none between the operations of a data edge, since a branch has no value,
connections between PEs; nothing about the schedule: it need not respect a
dependence) and whatever the solver
picks: the safety invariants of `ilp`, `ImplementsModuloMapping`, and that a covered
problem never runs past a loop bound (`LoopsEnd`, the safety part of
`CoveredProblemsReturn`). The invariant `IInv` ties the rows and constraints to the
loops: each row is one of a loop at a turn this loop has had, a loop has left a
row for every turn it has had, in order, and the same of the continuation
constraints (`RowsOK`, `ContsOK`). So when a mapping is read off, all of them are there
(`Solution`). The rest is about solutions:

1. Consistency makes all sources of an operation that land in a slot land on the same
   nodes (`Together`, hence `OperandsTravelTogether`). With it the exclusion, which the
   code writes for the first source only, holds for all: a node is landed on for one
   operation, and by one row of each source (`OneLanding`).
2. `ShortSpan`: map each landing of an edge in the slot of its end to the row that leaves
   it, and this to the landing of the turn before. Both maps are injective on
   a finite set, hence onto, and the landing at the very end has no row after it: unless
   the span is at most the II, the row that leaves it is the one that leaves the source.
   A forward control edge escapes, because its continuation constraints stop an II
   early; there an in-edge that lands once gives the contradiction (`BoundedSpan`).
3. With a span of at most the II an edge that is not doubled visits a slot once
   (`OneVisit`). So the row that leaves where another lands is that of the next turn,
   and the route is unbroken; the first one leaves where the source is and the last
   lands where the destination is (`PlaceFacts`, `WalkFacts`).
4. The two rows of a doubled edge land on two nodes, and each has to be left for every
   use: `DoublesGoOn`.

For the refinement, the places and routes 3 speaks of are those of a `LegalMapping`, and
two operations share no node by 1. A forward control edge is in none: its span exceeds
the II or its continuation loop diverges.

`MRRGStoreProofs`, for every array, every number of mappings and any sequence of calls
(assumptions: a finite array with at least one PE, PEs that are numbers, as their IDs
are, connections between PEs of the array, intervals of at least one): the safety
invariants of `store`. A graph grows by one node or one edge at a time, and the
same edge is added more than once; so nothing is said about how the vectors were
filled, only about what is in them:

1. A graph is described by the units it has a node for (`Layout`: each once, the root
   first) and by its edges as pairs of units: a value stays (`Holds`), moves along
   a connection (`Moves`) or goes back to time 0 (`Wraps`). `Whole` is this description
   for units and connections up to `TT` and closing edges from `II` to `TT`, and
   `WholeIsMRRG` that it is the graph of `MRRGGraph`. Two vectors with the same
   description may differ, and do: an extended graph repeats the closing edges.
2. While an extension runs, the description follows its loops (`UnitsBuilt`,
   `MovesBuilt`), and one turn adds one unit or one move to it (`UnitStepBuilds`,
   `ConnectionStepBuilds`). That the loops miss no unit and no connection is
   `ListedByLists`.
3. `TT` is set last, so a lookup may enter the extension again, which adds closing
   edges and raises `TT` to the time looked up. `Progress` says how far `TT` can
   lag behind the unit that is built: far enough for the inner call to happen once for
   every time on the way, so that all of `Wraps` gets there, and not far enough
   for the inner call to enter a third: the recursion of `extendGraphUntil` through
   `getNodeByDetial` is one call deep (`NestsOnce`, stated with the proofs).
4. An extension keeps the nodes and edges there are (`Grows`, `Continues`), so
   placements and routes stay valid when it returns.
5. A copy has the nodes of the original by value, and by `Layout` no two are
   equal; so looking one up by value finds its own position (`NodeFound`) and the
   edges have the same description. A route is looked up by IDs: the edge found
   exists, and is the same one if IDs differ (`RouteEdgeFound`). This is the
   hypothesis of `CopiesAgree`, and the code does not always meet it.
6. An edge without source is left only by an extension that starts behind the
   interval, so `II < TT` wherever one is (`Whole`): hence `RoutesCopySafely`.

Only model-checked: liveness (`AnswerComes`, `ConstructionEnds`, both `SearchEnds`,
`SearchReturns`, `CoveredProblemsReturn`), which needs fairness and ENABLED and is out
of the prover's reach. All other properties of the passing runs are theorems. What the
modules assume of each other is not composed: `FindPath` assumes that
the vector it is given has the edges of `Graph`, which TLC evaluates for the
arrays and intervals of `paths` and `GraphIsMRRG` states of every graph of the store;
`Placement` assumes the answers `FindPath` was shown to give. What an extension
does from beginning to end is stated as an invariant of its steps and not of a
recursive function, since what such a function computes for every input cannot
be proved either.

## Not modelled

- Names, types, constants and dot or Verilog output: they decide nothing.
- The solver's arithmetic, including its tolerance: a variable is 0 or 1.
- A build without assertions (`NDEBUG`, as in the release build the repository's
  README advises): there `shuffle` writes behind a vector where the model stops.
- The IDs of MRRG edges, whose order the compiler chooses and only the dot
  file shows; `occupied` and `mux_allow`, which never change.
- The heuristic and feasible mappers, which are stubs; the schedulability pass, a
  predicate without state whose call is commented out.
- The driver: a straight line. It maps the first top-level loop without inner loops
  and returns, dereferences `getFunction("dummy")` and opens the preset name
  "2dmesh" as a file; these are listed as hazards, none needs a model to be seen.
- The vendored JSON and colour headers, nearly nine tenths of the lines.
- Functions nothing calls: `planRoute`, `getOpsOfCycle`,
  `DFG(targetLoops)`, the last differing from the constructor modelled in the
  source of the blocks only.

## Plan

Written in this order, the most important first: scheduling and its proofs, the
ILP mapper against its abstract specification, construction, path search, II
search and its proofs, the store of graphs and mappings, placement and its proofs,
the proofs of the path search, of the ILP mapper and of the store. Next:

1. `Compile`: scheduling, ILP row loops and II search composed, so that the
   cycles of `ILPMapper` come from `DFGSchedule` and `hangs` of `IISearch` from
   `ILPMapper`; the condition on the loop under which the driver ends.
