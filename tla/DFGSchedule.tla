---------------------------- MODULE DFGSchedule ----------------------------
(***************************************************************************)
(* Cycle scheduling of a data-flow graph: DFG::topologySortedNodes,        *)
(* DFG::calculateCycle and DFG::getRecMII (src/src/dfg/DFG.cpp).           *)
(*                                                                         *)
(* An operation is its position in the instruction list `insts', so an     *)
(* edge <<s, d>> is an anti edge exactly when d <= s (DFG::isAnti).  The   *)
(* graph is chosen in Init among Graphs and never changes.  The vectors    *)
(* sortedNodes and rsortedNodes are kept as what they decide: the vector   *)
(* an operation lies in is its earliestCycle, and its latestCycle counted  *)
(* from the end.                                                           *)
(***************************************************************************)
EXTENDS Integers

CONSTANTS N,       \* number of operations of the loop
          Graphs   \* the graphs considered: [edges |-> ..., ctrlEdges |-> ...]

Op == 0 .. N - 1

ASSUME NAssumption == N \in Nat \ {0}
ASSUME GraphsAssumption ==
    Graphs \subseteq [edges : SUBSET (Op \X Op), ctrlEdges : SUBSET (Op \X Op)]

VARIABLES
    edges,              \* visible data edges, anti ones included
    ctrlEdges,          \* branch -> phi edges
    cycleIsCalculated,  \* the flag that makes calculateCycle run once
    pc,                 \* where getRecMII is
    notVstd,            \* operations the running sort has not placed
    tedges,             \* edges the running sort has not deleted
    depth,              \* number of levels the running sort has produced
    levels,             \* sortedNodes.size()
    rlevels,            \* rsortedNodes.size()
    i,                  \* level the forward or backward pass is in
    vec,                \* operations of level i still to be visited
    earliestCycle, latestCycle, cycle,
    toBound,            \* recurrence edges getRecMII has not looked at
    maxII               \* result of getRecMII

vars == <<edges, ctrlEdges, cycleIsCalculated, pc, notVstd, tedges, depth,
          levels, rlevels, i, vec, earliestCycle, latestCycle, cycle,
          toBound, maxII>>

graph == <<edges, ctrlEdges>>
sort == <<notVstd, tedges, depth>>

isAnti(e) == e[2] <= e[1]
Dep == {e \in edges : ~isAnti(e)}              \* edges the schedule must respect
Recurrence == ctrlEdges \cup {e \in edges : isAnti(e)}
Preds(n) == {s \in Op : <<s, n>> \in Dep}      \* getEdgesTo(n), no anti edges
Succs(n) == {d \in Op : <<n, d>> \in Dep}      \* getEdgesFrom(n), no anti edges

TypeOK ==
    /\ edges \subseteq Op \X Op
    /\ ctrlEdges \subseteq Op \X Op
    /\ cycleIsCalculated \in BOOLEAN
    /\ pc \in {"idle", "sort", "rsort", "forward", "backward", "recmii"}
    /\ notVstd \subseteq Op
    /\ tedges \subseteq edges
    /\ depth \in Nat /\ levels \in Nat /\ rlevels \in Nat /\ i \in Nat
    /\ vec \subseteq Op
    /\ earliestCycle \in [Op -> Int]
    /\ latestCycle \in [Op -> Int]
    /\ cycle \in [Op -> Int]
    /\ toBound \subseteq Op \X Op
    /\ maxII \in Int

Init ==
    /\ \E g \in Graphs : edges = g.edges /\ ctrlEdges = g.ctrlEdges
    /\ cycleIsCalculated = FALSE
    /\ pc = "idle"
    /\ notVstd = {} /\ tedges = {} /\ depth = 0
    /\ levels = 0 /\ rlevels = 0 /\ i = 0 /\ vec = {}
    /\ earliestCycle = [n \in Op |-> -1]
    /\ latestCycle = [n \in Op |-> -1]
    /\ cycle = [n \in Op |-> -1]
    /\ toBound = {} /\ maxII = -1
-----------------------------------------------------------------------------
(* getRecMII() calls calculateCycle(), which sorts only the first time.    *)

(* Mutant: control edges take part in the sort. *)
StartSortCtrl == notVstd' = Op /\ tedges' = Dep \cup ctrlEdges /\ depth' = 0

StartSort ==
    /\ notVstd' = Op
    /\ tedges' = Dep
    /\ depth' = 0

(* Mutant: the flag is not tested. *)
FirstCallUnguarded ==
    /\ pc = "idle" /\ pc' = "sort" /\ StartSort
    /\ UNCHANGED <<graph, cycleIsCalculated, levels, rlevels, i, vec,
                   earliestCycle, latestCycle, cycle, toBound, maxII>>

FirstCall ==
    /\ pc = "idle" /\ ~cycleIsCalculated
    /\ pc' = "sort"
    /\ StartSort
    /\ UNCHANGED <<graph, cycleIsCalculated, levels, rlevels, i, vec,
                   earliestCycle, latestCycle, cycle, toBound, maxII>>

StartBound ==
    /\ pc' = "recmii"
    /\ toBound' = Recurrence
    /\ maxII' = -1

LaterCall ==
    /\ pc = "idle" /\ cycleIsCalculated
    /\ StartBound
    /\ UNCHANGED <<graph, cycleIsCalculated, sort, levels, rlevels, i, vec,
                   earliestCycle, latestCycle, cycle>>
-----------------------------------------------------------------------------
(* topologySortedNodes(r): one iteration takes the operations no remaining *)
(* edge points to (r: leaves from), and deletes the edges that leave (r:   *)
(* enter) them.                                                            *)

Degree0(r) ==
    {n \in notVstd : \A e \in tedges : IF r THEN e[1] # n ELSE e[2] # n}

Peel(r, tnodes) ==
    /\ notVstd' = notVstd \ tnodes
    /\ tedges' = {e \in tedges : IF r THEN e[2] \notin tnodes
                                      ELSE e[1] \notin tnodes}
    /\ depth' = depth + 1

SortLevel ==
    /\ pc = "sort" /\ notVstd # {}
    /\ Peel(FALSE, Degree0(FALSE))
    /\ earliestCycle' = [n \in Op |-> IF n \in Degree0(FALSE) THEN depth
                                                        ELSE earliestCycle[n]]
    /\ UNCHANGED <<graph, cycleIsCalculated, pc, levels, rlevels, i, vec,
                   latestCycle, cycle, toBound, maxII>>

SortDone ==
    /\ pc = "sort" /\ notVstd = {}
    /\ levels' = depth
    /\ pc' = "rsort"
    /\ StartSort
    /\ UNCHANGED <<graph, cycleIsCalculated, rlevels, i, vec, earliestCycle,
                   latestCycle, cycle, toBound, maxII>>

(* Mutant: `cycle = cycle - 1' is forgotten before the reverse sort. *)
LatestOfLevelOff(k) == levels - k

LatestOfLevel(k) == (levels - 1) - k

RSortLevel ==
    /\ pc = "rsort" /\ notVstd # {}
    /\ Peel(TRUE, Degree0(TRUE))
    /\ latestCycle' = [n \in Op |-> IF n \in Degree0(TRUE)
                                    THEN LatestOfLevel(depth)
                                    ELSE latestCycle[n]]
    /\ UNCHANGED <<graph, cycleIsCalculated, pc, levels, rlevels, i, vec,
                   earliestCycle, cycle, toBound, maxII>>

Level(k) == {n \in Op : earliestCycle[n] = k}           \* sortedNodes[k]

(* Mutant: the backward pass walks the vectors in the forward order. *)
RLevelForward(k) == {n \in Op : latestCycle[n] = k}

RLevel(k) == {n \in Op : latestCycle[n] = LatestOfLevel(k)}  \* rsortedNodes[k]

RSortDone ==
    /\ pc = "rsort" /\ notVstd = {}
    /\ rlevels' = depth
    /\ cycle' = [n \in Op |-> IF n \in Level(0) THEN 0 ELSE cycle[n]]
    /\ pc' = "forward"
    /\ i' = 1
    /\ vec' = Level(1)
    /\ UNCHANGED <<graph, cycleIsCalculated, sort, levels, earliestCycle,
                   latestCycle, toBound, maxII>>

(* cycle := the largest predecessor cycle + 1, never below -1. *)
Forward(n) ==
    /\ pc = "forward" /\ i < levels /\ n \in vec
    /\ \E m \in {-1} \cup {cycle[s] + 1 : s \in Preds(n)} :
          /\ \A s \in Preds(n) : cycle[s] + 1 <= m
          /\ cycle' = [cycle EXCEPT ![n] = m]
    /\ vec' = vec \ {n}
    /\ UNCHANGED <<graph, cycleIsCalculated, pc, sort, levels, rlevels, i,
                   earliestCycle, latestCycle, toBound, maxII>>

ForwardNext ==
    /\ pc = "forward" /\ i < levels /\ vec = {}
    /\ i' = i + 1
    /\ vec' = Level(i + 1)
    /\ UNCHANGED <<graph, cycleIsCalculated, pc, sort, levels, rlevels,
                   earliestCycle, latestCycle, cycle, toBound, maxII>>

ForwardDone ==
    /\ pc = "forward" /\ i >= levels
    /\ pc' = "backward"
    /\ i' = 0
    /\ vec' = RLevel(0)
    /\ UNCHANGED <<graph, cycleIsCalculated, sort, levels, rlevels,
                   earliestCycle, latestCycle, cycle, toBound, maxII>>

(* Mutant: max_element instead of min_element. *)
LastUses(n) == {m \in Succs(n) : \A d \in Succs(n) : cycle[d] <= cycle[m]}

FirstUses(n) == {m \in Succs(n) : \A d \in Succs(n) : cycle[m] <= cycle[d]}

(* cycle := the smallest successor cycle - 1; operations without successor *)
(* keep theirs.                                                            *)
Backward(n) ==
    /\ pc = "backward" /\ i < rlevels /\ n \in vec
    /\ IF Succs(n) = {}
       THEN cycle' = cycle
       ELSE \E m \in FirstUses(n) : cycle' = [cycle EXCEPT ![n] = cycle[m] - 1]
    /\ vec' = vec \ {n}
    /\ UNCHANGED <<graph, cycleIsCalculated, pc, sort, levels, rlevels, i,
                   earliestCycle, latestCycle, toBound, maxII>>

BackwardNext ==
    /\ pc = "backward" /\ i < rlevels /\ vec = {}
    /\ i' = i + 1
    /\ vec' = RLevel(i + 1)
    /\ UNCHANGED <<graph, cycleIsCalculated, pc, sort, levels, rlevels,
                   earliestCycle, latestCycle, cycle, toBound, maxII>>

BackwardDone ==
    /\ pc = "backward" /\ i >= rlevels
    /\ cycleIsCalculated' = TRUE
    /\ StartBound
    /\ UNCHANGED <<graph, sort, levels, rlevels, i, vec, earliestCycle,
                   latestCycle, cycle>>
-----------------------------------------------------------------------------
(* The loop over the recurrence edges, then the return to the caller.      *)

(* Mutant: the bound is taken between the assigned cycles. *)
BoundOfCycles(e) == cycle[e[1]] - cycle[e[2]] + 1

Bound(e) == earliestCycle[e[1]] - latestCycle[e[2]] + 1

(* Mutant: the loop does not advance. *)
BoundEdgeAgain(e) ==
    /\ pc = "recmii" /\ e \in toBound
    /\ maxII' = IF Bound(e) > maxII THEN Bound(e) ELSE maxII
    /\ UNCHANGED <<graph, cycleIsCalculated, pc, sort, levels, rlevels, i, vec,
                   earliestCycle, latestCycle, cycle, toBound>>

BoundEdge(e) ==
    /\ pc = "recmii" /\ e \in toBound
    /\ maxII' = IF Bound(e) > maxII THEN Bound(e) ELSE maxII
    /\ toBound' = toBound \ {e}
    /\ UNCHANGED <<graph, cycleIsCalculated, pc, sort, levels, rlevels, i, vec,
                   earliestCycle, latestCycle, cycle>>

Return ==
    /\ pc = "recmii" /\ toBound = {}
    /\ pc' = "idle"
    /\ UNCHANGED <<graph, cycleIsCalculated, sort, levels, rlevels, i, vec,
                   earliestCycle, latestCycle, cycle, toBound, maxII>>

calculateCycle ==
    \/ FirstCall \/ SortLevel \/ SortDone \/ RSortLevel \/ RSortDone
    \/ (\E n \in Op : Forward(n) \/ Backward(n))
    \/ ForwardNext \/ ForwardDone \/ BackwardNext \/ BackwardDone

getRecMII == LaterCall \/ (\E e \in Op \X Op : BoundEdge(e)) \/ Return

Next == calculateCycle \/ getRecMII

Spec == Init /\ [][Next]_vars
(* One thread runs the passes to their end: a step that can be taken is.   *)
FairSpec == Spec /\ WF_vars(Next)
-----------------------------------------------------------------------------
Scheduled == cycleIsCalculated      \* calculateCycle has returned
Answered == pc = "idle" /\ Scheduled  \* getRecMII has returned

(* Every value is produced in a strictly earlier cycle than it is used.    *)
(* The row loop of ILPMapper::mapII (i = src->cycle; i != node->cycle)     *)
(* never ends otherwise.                                                   *)
ProducedBeforeUsed ==
    Scheduled => \A e \in Dep : cycle[e[1]] < cycle[e[2]]

(* The cycle given to an operation lies in the window [earliestCycle,      *)
(* latestCycle] that the exhaustive and random mappers search, although    *)
(* the two are computed by different passes in different orders.           *)
CycleInWindow ==
    Scheduled => \A n \in Op : /\ 0 <= earliestCycle[n]
                               /\ earliestCycle[n] <= cycle[n]
                               /\ cycle[n] <= latestCycle[n]
                               /\ latestCycle[n] < levels

(* The backward pass leaves no slack: a value is produced in the cycle     *)
(* just before its first use, so no operand waits in a register longer     *)
(* than its siblings force it to.                                          *)
NoSlack ==
    Scheduled => \A n \in Op :
        Succs(n) # {} => \E d \in Succs(n) : cycle[n] = cycle[d] - 1

(* A start-cycle assignment the exhaustive mapper may try: it respects the *)
(* dependences and fits in the length of the critical path.                *)
IsSchedule(sigma) ==
    /\ \A e \in Dep : sigma[e[1]] < sigma[e[2]]
    /\ \A n \in Op : 0 <= sigma[n] /\ sigma[n] < levels

(* RecMII never skips an initiation interval that could work: whatever the *)
(* assignment, an II that satisfies every recurrence edge is at least      *)
(* RecMII.                                                                 *)
RecMIIIsLowerBound ==
    Answered => \A sigma \in [Op -> 0 .. levels - 1] :
        IsSchedule(sigma) =>
            \/ maxII = -1
            \/ \E e \in Recurrence : maxII <= sigma[e[1]] - sigma[e[2]] + 1

(* Once calculated, the cycles never move: every mapper reads them again   *)
(* and again while the II grows.                                           *)
CyclesFrozen ==
    [][cycleIsCalculated =>
         UNCHANGED <<earliestCycle, latestCycle, cycle, cycleIsCalculated>>]_vars

(* Both sorts end and getRecMII returns: the peeling never runs dry before *)
(* every operation is placed.                                              *)
AnswerComes == <>Answered
=============================================================================
