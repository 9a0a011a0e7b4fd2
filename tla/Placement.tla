------------------------------ MODULE Placement ------------------------------
(***************************************************************************)
(* ExhaustiveMapper::mapII and RandomMapper::mapII: placements, one after  *)
(* the other, and Mapping::isLegal on each                                 *)
(* (src/src/mapper/ExhaustiveMapper.cpp, Mapper.cpp, Mapping.cpp).         *)
(*                                                                         *)
(* A problem is [n, lo, hi, units, edges, cgra, II]: operations 1 .. n in  *)
(* the order of the map mappable_places, their earliest and latest cycles, *)
(* the PEs that support each, in the order of the array, and the edges of  *)
(* getEdges() as <<src, des, isAnti>>.                                     *)
(*                                                                         *)
(* Lookups extend the graph of the mapping.  Whatever they were, its nodes *)
(* and edges follow from II and TT: MRRGStore shows it of the code, with   *)
(* GraphIsMRRG.                                                            *)
(***************************************************************************)
EXTENDS MRRGGraph, Sequences, FiniteSets, Functions

CONSTANTS Problems, Mappers

ASSUME MappersAssumption == Mappers \subseteq {"exhaustive", "random"}
ASSUME ProblemsAssumption == \A p \in Problems :
    /\ p.n \in Nat \ {0} /\ p.II \in Nat \ {0}
    /\ Cardinality(p.cgra.PEs) \in Nat
    /\ p.units \in [1 .. p.n -> Seq(p.cgra.PEs)]
    /\ p.lo \in [1 .. p.n -> Nat] /\ p.hi \in [1 .. p.n -> Nat]
    /\ \A o \in 1 .. p.n : p.lo[o] <= p.hi[o]
    /\ p.edges \in Seq((1 .. p.n) \X (1 .. p.n) \X BOOLEAN)

VARIABLES
    problem, mapper,
    pc,
    expired,          \* now - start > time_limit
    TT,               \* of the mapping's graph: the last time of its nodes
    places,           \* operation -> its mappable nodes, once looked up
    counter,          \* operation -> index into places, or -1
    mapping,          \* operation -> node
    edge              \* the edge isLegal looks at next

vars == <<problem, mapper, pc, expired, TT, places, counter, mapping, edge>>
input == <<problem, mapper>>

Ops == 1 .. problem.n
II == problem.II
cgra == problem.cgra
NumPEs == Cardinality(cgra.PEs)

Init ==
    /\ problem \in Problems /\ mapper \in Mappers
    /\ pc = IF mapper = "random" THEN "turn" ELSE "places"
    /\ expired = FALSE
    /\ TT = problem.II
    /\ places = <<>> /\ counter = <<>> /\ mapping = <<>> /\ edge = 0

(* Time passes at any point. *)
Expire ==
    /\ ~expired /\ expired' = TRUE
    /\ UNCHANGED <<input, pc, TT, places, counter, mapping, edge>>
-----------------------------------------------------------------------------
(* Mutant: the graph is extended one cycle late. *)
AfterRangeLookupLate(end, T1) == IF T1 > end + 2 THEN T1 ELSE end

(* TT after getFUsOfT(T0, T1) and after getNodeByDetial(type, pe, t). *)
AfterRangeLookup(end, T1) == IF T1 > end + 1 THEN T1 ELSE end
AfterNodeLookup(end, t) == IF t > end THEN t ELSE end

Supports(node, o) == PEOf(node) \in Range(problem.units[o])

(* getFUsOfT(earliestCycle, latestCycle + 1), those that support it: cycle *)
(* after cycle, in the order the nodes were made.                          *)
MappablePlaces(o) ==
    LET units == problem.units[o]
    IN  [k \in 1 .. Len(units) * (problem.hi[o] - problem.lo[o] + 1) |->
            <<units[1 + ((k - 1) % Len(units))], problem.lo[o] + ((k - 1) \div Len(units))>>]

(* for (DFGNode *node : ops), sorted by latest cycle. *)
LookUp(o) ==
    /\ pc = "places" /\ o \notin DOMAIN places
    /\ \A q \in Ops \ DOMAIN places : problem.hi[o] <= problem.hi[q]
    /\ TT' = AfterRangeLookup(TT, problem.hi[o] + 1)
    /\ places' = [q \in DOMAIN places \cup {o} |->
                     IF q = o THEN MappablePlaces(o) ELSE places[q]]
    /\ UNCHANGED <<input, pc, expired, counter, mapping, edge>>

(* The counter starts at the last place of every operation. *)
StartLoop ==
    /\ pc = "places" /\ DOMAIN places = Ops
    /\ counter' = [o \in Ops |-> Len(places[o]) - 1]
    /\ pc' = "turn"
    /\ UNCHANGED <<input, expired, TT, places, mapping, edge>>
-----------------------------------------------------------------------------
(* One turn of the loop. *)

Turn == pc = "turn" /\ ~(mapper = "exhaustive" /\ counter[1] = -1)

(* while (counter[0] != -1) *)
Exhausted ==
    /\ pc = "turn" /\ mapper = "exhaustive" /\ counter[1] = -1
    /\ pc' = "null"
    /\ UNCHANGED <<input, expired, TT, places, counter, mapping, edge>>

TimeOver ==
    /\ Turn /\ expired
    /\ pc' = "null"
    /\ UNCHANGED <<input, expired, TT, places, counter, mapping, edge>>

(* pruned_places[i][counter[i]] of an operation without places is read     *)
(* before the start of an empty vector.                                    *)
InRange(o) == counter[o] \in 0 .. Len(places[o]) - 1

OutOfRange ==
    /\ Turn /\ ~expired /\ mapper = "exhaustive"
    /\ \E o \in Ops : ~InRange(o)
    /\ pc' = "crashed"
    /\ UNCHANGED <<input, expired, TT, places, counter, mapping, edge>>

(* The placement the counter stands for. *)
TakePlacement ==
    /\ Turn /\ ~expired /\ mapper = "exhaustive"
    /\ \A o \in Ops : InRange(o)
    /\ mapping' = [o \in Ops |-> places[o][counter[o] + 1]]
    /\ pc' = "check" /\ edge' = 1
    /\ UNCHANGED <<input, expired, TT, places, counter>>

(* Mutant: the draw starts at 1. *)
LengthsFromOne == 1 .. 2 * II

(* dist6 *)
Lengths == II .. 2 * II

(* shuffle: the operations go to different units before the time drawn, if *)
(* there are enough: assert(ops.size() <= fus.size()).                     *)
Shuffle ==
    /\ Turn /\ ~expired /\ mapper = "random"
    /\ \E T \in Lengths :
          /\ TT' = AfterRangeLookup(TT, T)
          /\ \/ /\ problem.n <= NumPEs * T
                /\ mapping' \in Injection(Ops, FUsBetween(cgra, 0, T - 1))
                /\ pc' = "check" /\ edge' = 1
             \/ /\ problem.n > NumPEs * T
                /\ pc' = "aborted"
                /\ UNCHANGED <<mapping, edge>>
    /\ UNCHANGED <<input, expired, places, counter>>
-----------------------------------------------------------------------------
(* isLegal: supported operations, then no two nodes equal once the times   *)
(* are taken modulo II, then a path for each edge.  (Steps 4 to 6 sort the *)
(* paths and reject nothing: tryOccupyPath returns true on its first line, *)
(* and the routes are not stored.)                                         *)

(* Equal nodes have equal IDs.  The graph of a mapping is a copy, and its  *)
(* node_counter is not copied: the nodes behind II are numbered from 0     *)
(* again, like those from time 0 on.  The ID of a node is given as the     *)
(* cycles and the units that were counted before it.                       *)
ID(node) == IF TimeOf(node) <= II THEN <<TimeOf(node), PEOf(node)>>
            ELSE <<TimeOf(node) - II - 1, PEOf(node)>>
Modded(node) == [ID |-> ID(node), pe |-> PEOf(node), T |-> TimeOf(node) % II]

Supported == \A o \in Ops : Supports(mapping[o], o)

(* Mutant: only the ends of an edge are compared. *)
ConflictOfNeighbours ==
    \E k \in DOMAIN problem.edges :
        /\ problem.edges[k][1] # problem.edges[k][2]
        /\ Modded(mapping[problem.edges[k][1]]) = Modded(mapping[problem.edges[k][2]])

Conflict == \E o, q \in Ops : o # q /\ Modded(mapping[o]) = Modded(mapping[q])
Admissible == Supported /\ ~Conflict

Checking == pc = "check" /\ Admissible

(* The next turn begins with clear(). *)
NextAttempt ==
    /\ pc' = IF mapper = "random" THEN "turn" ELSE "next"
    /\ mapping' = <<>> /\ edge' = 0

Reject ==
    /\ pc = "check" /\ ~Admissible
    /\ NextAttempt
    /\ UNCHANGED <<input, expired, TT, places, counter>>

Edge == problem.edges[edge]
Src == mapping[Edge[1]]

(* The destination of an anti edge is the unit's node an II later, which   *)
(* may lie behind the graph's end.                                         *)
Des == LET node == mapping[Edge[2]]
       IN  IF Edge[3] THEN <<PEOf(node), TimeOf(node) + II>> ELSE node

(* A walk of as many hops as cycles along the links of the array. *)
Reaches(s, d) ==
    LET hops == TimeOf(d) - TimeOf(s)
        reached[k \in 0 .. hops] ==
          IF k = 0 THEN {PEOf(s)}
          ELSE LET before == reached[k - 1]
               IN  {l[2] : l \in {l \in Links(cgra) : l[1] \in before}}
    IN  PEOf(d) \in reached[hops]

(* Mutant: only the edges that close the interval itself go back to 0. *)
CrossesOnce(s, d, end) == TimeOf(s) <= II - 1 /\ II - 1 < TimeOf(d)

(* Edges back to time 0 between the two. *)
Crosses(s, d, end) == \E t \in II - 1 .. end - 1 : TimeOf(s) <= t /\ t < TimeOf(d)

(* findPath, as FindPath shows it: empty if the destination is not later,  *)
(* without end if it crosses an edge back to time 0, else all walks.  (The *)
(* uninitialized root of an extension is taken to be none of the units.)   *)
findPath(s, d, end) ==
    CASE TimeOf(s) >= TimeOf(d) -> "empty"
      [] TimeOf(s) < TimeOf(d) /\ Crosses(s, d, end) -> "endless"
      [] TimeOf(s) < TimeOf(d) /\ ~Crosses(s, d, end) ->
             IF Reaches(s, d) THEN "paths" ELSE "empty"

CheckEdge ==
    /\ Checking /\ edge <= Len(problem.edges)
    /\ TT' = IF Edge[3] THEN AfterNodeLookup(TT, TimeOf(Des)) ELSE TT
    /\ LET found == findPath(Src, Des, TT')
       IN  \/ /\ found = "paths"
              /\ edge' = edge + 1
              /\ UNCHANGED <<pc, mapping>>
           \/ /\ found = "endless"
              /\ pc' = "hung"
              /\ UNCHANGED <<mapping, edge>>
           \/ /\ found = "empty"
              /\ NextAttempt
    /\ UNCHANGED <<input, expired, places, counter>>

(* assert(des != *nodes.end()) follows the lookup of an anti edge's        *)
(* destination and compares it with what lies behind the last pointer of   *)
(* the vector.  That is undefined: it may happen to be des.                *)
AssertionFails ==
    /\ Checking /\ edge <= Len(problem.edges) /\ Edge[3]
    /\ TT' = AfterNodeLookup(TT, TimeOf(Des))
    /\ pc' = "aborted"
    /\ UNCHANGED <<input, expired, places, counter, mapping, edge>>

Legal ==
    /\ Checking /\ edge > Len(problem.edges)
    /\ pc' = "found"
    /\ UNCHANGED <<input, expired, TT, places, counter, mapping, edge>>
-----------------------------------------------------------------------------
(* counter[i] goes down: the last digit that is not 0, or else the first. *)
Falls(i, c) == /\ i = 1 \/ c[i] # 0
               /\ \A j \in i + 1 .. problem.n : c[j] = 0

(* Mutant: the digits behind the one that goes down stay at zero. *)
DecrementOnly(c, i) == [c EXCEPT ![i] = @ - 1]

(* Mutant: the first digit starts over like the others. *)
DecrementAround(c, i) ==
    [j \in Ops |-> CASE j < i -> c[j]
                     [] j = i /\ c[j] > 0 -> c[j] - 1
                     [] OTHER -> Len(places[j]) - 1]

(* The digits behind it start over. *)
Decrement(c, i) ==
    [j \in Ops |-> CASE j < i -> c[j]
                     [] j = i -> c[j] - 1
                     [] j > i -> Len(places[j]) - 1]

UpdateCounter ==
    /\ pc = "next"
    /\ \E i \in Ops : Falls(i, counter) /\ counter' = Decrement(counter, i)
    /\ pc' = "turn"
    /\ UNCHANGED <<input, expired, TT, places, mapping, edge>>

Step == \/ \E o \in Ops : LookUp(o)
        \/ StartLoop \/ Exhausted \/ TimeOver \/ OutOfRange \/ TakePlacement
        \/ Shuffle \/ Reject \/ CheckEdge \/ AssertionFails \/ Legal \/ UpdateCounter

Next == Expire \/ Step

Spec == Init /\ [][Next]_vars
(* The thread runs on; for the random mapper, time passes.                 *)
FairSpec == Spec /\ WF_vars(Step) /\ WF_vars(mapper = "random" /\ Expire)
-----------------------------------------------------------------------------
(* Types, and the nodes of places and mapping lie in the graph.            *)
TypeOK ==
    /\ problem \in Problems /\ mapper \in Mappers /\ expired \in BOOLEAN
    /\ pc \in {"places", "turn", "check", "next", "found", "null",
               "hung", "crashed", "aborted"}
    /\ \A o \in DOMAIN places : Range(places[o]) \subseteq FUsBetween(cgra, 0, TT)
    /\ \A o \in DOMAIN counter : counter[o] \in -1 .. Len(places[o]) - 1
    /\ \A o \in DOMAIN mapping : mapping[o] \in FUsBetween(cgra, 0, TT)

(* The search ExhaustiveMapper and RandomMapper promise.  The placements   *)
(* not tried are those the counter still has below it; the placements of   *)
(* the random mapper are never used up.                                    *)
Combinations ==
    LET digits == [o \in Ops |-> Len(MappablePlaces(o))]
        any == UNION {0 .. digits[o] - 1 : o \in Ops}
    IN  {c \in [Ops -> any] : \A o \in Ops : c[o] < digits[o]}
Below(c, d) == \E i \in Ops : c[i] < d[i] /\ \A j \in 1 .. i - 1 : c[j] = d[j]

Untried ==
    CASE mapper = "random" -> {"any"}
      [] mapper # "random" /\ pc = "places" -> Combinations
      [] mapper # "random" /\ pc \in {"check", "next", "found", "hung", "aborted"} ->
           {c \in Combinations : Below(c, counter)}
      [] OTHER -> {c \in Combinations : c = counter \/ Below(c, counter)}
Answer == CASE pc = "found" -> "found" [] pc = "null" -> "null" [] OTHER -> "none"

Search == INSTANCE PlacementSearch WITH untried <- Untried, answer <- Answer

(* The counter goes through every combination of mappable places once and  *)
(* ends with the last; mapII returns without mapping only then or when the *)
(* time is over, the random mapper only when the time is over.             *)
ImplementsSearch == Search!Spec

(* A placement is called legal only if every edge ends within the interval:*)
(* behind its end the search for a path does not return, and the           *)
(* destination of an anti edge always lies there.  So these mappers never  *)
(* map a loop with a recurrence, and isLegal returns where none is.        *)
Inside(e) == ~e[3] /\ TimeOf(mapping[e[1]]) < TimeOf(mapping[e[2]])
                  /\ TimeOf(mapping[e[2]]) < II
LegalInsideInterval ==
    /\ pc = "found" => \A k \in DOMAIN problem.edges : Inside(problem.edges[k])
    /\ pc = "hung" => \E k \in DOMAIN problem.edges : ~Inside(problem.edges[k])

(* Two operations of a legal placement never need a unit in the same cycle *)
(* of the interval.  The comparison modulo II would not see it of nodes an *)
(* II apart, whose IDs differ; of operations with an edge they both lie    *)
(* within the interval, so that the units and cycles themselves do.        *)
Connected == {problem.edges[k][1] : k \in DOMAIN problem.edges} \cup
             {problem.edges[k][2] : k \in DOMAIN problem.edges}
UnitsUsedOnce ==
    pc = "found" => \A o, q \in Connected : o # q =>
        <<PEOf(mapping[o]), TimeOf(mapping[o]) % II>> #
            <<PEOf(mapping[q]), TimeOf(mapping[q]) % II>>

(* mapII stops the program only on what it cannot map: by an index out of  *)
(* range, the exhaustive mapper on an operation without places, and not if *)
(* it is the first, whose empty list ends the loop; by an assertion, the   *)
(* random mapper below ResMII (shuffle), and both on a loop with a         *)
(* recurrence (isLegal), which LegalInsideInterval says is never mapped.   *)
StopsOnlyIfUnmappable ==
    /\ pc = "crashed" => places[1] # <<>> /\ \E o \in Ops : places[o] = <<>>
    /\ pc = "aborted" => \/ mapper = "random" /\ NumPEs * II < problem.n
                        \/ \E k \in DOMAIN problem.edges : problem.edges[k][3]

(* mapII returns, by its counter without looking at the clock, the random  *)
(* mapper by the clock; unless a search of isLegal is endless.             *)
SearchReturns == <>(pc \in {"found", "null", "crashed", "aborted", "hung"})
=============================================================================
