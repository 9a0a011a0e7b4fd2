------------------------------ MODULE IISearch ------------------------------
(***************************************************************************)
(* The search for an initiation interval: ILPMapper::map, RandomMapper::map*)
(* and ExhaustiveMapper::map, with the loops of RandomMapper::mapII and    *)
(* ExhaustiveMapper::mapII (src/src/mapper).  ILPMapper::mapII is one call *)
(* here; module ILPMapper models it.                                       *)
(*                                                                         *)
(* A call is [mapper, MII, limit, limitII, places, legal, hangs]: limitII  *)
(* is the limit of one mapII, places the number of placements an           *)
(* exhaustive mapII goes through, legal the IIs at which there is a legal  *)
(* mapping to find, hangs those at which mapII does not return (the loops  *)
(* of ILPMapper) or a placement may not be decided (the search of          *)
(* findPath).                                                              *)
(*                                                                         *)
(* Of the clock the code sees only whether now - start is past a limit.    *)
(* The two differences are kept, and stand still once past it.             *)
(***************************************************************************)
EXTENDS Integers

CONSTANTS Calls,
          MAXT       \* the largest time an MRRG supports

ASSUME CallsAssumption ==
    Calls \subseteq [mapper : {"ilp", "random", "exhaustive"}, MII : Int,
                     limit : Nat, limitII : Nat, places : Nat,
                     legal : SUBSET Int, hangs : SUBSET Int]
ASSUME BoundsAssumption == MAXT \in Nat

VARIABLES
    call,
    pc,
    elapsed, elapsedII,  \* time(NULL) - start, of map and of mapII
    ii,
    left,             \* placements an exhaustive mapII has not tried
    mapping,          \* [ii, routed], ii = 0 for Mapping()
    found, failed,    \* history: IIs whose mapII found something, or nothing
    overrun           \* history: IIs whose mapII returned past the limit

vars == <<call, pc, elapsed, elapsedII, ii, left, mapping, found, failed, overrun>>
clock == <<elapsed, elapsedII>>
history == <<found, failed, overrun>>

Null == [ii |-> 0, routed |-> FALSE]
isNull(m) == ~m.routed        \* route_map.empty()

Init ==
    /\ call \in Calls
    /\ pc = "map"
    /\ elapsed = 0 /\ elapsedII = 0
    /\ ii = call.MII /\ left = 0
    /\ mapping = Null
    /\ found = {} /\ failed = {} /\ overrun = {}

Later(e, limit) == IF e > limit THEN e ELSE e + 1
Over(e, limit) == e > limit

(* Time passes at any point. *)
Tick ==
    /\ ~Over(elapsed, call.limit) \/ ~Over(elapsedII, call.limitII)
    /\ elapsed' = Later(elapsed, call.limit)
    /\ elapsedII' = Later(elapsedII, call.limitII)
    /\ UNCHANGED <<call, pc, ii, left, mapping, history>>
-----------------------------------------------------------------------------
(* for (ii = II; mapping.isNull(); ii++) *)
Looping == pc = "map" /\ isNull(mapping)

Return ==
    /\ pc = "map" /\ ~isNull(mapping)
    /\ pc' = "done"
    /\ UNCHANGED <<call, clock, ii, left, mapping, history>>

(* ILPMapper breaks and returns the null mapping it has, the others return *)
(* Mapping().                                                              *)
LimitReached ==
    /\ Looping /\ Over(elapsed, call.limit)
    /\ pc' = "done"
    /\ mapping' = IF call.mapper = "ilp" THEN mapping ELSE Null
    /\ UNCHANGED <<call, clock, ii, left, history>>

(* Mutant: the limit is not looked at between two calls. *)
CallMapIIUnchecked ==
    /\ Looping
    /\ pc' = "begin"
    /\ UNCHANGED <<call, clock, ii, left, mapping, history>>

(* The clock is read once; it goes on while mapII gets under way. *)
CallMapII ==
    /\ Looping /\ ~Over(elapsed, call.limit)
    /\ pc' = "begin"
    /\ UNCHANGED <<call, clock, ii, left, mapping, history>>
-----------------------------------------------------------------------------
(* mapII first makes MRRG(cgra, II), which stops the program above MAXT,   *)
(* and has no node to close the interval with when the II is not positive. *)
GraphFails ==
    /\ pc = "begin" /\ ii \notin 1 .. MAXT
    /\ pc' = IF ii > MAXT THEN "exited" ELSE "crashed"
    /\ UNCHANGED <<call, clock, ii, left, mapping, history>>

(* It reads its own start then. *)
GraphMade ==
    /\ pc = "begin" /\ ii \in 1 .. MAXT
    /\ pc' = "mapII"
    /\ elapsedII' = 0
    /\ left' = call.places
    /\ UNCHANGED <<call, elapsed, ii, mapping, history>>

(* Mutant: the interval grows by two. *)
EndsTwo(m) ==
    /\ mapping' = m
    /\ found' = IF m.ii # 0 THEN found \cup {m.ii} ELSE found
    /\ failed' = IF m.ii = 0 THEN failed \cup {ii} ELSE failed
    /\ overrun' = IF Over(elapsed, call.limit) THEN overrun \cup {ii} ELSE overrun
    /\ ii' = ii + 2
    /\ pc' = "map"

(* mapII returns m to map, which goes on with the next II. *)
Ends(m) ==
    /\ mapping' = m
    /\ found' = IF m.ii # 0 THEN found \cup {m.ii} ELSE found
    /\ failed' = IF m.ii = 0 THEN failed \cup {ii} ELSE failed
    /\ overrun' = IF Over(elapsed, call.limit) THEN overrun \cup {ii} ELSE overrun
    /\ ii' = ii + 1
    /\ pc' = "map"

(* The routes the ILP mapper stores; isLegal has the line that would store *)
(* one commented out.                                                      *)
Found == [ii |-> ii, routed |-> call.mapper = "ilp"]

Hang ==
    /\ pc = (IF call.mapper = "ilp" THEN "mapII" ELSE "place") /\ ii \in call.hangs
    /\ pc' = "hung"
    /\ UNCHANGED <<call, clock, ii, left, mapping, history>>

Solving == pc = "mapII" /\ call.mapper = "ilp" /\ ii \notin call.hangs

(* Mutant: the result of the solver is dropped. *)
SolvedDropped ==
    /\ Solving /\ ii \in call.legal
    /\ mapping' = Null /\ found' = found \cup {ii} /\ ii' = ii + 1 /\ pc' = "map"
    /\ UNCHANGED <<call, clock, left, failed, overrun>>

Solved ==
    /\ Solving /\ ii \in call.legal
    /\ Ends(Found)
    /\ UNCHANGED <<call, clock, left>>

NotSolved ==
    /\ Solving
    /\ Ends(Null)
    /\ UNCHANGED <<call, clock, left>>

(* The turns of the other two: the clock, then a placement. *)
Searching == pc = "mapII" /\ call.mapper # "ilp"
Exhausted == call.mapper = "exhaustive" /\ left = 0

(* Mutant: only the exhaustive mapper has an end. *)
GiveUpExhausted ==
    /\ Searching /\ Exhausted
    /\ Ends(Null)
    /\ UNCHANGED <<call, clock, left>>

GiveUp ==
    /\ Searching /\ (Over(elapsedII, call.limitII) \/ Exhausted)
    /\ Ends(Null)
    /\ UNCHANGED <<call, clock, left>>

TakePlacement ==
    /\ Searching /\ ~Over(elapsedII, call.limitII) /\ ~Exhausted
    /\ pc' = "place"
    /\ UNCHANGED <<call, clock, ii, left, mapping, history>>

(* isLegal says yes or no, however long it takes. *)
LegalPlacement ==
    /\ pc = "place" /\ ii \in call.legal
    /\ Ends(Found)
    /\ UNCHANGED <<call, clock, left>>

IllegalPlacement ==
    /\ pc = "place"
    /\ pc' = "mapII"
    /\ left' = IF call.mapper = "exhaustive" THEN left - 1 ELSE left
    /\ UNCHANGED <<call, clock, ii, mapping, history>>

Step == \/ Return \/ LimitReached \/ CallMapII \/ GraphFails \/ GraphMade \/ Hang
        \/ Solved \/ NotSolved
        \/ GiveUp \/ TakePlacement \/ LegalPlacement \/ IllegalPlacement

Next == Tick \/ Step

Spec == Init /\ [][Next]_vars
(* The thread runs and time passes.                                        *)
FairSpec == Spec /\ WF_vars(Tick) /\ WF_vars(Step)
-----------------------------------------------------------------------------
TypeOK ==
    /\ call \in Calls
    /\ pc \in {"map", "begin", "mapII", "place", "done", "exited", "crashed", "hung"}
    /\ elapsed \in 0 .. call.limit + 1 /\ elapsedII \in 0 .. call.limitII + 1
    /\ ii \in Int /\ call.MII <= ii /\ (ii # call.MII => ii <= MAXT + 1)
    /\ left \in 0 .. call.places
    /\ mapping.ii \in 0 .. MAXT /\ mapping.routed \in BOOLEAN
    /\ found \cup failed \cup overrun \subseteq 1 .. MAXT

(* No interval is skipped: the mapping map returns is for the first        *)
(* interval, from the minimum on, whose mapII did not come back empty.     *)
FirstFound ==
    pc = "done" /\ ~isNull(mapping) =>
        /\ call.MII .. mapping.ii - 1 \subseteq failed
        /\ mapping.ii \in found \ failed

(* The ILP mapper does not lose what the solver found, even when the limit *)
(* passed while it was at work.                                            *)
SolutionKept ==
    pc = "done" /\ call.mapper = "ilp" => (found # {} <=> ~isNull(mapping))

(* One mapII at most overruns the limit of map, whether the limit passed   *)
(* while it ran or after map had read the clock and before it began.  It   *)
(* is the last: no other is begun, whatever it gave.                       *)
OneOverrun == overrun # {} => overrun = {ii - 1} /\ pc \in {"map", "done"}

(* The search ends, with or without a mapping, unless a mapII hangs: the   *)
(* limit, the inner limit or the largest supported II stops it.            *)
SearchEnds == <>(pc \in {"done", "exited", "crashed", "hung"})

(* "will increase II until exceeding time limit or finding a legal mapping"*)
(* (Mapper.hpp:40-41): a legal mapping found in time ends the search, so   *)
(* it never goes on to a larger interval.                                  *)
StopsWhenFound == found # {} => ii = 1 + CHOOSE k \in found : \A j \in found : k <= j
=============================================================================
