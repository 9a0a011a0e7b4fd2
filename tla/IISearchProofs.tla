--------------------------- MODULE IISearchProofs ---------------------------
(***************************************************************************)
(* What the search for an initiation interval promises, whatever the       *)
(* limits, the intervals at which there is a mapping and those at which    *)
(* mapII hangs.                                                            *)
(***************************************************************************)
EXTENDS IISearch, TLAPS

(* Fields of the call, so that the provers meet it as a record once. *)
CallInv == /\ call \in Calls
           /\ call.mapper \in {"ilp", "random", "exhaustive"}
           /\ call.MII \in Int /\ call.places \in Nat
           /\ call.limit \in Nat /\ call.limitII \in Nat

ProgressInv ==
    /\ pc \in {"map", "begin", "mapII", "place", "done", "exited", "crashed", "hung"}
    /\ ii \in Int /\ call.MII <= ii
    /\ pc = "begin" => isNull(mapping)
    /\ pc \in {"mapII", "place"} => ii \in 1 .. MAXT /\ isNull(mapping)
    /\ pc = "place" => ~Exhausted
    /\ found \subseteq Int /\ failed \subseteq Int
    /\ \A k \in found \cup failed : k < ii

(* mapping.routed, not isNull, is what the provers see. *)
MappingInv ==
    /\ mapping \in [ii : Int, routed : BOOLEAN]
    /\ mapping.routed => /\ pc \in {"map", "done"}
                         /\ mapping.ii = ii - 1
                         /\ mapping.ii \in found \ failed
                         /\ call.MII .. mapping.ii - 1 \subseteq failed
    /\ ~mapping.routed /\ call.mapper = "ilp" =>
          /\ found = {}
          /\ call.MII .. ii - 1 \subseteq failed
    /\ call.mapper # "ilp" => ~mapping.routed

(* While a mapII is under way none has overrun the limit. *)
OverrunInv ==
    /\ elapsed \in 0 .. call.limit + 1
    /\ overrun # {} => /\ overrun = {ii - 1}
                       /\ pc \in {"map", "done"}
                       /\ elapsed > call.limit

IInv == CallInv /\ ProgressInv /\ MappingInv /\ OverrunInv

-----------------------------------------------------------------------------
LEMMA InitIInv == Init => IInv
<1>. SUFFICES ASSUME Init PROVE IInv
    OBVIOUS
<1>1. CallInv
    BY CallsAssumption DEF Init, CallInv
<1>2. ProgressInv
    BY <1>1 DEF Init, ProgressInv, CallInv, isNull, Null
<1>3. MappingInv
    BY <1>1 DEF Init, MappingInv, CallInv, Null
<1>4. OverrunInv
    BY <1>1 DEF Init, OverrunInv, CallInv
<1>. QED
    BY <1>1, <1>2, <1>3, <1>4 DEF IInv

(* The interval that just returned is the only one that may be too late.   *)
LEMMA EndsInTime ==
    ASSUME IInv, pc \in {"mapII", "place"}, NEW m, Ends(m), UNCHANGED <<call, elapsed>>
    PROVE  OverrunInv'
<1>1. ii \in Int /\ overrun = {} /\ elapsed \in 0 .. call.limit + 1 /\ call.limit \in Nat
    BY DEF IInv, CallInv, ProgressInv, OverrunInv
<1>2. ii' = ii + 1 /\ pc' = "map" /\ ii' - 1 = ii
    BY <1>1 DEF Ends
<1>3. overrun' = IF elapsed > call.limit THEN {ii} ELSE {}
    BY <1>1 DEF Ends, Over
<1>. QED
    BY <1>1, <1>2, <1>3 DEF OverrunInv

(* What a returning mapII hands over keeps the invariant. *)
LEMMA EndsFound ==
    ASSUME IInv, pc \in {"mapII", "place"}, Ends(Found), UNCHANGED <<call, elapsed>>
    PROVE  IInv'
<1>1. ii \in Int /\ ii # 0 /\ ~mapping.routed
    BY BoundsAssumption DEF IInv, ProgressInv, isNull
<1>2. Found.ii = ii /\ Found.routed = (call.mapper = "ilp")
    BY DEF Found
<1>3. /\ mapping' = Found /\ found' = found \cup {ii} /\ failed' = failed
      /\ ii' = ii + 1 /\ pc' = "map"
    BY <1>1, <1>2 DEF Ends
<1>4. CallInv'
    BY DEF IInv, CallInv
<1>5. ProgressInv'
    <2>1. ii' \in Int /\ call'.MII <= ii' /\ found' \subseteq Int /\ failed' \subseteq Int
        BY <1>1, <1>3 DEF IInv, CallInv, ProgressInv
    <2>2. \A k \in found' \cup failed' : k < ii'
        BY <1>1, <1>3 DEF IInv, ProgressInv
    <2>. QED
        BY <1>3, <2>1, <2>2 DEF ProgressInv
<1>8. OverrunInv'
    BY EndsInTime
<1>6. CASE call.mapper = "ilp"
    <2>1. Found = [ii |-> ii, routed |-> TRUE]
        BY <1>6 DEF Found
    <2>2. ii \notin failed /\ call.MII .. ii - 1 \subseteq failed
        BY <1>1, <1>6 DEF IInv, ProgressInv, MappingInv
    <2>3. mapping'.ii = ii /\ mapping'.routed = TRUE /\ mapping' \in [ii : Int, routed : BOOLEAN]
        BY <1>1, <1>3, <2>1
    <2>4. MappingInv'
        BY <1>1, <1>3, <1>6, <2>2, <2>3 DEF MappingInv
    <2>. QED
        BY <1>4, <1>5, <1>8, <2>4 DEF IInv
<1>7. CASE call.mapper # "ilp"
    <2>1. Found = [ii |-> ii, routed |-> FALSE]
        BY <1>7 DEF Found
    <2>2. mapping'.routed = FALSE /\ mapping' \in [ii : Int, routed : BOOLEAN]
        BY <1>1, <1>3, <2>1
    <2>3. MappingInv'
        BY <1>7, <2>2 DEF MappingInv
    <2>. QED
        BY <1>4, <1>5, <1>8, <2>3 DEF IInv
<1>. QED
    BY <1>6, <1>7

LEMMA EndsNull ==
    ASSUME IInv, pc \in {"mapII", "place"}, Ends(Null), UNCHANGED <<call, elapsed>>
    PROVE  IInv'
<1>1. ii \in Int /\ call.MII \in Int /\ ~mapping.routed
    BY DEF IInv, CallInv, ProgressInv, isNull
<1>2. Null.ii = 0 /\ Null.routed = FALSE /\ Null \in [ii : Int, routed : BOOLEAN]
    BY DEF Null
<1>3. /\ mapping' = Null /\ found' = found /\ failed' = failed \cup {ii}
      /\ ii' = ii + 1 /\ pc' = "map"
    BY <1>2 DEF Ends
<1>4. CallInv'
    BY DEF IInv, CallInv
<1>5. ProgressInv'
    BY <1>1, <1>3 DEF IInv, ProgressInv
<1>6. call.mapper = "ilp" => call.MII .. ii' - 1 \subseteq failed'
    BY <1>1, <1>3 DEF IInv, MappingInv
<1>7. MappingInv'
    BY <1>1, <1>2, <1>3, <1>6 DEF IInv, MappingInv
<1>8. OverrunInv'
    BY EndsInTime
<1>. QED
    BY <1>4, <1>5, <1>7, <1>8 DEF IInv

LEMMA NextIInv == IInv /\ [Next]_vars => IInv'
<1>. SUFFICES ASSUME IInv, [Next]_vars PROVE IInv'
    OBVIOUS
<1>. USE DEF history, clock
<1>1. CASE Tick
    <2>1. elapsed' \in 0 .. call.limit + 1 /\ elapsed <= elapsed'
        BY <1>1 DEF Tick, Later, IInv, CallInv, OverrunInv
    <2>2. OverrunInv'
        BY <1>1, <2>1 DEF Tick, IInv, CallInv, OverrunInv
    <2>. QED
        BY <1>1, <2>2 DEF Tick, IInv, CallInv, ProgressInv, MappingInv, isNull, Exhausted
<1>2. CASE Return
    BY <1>2 DEF Return, IInv, CallInv, ProgressInv, MappingInv, OverrunInv, isNull
<1>3. CASE LimitReached
    <2>1. ~mapping.routed /\ ~mapping'.routed /\ mapping' \in [ii : Int, routed : BOOLEAN]
        BY <1>3 DEF LimitReached, Looping, isNull, Null, IInv, MappingInv
    <2>2. CallInv'
        BY <1>3 DEF LimitReached, IInv, CallInv
    <2>3. ProgressInv'
        BY <1>3 DEF LimitReached, IInv, ProgressInv
    <2>4. MappingInv'
        BY <1>3, <2>1 DEF LimitReached, IInv, MappingInv
    <2>5. OverrunInv'
        BY <1>3 DEF LimitReached, IInv, OverrunInv
    <2>. QED
        BY <2>2, <2>3, <2>4, <2>5 DEF IInv
<1>4. CASE CallMapII
    <2>1. OverrunInv'
        BY <1>4 DEF CallMapII, Over, IInv, OverrunInv
    <2>. QED
        BY <1>4, <2>1 DEF CallMapII, Looping, IInv, CallInv, ProgressInv, MappingInv, isNull
<1>5. CASE GraphFails
    BY <1>5 DEF GraphFails, IInv, CallInv, ProgressInv, MappingInv, OverrunInv, isNull
<1>6. CASE GraphMade
    BY <1>6 DEF GraphMade, IInv, CallInv, ProgressInv, MappingInv, OverrunInv, isNull
<1>7. CASE Hang
    <2>1. pc \in {"mapII", "place"} /\ pc' = "hung"
        BY <1>7 DEF Hang
    <2>. QED
        BY <1>7, <2>1 DEF Hang, IInv, CallInv, ProgressInv, MappingInv, OverrunInv, isNull
<1>8. CASE Solved
    BY <1>8, EndsFound DEF Solved, Solving
<1>9. CASE NotSolved
    BY <1>9, EndsNull DEF NotSolved, Solving
<1>10. CASE GiveUp
    BY <1>10, EndsNull DEF GiveUp, Searching
<1>11. CASE TakePlacement
    BY <1>11 DEF TakePlacement, Searching, IInv, CallInv, ProgressInv, MappingInv, OverrunInv, isNull, Exhausted
<1>12. CASE LegalPlacement
    BY <1>12, EndsFound DEF LegalPlacement
<1>13. CASE IllegalPlacement
    BY <1>13 DEF IllegalPlacement, IInv, CallInv, ProgressInv, MappingInv, OverrunInv, isNull
<1>14. CASE UNCHANGED vars
    BY <1>14 DEF vars, IInv, CallInv, ProgressInv, MappingInv, OverrunInv, isNull, Exhausted
<1>. QED
    BY <1>1, <1>2, <1>3, <1>4, <1>5, <1>6, <1>7, <1>8, <1>9, <1>10, <1>11, <1>12, <1>13, <1>14
       DEF Next, Step

(* The strengthening: up to now every interval from the minimum on has     *)
(* failed, or the last one gave the mapping.                               *)
THEOREM SearchInvariant == Spec => []IInv
<1>. QED
    BY InitIInv, NextIInv, PTL DEF Spec

(* A returned mapping is for the first interval, from the minimum on, that *)
(* mapII did not come back empty from.                                     *)
THEOREM FirstFoundHolds == Spec => []FirstFound
<1>1. IInv => FirstFound
    BY DEF IInv, MappingInv, FirstFound, isNull
<1>. QED
    BY <1>1, SearchInvariant, PTL

(* The ILP mapper returns a mapping exactly when a solve gave one.         *)
THEOREM SolutionKeptHolds == Spec => []SolutionKept
<1>1. IInv => SolutionKept
    BY DEF IInv, MappingInv, SolutionKept, isNull
<1>. QED
    BY <1>1, SearchInvariant, PTL

(* At most one mapII returns after the limit of map, and it is the last.   *)
THEOREM OneOverrunHolds == Spec => []OneOverrun
<1>1. IInv => OneOverrun
    BY DEF IInv, OverrunInv, OneOverrun
<1>. QED
    BY <1>1, SearchInvariant, PTL

LEMMA InitTypeOK == Init => TypeOK
<1>. SUFFICES ASSUME Init PROVE TypeOK
    OBVIOUS
<1>1. /\ call \in Calls /\ call.MII \in Int /\ call.places \in Nat
      /\ call.limit \in Nat /\ call.limitII \in Nat
    BY CallsAssumption DEF Init
<1>2. mapping.ii = 0 /\ mapping.routed = FALSE
    BY DEF Init, Null
<1>3. mapping.ii \in 0 .. MAXT /\ mapping.routed \in BOOLEAN
    <2>1. mapping.ii \in 0 .. MAXT
        BY <1>2, BoundsAssumption
    <2>2. mapping.routed \in BOOLEAN
        BY <1>2, Zenon
    <2>. QED
        BY <2>1, <2>2, Zenon
<1>4. /\ elapsed \in 0 .. call.limit + 1 /\ elapsedII \in 0 .. call.limitII + 1
      /\ ii \in Int /\ call.MII <= ii /\ (ii # call.MII => ii <= MAXT + 1)
      /\ left \in 0 .. call.places
    BY <1>1, BoundsAssumption DEF Init
<1>5. /\ pc \in {"map", "begin", "mapII", "place", "done", "exited", "crashed", "hung"}
      /\ found \cup failed \cup overrun \subseteq 1 .. MAXT
    BY DEF Init
<1>. QED
    BY <1>1, <1>3, <1>4, <1>5, Zenon DEF TypeOK

(* mapII is entered with an interval the MRRG supports, so that what it    *)
(* leaves behind is one too.                                               *)
LEMMA NextTypeOK == IInv /\ TypeOK /\ [Next]_vars => TypeOK'
<1>. SUFFICES ASSUME IInv, TypeOK, [Next]_vars PROVE TypeOK'
    OBVIOUS
<1>1. /\ call \in Calls /\ call.MII \in Int /\ call.places \in Nat
      /\ call.limit \in Nat /\ call.limitII \in Nat /\ MAXT \in Nat
    BY BoundsAssumption DEF IInv, CallInv
<1>2. ASSUME NEW m, Ends(m), pc \in {"mapII", "place"}, m.ii \in {0, ii},
             m.routed \in BOOLEAN, UNCHANGED <<call, clock, left>>
      PROVE  TypeOK'
    <2>1. ii \in 1 .. MAXT /\ call.MII <= ii
        BY <1>2 DEF IInv, ProgressInv
    <2>2. found' \cup failed' \cup overrun' \subseteq 1 .. MAXT
        BY <1>2, <2>1 DEF Ends, TypeOK
    <2>3. mapping'.ii \in 0 .. MAXT /\ mapping'.routed \in BOOLEAN
        BY <1>1, <1>2, <2>1 DEF Ends
    <2>. QED
        BY <1>1, <1>2, <2>1, <2>2, <2>3 DEF Ends, TypeOK, clock
<1>3. Found.ii \in {0, ii} /\ Found.routed \in BOOLEAN
    BY DEF Found
<1>4. Null.ii \in {0, ii} /\ Null.routed \in BOOLEAN
    BY DEF Null
<1>. USE DEF history, clock
<1>5. CASE Tick
    <2>1. elapsed' \in 0 .. call.limit + 1 /\ elapsedII' \in 0 .. call.limitII + 1
        BY <1>1, <1>5 DEF Tick, Later, TypeOK
    <2>. QED
        BY <1>5, <2>1 DEF Tick, TypeOK
<1>6. CASE Return \/ CallMapII \/ GraphFails \/ Hang \/ TakePlacement
    BY <1>6 DEF Return, CallMapII, GraphFails, Hang, TakePlacement, TypeOK
<1>7. CASE LimitReached
    <2>1. mapping' = mapping \/ mapping' = Null
        BY <1>7 DEF LimitReached
    <2>2. ASSUME mapping' = mapping
          PROVE  mapping'.ii \in 0 .. MAXT /\ mapping'.routed \in BOOLEAN
        BY <2>2, Zenon DEF TypeOK
    <2>3. ASSUME mapping' = Null
          PROVE  mapping'.ii \in 0 .. MAXT /\ mapping'.routed \in BOOLEAN
        <3>1. Null.ii \in 0 .. MAXT
            BY <1>1 DEF Null
        <3>. QED
            BY <1>4, <2>3, <3>1, Zenon
    <2>4. mapping'.ii \in 0 .. MAXT /\ mapping'.routed \in BOOLEAN
        BY <2>1, <2>2, <2>3, Zenon
    <2>. QED
        BY <1>7, <2>4 DEF LimitReached, TypeOK
<1>8. CASE GraphMade
    BY <1>1, <1>8 DEF GraphMade, TypeOK
<1>9. CASE Solved \/ LegalPlacement
    BY <1>2, <1>3, <1>9 DEF Solved, Solving, LegalPlacement
<1>10. CASE NotSolved \/ GiveUp
    BY <1>2, <1>4, <1>10 DEF NotSolved, Solving, GiveUp, Searching
<1>11. CASE IllegalPlacement
    <2>1. left' \in 0 .. call.places
        BY <1>1, <1>11 DEF IllegalPlacement, Exhausted, IInv, ProgressInv, TypeOK
    <2>. QED
        BY <1>11, <2>1 DEF IllegalPlacement, TypeOK
<1>12. CASE UNCHANGED vars
    BY <1>12 DEF vars, TypeOK
<1>. QED
    BY <1>5, <1>6, <1>7, <1>8, <1>9, <1>10, <1>11, <1>12 DEF Next, Step

(* No interval beyond what an MRRG supports is ever handed to mapII, and   *)
(* the counter of placements does not run below zero.                      *)
THEOREM TypeCorrect == Spec => []TypeOK
<1>. QED
    BY InitIInv, NextIInv, InitTypeOK, NextTypeOK, PTL DEF Spec
=============================================================================
