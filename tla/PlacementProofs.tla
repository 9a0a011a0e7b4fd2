-------------------------- MODULE PlacementProofs --------------------------
(***************************************************************************)
(* What the exhaustive and the random mapper promise for one interval, for *)
(* every set of problems: any number of operations, windows, units, edges  *)
(* and any array.                                                          *)
(***************************************************************************)
EXTENDS Placement, SequenceTheorems, FiniteSetTheorems, WellFoundedInduction, TLAPS

Placed == pc \in {"check", "found", "hung"}

ControlInv ==
    /\ problem \in Problems /\ mapper \in Mappers /\ expired \in BOOLEAN
    /\ pc \in {"places", "turn", "check", "next", "found", "null",
               "hung", "crashed", "aborted"}
    /\ mapper = "random" => pc \notin {"places", "next", "crashed"}

GraphInv == TT \in Nat /\ II <= TT

(* What is looked up does not depend on the order of the lookups, and the  *)
(* graph has been extended far enough for it.                              *)
PlacesInv ==
    /\ DOMAIN places \subseteq Ops
    /\ \A o \in DOMAIN places : places[o] = MappablePlaces(o) /\ problem.hi[o] <= TT
    /\ mapper = "exhaustive" /\ pc # "places" => DOMAIN places = Ops

(* Only an operation without places, or the first one, is ever at -1, and  *)
(* none is while a placement is looked at.                                 *)
CounterInv ==
    /\ mapper = "random" \/ pc = "places" => counter = <<>>
    /\ mapper = "exhaustive" /\ pc # "places" =>
          /\ counter \in [Ops -> Int]
          /\ \A o \in Ops : -1 <= counter[o] /\ counter[o] <= Len(MappablePlaces(o)) - 1
          /\ \A o \in Ops \ {1} : counter[o] = -1 => Len(MappablePlaces(o)) = 0
          /\ Placed \/ pc = "next" => \A o \in Ops : 0 <= counter[o]

MappingInv ==
    /\ Placed => mapping \in [Ops -> FUsBetween(cgra, 0, TT)]
    /\ ~Placed => \/ mapping = <<>>
                  \/ pc = "aborted" /\ mapping \in [Ops -> FUsBetween(cgra, 0, TT)]

(* Every edge behind which isLegal has come lies inside the interval.      *)
EdgeInv ==
    /\ Placed => /\ edge \in 1 .. Len(problem.edges) + 1
                 /\ \A k \in 1 .. edge - 1 : Inside(problem.edges[k])
    /\ pc = "found" => edge = Len(problem.edges) + 1 /\ ~Conflict
    /\ pc = "hung" => edge <= Len(problem.edges) /\ ~Inside(problem.edges[edge])

IInv == /\ ControlInv /\ GraphInv /\ PlacesInv /\ CounterInv
        /\ MappingInv /\ EdgeInv /\ StopsOnlyIfUnmappable
-----------------------------------------------------------------------------
(* The fields of a problem have the types of the assumption. *)
LEMMA Fields ==
    ASSUME problem \in Problems
    PROVE  /\ problem.n \in Nat \ {0} /\ II \in Nat \ {0} /\ NumPEs \in Nat
           /\ problem.lo \in [Ops -> Nat] /\ problem.hi \in [Ops -> Nat]
           /\ \A o \in Ops : problem.lo[o] <= problem.hi[o]
           /\ problem.units \in [Ops -> Seq(cgra.PEs)]
           /\ problem.edges \in Seq(Ops \X Ops \X BOOLEAN)
           /\ 1 \in Ops
BY ProblemsAssumption DEF Ops, II, NumPEs, cgra

(* The k-th of a * b things in rows of a lies in one of b rows. *)
LEMMA Rows ==
    ASSUME NEW a \in Nat \ {0}, NEW b \in Nat, NEW k \in 0 .. a * b - 1
    PROVE  k % a \in 0 .. a - 1 /\ k \div a \in 0 .. b - 1
<1>. DEFINE q == k \div a
            r == k % a
<1>1. k \in Nat /\ q \in Int /\ r \in 0 .. a - 1 /\ k = a * q + r
  OBVIOUS
<1>2. q >= 0
  BY <1>1
<1>3. ASSUME q >= b PROVE FALSE
  <2>1. a * q >= a * b
    BY <1>1, <1>3
  <2>. QED
    BY <2>1, <1>1
<1>. QED
  BY <1>1, <1>2, <1>3

(* The places of an operation are nodes of its window, one row of units a  *)
(* cycle.                                                                  *)
LEMMA PlacesType ==
    ASSUME problem \in Problems, NEW o \in Ops
    PROVE  /\ MappablePlaces(o) \in Seq(FUsBetween(cgra, problem.lo[o], problem.hi[o]))
           /\ Len(MappablePlaces(o)) \in Nat
           /\ DOMAIN MappablePlaces(o) = 1 .. Len(MappablePlaces(o))
<1>. DEFINE units == problem.units[o]
            w == problem.hi[o] - problem.lo[o] + 1
            S == FUsBetween(cgra, problem.lo[o], problem.hi[o])
<1>1. /\ units \in Seq(cgra.PEs) /\ Len(units) \in Nat
      /\ w \in Nat /\ problem.lo[o] \in Nat /\ problem.hi[o] \in Nat
  BY Fields
<1>2. Len(units) * w \in Nat
  BY <1>1
<1>3. ASSUME NEW k \in 1 .. Len(units) * w
      PROVE  <<units[1 + ((k - 1) % Len(units))], problem.lo[o] + ((k - 1) \div Len(units))>> \in S
  <2>1. Len(units) # 0
    BY <1>1, <1>2, <1>3
  <2>2. k - 1 \in 0 .. Len(units) * w - 1
    BY <1>2
  <2>3. /\ (k - 1) % Len(units) \in 0 .. Len(units) - 1
        /\ (k - 1) \div Len(units) \in 0 .. w - 1
    BY <2>1, <2>2, <1>1, Rows
  <2>4. \A r \in 0 .. Len(units) - 1 : units[1 + r] \in cgra.PEs
    BY <1>1, ElementOfSeq
  <2>5. \A q \in 0 .. w - 1 : problem.lo[o] + q \in problem.lo[o] .. problem.hi[o]
    BY <1>1
  <2>. HIDE DEF units, w
  <2>. QED
    BY <2>3, <2>4, <2>5 DEF FUsBetween
<1>4. MappablePlaces(o) \in [1 .. Len(units) * w -> S]
  BY <1>3 DEF MappablePlaces
<1>5. MappablePlaces(o) \in Seq(S)
  BY <1>2, <1>4
<1>. QED
  BY <1>5
-----------------------------------------------------------------------------
LEMMA MapperKinds == ASSUME mapper \in Mappers PROVE mapper \in {"exhaustive", "random"}
BY MappersAssumption

(* What a step that keeps the problem keeps. *)
LEMMA SameProblem ==
    ASSUME problem' = problem
    PROVE  /\ Ops' = Ops /\ II' = II /\ cgra' = cgra /\ NumPEs' = NumPEs
           /\ \A o : MappablePlaces(o)' = MappablePlaces(o)
BY DEF Ops, II, cgra, NumPEs, MappablePlaces

LEMMA SameMapping ==
    ASSUME problem' = problem, mapping' = mapping
    PROVE  /\ \A e : Inside(e)' <=> Inside(e)
           /\ Conflict' <=> Conflict
BY DEF Inside, Conflict, Modded, ID, Ops, II, TimeOf, PEOf

LEMMA GraphGrows ==
    ASSUME NEW a \in Nat, NEW b \in Nat, a <= b
    PROVE  FUsBetween(cgra, 0, a) \subseteq FUsBetween(cgra, 0, b)
BY DEF FUsBetween

LEMMA InitIInv == ASSUME Init PROVE IInv
<1>1. problem \in Problems /\ II \in Nat /\ mapper \in {"exhaustive", "random"}
  BY Fields, MapperKinds DEF Init
<1>2. ControlInv
  BY <1>1 DEF Init, ControlInv
<1>5. GraphInv
  BY <1>1 DEF Init, GraphInv, II
<1>3. PlacesInv /\ CounterInv
  BY <1>1 DEF Init, PlacesInv, CounterInv, Placed
<1>4. MappingInv /\ EdgeInv /\ StopsOnlyIfUnmappable
  BY <1>1 DEF Init, MappingInv, EdgeInv, Placed, StopsOnlyIfUnmappable
<1>. QED
  BY <1>2, <1>3, <1>4, <1>5 DEF IInv

LEMMA StutterIInv == ASSUME IInv, UNCHANGED vars PROVE IInv'
<1>1. problem' = problem /\ mapping' = mapping
  BY DEF vars
<1>2. ControlInv' /\ GraphInv' /\ MappingInv' /\ StopsOnlyIfUnmappable'
  BY <1>1, SameProblem DEF IInv, ControlInv, GraphInv, MappingInv, Placed,
                           StopsOnlyIfUnmappable, vars
<1>3. PlacesInv' /\ CounterInv'
  BY <1>1, SameProblem DEF IInv, PlacesInv, CounterInv, Placed, vars
<1>4. EdgeInv'
  BY <1>1, SameProblem, SameMapping DEF IInv, EdgeInv, Placed, vars
<1>. QED
  BY <1>2, <1>3, <1>4 DEF IInv

(* The clock touches none of it. *)
LEMMA ExpireIInv == ASSUME IInv, Expire PROVE IInv'
<1>1. problem' = problem /\ mapping' = mapping
  BY DEF Expire, input
<1>2. ControlInv' /\ GraphInv' /\ MappingInv' /\ StopsOnlyIfUnmappable'
  BY <1>1, SameProblem DEF IInv, ControlInv, GraphInv, MappingInv, Placed,
                           StopsOnlyIfUnmappable, Expire, input
<1>3. PlacesInv' /\ CounterInv'
  BY <1>1, SameProblem DEF IInv, PlacesInv, CounterInv, Placed, Expire, input
<1>4. EdgeInv'
  BY <1>1, SameProblem, SameMapping DEF IInv, EdgeInv, Placed, Expire, input
<1>. QED
  BY <1>2, <1>3, <1>4 DEF IInv

LEMMA LookUpIInv == ASSUME IInv, NEW o \in Ops, LookUp(o) PROVE IInv'
<1>1. /\ problem' = problem /\ mapping' = mapping /\ pc = "places" /\ pc' = "places"
      /\ mapper' = mapper /\ counter' = counter /\ expired' = expired
  BY DEF LookUp, input
<1>2. problem \in Problems /\ problem.hi[o] \in Nat /\ TT \in Nat /\ II \in Nat
  BY Fields DEF IInv, ControlInv, GraphInv
<1>3. TT' \in Nat /\ TT <= TT' /\ problem.hi[o] <= TT'
  BY <1>2 DEF LookUp, AfterRangeLookup
<1>4. ControlInv' /\ CounterInv'
  BY <1>1 DEF IInv, ControlInv, CounterInv, Placed
<1>5. GraphInv'
  BY <1>1, <1>2, <1>3, SameProblem DEF IInv, GraphInv
<1>6. PlacesInv'
  <2>1. DOMAIN places' = DOMAIN places \cup {o}
    BY DEF LookUp
  <2>2. ASSUME NEW q \in DOMAIN places'
        PROVE  places'[q] = MappablePlaces(q) /\ problem.hi[q] <= TT'
    <3>1. CASE q = o
      BY <3>1, <1>3 DEF LookUp
    <3>2. CASE q # o
      <4>1. q \in DOMAIN places /\ q \in Ops
        BY <3>2, <2>1 DEF IInv, PlacesInv
      <4>2. places'[q] = places[q] /\ places[q] = MappablePlaces(q) /\ problem.hi[q] <= TT
        BY <3>2, <4>1 DEF LookUp, IInv, PlacesInv
      <4>3. problem.hi[q] \in Nat
        BY <4>1, <1>2, Fields
      <4>. QED
        BY <4>2, <4>3, <1>2, <1>3
    <3>. QED
      BY <3>1, <3>2
  <2>. QED
    BY <2>1, <2>2, <1>1, SameProblem DEF IInv, PlacesInv
<1>7. MappingInv' /\ EdgeInv' /\ StopsOnlyIfUnmappable'
  BY <1>1 DEF IInv, MappingInv, EdgeInv, Placed, StopsOnlyIfUnmappable
<1>. QED
  BY <1>4, <1>5, <1>6, <1>7 DEF IInv

LEMMA StartLoopIInv == ASSUME IInv, StartLoop PROVE IInv'
<1>1. /\ problem' = problem /\ mapping' = mapping /\ pc = "places" /\ pc' = "turn"
      /\ mapper' = mapper /\ places' = places /\ TT' = TT /\ expired' = expired
      /\ problem \in Problems /\ mapper # "random" /\ mapper \in Mappers
  BY DEF StartLoop, input, IInv, ControlInv
<1>2. ControlInv' /\ GraphInv' /\ MappingInv' /\ EdgeInv' /\ StopsOnlyIfUnmappable'
  BY <1>1, SameProblem DEF IInv, ControlInv, GraphInv, MappingInv, EdgeInv, Placed,
                           StopsOnlyIfUnmappable
<1>3. PlacesInv'
  BY <1>1, SameProblem DEF StartLoop, IInv, PlacesInv
<1>4. \A o \in Ops : /\ counter'[o] = Len(MappablePlaces(o)) - 1
                     /\ Len(MappablePlaces(o)) \in Nat
  BY <1>1, PlacesType DEF StartLoop, IInv, PlacesInv
<1>5. counter' \in [Ops -> Int]
  BY <1>4 DEF StartLoop
<1>6. CounterInv'
  BY <1>1, <1>4, <1>5, SameProblem DEF CounterInv, Placed
<1>. QED
  BY <1>2, <1>3, <1>6 DEF IInv

(* Turns that return leave everything but pc. *)
LEMMA ReturnIInv == ASSUME IInv, Exhausted \/ TimeOver PROVE IInv'
<1>1. /\ problem' = problem /\ mapping' = mapping /\ pc = "turn" /\ pc' = "null"
      /\ mapper' = mapper /\ places' = places /\ TT' = TT /\ expired' = expired
      /\ counter' = counter
  BY DEF Exhausted, TimeOver, Turn, input
<1>2. ControlInv' /\ GraphInv' /\ MappingInv' /\ EdgeInv' /\ StopsOnlyIfUnmappable'
  BY <1>1, SameProblem DEF IInv, ControlInv, GraphInv, MappingInv, EdgeInv, Placed,
                           StopsOnlyIfUnmappable
<1>3. PlacesInv' /\ CounterInv'
  BY <1>1, SameProblem DEF IInv, PlacesInv, CounterInv, Placed
<1>. QED
  BY <1>2, <1>3 DEF IInv

(* The places and the counter once the exhaustive mapper has started. *)
LEMMA Counting ==
    ASSUME IInv, mapper = "exhaustive", pc # "places"
    PROVE  /\ DOMAIN places = Ops
           /\ \A o \in Ops : /\ places[o] = MappablePlaces(o)
                             /\ Len(places[o]) \in Nat
                             /\ counter[o] \in -1 .. Len(places[o]) - 1
                             /\ o # 1 /\ counter[o] = -1 => places[o] = <<>>
                             /\ Len(places[o]) = 0 <=> places[o] = <<>>
<1>1. DOMAIN places = Ops /\ \A o \in Ops : places[o] = MappablePlaces(o)
  BY DEF IInv, PlacesInv
<1>2. problem \in Problems
  BY DEF IInv, ControlInv
<1>3. ASSUME NEW o \in Ops
      PROVE  /\ Len(MappablePlaces(o)) \in Nat
             /\ Len(MappablePlaces(o)) = 0 <=> MappablePlaces(o) = <<>>
  BY <1>2, PlacesType, EmptySeq
<1>. QED
  BY <1>1, <1>3 DEF IInv, CounterInv

LEMMA OutOfRangeIInv == ASSUME IInv, OutOfRange PROVE IInv'
<1>1. /\ problem' = problem /\ mapping' = mapping /\ pc = "turn" /\ pc' = "crashed"
      /\ mapper' = mapper /\ places' = places /\ TT' = TT /\ expired' = expired
      /\ counter' = counter /\ mapper = "exhaustive" /\ counter[1] # -1
  BY DEF OutOfRange, Turn, input
<1>2. ControlInv' /\ GraphInv' /\ MappingInv' /\ EdgeInv'
  BY <1>1, SameProblem DEF IInv, ControlInv, GraphInv, MappingInv, EdgeInv, Placed
<1>3. PlacesInv' /\ CounterInv'
  BY <1>1, SameProblem DEF IInv, PlacesInv, CounterInv, Placed
<1>4. StopsOnlyIfUnmappable'
  <2>1. 1 \in Ops
    BY Fields DEF IInv, ControlInv
  <2>2. places[1] # <<>>
    BY <2>1, <1>1, Counting
  <2>3. PICK o \in Ops : ~InRange(o)
    BY DEF OutOfRange
  <2>4. counter[o] = -1
    BY <2>3, <1>1, Counting DEF InRange
  <2>5. places[o] = <<>>
    BY <2>4, <1>1, Counting
  <2>. QED
    BY <2>2, <2>5, <1>1, SameProblem DEF StopsOnlyIfUnmappable
<1>. QED
  BY <1>2, <1>3, <1>4 DEF IInv

LEMMA TakePlacementIInv == ASSUME IInv, TakePlacement PROVE IInv'
<1>1. /\ problem' = problem /\ pc = "turn" /\ pc' = "check" /\ edge' = 1
      /\ mapper' = mapper /\ places' = places /\ TT' = TT /\ expired' = expired
      /\ counter' = counter /\ mapper = "exhaustive" /\ problem \in Problems
  BY DEF TakePlacement, Turn, input, IInv, ControlInv
<1>2. ControlInv' /\ GraphInv' /\ StopsOnlyIfUnmappable'
  BY <1>1, SameProblem DEF IInv, ControlInv, GraphInv, StopsOnlyIfUnmappable
<1>3. PlacesInv'
  BY <1>1, SameProblem DEF IInv, PlacesInv
<1>4. \A o \in Ops : 0 <= counter[o]
  BY DEF TakePlacement, InRange
<1>5. CounterInv'
  BY <1>1, <1>4, SameProblem DEF IInv, CounterInv, Placed
<1>6. ASSUME NEW o \in Ops PROVE places[o][counter[o] + 1] \in FUsBetween(cgra, 0, TT)
  <2>1. counter[o] + 1 \in 1 .. Len(MappablePlaces(o))
    BY <1>1, Counting, <1>4
  <2>2. MappablePlaces(o)[counter[o] + 1]
            \in FUsBetween(cgra, problem.lo[o], problem.hi[o])
    BY <2>1, <1>1, PlacesType, ElementOfSeq
  <2>3. /\ problem.lo[o] \in Nat /\ problem.hi[o] \in Nat /\ TT \in Nat
        /\ problem.hi[o] <= TT /\ places[o] = MappablePlaces(o)
    BY <1>1, Fields, Counting DEF IInv, GraphInv, PlacesInv
  <2>4. FUsBetween(cgra, problem.lo[o], problem.hi[o]) \subseteq FUsBetween(cgra, 0, TT)
    BY <2>3 DEF FUsBetween
  <2>. QED
    BY <2>2, <2>3, <2>4
<1>7. MappingInv'
  BY <1>1, <1>6, SameProblem DEF TakePlacement, MappingInv, Placed
<1>8. EdgeInv'
  BY <1>1, Fields DEF EdgeInv, Placed
<1>. QED
  BY <1>2, <1>3, <1>5, <1>7, <1>8 DEF IInv

LEMMA ShuffleIInv == ASSUME IInv, Shuffle PROVE IInv'
<1>1. /\ problem' = problem /\ pc = "turn" /\ mapper' = mapper /\ places' = places
      /\ expired' = expired /\ counter' = counter /\ mapper = "random"
      /\ problem \in Problems /\ TT \in Nat /\ II <= TT /\ mapping = <<>>
  BY DEF Shuffle, Turn, input, IInv, ControlInv, GraphInv, MappingInv, Placed
<1>2. II \in Nat \ {0} /\ NumPEs \in Nat /\ problem.n \in Nat
  BY <1>1, Fields
<1>3. PICK T \in Lengths :
          /\ TT' = AfterRangeLookup(TT, T)
          /\ \/ /\ problem.n <= NumPEs * T
                /\ mapping' \in Injection(Ops, FUsBetween(cgra, 0, T - 1))
                /\ pc' = "check" /\ edge' = 1
             \/ /\ problem.n > NumPEs * T
                /\ pc' = "aborted"
                /\ UNCHANGED <<mapping, edge>>
  BY DEF Shuffle
<1>4. T \in Nat /\ II <= T /\ TT' \in Nat /\ TT <= TT' /\ T - 1 <= TT' /\ T - 1 \in Nat
  BY <1>1, <1>2, <1>3 DEF Lengths, AfterRangeLookup
<1>5. ControlInv' /\ GraphInv'
  BY <1>1, <1>2, <1>3, <1>4, SameProblem DEF IInv, ControlInv, GraphInv
<1>6. PlacesInv'
  <2>1. ASSUME NEW o \in DOMAIN places PROVE problem.hi[o] <= TT'
    BY <1>1, <1>4, Fields DEF IInv, PlacesInv
  <2>. QED
    BY <2>1, <1>1, SameProblem DEF IInv, PlacesInv
<1>7. CounterInv'
  BY <1>1 DEF IInv, CounterInv
<1>8. CASE pc' = "check"
  <2>1. mapping' \in [Ops -> FUsBetween(cgra, 0, T - 1)] /\ edge' = 1
    BY <1>3, <1>8 DEF Injection
  <2>2. MappingInv'
    BY <2>1, <1>8, <1>4, <1>1, GraphGrows, SameProblem DEF MappingInv, Placed
  <2>3. EdgeInv' /\ StopsOnlyIfUnmappable'
    BY <2>1, <1>8, <1>1, Fields DEF EdgeInv, Placed, StopsOnlyIfUnmappable
  <2>. QED
    BY <2>2, <2>3, <1>5, <1>6, <1>7 DEF IInv
<1>9. CASE pc' = "aborted"
  <2>1. problem.n > NumPEs * T /\ mapping' = mapping
    BY <1>3, <1>9
  <2>2. NumPEs * II <= NumPEs * T
    BY <1>2, <1>4
  <2>3. NumPEs * II < problem.n
    BY <2>1, <2>2, <1>2, <1>4
  <2>4. StopsOnlyIfUnmappable'
    BY <2>3, <1>9, <1>1, SameProblem DEF StopsOnlyIfUnmappable
  <2>5. MappingInv' /\ EdgeInv'
    BY <2>1, <1>9, <1>1 DEF MappingInv, EdgeInv, Placed
  <2>. QED
    BY <2>4, <2>5, <1>5, <1>6, <1>7 DEF IInv
<1>. QED
  BY <1>3, <1>8, <1>9

(* The placement was rejected: the random mapper draws again, the          *)
(* exhaustive one counts down.                                             *)
LEMMA NextAttemptIInv ==
    ASSUME IInv, pc = "check", NextAttempt, TT' \in Nat, TT <= TT',
           UNCHANGED <<input, expired, places, counter>>
    PROVE  IInv'
<1>1. /\ problem' = problem /\ mapping' = <<>> /\ mapper' = mapper /\ places' = places
      /\ expired' = expired /\ counter' = counter
      /\ pc' = IF mapper = "random" THEN "turn" ELSE "next"
      /\ problem \in Problems /\ mapper \in {"exhaustive", "random"}
      /\ II \in Nat /\ TT \in Nat /\ II <= TT
  BY MapperKinds, Fields DEF NextAttempt, input, IInv, ControlInv, GraphInv
<1>2. ControlInv' /\ GraphInv' /\ StopsOnlyIfUnmappable'
  BY <1>1, SameProblem DEF IInv, ControlInv, GraphInv, StopsOnlyIfUnmappable
<1>3. PlacesInv'
  <2>1. ASSUME NEW o \in DOMAIN places PROVE problem.hi[o] <= TT'
    BY <1>1, Fields DEF IInv, PlacesInv
  <2>. QED
    BY <2>1, <1>1, SameProblem DEF IInv, PlacesInv
<1>4. CounterInv'
  BY <1>1, SameProblem DEF IInv, CounterInv, Placed
<1>5. MappingInv' /\ EdgeInv'
  BY <1>1 DEF MappingInv, EdgeInv, Placed
<1>. QED
  BY <1>2, <1>3, <1>4, <1>5 DEF IInv

LEMMA RejectIInv == ASSUME IInv, Reject PROVE IInv'
BY NextAttemptIInv DEF Reject, IInv, GraphInv

(* A path that is found ends inside the interval, a search without end     *)
(* crosses its end.                                                        *)
LEMMA PathsInside ==
    ASSUME IInv, CheckEdge
    PROVE  /\ TT' \in Nat /\ TT <= TT'
           /\ findPath(Src, Des, TT') = "paths" => Inside(problem.edges[edge])
           /\ findPath(Src, Des, TT') = "endless" => ~Inside(problem.edges[edge])
<1>1. /\ problem \in Problems /\ pc = "check" /\ TT \in Nat
      /\ edge \in 1 .. Len(problem.edges)
      /\ mapping \in [Ops -> FUsBetween(cgra, 0, TT)]
  <2>1. /\ problem \in Problems /\ pc = "check" /\ TT \in Nat
        /\ edge \in 1 .. Len(problem.edges) + 1 /\ edge <= Len(problem.edges)
        /\ mapping \in [Ops -> FUsBetween(cgra, 0, TT)]
    BY DEF CheckEdge, Checking, IInv, ControlInv, GraphInv, EdgeInv, MappingInv, Placed
  <2>2. Len(problem.edges) \in Nat
    BY <2>1, Fields
  <2>. QED
    BY <2>1, <2>2
<1>2. II \in Nat \ {0} /\ Edge \in Ops \X Ops \X BOOLEAN
  BY <1>1, Fields DEF Edge
<1>. DEFINE s == mapping[Edge[1]]
            d == mapping[Edge[2]]
<1>3. /\ s \in FUsBetween(cgra, 0, TT) /\ d \in FUsBetween(cgra, 0, TT)
      /\ Edge[3] \in BOOLEAN
  BY <1>1, <1>2
<1>4. TimeOf(s) \in 0 .. TT /\ TimeOf(d) \in 0 .. TT
  BY <1>3 DEF FUsBetween, TimeOf
<1>5. /\ TimeOf(Src) = TimeOf(s)
      /\ TimeOf(Des) = IF Edge[3] THEN TimeOf(d) + II ELSE TimeOf(d)
  BY DEF Src, Des, TimeOf
<1>6. TT' \in Nat /\ TT <= TT' /\ TimeOf(Des) <= TT'
  BY <1>1, <1>2, <1>4, <1>5 DEF CheckEdge, AfterNodeLookup
<1>7. Inside(problem.edges[edge]) <=>
          ~Edge[3] /\ TimeOf(s) < TimeOf(d) /\ TimeOf(d) < II
  BY DEF Inside, Edge
<1>8. ASSUME findPath(Src, Des, TT') = "paths" PROVE Inside(problem.edges[edge])
  <2>1. TimeOf(Src) < TimeOf(Des) /\ ~Crosses(Src, Des, TT')
    BY <1>8, <1>2, <1>4, <1>5 DEF findPath
  <2>2. TimeOf(Des) < II
    <3>1. ASSUME II <= TimeOf(Des) PROVE FALSE
      <4>1. TimeOf(Des) - 1 \in II - 1 .. TT' - 1
        BY <3>1, <1>2, <1>4, <1>5, <1>6
      <4>2. TimeOf(Src) <= TimeOf(Des) - 1 /\ TimeOf(Des) - 1 < TimeOf(Des)
        BY <2>1, <1>2, <1>4, <1>5
      <4>. QED
        BY <4>1, <4>2, <2>1 DEF Crosses
    <3>. QED
      BY <3>1, <1>2, <1>4, <1>5
  <2>. QED
    BY <2>1, <2>2, <1>2, <1>3, <1>4, <1>5, <1>7
<1>9. ASSUME findPath(Src, Des, TT') = "endless", Inside(problem.edges[edge]) PROVE FALSE
  <2>1. Crosses(Src, Des, TT')
    BY <1>9, <1>2, <1>4, <1>5 DEF findPath
  <2>2. PICK t \in II - 1 .. TT' - 1 : TimeOf(Src) <= t /\ t < TimeOf(Des)
    BY <2>1 DEF Crosses
  <2>. QED
    BY <2>2, <1>2, <1>4, <1>5, <1>6, <1>7, <1>9
<1>. QED
  BY <1>6, <1>8, <1>9

LEMMA CheckEdgeIInv == ASSUME IInv, CheckEdge PROVE IInv'
<1>1. /\ problem' = problem /\ pc = "check" /\ mapper' = mapper /\ places' = places
      /\ expired' = expired /\ counter' = counter /\ edge <= Len(problem.edges)
      /\ problem \in Problems /\ TT \in Nat /\ II \in Nat /\ II <= TT
  BY Fields DEF CheckEdge, Checking, input, IInv, ControlInv, GraphInv
<1>2. TT' \in Nat /\ TT <= TT'
  BY PathsInside
<1>. DEFINE found == findPath(Src, Des, TT')
<1>3. \/ found = "paths" /\ edge' = edge + 1 /\ pc' = pc /\ mapping' = mapping
      \/ found = "endless" /\ pc' = "hung" /\ mapping' = mapping /\ edge' = edge
      \/ found = "empty" /\ NextAttempt
  BY DEF CheckEdge
<1>4. CASE found = "empty" /\ NextAttempt
  BY <1>4, <1>1, <1>2, NextAttemptIInv DEF CheckEdge
<1>5. ASSUME pc' \in {"check", "hung"}, mapping' = mapping PROVE
          ControlInv' /\ GraphInv' /\ PlacesInv' /\ CounterInv' /\ MappingInv'
          /\ StopsOnlyIfUnmappable'
  <2>1. ControlInv' /\ GraphInv' /\ StopsOnlyIfUnmappable'
    BY <1>1, <1>2, <1>5, SameProblem DEF IInv, ControlInv, GraphInv, StopsOnlyIfUnmappable
  <2>2. PlacesInv'
    <3>1. ASSUME NEW o \in DOMAIN places PROVE problem.hi[o] <= TT'
      BY <1>1, <1>2, Fields DEF IInv, PlacesInv
    <3>. QED
      BY <3>1, <1>1, <1>5, SameProblem DEF IInv, PlacesInv
  <2>3. CounterInv'
    BY <1>1, <1>5, SameProblem DEF IInv, CounterInv, Placed
  <2>4. MappingInv'
    BY <1>1, <1>2, <1>5, GraphGrows, SameProblem DEF IInv, MappingInv, Placed
  <2>. QED
    BY <2>1, <2>2, <2>3, <2>4
<1>6. Len(problem.edges) \in Nat /\ edge \in 1 .. Len(problem.edges) + 1
  BY <1>1, Fields DEF IInv, EdgeInv, Placed
<1>7. CASE found = "paths" /\ edge' = edge + 1 /\ pc' = pc /\ mapping' = mapping
  <2>1. Inside(problem.edges[edge])
    BY <1>7, PathsInside
  <2>2. \A k \in 1 .. edge' - 1 : Inside(problem.edges[k])
    BY <2>1, <1>1, <1>6, <1>7 DEF IInv, EdgeInv, Placed
  <2>3. EdgeInv'
    BY <2>2, <1>1, <1>6, <1>7, SameMapping DEF EdgeInv, Placed
  <2>. QED
    BY <2>3, <1>1, <1>5, <1>7 DEF IInv
<1>8. CASE found = "endless" /\ pc' = "hung" /\ mapping' = mapping /\ edge' = edge
  <2>1. ~Inside(problem.edges[edge])
    BY <1>8, PathsInside
  <2>2. EdgeInv'
    BY <2>1, <1>1, <1>6, <1>8, SameMapping DEF IInv, EdgeInv, Placed
  <2>. QED
    BY <2>2, <1>1, <1>5, <1>8 DEF IInv
<1>. QED
  BY <1>3, <1>4, <1>7, <1>8

(* The program stops on an anti edge. *)
LEMMA AssertionFailsIInv == ASSUME IInv, AssertionFails PROVE IInv'
<1>1. /\ problem' = problem /\ mapping' = mapping /\ pc = "check" /\ pc' = "aborted"
      /\ mapper' = mapper /\ places' = places /\ expired' = expired
      /\ counter' = counter /\ edge' = edge /\ edge <= Len(problem.edges) /\ Edge[3]
      /\ problem \in Problems /\ TT \in Nat /\ II \in Nat /\ II <= TT
  BY Fields DEF AssertionFails, Checking, input, IInv, ControlInv, GraphInv
<1>2. /\ Len(problem.edges) \in Nat /\ edge \in 1 .. Len(problem.edges)
      /\ problem.edges \in [1 .. Len(problem.edges) -> Ops \X Ops \X BOOLEAN]
  BY <1>1, Fields, LenProperties DEF IInv, EdgeInv, Placed
<1>3. mapping \in [Ops -> FUsBetween(cgra, 0, TT)]
  BY <1>1 DEF IInv, MappingInv, Placed
<1>4. TimeOf(Des) \in Nat
  BY <1>1, <1>2, <1>3 DEF Des, Edge, TimeOf, FUsBetween
<1>5. TT' \in Nat /\ TT <= TT'
  BY <1>1, <1>4 DEF AssertionFails, AfterNodeLookup
<1>6. ControlInv' /\ GraphInv'
  BY <1>1, <1>5, SameProblem DEF IInv, ControlInv, GraphInv
<1>7. PlacesInv'
  <2>1. ASSUME NEW o \in DOMAIN places PROVE problem.hi[o] <= TT'
    BY <1>1, <1>5, Fields DEF IInv, PlacesInv
  <2>. QED
    BY <2>1, <1>1, SameProblem DEF IInv, PlacesInv
<1>8. CounterInv'
  BY <1>1, SameProblem DEF IInv, CounterInv, Placed
<1>9. MappingInv'
  BY <1>1, <1>3, <1>5, GraphGrows, SameProblem DEF MappingInv, Placed
<1>10. EdgeInv'
  BY <1>1 DEF EdgeInv, Placed
<1>11. StopsOnlyIfUnmappable'
  <2>1. problem.edges[edge][3] /\ edge \in DOMAIN problem.edges
    BY <1>1, <1>2 DEF Edge
  <2>. QED
    BY <2>1, <1>1 DEF StopsOnlyIfUnmappable
<1>. QED
  BY <1>6, <1>7, <1>8, <1>9, <1>10, <1>11 DEF IInv

LEMMA LegalIInv == ASSUME IInv, Legal PROVE IInv'
<1>1. /\ problem' = problem /\ mapping' = mapping /\ pc = "check" /\ pc' = "found"
      /\ mapper' = mapper /\ places' = places /\ TT' = TT /\ expired' = expired
      /\ counter' = counter /\ edge' = edge /\ edge > Len(problem.edges) /\ ~Conflict
      /\ problem \in Problems
  BY DEF Legal, Checking, Admissible, input, IInv, ControlInv
<1>2. ControlInv' /\ GraphInv' /\ MappingInv' /\ StopsOnlyIfUnmappable'
  BY <1>1, SameProblem DEF IInv, ControlInv, GraphInv, MappingInv, Placed,
                           StopsOnlyIfUnmappable
<1>3. PlacesInv' /\ CounterInv'
  BY <1>1, SameProblem DEF IInv, PlacesInv, CounterInv, Placed
<1>4. EdgeInv'
  <2>1. /\ Len(problem.edges) \in Nat /\ edge \in 1 .. Len(problem.edges) + 1
        /\ \A k \in 1 .. edge - 1 : Inside(problem.edges[k])
    BY <1>1, Fields DEF IInv, EdgeInv, Placed
  <2>2. edge = Len(problem.edges) + 1
    BY <2>1, <1>1
  <2>. QED
    BY <2>1, <2>2, <1>1, SameMapping DEF EdgeInv, Placed
<1>. QED
  BY <1>2, <1>3, <1>4 DEF IInv

(* A digit other than the first goes down only from above 0, so none but   *)
(* the first gets to -1, unless it starts over there.                      *)
LEMMA UpdateCounterIInv == ASSUME IInv, UpdateCounter PROVE IInv'
<1>1. /\ problem' = problem /\ mapping' = mapping /\ pc = "next" /\ pc' = "turn"
      /\ mapper' = mapper /\ places' = places /\ TT' = TT /\ expired' = expired
      /\ edge' = edge /\ mapper = "exhaustive" /\ problem \in Problems
  BY MapperKinds DEF UpdateCounter, input, IInv, ControlInv
<1>2. ControlInv' /\ GraphInv' /\ MappingInv' /\ EdgeInv' /\ StopsOnlyIfUnmappable'
  BY <1>1, SameProblem DEF IInv, ControlInv, GraphInv, MappingInv, EdgeInv, Placed,
                           StopsOnlyIfUnmappable
<1>3. PlacesInv'
  BY <1>1, SameProblem DEF IInv, PlacesInv
<1>4. PICK i \in Ops : Falls(i, counter) /\ counter' = Decrement(counter, i)
  BY DEF UpdateCounter
<1>5. ASSUME NEW j \in Ops
      PROVE  /\ counter'[j] \in -1 .. Len(MappablePlaces(j)) - 1
             /\ j # 1 /\ counter'[j] = -1 => Len(MappablePlaces(j)) = 0
  <2>1. /\ counter[j] \in 0 .. Len(MappablePlaces(j)) - 1
        /\ places[j] = MappablePlaces(j) /\ Len(MappablePlaces(j)) \in Nat
    BY <1>1, Counting DEF IInv, CounterInv
  <2>2. i \in Int /\ j \in Int
    BY DEF Ops
  <2>3. CASE j < i
    BY <2>1, <2>2, <2>3, <1>4 DEF Decrement
  <2>4. CASE j = i
    BY <2>1, <2>2, <2>4, <1>4 DEF Decrement, Falls
  <2>5. CASE j > i
    BY <2>1, <2>2, <2>5, <1>4 DEF Decrement
  <2>. QED
    BY <2>2, <2>3, <2>4, <2>5
<1>6. counter' \in [Ops -> Int]
  <2>1. DOMAIN counter' = Ops /\ counter' = [j \in Ops |-> counter'[j]]
    BY <1>4 DEF Decrement
  <2>2. \A j \in Ops : counter'[j] \in Int
    BY <1>1, <1>5, PlacesType
  <2>. QED
    BY <2>1, <2>2
<1>7. CounterInv'
  BY <1>1, <1>5, <1>6, SameProblem DEF CounterInv, Placed
<1>. QED
  BY <1>2, <1>3, <1>7 DEF IInv

LEMMA StepIInv == ASSUME IInv, [Next]_vars PROVE IInv'
<1>1. CASE Expire
  BY <1>1, ExpireIInv
<1>2. CASE \E o \in Ops : LookUp(o)
  BY <1>2, LookUpIInv
<1>3. CASE StartLoop
  BY <1>3, StartLoopIInv
<1>4. CASE Exhausted \/ TimeOver
  BY <1>4, ReturnIInv
<1>5. CASE OutOfRange
  BY <1>5, OutOfRangeIInv
<1>6. CASE TakePlacement
  BY <1>6, TakePlacementIInv
<1>7. CASE Shuffle
  BY <1>7, ShuffleIInv
<1>8. CASE Reject
  BY <1>8, RejectIInv
<1>9. CASE CheckEdge
  BY <1>9, CheckEdgeIInv
<1>10. CASE Legal
  BY <1>10, LegalIInv
<1>13. CASE AssertionFails
  BY <1>13, AssertionFailsIInv
<1>11. CASE UpdateCounter
  BY <1>11, UpdateCounterIInv
<1>12. CASE UNCHANGED vars
  BY <1>12, StutterIInv
<1>. QED
  BY <1>1, <1>2, <1>3, <1>4, <1>5, <1>6, <1>7, <1>8, <1>9, <1>10, <1>11, <1>12,
     <1>13 DEF Next, Step

(* IInv, which says what the lookups, the counter and the check of a       *)
(* placement have established so far, holds in every reachable state.      *)
THEOREM PlacementInvariant == Spec => []IInv
<1>1. Init => IInv
  BY InitIInv
<1>2. IInv /\ [Next]_vars => IInv'
  BY StepIInv
<1>. QED
  BY <1>1, <1>2, PTL DEF Spec
-----------------------------------------------------------------------------
(* Variables keep their types, places and mappings lie in the graph.       *)
THEOREM PlacementTypes == Spec => []TypeOK
<1>1. ASSUME IInv PROVE TypeOK
  <2>1. problem \in Problems /\ TT \in Nat /\ mapper \in {"exhaustive", "random"}
    BY <1>1, MapperKinds DEF IInv, ControlInv, GraphInv
  <2>2. ASSUME NEW o \in DOMAIN places PROVE Range(places[o]) \subseteq FUsBetween(cgra, 0, TT)
    <3>1. /\ o \in Ops /\ places[o] = MappablePlaces(o) /\ problem.hi[o] <= TT
          /\ problem.lo[o] \in Nat /\ problem.hi[o] \in Nat
      BY <1>1, <2>1, Fields DEF IInv, PlacesInv
    <3>2. MappablePlaces(o)
              \in [1 .. Len(MappablePlaces(o)) ->
                     FUsBetween(cgra, problem.lo[o], problem.hi[o])]
      BY <2>1, <3>1, PlacesType, LenProperties
    <3>3. FUsBetween(cgra, problem.lo[o], problem.hi[o]) \subseteq FUsBetween(cgra, 0, TT)
      BY <2>1, <3>1 DEF FUsBetween
    <3>. QED
      BY <3>1, <3>2, <3>3 DEF Range
  <2>3. ASSUME NEW o \in DOMAIN counter PROVE counter[o] \in -1 .. Len(places[o]) - 1
    <3>1. mapper = "exhaustive" /\ pc # "places"
      BY <1>1, <2>1, <2>3 DEF IInv, CounterInv
    <3>2. DOMAIN counter = Ops
      BY <3>1, <1>1 DEF IInv, CounterInv
    <3>. QED
      BY <3>1, <3>2, <1>1, Counting
  <2>4. \A o \in DOMAIN mapping : mapping[o] \in FUsBetween(cgra, 0, TT)
    BY <1>1 DEF IInv, MappingInv
  <2>. QED
    BY <1>1, <2>2, <2>3, <2>4 DEF TypeOK, IInv, ControlInv
<1>. QED
  BY <1>1, PlacementInvariant, PTL

(* A placement is called legal only if every edge is a forward edge that   *)
(* ends within the interval, and isLegal hangs only where one is not.      *)
THEOREM LegalPlacements == Spec => []LegalInsideInterval
<1>1. ASSUME IInv PROVE LegalInsideInterval
  <2>1. /\ Len(problem.edges) \in Nat
        /\ DOMAIN problem.edges = 1 .. Len(problem.edges)
    BY <1>1, Fields, LenProperties DEF IInv, ControlInv
  <2>. QED
    BY <1>1, <2>1 DEF IInv, EdgeInv, Placed, LegalInsideInterval
<1>. QED
  BY <1>1, PlacementInvariant, PTL

(* No two connected operations of a legal placement need a unit in one     *)
(* cycle of the interval: within it, equal units and cycles are equal      *)
(* nodes with equal IDs, which the comparison of isLegal does find.        *)
THEOREM UnitsNotShared == Spec => []UnitsUsedOnce
<1>1. ASSUME IInv PROVE UnitsUsedOnce
  <2>. SUFFICES ASSUME pc = "found", NEW o \in Connected, NEW q \in Connected, o # q,
                       PEOf(mapping[o]) = PEOf(mapping[q]),
                       TimeOf(mapping[o]) % II = TimeOf(mapping[q]) % II
                PROVE  FALSE
    BY DEF UnitsUsedOnce
  <2>1. /\ problem \in Problems /\ II \in Nat \ {0} /\ TT \in Nat
        /\ Len(problem.edges) \in Nat
        /\ problem.edges \in [1 .. Len(problem.edges) -> Ops \X Ops \X BOOLEAN]
        /\ mapping \in [Ops -> FUsBetween(cgra, 0, TT)]
    BY <1>1, Fields, LenProperties DEF IInv, ControlInv, GraphInv, MappingInv, Placed
  <2>2. \A k \in DOMAIN problem.edges : Inside(problem.edges[k])
    <3>1. /\ edge = Len(problem.edges) + 1
          /\ \A k \in 1 .. edge - 1 : Inside(problem.edges[k])
      BY <1>1 DEF IInv, EdgeInv, Placed
    <3>2. DOMAIN problem.edges = 1 .. edge - 1
      BY <2>1, <3>1
    <3>. QED
      BY <3>1, <3>2
  <2>3. ASSUME NEW p \in Connected
        PROVE  p \in Ops /\ TimeOf(mapping[p]) \in 0 .. II - 1
    <3>1. PICK k \in DOMAIN problem.edges : p \in {problem.edges[k][1], problem.edges[k][2]}
      BY DEF Connected
    <3>2. /\ problem.edges[k][1] \in Ops /\ problem.edges[k][2] \in Ops
          /\ Inside(problem.edges[k])
      BY <2>1, <2>2, <3>1
    <3>3. /\ TimeOf(mapping[problem.edges[k][1]]) \in Nat
          /\ TimeOf(mapping[problem.edges[k][2]]) \in Nat
      BY <2>1, <3>2 DEF FUsBetween, TimeOf
    <3>. QED
      BY <2>1, <3>1, <3>2, <3>3 DEF Inside
  <2>4. TimeOf(mapping[o]) = TimeOf(mapping[q])
    <3>1. \A t \in 0 .. II - 1 : t % II = t
      BY <2>1
    <3>2. /\ TimeOf(mapping[o]) % II = TimeOf(mapping[o])
          /\ TimeOf(mapping[q]) % II = TimeOf(mapping[q])
      BY <2>3, <3>1
    <3>. QED
      BY <3>2
  <2>5. Modded(mapping[o]) = Modded(mapping[q])
    BY <2>4 DEF Modded, ID
  <2>6. ~Conflict
    BY <1>1 DEF IInv, EdgeInv
  <2>. QED
    BY <2>3, <2>5, <2>6 DEF Conflict
<1>. QED
  BY <1>1, PlacementInvariant, PTL

(* mapII stops the program only on an operation without places, a          *)
(* recurrence, or, the random mapper, more operations than units.          *)
THEOREM StopsAreJustified == Spec => []StopsOnlyIfUnmappable
<1>1. IInv => StopsOnlyIfUnmappable
  BY DEF IInv
<1>. QED
  BY <1>1, PlacementInvariant, PTL
-----------------------------------------------------------------------------
(* Towards the refinement: counting down visits every combination.         *)

(* A nonempty set of numbers has a least one: its initial segments are     *)
(* finite sets, and strict inclusion is well-founded among those.          *)
LEMMA LeastElement ==
    ASSUME NEW n \in Nat, NEW S, S \subseteq 1 .. n, S # {}
    PROVE  \E i \in S : \A j \in S : i <= j
<1>. DEFINE upTo(i) == {j \in S : j <= i}
            segments == {upTo(i) : i \in S}
<1>1. IsFiniteSet(S)
  <2>1. IsFiniteSet(1 .. n)
    BY FS_Interval
  <2>. QED
    BY <2>1, FS_Subset
<1>2. segments \subseteq FiniteSubsetsOf(S)
  <2>1. \A i \in S : upTo(i) \subseteq S /\ IsFiniteSet(upTo(i))
    BY <1>1, FS_Subset
  <2>. QED
    BY <2>1 DEF FiniteSubsetsOf
<1>3. segments # {}
  OBVIOUS
<1>4. IsWellFoundedOn(StrictSubsetOrdering(S), FiniteSubsetsOf(S))
  BY FS_StrictSubsetOrderingWellFounded
<1>5. PICK x \in segments : \A y \in segments : <<y, x>> \notin StrictSubsetOrdering(S)
  <2>. HIDE DEF segments
  <2>. QED
    BY <1>2, <1>3, <1>4, WFMin
<1>6. PICK i \in S : x = upTo(i)
  BY <1>5
<1>7. ASSUME NEW j \in S, j < i PROVE FALSE
  <2>1. i \in Int /\ j \in Int /\ \A k \in S : k \in Int
    OBVIOUS
  <2>2. upTo(j) \subseteq upTo(i)
    <3>1. \A k \in S : k <= j => k <= i
      BY <1>7, <2>1
    <3>. QED
      BY <3>1
  <2>3. i \in upTo(i) /\ i \notin upTo(j)
    <3>1. i <= i /\ ~(i <= j)
      BY <1>7, <2>1
    <3>. QED
      BY <3>1
  <2>4. <<upTo(j), x>> \in StrictSubsetOrdering(S)
    <3>1. upTo(j) \subseteq S /\ upTo(i) \subseteq S /\ upTo(j) # upTo(i)
      BY <2>3
    <3>. HIDE DEF upTo
    <3>. QED
      BY <2>2, <3>1, <1>6 DEF StrictSubsetOrdering
  <2>5. upTo(j) \in segments
    OBVIOUS
  <2>. QED
    BY <2>4, <2>5, <1>5
<1>. QED
  BY <1>7

(* Different counters differ somewhere first. *)
LEMMA FirstDifference ==
    ASSUME problem \in Problems, NEW c \in [Ops -> Int], NEW d \in [Ops -> Int], c # d
    PROVE  \E i \in Ops : c[i] # d[i] /\ \A j \in 1 .. i - 1 : c[j] = d[j]
<1>. DEFINE S == {i \in Ops : c[i] # d[i]}
<1>1. S # {}
  OBVIOUS
<1>2. PICK i \in S : \A j \in S : i <= j
  BY <1>1, Fields, LeastElement DEF Ops
<1>3. \A j \in 1 .. i - 1 : j \in Ops /\ j \notin S
  BY <1>2, Fields DEF Ops
<1>. QED
  BY <1>2, <1>3

LEMMA CombinationIs ==
    ASSUME problem \in Problems, NEW c
    PROVE  c \in Combinations <=>
               /\ c \in [Ops -> Int]
               /\ \A o \in Ops : 0 <= c[o] /\ c[o] <= Len(MappablePlaces(o)) - 1
<1>. DEFINE digits == [o \in Ops |-> Len(MappablePlaces(o))]
            any == UNION {0 .. digits[o] - 1 : o \in Ops}
<1>1. \A o \in Ops : digits[o] = Len(MappablePlaces(o)) /\ digits[o] \in Nat
  BY PlacesType
<1>2. Combinations = {f \in [Ops -> any] : \A o \in Ops : f[o] < digits[o]}
  BY DEF Combinations
<1>3. ASSUME c \in Combinations
      PROVE  /\ c \in [Ops -> Int]
             /\ \A o \in Ops : 0 <= c[o] /\ c[o] <= Len(MappablePlaces(o)) - 1
  <2>1. \A x \in any : x \in Nat
    BY <1>1
  <2>2. c \in [Ops -> any] /\ \A o \in Ops : c[o] < digits[o]
    BY <1>2, <1>3
  <2>. HIDE DEF any, digits
  <2>3. \A o \in Ops : c[o] \in Nat
    BY <2>1, <2>2
  <2>. QED
    BY <2>2, <2>3, <1>1
<1>4. ASSUME c \in [Ops -> Int],
             \A o \in Ops : 0 <= c[o] /\ c[o] <= Len(MappablePlaces(o)) - 1
      PROVE  c \in Combinations
  <2>1. ASSUME NEW o \in Ops PROVE c[o] \in any /\ c[o] < digits[o]
    <3>1. c[o] \in 0 .. digits[o] - 1 /\ c[o] < digits[o]
      BY <1>1, <1>4
    <3>. QED
      BY <3>1
  <2>. HIDE DEF any, digits
  <2>. QED
    BY <2>1, <1>2, <1>4
<1>. QED
  BY <1>3, <1>4

UpTo(d) == {c \in Combinations : c = d \/ Below(c, d)}
Under(d) == {c \in Combinations : Below(c, d)}

(* The counter starts above all other combinations. *)
LEMMA AllUpToFirst ==
    ASSUME problem \in Problems, NEW d \in [Ops -> Int],
           \A o \in Ops : d[o] = Len(MappablePlaces(o)) - 1
    PROVE  UpTo(d) = Combinations
<1>1. ASSUME NEW c \in Combinations, c # d PROVE Below(c, d)
  <2>1. /\ c \in [Ops -> Int]
        /\ \A o \in Ops : 0 <= c[o] /\ c[o] <= Len(MappablePlaces(o)) - 1
    BY CombinationIs
  <2>2. PICK i \in Ops : c[i] # d[i] /\ \A j \in 1 .. i - 1 : c[j] = d[j]
    BY <1>1, <2>1, FirstDifference
  <2>3. c[i] \in Int /\ d[i] \in Int /\ c[i] <= d[i]
    BY <2>1
  <2>4. c[i] < d[i]
    BY <2>2, <2>3
  <2>. QED
    BY <2>2, <2>4 DEF Below
<1>. QED
  BY <1>1 DEF UpTo

(* One step of the counter passes over no combination. *)
LEMMA NextBelow ==
    ASSUME problem \in Problems, NEW d \in [Ops -> Int], NEW e \in [Ops -> Int],
           NEW i \in Ops, \A o \in Ops : 0 <= d[o],
           \A j \in Ops : i < j => d[j] = 0,
           \A j \in Ops : j < i => e[j] = d[j],
           e[i] = d[i] - 1,
           \A j \in Ops : i < j => e[j] = Len(MappablePlaces(j)) - 1
    PROVE  Under(d) = UpTo(e)
<1>1. Ops = 1 .. problem.n /\ problem.n \in Nat
  BY Fields DEF Ops
<1>2. \A c \in Combinations :
          /\ c \in [Ops -> Int]
          /\ \A o \in Ops : 0 <= c[o] /\ c[o] <= Len(MappablePlaces(o)) - 1
  BY CombinationIs
<1>3. ASSUME NEW c \in Combinations, c = e PROVE Below(c, d)
  BY <1>1, <1>2, <1>3 DEF Below
<1>4. ASSUME NEW c \in Combinations, Below(c, e) PROVE Below(c, d)
  <2>1. PICK k \in Ops : c[k] < e[k] /\ \A j \in 1 .. k - 1 : c[j] = e[j]
    BY <1>4 DEF Below
  <2>2. CASE k < i
    <3>1. c[k] < d[k] /\ \A j \in 1 .. k - 1 : c[j] = d[j]
      BY <2>1, <2>2, <1>1
    <3>. QED
      BY <3>1 DEF Below
  <2>3. CASE k = i
    <3>1. c[i] < d[i] /\ \A j \in 1 .. i - 1 : c[j] = d[j]
      BY <2>1, <2>3, <1>1, <1>2
    <3>. QED
      BY <3>1 DEF Below
  <2>4. CASE i < k
    <3>1. k \in Int /\ i \in 1 .. k - 1 /\ d[i] \in Int
      BY <2>4, <1>1
    <3>2. c[i] < d[i]
      BY <2>1, <3>1
    <3>3. ASSUME NEW j \in 1 .. i - 1 PROVE c[j] = d[j]
      <4>1. j \in 1 .. k - 1 /\ j \in Ops /\ j < i
        BY <3>1, <1>1
      <4>. QED
        BY <4>1, <2>1
    <3>. QED
      BY <3>2, <3>3 DEF Below
  <2>. QED
    BY <1>1, <2>2, <2>3, <2>4
<1>5. ASSUME NEW c \in Combinations, Below(c, d) PROVE c = e \/ Below(c, e)
  <2>1. PICK k \in Ops : c[k] < d[k] /\ \A j \in 1 .. k - 1 : c[j] = d[j]
    BY <1>5 DEF Below
  <2>2. k <= i
    <3>1. k \in Int /\ i \in Int /\ c[k] \in Int /\ 0 <= c[k]
      <4>1. c \in [Ops -> Int] /\ 0 <= c[k]
        BY <1>2
      <4>2. c[k] \in Int
        BY <4>1
      <4>. QED
        BY <4>1, <4>2, <1>1
    <3>2. ASSUME i < k PROVE FALSE
      <4>1. d[k] = 0
        BY <3>2
      <4>. QED
        BY <4>1, <3>1, <2>1
    <3>. QED
      BY <3>1, <3>2
  <2>3. CASE k < i
    <3>1. c[k] < e[k] /\ \A j \in 1 .. k - 1 : c[j] = e[j]
      BY <2>1, <2>3, <1>1
    <3>. QED
      BY <3>1 DEF Below
  <2>4. CASE k = i
    <3>1. \A j \in 1 .. i - 1 : c[j] = e[j]
      BY <2>1, <2>4, <1>1
    <3>2. CASE c[i] < e[i]
      BY <3>1, <3>2 DEF Below
    <3>3. CASE c[i] >= e[i] /\ c # e
      <4>1. c[i] = e[i]
        BY <2>1, <2>4, <3>3, <1>2
      <4>2. PICK m \in Ops : c[m] # e[m] /\ \A j \in 1 .. m - 1 : c[j] = e[j]
        BY <3>3, <1>2, FirstDifference
      <4>3. i < m
        BY <4>1, <4>2, <3>1, <1>1
      <4>4. c[m] < e[m]
        BY <4>2, <4>3, <1>2
      <4>. QED
        BY <4>2, <4>4 DEF Below
    <3>. QED
      BY <3>2, <3>3, <1>2
  <2>. QED
    BY <2>2, <2>3, <2>4, <1>1
<1>. QED
  BY <1>3, <1>4, <1>5 DEF Under, UpTo
-----------------------------------------------------------------------------
(* The refinement itself. *)

LEMMA SameCombinations ==
    ASSUME problem' = problem
    PROVE  /\ Combinations' = Combinations
           /\ \A c : Below(c, counter)' <=> Below(c, counter')
           /\ \A c : counter' = counter => (Below(c, counter') <=> Below(c, counter))
<1>1. Ops' = Ops /\ \A o : MappablePlaces(o)' = MappablePlaces(o)
  BY SameProblem
<1>2. Combinations' = Combinations
  BY <1>1 DEF Combinations
<1>3. \A c : Below(c, counter)' <=> Below(c, counter')
  BY <1>1 DEF Below
<1>. QED
  BY <1>2, <1>3

(* What is untried, by the mapper and the place in the program. *)
LEMMA UntriedIs ==
    /\ mapper = "random" => Untried = {"any"}
    /\ mapper # "random" /\ pc = "places" => Untried = Combinations
    /\ mapper # "random" /\ (Placed \/ pc \in {"next", "aborted"}) => Untried = Under(counter)
    /\ mapper # "random" /\ ~(Placed \/ pc \in {"next", "places", "aborted"}) =>
           Untried = UpTo(counter)
BY DEF Untried, Under, UpTo, Placed

(* A step that keeps the problem and the counter leaves as many untried as *)
(* the place in the program says.                                          *)
LEMMA UntriedNext ==
    ASSUME problem' = problem, mapper' = mapper, counter' = counter
    PROVE  /\ mapper = "random" => Untried' = {"any"}
           /\ mapper # "random" /\ pc' = "places" => Untried' = Combinations
           /\ mapper # "random" /\ pc' \in {"check", "next", "found", "hung", "aborted"} =>
                  Untried' = Under(counter)
           /\ mapper # "random"
              /\ pc' \notin {"check", "next", "found", "hung", "aborted", "places"} =>
                  Untried' = UpTo(counter)
BY SameCombinations DEF Untried, Under, UpTo

Stutters == Untried' = Untried /\ Answer' = Answer /\ expired' = expired

(* The steps before and after a placement is looked at, and the failed     *)
(* attempts, try nothing new.                                              *)
LEMMA QuietSteps ==
    ASSUME IInv,
           (\E o \in Ops : LookUp(o)) \/ OutOfRange \/ Shuffle \/ Reject \/ CheckEdge
           \/ AssertionFails
    PROVE  Stutters
<1>1. problem' = problem /\ mapper' = mapper /\ counter' = counter /\ expired' = expired
  BY DEF LookUp, OutOfRange, Shuffle, Reject, CheckEdge, AssertionFails, input
<1>2. mapper \in {"exhaustive", "random"}
  BY MapperKinds DEF IInv, ControlInv
<1>3. CASE mapper = "random"
  <2>1. Untried' = {"any"} /\ Untried = {"any"}
    BY <1>1, <1>3, UntriedNext, UntriedIs
  <2>2. pc \notin {"found", "null"} /\ pc' \notin {"found", "null"}
    BY <1>3 DEF LookUp, OutOfRange, Shuffle, Reject, CheckEdge, AssertionFails, Turn,
                  Checking, NextAttempt
  <2>. QED
    BY <1>1, <2>1, <2>2 DEF Stutters, Answer
<1>4. CASE mapper = "exhaustive" /\ \E o \in Ops : LookUp(o)
  <2>1. pc = "places" /\ pc' = "places"
    BY <1>4 DEF LookUp
  <2>. QED
    BY <1>1, <1>4, <2>1, UntriedNext, UntriedIs DEF Stutters, Answer
<1>5. CASE mapper = "exhaustive" /\ OutOfRange
  <2>1. pc = "turn" /\ pc' = "crashed"
    BY <1>5 DEF OutOfRange, Turn
  <2>. QED
    BY <1>1, <1>5, <2>1, UntriedNext, UntriedIs DEF Stutters, Answer, Placed
<1>6. CASE mapper = "exhaustive" /\ (Reject \/ CheckEdge \/ AssertionFails)
  <2>1. pc = "check" /\ pc' \in {"check", "next", "hung", "aborted"}
    BY <1>6 DEF Reject, CheckEdge, AssertionFails, Checking, NextAttempt
  <2>. QED
    BY <1>1, <1>6, <2>1, UntriedNext, UntriedIs DEF Stutters, Answer, Placed
<1>. QED
  BY <1>2, <1>3, <1>4, <1>5, <1>6 DEF Shuffle

(* The counter starts at the last combination: none is passed over. *)
LEMMA StartStutters == ASSUME IInv, StartLoop PROVE Stutters
<1>1. /\ problem \in Problems /\ problem' = problem /\ mapper' = mapper
      /\ expired' = expired /\ pc = "places" /\ pc' = "turn" /\ mapper = "exhaustive"
  BY MapperKinds DEF IInv, ControlInv, StartLoop, input
<1>2. /\ counter' \in [Ops -> Int]
      /\ \A o \in Ops : counter'[o] = Len(MappablePlaces(o)) - 1
  <2>1. \A o \in Ops : Len(places[o]) - 1 \in Int /\ places[o] = MappablePlaces(o)
    BY <1>1, PlacesType DEF IInv, PlacesInv, StartLoop
  <2>. QED
    BY <2>1 DEF StartLoop
<1>3. Untried = Combinations
  BY <1>1, UntriedIs
<1>4. Untried' = UpTo(counter')
  BY <1>1, SameCombinations DEF Untried, UpTo
<1>5. UpTo(counter') = Combinations
  BY <1>1, <1>2, AllUpToFirst
<1>. QED
  BY <1>1, <1>3, <1>4, <1>5 DEF Stutters, Answer

(* One step of the counter passes over none. *)
LEMMA CounterStutters == ASSUME IInv, UpdateCounter PROVE Stutters
<1>1. /\ problem \in Problems /\ problem' = problem /\ mapper' = mapper
      /\ expired' = expired /\ pc = "next" /\ pc' = "turn" /\ mapper = "exhaustive"
  BY MapperKinds DEF IInv, ControlInv, UpdateCounter, input
<1>2. /\ counter \in [Ops -> Int] /\ \A o \in Ops : 0 <= counter[o]
      /\ DOMAIN places = Ops /\ \A o \in Ops : places[o] = MappablePlaces(o)
  BY <1>1 DEF IInv, CounterInv, PlacesInv
<1>3. PICK i \in Ops : Falls(i, counter) /\ counter' = Decrement(counter, i)
  BY DEF UpdateCounter
<1>4. Ops = 1 .. problem.n /\ problem.n \in Nat
  BY <1>1, Fields DEF Ops
<1>5. counter' \in [Ops -> Int]
  <2>1. \A o \in Ops : Len(places[o]) - 1 \in Int /\ counter[o] - 1 \in Int
    BY <1>1, <1>2, PlacesType
  <2>2. \A o \in Ops : o < i \/ o = i \/ o > i
    BY <1>4
  <2>. QED
    BY <1>2, <1>3, <2>1, <2>2 DEF Decrement
<1>6. /\ \A j \in Ops : i < j => counter[j] = 0
      /\ \A j \in Ops : j < i => counter'[j] = counter[j]
      /\ counter'[i] = counter[i] - 1
      /\ \A j \in Ops : i < j => counter'[j] = Len(MappablePlaces(j)) - 1
  BY <1>2, <1>3, <1>4 DEF Falls, Decrement
<1>7. Under(counter) = UpTo(counter')
  BY <1>1, <1>2, <1>5, <1>6, NextBelow
<1>8. Untried = Under(counter)
  BY <1>1, UntriedIs
<1>9. Untried' = UpTo(counter')
  BY <1>1, SameCombinations DEF Untried, UpTo
<1>. QED
  BY <1>1, <1>7, <1>8, <1>9 DEF Stutters, Answer

(* The combination taken is the greatest untried one, and leaves. *)
LEMMA TakeTries == ASSUME IInv, TakePlacement PROVE Answer = "none" /\ Search!Try
<1>1. /\ problem \in Problems /\ problem' = problem /\ mapper' = mapper
      /\ counter' = counter
      /\ expired' = expired /\ pc = "turn" /\ pc' = "check" /\ mapper = "exhaustive"
  BY DEF IInv, ControlInv, TakePlacement, Turn, input
<1>2. /\ counter \in [Ops -> Int]
      /\ \A o \in Ops : 0 <= counter[o] /\ counter[o] <= Len(MappablePlaces(o)) - 1
  <2>1. /\ counter \in [Ops -> Int] /\ \A o \in Ops : places[o] = MappablePlaces(o)
        /\ \A o \in Ops : InRange(o)
    BY <1>1 DEF IInv, CounterInv, PlacesInv, TakePlacement
  <2>2. \A o \in Ops : Len(MappablePlaces(o)) \in Nat
    BY <1>1, PlacesType
  <2>. QED
    BY <2>1, <2>2 DEF InRange
<1>3. counter \in Combinations
  BY <1>1, <1>2, CombinationIs
<1>4. ~Below(counter, counter)
  BY <1>2 DEF Below
<1>5. Untried = UpTo(counter) /\ Untried' = Under(counter)
  BY <1>1, UntriedIs, UntriedNext DEF Placed
<1>6. counter \in Untried /\ Untried' = Untried \ {counter}
  BY <1>3, <1>4, <1>5 DEF UpTo, Under
<1>7. Answer = "none" /\ Answer' = Answer
  BY <1>1 DEF Answer
<1>. QED
  BY <1>1, <1>6, <1>7 DEF Search!Try

(* The mapping found has been tried. *)
LEMMA LegalFinds == ASSUME IInv, Legal PROVE Answer = "none" /\ Search!Find
<1>1. /\ problem' = problem /\ mapper' = mapper /\ counter' = counter
      /\ expired' = expired /\ pc = "check" /\ pc' = "found"
  BY DEF Legal, Checking, input
<1>2. Untried' = Untried
  BY <1>1, UntriedIs, UntriedNext DEF Placed
<1>3. Answer = "none" /\ Answer' = "found"
  BY <1>1 DEF Answer
<1>. QED
  BY <1>1, <1>2, <1>3 DEF Search!Find

(* The first digit at -1 leaves nothing below the counter. *)
LEMMA EndGivesUp ==
    ASSUME IInv, Exhausted \/ TimeOver PROVE Answer = "none" /\ Search!GiveUp
<1>1. /\ problem \in Problems /\ problem' = problem /\ mapper' = mapper
      /\ counter' = counter /\ expired' = expired /\ pc = "turn" /\ pc' = "null"
  BY DEF IInv, ControlInv, Exhausted, TimeOver, Turn, input
<1>2. Untried' = Untried
  BY <1>1, UntriedIs, UntriedNext DEF Placed
<1>3. Answer = "none" /\ Answer' = "null"
  BY <1>1 DEF Answer
<1>4. ASSUME Exhausted PROVE Untried = {}
  <2>1. mapper = "exhaustive" /\ counter[1] = -1
    BY <1>4 DEF Exhausted
  <2>2. ASSUME NEW c \in UpTo(counter) PROVE FALSE
    <3>1. c \in Combinations /\ (c = counter \/ Below(c, counter))
      BY DEF UpTo
    <3>2. c \in [Ops -> Int] /\ 1 \in Ops /\ 0 <= c[1]
      BY <1>1, <3>1, CombinationIs, Fields
    <3>3. c[1] \in Int
      BY <3>2
    <3>4. PICK i \in Ops : c[i] < counter[i] /\ \A j \in 1 .. i - 1 : c[j] = counter[j]
      BY <2>1, <3>1, <3>2, <3>3 DEF Below
    <3>5. i \in Int /\ 1 <= i
      BY <1>1, Fields DEF Ops
    <3>6. CASE i = 1
      BY <2>1, <3>2, <3>3, <3>4, <3>6
    <3>7. CASE 1 < i
      <4>1. c[1] = counter[1]
        BY <3>4, <3>5, <3>7
      <4>. QED
        BY <4>1, <2>1, <3>2
    <3>. QED
      BY <3>5, <3>6, <3>7
  <2>. QED
    BY <1>1, <2>1, <2>2, UntriedIs DEF Placed
<1>5. Untried = {} \/ expired
  BY <1>4 DEF TimeOver
<1>. QED
  BY <1>1, <1>2, <1>3, <1>5 DEF Search!GiveUp

LEMMA ExpireExpires == ASSUME Expire PROVE Search!Expire
<1>1. UNCHANGED <<problem, mapper, pc, counter>>
  BY DEF Expire, input
<1>2. Untried' = Untried
  BY <1>1, UntriedIs, UntriedNext DEF Placed
<1>3. Answer' = Answer
  BY <1>1 DEF Answer
<1>. QED
  BY <1>2, <1>3 DEF Expire, Search!Expire

(* The counter goes through every combination of mappable places once and  *)
(* ends with the last; mapII returns without mapping only then or when the *)
(* time is over.                                                           *)
THEOREM PlacementRefinesSearch == Spec => ImplementsSearch
<1>1. Init => Search!Init
  BY DEF Init, Search!Init, Answer
<1>2. IInv /\ [Next]_vars => [Search!Next]_(Search!vars)
  <2>. SUFFICES ASSUME IInv, [Next]_vars PROVE Search!Next \/ UNCHANGED Search!vars
    OBVIOUS
  <2>1. CASE UNCHANGED vars
    <3>1. UNCHANGED <<problem, mapper, pc, counter, expired>>
      BY <2>1 DEF vars
    <3>2. Untried' = Untried /\ Answer' = Answer
      BY <3>1, UntriedIs, UntriedNext DEF Placed, Answer
    <3>. QED
      BY <3>1, <3>2 DEF Search!vars
  <2>2. ASSUME Stutters PROVE UNCHANGED Search!vars
    BY <2>2 DEF Stutters, Search!vars
  <2>3. CASE Expire
    BY <2>3, ExpireExpires DEF Search!Next
  <2>4. CASE (\E o \in Ops : LookUp(o)) \/ OutOfRange \/ Shuffle \/ Reject \/ CheckEdge
           \/ AssertionFails
    BY <2>2, <2>4, QuietSteps
  <2>5. CASE StartLoop
    BY <2>2, <2>5, StartStutters
  <2>6. CASE UpdateCounter
    BY <2>2, <2>6, CounterStutters
  <2>7. CASE TakePlacement
    BY <2>7, TakeTries DEF Search!Next
  <2>8. CASE Legal
    BY <2>8, LegalFinds DEF Search!Next
  <2>9. CASE Exhausted \/ TimeOver
    BY <2>9, EndGivesUp DEF Search!Next
  <2>. QED
    BY <2>1, <2>3, <2>4, <2>5, <2>6, <2>7, <2>8, <2>9 DEF Next, Step
<1>. QED
  BY <1>1, <1>2, PlacementInvariant, PTL DEF Spec, ImplementsSearch, Search!Spec
=============================================================================
