------------------------- MODULE DFGScheduleProofs -------------------------
(***************************************************************************)
(* What cycle scheduling promises, for every number of operations and      *)
(* every graph.  The inductive invariant IInv follows the passes: what a   *)
(* sort has established about the levels it has peeled, what the forward   *)
(* pass has established up to level i, and what the backward pass has.     *)
(***************************************************************************)
EXTENDS DFGSchedule, TLAPS

(* Assignments of start cycles that respect the dependences. *)
Respects(sigma) ==
    \A s, d \in Op : <<s, d>> \in Dep => sigma[s] < sigma[d]
NonNegative(sigma) == \A n \in Op : 0 <= sigma[n]
Fits(sigma) == \A n \in Op : sigma[n] <= levels - 1

Sorted == pc \in {"rsort", "forward", "backward"} \/ cycleIsCalculated
RSorted == pc \in {"forward", "backward"} \/ cycleIsCalculated

(* The forward sort has peeled `depth' levels. *)
SortInv == pc = "sort" =>
    /\ tedges = {e \in Dep : e[1] \in notVstd}
    /\ \A n \in Op \ notVstd : 0 <= earliestCycle[n] /\ earliestCycle[n] < depth
    /\ \A s, d \in Op : <<s, d>> \in Dep /\ d \notin notVstd =>
          s \notin notVstd /\ earliestCycle[s] < earliestCycle[d]
    /\ depth > 0 => \A n \in notVstd : \E s \in Op :
          <<s, n>> \in Dep /\ (s \in notVstd \/ earliestCycle[s] = depth - 1)
    /\ \A n \in Op \ notVstd : earliestCycle[n] > 0 =>
          \E s \in Op : <<s, n>> \in Dep /\ earliestCycle[s] = earliestCycle[n] - 1

SortLowerBound == pc = "sort" =>
    \A sigma \in [Op -> Int] : Respects(sigma) /\ NonNegative(sigma) =>
        \A n \in Op : IF n \in notVstd THEN depth <= sigma[n]
                                       ELSE earliestCycle[n] <= sigma[n]

(* What it leaves behind. *)
EarliestInv == Sorted =>
    /\ \A n \in Op : 0 <= earliestCycle[n] /\ earliestCycle[n] < levels
    /\ \A s, d \in Op : <<s, d>> \in Dep => earliestCycle[s] < earliestCycle[d]
    /\ \A n \in Op : earliestCycle[n] > 0 =>
          \E s \in Op : <<s, n>> \in Dep /\ earliestCycle[s] = earliestCycle[n] - 1

EarliestLowerBound == Sorted =>
    \A sigma \in [Op -> Int] : Respects(sigma) /\ NonNegative(sigma) =>
        \A n \in Op : earliestCycle[n] <= sigma[n]

(* The reverse sort, mirrored. *)
RSortInv == pc = "rsort" =>
    /\ tedges = {e \in Dep : e[2] \in notVstd}
    /\ \A n \in Op \ notVstd : /\ latestCycle[n] <= levels - 1
                               /\ levels - 1 - depth < latestCycle[n]
    /\ \A s, d \in Op : <<s, d>> \in Dep /\ s \notin notVstd =>
          d \notin notVstd /\ latestCycle[s] < latestCycle[d]
    /\ depth > 0 => \A n \in notVstd : \E d \in Op :
          <<n, d>> \in Dep /\ (d \in notVstd \/ latestCycle[d] = levels - depth)
    /\ \A n \in Op \ notVstd : latestCycle[n] < levels - 1 =>
          \E d \in Op : <<n, d>> \in Dep /\ latestCycle[d] = latestCycle[n] + 1

RSortUpperBound == pc = "rsort" =>
    \A sigma \in [Op -> Int] : Respects(sigma) /\ Fits(sigma) =>
        \A n \in Op : IF n \in notVstd THEN sigma[n] <= levels - 1 - depth
                                       ELSE sigma[n] <= latestCycle[n]

LatestInv == RSorted =>
    /\ \A n \in Op : /\ latestCycle[n] <= levels - 1
                     /\ levels - 1 - rlevels < latestCycle[n]
    /\ \A s, d \in Op : <<s, d>> \in Dep => latestCycle[s] < latestCycle[d]
    /\ \A n \in Op : latestCycle[n] < levels - 1 =>
          \E d \in Op : <<n, d>> \in Dep /\ latestCycle[d] = latestCycle[n] + 1

LatestUpperBound == RSorted =>
    \A sigma \in [Op -> Int] : Respects(sigma) /\ Fits(sigma) =>
        \A n \in Op : sigma[n] <= latestCycle[n]

(* The forward pass makes cycle equal to earliestCycle, level by level. *)
ForwardInv == pc = "forward" =>
    /\ i >= 1
    /\ vec \subseteq Level(i)
    /\ \A n \in Op :
          \/ earliestCycle[n] < i
          \/ earliestCycle[n] = i /\ n \notin vec
          => cycle[n] = earliestCycle[n]

(* The backward pass has visited n. *)
Visited(n) == LET k == levels - 1 - latestCycle[n]
              IN  k < i \/ (k = i /\ n \notin vec)

BackwardInv == pc = "backward" =>
    /\ vec \subseteq RLevel(i)
    /\ \A n \in Op : ~Visited(n) => cycle[n] = earliestCycle[n]
    /\ \A n \in Op : Visited(n) => cycle[n] <= latestCycle[n]
    /\ \A n \in Op : earliestCycle[n] <= cycle[n]
    /\ \A s, d \in Op : <<s, d>> \in Dep => cycle[s] < cycle[d]
    /\ \A n \in Op : Visited(n) /\ Succs(n) # {} =>
          \E d \in Succs(n) : cycle[n] = cycle[d] - 1

ScheduleInv == cycleIsCalculated =>
    /\ \A n \in Op : earliestCycle[n] <= cycle[n] /\ cycle[n] <= latestCycle[n]
    /\ \A s, d \in Op : <<s, d>> \in Dep => cycle[s] < cycle[d]
    /\ \A n \in Op : Succs(n) # {} =>
          \E d \in Succs(n) : cycle[n] = cycle[d] - 1

(* The bound computed so far comes from one of the recurrence edges. *)
BoundInv ==
    /\ pc = "recmii" => toBound \subseteq Recurrence
    /\ maxII # -1 =>
          cycleIsCalculated /\ \E e \in Recurrence : maxII = Bound(e)

(* Outside calculateCycle the flag tells whether it has run. *)
PhaseInv == /\ cycleIsCalculated => pc \in {"idle", "recmii"}
            /\ pc = "recmii" => cycleIsCalculated

IInv == /\ TypeOK /\ PhaseInv
        /\ SortInv /\ SortLowerBound /\ EarliestInv /\ EarliestLowerBound
        /\ RSortInv /\ RSortUpperBound /\ LatestInv /\ LatestUpperBound
        /\ ForwardInv /\ BackwardInv /\ ScheduleInv /\ BoundInv
-----------------------------------------------------------------------------
LEMMA DepType ==
    ASSUME TypeOK
    PROVE  \A e \in Dep : e = <<e[1], e[2]>> /\ e[1] \in Op /\ e[2] \in Op
  BY DEF TypeOK, Dep

LEMMA OpInt == \A n \in Op : n \in Int
  BY NAssumption DEF Op

(* Type correctness. *)
LEMMA InitTypeOK == Init => TypeOK
  <1> SUFFICES ASSUME Init PROVE TypeOK
    OBVIOUS
  <1>1. PICK g \in Graphs : edges = g.edges /\ ctrlEdges = g.ctrlEdges
    BY DEF Init
  <1>2. g \in [edges : SUBSET (Op \X Op), ctrlEdges : SUBSET (Op \X Op)]
    BY GraphsAssumption
  <1>3. edges \subseteq Op \X Op /\ ctrlEdges \subseteq Op \X Op
    BY <1>1, <1>2
  <1>4. tedges \subseteq edges /\ notVstd \subseteq Op /\ vec \subseteq Op
        /\ toBound \subseteq Op \X Op
    BY DEF Init
  <1>5. earliestCycle \in [Op -> Int] /\ latestCycle \in [Op -> Int]
        /\ cycle \in [Op -> Int]
    BY DEF Init
  <1>6. depth \in Nat /\ levels \in Nat /\ rlevels \in Nat /\ i \in Nat
        /\ maxII \in Int
    BY DEF Init
  <1>7. cycleIsCalculated \in BOOLEAN /\ pc = "idle"
    BY DEF Init
  <1> QED
    BY <1>3, <1>4, <1>5, <1>6, <1>7 DEF TypeOK

LEMMA NextTypeOK == TypeOK /\ [Next]_vars => TypeOK'
  <1> SUFFICES ASSUME TypeOK, [Next]_vars PROVE TypeOK'
    OBVIOUS
  <1> USE DEF TypeOK
  <1>1. CASE FirstCall
    BY <1>1 DEF FirstCall, StartSort, Dep, graph
  <1>2. CASE SortLevel
    BY <1>2 DEF SortLevel, Peel, Degree0, graph
  <1>3. CASE SortDone
    BY <1>3 DEF SortDone, StartSort, Dep, graph
  <1>4. CASE RSortLevel
    BY <1>4 DEF RSortLevel, Peel, Degree0, LatestOfLevel, graph
  <1>5. CASE RSortDone
    BY <1>5 DEF RSortDone, Level, graph, sort
  <1>6. ASSUME NEW n \in Op, Forward(n) PROVE TypeOK'
    BY <1>6 DEF Forward, Preds, graph, sort
  <1>7. ASSUME NEW n \in Op, Backward(n) PROVE TypeOK'
    <2>1. cycle' \in [Op -> Int]
      <3>1. CASE Succs(n) = {}
        BY <1>7, <3>1 DEF Backward
      <3>2. CASE Succs(n) # {}
        <4>1. PICK m \in FirstUses(n) : cycle' = [cycle EXCEPT ![n] = cycle[m] - 1]
          BY <1>7, <3>2 DEF Backward
        <4>2. m \in Op
          BY DEF FirstUses, Succs
        <4> QED
          BY <4>1, <4>2
      <3> QED
        BY <3>1, <3>2
    <2> QED
      BY <1>7, <2>1 DEF Backward, graph, sort
  <1>8. CASE ForwardNext
    BY <1>8 DEF ForwardNext, Level, graph, sort
  <1>9. CASE ForwardDone
    BY <1>9 DEF ForwardDone, RLevel, graph, sort
  <1>10. CASE BackwardNext
    BY <1>10 DEF BackwardNext, RLevel, graph, sort
  <1>11. CASE BackwardDone
    BY <1>11 DEF BackwardDone, StartBound, Recurrence, graph, sort
  <1>12. CASE LaterCall
    BY <1>12 DEF LaterCall, StartBound, Recurrence, graph, sort
  <1>13. ASSUME NEW e \in Op \X Op, BoundEdge(e) PROVE TypeOK'
    BY <1>13 DEF BoundEdge, Bound, graph, sort
  <1>14. CASE Return
    BY <1>14 DEF Return, graph, sort
  <1>15. CASE UNCHANGED vars
    BY <1>15 DEF vars
  <1> QED
    BY <1>1, <1>2, <1>3, <1>4, <1>5, <1>6, <1>7, <1>8, <1>9, <1>10, <1>11,
       <1>12, <1>13, <1>14, <1>15 DEF Next, calculateCycle, getRecMII

(* The types of the variables hold in every state of the scheduler. *)
THEOREM TypeCorrect == Spec => []TypeOK
  <1> QED
    BY InitTypeOK, NextTypeOK, PTL DEF Spec
-----------------------------------------------------------------------------
LEMMA InitIInv == Init => IInv
  <1> SUFFICES ASSUME Init PROVE IInv
    OBVIOUS
  <1>1. TypeOK
    BY InitTypeOK
  <1> QED
    BY <1>1 DEF Init, IInv, PhaseInv, SortInv, SortLowerBound, EarliestInv,
       EarliestLowerBound, RSortInv, RSortUpperBound, LatestInv,
       LatestUpperBound, ForwardInv, BackwardInv, ScheduleInv, BoundInv,
       Sorted, RSorted

(* Every action leaves the graph alone, and with it the dependences. *)
LEMMA GraphFixed ==
    ASSUME UNCHANGED graph
    PROVE  /\ Dep' = Dep /\ Recurrence' = Recurrence
           /\ \A n \in Op : Succs(n)' = Succs(n) /\ Preds(n)' = Preds(n)
  BY DEF graph, Dep, Recurrence, Succs, Preds

(* The forward sort. *)
LEMMA FirstCallIInv ==
    ASSUME IInv, TypeOK', FirstCall
    PROVE  IInv'
  <1>1. Dep' = Dep /\ Recurrence' = Recurrence
    BY GraphFixed DEF FirstCall
  <1>2. PhaseInv' /\ BoundInv'
    BY DEF IInv, FirstCall, PhaseInv, BoundInv
  <1>3. tedges' = {e \in Dep : e[1] \in Op}
    BY DepType DEF FirstCall, StartSort, IInv
  <1>4. SortInv'
    BY <1>1, <1>3, DepType DEF SortInv, FirstCall, StartSort, IInv
  <1>5. SortLowerBound'
    BY <1>1 DEF SortLowerBound, FirstCall, StartSort, NonNegative
  <1> QED
    BY <1>2, <1>4, <1>5
       DEF IInv, FirstCall, EarliestInv,
           EarliestLowerBound, RSortInv, RSortUpperBound, LatestInv,
           LatestUpperBound, ForwardInv, BackwardInv, ScheduleInv,
           Sorted, RSorted

LEMMA SortLevelIInv ==
    ASSUME IInv, TypeOK', SortLevel
    PROVE  IInv'
  <1> DEFINE T == Degree0(FALSE)
  <1>1. Dep' = Dep /\ Recurrence' = Recurrence
    BY GraphFixed DEF SortLevel
  <1>2. PhaseInv' /\ BoundInv'
    BY DEF IInv, SortLevel, PhaseInv, BoundInv
  <1>3. \A n \in Op : n \in T <=>
           n \in notVstd /\ \A s \in Op : <<s, n>> \in Dep => s \notin notVstd
    BY DepType DEF Degree0, SortLevel, SortInv, IInv, TypeOK
  <1>4. /\ notVstd' = notVstd \ T
        /\ tedges' = {e \in tedges : e[1] \notin T}
        /\ depth' = depth + 1
        /\ \A n \in Op : earliestCycle'[n] = IF n \in T THEN depth
                                                       ELSE earliestCycle[n]
    BY DEF SortLevel, Peel, TypeOK
  <1>5. T \subseteq notVstd /\ notVstd \subseteq Op /\ depth \in Nat
        /\ earliestCycle \in [Op -> Int]
    BY DEF Degree0, IInv, TypeOK
  <1>6. pc = "sort" /\ pc' = "sort" /\ ~cycleIsCalculated' /\ SortInv /\ SortLowerBound
    BY DEF SortLevel, IInv, PhaseInv
  <1>7. SortInv'
    <2> HIDE DEF T
    <2>1. tedges' = {e \in Dep : e[1] \in notVstd'}
      BY <1>4, <1>5, <1>6 DEF SortInv
    <2>2. \A n \in Op \ notVstd' : 0 <= earliestCycle'[n] /\ earliestCycle'[n] < depth'
      BY <1>4, <1>5, <1>6 DEF SortInv
    <2>3. ASSUME NEW s \in Op, NEW d \in Op, <<s, d>> \in Dep, d \notin notVstd'
          PROVE  s \notin notVstd' /\ earliestCycle'[s] < earliestCycle'[d]
      <3>1. CASE d \in T
        <4>1. s \notin notVstd
          BY <1>3, <2>3, <3>1
        <4> QED
          BY <1>4, <1>5, <1>6, <3>1, <4>1 DEF SortInv
      <3>2. CASE d \notin T
        BY <1>4, <1>5, <1>6, <2>3, <3>2 DEF SortInv
      <3> QED
        BY <3>1, <3>2
    <2>4. ASSUME NEW n \in notVstd'
          PROVE  \E s \in Op : /\ <<s, n>> \in Dep
                               /\ s \in notVstd' \/ earliestCycle'[s] = depth' - 1
      <3>1. n \in Op /\ n \in notVstd /\ n \notin T
        BY <1>4, <1>5
      <3>2. PICK s \in Op : <<s, n>> \in Dep /\ s \in notVstd
        BY <1>3, <3>1
      <3> QED
        BY <1>4, <1>5, <3>2
    <2>5. ASSUME NEW n \in Op \ notVstd', earliestCycle'[n] > 0
          PROVE  \E s \in Op : /\ <<s, n>> \in Dep
                               /\ earliestCycle'[s] = earliestCycle'[n] - 1
      <3>1. CASE n \in T
        <4>1. depth > 0 /\ n \in notVstd /\ earliestCycle'[n] = depth
          BY <1>4, <1>5, <2>5, <3>1
        <4>2. PICK s \in Op : /\ <<s, n>> \in Dep
                              /\ s \in notVstd \/ earliestCycle[s] = depth - 1
          BY <1>6, <4>1 DEF SortInv
        <4>3. s \notin notVstd
          BY <1>3, <3>1, <4>2
        <4>4. earliestCycle'[s] = earliestCycle[s]
          BY <1>4, <1>5, <4>3
        <4> QED
          BY <4>1, <4>2, <4>3, <4>4
      <3>2. CASE n \notin T
        <4>1. n \notin notVstd /\ earliestCycle'[n] = earliestCycle[n]
          BY <1>4, <3>2
        <4>2. PICK s \in Op : <<s, n>> \in Dep /\ earliestCycle[s] = earliestCycle[n] - 1
          BY <1>6, <2>5, <4>1 DEF SortInv
        <4>3. s \notin notVstd
          BY <1>6, <4>1, <4>2 DEF SortInv
        <4> QED
          BY <1>4, <1>5, <4>1, <4>2, <4>3
      <3> QED
        BY <3>1, <3>2
    <2> QED
      BY <1>1, <2>1, <2>2, <2>3, <2>4, <2>5 DEF SortInv
  <1>8. SortLowerBound'
    <2> HIDE DEF T
    <2> SUFFICES ASSUME NEW sigma \in [Op -> Int], Respects(sigma),
                        NonNegative(sigma), NEW n \in Op
                 PROVE  IF n \in notVstd' THEN depth' <= sigma[n]
                                          ELSE earliestCycle'[n] <= sigma[n]
      BY <1>1 DEF SortLowerBound, Respects, NonNegative
    <2>1. \A o \in Op : IF o \in notVstd THEN depth <= sigma[o]
                                         ELSE earliestCycle[o] <= sigma[o]
      BY <1>6 DEF SortLowerBound
    <2>2. CASE n \in notVstd'
      <3>1. PICK s \in Op : <<s, n>> \in Dep /\ s \in notVstd
        BY <1>3, <1>4, <2>2
      <3>2. sigma[s] < sigma[n]
        BY <3>1 DEF Respects
      <3> QED
        BY <1>4, <1>5, <2>1, <2>2, <3>1, <3>2
    <2>3. CASE n \notin notVstd'
      BY <1>4, <1>5, <2>1, <2>3
    <2> QED
      BY <2>2, <2>3
  <1> QED
    BY <1>2, <1>6, <1>7, <1>8
       DEF IInv, EarliestInv,
           EarliestLowerBound, RSortInv, RSortUpperBound, LatestInv,
           LatestUpperBound, ForwardInv, BackwardInv, ScheduleInv,
           Sorted, RSorted

LEMMA SortDoneIInv ==
    ASSUME IInv, TypeOK', SortDone
    PROVE  IInv'
  <1>1. Dep' = Dep /\ Recurrence' = Recurrence
    BY GraphFixed DEF SortDone
  <1>2. PhaseInv' /\ BoundInv'
    BY DEF IInv, SortDone, PhaseInv, BoundInv
  <1>3. pc = "sort" /\ ~cycleIsCalculated /\ notVstd = {}
        /\ levels' = depth /\ earliestCycle' = earliestCycle
    BY DEF SortDone, IInv, PhaseInv
  <1>4. EarliestInv'
    BY <1>1, <1>3 DEF EarliestInv, SortInv, IInv
  <1>5. EarliestLowerBound'
    BY <1>1, <1>3
       DEF EarliestLowerBound, SortLowerBound, IInv, Respects, NonNegative
  <1>6. tedges' = {e \in Dep : e[2] \in Op} /\ notVstd' = Op /\ depth' = 0
    BY DepType DEF SortDone, StartSort, IInv
  <1>7. RSortInv'
    BY <1>1, <1>6 DEF RSortInv
  <1>8. RSortUpperBound'
    BY <1>6, TypeOK' DEF RSortUpperBound, Fits, TypeOK
  <1> QED
    BY <1>2, <1>4, <1>5, <1>7, <1>8
       DEF IInv, SortDone, PhaseInv, SortInv, SortLowerBound, LatestInv,
           LatestUpperBound, ForwardInv, BackwardInv, ScheduleInv, RSorted

(* The reverse sort. *)
LEMMA RSortLevelIInv ==
    ASSUME IInv, TypeOK', RSortLevel
    PROVE  IInv'
  <1> DEFINE T == Degree0(TRUE)
  <1>1. Dep' = Dep /\ Recurrence' = Recurrence
    BY GraphFixed DEF RSortLevel
  <1>2. PhaseInv' /\ BoundInv'
    BY DEF IInv, RSortLevel, PhaseInv, BoundInv
  <1>3. \A n \in Op : n \in T <=>
           n \in notVstd /\ \A d \in Op : <<n, d>> \in Dep => d \notin notVstd
    BY DepType DEF Degree0, RSortLevel, RSortInv, IInv, TypeOK
  <1>4. /\ notVstd' = notVstd \ T
        /\ tedges' = {e \in tedges : e[2] \notin T}
        /\ depth' = depth + 1
        /\ \A n \in Op : latestCycle'[n] = IF n \in T THEN levels - 1 - depth
                                                      ELSE latestCycle[n]
    BY DEF RSortLevel, Peel, TypeOK, LatestOfLevel
  <1>5. T \subseteq notVstd /\ notVstd \subseteq Op /\ depth \in Nat
        /\ levels \in Nat /\ latestCycle \in [Op -> Int]
    BY DEF Degree0, IInv, TypeOK
  <1>6. pc = "rsort" /\ pc' = "rsort" /\ ~cycleIsCalculated' /\ RSortInv
        /\ RSortUpperBound /\ levels' = levels
    BY DEF RSortLevel, IInv, PhaseInv
  <1>7. RSortInv'
    <2> HIDE DEF T
    <2>1. tedges' = {e \in Dep : e[2] \in notVstd'}
      BY <1>4, <1>5, <1>6 DEF RSortInv
    <2>2. \A n \in Op \ notVstd' : /\ latestCycle'[n] <= levels' - 1
                                   /\ levels' - 1 - depth' < latestCycle'[n]
      BY <1>4, <1>5, <1>6 DEF RSortInv
    <2>3. ASSUME NEW s \in Op, NEW d \in Op, <<s, d>> \in Dep, s \notin notVstd'
          PROVE  d \notin notVstd' /\ latestCycle'[s] < latestCycle'[d]
      <3>1. CASE s \in T
        <4>1. d \notin notVstd
          BY <1>3, <2>3, <3>1
        <4> QED
          BY <1>4, <1>5, <1>6, <3>1, <4>1 DEF RSortInv
      <3>2. CASE s \notin T
        BY <1>4, <1>5, <1>6, <2>3, <3>2 DEF RSortInv
      <3> QED
        BY <3>1, <3>2
    <2>4. ASSUME NEW n \in notVstd'
          PROVE  \E d \in Op : /\ <<n, d>> \in Dep
                               /\ d \in notVstd' \/ latestCycle'[d] = levels' - depth'
      <3>1. n \in Op /\ n \in notVstd /\ n \notin T
        BY <1>4, <1>5
      <3>2. PICK d \in Op : <<n, d>> \in Dep /\ d \in notVstd
        BY <1>3, <3>1
      <3>3. levels' - depth' = levels - 1 - depth
        BY <1>4, <1>5, <1>6
      <3>4. d \in notVstd' \/ latestCycle'[d] = levels - 1 - depth
        BY <1>4, <3>2
      <3> QED
        BY <3>2, <3>3, <3>4
    <2>5. ASSUME NEW n \in Op \ notVstd', latestCycle'[n] < levels' - 1
          PROVE  \E d \in Op : /\ <<n, d>> \in Dep
                               /\ latestCycle'[d] = latestCycle'[n] + 1
      <3>1. CASE n \in T
        <4>1. depth > 0 /\ n \in notVstd /\ latestCycle'[n] = levels - 1 - depth
          BY <1>4, <1>5, <1>6, <2>5, <3>1
        <4>2. PICK d \in Op : /\ <<n, d>> \in Dep
                              /\ d \in notVstd \/ latestCycle[d] = levels - depth
          BY <1>6, <4>1 DEF RSortInv
        <4>3. d \notin notVstd
          BY <1>3, <3>1, <4>2
        <4>4. latestCycle'[d] = latestCycle[d]
          BY <1>4, <1>5, <4>3
        <4>5. levels - depth = (levels - 1 - depth) + 1
          BY <1>5
        <4> QED
          BY <4>1, <4>2, <4>3, <4>4, <4>5
      <3>2. CASE n \notin T
        <4>1. n \notin notVstd /\ latestCycle'[n] = latestCycle[n]
          BY <1>4, <3>2
        <4>2. PICK d \in Op : <<n, d>> \in Dep /\ latestCycle[d] = latestCycle[n] + 1
          BY <1>6, <2>5, <4>1 DEF RSortInv
        <4>3. d \notin notVstd
          BY <1>6, <4>1, <4>2 DEF RSortInv
        <4> QED
          BY <1>4, <1>5, <4>1, <4>2, <4>3
      <3> QED
        BY <3>1, <3>2
    <2> QED
      BY <1>1, <2>1, <2>2, <2>3, <2>4, <2>5 DEF RSortInv
  <1>8. RSortUpperBound'
    <2> HIDE DEF T
    <2> SUFFICES ASSUME NEW sigma \in [Op -> Int], Respects(sigma),
                        Fits(sigma), NEW n \in Op
                 PROVE  IF n \in notVstd' THEN sigma[n] <= levels - 1 - depth'
                                          ELSE sigma[n] <= latestCycle'[n]
      BY <1>1, <1>6 DEF RSortUpperBound, Respects, Fits
    <2>1. \A o \in Op : IF o \in notVstd THEN sigma[o] <= levels - 1 - depth
                                         ELSE sigma[o] <= latestCycle[o]
      BY <1>6 DEF RSortUpperBound
    <2>2. CASE n \in notVstd'
      <3>1. PICK d \in Op : <<n, d>> \in Dep /\ d \in notVstd
        BY <1>3, <1>4, <2>2
      <3>2. sigma[n] < sigma[d]
        BY <3>1 DEF Respects
      <3> QED
        BY <1>4, <1>5, <2>1, <2>2, <3>1, <3>2
    <2>3. CASE n \notin notVstd'
      BY <1>4, <1>5, <2>1, <2>3
    <2> QED
      BY <2>2, <2>3
  <1>9. EarliestInv' /\ EarliestLowerBound'
    BY <1>1 DEF IInv, RSortLevel, EarliestInv, EarliestLowerBound, Sorted,
       Respects, NonNegative
  <1> QED
    BY <1>2, <1>6, <1>7, <1>8, <1>9
       DEF IInv, SortInv, SortLowerBound, LatestInv, LatestUpperBound,
           ForwardInv, BackwardInv, ScheduleInv, RSorted

LEMMA RSortDoneIInv ==
    ASSUME IInv, TypeOK', RSortDone
    PROVE  IInv'
  <1>1. Dep' = Dep /\ Recurrence' = Recurrence
    BY GraphFixed DEF RSortDone
  <1>2. PhaseInv' /\ BoundInv'
    BY DEF IInv, RSortDone, PhaseInv, BoundInv
  <1>3. /\ pc = "rsort" /\ ~cycleIsCalculated /\ notVstd = {}
        /\ levels' = levels /\ earliestCycle' = earliestCycle
        /\ latestCycle' = latestCycle /\ rlevels' = depth
        /\ pc' = "forward" /\ ~cycleIsCalculated'
    BY DEF RSortDone, IInv, PhaseInv
  <1>4. EarliestInv' /\ EarliestLowerBound'
    BY <1>1, <1>3 DEF IInv, EarliestInv, EarliestLowerBound, Sorted,
       Respects, NonNegative
  <1>5. LatestInv'
    BY <1>1, <1>3 DEF LatestInv, RSortInv, IInv
  <1>6. LatestUpperBound'
    BY <1>1, <1>3
       DEF LatestUpperBound, RSortUpperBound, IInv, Respects, Fits
  <1>7. ForwardInv'
    <2>1. \A n \in Op : 0 <= earliestCycle[n] /\ earliestCycle[n] \in Int
      BY <1>3 DEF IInv, EarliestInv, Sorted, TypeOK
    <2>2. /\ i' = 1 /\ vec' = Level(1)
          /\ \A n \in Op : cycle'[n] = IF n \in Level(0) THEN 0 ELSE cycle[n]
      BY DEF RSortDone, IInv, TypeOK
    <2> QED
      BY <1>3, <2>1, <2>2 DEF ForwardInv, Level
  <1> QED
    BY <1>2, <1>3, <1>4, <1>5, <1>6, <1>7
       DEF IInv, SortInv, SortLowerBound, RSortInv, RSortUpperBound,
           BackwardInv, ScheduleInv

(* The forward pass.  What the two sorts left stays as it is. *)
LEMMA SortsKept ==
    ASSUME IInv, Sorted, Sorted', RSorted, RSorted',
           UNCHANGED <<graph, levels, rlevels, earliestCycle, latestCycle>>
    PROVE  EarliestInv' /\ EarliestLowerBound' /\ LatestInv' /\ LatestUpperBound'
  <1>1. Dep' = Dep
    BY GraphFixed
  <1> QED
    BY <1>1 DEF IInv, EarliestInv, EarliestLowerBound, LatestInv,
       LatestUpperBound, Respects, NonNegative, Fits

LEMMA ForwardIInv ==
    ASSUME IInv, TypeOK', NEW n \in Op, Forward(n)
    PROVE  IInv'
  <1>1. Dep' = Dep /\ Recurrence' = Recurrence
    BY GraphFixed DEF Forward
  <1>2. /\ pc = "forward" /\ pc' = "forward" /\ n \in vec
        /\ ~cycleIsCalculated /\ ~cycleIsCalculated'
        /\ UNCHANGED <<graph, levels, rlevels, earliestCycle, latestCycle, i>>
        /\ vec' = vec \ {n}
    BY DEF Forward, IInv, PhaseInv
  <1>3. PhaseInv' /\ BoundInv'
    BY <1>2 DEF IInv, Forward, PhaseInv, BoundInv
  <1>4. EarliestInv' /\ EarliestLowerBound' /\ LatestInv' /\ LatestUpperBound'
    BY <1>2, SortsKept DEF Sorted, RSorted
  <1>5. ForwardInv'
    <2>1. PICK m \in {-1} \cup {cycle[s] + 1 : s \in Preds(n)} :
             /\ \A s \in Preds(n) : cycle[s] + 1 <= m
             /\ cycle' = [cycle EXCEPT ![n] = m]
      BY DEF Forward
    <2>2. i >= 1 /\ earliestCycle[n] = i /\ i \in Nat
          /\ earliestCycle \in [Op -> Int] /\ cycle \in [Op -> Int]
      BY <1>2 DEF IInv, ForwardInv, Level, TypeOK
    <2>3. \A s \in Preds(n) : cycle[s] = earliestCycle[s] /\ earliestCycle[s] < i
      BY <1>2, <2>2 DEF IInv, ForwardInv, EarliestInv, Sorted, Preds
    <2>4. PICK p \in Op : <<p, n>> \in Dep /\ earliestCycle[p] = i - 1
      <3>1. earliestCycle[n] > 0
        BY <2>2
      <3>2. EarliestInv /\ Sorted
        BY <1>2 DEF IInv, Sorted
      <3> QED
        BY <2>2, <3>1, <3>2 DEF EarliestInv
    <2>5. p \in Preds(n) /\ cycle[p] + 1 = i
      BY <2>2, <2>3, <2>4 DEF Preds
    <2>6. \A s \in Preds(n) : cycle[s] \in Int /\ cycle[s] + 1 <= i
      BY <2>2, <2>3 DEF Preds
    <2>7. m \in Int /\ m <= i
      BY <2>1, <2>2, <2>6
    <2>8. m = i
      BY <2>1, <2>2, <2>5, <2>7
    <2> QED
      BY <1>2, <2>1, <2>2, <2>8 DEF IInv, ForwardInv, Level
  <1> QED
    BY <1>2, <1>3, <1>4, <1>5
       DEF IInv, SortInv, SortLowerBound, RSortInv, RSortUpperBound,
           BackwardInv, ScheduleInv

LEMMA ForwardNextIInv ==
    ASSUME IInv, TypeOK', ForwardNext
    PROVE  IInv'
  <1>1. /\ pc = "forward" /\ pc' = "forward" /\ vec = {}
        /\ ~cycleIsCalculated /\ ~cycleIsCalculated'
        /\ UNCHANGED <<graph, levels, rlevels, earliestCycle, latestCycle, cycle>>
        /\ i' = i + 1 /\ vec' = Level(i + 1)
    BY DEF ForwardNext, IInv, PhaseInv
  <1>2. PhaseInv' /\ BoundInv'
    BY <1>1, GraphFixed DEF IInv, ForwardNext, PhaseInv, BoundInv
  <1>3. EarliestInv' /\ EarliestLowerBound' /\ LatestInv' /\ LatestUpperBound'
    BY <1>1, SortsKept DEF Sorted, RSorted
  <1>4. ForwardInv'
    BY <1>1 DEF IInv, ForwardInv, Level, TypeOK
  <1> QED
    BY <1>1, <1>2, <1>3, <1>4
       DEF IInv, SortInv, SortLowerBound, RSortInv, RSortUpperBound,
           BackwardInv, ScheduleInv

LEMMA ForwardDoneIInv ==
    ASSUME IInv, TypeOK', ForwardDone
    PROVE  IInv'
  <1>1. /\ pc = "forward" /\ pc' = "backward" /\ i >= levels
        /\ ~cycleIsCalculated /\ ~cycleIsCalculated'
        /\ UNCHANGED <<graph, levels, rlevels, earliestCycle, latestCycle, cycle>>
        /\ i' = 0 /\ vec' = RLevel(0)
    BY DEF ForwardDone, IInv, PhaseInv
  <1>2. PhaseInv' /\ BoundInv'
    BY <1>1, GraphFixed DEF IInv, ForwardDone, PhaseInv, BoundInv
  <1>3. EarliestInv' /\ EarliestLowerBound' /\ LatestInv' /\ LatestUpperBound'
    BY <1>1, SortsKept DEF Sorted, RSorted
  <1>4. BackwardInv'
    <2>1. \A n \in Op : cycle[n] = earliestCycle[n]
      BY <1>1 DEF IInv, ForwardInv, EarliestInv, Sorted, TypeOK
    <2>2. \A n \in Op : ~Visited(n)'
      BY <1>1 DEF Visited, RLevel, LatestOfLevel, IInv, LatestInv, RSorted, TypeOK
    <2>3. Dep' = Dep /\ \A n \in Op : Succs(n)' = Succs(n)
      BY <1>1, GraphFixed
    <2> QED
      BY <1>1, <2>1, <2>2, <2>3
         DEF BackwardInv, IInv, EarliestInv, Sorted, RLevel, LatestOfLevel, TypeOK
  <1> QED
    BY <1>1, <1>2, <1>3, <1>4
       DEF IInv, SortInv, SortLowerBound, RSortInv, RSortUpperBound,
           ForwardInv, ScheduleInv

(* The backward pass. *)
LEMMA BackwardIInv ==
    ASSUME IInv, TypeOK', NEW n \in Op, Backward(n)
    PROVE  IInv'
  <1>1. Dep' = Dep /\ Recurrence' = Recurrence
        /\ \A o \in Op : Succs(o)' = Succs(o)
    BY GraphFixed DEF Backward
  <1>2. /\ pc = "backward" /\ pc' = "backward" /\ n \in vec
        /\ ~cycleIsCalculated /\ ~cycleIsCalculated'
        /\ UNCHANGED <<graph, levels, rlevels, earliestCycle, latestCycle, i>>
        /\ vec' = vec \ {n}
    BY DEF Backward, IInv, PhaseInv
  <1>3. PhaseInv' /\ BoundInv'
    BY <1>2 DEF IInv, Backward, PhaseInv, BoundInv
  <1>4. EarliestInv' /\ EarliestLowerBound' /\ LatestInv' /\ LatestUpperBound'
    BY <1>2, SortsKept DEF Sorted, RSorted
  <1>5. /\ EarliestInv /\ LatestInv /\ BackwardInv /\ Sorted /\ RSorted
        /\ earliestCycle \in [Op -> Int] /\ latestCycle \in [Op -> Int]
        /\ cycle \in [Op -> Int] /\ levels \in Nat /\ i \in Nat
        /\ pc = "backward"
    BY <1>2 DEF IInv, TypeOK, Sorted, RSorted
  <1>6. latestCycle[n] = levels - 1 - i /\ ~Visited(n)
    BY <1>2, <1>5 DEF BackwardInv, RLevel, LatestOfLevel, Visited
  <1>7. \A o \in Op : Visited(o)' <=> Visited(o) \/ o = n
    BY <1>2, <1>5, <1>6 DEF Visited
  <1>8. \A d \in Op : <<n, d>> \in Dep => Visited(d)
    BY <1>2, <1>5, <1>6 DEF LatestInv, Visited
  <1>9. \A s \in Op : <<s, n>> \in Dep => ~Visited(s)
    BY <1>2, <1>5, <1>6 DEF LatestInv, Visited
  <1>10. cycle[n] = earliestCycle[n]
    BY <1>5, <1>6 DEF BackwardInv
  <1>11. BackwardInv'
    <2>1. CASE Succs(n) = {}
      <3>1. cycle' = cycle
        BY <2>1 DEF Backward
      <3>2. latestCycle[n] = levels - 1
        <4>1. \A d \in Op : <<n, d>> \notin Dep
          BY <2>1 DEF Succs
        <4>2. latestCycle[n] \in Int /\ latestCycle[n] <= levels - 1
              /\ ~(latestCycle[n] < levels - 1)
          BY <1>5, <4>1 DEF LatestInv
        <4> QED
          BY <1>5, <4>2
      <3>3. cycle[n] <= latestCycle[n]
        BY <1>5, <1>10, <3>2 DEF EarliestInv
      <3>4. \A o \in Op : Visited(o)' => cycle'[o] <= latestCycle[o]
        BY <1>5, <1>7, <3>1, <3>3 DEF BackwardInv
      <3>5. \A o \in Op : Visited(o)' /\ Succs(o) # {} =>
               \E d \in Succs(o) : cycle[o] = cycle[d] - 1
        BY <1>5, <1>7, <2>1 DEF BackwardInv
      <3> QED
        BY <1>1, <1>2, <1>5, <1>7, <3>1, <3>4, <3>5
           DEF BackwardInv, RLevel, LatestOfLevel
    <2>2. CASE Succs(n) # {}
      <3>1. PICK m \in FirstUses(n) : cycle' = [cycle EXCEPT ![n] = cycle[m] - 1]
        BY <2>2 DEF Backward
      <3>2. /\ m \in Op /\ <<n, m>> \in Dep
            /\ \A d \in Op : <<n, d>> \in Dep => cycle[m] <= cycle[d]
        BY DEF FirstUses, Succs
      <3>3. /\ cycle'[n] = cycle[m] - 1
            /\ \A o \in Op : o # n => cycle'[o] = cycle[o]
        BY <1>5, <3>1
      <3>4. cycle[m] \in Int /\ m # n /\ earliestCycle[n] < earliestCycle[m]
            /\ earliestCycle[m] <= cycle[m]
        BY <1>5, <1>6, <1>8, <3>2 DEF EarliestInv, BackwardInv
      <3>5. \A o \in Op : earliestCycle[o] <= cycle'[o]
        <4>1. earliestCycle[n] <= cycle'[n]
          BY <1>5, <3>2, <3>3, <3>4
        <4> QED
          BY <1>5, <3>3, <4>1 DEF BackwardInv
      <3>6. cycle'[n] <= latestCycle[n]
        <4>1. latestCycle[n] < latestCycle[m] /\ latestCycle[m] <= levels - 1
          BY <1>5, <3>2 DEF LatestInv
        <4>2. PICK d \in Op : <<n, d>> \in Dep /\ latestCycle[d] = latestCycle[n] + 1
          <5>1. latestCycle[n] \in Int /\ latestCycle[m] \in Int
            BY <1>5, <3>2
          <5>2. latestCycle[n] < levels - 1
            BY <1>5, <4>1, <5>1
          <5> QED
            BY <1>5, <5>2 DEF LatestInv
        <4>3. cycle[d] <= latestCycle[d] /\ cycle[m] <= cycle[d]
          BY <1>5, <1>8, <3>2, <4>2 DEF BackwardInv
        <4> QED
          BY <1>5, <3>2, <3>3, <4>2, <4>3
      <3>7. \A o \in Op : Visited(o)' => cycle'[o] <= latestCycle[o]
        BY <1>5, <1>7, <3>3, <3>6 DEF BackwardInv
      <3>8. \A o \in Op : ~Visited(o)' => cycle'[o] = earliestCycle[o]
        BY <1>5, <1>7, <3>3 DEF BackwardInv
      <3>9. ASSUME NEW s \in Op, NEW d \in Op, <<s, d>> \in Dep
            PROVE  cycle'[s] < cycle'[d]
        <4>1. CASE s = n
          <5>1. d # n
            BY <1>6, <1>8, <3>9, <4>1
          <5> QED
            BY <1>5, <3>2, <3>3, <3>4, <3>9, <4>1, <5>1
        <4>2. CASE d = n
          <5>1. s # n /\ cycle[s] = earliestCycle[s]
            BY <1>5, <1>6, <1>8, <1>9, <3>9, <4>2 DEF BackwardInv
          <5>2. earliestCycle[s] < earliestCycle[n]
            BY <1>5, <3>9, <4>2 DEF EarliestInv
          <5> QED
            <6>1. cycle'[s] = earliestCycle[s] /\ cycle'[d] = cycle[m] - 1
              BY <3>3, <4>2, <5>1
            <6>2. earliestCycle[s] \in Int /\ earliestCycle[n] \in Int
                  /\ earliestCycle[m] \in Int /\ cycle[m] \in Int
              BY <1>5, <3>2
            <6>3. earliestCycle[s] < earliestCycle[n] /\ earliestCycle[n] < cycle[m]
              BY <3>4, <5>2, <6>2
            <6> QED
              BY <6>1, <6>2, <6>3
        <4>3. CASE s # n /\ d # n
          BY <1>5, <3>3, <3>9, <4>3 DEF BackwardInv
        <4> QED
          BY <4>1, <4>2, <4>3
      <3>10. ASSUME NEW o \in Op, Visited(o)', Succs(o) # {}
             PROVE  \E d \in Succs(o) : cycle'[o] = cycle'[d] - 1
        <4>1. CASE o = n
          BY <3>2, <3>3, <3>4, <4>1 DEF Succs
        <4>2. CASE o # n
          <5>1. PICK d \in Succs(o) : cycle[o] = cycle[d] - 1
            BY <1>5, <1>7, <3>10, <4>2 DEF BackwardInv
          <5>2. Visited(o) /\ d \in Op /\ <<o, d>> \in Dep
            BY <1>7, <3>10, <4>2 DEF Succs
          <5>3. d # n
            BY <1>9, <5>2
          <5> QED
            BY <3>3, <4>2, <5>1, <5>2, <5>3
        <4> QED
          BY <4>1, <4>2
      <3>11. vec' \subseteq RLevel(i)'
        BY <1>2, <1>5 DEF BackwardInv, RLevel, LatestOfLevel
      <3> QED
        BY <1>1, <1>2, <3>5, <3>7, <3>8, <3>9, <3>10, <3>11 DEF BackwardInv
    <2> QED
      BY <2>1, <2>2
  <1> QED
    BY <1>2, <1>3, <1>4, <1>11
       DEF IInv, SortInv, SortLowerBound, RSortInv, RSortUpperBound,
           ForwardInv, ScheduleInv

LEMMA BackwardNextIInv ==
    ASSUME IInv, TypeOK', BackwardNext
    PROVE  IInv'
  <1>1. /\ pc = "backward" /\ pc' = "backward" /\ vec = {}
        /\ ~cycleIsCalculated /\ ~cycleIsCalculated'
        /\ UNCHANGED <<graph, levels, rlevels, earliestCycle, latestCycle, cycle>>
        /\ i' = i + 1 /\ vec' = RLevel(i + 1)
    BY DEF BackwardNext, IInv, PhaseInv
  <1>2. PhaseInv' /\ BoundInv'
    BY <1>1, GraphFixed DEF IInv, BackwardNext, PhaseInv, BoundInv
  <1>3. EarliestInv' /\ EarliestLowerBound' /\ LatestInv' /\ LatestUpperBound'
    BY <1>1, SortsKept DEF Sorted, RSorted
  <1>4. Dep' = Dep /\ \A n \in Op : Succs(n)' = Succs(n)
    BY <1>1, GraphFixed
  <1>5. \A n \in Op : Visited(n)' <=> Visited(n)
    BY <1>1 DEF Visited, RLevel, LatestOfLevel, IInv, TypeOK
  <1>6. vec' \subseteq RLevel(i)'
    BY <1>1 DEF RLevel, LatestOfLevel
  <1>7. BackwardInv'
    BY <1>1, <1>4, <1>5, <1>6 DEF IInv, BackwardInv
  <1> QED
    BY <1>1, <1>2, <1>3, <1>7
       DEF IInv, SortInv, SortLowerBound, RSortInv, RSortUpperBound,
           ForwardInv, ScheduleInv

LEMMA BackwardDoneIInv ==
    ASSUME IInv, TypeOK', BackwardDone
    PROVE  IInv'
  <1>1. /\ pc = "backward" /\ pc' = "recmii" /\ i >= rlevels /\ cycleIsCalculated'
        /\ ~cycleIsCalculated
        /\ UNCHANGED <<graph, levels, rlevels, earliestCycle, latestCycle, cycle>>
        /\ toBound' = Recurrence /\ maxII' = -1
    BY DEF BackwardDone, StartBound, IInv, PhaseInv
  <1>2. Dep' = Dep /\ Recurrence' = Recurrence
        /\ \A n \in Op : Succs(n)' = Succs(n)
    BY <1>1, GraphFixed
  <1>3. PhaseInv' /\ BoundInv'
    BY <1>1, <1>2 DEF PhaseInv, BoundInv
  <1>4. EarliestInv' /\ EarliestLowerBound' /\ LatestInv' /\ LatestUpperBound'
    BY <1>1, SortsKept DEF Sorted, RSorted
  <1>5. \A n \in Op : Visited(n)
    BY <1>1 DEF IInv, LatestInv, RSorted, Visited, TypeOK
  <1>6. ScheduleInv'
    BY <1>1, <1>2, <1>5 DEF IInv, BackwardInv, ScheduleInv
  <1> QED
    BY <1>1, <1>3, <1>4, <1>6
       DEF IInv, SortInv, SortLowerBound, RSortInv, RSortUpperBound,
           ForwardInv, BackwardInv

(* getRecMII proper: the schedule is only read. *)
LEMMA ScheduleKept ==
    ASSUME IInv, cycleIsCalculated, pc' \in {"idle", "recmii"},
           UNCHANGED <<graph, cycleIsCalculated, levels, rlevels,
                       earliestCycle, latestCycle, cycle>>,
           TypeOK', BoundInv'
    PROVE  IInv'
  <1>1. Dep' = Dep /\ \A n \in Op : Succs(n)' = Succs(n)
    BY GraphFixed
  <1>2. EarliestInv' /\ EarliestLowerBound' /\ LatestInv' /\ LatestUpperBound'
    BY SortsKept DEF Sorted, RSorted
  <1>3. ScheduleInv'
    BY <1>1 DEF IInv, ScheduleInv
  <1> QED
    BY <1>2, <1>3
       DEF IInv, PhaseInv, SortInv, SortLowerBound, RSortInv, RSortUpperBound,
           ForwardInv, BackwardInv

LEMMA LaterCallIInv ==
    ASSUME IInv, TypeOK', LaterCall
    PROVE  IInv'
  <1>1. BoundInv'
    BY GraphFixed DEF LaterCall, StartBound, BoundInv
  <1> QED
    BY <1>1, ScheduleKept DEF LaterCall, StartBound

LEMMA BoundEdgeIInv ==
    ASSUME IInv, TypeOK', NEW e \in Op \X Op, BoundEdge(e)
    PROVE  IInv'
  <1>1. cycleIsCalculated /\ e \in Recurrence /\ Recurrence' = Recurrence
    BY GraphFixed DEF BoundEdge, IInv, PhaseInv, BoundInv
  <1>2. \A f \in Recurrence : Bound(f)' = Bound(f)
    BY DEF BoundEdge, Bound
  <1>3. BoundInv'
    BY <1>1, <1>2 DEF BoundEdge, BoundInv, IInv
  <1> QED
    BY <1>1, <1>3, ScheduleKept DEF BoundEdge

LEMMA ReturnIInv ==
    ASSUME IInv, TypeOK', Return
    PROVE  IInv'
  <1>1. cycleIsCalculated /\ Recurrence' = Recurrence
    BY GraphFixed DEF Return, IInv, PhaseInv
  <1>2. BoundInv'
    BY <1>1 DEF Return, BoundInv, IInv, Bound
  <1> QED
    BY <1>1, <1>2, ScheduleKept DEF Return

LEMMA StutterIInv ==
    ASSUME IInv, UNCHANGED vars
    PROVE  IInv'
  <1>1. Dep' = Dep /\ Recurrence' = Recurrence
        /\ \A n \in Op : Succs(n)' = Succs(n)
    BY GraphFixed DEF vars, graph
  <1>2. TypeOK' /\ PhaseInv'
    BY DEF vars, IInv, TypeOK, PhaseInv
  <1>3. SortInv' /\ SortLowerBound' /\ RSortInv' /\ RSortUpperBound'
    BY <1>1 DEF vars, IInv, SortInv, SortLowerBound, RSortInv,
       RSortUpperBound, Respects, NonNegative, Fits
  <1>4. EarliestInv' /\ EarliestLowerBound' /\ LatestInv' /\ LatestUpperBound'
    BY <1>1 DEF vars, IInv, EarliestInv, EarliestLowerBound, LatestInv,
       LatestUpperBound, Sorted, RSorted, Respects, NonNegative, Fits
  <1>5. ForwardInv' /\ ScheduleInv' /\ BoundInv'
    BY <1>1 DEF vars, IInv, ForwardInv, ScheduleInv, BoundInv, Level, Bound
  <1>6. \A n \in Op : Visited(n)' <=> Visited(n)
    BY DEF vars, Visited
  <1>7. BackwardInv'
    BY <1>1, <1>6 DEF vars, IInv, BackwardInv, RLevel, LatestOfLevel
  <1> QED
    BY <1>2, <1>3, <1>4, <1>5, <1>7 DEF IInv

LEMMA NextIInv == IInv /\ [Next]_vars => IInv'
  <1> SUFFICES ASSUME IInv, [Next]_vars PROVE IInv'
    OBVIOUS
  <1>1. TypeOK'
    BY NextTypeOK DEF IInv
  <1> QED
    BY <1>1, FirstCallIInv, SortLevelIInv, SortDoneIInv, RSortLevelIInv,
       RSortDoneIInv, ForwardIInv, ForwardNextIInv, ForwardDoneIInv,
       BackwardIInv, BackwardNextIInv, BackwardDoneIInv, LaterCallIInv,
       BoundEdgeIInv, ReturnIInv, StutterIInv
       DEF Next, calculateCycle, getRecMII

THEOREM ScheduleInvariant == Spec => []IInv
  <1> QED
    BY InitIInv, NextIInv, PTL DEF Spec
-----------------------------------------------------------------------------
(* Every value is produced strictly before it is used (DFG.cpp:399-418).   *)
THEOREM ProducedBeforeUsedHolds == Spec => []ProducedBeforeUsed
  <1>1. IInv => ProducedBeforeUsed
    BY DepType DEF IInv, ScheduleInv, ProducedBeforeUsed, Scheduled
  <1> QED
    BY <1>1, ScheduleInvariant, PTL

(* The assigned cycle lies in the window of the two sorts.                 *)
THEOREM CycleInWindowHolds == Spec => []CycleInWindow
  <1>1. IInv => CycleInWindow
    <2> SUFFICES ASSUME IInv, Scheduled, NEW n \in Op
                 PROVE  /\ 0 <= earliestCycle[n]
                        /\ earliestCycle[n] <= cycle[n]
                        /\ cycle[n] <= latestCycle[n]
                        /\ latestCycle[n] < levels
      BY DEF CycleInWindow
    <2>1. /\ 0 <= earliestCycle[n] /\ latestCycle[n] <= levels - 1
          /\ earliestCycle[n] <= cycle[n] /\ cycle[n] <= latestCycle[n]
      BY DEF IInv, EarliestInv, LatestInv, ScheduleInv, Scheduled, Sorted, RSorted
    <2>2. latestCycle[n] \in Int /\ levels \in Nat
      BY DEF IInv, TypeOK
    <2> QED
      BY <2>1, <2>2
  <1> QED
    BY <1>1, ScheduleInvariant, PTL

(* A value is produced in the cycle just before its first use.             *)
THEOREM NoSlackHolds == Spec => []NoSlack
  <1>1. IInv => NoSlack
    BY DEF IInv, ScheduleInv, NoSlack, Scheduled, Succs
  <1> QED
    BY <1>1, ScheduleInvariant, PTL

(* RecMII is at most the initiation interval any start-cycle assignment    *)
(* within the critical path needs.                                         *)
THEOREM RecMIIIsLowerBoundHolds == Spec => []RecMIIIsLowerBound
  <1>1. IInv => RecMIIIsLowerBound
    <2> SUFFICES ASSUME IInv, Answered, NEW sigma \in [Op -> 0 .. levels - 1],
                        IsSchedule(sigma), maxII # -1
                 PROVE  \E e \in Recurrence : maxII <= sigma[e[1]] - sigma[e[2]] + 1
      BY DEF RecMIIIsLowerBound
    <2>1. PICK e \in Recurrence : maxII = Bound(e)
      BY DEF IInv, BoundInv
    <2>2. e[1] \in Op /\ e[2] \in Op
      BY DEF IInv, TypeOK, Recurrence
    <2>3. sigma \in [Op -> Int]
      BY DEF IInv, TypeOK
    <2>4. Respects(sigma)
      BY DepType DEF Respects, IsSchedule, IInv
    <2>5. NonNegative(sigma) /\ Fits(sigma)
      BY <2>3 DEF NonNegative, Fits, IsSchedule, IInv, TypeOK
    <2>6. earliestCycle[e[1]] <= sigma[e[1]]
      BY <2>2, <2>3, <2>4, <2>5
         DEF IInv, EarliestLowerBound, Sorted, Answered, Scheduled
    <2>7. sigma[e[2]] <= latestCycle[e[2]]
      BY <2>2, <2>3, <2>4, <2>5
         DEF IInv, LatestUpperBound, RSorted, Answered, Scheduled
    <2>8. /\ earliestCycle[e[1]] \in Int /\ latestCycle[e[2]] \in Int
          /\ sigma[e[1]] \in Int /\ sigma[e[2]] \in Int
      BY <2>2, <2>3 DEF IInv, TypeOK
    <2>9. Bound(e) <= sigma[e[1]] - sigma[e[2]] + 1
      BY <2>6, <2>7, <2>8 DEF Bound
    <2> QED
      BY <2>1, <2>9
  <1> QED
    BY <1>1, ScheduleInvariant, PTL

(* The cycles are assigned once: no later call of calculateCycle moves an  *)
(* operation (the flag of DFG.cpp:384).                                    *)
THEOREM CyclesFrozenHolds == Spec => CyclesFrozen
  <1>1. IInv /\ [Next]_vars =>
           [cycleIsCalculated =>
              UNCHANGED <<earliestCycle, latestCycle, cycle, cycleIsCalculated>>]_vars
    <2> SUFFICES ASSUME IInv, [Next]_vars, cycleIsCalculated
                 PROVE  UNCHANGED <<earliestCycle, latestCycle, cycle, cycleIsCalculated>>
      OBVIOUS
    <2>1. pc \in {"idle", "recmii"}
      BY DEF IInv, PhaseInv
    <2> QED
      BY <2>1 DEF Next, calculateCycle, getRecMII, FirstCall, SortLevel,
         SortDone, RSortLevel, RSortDone, Forward, Backward, ForwardNext,
         ForwardDone, BackwardNext, BackwardDone, LaterCall, BoundEdge,
         Return, vars
  <1> QED
    BY <1>1, ScheduleInvariant, PTL DEF Spec, CyclesFrozen
=============================================================================
