--------------------------- MODULE ModuloMapping ---------------------------
(***************************************************************************)
(* What a mapper promises for one initiation interval: it gives up, or it  *)
(* returns a modulo mapping of the scheduled graph onto the array.         *)
(***************************************************************************)
EXTENDS MRRGGraph, Sequences

VARIABLES problem,   \* graph, cycles, array and II, as in ILPMapper
          outcome,   \* "none", "failed" or "mapped"
          place,     \* operation -> node
          route      \* edge -> sequence of MRRG edges

vars == <<problem, outcome, place, route>>

Ops == 0 .. problem.n - 1
Slot(n) == problem.cycle[n] % problem.II
Hops(e, r) == {r[k][2] : k \in DOMAIN r}
NextIteration(e) ==
    e[2] <= e[1] \/ \E j \in problem.ctrl : problem.edges[j] = e

(* A functional unit of the array at the operation's own time. *)
Placed(n) == place[n] \in problem.cgra.PEs \X {Slot(n)}

(* A walk in the array, one cycle a hop, from the source to the use of its *)
(* value.                                                                  *)
Routed(e) ==
    LET r == route[e]
        span == problem.cycle[e[2]] - problem.cycle[e[1]]
                + (IF NextIteration(e) THEN problem.II ELSE 0)
    IN  /\ Len(r) = span
        /\ r[1][1] = place[e[1]]
        /\ r[span][2] = place[e[2]]
        /\ \A k \in 1 .. span :
              /\ <<PEOf(r[k][1]), PEOf(r[k][2])>> \in Links(problem.cgra)
              /\ TimeOf(r[k][2]) = (TimeOf(r[k][1]) + 1) % problem.II
              /\ k < span => r[k][2] = r[k + 1][1]

(* A node works for one operation only: it computes it or passes it an     *)
(* operand.                                                                *)
Uses(n) == {place[n]} \cup
           UNION {Hops(e, route[e]) : e \in {e \in DOMAIN route : e[2] = n}}
Disjoint == \A n, o \in Ops : n # o => Uses(n) \cap Uses(o) = {}

LegalMapping ==
    /\ DOMAIN place = Ops
    /\ \A n \in Ops : Placed(n)
    /\ \A e \in DOMAIN route : Routed(e)
    /\ Disjoint

Init == outcome = "none" /\ place = <<>> /\ route = <<>>

Fail == outcome = "none" /\ outcome' = "failed" /\ UNCHANGED <<problem, place, route>>

(* Nothing is promised of a graph with two edges between two operations:   *)
(* the mapper tells them apart nowhere.                                    *)
EdgesOnce == \A j, k \in DOMAIN problem.edges :
                problem.edges[j] = problem.edges[k] => j = k

Map == /\ outcome = "none" /\ outcome' = "mapped"
       /\ EdgesOnce => LegalMapping'
       /\ UNCHANGED problem

Next == Fail \/ Map

Spec == Init /\ [][Next]_vars
=============================================================================
