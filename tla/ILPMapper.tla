----------------------------- MODULE ILPMapper -----------------------------
(***************************************************************************)
(* ILPMapper::mapII (src/src/mapper/ILPMapper.cpp): for one initiation     *)
(* interval it writes an integer program over (DFG edge, MRRG edge) pairs, *)
(* hands it to a solver and reads a mapping off the solution.              *)
(*                                                                         *)
(* The input is a Problem: the operations 0 .. n-1 in instruction order,   *)
(* their visible data edges and control edges, their scheduled cycle, the  *)
(* array and the II.  A row is one "exactly one of these variables"        *)
(* constraint; its variables are the MRRG edges from time row.from to time *)
(* row.to, so a solution picks one MRRG edge for each row.                 *)
(***************************************************************************)
EXTENDS MRRGGraph, Sequences, Order

CONSTANT Problems    \* inputs: [n, edges, ctrl, cycle, cgra, II]

(* edges has the visible data edges and, after them, the control edges, at *)
(* the positions ctrl; those leave branches, which produce no value.       *)
ASSUME ProblemsAssumption == \A p \in Problems :
    /\ p.n \in Nat \ {0} /\ p.II \in Nat \ {0}
    /\ Len(p.edges) \in Nat
    /\ p.edges \in [1 .. Len(p.edges) -> (0 .. p.n - 1) \X (0 .. p.n - 1)]
    /\ p.ctrl \subseteq DOMAIN p.edges
    /\ \A j \in p.ctrl, k \in DOMAIN p.edges \ p.ctrl : k < j /\ p.edges[j] # p.edges[k]
    /\ p.cycle \in [0 .. p.n - 1 -> Nat]
    /\ p.cgra.connections \subseteq p.cgra.PEs \X p.cgra.PEs

VARIABLES
    problem,   \* the input
    pc,
    node, at,  \* the operation, and the one of its edges, whose loop runs
    i,         \* the loop variable
    rows,      \* rows added so far, in order
    conts,     \* continuation constraints added so far
    sol,       \* sol[k]: the MRRG edge the solver picked for rows[k]
    mapping    \* route_map of the result: (ds, dd) -> sequence of MRRG edges

vars == <<problem, pc, node, at, i, rows, conts, sol, mapping>>

II == problem.II
Ops == 0 .. problem.n - 1
edges == problem.edges
Cycle(n) == problem.cycle[n]
isAnti(e) == e[2] <= e[1]
mrrg == MRRGEdges(problem.cgra, II)

Root == -1
RootEdge == 0        \* stands for the root edge of whatever operation
SrcOf(j) == IF j = RootEdge THEN Root ELSE edges[j][1]

(* getAntiEdgesTo returns every control edge, whatever its isAnti. *)
Recurrent(j) == j # RootEdge /\ (j \in problem.ctrl \/ isAnti(edges[j]))

(* getEdgesTo(d), or the root edge; getEdgesFrom(d, true, false). *)
InEdges(d) ==
    LET ies == {j \in DOMAIN edges : edges[j][2] = d /\ ~Recurrent(j)}
    IN  IF ies = {} THEN <<RootEdge>> ELSE InOrder(ies)
AntiEdges(d) == InOrder({j \in DOMAIN edges : edges[j][2] = d /\ Recurrent(j)})
OutEdges(d) == InOrder({j \in DOMAIN edges : edges[j][1] = d})

(* The loops of an operation, one for each of these edges: the loop        *)
(* variable runs from First until it equals Last.  The root edge gets one  *)
(* row only, the one that lands on the operation.                          *)
RowFirst(d, j) == IF j = RootEdge THEN Cycle(d) - 1 ELSE Cycle(edges[j][1])
RowLast(d, j) == Cycle(d) + IF Recurrent(j) THEN II ELSE 0

(* Mutant: the loop bound of the forward edges for all edges. *)
ContLastPlain(j) == Cycle(edges[j][2])

(* The end of the route is the destination's next iteration only if        *)
(* oe.isAnti.                                                              *)
ContFirst(j) == Cycle(edges[j][1]) + 1
ContLast(j) == Cycle(edges[j][2]) + IF isAnti(edges[j]) THEN II ELSE 0

Loops(phase, d) == IF phase = "rows" THEN InEdges(d) \o AntiEdges(d) ELSE OutEdges(d)
First(phase, d, j) == IF phase = "rows" THEN RowFirst(d, j) ELSE ContFirst(j)
Last(phase, d, j) == IF phase = "rows" THEN RowLast(d, j) ELSE ContLast(j)

edge == Loops(pc, node)[at]
last == Last(pc, node, edge)

Enter(phase, d, a) ==
    /\ pc' = phase /\ node' = d /\ at' = a
    /\ i' = IF a \in DOMAIN Loops(phase, d) THEN First(phase, d, Loops(phase, d)[a]) ELSE 0

Init ==
    /\ problem \in Problems
    /\ pc = "rows" /\ node = 0 /\ at = 1
    /\ i = First("rows", 0, Loops("rows", 0)[1])
    /\ rows = <<>> /\ conts = {} /\ sol = <<>> /\ mapping = <<>>
-----------------------------------------------------------------------------
(* A loop `for (i = first; i != last; i++)': past last it never ends.      *)
Running(phase) == pc = phase /\ at \in DOMAIN Loops(phase, node)
Over(phase) == pc = phase /\ at \notin DOMAIN Loops(phase, node)

(* Mutant: the landing time is not reduced modulo the II. *)
RowUnwrapped(j, d, t) ==
    [edge |-> j, ds |-> SrcOf(j), dd |-> d, i |-> t,
     from |-> IF j = RootEdge THEN -1 ELSE t % II, to |-> (t % II) + 1]

(* What the program has of a row is ds, dd and its variables, those of the *)
(* MRRG edges between the two times; edge and i tell who wrote it.         *)
Row(j, d, t) ==
    [edge |-> j, ds |-> SrcOf(j), dd |-> d, i |-> t,
     from |-> IF j = RootEdge THEN -1 ELSE t % II, to |-> (t + 1) % II]

RowStep ==
    /\ Running("rows") /\ i < last
    /\ rows' = Append(rows, Row(edge, node, i))
    /\ i' = i + 1
    /\ UNCHANGED <<problem, pc, node, at, conts, sol, mapping>>

RowLoopEnds ==
    /\ Running("rows") /\ i = last
    /\ Enter("rows", node, at + 1)
    /\ UNCHANGED <<problem, rows, conts, sol, mapping>>

RowsNextOp ==
    /\ Over("rows") /\ node + 1 \in Ops
    /\ Enter("rows", node + 1, 1)
    /\ UNCHANGED <<problem, rows, conts, sol, mapping>>

RowsDone ==
    /\ Over("rows") /\ node + 1 \notin Ops
    /\ Enter("cont", 0, 1)
    /\ UNCHANGED <<problem, rows, conts, sol, mapping>>

(* Whatever lands on the node of d at its own time must leave it along the *)
(* out-edge; whatever the out-edge lands on at time t must leave it again. *)
OwnCont(j) == [ds |-> edges[j][1], dd |-> edges[j][2], hop |-> FALSE,
               at |-> Cycle(edges[j][1]) % II]
HopCont(j, t) == [ds |-> edges[j][1], dd |-> edges[j][2], hop |-> TRUE, at |-> t % II]

ContStep ==
    /\ Running("cont") /\ i < last
    /\ conts' = conts \cup {HopCont(edge, i)}
    /\ i' = i + 1
    /\ UNCHANGED <<problem, pc, node, at, rows, sol, mapping>>

(* Mutant: the constraint at the operation's own node is forgotten. *)
ContLoopEndsOpen ==
    /\ Running("cont") /\ i = last
    /\ Enter("cont", node, at + 1)
    /\ UNCHANGED <<problem, conts, rows, sol, mapping>>

ContLoopEnds ==
    /\ Running("cont") /\ i = last
    /\ conts' = conts \cup {OwnCont(edge)}
    /\ Enter("cont", node, at + 1)
    /\ UNCHANGED <<problem, rows, sol, mapping>>

ContsNextOp ==
    /\ Over("cont") /\ node + 1 \in Ops
    /\ Enter("cont", node + 1, 1)
    /\ UNCHANGED <<problem, rows, conts, sol, mapping>>

ContsDone ==
    /\ Over("cont") /\ node + 1 \notin Ops
    /\ pc' = "solve"
    /\ UNCHANGED <<problem, node, at, i, rows, conts, sol, mapping>>

(* The loop variable has missed its bound: i != last stays true until the  *)
(* int wraps around.  The row loop adds variables and a row at every turn. *)
RowsDiverge ==
    /\ Running("rows") /\ i > last
    /\ pc' = "diverged"
    /\ UNCHANGED <<problem, node, at, i, rows, conts, sol, mapping>>

(* The continuation loop adds constraints only for variables of the edge,  *)
(* and has none to add when the row loop of the edge ended without a turn. *)
ContDiverge ==
    /\ Running("cont") /\ i > last
    /\ pc' = "diverged"
    /\ UNCHANGED <<problem, node, at, i, rows, conts, sol, mapping>>
-----------------------------------------------------------------------------
(* The integer program, as predicates of the edges picked for the rows.    *)
Lands(s, k) == s[k][2]
Leaves(s, k) == s[k][1]
Into(s, dd, t) == {k \in DOMAIN s : rows[k].dd = dd /\ rows[k].to = t}
Sources(dd, t) == {rows[k].ds : k \in Into(rows, dd, t)}
FirstSource(dd, t) ==
    CHOOSE ds \in Sources(dd, t) : \A o \in Sources(dd, t) : ds <= o

(* Number of variables ds -> dd that land on node m. *)
Count(s, ds, dd, m) ==
    Cardinality({k \in Into(s, dd, TimeOf(m)) : rows[k].ds = ds /\ Lands(s, k) = m})

(* Mutant: only the landings of the operations are exclusive. *)
ExclusiveOps(s) ==
    \A k, l \in DOMAIN s :
        /\ k # l /\ rows[k].dd # rows[l].dd
        /\ rows[k].to = Cycle(rows[k].dd) % II /\ rows[l].to = Cycle(rows[l].dd) % II
        => Lands(s, k) # Lands(s, l)

(* One MRRG node is mapped to one DFG node: at most one of the variables   *)
(* that land on it.  Those of one source stand for all: Consistent makes   *)
(* the others land on the same nodes.                                      *)
Counts(k) == rows[k].ds = FirstSource(rows[k].dd, rows[k].to)
Exclusive(s) ==
    \A k, l \in DOMAIN s :
        Counts(k) /\ Counts(l) /\ Lands(s, k) = Lands(s, l) => k = l

(* Mutant: the row is at least 0, not exactly 0. *)
ConsistentAtLeast(s) ==
    \A m \in {Lands(s, k) : k \in DOMAIN s} : \A dd \in Ops :
        \A ds \in Sources(dd, TimeOf(m)) :
            Count(s, ds, dd, m) >= Count(s, FirstSource(dd, TimeOf(m)), dd, m)

(* Mutant: the rows are written for the operation's own time only. *)
ConsistentOps(s) ==
    \A k \in DOMAIN s :
        LET dd == rows[k].dd
            m == Lands(s, k)
        IN  TimeOf(m) = Cycle(dd) % II =>
              \A ds \in Sources(dd, TimeOf(m)) :
                Count(s, ds, dd, m) = Count(s, rows[k].ds, dd, m)

(* All the sources of an operation land on the same node. *)
Consistent(s) ==
    \A k \in DOMAIN s :
        LET dd == rows[k].dd
            m == Lands(s, k)
        IN  \A ds \in Sources(dd, TimeOf(m)) :
                Count(s, ds, dd, m) = Count(s, rows[k].ds, dd, m)

(* What lands leaves. *)
Continued(s) ==
    \A c \in conts : \A k \in DOMAIN s :
        /\ rows[k].dd = IF c.hop THEN c.dd ELSE c.ds
        /\ c.hop => rows[k].ds = c.ds
        /\ rows[k].to = c.at
        => \E l \in DOMAIN s : /\ rows[l].ds = c.ds /\ rows[l].dd = c.dd
                               /\ Leaves(s, l) = Lands(s, k)

(* The solver: it picks an edge row by row (an exclusion that is broken    *)
(* cannot be mended) or gives up, for whatever reason, at any time.        *)
Candidates(row) == getEdgesOfT(mrrg, row.from, row.to)

Pick ==
    /\ pc = "solve" /\ Len(sol) < Len(rows)
    /\ \E e \in Candidates(rows[Len(sol) + 1]) : sol' = Append(sol, e)
    /\ Exclusive(sol')
    /\ UNCHANGED <<problem, pc, node, at, i, rows, conts, mapping>>

NotSolved ==
    /\ pc = "solve"
    /\ pc' = "done"
    /\ UNCHANGED <<problem, node, at, i, rows, conts, sol, mapping>>

(* The routes, hop by hop in the order the variables were created. *)
RouteOf(key) ==
    LET of == InOrder({k \in DOMAIN rows : <<rows[k].ds, rows[k].dd>> = key})
    IN  [j \in DOMAIN of |-> sol[of[j]]]

Solved ==
    /\ pc = "solve" /\ Len(sol) = Len(rows)
    /\ Consistent(sol) /\ Continued(sol)
    /\ mapping' = [key \in {<<rows[k].ds, rows[k].dd>> : k \in DOMAIN rows}
                       |-> RouteOf(key)]
    /\ pc' = "done"
    /\ UNCHANGED <<problem, node, at, i, rows, conts, sol>>

Next ==
    \/ RowStep \/ RowLoopEnds \/ RowsNextOp \/ RowsDone
    \/ ContStep \/ ContLoopEnds \/ ContsNextOp \/ ContsDone
    \/ RowsDiverge \/ ContDiverge
    \/ Pick \/ NotSolved \/ Solved

Spec == Init /\ [][Next]_vars
(* The loops run on; the solver, if it does not answer, gives up.          *)
FairSpec == Spec /\ WF_vars(Next)
-----------------------------------------------------------------------------
Returned == pc = "done"
Mapped == Returned /\ mapping # <<>>
Edges == {edges[j] : j \in DOMAIN edges}

(* The hops of a route, as the row loops see them. *)
Span(j) == RowLast(edges[j][2], j) - RowFirst(edges[j][2], j)

TypeOK ==
    /\ problem \in Problems
    /\ pc \in {"rows", "cont", "solve", "done", "diverged"}
    /\ i \in Int
    /\ \A k \in DOMAIN rows : /\ rows[k].ds \in Ops \cup {Root}
                              /\ rows[k].dd \in Ops
                              /\ rows[k].from \in -1 .. II - 1
                              /\ rows[k].to \in 0 .. II - 1
    /\ Len(sol) <= Len(rows)
    /\ \A k \in DOMAIN sol : sol[k] \in mrrg
    /\ DOMAIN mapping \subseteq (Ops \cup {Root}) \X Ops

(* The mapping read off a solution is a modulo mapping: one functional     *)
(* unit for each operation, unbroken routes of the right length, and no    *)
(* node shared by the routes of two operations.                            *)
PlaceOf(d) == LET route == mapping[<<SrcOf(InEdges(d)[1]), d>>]
              IN  route[Len(route)][2]

Abstract == INSTANCE ModuloMapping WITH
    outcome <- IF Mapped THEN "mapped" ELSE IF Returned THEN "failed" ELSE "none",
    place <- IF Mapped THEN [d \in Ops |-> PlaceOf(d)] ELSE <<>>,
    route <- IF Mapped THEN [e \in Edges |-> mapping[e]] ELSE <<>>

ImplementsModuloMapping == Abstract!Spec

(* A route never spans more cycles than the II: the second visit of a time *)
(* slot breaks the row sums the other sources of the operation must match. *)
(* So an edge with a long span, and a recurrence edge whose destination is *)
(* scheduled after its source, is only mapped at a large enough II, or     *)
(* never.  The exception is a forward control edge to an operation all of  *)
(* whose operands are doubled, and so visit two nodes as well.             *)
Doubled(e) == \E j, k \in DOMAIN edges : j # k /\ edges[j] = e /\ edges[k] = e
OperandsDoubled(d) ==
    LET ies == InEdges(d)
    IN  \A k \in DOMAIN ies : ies[k] # RootEdge /\ Doubled(edges[ies[k]])
SpanWithinII ==
    Mapped => \A j \in DOMAIN edges :
        \/ Span(j) <= II
        \/ j \in problem.ctrl /\ ~isAnti(edges[j]) /\ OperandsDoubled(edges[j][2])

(* parseCall adds every value operand twice.  The two rows of a doubled    *)
(* edge land on two units, and both have to feed every use of the result:  *)
(* it is mapped only if each use of the result is doubled as well.         *)
DoublesGoOn ==
    Mapped => \A j, k \in DOMAIN edges \ problem.ctrl :
        Doubled(edges[j]) /\ edges[k][1] = edges[j][2] => Doubled(edges[k])

(* mapII returns when the II exceeds every recurrence distance and all     *)
(* control edges are anti edges.                                           *)
Covered == \A j \in DOMAIN edges :
              Span(j) > 0 /\ (j \in problem.ctrl => isAnti(edges[j]))
CoveredProblemsReturn == Covered ~> Returned

(* ILPMapper::map promises to end at the time limit or with a mapping      *)
(* (ILPMapper.cpp:80), so every mapII it calls has to return.              *)
AlwaysReturns == <>Returned

(* "Being mapped and only mapped to one place" (ILPMapper.cpp:147): an     *)
(* operation occupies one node at its time.                                *)
Landings(d) == {e[2] : e \in UNION {{mapping[key][Len(mapping[key])],
                                      mapping[key][1]} : key \in
                       {q \in DOMAIN mapping : q[2] = d}}}
OnePlace ==
    Mapped => \A d \in Ops :
        Cardinality({m \in Landings(d) : TimeOf(m) = Cycle(d) % II}) = 1

(* The consistency rows meant for the place of an operation bind its       *)
(* operands on the whole way: two operands under way at the same time slot *)
(* are on the same node, which then carries two values.                    *)
Hops(q) == {mapping[q][k][2] : k \in DOMAIN mapping[q]}
At(q, t) == {m \in Hops(q) : TimeOf(m) = t}
OperandsTravelTogether ==
    Mapped => \A q, r \in DOMAIN mapping : q[2] = r[2] =>
        \A t \in 0 .. II - 1 : At(q, t) # {} /\ At(r, t) # {} => At(q, t) = At(r, t)
=============================================================================
