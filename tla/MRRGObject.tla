----------------------------- MODULE MRRGObject -----------------------------
(***************************************************************************)
(* One MRRG object (src/src/mapper/MRRG.cpp): its vectors of nodes and     *)
(* edges, its counter and how lookups, extensions and assignments change   *)
(* them.  MRRGGraph has the same graph as a set of edges; here a node has  *)
(* an ID and a position in nodes, and a pointer is such a position.        *)
(*                                                                         *)
(* The IDs of edges are left out: the order in which the arguments of new  *)
(* MRRGEdge are evaluated is not specified, and only the dot file uses     *)
(* them.  mux_allow and occupied keep their first value for ever.          *)
(***************************************************************************)
EXTENDS CGRA, Order, SequencesExt

NULL == 0
Stray == -1     \* an uninitialized MRRGNode*

Node(id, type, pe, t) == [ID |-> id, type |-> type, pe |-> pe, T |-> t]
RootOf == Node(-1, "ROOTNode", 0, -1)      \* PE() is zero-initialized

(* The vectors PEs and connections, in the order init2dmesh fills them:    *)
(* with each PE its connections to the earlier ones, in both directions.   *)
PEsOf(cgra) == ListedBy(cgra.PEs, {p \in cgra.PEs \X cgra.PEs : p[1] < p[2]})

Later(c) == IF c[1] < c[2] THEN c[2] ELSE c[1]
Earlier(c) == IF c[1] < c[2] THEN c[1] ELSE c[2]
Before(c, d) ==
    \/ Later(c) < Later(d)
    \/ Later(c) = Later(d) /\ Earlier(c) < Earlier(d)
    \/ Later(c) = Later(d) /\ Earlier(c) = Earlier(d) /\ c[1] < d[1]
ConnectionsOf(cgra) ==
    ListedBy(cgra.connections,
             {p \in cgra.connections \X cgra.connections : Before(p[1], p[2])})

(* MRRG() *)
EmptyMRRG ==
    [cgra |-> [PEs |-> {}, connections |-> {}, adjList |-> {}], II |-> 0, TT |-> 0,
     nodes |-> <<>>, edges |-> <<>>, node_counter |-> 0]
-----------------------------------------------------------------------------
(* The loop of getNodeByDetial; NULL when there is no such node. *)
FU(g, pe, t) ==
    SelectInSeq(g.nodes, LAMBDA n : n.type = "FUNode" /\ n.pe = pe /\ n.T = t)

AddNode(g, pe, t) ==
    [g EXCEPT !.nodes = Append(@, Node(g.node_counter, "FUNode", pe, t)),
              !.node_counter = @ + 1]
AddEdge(g, src, des) == [g EXCEPT !.edges = Append(@, <<src, des>>)]

(* The closing edges T-1 -> 0, and the end of extendGraphUntil(T).  The     *)
(* lookups find their nodes: TT >= T-1 by now.                             *)
Closing(g, pairs, T) ==
    [k \in DOMAIN pairs |-> <<FU(g, pairs[k][1], T - 1), FU(g, pairs[k][2], 0)>>]

Close(g, T) ==
    LET stays == [k \in DOMAIN PEsOf(g.cgra) |-> <<PEsOf(g.cgra)[k], PEsOf(g.cgra)[k]>>]
    IN  [g EXCEPT !.edges = @ \o Closing(g, stays, T) \o Closing(g, ConnectionsOf(g.cgra), T),
                  !.TT = T]

(* getNodeByDetial(FUNode, pe, t) from within extendGraphUntil: TT is not  *)
(* set yet, so a lookup behind it enters extendGraphUntil(t) again.  All   *)
(* nodes it would add exist (startT > t), and it adds closing edges only.  *)
Reenter(g, t) == IF t > g.TT THEN Close(g, t) ELSE g

(* The node of PE pe at time t, with the edges from the root and from the  *)
(* unit's last cycle.                                                      *)
AddUnit(g, root, pe, t) ==
    LET added == AddNode(g, pe, t)
        new == Len(added.nodes)
        rooted == AddEdge(added, root, new)
        entered == Reenter(rooted, t - 1)
    IN  IF t = 0 THEN rooted ELSE AddEdge(entered, FU(entered, pe, t - 1), new)

AddConnection(g, c, t) ==
    LET entered == Reenter(g, t)
    IN  IF t = 0 THEN g ELSE AddEdge(entered, FU(entered, c[1], t - 1), FU(entered, c[2], t))

(* Mutant: the last cycle is built once more. *)
startTAgain(g) == CHOOSE t \in {0} \cup {n.T : n \in Range(g.nodes)} :
                 \A n \in Range(g.nodes) : n.T <= t

startT(g) == CHOOSE t \in {0} \cup {n.T + 1 : n \in Range(g.nodes)} :
                 \A n \in Range(g.nodes) : n.T + 1 <= t

(* Mutant: the root is not remembered. *)
rootnodeForgotten(g, from) == Stray

(* rootnode is set when the root is made, and uninitialized in every later *)
(* call.                                                                   *)
rootnode(g, from) == IF from = 0 THEN Len(g.nodes) + 1 ELSE Stray

(* A call of extendGraphUntil(T) that has not returned: for which object,  *)
(* its graph, its locals and its place, the k-th PE at time t in the loop  *)
(* over the units, time t for the k-th connection in the loop over those.  *)
Enter(m, g, T) ==
    LET from == startT(g)
    IN  [m |-> m, pc |-> "units", k |-> 1, t |-> from, startT |-> from, T |-> T,
         rootnode |-> rootnode(g, from),
         g |-> IF from = 0 THEN [g EXCEPT !.nodes = Append(@, RootOf)] ELSE g]

UnitStep(c) ==
    LET next == IF c.k < Len(PEsOf(c.g.cgra)) THEN [c EXCEPT !.k = @ + 1]
                ELSE IF c.t < c.T THEN [c EXCEPT !.k = 1, !.t = @ + 1]
                ELSE [c EXCEPT !.pc = "connections", !.k = 1, !.t = c.startT]
    IN  [next EXCEPT !.g = AddUnit(@, c.rootnode, PEsOf(@.cgra)[c.k], c.t)]

ConnectionStep(c) ==
    LET next == IF c.t < c.T THEN [c EXCEPT !.t = @ + 1]
                ELSE [c EXCEPT !.k = @ + 1, !.t = c.startT]
    IN  [next EXCEPT !.g = AddConnection(@, ConnectionsOf(@.cgra)[c.k], c.t)]

Returns(c) == c.pc = "connections" /\ c.k > Len(ConnectionsOf(c.g.cgra))

(* MRRG(cgra, II) before it extends the graph until II. *)
NewMRRG(cgra, II) == [EmptyMRRG EXCEPT !.cgra = cgra, !.II = II, !.TT = II]
-----------------------------------------------------------------------------
(* operator[](MRRGNode): the first node equal to n. *)
Equal(g, n) == SelectInSeq(g.nodes, LAMBDA m : m = n)

(* getEdge(srcID, desID): the first edge between nodes of these IDs. *)
EdgeOfIDs(g, s, d) ==
    SelectInSeq(g.edges, LAMBDA e : /\ e[1] > NULL
                                 /\ g.nodes[e[1]].ID = s /\ g.nodes[e[2]].ID = d)

(* Mutant: the old edges are not removed. *)
AssignAppends(g, other, seen) ==
    LET copied == [g EXCEPT !.cgra = other.cgra, !.II = other.II, !.TT = other.TT,
                            !.nodes = other.nodes]
        at(p) == IF p < 1 THEN seen ELSE Equal(copied, other.nodes[p])
    IN  [copied EXCEPT !.edges = @ \o
            [k \in DOMAIN other.edges |-> <<at(other.edges[k][1]), at(other.edges[k][2])>>]]

(* g = other: nodes by value, the ends of the edges looked up again, the   *)
(* counter as it was.  seen is what the lookup makes of an uninitialized   *)
(* pointer.                                                                *)
Assign(g, other, seen) ==
    LET copied == [g EXCEPT !.cgra = other.cgra, !.II = other.II, !.TT = other.TT,
                            !.nodes = other.nodes]
        at(p) == IF p < 1 THEN seen ELSE Equal(copied, other.nodes[p])
    IN  [copied EXCEPT !.edges =
            [k \in DOMAIN other.edges |-> <<at(other.edges[k][1]), at(other.edges[k][2])>>]]

HasStray(g) == \E k \in DOMAIN g.edges : g.edges[k][1] < 1
=============================================================================
