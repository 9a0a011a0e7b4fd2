------------------------------ MODULE MRRGStore ------------------------------
(***************************************************************************)
(* The life of Mapping objects, each with an MRRG of its own: made,        *)
(* extended by lookups, filled, copied, assigned and destroyed             *)
(* (src/src/mapper/Mapping.cpp, MRRG.cpp).  The mappers return mappings by *)
(* value, so every result passes through operator= before it is read.      *)
(*                                                                         *)
(* A pointer into a graph is [at, n]: the object that owns the node, and   *)
(* its position there.                                                     *)
(***************************************************************************)
EXTENDS MRRGObject

CONSTANTS Objects,     \* names of the mappings of the client
          Ops, Edges,  \* of the data-flow graph
          Array,       \* a CGRA
          IIs,
          MaxT,        \* bound: no lookup beyond this time
          MaxID,       \* bound: no extension from a counter above this
          MaxRoute,    \* bound: hops stored for an edge
          UsedPEs      \* bound: units the client places and routes on

ASSUME StoreAssumption ==
    /\ Array.PEs \in (SUBSET Nat) \ {{}} /\ IsFiniteSet(Array.PEs)
    /\ Array.connections \subseteq Array.PEs \X Array.PEs
    /\ IIs \subseteq Nat \ {0}
    /\ {MaxT, MaxID, MaxRoute} \subseteq Nat

VARIABLES
    store,     \* object -> its members
    call,      \* the extension that runs, with the object it is for
    stopped,   \* the program has crashed or called exit
    last       \* history: the copy made by the last step, if it was one

vars == <<store, call, stopped, last>>

Dead == [live |-> FALSE]
Idle == [pc |-> "idle"]
New(g) == [live |-> TRUE, mrrg |-> g, mapping |-> <<>>, route_map |-> <<>>]
Live == {m \in Objects : store[m].live}
NoCopy == [to |-> {}, from |-> {}]

With(f, x, y) == [z \in DOMAIN f \cup {x} |-> IF z = x THEN y ELSE f[z]]
EdgeValue(m, g, k) == [at |-> m, src |-> g.edges[k][1], des |-> g.edges[k][2]]

Init ==
    /\ store = [m \in Objects |-> Dead]
    /\ call = Idle
    /\ stopped = FALSE
    /\ last = NoCopy

Becomes(m, value) ==
    /\ store' = [store EXCEPT ![m] = value]
    /\ UNCHANGED <<call, stopped>>
    /\ last' = NoCopy

Extends(m, g, T) ==
    /\ call' = Enter(m, g, T)
    /\ UNCHANGED <<store, stopped>>
    /\ last' = NoCopy
-----------------------------------------------------------------------------
(* Mapping() *)
MakeNull(m) == ~store[m].live /\ Becomes(m, New(EmptyMRRG))

(* Mapping(dfg, MRRG(cgra, II)) *)
Make(m) ==
    \E II \in IIs : ~store[m].live /\ Extends(m, NewMRRG(Array, II), II)

Destroy(m) == store[m].live /\ Becomes(m, Dead)

(* A node is looked up behind the end of the graph. *)
Lookup(m) ==
    \E T \in 1 .. MaxT :
        /\ store[m].live /\ store[m].mrrg.nodes # <<>>
        /\ T > store[m].mrrg.TT /\ store[m].mrrg.node_counter <= MaxID
        /\ Extends(m, store[m].mrrg, T)

(* The iterations of an extension.  Nothing else runs until it returns.    *)
BuildUnit ==
    /\ call.pc = "units"
    /\ call' = UnitStep(call)
    /\ UNCHANGED <<store, stopped, last>>

BuildConnection ==
    /\ call.pc = "connections" /\ ~Returns(call)
    /\ call' = ConnectionStep(call)
    /\ UNCHANGED <<store, stopped, last>>

(* The end of an extension: a new graph is assigned to that of a new       *)
(* mapping, any other is that of its mapping.                              *)
Return ==
    LET m == call.m
        g == Close(call.g, call.T)
    IN  /\ call.pc = "connections" /\ Returns(call)
        /\ store' = [store EXCEPT ![m] =
              IF @.live THEN [@ EXCEPT !.mrrg = g] ELSE New(Assign(EmptyMRRG, g, NULL))]
        /\ call' = Idle
        /\ UNCHANGED <<stopped, last>>

(* mapping[dfgnode] = mrrgnode.  A mapper fills the placement (random,     *)
(* exhaustive) or the routes (ILP), never both.                            *)
Place(m) ==
    \E d \in Ops :
        /\ store[m].live /\ store[m].route_map = <<>>
        /\ \E k \in DOMAIN store[m].mrrg.nodes :
              /\ store[m].mrrg.nodes[k].type = "FUNode"
              /\ store[m].mrrg.nodes[k].pe \in UsedPEs
              /\ Becomes(m, [store[m] EXCEPT !.mapping = With(@, d, [at |-> m, n |-> k])])

(* mapping[dfgedge].push_back(mrrg.getEdge(ms, md)); only the ILP mapper   *)
(* stores routes, in a graph no lookup has extended.                       *)
Push(m) ==
    \E e \in Edges :
        /\ store[m].live /\ ~HasStray(store[m].mrrg) /\ store[m].mapping = <<>>
        /\ LET g == store[m].mrrg
               r == IF e \in DOMAIN store[m].route_map THEN store[m].route_map[e] ELSE <<>>
           IN  \E k \in DOMAIN g.edges :
                  /\ Len(r) < MaxRoute
                  /\ {g.nodes[p].pe : p \in Range(g.edges[k])} \subseteq UsedPEs
                  /\ k = EdgeOfIDs(g, g.nodes[g.edges[k][1]].ID, g.nodes[g.edges[k][2]].ID)
                  /\ Becomes(m, [store[m] EXCEPT
                        !.route_map = With(@, e, Append(r, EdgeValue(m, g, k)))])

(* clear: the placement, not the routes. *)
Clear(m) ==
    /\ store[m].live
    /\ Becomes(m, [store[m] EXCEPT !.mapping = <<>>])
-----------------------------------------------------------------------------
(* Mutant: the nodes and edges of the other object are kept. *)
CopyShallow(m, old, other, seen) ==
    [New(Assign(old, other.mrrg, seen)) EXCEPT
        !.mapping = other.mapping, !.route_map = other.route_map]

(* Mutant: a route is looked up by the PEs of its ends. *)
CopyByPE(m, old, other, seen) ==
    LET g == Assign(old, other.mrrg, seen)
        pe(p) == g.nodes[p].pe
        found(e) == CHOOSE k \in DOMAIN g.edges : /\ pe(g.edges[k][1]) = pe(e.src)
                                                  /\ pe(g.edges[k][2]) = pe(e.des)
    IN  [New(g) EXCEPT
           !.mapping = [d \in DOMAIN other.mapping |->
               [at |-> m, n |-> Equal(g, other.mrrg.nodes[other.mapping[d].n])]],
           !.route_map = [e \in DOMAIN other.route_map |->
               [h \in DOMAIN other.route_map[e] |->
                   EdgeValue(m, g, found(other.route_map[e][h]))]]]

(* operator=(other) on an object whose graph is old: the graph, then every *)
(* node by value and every edge of a route by the IDs of its ends.         *)
CopyOf(m, old, other, seen) ==
    LET g == Assign(old, other.mrrg, seen)
        id(p) == other.mrrg.nodes[p].ID
    IN  [New(g) EXCEPT
           !.mapping = [d \in DOMAIN other.mapping |->
               [at |-> m, n |-> Equal(g, other.mrrg.nodes[other.mapping[d].n])]],
           !.route_map = [e \in DOMAIN other.route_map |->
               [h \in DOMAIN other.route_map[e] |->
                   EdgeValue(m, g, EdgeOfIDs(g, id(other.route_map[e][h].src),
                                                id(other.route_map[e][h].des)))]]]

(* What the program may read where an extension left a pointer             *)
(* uninitialized: the root, or something equal to no node.                 *)
Reads(g) == IF HasStray(g) THEN {1, NULL} ELSE {NULL}

(* Copying reads the source of every edge: one that is not a node may stop *)
(* the program.  The search of an operation compares members of DFGNode    *)
(* that no constructor sets: a floatVal that is not a number makes it fail.*)
MayStop(other) == HasStray(other.mrrg) \/ other.mapping # <<>>
MustStop(other) == \E k \in DOMAIN other.mrrg.edges : other.mrrg.edges[k][1] = NULL

(* getEdge reads edges up to the one it looks for. *)
RouteLost(g, other) ==
    \E e \in DOMAIN other.route_map : \E h \in DOMAIN other.route_map[e] :
        LET id(p) == other.mrrg.nodes[p].ID
            r == other.route_map[e][h]
        IN  \E k \in DOMAIN g.edges :
               /\ g.edges[k][1] = NULL
               /\ ~\E j \in 1 .. k - 1 : /\ g.edges[j][1] # NULL
                                         /\ g.nodes[g.edges[j][1]].ID = id(r.src)
                                         /\ g.nodes[g.edges[j][2]].ID = id(r.des)

CopyTo(m, old, n) ==
    LET other == store[n]
    IN  \/ /\ MayStop(other) \/ MustStop(other)
           /\ stopped' = TRUE
           /\ last' = [to |-> {}, from |-> {n}]
           /\ UNCHANGED <<store, call>>
        \/ /\ ~MustStop(other)
           /\ \E seen \in Reads(other.mrrg) :
                 /\ ~RouteLost(Assign(old, other.mrrg, seen), other)
                 /\ store' = [store EXCEPT ![m] = CopyOf(m, old, other, seen)]
           /\ UNCHANGED <<call, stopped>>
           /\ last' = [to |-> {m}, from |-> {n}]

(* Mapping(other) *)
CopyConstruct(m, n) ==
    /\ ~store[m].live /\ store[n].live
    /\ CopyTo(m, EmptyMRRG, n)

(* m = n *)
AssignMapping(m, n) ==
    /\ m # n /\ store[m].live /\ store[n].live
    /\ CopyTo(m, store[m].mrrg, n)

Step(m) == \/ MakeNull(m) \/ Make(m) \/ Destroy(m) \/ Lookup(m)
           \/ Place(m) \/ Push(m) \/ Clear(m)

Client ==
    /\ call = Idle
    /\ \E m \in Objects :
          \/ Step(m)
          \/ \E n \in Objects : CopyConstruct(m, n) \/ AssignMapping(m, n)

Next == ~stopped /\ (Client \/ BuildUnit \/ BuildConnection \/ Return)

Spec == Init /\ [][Next]_vars
-----------------------------------------------------------------------------
IDsDistinct(g) == \A j, k \in DOMAIN g.nodes : g.nodes[j].ID = g.nodes[k].ID => j = k

Pointer(m) == [at : {m}, n : DOMAIN store[m].mrrg.nodes]

(* A graph as MRRGGraph has it: pairs of <<PE, time>>, without the root.   *)
Where(g, p) == <<g.nodes[p].pe, g.nodes[p].T>>
Graph(g) == {<<Where(g, e[1]), Where(g, e[2])>> :
                e \in {e \in Range(g.edges) : e[1] > 1}}
G == INSTANCE MRRGGraph

TypeOK ==
    /\ stopped \in BOOLEAN
    /\ \A m \in Live :
          LET g == store[m].mrrg
          IN  /\ \A k \in DOMAIN g.edges :
                    g.edges[k] \in (Stray .. Len(g.nodes)) \X (1 .. Len(g.nodes))
              /\ DOMAIN store[m].mapping \subseteq Ops
              /\ DOMAIN store[m].route_map \subseteq Edges

(* However often it was extended, through lookups that enter the extension *)
(* again, and copied, a graph has one node for each unit and cycle up to   *)
(* TT, one root, and the edges of MRRGGraph.                               *)
GraphIsMRRG ==
    \A m \in Live :
        LET g == store[m].mrrg
            fus == {k \in DOMAIN g.nodes : g.nodes[k].type = "FUNode"}
        IN  g.nodes # <<>> =>
               /\ {Where(g, k) : k \in fus} = G!FUsBetween(Array, 0, g.TT)
               /\ \A j, k \in fus : Where(g, j) = Where(g, k) => j = k
               /\ DOMAIN g.nodes \ fus = {1}
               /\ Graph(g) = {e \in G!MRRGEdges(Array, g.II) \cup
                                (IF g.TT = g.II THEN {}
                                 ELSE G!AddedEdges(Array, G!RootNode, g.II + 1, g.TT)) :
                                 e[1] # G!RootNode}

(* The nodes and routes of a mapping belong to its own graph: they stay    *)
(* valid when the mapping it was copied from is destroyed.                 *)
OwnPointers ==
    \A m \in Live :
        /\ \A d \in DOMAIN store[m].mapping : store[m].mapping[d] \in Pointer(m)
        /\ \A e \in DOMAIN store[m].route_map : \A h \in DOMAIN store[m].route_map[e] :
              /\ store[m].route_map[e][h].at = m
              /\ <<store[m].route_map[e][h].src, store[m].route_map[e][h].des>>
                     \in Range(store[m].mrrg.edges)

(* What a mapping says: units and cycles. *)
Places(m) == [d \in DOMAIN store[m].mapping |->
                Where(store[m].mrrg, store[m].mapping[d].n)]
Routes(m) == [e \in DOMAIN store[m].route_map |->
                [h \in DOMAIN store[m].route_map[e] |->
                    <<Where(store[m].mrrg, store[m].route_map[e][h].src),
                      Where(store[m].mrrg, store[m].route_map[e][h].des)>>]]

(* A copy says what the original says.  Routes are found again by IDs      *)
(* alone; the counter of a copied graph starts over, so that after an      *)
(* extension IDs do not tell nodes apart and a route may become another.   *)
CopiesAgree ==
    \A m \in last.to, n \in last.from :
        /\ Places(m) = Places(n)
        /\ IDsDistinct(store[n].mrrg) => Routes(m) = Routes(n)

(* The mappings the ILP mapper returns, routes in a graph no longer than   *)
(* its interval, are copied without reading anything uninitialized: only   *)
(* an extension, which outlives the copy in TT, leaves such pointers.      *)
RoutesCopySafely ==
    stopped => \A n \in last.from :
        store[n].mrrg.TT > store[n].mrrg.II \/ store[n].mapping # <<>>
=============================================================================
