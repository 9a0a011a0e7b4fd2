-------------------------- MODULE MRRGStoreProofs --------------------------
(***************************************************************************)
(* The proofs about MRRGStore.  A graph is described by the units it has a *)
(* node for and by its edges as pairs of units; every iteration of an      *)
(* extension adds one unit or one edge to this description, and copying    *)
(* keeps it.                                                               *)
(***************************************************************************)
EXTENDS MRRGStore, OrderProofs, SequenceTheorems

PEVector == PEsOf(Array)
Wires == ConnectionsOf(Array)
AllUnits(T) == Array.PEs \X (0 .. T)

(* What is in the vectors of a graph. *)
Nodes == [ID : Int, type : {"ROOTNode", "FUNode"}, pe : Nat, T : Int]
MRRGs == [cgra : {Array, EmptyMRRG.cgra}, II : Nat, TT : Nat,
          nodes : Seq(Nodes), edges : Seq(Int \X Int), node_counter : Nat]

(* The root, and one node for each unit of U. *)
Layout(g, U) ==
    /\ Len(g.nodes) >= 1 /\ g.nodes[1] = RootOf
    /\ \A k \in 2 .. Len(g.nodes) : g.nodes[k].type = "FUNode" /\ Where(g, k) \in U
    /\ \A u \in U : \E k \in 2 .. Len(g.nodes) : Where(g, k) = u
    /\ \A j, k \in 2 .. Len(g.nodes) : Where(g, j) = Where(g, k) => j = k

(* No edge leads to the root, or to no node. *)
Ends(g) ==
    \A k \in DOMAIN g.edges : /\ g.edges[k][1] \in Stray .. Len(g.nodes)
                              /\ g.edges[k][2] \in 2 .. Len(g.nodes)

(* Edges as pairs of units: a value stays in its unit, moves along a       *)
(* connection, or goes back to the beginning.                              *)
Holds(U) == {<<<<u[1], u[2] - 1>>, u>> : u \in {u \in U : u[2] > 0}}
Moves(D) == {<<<<d[1][1], d[2] - 1>>, <<d[1][2], d[2]>>>> : d \in D}
Wraps(lo, hi) == UNION {G!WrapEdges(Array, T) : T \in lo .. hi}

(* A graph that no extension works on. *)
Whole(g) ==
    /\ g \in MRRGs
    /\ g.nodes = <<>> => g.edges = <<>>
    /\ g.nodes # <<>> =>
         /\ g.cgra = Array
         /\ 1 <= g.II /\ g.II <= g.TT
         /\ Layout(g, AllUnits(g.TT))
         /\ Graph(g) = Holds(AllUnits(g.TT)) \cup Moves(Array.connections \X (1 .. g.TT))
                         \cup Wraps(g.II, g.TT)
         /\ Ends(g)
         /\ HasStray(g) => g.II < g.TT

(* A placement on nodes and routes along edges of the object's own graph. *)
GoodPlace(m, g, x) == x \in [at : {m}, n : 1 .. Len(g.nodes)]
Hops(m) == [at : {m}, src : Nat \ {0}, des : Nat \ {0}]
GoodRoute(m, g, r) ==
    /\ r \in Seq(Hops(m))
    /\ \A h \in DOMAIN r : <<r[h].src, r[h].des>> \in Range(g.edges)
Own(m, v) ==
    /\ v = [live |-> TRUE, mrrg |-> v.mrrg, mapping |-> v.mapping, route_map |-> v.route_map]
    /\ Whole(v.mrrg)
    /\ DOMAIN v.mapping \subseteq Ops
    /\ \A d \in DOMAIN v.mapping : GoodPlace(m, v.mrrg, v.mapping[d])
    /\ DOMAIN v.route_map \subseteq Edges
    /\ \A e \in DOMAIN v.route_map : GoodRoute(m, v.mrrg, v.route_map[e])

(* What a call has done. *)
UnitsBuilt(c) ==
    IF c.pc = "units"
    THEN AllUnits(c.t - 1) \cup {<<PEVector[j], c.t>> : j \in 1 .. c.k - 1}
    ELSE AllUnits(c.T)
MovesBuilt(c) ==
    (Array.connections \X (1 .. c.startT - 1)) \cup
    IF c.pc = "units" THEN {}
    ELSE ({Wires[j] : j \in 1 .. c.k - 1} \X (1 .. c.T))
         \cup {<<Wires[c.k], s>> : s \in {s \in 1 .. c.t - 1 : c.k <= Len(Wires)}}

(* TT follows the unit that is built: it is behind by one cycle, or by two *)
(* before the first unit of a cycle has entered the extension again.       *)
Progress(c) ==
    /\ c.startT <= c.t /\ c.t <= c.T
    /\ c.pc = "units" => c.k <= Len(PEVector)
    /\ c.pc = "connections" => c.k <= Len(Wires) + 1
    /\ IF c.startT = 0 THEN c.g.II = c.T /\ c.g.TT = c.T
       ELSE /\ c.g.II < c.startT /\ c.startT - 1 <= c.g.TT
            /\ c.pc = "units" => /\ c.t - 2 <= c.g.TT /\ c.g.TT < c.t
                                 /\ c.k > 1 \/ c.t = c.startT => c.g.TT = c.t - 1
            /\ c.pc = "connections" => c.T - 1 <= c.g.TT /\ c.g.TT <= c.T

(* The graph of a call. *)
Calls == [m : Objects, pc : {"units", "connections"}, k : Nat \ {0}, t : Nat, startT : Nat,
          T : Nat, rootnode : {1, Stray}, g : MRRGs]
Partial(c) ==
    /\ c \in Calls
    /\ c.g.cgra = Array /\ 1 <= c.g.II
    /\ c.rootnode = Stray => c.startT # 0
    /\ Progress(c)
    /\ Layout(c.g, UnitsBuilt(c))
    /\ Graph(c.g) = Holds(UnitsBuilt(c)) \cup Moves(MovesBuilt(c))
                      \cup IF c.startT = 0 THEN {} ELSE Wraps(c.g.II, c.g.TT)
    /\ Ends(c.g)
    /\ c.startT = 0 => ~HasStray(c.g)

(* A call builds the graph of a new object, or goes on from that of an     *)
(* object, whose nodes and edges it keeps.                                 *)
Continues(c) ==
    IF c.startT = 0 THEN ~store[c.m].live
    ELSE /\ store[c.m].live
         /\ Len(store[c.m].mrrg.nodes) <= Len(c.g.nodes)
         /\ Range(store[c.m].mrrg.edges) \subseteq Range(c.g.edges)

IInv ==
    /\ DOMAIN store = Objects /\ stopped \in BOOLEAN
    /\ \A m \in Objects : store[m] = Dead \/ Own(m, store[m])
    /\ call # Idle => Partial(call) /\ Continues(call) /\ last = NoCopy /\ ~stopped
    /\ \/ last = NoCopy
       \/ \E n \in Live : last = [to |-> {}, from |-> {n}]
       \/ \E m, n \in Live : last = [to |-> {m}, from |-> {n}] /\ ~stopped
    /\ CopiesAgree /\ RoutesCopySafely
-----------------------------------------------------------------------------
(* Sequences as functions, and what is in them. *)
LEMMA SeqIsFunction ==
    ASSUME NEW S, NEW s \in Seq(S)
    PROVE  /\ Len(s) \in Nat /\ DOMAIN s = 1 .. Len(s) /\ s \in [1 .. Len(s) -> S]
           /\ \A k \in 1 .. Len(s) : s[k] \in S
           /\ Range(s) \subseteq S
<1>1. Len(s) \in Nat /\ DOMAIN s = 1 .. Len(s) /\ s \in [1 .. Len(s) -> S]
  BY LenProperties
<1>. QED
  BY <1>1 DEF Range

LEMMA FunctionIsSeq ==
    ASSUME NEW S, NEW n \in Nat, NEW f \in [1 .. n -> S]
    PROVE  f \in Seq(S) /\ Len(f) = n
OBVIOUS

LEMMA AppendRange ==
    ASSUME NEW S, NEW s \in Seq(S), NEW x \in S
    PROVE  Append(s, x) \in Seq(S) /\ Range(Append(s, x)) = Range(s) \cup {x}
<1>0. Len(s) \in Nat /\ DOMAIN s = 1 .. Len(s)
  BY LenProperties
<1>1. /\ Append(s, x) \in Seq(S) /\ Len(Append(s, x)) = Len(s) + 1
      /\ \A i \in 1 .. Len(s) : Append(s, x)[i] = s[i]
      /\ Append(s, x)[Len(s) + 1] = x
  BY AppendProperties
<1>2. DOMAIN Append(s, x) = 1 .. Len(s) + 1
  BY <1>1, LenProperties
<1>3. 1 .. Len(s) + 1 = (1 .. Len(s)) \cup {Len(s) + 1}
  BY <1>0
<1>. QED
  BY <1>0, <1>1, <1>2, <1>3 DEF Range

LEMMA ConcatRange ==
    ASSUME NEW S, NEW s \in Seq(S), NEW t \in Seq(S)
    PROVE  s \o t \in Seq(S) /\ Range(s \o t) = Range(s) \cup Range(t)
<1>0. Len(s) \in Nat /\ DOMAIN s = 1 .. Len(s) /\ Len(t) \in Nat /\ DOMAIN t = 1 .. Len(t)
  BY LenProperties
<1>1. /\ s \o t \in Seq(S) /\ Len(s \o t) = Len(s) + Len(t)
      /\ \A i \in 1 .. Len(s) + Len(t) :
            (s \o t)[i] = IF i <= Len(s) THEN s[i] ELSE t[i - Len(s)]
  BY ConcatProperties, Zenon
<1>2. DOMAIN (s \o t) = 1 .. Len(s) + Len(t)
  BY <1>1, LenProperties
<1>4. \A i \in 1 .. Len(s) + Len(t) : (s \o t)[i] \in Range(s) \cup Range(t)
  <2>1. SUFFICES ASSUME NEW i \in 1 .. Len(s) + Len(t)
                 PROVE  (s \o t)[i] \in Range(s) \cup Range(t)
    OBVIOUS
  <2>2. CASE i <= Len(s)
    <3>1. i \in 1 .. Len(s)
      BY <1>0, <2>2
    <3>. QED
      BY <1>0, <1>1, <2>2, <3>1 DEF Range
  <2>3. CASE ~(i <= Len(s))
    <3>1. i - Len(s) \in 1 .. Len(t)
      BY <1>0, <2>3
    <3>2. (s \o t)[i] = t[i - Len(s)]
      BY <1>1, <2>3
    <3>. QED
      BY <1>0, <3>1, <3>2 DEF Range
  <2>. QED
    BY <2>2, <2>3
<1>5. \A i \in 1 .. Len(s) : i \in 1 .. Len(s) + Len(t) /\ (s \o t)[i] = s[i]
  <2>1. \A i \in 1 .. Len(s) : i \in 1 .. Len(s) + Len(t) /\ i <= Len(s)
    BY <1>0
  <2>. QED
    BY <1>1, <2>1
<1>6. \A i \in 1 .. Len(t) : /\ i + Len(s) \in 1 .. Len(s) + Len(t)
                             /\ (s \o t)[i + Len(s)] = t[i]
  <2>1. \A i \in 1 .. Len(t) : /\ i + Len(s) \in 1 .. Len(s) + Len(t)
                               /\ ~(i + Len(s) <= Len(s)) /\ i + Len(s) - Len(s) = i
    BY <1>0
  <2>. QED
    BY <1>1, <2>1
<1>7. \A y \in Range(s) : y \in Range(s \o t)
  BY <1>0, <1>2, <1>5 DEF Range
<1>8. \A y \in Range(t) : y \in Range(s \o t)
  BY <1>0, <1>2, <1>6 DEF Range
<1>9. \A y \in Range(s \o t) : y \in Range(s) \cup Range(t)
  BY <1>2, <1>4 DEF Range
<1>. QED
  BY <1>7, <1>8, <1>9
-----------------------------------------------------------------------------
(* The smallest of some positions. *)
LEMMA MinIn ==
    ASSUME NEW n \in Nat, NEW S \in SUBSET (1 .. n), S # {}
    PROVE  Min(S) \in S
<1>. DEFINE L == InOrder(S)
<1>1. /\ Cardinality(S) \in Nat
      /\ \A j \in 1 .. Cardinality(S) : L[j] \in S
      /\ \A k \in S : \E j \in 1 .. Cardinality(S) : L[j] = k
      /\ \A i, j \in 1 .. Cardinality(S) : i < j => L[i] < L[j]
  BY InOrderLists
<1>2. 1 \in 1 .. Cardinality(S)
  <2>1. PICK k \in S, j \in 1 .. Cardinality(S) : L[j] = k
    BY <1>1
  <2>. QED
    BY <1>1
<1>3. \A k \in S : L[1] <= k
  <2>1. SUFFICES ASSUME NEW k \in S PROVE L[1] <= k
    OBVIOUS
  <2>2. PICK j \in 1 .. Cardinality(S) : L[j] = k
    BY <1>1
  <2>3. j = 1 \/ 1 < j
    BY <1>1
  <2>4. L[1] \in Int /\ k \in Int
    <3>1. \A x \in S : x \in Int
      OBVIOUS
    <3>. QED
      BY <1>1, <1>2, <3>1
  <2>. QED
    BY <1>1, <1>2, <2>2, <2>3, <2>4
<1>4. L[1] \in S
  BY <1>1, <1>2
<1>. QED
  BY <1>3, <1>4 DEF Min

(* A search by the parts of a node finds one, when there is one. *)
LEMMA FUFound ==
    ASSUME NEW g, Len(g.nodes) \in Nat, NEW p, NEW t, NEW i \in 1 .. Len(g.nodes),
           g.nodes[i].type = "FUNode", g.nodes[i].pe = p, g.nodes[i].T = t
    PROVE  /\ FU(g, p, t) \in 1 .. Len(g.nodes)
           /\ g.nodes[FU(g, p, t)].type = "FUNode"
           /\ g.nodes[FU(g, p, t)].pe = p
           /\ g.nodes[FU(g, p, t)].T = t
<1>. DEFINE I == {k \in 1 .. Len(g.nodes) : /\ g.nodes[k].type = "FUNode" /\ g.nodes[k].pe = p
                                           /\ g.nodes[k].T = t}
<1>1. FU(g, p, t) = IF I # {} THEN Min(I) ELSE 0
  BY DEF FU, SelectInSeq
<1>2. I # {}
  OBVIOUS
<1>3. Min(I) \in I
  BY <1>2, MinIn
<1>. QED
  BY <1>1, <1>2, <1>3

(* The vectors of the array have its elements. *)
LEMMA VectorFacts ==
    /\ PEVector \in Seq(Array.PEs) /\ Len(PEVector) \in Nat \ {0}
    /\ \A p \in Array.PEs : \E j \in 1 .. Len(PEVector) : PEVector[j] = p
    /\ \A i, j \in 1 .. Len(PEVector) : PEVector[i] = PEVector[j] => i = j
    /\ Wires \in Seq(Array.connections) /\ Len(Wires) \in Nat
    /\ \A c \in Array.connections : \E j \in 1 .. Len(Wires) : Wires[j] = c
<1>. DEFINE P == Array.PEs
            Less == {p \in P \X P : p[1] < p[2]}
            C == Array.connections
            Ahead == {p \in C \X C : Before(p[1], p[2])}
<1>1. P \subseteq Nat /\ P # {} /\ IsFiniteSet(P) /\ C \subseteq P \X P
  BY StoreAssumption
<1>2. /\ PEVector \in Seq(P) /\ Len(PEVector) \in Nat
      /\ \A p \in P : \E j \in 1 .. Len(PEVector) : PEVector[j] = p
      /\ \A i, j \in 1 .. Len(PEVector) : PEVector[i] = PEVector[j] => i = j
  <2>1. \A x, y \in P : <<x, y>> \in Less <=> x < y
    OBVIOUS
  <2>2. /\ \A x \in P : <<x, x>> \notin Less
        /\ \A x, y \in P : x # y => <<x, y>> \in Less \/ <<y, x>> \in Less
        /\ \A x, y, z \in P : <<x, y>> \in Less /\ <<y, z>> \in Less => <<x, z>> \in Less
    <3>. HIDE DEF Less
    <3>. QED
      BY <1>1, <2>1
  <2>3. PEVector = ListedBy(P, Less)
    BY DEF PEVector, PEsOf
  <2>. HIDE DEF Less, P, C, Ahead
  <2>4. IsFiniteSet(P)
    BY <1>1
  <2>5. /\ Cardinality(P) \in Nat
        /\ PEVector \in Seq(P) /\ Len(PEVector) = Cardinality(P)
        /\ \A x \in P : \E j \in 1 .. Cardinality(P) : PEVector[j] = x
        /\ \A i, j \in 1 .. Cardinality(P) : PEVector[i] = PEVector[j] => i = j
    BY <2>2, <2>3, <2>4, ListedByLists
  <2>. QED
    BY <2>5
<1>3. PICK q \in P : TRUE
  BY <1>1
<1>4. Len(PEVector) # 0
  BY <1>2, <1>3
<1>5. /\ Wires \in Seq(C) /\ Len(Wires) \in Nat
      /\ \A c \in C : \E j \in 1 .. Len(Wires) : Wires[j] = c
  <2>1. IsFiniteSet(C)
    BY <1>1, FS_Product, FS_Subset
  <2>2. \A x, y \in C : <<x, y>> \in Ahead <=> Before(x, y)
    OBVIOUS
  <2>3. \A x \in C : x[1] \in Nat /\ x[2] \in Nat /\ x = <<x[1], x[2]>>
    BY <1>1
  <2>4. \A x \in C : Later(x) \in Nat /\ Earlier(x) \in Nat
    BY <2>3 DEF Later, Earlier
  <2>5. ASSUME NEW x \in C, NEW y \in C, x # y PROVE Before(x, y) \/ Before(y, x)
    <3>1. x[1] = y[1] => x[2] # y[2]
      BY <2>3, <2>5
    <3>2. Later(x) = Later(y) /\ Earlier(x) = Earlier(y) => x[1] # y[1]
      BY <2>3, <3>1 DEF Later, Earlier
    <3>3. \A a, b \in Nat : a < b \/ b < a \/ a = b
      OBVIOUS
    <3>. QED
      BY <2>3, <2>4, <3>2, <3>3 DEF Before
  <2>6. \A x \in C : ~Before(x, x)
    BY <2>3, <2>4 DEF Before
  <2>7. \A x, y, z \in C : Before(x, y) /\ Before(y, z) => Before(x, z)
    BY <2>3, <2>4 DEF Before
  <2>8. Wires = ListedBy(C, Ahead)
    BY DEF Wires, ConnectionsOf
  <2>9. /\ \A x \in C : <<x, x>> \notin Ahead
        /\ \A x, y \in C : x # y => <<x, y>> \in Ahead \/ <<y, x>> \in Ahead
        /\ \A x, y, z \in C : <<x, y>> \in Ahead /\ <<y, z>> \in Ahead => <<x, z>> \in Ahead
    <3>. HIDE DEF Ahead
    <3>. QED
      BY <2>2, <2>5, <2>6, <2>7
  <2>. HIDE DEF C, Ahead
  <2>10. /\ Cardinality(C) \in Nat
         /\ Wires \in Seq(C) /\ Len(Wires) = Cardinality(C)
         /\ \A x \in C : \E j \in 1 .. Cardinality(C) : Wires[j] = x
    BY <2>1, <2>8, <2>9, ListedByLists
  <2>. QED
    BY <2>10
<1>. QED
  BY <1>2, <1>4, <1>5

LEMMA VectorRanges ==
    /\ Range(PEVector) = Array.PEs /\ Range(Wires) = Array.connections
    /\ Wires \in Seq(Array.PEs \X Array.PEs)
<1>1. /\ DOMAIN PEVector = 1 .. Len(PEVector) /\ Range(PEVector) \subseteq Array.PEs
      /\ DOMAIN Wires = 1 .. Len(Wires) /\ Range(Wires) \subseteq Array.connections
      /\ Len(Wires) \in Nat /\ \A k \in 1 .. Len(Wires) : Wires[k] \in Array.connections
      /\ Wires \in [1 .. Len(Wires) -> Array.connections]
  BY VectorFacts, SeqIsFunction
<1>2. Range(PEVector) = Array.PEs /\ Range(Wires) = Array.connections
  <2>1. \A p \in Array.PEs : p \in Range(PEVector)
    BY <1>1, VectorFacts DEF Range
  <2>2. \A c \in Array.connections : c \in Range(Wires)
    BY <1>1, VectorFacts DEF Range
  <2>. QED
    BY <1>1, <2>1, <2>2
<1>3. \A c \in Array.connections : c \in Array.PEs \X Array.PEs
  BY StoreAssumption
<1>4. Wires \in [1 .. Len(Wires) -> Array.PEs \X Array.PEs]
  BY <1>1, <1>3
<1>. QED
  BY <1>1, <1>2, <1>4, FunctionIsSeq
-----------------------------------------------------------------------------
(* A looked up unit is found at the one node for it, behind the root. *)
LEMMA UnitFound ==
    ASSUME NEW g, Len(g.nodes) \in Nat, NEW U, Layout(g, U), NEW p, NEW t, <<p, t>> \in U
    PROVE  FU(g, p, t) \in 2 .. Len(g.nodes) /\ Where(g, FU(g, p, t)) = <<p, t>>
<1>1. PICK k \in 2 .. Len(g.nodes) : Where(g, k) = <<p, t>>
  BY DEF Layout
<1>2. k \in 1 .. Len(g.nodes) /\ g.nodes[k].type = "FUNode" /\ g.nodes[k].pe = p /\ g.nodes[k].T = t
  BY <1>1 DEF Layout, Where
<1>3. /\ FU(g, p, t) \in 1 .. Len(g.nodes)
      /\ g.nodes[FU(g, p, t)].type = "FUNode"
      /\ g.nodes[FU(g, p, t)].pe = p
      /\ g.nodes[FU(g, p, t)].T = t
  BY <1>2, FUFound
<1>4. FU(g, p, t) # 1
  BY <1>3 DEF Layout, RootOf, Node
<1>. QED
  BY <1>3, <1>4 DEF Where

(* The units, and the one of PE p in cycle t. *)
AndUnit(U, p, t) == U \cup {<<p, t>>}

(* h is g with one node more at the end, for the unit of PE p in cycle t. *)
PutsUnit(g, h, U, p, t) ==
    /\ h.nodes \in Seq(Nodes) /\ Len(h.nodes) = Len(g.nodes) + 1
    /\ Layout(h, AndUnit(U, p, t))
    /\ Where(h, Len(h.nodes)) = <<p, t>>
    /\ \A k \in 1 .. Len(g.nodes) : h.nodes[k] = g.nodes[k] /\ Where(h, k) = Where(g, k)

(* The node of one more unit is added at the end. *)
LEMMA UnitAdded ==
    ASSUME NEW g, g.nodes \in Seq(Nodes), NEW U, Layout(g, U),
           NEW p \in Nat, NEW t \in Nat, NEW id \in Int, <<p, t>> \notin U,
           NEW h, h.nodes = Append(g.nodes, Node(id, "FUNode", p, t))
    PROVE  PutsUnit(g, h, U, p, t)
<1>1. Len(g.nodes) \in Nat
  BY LenProperties
<1>2. Node(id, "FUNode", p, t) \in Nodes
  BY DEF Node, Nodes
<1>3. /\ h.nodes \in Seq(Nodes) /\ Len(h.nodes) = Len(g.nodes) + 1
      /\ \A k \in 1 .. Len(g.nodes) : h.nodes[k] = g.nodes[k]
      /\ h.nodes[Len(g.nodes) + 1] = Node(id, "FUNode", p, t)
  BY <1>1, <1>2, AppendProperties
<1>4. \A k \in 1 .. Len(g.nodes) : Where(h, k) = Where(g, k)
  BY <1>3 DEF Where
<1>5. /\ Where(h, Len(h.nodes)) = <<p, t>>
      /\ h.nodes[Len(h.nodes)].type = "FUNode"
  BY <1>3 DEF Where, Node
<1>6. Len(g.nodes) >= 1
  BY DEF Layout
<1>7. \A k \in 2 .. Len(h.nodes) : k \in 2 .. Len(g.nodes) \/ k = Len(h.nodes)
  BY <1>1, <1>3
<1>8. /\ \A k \in 2 .. Len(g.nodes) : k \in 2 .. Len(h.nodes) /\ k \in 1 .. Len(g.nodes)
      /\ Len(h.nodes) \in 2 .. Len(h.nodes) /\ 1 \in 1 .. Len(g.nodes)
      /\ Len(h.nodes) >= 1
  BY <1>1, <1>3, <1>6
<1>9. Layout(h, AndUnit(U, p, t))
  <2>1. h.nodes[1] = RootOf
    BY <1>3, <1>8 DEF Layout
  <2>2. \A k \in 2 .. Len(h.nodes) : h.nodes[k].type = "FUNode"
    BY <1>3, <1>5, <1>7, <1>8 DEF Layout
  <2>3. \A k \in 2 .. Len(g.nodes) : Where(h, k) \in U
    BY <1>4, <1>8 DEF Layout
  <2>4. \A u \in U : \E k \in 2 .. Len(h.nodes) : Where(h, k) = u
    BY <1>4, <1>8 DEF Layout
  <2>5. \A j, k \in 2 .. Len(g.nodes) : Where(h, j) = Where(h, k) => j = k
    BY <1>4, <1>8 DEF Layout
  <2>6. \A j, k \in 2 .. Len(h.nodes) : Where(h, j) = Where(h, k) => j = k
    BY <1>5, <1>7, <2>3, <2>5
  <2>. QED
    BY <1>5, <1>7, <1>8, <2>1, <2>2, <2>3, <2>4, <2>6 DEF Layout, AndUnit
<1>. QED
  BY <1>3, <1>4, <1>5, <1>9 DEF PutsUnit

(* The pairs of units that some edges connect. *)
Pairs(g, es) == {<<Where(g, e[1]), Where(g, e[2])>> : e \in {e \in es : e[1] > 1}}

LEMMA GraphOfRange ==
    ASSUME NEW g
    PROVE  /\ Graph(g) = Pairs(g, Range(g.edges))
           /\ HasStray(g) <=> \E e \in Range(g.edges) : e[1] < 1
           /\ Ends(g) <=> \A e \in Range(g.edges) : /\ e[1] \in Stray .. Len(g.nodes)
                                                    /\ e[2] \in 2 .. Len(g.nodes)
<1>1. Graph(g) = Pairs(g, Range(g.edges))
  BY DEF Graph, Pairs
<1>2. HasStray(g) <=> \E e \in Range(g.edges) : e[1] < 1
  BY DEF HasStray, Range
<1>3. Ends(g) <=> \A e \in Range(g.edges) : /\ e[1] \in Stray .. Len(g.nodes)
                                            /\ e[2] \in 2 .. Len(g.nodes)
  BY Zenon DEF Ends, Range
<1>. QED
  BY <1>1, <1>2, <1>3

(* More edges between nodes that exist. *)
LEMMA EdgesAdded ==
    ASSUME NEW g, NEW h, NEW es, Ends(g),
           Len(g.nodes) \in Nat, Len(h.nodes) \in Nat, Len(g.nodes) <= Len(h.nodes),
           \A k \in 1 .. Len(g.nodes) : Where(h, k) = Where(g, k),
           Range(h.edges) = Range(g.edges) \cup es,
           \A e \in es : e[1] \in Stray .. Len(h.nodes) /\ e[2] \in 2 .. Len(h.nodes)
    PROVE  /\ Ends(h)
           /\ Graph(h) = Graph(g) \cup Pairs(h, es)
           /\ HasStray(h) <=> HasStray(g) \/ \E e \in es : e[1] < 1
<1>1. \A e \in Range(g.edges) : e[1] \in Stray .. Len(g.nodes) /\ e[2] \in 2 .. Len(g.nodes)
  BY GraphOfRange
<1>2. Ends(h)
  <2>1. \A e \in Range(g.edges) : e[1] \in Stray .. Len(h.nodes) /\ e[2] \in 2 .. Len(h.nodes)
    BY <1>1 DEF Stray
  <2>2. \A e \in Range(h.edges) : e[1] \in Stray .. Len(h.nodes) /\ e[2] \in 2 .. Len(h.nodes)
    BY <2>1
  <2>. QED
    BY <2>2, GraphOfRange
<1>3. HasStray(h) <=> HasStray(g) \/ \E e \in es : e[1] < 1
  BY GraphOfRange
<1>4. Pairs(h, Range(g.edges)) = Pairs(g, Range(g.edges))
  <2>1. \A e \in Range(g.edges) :
           e[1] > 1 => e[1] \in 1 .. Len(g.nodes) /\ e[2] \in 1 .. Len(g.nodes)
    BY <1>1 DEF Stray
  <2>2. \A e \in Range(g.edges) :
           e[1] > 1 => Where(h, e[1]) = Where(g, e[1]) /\ Where(h, e[2]) = Where(g, e[2])
    BY <2>1
  <2>. QED
    BY <2>2 DEF Pairs
<1>5. Pairs(h, Range(h.edges)) = Pairs(h, Range(g.edges)) \cup Pairs(h, es)
  BY DEF Pairs
<1>. QED
  BY <1>2, <1>3, <1>4, <1>5, GraphOfRange
-----------------------------------------------------------------------------
(* What going back to the beginning along some links connects. *)
BackAlong(L, T) == {<<<<l[1], T - 1>>, <<l[2], 0>>>> : l \in L}

(* The closing edges of some links, when the units they look up are there. *)
LEMMA ClosingFacts ==
    ASSUME NEW g, Len(g.nodes) \in Nat, NEW U, Layout(g, U), NEW T,
           \A p \in Array.PEs : <<p, T - 1>> \in U /\ <<p, 0>> \in U,
           NEW pairs \in Seq(Array.PEs \X Array.PEs)
    PROVE  /\ Closing(g, pairs, T) \in Seq((2 .. Len(g.nodes)) \X (2 .. Len(g.nodes)))
           /\ Pairs(g, Range(Closing(g, pairs, T))) =
                 BackAlong(Range(pairs), T)
<1>. DEFINE es == Closing(g, pairs, T)
            src(l) == FU(g, l[1], T - 1)
            des(l) == FU(g, l[2], 0)
            two == 2 .. Len(g.nodes)
<1>1. Len(pairs) \in Nat /\ DOMAIN pairs = 1 .. Len(pairs)
      /\ \A k \in 1 .. Len(pairs) : pairs[k] \in Array.PEs \X Array.PEs
  BY LenProperties, ElementOfSeq
<1>2. ASSUME NEW l \in Array.PEs \X Array.PEs
      PROVE  /\ src(l) \in two /\ Where(g, src(l)) = <<l[1], T - 1>>
             /\ des(l) \in two /\ Where(g, des(l)) = <<l[2], 0>>
  <2>1. <<l[1], T - 1>> \in U /\ <<l[2], 0>> \in U
    OBVIOUS
  <2>. QED
    BY <2>1, UnitFound
<1>3. es = [k \in 1 .. Len(pairs) |-> <<src(pairs[k]), des(pairs[k])>>]
  BY <1>1 DEF Closing
<1>. HIDE DEF es, src, des, two
<1>4. es \in [1 .. Len(pairs) -> two \X two]
  BY <1>1, <1>2, <1>3
<1>5. es \in Seq(two \X two)
  BY <1>1, <1>4, FunctionIsSeq
<1>6. Range(es) = {<<src(l), des(l)>> : l \in Range(pairs)}
  BY <1>1, <1>3 DEF Range
<1>7. \A l \in Range(pairs) : /\ src(l) > 1
                              /\ Where(g, src(l)) = <<l[1], T - 1>>
                              /\ Where(g, des(l)) = <<l[2], 0>>
  <2>1. \A x \in two : x > 1
    BY DEF two
  <2>. QED
    BY <1>1, <1>2, <2>1 DEF Range
<1>8. Pairs(g, Range(es)) = {<<<<l[1], T - 1>>, <<l[2], 0>>>> : l \in Range(pairs)}
  <2>1. Range(es) = {e \in Range(es) : e[1] > 1}
    BY <1>6, <1>7
  <2>2. Pairs(g, Range(es)) = {<<Where(g, e[1]), Where(g, e[2])>> : e \in Range(es)}
    BY <2>1, Zenon DEF Pairs
  <2>3. Pairs(g, Range(es)) = {<<Where(g, src(l)), Where(g, des(l))>> : l \in Range(pairs)}
    <3>1. \A l \in Range(pairs) : <<src(l), des(l)>>[1] = src(l) /\ <<src(l), des(l)>>[2] = des(l)
      OBVIOUS
    <3>2. {<<Where(g, e[1]), Where(g, e[2])>> : e \in {<<src(l), des(l)>> : l \in Range(pairs)}}
            = {<<Where(g, src(l)), Where(g, des(l))>> : l \in Range(pairs)}
      BY <3>1
    <3>. QED
      BY <1>6, <2>2, <3>2
  <2>. QED
    BY <1>7, <2>3
<1>. QED
  BY <1>5, <1>8 DEF es, two, BackAlong

(* The end of an extension adds the closing edges. *)
LEMMA CloseFacts ==
    ASSUME NEW g \in MRRGs, g.cgra = Array, NEW U, Layout(g, U), Ends(g), NEW T \in Nat,
           \A p \in Array.PEs : <<p, T - 1>> \in U /\ <<p, 0>> \in U,
           NEW h, h = Close(g, T)
    PROVE  /\ h \in MRRGs
           /\ h.cgra = g.cgra /\ h.II = g.II /\ h.TT = T /\ h.nodes = g.nodes
           /\ h.node_counter = g.node_counter
           /\ Ends(h)
           /\ Graph(h) = Graph(g) \cup G!WrapEdges(Array, T)
           /\ HasStray(h) <=> HasStray(g)
           /\ Range(g.edges) \subseteq Range(h.edges)
<1>. DEFINE stays == [k \in DOMAIN PEVector |-> <<PEVector[k], PEVector[k]>>]
            e1 == Closing(g, stays, T)
            e2 == Closing(g, Wires, T)
            two == 2 .. Len(g.nodes)
<1>1. /\ g.nodes \in Seq(Nodes) /\ g.edges \in Seq(Int \X Int)
      /\ h = [cgra |-> g.cgra, II |-> g.II, TT |-> T, nodes |-> g.nodes,
              edges |-> g.edges \o e1 \o e2, node_counter |-> g.node_counter]
  <2>1. PEsOf(g.cgra) = PEVector /\ ConnectionsOf(g.cgra) = Wires
    BY DEF PEVector, Wires
  <2>2. h = [g EXCEPT !.edges = g.edges \o e1 \o e2, !.TT = T]
    BY <2>1 DEF Close
  <2>. HIDE DEF e1, e2
  <2>. QED
    BY <2>2 DEF MRRGs
<1>2. Len(g.nodes) \in Nat
  BY <1>1, LenProperties
<1>3. DOMAIN PEVector = 1 .. Len(PEVector) /\ \A k \in DOMAIN PEVector : PEVector[k] \in Array.PEs
  BY VectorFacts, SeqIsFunction
<1>4. stays \in Seq(Array.PEs \X Array.PEs)
  <2>1. stays \in [1 .. Len(PEVector) -> Array.PEs \X Array.PEs]
    BY <1>3
  <2>. HIDE DEF stays
  <2>. QED
    BY <2>1, VectorFacts, FunctionIsSeq
<1>5. Wires \in Seq(Array.PEs \X Array.PEs)
  BY VectorRanges
<1>6. Range(stays) = {<<p, p>> : p \in Array.PEs} /\ Range(Wires) = Array.connections
  <2>1. {PEVector[k] : k \in DOMAIN PEVector} = Array.PEs
    BY VectorRanges DEF Range
  <2>2. Range(stays) = {<<p, p>> : p \in {PEVector[k] : k \in DOMAIN PEVector}}
    BY DEF Range
  <2>. QED
    BY <2>1, <2>2, VectorRanges
<1>. HIDE DEF stays, e1, e2
<1>7. /\ e1 \in Seq(two \X two) /\ e2 \in Seq(two \X two)
      /\ Pairs(g, Range(e1)) = BackAlong(Range(stays), T)
      /\ Pairs(g, Range(e2)) = BackAlong(Range(Wires), T)
  <2>1. \A links \in Seq(Array.PEs \X Array.PEs) :
           /\ Closing(g, links, T) \in Seq(two \X two)
           /\ Pairs(g, Range(Closing(g, links, T))) =
                 BackAlong(Range(links), T)
    BY <1>2, ClosingFacts
  <2>. HIDE DEF two
  <2>. QED
    BY <1>4, <1>5, <2>1 DEF e1, e2
<1>8. /\ Range(e1) \subseteq two \X two /\ Range(e2) \subseteq two \X two
      /\ e1 \in Seq(Int \X Int) /\ e2 \in Seq(Int \X Int)
  <2>1. /\ Len(e1) \in Nat /\ e1 \in [1 .. Len(e1) -> two \X two]
        /\ Len(e2) \in Nat /\ e2 \in [1 .. Len(e2) -> two \X two]
        /\ Range(e1) \subseteq two \X two /\ Range(e2) \subseteq two \X two
    <3>. HIDE DEF two
    <3>. QED
      BY <1>7, SeqIsFunction
  <2>2. \A e \in two \X two : e \in Int \X Int
    OBVIOUS
  <2>3. e1 \in [1 .. Len(e1) -> Int \X Int] /\ e2 \in [1 .. Len(e2) -> Int \X Int]
    <3>. HIDE DEF two
    <3>. QED
      BY <2>1, <2>2
  <2>. QED
    BY <2>1, <2>3, FunctionIsSeq
<1>9. /\ h.edges \in Seq(Int \X Int)
      /\ Range(h.edges) = Range(g.edges) \cup (Range(e1) \cup Range(e2))
  <2>0. \A s, t \in Seq(Int \X Int) : /\ s \o t \in Seq(Int \X Int)
                                      /\ Range(s \o t) = Range(s) \cup Range(t)
    BY ConcatRange
  <2>1. /\ g.edges \o e1 \in Seq(Int \X Int)
        /\ Range(g.edges \o e1) = Range(g.edges) \cup Range(e1)
    BY <1>1, <1>8, <2>0
  <2>2. /\ g.edges \o e1 \o e2 \in Seq(Int \X Int)
        /\ Range(g.edges \o e1 \o e2) = Range(g.edges \o e1) \cup Range(e2)
    BY <1>8, <2>0, <2>1
  <2>. QED
    BY <1>1, <2>1, <2>2
<1>10. \A e \in Range(e1) \cup Range(e2) : e \in two \X two
  BY <1>8
<1>11. h.nodes = g.nodes /\ \A k \in 1 .. Len(g.nodes) : Where(h, k) = Where(g, k)
  BY <1>1 DEF Where
<1>12. /\ Ends(h)
       /\ Graph(h) = Graph(g) \cup Pairs(h, Range(e1) \cup Range(e2))
       /\ HasStray(h) <=> HasStray(g) \/ \E e \in Range(e1) \cup Range(e2) : e[1] < 1
  <2>1. \A e \in Range(e1) \cup Range(e2) :
           e[1] \in Stray .. Len(h.nodes) /\ e[2] \in 2 .. Len(h.nodes)
    BY <1>2, <1>10, <1>11 DEF Stray
  <2>2. Len(h.nodes) \in Nat /\ Len(g.nodes) <= Len(h.nodes)
    BY <1>2, <1>11
  <2>. DEFINE es == Range(e1) \cup Range(e2)
  <2>3. Range(h.edges) = Range(g.edges) \cup es
    BY <1>9
  <2>4. \A e \in es : e[1] \in Stray .. Len(h.nodes) /\ e[2] \in 2 .. Len(h.nodes)
    BY <2>1
  <2>. HIDE DEF es
  <2>5. /\ Ends(h)
        /\ Graph(h) = Graph(g) \cup Pairs(h, es)
        /\ HasStray(h) <=> HasStray(g) \/ \E e \in es : e[1] < 1
    BY <1>2, <1>11, <2>2, <2>3, <2>4, EdgesAdded
  <2>. QED
    BY <2>5 DEF es
<1>13. ~\E e \in Range(e1) \cup Range(e2) : e[1] < 1
  BY <1>10
<1>14. Pairs(h, Range(e1) \cup Range(e2)) = G!WrapEdges(Array, T)
  <2>1. Pairs(h, Range(e1) \cup Range(e2)) = Pairs(g, Range(e1)) \cup Pairs(g, Range(e2))
    BY <1>11 DEF Pairs, Where
  <2>2. G!WrapEdges(Array, T) = BackAlong(Range(stays) \cup Range(Wires), T)
    BY <1>6 DEF G!WrapEdges, G!Links, BackAlong
  <2>3. BackAlong(Range(stays) \cup Range(Wires), T)
          = BackAlong(Range(stays), T) \cup BackAlong(Range(Wires), T)
    BY DEF BackAlong
  <2>. QED
    BY <1>7, <2>1, <2>2, <2>3
<1>15. h \in MRRGs
  BY <1>1, <1>9 DEF MRRGs
<1>16. /\ h.cgra = g.cgra /\ h.II = g.II /\ h.TT = T /\ h.nodes = g.nodes
       /\ h.node_counter = g.node_counter
  BY <1>1
<1>17. Graph(h) = Graph(g) \cup G!WrapEdges(Array, T) /\ (HasStray(h) <=> HasStray(g))
  BY <1>12, <1>13, <1>14
<1>18. Range(g.edges) \subseteq Range(h.edges)
  BY <1>9
<1>. QED
  BY <1>12, <1>15, <1>16, <1>17, <1>18
-----------------------------------------------------------------------------
-----------------------------------------------------------------------------
(* What every change of a graph by an extension keeps. *)
Grows(g, h) ==
    /\ h \in MRRGs /\ h.cgra = g.cgra /\ h.II = g.II /\ Ends(h)
    /\ Len(g.nodes) <= Len(h.nodes)
    /\ Range(g.edges) \subseteq Range(h.edges)

LEMMA SameNodes ==
    ASSUME NEW g, NEW h, h.nodes = g.nodes
    PROVE  /\ \A k : Where(h, k) = Where(g, k)
           /\ \A U : Layout(g, U) => Layout(h, U)
<1>1. \A k : Where(h, k) = Where(g, k)
  BY DEF Where
<1>. QED
  BY <1>1 DEF Layout

LEMMA AddEdgeFacts ==
    ASSUME NEW g \in MRRGs, Ends(g),
           NEW s \in Stray .. Len(g.nodes), NEW d \in 2 .. Len(g.nodes),
           NEW h, h = AddEdge(g, s, d)
    PROVE  /\ Grows(g, h) /\ h.nodes = g.nodes /\ h.TT = g.TT
           /\ Graph(h) = Graph(g) \cup IF s > 1 THEN {<<Where(g, s), Where(g, d)>>} ELSE {}
           /\ HasStray(h) <=> HasStray(g) \/ s < 1
<1>. DEFINE e == <<s, d>>
            es == {e}
<1>1. /\ g.nodes \in Seq(Nodes) /\ g.edges \in Seq(Int \X Int)
      /\ h = [cgra |-> g.cgra, II |-> g.II, TT |-> g.TT, nodes |-> g.nodes,
              edges |-> Append(g.edges, e), node_counter |-> g.node_counter]
  BY DEF MRRGs, AddEdge
<1>2. Len(g.nodes) \in Nat
  BY <1>1, LenProperties
<1>3. e \in Int \X Int /\ e[1] = s /\ e[2] = d
  BY <1>2 DEF Stray
<1>. HIDE DEF e
<1>4. h.edges \in Seq(Int \X Int) /\ Range(h.edges) = Range(g.edges) \cup es
  <2>1. /\ Append(g.edges, e) \in Seq(Int \X Int)
        /\ Range(Append(g.edges, e)) = Range(g.edges) \cup {e}
    BY <1>1, <1>3, AppendRange
  <2>2. h.edges = Append(g.edges, e)
    BY <1>1
  <2>. QED
    BY <2>1, <2>2
<1>5. h \in MRRGs /\ h.cgra = g.cgra /\ h.II = g.II /\ h.TT = g.TT /\ h.nodes = g.nodes
  BY <1>1, <1>4 DEF MRRGs
<1>6. \A x : x \in es <=> x = e
  OBVIOUS
<1>. HIDE DEF es
<1>7. /\ Ends(h)
      /\ Graph(h) = Graph(g) \cup Pairs(h, es)
      /\ HasStray(h) <=> HasStray(g) \/ \E x \in es : x[1] < 1
  <2>1. \A k \in 1 .. Len(g.nodes) : Where(h, k) = Where(g, k)
    BY <1>5 DEF Where
  <2>2. \A x \in es : x[1] \in Stray .. Len(h.nodes) /\ x[2] \in 2 .. Len(h.nodes)
    BY <1>3, <1>5, <1>6
  <2>3. Len(h.nodes) \in Nat /\ Len(g.nodes) <= Len(h.nodes)
    BY <1>2, <1>5
  <2>. QED
    BY <1>2, <1>4, <2>1, <2>2, <2>3, EdgesAdded
<1>8. Pairs(h, es) = IF s > 1 THEN {<<Where(g, s), Where(g, d)>>} ELSE {}
  <2>1. Where(h, s) = Where(g, s) /\ Where(h, d) = Where(g, d)
    BY <1>5 DEF Where
  <2>2. Pairs(h, es) = IF s > 1 THEN {<<Where(h, s), Where(h, d)>>} ELSE {}
    BY <1>3, <1>6 DEF Pairs
  <2>. QED
    BY <2>1, <2>2
<1>9. Len(g.nodes) <= Len(h.nodes) /\ Range(g.edges) \subseteq Range(h.edges)
  BY <1>2, <1>4, <1>5
<1>10. Grows(g, h)
  BY <1>5, <1>7, <1>9 DEF Grows
<1>11. HasStray(h) <=> HasStray(g) \/ s < 1
  BY <1>3, <1>6, <1>7
<1>12. Graph(h) = Graph(g) \cup IF s > 1 THEN {<<Where(g, s), Where(g, d)>>} ELSE {}
  BY <1>7, <1>8
<1>. QED
  BY <1>5, <1>10, <1>11, <1>12

(* A lookup from within an extension closes the graph behind TT. *)
LEMMA ReenterFacts ==
    ASSUME NEW g \in MRRGs, g.cgra = Array, NEW U, Layout(g, U), Ends(g), NEW t \in Int,
           t > g.TT => \A p \in Array.PEs : <<p, t - 1>> \in U /\ <<p, 0>> \in U,
           NEW h, h = Reenter(g, t)
    PROVE  /\ Grows(g, h) /\ h.nodes = g.nodes
           /\ h.TT = IF t > g.TT THEN t ELSE g.TT
           /\ Graph(h) = Graph(g) \cup IF t > g.TT THEN G!WrapEdges(Array, t) ELSE {}
           /\ HasStray(h) <=> HasStray(g)
<1>1. g.TT \in Nat /\ Len(g.nodes) \in Nat
  BY LenProperties DEF MRRGs
<1>2. CASE t > g.TT
  <2>1. t \in Nat
    BY <1>1, <1>2
  <2>2. h = Close(g, t)
    BY <1>2 DEF Reenter
  <2>3. \A p \in Array.PEs : <<p, t - 1>> \in U /\ <<p, 0>> \in U
    BY <1>2
  <2>4. /\ h \in MRRGs
        /\ h.cgra = g.cgra /\ h.II = g.II /\ h.TT = t /\ h.nodes = g.nodes
        /\ Ends(h)
        /\ Graph(h) = Graph(g) \cup G!WrapEdges(Array, t)
        /\ HasStray(h) <=> HasStray(g)
        /\ Range(g.edges) \subseteq Range(h.edges)
    BY <2>1, <2>2, <2>3, CloseFacts
  <2>5. Len(g.nodes) <= Len(h.nodes)
    BY <1>1, <2>4
  <2>6. Grows(g, h)
    BY <2>4, <2>5 DEF Grows
  <2>. QED
    BY <1>2, <2>4, <2>6
<1>3. CASE ~(t > g.TT)
  <2>1. h = g
    BY <1>3 DEF Reenter
  <2>2. Grows(g, g)
    BY <1>1 DEF Grows
  <2>. QED
    BY <1>3, <2>1, <2>2
<1>. QED
  BY <1>2, <1>3

(* The node of a unit is added. *)
LEMMA NodeAdded ==
    ASSUME NEW g \in MRRGs, NEW U, Layout(g, U), Ends(g), NEW p \in Nat, NEW t \in Nat,
           <<p, t>> \notin U,
           NEW h, h = AddNode(g, p, t)
    PROVE  /\ h \in MRRGs /\ h.cgra = g.cgra /\ h.II = g.II /\ h.TT = g.TT /\ h.edges = g.edges
           /\ Len(g.nodes) \in Nat /\ Len(g.nodes) >= 1 /\ Len(h.nodes) = Len(g.nodes) + 1
           /\ Layout(h, AndUnit(U, p, t))
           /\ Where(h, Len(h.nodes)) = <<p, t>>
           /\ Ends(h) /\ Graph(h) = Graph(g) /\ (HasStray(h) <=> HasStray(g))
<1>. DEFINE n == Node(g.node_counter, "FUNode", p, t)
            V == AndUnit(U, p, t)
            es == {}
<1>1. /\ g.nodes \in Seq(Nodes) /\ g.edges \in Seq(Int \X Int) /\ g.node_counter \in Nat
      /\ g.node_counter \in Int
  BY DEF MRRGs
<1>2. Len(g.nodes) \in Nat /\ Len(g.nodes) >= 1
  BY <1>1, LenProperties DEF Layout
<1>3. h.nodes = Append(g.nodes, n)
  BY DEF MRRGs, AddNode
<1>4. /\ h.nodes \in Seq(Nodes) /\ Len(h.nodes) = Len(g.nodes) + 1
      /\ Layout(h, V)
      /\ Where(h, Len(h.nodes)) = <<p, t>>
      /\ \A k \in 1 .. Len(g.nodes) : h.nodes[k] = g.nodes[k] /\ Where(h, k) = Where(g, k)
  <2>1. g.node_counter \in Int /\ h.nodes = Append(g.nodes, Node(g.node_counter, "FUNode", p, t))
    BY <1>1, <1>3
  <2>. HIDE DEF n
  <2>2. PutsUnit(g, h, U, p, t)
    BY <1>1, <2>1, UnitAdded
  <2>. QED
    BY <2>2 DEF PutsUnit, V
<1>0. \A e : e \notin es
  OBVIOUS
<1>. HIDE DEF n, V, es
<1>5. h = [cgra |-> g.cgra, II |-> g.II, TT |-> g.TT, nodes |-> Append(g.nodes, n),
           edges |-> g.edges, node_counter |-> g.node_counter + 1]
  BY DEF MRRGs, AddNode, n
<1>6. h \in MRRGs /\ h.cgra = g.cgra /\ h.II = g.II /\ h.TT = g.TT /\ h.edges = g.edges
  <2>1. g.node_counter + 1 \in Nat
    BY <1>1
  <2>. QED
    BY <1>1, <1>4, <1>5, <2>1 DEF MRRGs
<1>7. Range(h.edges) = Range(g.edges) \cup es
  BY <1>0, <1>6
<1>8. Len(h.nodes) \in Nat /\ Len(g.nodes) <= Len(h.nodes)
  BY <1>2, <1>4
<1>9. /\ Ends(h) /\ Graph(h) = Graph(g) \cup Pairs(h, es)
      /\ HasStray(h) <=> HasStray(g) \/ \E e \in es : e[1] < 1
  BY <1>0, <1>2, <1>4, <1>7, <1>8, EdgesAdded
<1>10. Pairs(h, es) = {}
  BY <1>0 DEF Pairs
<1>. QED
  BY <1>0, <1>2, <1>4, <1>6, <1>9, <1>10 DEF V

(* One iteration of the loop over the units. *)
LEMMA AddUnitFacts ==
    ASSUME NEW g \in MRRGs, g.cgra = Array, NEW U, Layout(g, U), Ends(g), g.TT >= 1,
           NEW root \in {1, Stray}, NEW p \in Array.PEs, NEW t \in Nat, <<p, t>> \notin U,
           AllUnits(t - 1) \subseteq U,
           NEW h, h = AddUnit(g, root, p, t)
    PROVE  /\ Grows(g, h) /\ Layout(h, AndUnit(U, p, t))
           /\ h.TT = IF t - 1 > g.TT THEN t - 1 ELSE g.TT
           /\ Graph(h) = Graph(g)
                \cup (IF t = 0 THEN {} ELSE {<<<<p, t - 1>>, <<p, t>>>>})
                \cup (IF t - 1 > g.TT THEN G!WrapEdges(Array, t - 1) ELSE {})
           /\ HasStray(h) <=> HasStray(g) \/ root = Stray
<1>. DEFINE added == AddNode(g, p, t)
            new == Len(added.nodes)
            rooted == AddEdge(added, root, new)
            entered == Reenter(rooted, t - 1)
            back == FU(entered, p, t - 1)
            V == AndUnit(U, p, t)
            Wrapped == IF t - 1 > g.TT THEN G!WrapEdges(Array, t - 1) ELSE {}
<1>1. /\ g.nodes \in Seq(Nodes) /\ g.edges \in Seq(Int \X Int) /\ g.TT \in Nat
      /\ g.node_counter \in Nat /\ Len(g.nodes) \in Nat /\ p \in Nat
  BY LenProperties, StoreAssumption DEF MRRGs
<1>2. h = IF t = 0 THEN rooted ELSE AddEdge(entered, back, new)
  BY Zenon DEF AddUnit
<1>3. /\ added \in MRRGs /\ added.cgra = g.cgra /\ added.II = g.II /\ added.TT = g.TT
      /\ added.edges = g.edges
      /\ new = Len(g.nodes) + 1 /\ Len(g.nodes) >= 1
      /\ Layout(added, V)
      /\ Where(added, new) = <<p, t>>
      /\ Ends(added) /\ Graph(added) = Graph(g) /\ (HasStray(added) <=> HasStray(g))
  <2>. HIDE DEF added
  <2>1. added = AddNode(g, p, t)
    BY DEF added
  <2>2. /\ added \in MRRGs /\ added.cgra = g.cgra /\ added.II = g.II /\ added.TT = g.TT
        /\ added.edges = g.edges
        /\ Len(g.nodes) \in Nat /\ Len(g.nodes) >= 1 /\ Len(added.nodes) = Len(g.nodes) + 1
        /\ Layout(added, AndUnit(U, p, t))
        /\ Where(added, Len(added.nodes)) = <<p, t>>
        /\ Ends(added) /\ Graph(added) = Graph(g) /\ (HasStray(added) <=> HasStray(g))
    <3>. HIDE DEF V, new
    <3>. QED
      BY <1>1, <2>1, NodeAdded
  <2>. QED
    BY <2>2
<1>. HIDE DEF added, rooted, entered, back, V, Wrapped, new
<1>4. new \in Nat /\ new = Len(added.nodes) /\ Len(g.nodes) <= new /\ 2 <= new
  <2>1. new = Len(added.nodes)
    BY DEF new
  <2>. QED
    BY <1>1, <1>3, <2>1
<1>5. root \in Stray .. new /\ new \in 2 .. new /\ ~(root > 1) /\ (root < 1 <=> root = Stray)
  BY <1>4 DEF Stray
<1>6. /\ Grows(added, rooted) /\ rooted.nodes = added.nodes /\ rooted.TT = g.TT
      /\ Graph(rooted) = Graph(g)
      /\ HasStray(rooted) <=> HasStray(g) \/ root = Stray
  <2>1. rooted = AddEdge(added, root, new)
    BY DEF rooted
  <2>2. root \in Stray .. Len(added.nodes) /\ new \in 2 .. Len(added.nodes)
    BY <1>4, <1>5
  <2>3. /\ Grows(added, rooted) /\ rooted.nodes = added.nodes /\ rooted.TT = added.TT
        /\ Graph(rooted) = Graph(added) \cup
             IF root > 1 THEN {<<Where(added, root), Where(added, new)>>} ELSE {}
        /\ HasStray(rooted) <=> HasStray(added) \/ root < 1
    BY <1>3, <2>1, <2>2, AddEdgeFacts
  <2>. QED
    BY <1>3, <1>5, <2>3
<1>7. /\ rooted \in MRRGs /\ rooted.cgra = Array /\ Ends(rooted) /\ rooted.II = g.II
      /\ \A k \in 1 .. new : Where(rooted, k) = Where(added, k)
  BY <1>3, <1>6 DEF Grows, Where
<1>8. Layout(rooted, V)
  BY <1>3, <1>6, SameNodes
<1>9. Range(g.edges) \subseteq Range(rooted.edges) /\ Len(g.nodes) <= Len(rooted.nodes)
  BY <1>1, <1>3, <1>4, <1>6 DEF Grows
<1>10. CASE t = 0
  <2>1. h = rooted
    BY <1>2, <1>10
  <2>2. ~(t - 1 > g.TT)
    BY <1>1, <1>10
  <2>3. Grows(g, rooted)
    BY <1>7, <1>9 DEF Grows
  <2>. QED
    BY <1>6, <1>8, <1>10, <2>1, <2>2, <2>3 DEF V
<1>11. CASE t # 0
  <2>1. h = AddEdge(entered, back, new)
    BY <1>2, <1>11
  <2>2. AllUnits(t - 1) \subseteq V
    BY DEF V, AndUnit
  <2>3. \A q \in Array.PEs : \A s \in 0 .. t - 1 : <<q, s>> \in V
    BY <2>2 DEF AllUnits
  <2>4. t - 1 \in Int /\ t - 1 \in 0 .. t - 1
    BY <1>11
  <2>5. t - 1 > rooted.TT => \A q \in Array.PEs : <<q, t - 1 - 1>> \in V /\ <<q, 0>> \in V
    <3>1. t - 1 > rooted.TT => t - 1 - 1 \in 0 .. t - 1 /\ 0 \in 0 .. t - 1
      BY <1>1, <1>6
    <3>. QED
      BY <2>3, <3>1
  <2>6. /\ Grows(rooted, entered) /\ entered.nodes = rooted.nodes
        /\ entered.TT = IF t - 1 > g.TT THEN t - 1 ELSE g.TT
        /\ Graph(entered) = Graph(g) \cup Wrapped
        /\ HasStray(entered) <=> HasStray(g) \/ root = Stray
    <3>1. entered = Reenter(rooted, t - 1)
      BY DEF entered
    <3>2. /\ Grows(rooted, entered) /\ entered.nodes = rooted.nodes
          /\ entered.TT = IF t - 1 > rooted.TT THEN t - 1 ELSE rooted.TT
          /\ Graph(entered) = Graph(rooted) \cup
               IF t - 1 > rooted.TT THEN G!WrapEdges(Array, t - 1) ELSE {}
          /\ HasStray(entered) <=> HasStray(rooted)
      BY <1>7, <1>8, <2>4, <2>5, <3>1, ReenterFacts
    <3>. QED
      BY <1>6, <3>2 DEF Wrapped
  <2>7. /\ entered \in MRRGs /\ Ends(entered)
        /\ Len(entered.nodes) = new
        /\ \A k \in 1 .. new : Where(entered, k) = Where(added, k)
    BY <1>4, <1>6, <1>7, <2>6 DEF Grows, Where
  <2>8. Layout(entered, V)
    BY <1>8, <2>6, SameNodes
  <2>9. back \in 2 .. new /\ Where(entered, back) = <<p, t - 1>>
    <3>1. <<p, t - 1>> \in V
      BY <2>3, <2>4
    <3>. QED
      BY <1>4, <2>7, <2>8, <3>1, UnitFound DEF back
  <2>10. /\ back \in Stray .. Len(entered.nodes) /\ new \in 2 .. Len(entered.nodes)
         /\ back > 1 /\ ~(back < 1) /\ new \in 1 .. new
    BY <1>4, <2>7, <2>9 DEF Stray
  <2>11. /\ Grows(entered, h) /\ h.nodes = entered.nodes /\ h.TT = entered.TT
         /\ Graph(h) = Graph(entered) \cup
              IF back > 1 THEN {<<Where(entered, back), Where(entered, new)>>} ELSE {}
         /\ HasStray(h) <=> HasStray(entered) \/ back < 1
    BY <2>1, <2>7, <2>10, AddEdgeFacts
  <2>12. Where(entered, new) = <<p, t>>
    BY <1>3, <2>7, <2>10
  <2>13. /\ Graph(h) = Graph(g) \cup {<<<<p, t - 1>>, <<p, t>>>>} \cup Wrapped
         /\ HasStray(h) <=> HasStray(g) \/ root = Stray
    BY <2>6, <2>9, <2>10, <2>11, <2>12
  <2>14. Grows(g, h)
    BY <1>7, <1>9, <2>6, <2>11 DEF Grows
  <2>15. Layout(h, V)
    BY <2>8, <2>11, SameNodes
  <2>. QED
    BY <1>11, <2>6, <2>11, <2>13, <2>14, <2>15 DEF V, Wrapped
<1>. QED
  BY <1>10, <1>11

(* One iteration of the loop over the connections. *)
LEMMA AddConnectionFacts ==
    ASSUME NEW g \in MRRGs, g.cgra = Array, NEW U, Layout(g, U), Ends(g),
           NEW c \in Array.connections, NEW t \in Nat, AllUnits(t) \subseteq U,
           NEW h, h = AddConnection(g, c, t)
    PROVE  /\ Grows(g, h) /\ h.nodes = g.nodes
           /\ h.TT = IF t > g.TT THEN t ELSE g.TT
           /\ Graph(h) = Graph(g)
                \cup (IF t = 0 THEN {} ELSE {<<<<c[1], t - 1>>, <<c[2], t>>>>})
                \cup (IF t > g.TT THEN G!WrapEdges(Array, t) ELSE {})
           /\ HasStray(h) <=> HasStray(g)
<1>. DEFINE entered == Reenter(g, t)
            s == FU(entered, c[1], t - 1)
            d == FU(entered, c[2], t)
            Wrapped == IF t > g.TT THEN G!WrapEdges(Array, t) ELSE {}
<1>1. g.TT \in Nat /\ Len(g.nodes) \in Nat /\ c[1] \in Array.PEs /\ c[2] \in Array.PEs
  BY LenProperties, StoreAssumption DEF MRRGs
<1>2. CASE t = 0
  <2>1. h = g /\ ~(t > g.TT)
    BY <1>1, <1>2 DEF AddConnection
  <2>2. Grows(g, g)
    BY <1>1 DEF Grows
  <2>. QED
    BY <1>2, <2>1, <2>2
<1>3. CASE t # 0
  <2>1. h = AddEdge(entered, s, d)
    BY <1>3 DEF AddConnection
  <2>. HIDE DEF entered, s, d, Wrapped
  <2>2. t - 1 \in 0 .. t /\ t \in 0 .. t /\ 0 \in 0 .. t /\ t \in Int
    BY <1>3
  <2>3. \A p \in Array.PEs : <<p, t - 1>> \in U /\ <<p, t>> \in U /\ <<p, 0>> \in U
    BY <2>2 DEF AllUnits
  <2>4. /\ Grows(g, entered) /\ entered.nodes = g.nodes
        /\ entered.TT = IF t > g.TT THEN t ELSE g.TT
        /\ Graph(entered) = Graph(g) \cup Wrapped
        /\ HasStray(entered) <=> HasStray(g)
    <3>1. entered = Reenter(g, t)
      BY DEF entered
    <3>. QED
      BY <2>2, <2>3, <3>1, ReenterFacts DEF Wrapped
  <2>5. entered \in MRRGs /\ Ends(entered) /\ Len(entered.nodes) \in Nat
    BY <1>1, <2>4 DEF Grows
  <2>6. Layout(entered, U)
    BY <2>4, SameNodes
  <2>7. \A p \in Array.PEs, x \in 0 .. t :
           <<p, x>> \in U => /\ FU(entered, p, x) \in 2 .. Len(entered.nodes)
                             /\ Where(entered, FU(entered, p, x)) = <<p, x>>
    BY <2>5, <2>6, UnitFound
  <2>8. /\ s \in 2 .. Len(entered.nodes) /\ Where(entered, s) = <<c[1], t - 1>>
        /\ d \in 2 .. Len(entered.nodes) /\ Where(entered, d) = <<c[2], t>>
    BY <1>1, <2>2, <2>3, <2>7 DEF s, d
  <2>9. s \in Stray .. Len(entered.nodes) /\ s > 1 /\ ~(s < 1)
    BY <2>5, <2>8 DEF Stray
  <2>10. /\ Grows(entered, h) /\ h.nodes = entered.nodes /\ h.TT = entered.TT
         /\ Graph(h) = Graph(entered) \cup
              IF s > 1 THEN {<<Where(entered, s), Where(entered, d)>>} ELSE {}
         /\ HasStray(h) <=> HasStray(entered) \/ s < 1
    BY <2>1, <2>5, <2>8, <2>9, AddEdgeFacts
  <2>11. /\ Graph(h) = Graph(g) \cup {<<<<c[1], t - 1>>, <<c[2], t>>>>} \cup Wrapped
         /\ HasStray(h) <=> HasStray(g)
    BY <2>4, <2>8, <2>9, <2>10
  <2>12. Grows(g, h)
    BY <2>4, <2>10 DEF Grows
  <2>. QED
    BY <1>3, <2>4, <2>10, <2>11, <2>12 DEF Wrapped
<1>. QED
  BY <1>2, <1>3
-----------------------------------------------------------------------------
(* One more unit, connection or closed interval, as pairs of units. *)
LEMMA HoldsAndUnit ==
    ASSUME NEW U, NEW p, NEW t \in Nat
    PROVE  Holds(AndUnit(U, p, t)) =
             Holds(U) \cup IF t = 0 THEN {} ELSE {<<<<p, t - 1>>, <<p, t>>>>}
<1>. DEFINE V == AndUnit(U, p, t)
            u0 == <<p, t>>
            hold(u) == <<<<u[1], u[2] - 1>>, u>>
<1>1. \A u : u \in V <=> u \in U \/ u = u0
  BY DEF AndUnit
<1>2. u0[2] > 0 <=> t # 0
  OBVIOUS
<1>3. hold(u0) = <<<<p, t - 1>>, <<p, t>>>>
  OBVIOUS
<1>. HIDE DEF V, u0, hold
<1>4. \A W, e : e \in Holds(W) <=> \E u \in W : u[2] > 0 /\ e = hold(u)
  BY Zenon DEF Holds, hold
<1>5. CASE t = 0
  <2>1. \A e : e \in Holds(V) <=> e \in Holds(U)
    BY <1>1, <1>2, <1>4, <1>5
  <2>. QED
    BY <1>5, <2>1 DEF V
<1>6. CASE t # 0
  <2>1. \A e : e \in Holds(V) <=> e \in Holds(U) \/ e = hold(u0)
    BY <1>1, <1>2, <1>4, <1>6
  <2>2. Holds(V) = Holds(U) \cup {hold(u0)}
    BY <2>1
  <2>. QED
    BY <1>3, <1>6, <2>2 DEF V
<1>. QED
  BY <1>5, <1>6

AndMove(D, w, t) == D \cup {<<w, t>>}

LEMMA MovesAndOne ==
    ASSUME NEW D, NEW w, NEW t
    PROVE  Moves(AndMove(D, w, t)) = Moves(D) \cup {<<<<w[1], t - 1>>, <<w[2], t>>>>}
<1>. DEFINE d0 == <<w, t>>
            move(d) == <<<<d[1][1], d[2] - 1>>, <<d[1][2], d[2]>>>>
            E == AndMove(D, w, t)
<1>1. move(d0) = <<<<w[1], t - 1>>, <<w[2], t>>>>
  OBVIOUS
<1>2. \A d : d \in E <=> d \in D \/ d = d0
  BY DEF AndMove
<1>. HIDE DEF d0, move, E
<1>3. \A X, e : e \in Moves(X) <=> \E d \in X : e = move(d)
  BY Zenon DEF Moves, move
<1>4. \A e : e \in Moves(E) <=> e \in Moves(D) \/ e = move(d0)
  BY <1>2, <1>3
<1>5. Moves(E) = Moves(D) \cup {move(d0)}
  BY <1>4
<1>. QED
  BY <1>1, <1>5 DEF E

LEMMA WrapsAndOne ==
    ASSUME NEW lo \in Nat, NEW hi \in Nat
    PROVE  /\ lo <= hi + 1 => Wraps(lo, hi + 1) = Wraps(lo, hi) \cup G!WrapEdges(Array, hi + 1)
           /\ lo <= hi => Wraps(lo, hi) \cup G!WrapEdges(Array, hi) = Wraps(lo, hi)
           /\ Wraps(lo, lo) = G!WrapEdges(Array, lo)
<1>. DEFINE wrap(T) == G!WrapEdges(Array, T)
<1>. HIDE DEF wrap
<1>1. \A l, h, e : e \in Wraps(l, h) <=> \E T \in l .. h : e \in wrap(T)
  BY DEF Wraps, wrap
<1>2. \A T : T \in lo .. hi + 1 => T \in lo .. hi \/ T = hi + 1
  OBVIOUS
<1>3. \A T \in lo .. hi : T \in lo .. hi + 1
  OBVIOUS
<1>4. lo <= hi + 1 => hi + 1 \in lo .. hi + 1
  OBVIOUS
<1>5. ASSUME lo <= hi + 1 PROVE Wraps(lo, hi + 1) = Wraps(lo, hi) \cup wrap(hi + 1)
  <2>1. \A e : e \in Wraps(lo, hi + 1) <=> e \in Wraps(lo, hi) \/ e \in wrap(hi + 1)
    BY <1>1, <1>2, <1>3, <1>4, <1>5
  <2>. QED
    BY <2>1
<1>6. ASSUME lo <= hi PROVE Wraps(lo, hi) \cup wrap(hi) = Wraps(lo, hi)
  <2>1. hi \in lo .. hi
    BY <1>6
  <2>. QED
    BY <1>1, <2>1
<1>7. Wraps(lo, lo) = wrap(lo)
  <2>1. \A T : T \in lo .. lo <=> T = lo
    OBVIOUS
  <2>2. \A e : e \in Wraps(lo, lo) <=> e \in wrap(lo)
    BY <1>1, <2>1
  <2>. QED
    BY <2>2 DEF Wraps, wrap, G!WrapEdges
<1>. QED
  BY <1>5, <1>6, <1>7 DEF wrap
-----------------------------------------------------------------------------
(* The loop over the units, one iteration. *)
LEMMA UnitStepParts ==
    ASSUME NEW c \in Calls, c.g.cgra = Array, NEW d, d = UnitStep(c)
    PROVE  /\ d = [m |-> c.m, pc |-> d.pc, k |-> d.k, t |-> d.t, startT |-> c.startT,
                   T |-> c.T, rootnode |-> c.rootnode, g |-> d.g]
           /\ d.g = AddUnit(c.g, c.rootnode, PEVector[c.k], c.t)
           /\ c.k < Len(PEVector) => d.pc = c.pc /\ d.k = c.k + 1 /\ d.t = c.t
           /\ ~(c.k < Len(PEVector)) /\ c.t < c.T => d.pc = c.pc /\ d.k = 1 /\ d.t = c.t + 1
           /\ ~(c.k < Len(PEVector)) /\ ~(c.t < c.T) =>
                 d.pc = "connections" /\ d.k = 1 /\ d.t = c.startT
<1>. DEFINE next == IF c.k < Len(PEVector) THEN [c EXCEPT !.k = @ + 1]
                    ELSE IF c.t < c.T THEN [c EXCEPT !.k = 1, !.t = @ + 1]
                    ELSE [c EXCEPT !.pc = "connections", !.k = 1, !.t = c.startT]
            h == AddUnit(c.g, c.rootnode, PEVector[c.k], c.t)
<1>1. PEsOf(c.g.cgra) = PEVector
  BY DEF PEVector
<1>2. next.g = c.g
  BY DEF Calls
<1>3. d = [next EXCEPT !.g = h]
  BY <1>1, <1>2 DEF UnitStep
<1>. HIDE DEF h
<1>4. CASE c.k < Len(PEVector)
  <2>1. next = [m |-> c.m, pc |-> c.pc, k |-> c.k + 1, t |-> c.t, startT |-> c.startT,
                T |-> c.T, rootnode |-> c.rootnode, g |-> c.g]
    BY <1>4 DEF Calls
  <2>. HIDE DEF next
  <2>2. d = [m |-> c.m, pc |-> c.pc, k |-> c.k + 1, t |-> c.t, startT |-> c.startT,
             T |-> c.T, rootnode |-> c.rootnode, g |-> h]
    BY <1>3, <2>1
  <2>. QED
    BY <1>4, <2>2 DEF h
<1>5. CASE ~(c.k < Len(PEVector)) /\ c.t < c.T
  <2>1. next = [m |-> c.m, pc |-> c.pc, k |-> 1, t |-> c.t + 1, startT |-> c.startT,
                T |-> c.T, rootnode |-> c.rootnode, g |-> c.g]
    BY <1>5 DEF Calls
  <2>. HIDE DEF next
  <2>2. d = [m |-> c.m, pc |-> c.pc, k |-> 1, t |-> c.t + 1, startT |-> c.startT,
             T |-> c.T, rootnode |-> c.rootnode, g |-> h]
    BY <1>3, <2>1
  <2>. QED
    BY <1>5, <2>2 DEF h
<1>6. CASE ~(c.k < Len(PEVector)) /\ ~(c.t < c.T)
  <2>1. next = [m |-> c.m, pc |-> "connections", k |-> 1, t |-> c.startT, startT |-> c.startT,
                T |-> c.T, rootnode |-> c.rootnode, g |-> c.g]
    BY <1>6 DEF Calls
  <2>. HIDE DEF next
  <2>2. d = [m |-> c.m, pc |-> "connections", k |-> 1, t |-> c.startT, startT |-> c.startT,
             T |-> c.T, rootnode |-> c.rootnode, g |-> h]
    BY <1>3, <2>1
  <2>. QED
    BY <1>6, <2>2 DEF h
<1>. QED
  BY <1>4, <1>5, <1>6

LEMMA ConnectionStepParts ==
    ASSUME NEW c \in Calls, c.g.cgra = Array, NEW d, d = ConnectionStep(c)
    PROVE  /\ d = [m |-> c.m, pc |-> c.pc, k |-> d.k, t |-> d.t, startT |-> c.startT,
                   T |-> c.T, rootnode |-> c.rootnode, g |-> d.g]
           /\ d.g = AddConnection(c.g, Wires[c.k], c.t)
           /\ c.t < c.T => d.k = c.k /\ d.t = c.t + 1
           /\ ~(c.t < c.T) => d.k = c.k + 1 /\ d.t = c.startT
<1>. DEFINE next == IF c.t < c.T THEN [c EXCEPT !.t = @ + 1]
                    ELSE [c EXCEPT !.k = @ + 1, !.t = c.startT]
            h == AddConnection(c.g, Wires[c.k], c.t)
<1>1. ConnectionsOf(c.g.cgra) = Wires
  BY DEF Wires
<1>2. next.g = c.g
  BY DEF Calls
<1>3. d = [next EXCEPT !.g = h]
  BY <1>1, <1>2 DEF ConnectionStep
<1>. HIDE DEF h
<1>4. CASE c.t < c.T
  <2>1. next = [m |-> c.m, pc |-> c.pc, k |-> c.k, t |-> c.t + 1, startT |-> c.startT,
                T |-> c.T, rootnode |-> c.rootnode, g |-> c.g]
    BY <1>4 DEF Calls
  <2>. HIDE DEF next
  <2>2. d = [m |-> c.m, pc |-> c.pc, k |-> c.k, t |-> c.t + 1, startT |-> c.startT,
             T |-> c.T, rootnode |-> c.rootnode, g |-> h]
    BY <1>3, <2>1
  <2>. QED
    BY <1>4, <2>2 DEF h
<1>5. CASE ~(c.t < c.T)
  <2>1. next = [m |-> c.m, pc |-> c.pc, k |-> c.k + 1, t |-> c.startT, startT |-> c.startT,
                T |-> c.T, rootnode |-> c.rootnode, g |-> c.g]
    BY <1>5 DEF Calls
  <2>. HIDE DEF next
  <2>2. d = [m |-> c.m, pc |-> c.pc, k |-> c.k + 1, t |-> c.startT, startT |-> c.startT,
             T |-> c.T, rootnode |-> c.rootnode, g |-> h]
    BY <1>3, <2>1
  <2>. QED
    BY <1>5, <2>2 DEF h
<1>. QED
  BY <1>4, <1>5

(* What an iteration adds to the units and to the moves of a call. *)
LEMMA UnitStepBuilds ==
    ASSUME NEW c \in Calls, c.g.cgra = Array, Progress(c), c.pc = "units",
           NEW d, d = UnitStep(c)
    PROVE  /\ PEVector[c.k] \in Array.PEs /\ AllUnits(c.t - 1) \subseteq UnitsBuilt(c)
           /\ <<PEVector[c.k], c.t>> \notin UnitsBuilt(c)
           /\ UnitsBuilt(d) = AndUnit(UnitsBuilt(c), PEVector[c.k], c.t)
           /\ MovesBuilt(d) = MovesBuilt(c)
<1>. DEFINE n == Len(PEVector)
            some(k) == {<<PEVector[j], c.t>> : j \in 1 .. k - 1}
            first == Array.connections \X (1 .. c.startT - 1)
<1>1. /\ c.k \in Nat \ {0} /\ c.t \in Nat /\ c.T \in Nat /\ c.startT \in Nat
      /\ c.k <= n /\ c.t <= c.T /\ n \in Nat
  BY VectorFacts DEF Calls, Progress
<1>2. /\ \A j \in 1 .. n : PEVector[j] \in Array.PEs
      /\ \A p \in Array.PEs : \E j \in 1 .. n : PEVector[j] = p
      /\ \A i, j \in 1 .. n : PEVector[i] = PEVector[j] => i = j
  BY VectorFacts, SeqIsFunction
<1>3. c.k \in 1 .. n /\ \A j \in 1 .. c.k - 1 : j \in 1 .. n /\ j # c.k
  BY <1>1
<1>4. UnitsBuilt(c) = AllUnits(c.t - 1) \cup some(c.k) /\ MovesBuilt(c) = first
  BY DEF UnitsBuilt, MovesBuilt
<1>5. /\ d.t = IF c.k < n THEN c.t ELSE IF c.t < c.T THEN c.t + 1 ELSE c.startT
      /\ d.T = c.T /\ d.startT = c.startT
      /\ c.k < n => d.pc = c.pc /\ d.k = c.k + 1
      /\ ~(c.k < n) /\ c.t < c.T => d.pc = c.pc /\ d.k = 1
      /\ ~(c.k < n) /\ ~(c.t < c.T) => d.pc = "connections" /\ d.k = 1
  <2>1. /\ d = [m |-> c.m, pc |-> d.pc, k |-> d.k, t |-> d.t, startT |-> c.startT,
                T |-> c.T, rootnode |-> c.rootnode, g |-> d.g]
        /\ c.k < n => d.pc = c.pc /\ d.k = c.k + 1 /\ d.t = c.t
        /\ ~(c.k < n) /\ c.t < c.T => d.pc = c.pc /\ d.k = 1 /\ d.t = c.t + 1
        /\ ~(c.k < n) /\ ~(c.t < c.T) => d.pc = "connections" /\ d.k = 1 /\ d.t = c.startT
    BY UnitStepParts
  <2>2. d.T = c.T /\ d.startT = c.startT
    BY <2>1
  <2>. QED
    BY <2>1, <2>2
<1>6. <<PEVector[c.k], c.t>> \notin UnitsBuilt(c)
  <2>1. <<PEVector[c.k], c.t>> \notin AllUnits(c.t - 1)
    BY <1>1 DEF AllUnits
  <2>2. <<PEVector[c.k], c.t>> \notin some(c.k)
    BY <1>2, <1>3
  <2>. QED
    BY <1>4, <2>1, <2>2
<1>7. some(c.k + 1) = some(c.k) \cup {<<PEVector[c.k], c.t>>}
  <2>1. 1 .. (c.k + 1) - 1 = (1 .. c.k - 1) \cup {c.k}
    BY <1>1
  <2>. QED
    BY <2>1
<1>8. ~(c.k < n) => AllUnits(c.t - 1) \cup some(c.k + 1) = AllUnits(c.t)
  <2>1. SUFFICES ASSUME ~(c.k < n)
                 PROVE  AllUnits(c.t - 1) \cup some(c.k + 1) = AllUnits(c.t)
    OBVIOUS
  <2>2. (c.k + 1) - 1 = n
    BY <1>1, <2>1
  <2>3. some(c.k + 1) = {<<p, c.t>> : p \in Array.PEs}
    BY <1>2, <2>2
  <2>4. 0 .. c.t = (0 .. c.t - 1) \cup {c.t}
    BY <1>1
  <2>5. Array.PEs \X {c.t} = {<<p, c.t>> : p \in Array.PEs}
    OBVIOUS
  <2>. QED
    BY <2>3, <2>4, <2>5 DEF AllUnits
<1>9. UnitsBuilt(d) = AndUnit(UnitsBuilt(c), PEVector[c.k], c.t)
  <2>1. AndUnit(UnitsBuilt(c), PEVector[c.k], c.t) = AllUnits(c.t - 1) \cup some(c.k + 1)
    BY <1>4, <1>7 DEF AndUnit
  <2>2. CASE c.k < n
    BY <1>1, <1>5, <2>1, <2>2 DEF UnitsBuilt
  <2>3. CASE ~(c.k < n) /\ c.t < c.T
    <3>1. UnitsBuilt(d) = AllUnits((c.t + 1) - 1) \cup {<<PEVector[j], d.t>> : j \in 1 .. 1 - 1}
      BY <1>5, <2>3 DEF UnitsBuilt
    <3>2. (c.t + 1) - 1 = c.t /\ 1 .. 1 - 1 = {}
      BY <1>1
    <3>. QED
      BY <1>8, <2>1, <2>3, <3>1, <3>2
  <2>4. CASE ~(c.k < n) /\ ~(c.t < c.T)
    <3>1. c.t = c.T
      BY <1>1, <2>4
    <3>. QED
      BY <1>5, <1>8, <2>1, <2>4, <3>1 DEF UnitsBuilt
  <2>. QED
    BY <2>2, <2>3, <2>4
<1>10. MovesBuilt(d) = first
  <2>1. CASE d.pc = "units"
    BY <1>5, <2>1 DEF MovesBuilt
  <2>2. CASE d.pc # "units"
    <3>1. d.k = 1 /\ d.t = c.startT
      BY <1>1, <1>5, <2>2
    <3>2. MovesBuilt(d) = first \cup (({Wires[j] : j \in 1 .. 1 - 1} \X (1 .. c.T))
            \cup {<<Wires[1], s>> : s \in {s \in 1 .. c.startT - 1 : 1 <= Len(Wires)}})
      BY <1>5, <2>2, <3>1 DEF MovesBuilt
    <3>3. 1 <= Len(Wires) => Wires[1] \in Array.connections
      BY VectorFacts, SeqIsFunction
    <3>4. 1 .. 1 - 1 = {}
      OBVIOUS
    <3>5. {<<Wires[1], s>> : s \in {s \in 1 .. c.startT - 1 : 1 <= Len(Wires)}} \subseteq first
      BY <3>3
    <3>. QED
      BY <3>2, <3>4, <3>5
  <2>. QED
    BY <2>1, <2>2
<1>11. AllUnits(c.t - 1) \subseteq UnitsBuilt(c)
  BY <1>4
<1>. QED
  BY <1>2, <1>3, <1>4, <1>6, <1>9, <1>10, <1>11

LEMMA ConnectionStepBuilds ==
    ASSUME NEW c \in Calls, c.g.cgra = Array, Progress(c), 1 <= c.g.II,
           c.pc = "connections", c.k <= Len(Wires), NEW d, d = ConnectionStep(c)
    PROVE  /\ Wires[c.k] \in Array.connections /\ AllUnits(c.t) \subseteq UnitsBuilt(c)
           /\ UnitsBuilt(d) = UnitsBuilt(c)
           /\ c.t = 0 => MovesBuilt(d) = MovesBuilt(c)
           /\ c.t # 0 => MovesBuilt(d) = AndMove(MovesBuilt(c), Wires[c.k], c.t)
<1>. DEFINE n == Len(Wires)
            done(k) == {Wires[j] : j \in 1 .. k - 1} \X (1 .. c.T)
            now(k, t) == {<<Wires[k], s>> : s \in {s \in 1 .. t - 1 : k <= n}}
            first == Array.connections \X (1 .. c.startT - 1)
<1>1. /\ c.k \in Nat \ {0} /\ c.t \in Nat /\ c.T \in Nat /\ c.startT \in Nat
      /\ c.k <= n /\ c.t <= c.T /\ c.startT <= c.t /\ n \in Nat
      /\ c.g.II \in Nat /\ (c.startT = 0 => c.g.II = c.T)
  BY VectorFacts DEF Calls, Progress, MRRGs
<1>2. c.k \in 1 .. n /\ c.T >= 1
  <2>1. c.startT = 0 => c.T >= 1
    BY <1>1
  <2>. QED
    BY <1>1, <2>1
<1>3. \A j \in 1 .. n : Wires[j] \in Array.connections
  BY VectorFacts, SeqIsFunction
<1>4. UnitsBuilt(c) = AllUnits(c.T) /\ MovesBuilt(c) = first \cup (done(c.k) \cup now(c.k, c.t))
  BY DEF UnitsBuilt, MovesBuilt
<1>5. /\ d.T = c.T /\ d.startT = c.startT /\ d.pc = c.pc
      /\ c.t < c.T => d.k = c.k /\ d.t = c.t + 1
      /\ ~(c.t < c.T) => d.k = c.k + 1 /\ d.t = c.startT
  <2>1. /\ d = [m |-> c.m, pc |-> c.pc, k |-> d.k, t |-> d.t, startT |-> c.startT,
                T |-> c.T, rootnode |-> c.rootnode, g |-> d.g]
        /\ c.t < c.T => d.k = c.k /\ d.t = c.t + 1
        /\ ~(c.t < c.T) => d.k = c.k + 1 /\ d.t = c.startT
    BY ConnectionStepParts
  <2>2. d.T = c.T /\ d.startT = c.startT /\ d.pc = c.pc
    BY <2>1
  <2>. QED
    BY <2>1, <2>2
<1>6. UnitsBuilt(d) = AllUnits(c.T) /\ MovesBuilt(d) = first \cup (done(d.k) \cup now(d.k, d.t))
  BY <1>5 DEF UnitsBuilt, MovesBuilt
<1>7. AllUnits(c.t) \subseteq AllUnits(c.T)
  <2>1. 0 .. c.t \subseteq 0 .. c.T
    BY <1>1
  <2>. QED
    BY <2>1 DEF AllUnits
<1>8. CASE c.t < c.T
  <2>1. 1 .. (c.t + 1) - 1 = (1 .. c.t - 1) \cup (IF c.t = 0 THEN {} ELSE {c.t})
    BY <1>1
  <2>2. now(c.k, c.t + 1) = now(c.k, c.t) \cup (IF c.t = 0 THEN {} ELSE {<<Wires[c.k], c.t>>})
    <3>1. {s \in 1 .. (c.t + 1) - 1 : c.k <= n} = 1 .. (c.t + 1) - 1
      BY <1>1
    <3>2. {s \in 1 .. c.t - 1 : c.k <= n} = 1 .. c.t - 1
      BY <1>1
    <3>. QED
      BY <2>1, <3>1, <3>2
  <2>. HIDE DEF done, now, first
  <2>. QED
    BY <1>2, <1>3, <1>4, <1>5, <1>6, <1>7, <1>8, <2>2 DEF AndMove
<1>9. CASE ~(c.t < c.T)
  <2>1. c.t = c.T /\ c.t # 0
    BY <1>1, <1>2, <1>9
  <2>2. now(c.k + 1, c.startT) \subseteq first
    <3>1. c.k + 1 <= n => Wires[c.k + 1] \in Array.connections
      BY <1>1, <1>3
    <3>. QED
      BY <3>1
  <2>3. done(c.k + 1) = done(c.k) \cup ({Wires[c.k]} \X (1 .. c.T))
    <3>1. 1 .. (c.k + 1) - 1 = (1 .. c.k - 1) \cup {c.k}
      BY <1>1
    <3>2. {Wires[j] : j \in 1 .. (c.k + 1) - 1} = {Wires[j] : j \in 1 .. c.k - 1} \cup {Wires[c.k]}
      BY <3>1
    <3>. QED
      BY <3>2
  <2>4. {Wires[c.k]} \X (1 .. c.T) = now(c.k, c.t) \cup {<<Wires[c.k], c.t>>}
    <3>1. {s \in 1 .. c.t - 1 : c.k <= n} = 1 .. c.t - 1
      BY <1>1
    <3>2. 1 .. c.T = (1 .. c.t - 1) \cup {c.t}
      BY <1>1, <2>1
    <3>3. now(c.k, c.t) = {<<Wires[c.k], s>> : s \in 1 .. c.t - 1}
      BY <3>1
    <3>4. {Wires[c.k]} \X (1 .. c.T) = {<<Wires[c.k], s>> : s \in (1 .. c.t - 1) \cup {c.t}}
      BY <3>2
    <3>. QED
      BY <3>3, <3>4
  <2>. HIDE DEF done, now, first
  <2>5. MovesBuilt(d) = MovesBuilt(c) \cup {<<Wires[c.k], c.t>>}
    BY <1>4, <1>5, <1>6, <1>9, <2>2, <2>3, <2>4
  <2>. QED
    BY <1>2, <1>3, <1>4, <1>6, <1>7, <2>1, <2>5 DEF AndMove
<1>. QED
  BY <1>8, <1>9
-----------------------------------------------------------------------------
(* What each iteration makes of the graph of a call. *)
LEMMA UnitStepFacts ==
    ASSUME NEW c, Partial(c), c.pc = "units", NEW d, d = UnitStep(c)
    PROVE  Partial(d) /\ Grows(c.g, d.g) /\ d.m = c.m /\ d.startT = c.startT
<1>. DEFINE p == PEVector[c.k]
            n == Len(PEVector)
            g == c.g
            h == d.g
            Hold == IF c.t = 0 THEN {} ELSE {<<<<p, c.t - 1>>, <<p, c.t>>>>}
            Closed(i) == IF c.startT = 0 THEN {} ELSE Wraps(g.II, i)
<1>1. /\ c \in Calls /\ g.cgra = Array /\ 1 <= g.II /\ Progress(c)
      /\ Layout(g, UnitsBuilt(c)) /\ Ends(g)
      /\ Graph(g) = Holds(UnitsBuilt(c)) \cup Moves(MovesBuilt(c)) \cup Closed(g.TT)
      /\ c.startT = 0 => ~HasStray(g)
      /\ c.rootnode = Stray => c.startT # 0
  BY DEF Partial
<1>2. /\ c.m \in Objects /\ c.k \in Nat \ {0} /\ c.t \in Nat /\ c.T \in Nat /\ c.startT \in Nat
      /\ c.rootnode \in {1, Stray} /\ g \in MRRGs
  BY <1>1 DEF Calls
<1>3. g.II \in Nat /\ g.TT \in Nat /\ n \in Nat \ {0}
  BY <1>2, VectorFacts DEF MRRGs
<1>4. /\ c.startT <= c.t /\ c.t <= c.T /\ c.k <= n
      /\ c.startT = 0 => g.II = c.T /\ g.TT = c.T
      /\ c.startT # 0 => /\ g.II < c.startT /\ c.startT - 1 <= g.TT
                         /\ c.t - 2 <= g.TT /\ g.TT < c.t
  BY <1>1 DEF Progress
<1>5. g.TT >= 1
  BY <1>1, <1>2, <1>3, <1>4
<1>6. /\ d = [m |-> c.m, pc |-> d.pc, k |-> d.k, t |-> d.t, startT |-> c.startT,
              T |-> c.T, rootnode |-> c.rootnode, g |-> h]
      /\ h = AddUnit(g, c.rootnode, p, c.t)
      /\ c.k < n => d.pc = c.pc /\ d.k = c.k + 1 /\ d.t = c.t
      /\ ~(c.k < n) /\ c.t < c.T => d.pc = c.pc /\ d.k = 1 /\ d.t = c.t + 1
      /\ ~(c.k < n) /\ ~(c.t < c.T) => d.pc = "connections" /\ d.k = 1 /\ d.t = c.startT
  BY <1>1, UnitStepParts
<1>7. /\ p \in Array.PEs /\ AllUnits(c.t - 1) \subseteq UnitsBuilt(c)
      /\ <<p, c.t>> \notin UnitsBuilt(c)
      /\ UnitsBuilt(d) = AndUnit(UnitsBuilt(c), p, c.t)
      /\ MovesBuilt(d) = MovesBuilt(c)
  BY <1>1, UnitStepBuilds
<1>. HIDE DEF p, n
<1>8. /\ d.m = c.m /\ d.startT = c.startT /\ d.T = c.T /\ d.rootnode = c.rootnode
  BY <1>6
<1>9. /\ Grows(g, h) /\ Layout(h, UnitsBuilt(d))
      /\ h.TT = IF c.t - 1 > g.TT THEN c.t - 1 ELSE g.TT
      /\ Graph(h) = Graph(g) \cup Hold
                     \cup (IF c.t - 1 > g.TT THEN G!WrapEdges(Array, c.t - 1) ELSE {})
      /\ HasStray(h) <=> HasStray(g) \/ c.rootnode = Stray
  <2>1. /\ Grows(g, h) /\ Layout(h, AndUnit(UnitsBuilt(c), p, c.t))
        /\ h.TT = IF c.t - 1 > g.TT THEN c.t - 1 ELSE g.TT
        /\ Graph(h) = Graph(g)
             \cup (IF c.t = 0 THEN {} ELSE {<<<<p, c.t - 1>>, <<p, c.t>>>>})
             \cup (IF c.t - 1 > g.TT THEN G!WrapEdges(Array, c.t - 1) ELSE {})
        /\ HasStray(h) <=> HasStray(g) \/ c.rootnode = Stray
    <3>. HIDE DEF g, h
    <3>. QED
      BY <1>1, <1>2, <1>5, <1>6, <1>7, AddUnitFacts
  <2>. QED
    BY <1>7, <2>1
<1>10. h \in MRRGs /\ h.cgra = Array /\ h.II = g.II /\ Ends(h)
  BY <1>1, <1>9 DEF Grows
<1>. HIDE DEF Hold, Closed, g, h
<1>11. h.TT = IF c.startT = 0 THEN g.TT ELSE c.t - 1
  BY <1>2, <1>3, <1>4, <1>9
<1>12. Graph(h) = Holds(UnitsBuilt(d)) \cup Moves(MovesBuilt(d)) \cup Closed(h.TT)
  <2>1. Holds(UnitsBuilt(d)) = Holds(UnitsBuilt(c)) \cup Hold
    BY <1>2, <1>7, HoldsAndUnit DEF Hold
  <2>2. Closed(h.TT) = Closed(g.TT)
                         \cup (IF c.t - 1 > g.TT THEN G!WrapEdges(Array, c.t - 1) ELSE {})
    <3>1. CASE ~(c.t - 1 > g.TT)
      BY <1>9, <3>1
    <3>2. CASE c.t - 1 > g.TT
      <4>1. c.startT # 0 /\ c.t - 1 = g.TT + 1 /\ g.II <= g.TT + 1
        BY <1>2, <1>3, <1>4, <3>2
      <4>2. Wraps(g.II, g.TT + 1) = Wraps(g.II, g.TT) \cup G!WrapEdges(Array, g.TT + 1)
        BY <1>3, <4>1, WrapsAndOne
      <4>3. h.TT = g.TT + 1
        BY <1>11, <4>1
      <4>. QED
        BY <3>2, <4>1, <4>2, <4>3 DEF Closed
    <3>. QED
      BY <3>1, <3>2
  <2>3. Graph(h) = Graph(g) \cup Hold
                     \cup (IF c.t - 1 > g.TT THEN G!WrapEdges(Array, c.t - 1) ELSE {})
    BY <1>9
  <2>. QED
    BY <1>1, <1>7, <2>1, <2>2, <2>3
<1>13. /\ d.pc \in {"units", "connections"} /\ d.k \in Nat \ {0} /\ d.t \in Nat
       /\ d.t <= c.T /\ c.startT <= d.t
       /\ d.pc = "units" => d.k <= n
       /\ d.pc = "connections" => d.k = 1 /\ c.t = c.T
  BY <1>2, <1>3, <1>4, <1>6
<1>14. d \in Calls
  <2>1. d = [m |-> c.m, pc |-> d.pc, k |-> d.k, t |-> d.t, startT |-> c.startT,
             T |-> c.T, rootnode |-> c.rootnode, g |-> h]
    BY <1>6
  <2>. QED
    BY <1>2, <1>10, <1>13, <2>1 DEF Calls
<1>15. Progress(d)
  <2>1. d.pc = "units" => \/ d.k = c.k + 1 /\ d.t = c.t
                          \/ d.k = 1 /\ d.t = c.t + 1
    BY <1>6
  <2>2. c.startT # 0 =>
          /\ h.II < c.startT /\ c.startT - 1 <= h.TT
          /\ d.pc = "units" => /\ d.t - 2 <= h.TT /\ h.TT < d.t
                               /\ d.k > 1 \/ d.t = c.startT => h.TT = d.t - 1
          /\ d.pc = "connections" => c.T - 1 <= h.TT /\ h.TT <= c.T
    BY <1>2, <1>3, <1>4, <1>10, <1>11, <1>13, <2>1
  <2>3. c.startT = 0 => h.II = c.T /\ h.TT = c.T
    BY <1>4, <1>10, <1>11
  <2>4. d.pc = "connections" => d.k <= Len(Wires) + 1
    <3>1. Len(Wires) \in Nat
      BY VectorFacts
    <3>. QED
      BY <1>13, <3>1
  <2>. QED
    BY <1>8, <1>13, <2>2, <2>3, <2>4 DEF Progress, n, h
<1>16. c.startT = 0 => ~HasStray(h)
  BY <1>1, <1>9
<1>17. Partial(d)
  <2>1. Graph(d.g) = Holds(UnitsBuilt(d)) \cup Moves(MovesBuilt(d))
                      \cup IF d.startT = 0 THEN {} ELSE Wraps(d.g.II, d.g.TT)
    BY <1>8, <1>10, <1>12 DEF Closed, h
  <2>2. d.g.cgra = Array /\ 1 <= d.g.II /\ Layout(d.g, UnitsBuilt(d)) /\ Ends(d.g)
    BY <1>1, <1>9, <1>10 DEF h
  <2>3. (d.rootnode = Stray => d.startT # 0) /\ (d.startT = 0 => ~HasStray(d.g))
    BY <1>1, <1>8, <1>16 DEF h
  <2>. QED
    BY <1>14, <1>15, <2>1, <2>2, <2>3 DEF Partial
<1>. QED
  BY <1>8, <1>9, <1>17 DEF g, h

LEMMA ConnectionStepFacts ==
    ASSUME NEW c, Partial(c), c.pc = "connections", ~Returns(c), NEW d, d = ConnectionStep(c)
    PROVE  Partial(d) /\ Grows(c.g, d.g) /\ d.m = c.m /\ d.startT = c.startT
<1>. DEFINE w == Wires[c.k]
            n == Len(Wires)
            g == c.g
            h == d.g
            Move == IF c.t = 0 THEN {} ELSE {<<<<w[1], c.t - 1>>, <<w[2], c.t>>>>}
            Closed(i) == IF c.startT = 0 THEN {} ELSE Wraps(g.II, i)
<1>1. /\ c \in Calls /\ g.cgra = Array /\ 1 <= g.II /\ Progress(c)
      /\ Layout(g, UnitsBuilt(c)) /\ Ends(g)
      /\ Graph(g) = Holds(UnitsBuilt(c)) \cup Moves(MovesBuilt(c)) \cup Closed(g.TT)
      /\ c.startT = 0 => ~HasStray(g)
      /\ c.rootnode = Stray => c.startT # 0
  BY DEF Partial
<1>2. /\ c.m \in Objects /\ c.k \in Nat \ {0} /\ c.t \in Nat /\ c.T \in Nat /\ c.startT \in Nat
      /\ c.rootnode \in {1, Stray} /\ g \in MRRGs
  BY <1>1 DEF Calls
<1>3. g.II \in Nat /\ g.TT \in Nat /\ n \in Nat
  BY <1>2, VectorFacts DEF MRRGs
<1>4. /\ c.startT <= c.t /\ c.t <= c.T
      /\ c.startT = 0 => g.II = c.T /\ g.TT = c.T
      /\ c.startT # 0 => /\ g.II < c.startT /\ c.startT - 1 <= g.TT
                         /\ c.T - 1 <= g.TT /\ g.TT <= c.T
  BY <1>1 DEF Progress
<1>5. c.k <= n
  <2>1. ConnectionsOf(g.cgra) = Wires
    BY <1>1 DEF Wires
  <2>2. ~(c.k > n)
    BY <2>1 DEF Returns
  <2>. QED
    BY <1>2, <1>3, <2>2
<1>6. /\ d = [m |-> c.m, pc |-> c.pc, k |-> d.k, t |-> d.t, startT |-> c.startT,
              T |-> c.T, rootnode |-> c.rootnode, g |-> h]
      /\ h = AddConnection(g, w, c.t)
      /\ c.t < c.T => d.k = c.k /\ d.t = c.t + 1
      /\ ~(c.t < c.T) => d.k = c.k + 1 /\ d.t = c.startT
  BY <1>1, ConnectionStepParts
<1>7. /\ w \in Array.connections /\ AllUnits(c.t) \subseteq UnitsBuilt(c)
      /\ UnitsBuilt(d) = UnitsBuilt(c)
      /\ c.t = 0 => MovesBuilt(d) = MovesBuilt(c)
      /\ c.t # 0 => MovesBuilt(d) = AndMove(MovesBuilt(c), w, c.t)
  BY <1>1, <1>5, ConnectionStepBuilds
<1>. HIDE DEF w, n
<1>8. /\ d.m = c.m /\ d.startT = c.startT /\ d.T = c.T /\ d.rootnode = c.rootnode
      /\ d.pc = "connections"
  BY <1>6
<1>9. /\ Grows(g, h) /\ h.nodes = g.nodes
      /\ h.TT = IF c.t > g.TT THEN c.t ELSE g.TT
      /\ Graph(h) = Graph(g) \cup Move
                     \cup (IF c.t > g.TT THEN G!WrapEdges(Array, c.t) ELSE {})
      /\ HasStray(h) <=> HasStray(g)
  <2>1. /\ Grows(g, h) /\ h.nodes = g.nodes
        /\ h.TT = IF c.t > g.TT THEN c.t ELSE g.TT
        /\ Graph(h) = Graph(g)
             \cup (IF c.t = 0 THEN {} ELSE {<<<<w[1], c.t - 1>>, <<w[2], c.t>>>>})
             \cup (IF c.t > g.TT THEN G!WrapEdges(Array, c.t) ELSE {})
        /\ HasStray(h) <=> HasStray(g)
    <3>. HIDE DEF g, h
    <3>. QED
      BY <1>1, <1>2, <1>6, <1>7, AddConnectionFacts
  <2>. QED
    BY <2>1
<1>10. h \in MRRGs /\ h.cgra = Array /\ h.II = g.II /\ Ends(h)
  BY <1>1, <1>9 DEF Grows
<1>. HIDE DEF Move, Closed, g, h
<1>11. /\ c.startT = 0 => h.TT = g.TT
       /\ c.startT # 0 => c.startT - 1 <= h.TT /\ c.T - 1 <= h.TT /\ h.TT <= c.T
  BY <1>2, <1>3, <1>4, <1>9
<1>12. Graph(h) = Holds(UnitsBuilt(d)) \cup Moves(MovesBuilt(d)) \cup Closed(h.TT)
  <2>1. Moves(MovesBuilt(d)) = Moves(MovesBuilt(c)) \cup Move
    BY <1>7, MovesAndOne DEF Move
  <2>2. Closed(h.TT) = Closed(g.TT)
                         \cup (IF c.t > g.TT THEN G!WrapEdges(Array, c.t) ELSE {})
    <3>1. CASE ~(c.t > g.TT)
      BY <1>9, <3>1
    <3>2. CASE c.t > g.TT
      <4>1. c.startT # 0 /\ c.t = g.TT + 1 /\ g.II <= g.TT + 1
        BY <1>2, <1>3, <1>4, <3>2
      <4>2. Wraps(g.II, g.TT + 1) = Wraps(g.II, g.TT) \cup G!WrapEdges(Array, g.TT + 1)
        BY <1>3, <4>1, WrapsAndOne
      <4>3. h.TT = g.TT + 1
        BY <1>9, <3>2, <4>1
      <4>. QED
        BY <3>2, <4>1, <4>2, <4>3 DEF Closed
    <3>. QED
      BY <3>1, <3>2
  <2>3. Graph(h) = Graph(g) \cup Move
                     \cup (IF c.t > g.TT THEN G!WrapEdges(Array, c.t) ELSE {})
    BY <1>9
  <2>. QED
    BY <1>1, <1>7, <2>1, <2>2, <2>3
<1>13. /\ d.k \in Nat \ {0} /\ d.t \in Nat
       /\ d.t <= c.T /\ c.startT <= d.t /\ d.k <= n + 1
  BY <1>2, <1>3, <1>4, <1>5, <1>6
<1>14. d \in Calls
  <2>1. d = [m |-> c.m, pc |-> c.pc, k |-> d.k, t |-> d.t, startT |-> c.startT,
             T |-> c.T, rootnode |-> c.rootnode, g |-> h]
    BY <1>6
  <2>. QED
    BY <1>2, <1>10, <1>13, <2>1 DEF Calls
<1>15. Progress(d)
  <2>1. c.startT # 0 =>
          /\ h.II < c.startT /\ c.startT - 1 <= h.TT
          /\ c.T - 1 <= h.TT /\ h.TT <= c.T
    BY <1>4, <1>10, <1>11
  <2>2. c.startT = 0 => h.II = c.T /\ h.TT = c.T
    BY <1>4, <1>10, <1>11
  <2>. QED
    BY <1>8, <1>13, <2>1, <2>2 DEF Progress, n, h
<1>16. Partial(d)
  <2>1. Graph(d.g) = Holds(UnitsBuilt(d)) \cup Moves(MovesBuilt(d))
                      \cup IF d.startT = 0 THEN {} ELSE Wraps(d.g.II, d.g.TT)
    BY <1>8, <1>10, <1>12 DEF Closed, h
  <2>2. d.g.cgra = Array /\ 1 <= d.g.II /\ Ends(d.g)
    BY <1>1, <1>10 DEF h
  <2>3. Layout(d.g, UnitsBuilt(d))
    BY <1>1, <1>7, <1>9, SameNodes DEF h
  <2>4. (d.rootnode = Stray => d.startT # 0) /\ (d.startT = 0 => ~HasStray(d.g))
    BY <1>1, <1>8, <1>9 DEF h
  <2>. QED
    BY <1>14, <1>15, <2>1, <2>2, <2>3, <2>4 DEF Partial
<1>. QED
  BY <1>8, <1>9, <1>16 DEF g, h

(* The end of a call leaves a whole graph. *)
LEMMA ReturnFacts ==
    ASSUME NEW c, Partial(c), c.pc = "connections", Returns(c), NEW h, h = Close(c.g, c.T)
    PROVE  /\ Whole(h) /\ h.nodes # <<>> /\ h.nodes = c.g.nodes
           /\ Range(c.g.edges) \subseteq Range(h.edges)
           /\ c.startT = 0 => ~HasStray(h)
<1>. DEFINE n == Len(Wires)
            g == c.g
            Closed == IF c.startT = 0 THEN {} ELSE Wraps(g.II, g.TT)
<1>1. /\ c \in Calls /\ g.cgra = Array /\ 1 <= g.II /\ Progress(c)
      /\ Layout(g, UnitsBuilt(c)) /\ Ends(g)
      /\ Graph(g) = Holds(UnitsBuilt(c)) \cup Moves(MovesBuilt(c)) \cup Closed
      /\ c.startT = 0 => ~HasStray(g)
  BY DEF Partial
<1>2. /\ c.k \in Nat \ {0} /\ c.t \in Nat /\ c.T \in Nat /\ c.startT \in Nat /\ g \in MRRGs
  BY <1>1 DEF Calls
<1>3. g.II \in Nat /\ g.TT \in Nat /\ n \in Nat /\ g.nodes \in Seq(Nodes)
  BY <1>2, VectorFacts DEF MRRGs
<1>4. /\ c.startT <= c.t /\ c.t <= c.T /\ c.k <= n + 1
      /\ c.startT = 0 => g.II = c.T /\ g.TT = c.T
      /\ c.startT # 0 => /\ g.II < c.startT /\ c.startT - 1 <= g.TT
                         /\ c.T - 1 <= g.TT /\ g.TT <= c.T
  BY <1>1 DEF Progress
<1>5. c.k = n + 1
  <2>1. ConnectionsOf(g.cgra) = Wires
    BY <1>1 DEF Wires
  <2>2. c.k > n
    BY <2>1 DEF Returns
  <2>. QED
    BY <1>2, <1>3, <1>4, <2>2
<1>6. c.T >= 1 /\ g.II <= c.T /\ (c.startT # 0 => g.II < c.T)
  BY <1>1, <1>2, <1>3, <1>4
<1>7. UnitsBuilt(c) = AllUnits(c.T)
  BY DEF UnitsBuilt
<1>8. MovesBuilt(c) = Array.connections \X (1 .. c.T)
  <2>1. MovesBuilt(c) = (Array.connections \X (1 .. c.startT - 1))
           \cup ({Wires[j] : j \in 1 .. c.k - 1} \X (1 .. c.T))
           \cup {<<Wires[c.k], s>> : s \in {s \in 1 .. c.t - 1 : c.k <= n}}
    BY DEF MovesBuilt
  <2>2. c.k - 1 = n /\ ~(c.k <= n)
    BY <1>3, <1>5
  <2>3. {Wires[j] : j \in 1 .. n} = Array.connections
    <3>1. /\ \A j \in 1 .. n : Wires[j] \in Array.connections
          /\ \A x \in Array.connections : \E j \in 1 .. n : Wires[j] = x
      BY VectorFacts, SeqIsFunction
    <3>. HIDE DEF n
    <3>. QED
      BY <3>1
  <2>4. {<<Wires[c.k], s>> : s \in {s \in 1 .. c.t - 1 : c.k <= n}} = {}
    BY <2>2
  <2>5. 1 .. c.startT - 1 \subseteq 1 .. c.T
    BY <1>2, <1>4
  <2>6. {Wires[j] : j \in 1 .. c.k - 1} = Array.connections
    BY <2>2, <2>3
  <2>7. Array.connections \X (1 .. c.startT - 1) \subseteq Array.connections \X (1 .. c.T)
    BY <2>5
  <2>. QED
    BY <2>1, <2>4, <2>6, <2>7
<1>. HIDE DEF n, Closed
<1>9. \A p \in Array.PEs : <<p, c.T - 1>> \in UnitsBuilt(c) /\ <<p, 0>> \in UnitsBuilt(c)
  <2>1. c.T - 1 \in 0 .. c.T /\ 0 \in 0 .. c.T
    BY <1>2, <1>6
  <2>. QED
    BY <1>7, <2>1 DEF AllUnits
<1>10. /\ h \in MRRGs
       /\ h.cgra = g.cgra /\ h.II = g.II /\ h.TT = c.T /\ h.nodes = g.nodes
       /\ Ends(h)
       /\ Graph(h) = Graph(g) \cup G!WrapEdges(Array, c.T)
       /\ HasStray(h) <=> HasStray(g)
       /\ Range(g.edges) \subseteq Range(h.edges)
  <2>. HIDE DEF g
  <2>1. h = Close(g, c.T)
    BY DEF g
  <2>. QED
    BY <1>1, <1>2, <1>9, <2>1, CloseFacts
<1>11. Closed \cup G!WrapEdges(Array, c.T) = Wraps(g.II, c.T)
  <2>1. CASE c.startT = 0
    BY <1>2, <1>4, <2>1, WrapsAndOne DEF Closed
  <2>2. CASE c.startT # 0 /\ g.TT = c.T
    BY <1>2, <1>3, <1>6, <2>2, WrapsAndOne DEF Closed
  <2>3. CASE c.startT # 0 /\ g.TT # c.T
    <3>1. c.T = g.TT + 1 /\ g.II <= g.TT + 1
      BY <1>2, <1>3, <1>4, <1>6, <2>3
    <3>2. Wraps(g.II, g.TT + 1) = Wraps(g.II, g.TT) \cup G!WrapEdges(Array, g.TT + 1)
      BY <1>3, <3>1, WrapsAndOne
    <3>. QED
      BY <2>3, <3>1, <3>2 DEF Closed
  <2>. QED
    BY <2>1, <2>2, <2>3
<1>12. Graph(h) = Holds(AllUnits(h.TT)) \cup Moves(Array.connections \X (1 .. h.TT))
                    \cup Wraps(h.II, h.TT)
  BY <1>1, <1>7, <1>8, <1>10, <1>11
<1>13. Layout(h, AllUnits(h.TT))
  BY <1>1, <1>7, <1>10, SameNodes
<1>14. h.nodes # <<>>
  BY <1>13 DEF Layout
<1>15. HasStray(h) => h.II < h.TT
  BY <1>1, <1>6, <1>10
<1>16. h.cgra = Array /\ 1 <= h.II /\ h.II <= h.TT
  BY <1>1, <1>6, <1>10
<1>17. Whole(h)
  BY <1>10, <1>12, <1>13, <1>14, <1>15, <1>16 DEF Whole
<1>. QED
  BY <1>1, <1>10, <1>14, <1>17 DEF g
-----------------------------------------------------------------------------
(* Where a call begins. *)
LEMMA BuildStarts ==
    ASSUME NEW m \in Objects, NEW II \in IIs, NEW c, c = Enter(m, NewMRRG(Array, II), II)
    PROVE  Partial(c) /\ c.m = m /\ c.startT = 0
<1>. DEFINE g0 == NewMRRG(Array, II)
            h == [cgra |-> Array, II |-> II, TT |-> II, nodes |-> <<RootOf>>, edges |-> <<>>,
                  node_counter |-> 0]
<1>1. g0 = [cgra |-> Array, II |-> II, TT |-> II, nodes |-> <<>>, edges |-> <<>>,
            node_counter |-> 0]
  <2>1. PICK blank : EmptyMRRG = [cgra |-> blank, II |-> 0, TT |-> 0, nodes |-> <<>>,
                                  edges |-> <<>>, node_counter |-> 0]
    BY Zenon DEF EmptyMRRG
  <2>2. g0 = [EmptyMRRG EXCEPT !.cgra = Array, !.II = II, !.TT = II]
    BY DEF NewMRRG
  <2>. HIDE DEF g0
  <2>. QED
    BY <2>1, <2>2
<1>2. II \in Nat \ {0}
  BY StoreAssumption
<1>. HIDE DEF g0
<1>3. startT(g0) = 0
  <2>1. g0.nodes = <<>> /\ Range(<<>>) = {}
    BY <1>1 DEF Range
  <2>2. {n.T + 1 : n \in Range(g0.nodes)} = {}
    BY <2>1
  <2>3. {0} \cup {n.T + 1 : n \in Range(g0.nodes)} = {0}
    BY <2>2
  <2>4. \A n \in Range(g0.nodes) : n.T + 1 <= 0
    BY <2>1
  <2>. QED
    BY <2>3, <2>4 DEF startT
<1>4. RootOf \in Nodes
  BY DEF RootOf, Node, Nodes
<1>5. g0.nodes = <<>> /\ Len(g0.nodes) = 0 /\ Append(g0.nodes, RootOf) = <<RootOf>>
  BY <1>1
<1>6. [g0 EXCEPT !.nodes = Append(@, RootOf)] = h
  BY <1>1, <1>5
<1>7. c = [m |-> m, pc |-> "units", k |-> 1, t |-> 0, startT |-> 0, T |-> II,
           rootnode |-> 1, g |-> h]
  <2>1. rootnode(g0, 0) = 1
    BY <1>5 DEF rootnode
  <2>2. c = Enter(m, g0, II)
    BY DEF g0
  <2>. HIDE DEF h
  <2>. QED
    BY <1>3, <1>6, <2>1, <2>2 DEF Enter
<1>8. <<RootOf>> \in Seq(Nodes) /\ Len(<<RootOf>>) = 1 /\ <<RootOf>>[1] = RootOf
  BY <1>4
<1>9. h \in MRRGs
  BY <1>2, <1>8 DEF MRRGs
<1>10. UnitsBuilt(c) = {} /\ MovesBuilt(c) = {}
  <2>1. 0 .. 0 - 1 = {} /\ 1 .. 1 - 1 = {} /\ 1 .. 0 - 1 = {}
    OBVIOUS
  <2>2. AllUnits(0 - 1) = {} /\ Array.connections \X (1 .. 0 - 1) = {}
    BY <2>1 DEF AllUnits
  <2>3. UnitsBuilt(c) = AllUnits(0 - 1) \cup {<<PEVector[j], c.t>> : j \in 1 .. 1 - 1}
    BY <1>7 DEF UnitsBuilt
  <2>4. MovesBuilt(c) = Array.connections \X (1 .. 0 - 1)
    BY <1>7 DEF MovesBuilt
  <2>. QED
    BY <2>1, <2>2, <2>3, <2>4
<1>11. Layout(c.g, {})
  <2>1. c.g.nodes = <<RootOf>>
    BY <1>7
  <2>2. Len(c.g.nodes) = 1 /\ c.g.nodes[1] = RootOf /\ \A k : k \notin 2 .. 1
    BY <1>8, <2>1
  <2>. QED
    BY <2>2 DEF Layout
<1>12. Graph(c.g) = {} /\ Ends(c.g) /\ ~HasStray(c.g)
  <2>1. c.g.edges = <<>> /\ DOMAIN <<>> = {} /\ Range(<<>>) = {}
    BY <1>7 DEF Range
  <2>2. Graph(c.g) = {}
    BY <2>1 DEF Graph
  <2>. QED
    BY <2>1, <2>2 DEF Ends, HasStray
<1>13. Holds({}) = {} /\ Moves({}) = {}
  BY DEF Holds, Moves
<1>14. Progress(c)
  BY <1>2, <1>7, VectorFacts DEF Progress
<1>15. c \in Calls
  BY <1>2, <1>7, <1>9 DEF Calls
<1>16. c.g.cgra = Array /\ 1 <= c.g.II /\ c.rootnode # Stray /\ c.m = m /\ c.startT = 0
  BY <1>2, <1>7 DEF Stray
<1>17. Graph(c.g) = Holds(UnitsBuilt(c)) \cup Moves(MovesBuilt(c))
                      \cup IF c.startT = 0 THEN {} ELSE Wraps(c.g.II, c.g.TT)
  BY <1>10, <1>12, <1>13, <1>16
<1>. QED
  BY <1>10, <1>11, <1>12, <1>14, <1>15, <1>16, <1>17 DEF Partial

LEMMA ExtensionStarts ==
    ASSUME NEW m \in Objects, NEW g, Whole(g), g.nodes # <<>>, NEW T \in Nat, T > g.TT,
           NEW c, c = Enter(m, g, T)
    PROVE  Partial(c) /\ c.m = m /\ c.g = g /\ c.startT # 0
<1>. DEFINE U == AllUnits(g.TT)
            times == {0} \cup {n.T + 1 : n \in Range(g.nodes)}
<1>1. /\ g \in MRRGs /\ g.cgra = Array /\ 1 <= g.II /\ g.II <= g.TT
      /\ Layout(g, U) /\ Ends(g)
      /\ Graph(g) = Holds(U) \cup Moves(Array.connections \X (1 .. g.TT)) \cup Wraps(g.II, g.TT)
  BY DEF Whole
<1>2. g.II \in Nat /\ g.TT \in Nat /\ g.nodes \in Seq(Nodes)
  BY <1>1 DEF MRRGs
<1>3. Len(g.nodes) \in Nat /\ DOMAIN g.nodes = 1 .. Len(g.nodes)
  BY <1>2, LenProperties
<1>4. startT(g) = g.TT + 1
  <2>1. \A n \in Range(g.nodes) : n.T \in Int /\ n.T + 1 <= g.TT + 1
    <3>1. SUFFICES ASSUME NEW k \in 1 .. Len(g.nodes)
                   PROVE  g.nodes[k].T \in Int /\ g.nodes[k].T <= g.TT
      BY <1>2, <1>3 DEF Range
    <3>2. CASE k = 1
      BY <1>1, <1>2, <3>2 DEF Layout, RootOf, Node
    <3>3. CASE k # 1
      <4>1. k \in 2 .. Len(g.nodes)
        BY <1>3, <3>3
      <4>2. Where(g, k) \in Array.PEs \X (0 .. g.TT)
        BY <1>1, <4>1 DEF Layout, AllUnits
      <4>3. g.nodes[k].T \in 0 .. g.TT
        BY <4>2 DEF Where
      <4>. QED
        BY <1>2, <4>3
    <3>. QED
      BY <3>2, <3>3
  <2>2. \E n \in Range(g.nodes) : n.T + 1 = g.TT + 1
    <3>1. PICK p \in Array.PEs : TRUE
      BY StoreAssumption
    <3>2. g.TT \in 0 .. g.TT
      BY <1>2
    <3>3. <<p, g.TT>> \in U
      BY <3>2 DEF AllUnits
    <3>4. PICK k \in 2 .. Len(g.nodes) : Where(g, k) = <<p, g.TT>>
      BY <1>1, <3>3 DEF Layout
    <3>5. g.nodes[k].T = g.TT /\ k \in DOMAIN g.nodes
      BY <1>3, <3>4 DEF Where
    <3>. QED
      BY <3>5 DEF Range
  <2>3. g.TT + 1 \in times
    BY <2>2
  <2>4. \A t \in times : t \in Int
    BY <2>1
  <2>5. startT(g) = CHOOSE t \in times : \A n \in Range(g.nodes) : n.T + 1 <= t
    BY DEF startT
  <2>6. \A t \in times : t <= g.TT + 1
    BY <1>2, <2>1
  <2>. HIDE DEF times
  <2>7. \A t \in times : (\A n \in Range(g.nodes) : n.T + 1 <= t) <=> t = g.TT + 1
    <3>1. ASSUME NEW t \in times, \A n \in Range(g.nodes) : n.T + 1 <= t PROVE t = g.TT + 1
      <4>1. g.TT + 1 <= t
        BY <2>2, <3>1
      <4>. QED
        BY <1>2, <2>4, <2>6, <4>1
    <3>. QED
      BY <2>1, <3>1
  <2>8. \A t \in times : t = g.TT + 1 => \A n \in Range(g.nodes) : n.T + 1 <= t
    BY <2>7
  <2>. QED
    BY <2>3, <2>5, <2>7, <2>8
<1>5. c = [m |-> m, pc |-> "units", k |-> 1, t |-> g.TT + 1, startT |-> g.TT + 1, T |-> T,
           rootnode |-> Stray, g |-> g]
  <2>1. g.TT + 1 # 0
    BY <1>2
  <2>2. rootnode(g, g.TT + 1) = Stray
    BY <2>1 DEF rootnode
  <2>. QED
    BY <1>4, <2>1, <2>2 DEF Enter
<1>. HIDE DEF U
<1>6. UnitsBuilt(c) = U
  <2>1. 1 .. 1 - 1 = {} /\ (g.TT + 1) - 1 = g.TT
    BY <1>2
  <2>2. UnitsBuilt(c) = AllUnits((g.TT + 1) - 1) \cup {<<PEVector[j], c.t>> : j \in 1 .. 1 - 1}
    BY <1>5 DEF UnitsBuilt
  <2>. QED
    BY <2>1, <2>2 DEF U
<1>7. MovesBuilt(c) = Array.connections \X (1 .. g.TT)
  <2>1. (g.TT + 1) - 1 = g.TT
    BY <1>2
  <2>2. MovesBuilt(c) = Array.connections \X (1 .. (g.TT + 1) - 1)
    BY <1>5 DEF MovesBuilt
  <2>. QED
    BY <2>1, <2>2
<1>8. c.m = m /\ c.g = g /\ c.startT = g.TT + 1 /\ c.startT # 0
  BY <1>2, <1>5
<1>9. Progress(c)
  <2>0. 1 <= Len(PEVector)
    BY VectorFacts
  <2>1. g.TT + 1 <= T /\ g.II < g.TT + 1 /\ (g.TT + 1) - 1 <= g.TT /\ (g.TT + 1) - 2 <= g.TT
        /\ g.TT < g.TT + 1 /\ g.TT = (g.TT + 1) - 1 /\ g.TT + 1 # 0 /\ g.TT + 1 <= g.TT + 1
    BY <1>1, <1>2
  <2>. QED
    BY <1>5, <2>0, <2>1 DEF Progress
<1>10. c \in Calls
  BY <1>1, <1>2, <1>5 DEF Calls
<1>11. Graph(c.g) = Holds(UnitsBuilt(c)) \cup Moves(MovesBuilt(c))
                      \cup IF c.startT = 0 THEN {} ELSE Wraps(c.g.II, c.g.TT)
  BY <1>1, <1>6, <1>7, <1>8
<1>. QED
  BY <1>1, <1>6, <1>8, <1>9, <1>10, <1>11 DEF Partial
-----------------------------------------------------------------------------
(* Copying a graph finds every node and edge again. *)
LEMMA NodesDiffer ==
    ASSUME NEW g, Len(g.nodes) \in Nat, NEW U, Layout(g, U),
           NEW j \in 1 .. Len(g.nodes), NEW k \in 1 .. Len(g.nodes), g.nodes[j] = g.nodes[k]
    PROVE  j = k
<1>1. g.nodes[1].type = "ROOTNode"
  BY DEF Layout, RootOf, Node
<1>2. \A i \in 2 .. Len(g.nodes) : g.nodes[i].type = "FUNode"
  BY DEF Layout
<1>3. j = 1 <=> k = 1
  <2>1. \A i \in 1 .. Len(g.nodes) : i = 1 \/ i \in 2 .. Len(g.nodes)
    OBVIOUS
  <2>. QED
    BY <1>1, <1>2, <2>1
<1>4. CASE j # 1
  <2>1. j \in 2 .. Len(g.nodes) /\ k \in 2 .. Len(g.nodes)
    BY <1>3, <1>4
  <2>2. Where(g, j) = Where(g, k)
    BY DEF Where
  <2>. QED
    BY <2>1, <2>2 DEF Layout
<1>. QED
  BY <1>3, <1>4

LEMMA NodeFound ==
    ASSUME NEW g, Len(g.nodes) \in Nat, NEW U, Layout(g, U), NEW p \in 1 .. Len(g.nodes),
           NEW h, h.nodes = g.nodes
    PROVE  Equal(h, g.nodes[p]) = p
<1>. DEFINE I == {i \in 1 .. Len(g.nodes) : g.nodes[i] = g.nodes[p]}
<1>1. Equal(h, g.nodes[p]) = IF I # {} THEN Min(I) ELSE 0
  BY DEF Equal, SelectInSeq
<1>2. I # {}
  OBVIOUS
<1>3. Min(I) \in I
  BY <1>2, MinIn
<1>4. Min(I) \in 1 .. Len(g.nodes) /\ g.nodes[Min(I)] = g.nodes[p]
  BY <1>3
<1>5. Min(I) = p
  BY <1>4, NodesDiffer
<1>. QED
  BY <1>1, <1>2, <1>5

LEMMA EmptyIsWhole == EmptyMRRG \in MRRGs /\ Whole(EmptyMRRG)
<1>1. PICK blank : EmptyMRRG = [cgra |-> blank, II |-> 0, TT |-> 0, nodes |-> <<>>,
                                edges |-> <<>>, node_counter |-> 0]
  BY Zenon DEF EmptyMRRG
<1>2. EmptyMRRG.cgra = blank
  BY <1>1
<1>3. EmptyMRRG \in MRRGs
  BY <1>1, <1>2 DEF MRRGs
<1>4. EmptyMRRG.nodes = <<>> /\ EmptyMRRG.edges = <<>>
  BY <1>1
<1>. QED
  BY <1>3, <1>4 DEF Whole

LEMMA AssignFacts ==
    ASSUME NEW g \in MRRGs, NEW other, Whole(other), NEW seen \in {1, NULL},
           NEW h, h = Assign(g, other, seen)
    PROVE  /\ Whole(h) /\ h.nodes = other.nodes /\ h.II = other.II /\ h.TT = other.TT
           /\ Len(h.edges) \in Nat /\ Len(h.edges) = Len(other.edges)
           /\ DOMAIN h.edges = 1 .. Len(h.edges) /\ DOMAIN other.edges = 1 .. Len(h.edges)
           /\ \A k \in 1 .. Len(h.edges) :
                 /\ other.edges[k][1] < 1 => h.edges[k][1] = seen
                 /\ ~(other.edges[k][1] < 1) => h.edges[k][1] = other.edges[k][1]
                 /\ h.edges[k][2] = other.edges[k][2]
<1>. DEFINE copied == [g EXCEPT !.cgra = other.cgra, !.II = other.II, !.TT = other.TT,
                                !.nodes = other.nodes]
            at(p) == IF p < 1 THEN seen ELSE Equal(copied, other.nodes[p])
            n == Len(other.edges)
            edges == [k \in DOMAIN other.edges |->
                         <<at(other.edges[k][1]), at(other.edges[k][2])>>]
<1>1. /\ other \in MRRGs /\ other.nodes \in Seq(Nodes) /\ other.edges \in Seq(Int \X Int)
      /\ other.cgra \in {Array, EmptyMRRG.cgra} /\ other.II \in Nat /\ other.TT \in Nat
      /\ g.node_counter \in Nat
  BY DEF Whole, MRRGs
<1>2. /\ Len(other.nodes) \in Nat /\ n \in Nat /\ DOMAIN other.edges = 1 .. n
      /\ \A k \in 1 .. n : other.edges[k] \in Int \X Int
  BY <1>1, SeqIsFunction
<1>3. h = [copied EXCEPT !.edges = edges]
  BY DEF Assign
<1>4. copied = [cgra |-> other.cgra, II |-> other.II, TT |-> other.TT, nodes |-> other.nodes,
                edges |-> g.edges, node_counter |-> g.node_counter]
  <2>1. copied = [g EXCEPT !.cgra = other.cgra, !.II = other.II, !.TT = other.TT,
                           !.nodes = other.nodes]
    OBVIOUS
  <2>. HIDE DEF copied, at, edges
  <2>. QED
    BY <2>1 DEF MRRGs
<1>5. copied.nodes = other.nodes
  BY <1>4
<1>. HIDE DEF copied, edges
<1>6. h = [cgra |-> other.cgra, II |-> other.II, TT |-> other.TT, nodes |-> other.nodes,
           edges |-> edges, node_counter |-> g.node_counter]
  BY <1>3, <1>4
<1>7. /\ h.cgra = other.cgra /\ h.II = other.II /\ h.TT = other.TT /\ h.nodes = other.nodes
      /\ h.edges = edges
  BY <1>6
<1>8. ASSUME NEW k \in 1 .. n
      PROVE  /\ other.edges[k][1] \in Stray .. Len(other.nodes)
             /\ other.edges[k][2] \in 2 .. Len(other.nodes)
             /\ Layout(other, AllUnits(other.TT)) /\ other.nodes # <<>>
  <2>1. other.nodes # <<>>
    <3>1. other.edges # <<>>
      BY <1>2
    <3>. QED
      BY <3>1 DEF Whole
  <2>2. Ends(other) /\ Layout(other, AllUnits(other.TT))
    BY <2>1 DEF Whole
  <2>. QED
    BY <1>2, <2>1, <2>2 DEF Ends
<1>9. ASSUME NEW k \in 1 .. n
      PROVE  /\ other.edges[k][1] < 1 => at(other.edges[k][1]) = seen
             /\ ~(other.edges[k][1] < 1) => at(other.edges[k][1]) = other.edges[k][1]
             /\ at(other.edges[k][2]) = other.edges[k][2]
  <2>1. \A p \in 1 .. Len(other.nodes) : at(p) = p
    <3>1. Layout(other, AllUnits(other.TT))
      BY <1>8
    <3>2. \A p \in 1 .. Len(other.nodes) : Equal(copied, other.nodes[p]) = p
      BY <1>2, <1>5, <3>1, NodeFound
    <3>3. \A p \in 1 .. Len(other.nodes) : ~(p < 1)
      BY <1>2
    <3>. QED
      BY <3>2, <3>3
  <2>2. /\ ~(other.edges[k][1] < 1) => other.edges[k][1] \in 1 .. Len(other.nodes)
        /\ other.edges[k][2] \in 1 .. Len(other.nodes)
    BY <1>2, <1>8 DEF Stray
  <2>. QED
    BY <2>1, <2>2
<1>. HIDE DEF at
<1>10. /\ edges = [k \in 1 .. n |-> <<at(other.edges[k][1]), at(other.edges[k][2])>>]
       /\ \A k \in 1 .. n : /\ edges[k][1] = at(other.edges[k][1])
                            /\ edges[k][2] = at(other.edges[k][2])
                            /\ edges[k] = <<edges[k][1], edges[k][2]>>
  BY <1>2 DEF edges
<1>11. \A k \in 1 .. n : /\ other.edges[k][1] < 1 => edges[k][1] = seen
                         /\ ~(other.edges[k][1] < 1) => edges[k][1] = other.edges[k][1]
                         /\ edges[k][2] = other.edges[k][2]
  BY <1>9, <1>10
<1>12. edges \in [1 .. n -> Int \X Int]
  <2>1. \A k \in 1 .. n : edges[k][1] \in Int /\ edges[k][2] \in Int
    BY <1>2, <1>11 DEF NULL
  <2>2. \A k \in 1 .. n : edges[k] \in Int \X Int
    BY <1>10, <2>1
  <2>. QED
    BY <1>10, <2>2
<1>13. edges \in Seq(Int \X Int) /\ Len(edges) = n /\ DOMAIN edges = 1 .. n
  BY <1>2, <1>12, FunctionIsSeq
<1>14. h \in MRRGs
  BY <1>1, <1>6, <1>13 DEF MRRGs
<1>15. other.nodes = <<>> => edges = <<>>
  <2>1. other.nodes = <<>> => n = 0
    BY <1>1 DEF Whole
  <2>. QED
    BY <1>13, <2>1
<1>16. ASSUME other.nodes # <<>>
       PROVE  /\ Layout(h, AllUnits(h.TT)) /\ Ends(h) /\ Graph(h) = Graph(other)
              /\ HasStray(h) => HasStray(other)
  <2>1. Layout(other, AllUnits(other.TT)) /\ Len(other.nodes) >= 1
    BY <1>16 DEF Whole, Layout
  <2>2. Layout(h, AllUnits(h.TT)) /\ \A k : Where(h, k) = Where(other, k)
    BY <1>7, <2>1, SameNodes
  <2>3. Ends(h)
    <3>1. \A k \in 1 .. n : edges[k][1] \in Stray .. Len(other.nodes)
                            /\ edges[k][2] \in 2 .. Len(other.nodes)
      BY <1>2, <1>8, <1>11, <2>1 DEF Stray, NULL
    <3>. QED
      BY <1>7, <1>13, <3>1 DEF Ends
  <2>4. HasStray(h) => HasStray(other)
    BY <1>2, <1>7, <1>11, <1>13 DEF HasStray
  <2>5. Graph(h) = Graph(other)
    <3>1. \A k \in 1 .. n : /\ edges[k][1] > 1 <=> other.edges[k][1] > 1
                            /\ edges[k][1] > 1 => edges[k][1] = other.edges[k][1]
                            /\ edges[k][2] = other.edges[k][2]
      BY <1>2, <1>11 DEF NULL
    <3>2. \A gr, x : x \in Graph(gr) <=> \E e \in Range(gr.edges) :
                        e[1] > 1 /\ x = <<Where(gr, e[1]), Where(gr, e[2])>>
      BY Zenon DEF Graph
    <3>3. \A x : x \in Graph(h) <=> \E k \in 1 .. n :
              edges[k][1] > 1 /\ x = <<Where(other, edges[k][1]), Where(other, edges[k][2])>>
      <4>1. \A e : e \in Range(h.edges) <=> \E k \in 1 .. n : e = edges[k]
        BY <1>7, <1>13 DEF Range
      <4>2. \A x : x \in Graph(h) <=> \E k \in 1 .. n :
              edges[k][1] > 1 /\ x = <<Where(h, edges[k][1]), Where(h, edges[k][2])>>
        <5>1. SUFFICES ASSUME NEW x
                       PROVE  x \in Graph(h) <=> \E k \in 1 .. n :
              edges[k][1] > 1 /\ x = <<Where(h, edges[k][1]), Where(h, edges[k][2])>>
          OBVIOUS
        <5>2. x \in Graph(h) <=> \E e \in Range(h.edges) :
                 e[1] > 1 /\ x = <<Where(h, e[1]), Where(h, e[2])>>
          BY <3>2
        <5>. QED
          BY <4>1, <5>2
      <4>. QED
        BY <2>2, <4>2
    <3>4. \A x : x \in Graph(other) <=> \E k \in 1 .. n :
              /\ other.edges[k][1] > 1
              /\ x = <<Where(other, other.edges[k][1]), Where(other, other.edges[k][2])>>
      BY <1>2, <3>2 DEF Range
    <3>5. \A x : x \in Graph(h) <=> x \in Graph(other)
      BY <3>1, <3>3, <3>4
    <3>. QED
      BY <3>5 DEF Graph
  <2>. QED
    BY <2>2, <2>3, <2>4, <2>5
<1>17. Whole(h)
  BY <1>7, <1>14, <1>15, <1>16 DEF Whole
<1>. QED
  BY <1>2, <1>7, <1>11, <1>13, <1>17

(* An edge of a route is found again in the copied graph; by its IDs, and  *)
(* the same one when they tell nodes apart.                                *)
LEMMA RouteEdgeFound ==
    ASSUME NEW g0 \in MRRGs, NEW other, Whole(other), NEW seen \in {1, NULL},
           NEW g, g = Assign(g0, other, seen),
           NEW s \in Nat \ {0}, NEW d \in Nat \ {0}, <<s, d>> \in Range(other.edges),
           NEW j, j = EdgeOfIDs(g, other.nodes[s].ID, other.nodes[d].ID)
    PROVE  /\ g.edges[j][1] \in Nat \ {0} /\ g.edges[j][2] \in Nat \ {0}
           /\ <<g.edges[j][1], g.edges[j][2]>> \in Range(g.edges)
           /\ IDsDistinct(other) => g.edges[j][1] = s /\ g.edges[j][2] = d
<1>. DEFINE x == other.nodes[s].ID
            y == other.nodes[d].ID
            I == {i \in 1 .. Len(g.edges) : /\ g.edges[i][1] > NULL
                                            /\ g.nodes[g.edges[i][1]].ID = x
                                            /\ g.nodes[g.edges[i][2]].ID = y}
<1>1. /\ Whole(g) /\ g.nodes = other.nodes
      /\ Len(g.edges) \in Nat
      /\ DOMAIN g.edges = 1 .. Len(g.edges) /\ DOMAIN other.edges = 1 .. Len(g.edges)
      /\ \A k \in 1 .. Len(g.edges) :
            /\ other.edges[k][1] < 1 => g.edges[k][1] = seen
            /\ ~(other.edges[k][1] < 1) => g.edges[k][1] = other.edges[k][1]
            /\ g.edges[k][2] = other.edges[k][2]
  BY AssignFacts
<1>2. PICK k \in 1 .. Len(g.edges) : other.edges[k] = <<s, d>>
  BY <1>1 DEF Range
<1>3. g.edges[k][1] = s /\ g.edges[k][2] = d /\ g.edges[k][1] > NULL
  <2>1. other.edges[k][1] = s /\ other.edges[k][2] = d
    BY <1>2
  <2>2. ~(s < 1) /\ s > 0
    OBVIOUS
  <2>. QED
    BY <1>1, <2>1, <2>2 DEF NULL
<1>4. /\ j \in 1 .. Len(g.edges) /\ g.edges[j][1] > NULL
      /\ g.nodes[g.edges[j][1]].ID = other.nodes[s].ID
      /\ g.nodes[g.edges[j][2]].ID = other.nodes[d].ID
  <2>1. /\ g.nodes[g.edges[k][1]].ID = other.nodes[s].ID
        /\ g.nodes[g.edges[k][2]].ID = other.nodes[d].ID
    BY <1>1, <1>3
  <2>2. j = IF I # {} THEN Min(I) ELSE 0
    BY DEF EdgeOfIDs, SelectInSeq
  <2>. HIDE DEF x, y
  <2>3. k \in I
    BY <1>3, <2>1 DEF x, y
  <2>4. Min(I) \in I
    BY <1>1, <2>3, MinIn
  <2>5. j \in I
    BY <2>2, <2>3, <2>4
  <2>. QED
    BY <2>5 DEF x, y
<1>5. g.nodes # <<>> /\ g.edges \in Seq(Int \X Int) /\ g.nodes \in Seq(Nodes)
  <2>1. g.edges # <<>>
    BY <1>1, <1>2
  <2>. QED
    BY <1>1, <2>1 DEF Whole, MRRGs
<1>6. Len(g.nodes) \in Nat /\ DOMAIN g.nodes = 1 .. Len(g.nodes)
  BY <1>5, LenProperties
<1>7. \A i \in 1 .. Len(g.edges) : /\ g.edges[i][1] \in Stray .. Len(g.nodes)
                                   /\ g.edges[i][2] \in 2 .. Len(g.nodes)
  BY <1>1, <1>5 DEF Whole, Ends
<1>8. /\ g.edges[j][1] \in 1 .. Len(g.nodes) /\ g.edges[j][2] \in 1 .. Len(g.nodes)
      /\ s \in 1 .. Len(g.nodes) /\ d \in 1 .. Len(g.nodes)
  <2>1. \A a, b : a \in Stray .. Len(g.nodes) /\ a > NULL /\ b \in 2 .. Len(g.nodes) =>
           a \in 1 .. Len(g.nodes) /\ b \in 1 .. Len(g.nodes)
    BY <1>6 DEF Stray, NULL
  <2>. QED
    BY <1>3, <1>4, <1>7, <2>1
<1>9. <<g.edges[j][1], g.edges[j][2]>> \in Range(g.edges)
  <2>1. g.edges[j] \in Int \X Int
    BY <1>4, <1>5, SeqIsFunction
  <2>2. g.edges[j] = <<g.edges[j][1], g.edges[j][2]>>
    BY <2>1
  <2>. QED
    BY <1>1, <1>4, <2>2 DEF Range
<1>10. ASSUME IDsDistinct(other) PROVE g.edges[j][1] = s /\ g.edges[j][2] = d
  <2>0. \A a, b \in DOMAIN other.nodes : other.nodes[a].ID = other.nodes[b].ID => a = b
    BY <1>10 DEF IDsDistinct
  <2>1. \A a, b \in 1 .. Len(g.nodes) : g.nodes[a].ID = g.nodes[b].ID => a = b
    <3>1. g.nodes = other.nodes
      BY <1>1
    <3>. QED
      BY <1>6, <2>0, <3>1
  <2>2. g.nodes[s].ID = other.nodes[s].ID /\ g.nodes[d].ID = other.nodes[d].ID
    BY <1>1
  <2>3. /\ g.nodes[g.edges[j][1]].ID = g.nodes[s].ID
        /\ g.nodes[g.edges[j][2]].ID = g.nodes[d].ID
    BY <1>4, <2>2
  <2>. HIDE DEF I, x, y
  <2>4. g.edges[j][1] = s
    BY <1>8, <2>1, <2>3
  <2>5. g.edges[j][2] = d
    BY <1>8, <2>1, <2>3
  <2>. QED
    BY <2>4, <2>5
<1>11. g.edges[j][1] \in Nat \ {0} /\ g.edges[j][2] \in Nat \ {0}
  BY <1>6, <1>8
<1>. QED
  BY <1>9, <1>10, <1>11

SameRoute(r, s) ==
    /\ DOMAIN r = DOMAIN s
    /\ \A h \in DOMAIN r : r[h].src = s[h].src /\ r[h].des = s[h].des

Refound(m, g, from, r) ==
    [h \in DOMAIN r |-> EdgeValue(m, g, EdgeOfIDs(g, from.nodes[r[h].src].ID,
                                                     from.nodes[r[h].des].ID))]

LEMMA RouteFound ==
    ASSUME NEW g0 \in MRRGs, NEW other, Whole(other), NEW seen \in {1, NULL},
           NEW g, g = Assign(g0, other, seen), NEW m, NEW n, NEW r, GoodRoute(n, other, r),
           NEW s, s = Refound(m, g, other, r)
    PROVE  GoodRoute(m, g, s) /\ DOMAIN s = DOMAIN r /\ (IDsDistinct(other) => SameRoute(s, r))
<1>. DEFINE edge(h) == EdgeOfIDs(g, other.nodes[r[h].src].ID, other.nodes[r[h].des].ID)
<1>1. /\ Len(r) \in Nat /\ DOMAIN r = 1 .. Len(r)
      /\ \A h \in DOMAIN r : r[h] \in Hops(n) /\ <<r[h].src, r[h].des>> \in Range(other.edges)
  BY SeqIsFunction DEF GoodRoute
<1>2. \A h \in DOMAIN r : s[h] = EdgeValue(m, g, edge(h))
  BY DEF Refound
<1>3. s = [h \in 1 .. Len(r) |-> EdgeValue(m, g, edge(h))]
  BY <1>1 DEF Refound
<1>4. ASSUME NEW h \in DOMAIN r
      PROVE  /\ s[h] \in Hops(m) /\ <<s[h].src, s[h].des>> \in Range(g.edges)
             /\ IDsDistinct(other) => s[h].src = r[h].src /\ s[h].des = r[h].des
  <2>. DEFINE j == edge(h)
              a == r[h].src
              b == r[h].des
  <2>1. a \in Nat \ {0} /\ b \in Nat \ {0} /\ <<a, b>> \in Range(other.edges)
    BY <1>1 DEF Hops
  <2>2. j = EdgeOfIDs(g, other.nodes[a].ID, other.nodes[b].ID)
    OBVIOUS
  <2>3. s[h] = [at |-> m, src |-> g.edges[j][1], des |-> g.edges[j][2]]
    BY <1>2 DEF EdgeValue
  <2>. HIDE DEF j, a, b
  <2>4. /\ g.edges[j][1] \in Nat \ {0} /\ g.edges[j][2] \in Nat \ {0}
        /\ <<g.edges[j][1], g.edges[j][2]>> \in Range(g.edges)
        /\ IDsDistinct(other) => g.edges[j][1] = a /\ g.edges[j][2] = b
    BY <2>1, <2>2, RouteEdgeFound
  <2>5. s[h].src = g.edges[j][1] /\ s[h].des = g.edges[j][2]
    BY <2>3
  <2>6. s[h] \in Hops(m)
    BY <2>3, <2>4 DEF Hops
  <2>. QED
    BY <2>4, <2>5, <2>6 DEF a, b
<1>. HIDE DEF edge
<1>5. s \in [1 .. Len(r) -> Hops(m)]
  BY <1>1, <1>3, <1>4
<1>6. s \in Seq(Hops(m)) /\ DOMAIN s = DOMAIN r
  BY <1>1, <1>3, <1>5, FunctionIsSeq
<1>. QED
  BY <1>4, <1>6 DEF GoodRoute, SameRoute

(* v, of the object m, is a copy of other. *)
Copied(m, v, other) ==
    /\ Own(m, v) /\ v.mrrg.nodes = other.mrrg.nodes
    /\ DOMAIN v.mapping = DOMAIN other.mapping
    /\ \A d \in DOMAIN v.mapping : v.mapping[d].n = other.mapping[d].n
    /\ DOMAIN v.route_map = DOMAIN other.route_map
    /\ IDsDistinct(other.mrrg) =>
         \A e \in DOMAIN v.route_map : SameRoute(v.route_map[e], other.route_map[e])

LEMMA CopyFacts ==
    ASSUME NEW m, NEW old \in MRRGs, NEW n, NEW other, Own(n, other), NEW seen \in {1, NULL},
           NEW v, v = CopyOf(m, old, other, seen)
    PROVE  Copied(m, v, other)
<1>. DEFINE from == other.mrrg
            g == Assign(old, from, seen)
            route(r) == Refound(m, g, from, r)
            mapping == [d \in DOMAIN other.mapping |->
                          [at |-> m, n |-> Equal(g, from.nodes[other.mapping[d].n])]]
            route_map == [e \in DOMAIN other.route_map |-> route(other.route_map[e])]
<1>1. /\ Whole(from) /\ DOMAIN other.mapping \subseteq Ops
      /\ \A d \in DOMAIN other.mapping : GoodPlace(n, from, other.mapping[d])
      /\ DOMAIN other.route_map \subseteq Edges
      /\ \A e \in DOMAIN other.route_map : GoodRoute(n, from, other.route_map[e])
  BY DEF Own
<1>2. v = [New(g) EXCEPT !.mapping = mapping, !.route_map = route_map]
  BY DEF CopyOf, Refound
<1>. HIDE DEF g, mapping, route_map, route, from
<1>3. v = [live |-> TRUE, mrrg |-> g, mapping |-> mapping, route_map |-> route_map]
  BY <1>2 DEF New
<1>4. v.mrrg = g /\ v.mapping = mapping /\ v.route_map = route_map
  BY <1>3
<1>5. Whole(g) /\ g.nodes = from.nodes
  BY <1>1, AssignFacts DEF g
<1>6. Len(from.nodes) \in Nat
  <2>1. from.nodes \in Seq(Nodes)
    BY <1>1 DEF Whole, MRRGs
  <2>. QED
    BY <2>1, LenProperties
<1>7. ASSUME NEW d \in DOMAIN other.mapping
      PROVE  /\ Equal(g, from.nodes[other.mapping[d].n]) = other.mapping[d].n
             /\ other.mapping[d].n \in 1 .. Len(from.nodes)
  <2>1. other.mapping[d].n \in 1 .. Len(from.nodes)
    BY <1>1 DEF GoodPlace
  <2>2. Layout(from, AllUnits(from.TT))
    <3>1. from.nodes # <<>>
      BY <1>6, <2>1
    <3>. QED
      BY <1>1, <3>1 DEF Whole
  <2>. QED
    BY <1>5, <1>6, <2>1, <2>2, NodeFound
<1>8. /\ DOMAIN mapping = DOMAIN other.mapping
      /\ \A d \in DOMAIN mapping : /\ mapping[d].n = other.mapping[d].n
                                   /\ GoodPlace(m, g, mapping[d])
  <2>1. DOMAIN mapping = DOMAIN other.mapping
    BY DEF mapping
  <2>2. \A d \in DOMAIN other.mapping : mapping[d] = [at |-> m, n |-> other.mapping[d].n]
    BY <1>7 DEF mapping
  <2>3. \A d \in DOMAIN other.mapping :
           mapping[d].n = other.mapping[d].n /\ GoodPlace(m, g, mapping[d])
    <3>1. \A d \in DOMAIN other.mapping : /\ mapping[d] = [at |-> m, n |-> other.mapping[d].n]
                                           /\ other.mapping[d].n \in 1 .. Len(g.nodes)
      BY <1>5, <1>7, <2>2
    <3>2. \A x \in 1 .. Len(g.nodes) : GoodPlace(m, g, [at |-> m, n |-> x])
                                         /\ [at |-> m, n |-> x].n = x
      BY DEF GoodPlace
    <3>. QED
      BY <3>1, <3>2
  <2>. QED
    BY <2>1, <2>3
<1>9. ASSUME NEW e \in DOMAIN other.route_map
      PROVE  /\ GoodRoute(m, g, route(other.route_map[e]))
             /\ IDsDistinct(from) => SameRoute(route(other.route_map[e]), other.route_map[e])
  <2>. DEFINE r == other.route_map[e]
  <2>. HIDE DEF r
  <2>1. GoodRoute(n, from, r)
    BY <1>1 DEF r
  <2>2. GoodRoute(m, g, route(r)) /\ (IDsDistinct(from) => SameRoute(route(r), r))
    <3>1. g = Assign(old, from, seen)
      BY DEF g
    <3>2. route(r) = Refound(m, g, from, r)
      BY DEF route
    <3>. QED
      BY <1>1, <2>1, <3>1, <3>2, RouteFound
  <2>. QED
    BY <2>2 DEF r
<1>10. /\ DOMAIN route_map = DOMAIN other.route_map
       /\ \A e \in DOMAIN route_map :
             /\ GoodRoute(m, g, route_map[e])
             /\ IDsDistinct(from) => SameRoute(route_map[e], other.route_map[e])
  <2>1. /\ DOMAIN route_map = DOMAIN other.route_map
        /\ \A e \in DOMAIN other.route_map : route_map[e] = route(other.route_map[e])
    BY DEF route_map
  <2>. QED
    BY <1>9, <2>1
<1>11. Own(m, v)
  <2>1. v = [live |-> TRUE, mrrg |-> v.mrrg, mapping |-> v.mapping, route_map |-> v.route_map]
    BY <1>3, <1>4
  <2>2. DOMAIN mapping \subseteq Ops /\ DOMAIN route_map \subseteq Edges
    BY <1>1, <1>8, <1>10
  <2>. QED
    BY <1>4, <1>5, <1>8, <1>10, <2>1, <2>2 DEF Own
<1>. QED
  BY <1>4, <1>5, <1>8, <1>10, <1>11 DEF from, Copied

(* What a copy says. *)
PlacesOf(v) == [d \in DOMAIN v.mapping |-> Where(v.mrrg, v.mapping[d].n)]
RouteOf(g, r) == [h \in DOMAIN r |-> <<Where(g, r[h].src), Where(g, r[h].des)>>]
RoutesOf(v) == [e \in DOMAIN v.route_map |-> RouteOf(v.mrrg, v.route_map[e])]

LEMMA SameSayings ==
    ASSUME NEW v, NEW w, v.mrrg.nodes = w.mrrg.nodes,
           DOMAIN v.mapping = DOMAIN w.mapping,
           \A d \in DOMAIN v.mapping : v.mapping[d].n = w.mapping[d].n,
           DOMAIN v.route_map = DOMAIN w.route_map
    PROVE  /\ PlacesOf(v) = PlacesOf(w)
           /\ (\A e \in DOMAIN v.route_map : SameRoute(v.route_map[e], w.route_map[e]))
                => RoutesOf(v) = RoutesOf(w)
<1>. DEFINE f == v.mrrg
            g == w.mrrg
<1>1. \A k : Where(f, k) = Where(g, k)
  BY SameNodes
<1>. HIDE DEF f, g
<1>2. PlacesOf(v) = PlacesOf(w)
  <2>1. PlacesOf(v) = [d \in DOMAIN v.mapping |-> Where(g, v.mapping[d].n)]
    BY <1>1 DEF PlacesOf, f
  <2>2. PlacesOf(w) = [d \in DOMAIN v.mapping |-> Where(g, w.mapping[d].n)]
    BY DEF PlacesOf, g
  <2>. QED
    BY <2>1, <2>2
<1>3. ASSUME NEW r, NEW s, SameRoute(r, s) PROVE RouteOf(f, r) = RouteOf(g, s)
  <2>1. RouteOf(f, r) = [h \in DOMAIN r |-> <<Where(g, r[h].src), Where(g, r[h].des)>>]
    BY <1>1 DEF RouteOf
  <2>2. RouteOf(g, s) = [h \in DOMAIN r |-> <<Where(g, s[h].src), Where(g, s[h].des)>>]
    BY <1>3 DEF RouteOf, SameRoute
  <2>. QED
    BY <1>3, <2>1, <2>2 DEF SameRoute
<1>4. ASSUME \A e \in DOMAIN v.route_map : SameRoute(v.route_map[e], w.route_map[e])
      PROVE  RoutesOf(v) = RoutesOf(w)
  <2>1. \A e \in DOMAIN v.route_map : RouteOf(f, v.route_map[e]) = RouteOf(g, w.route_map[e])
    BY <1>3, <1>4
  <2>2. RoutesOf(v) = [e \in DOMAIN v.route_map |-> RouteOf(f, v.route_map[e])]
    BY DEF RoutesOf, f
  <2>3. RoutesOf(w) = [e \in DOMAIN v.route_map |-> RouteOf(g, w.route_map[e])]
    BY DEF RoutesOf, g
  <2>. QED
    BY <2>1, <2>2, <2>3
<1>. QED
  BY <1>2, <1>4

LEMMA Sayings == ASSUME NEW m PROVE Places(m) = PlacesOf(store[m]) /\ Routes(m) = RoutesOf(store[m])
  BY DEF Places, PlacesOf, Routes, RoutesOf, RouteOf
-----------------------------------------------------------------------------
(* The invariant: at the beginning, and after every action. *)
LEMMA InitKeeps == Init => IInv
<1>1. SUFFICES ASSUME Init PROVE IInv
  OBVIOUS
<1>2. /\ store = [m \in Objects |-> Dead] /\ call = Idle /\ stopped = FALSE /\ last = NoCopy
  BY <1>1 DEF Init
<1>3. CopiesAgree
  BY <1>2 DEF CopiesAgree, NoCopy
<1>4. RoutesCopySafely
  BY <1>2 DEF RoutesCopySafely
<1>. QED
  BY <1>2, <1>3, <1>4 DEF IInv

(* A step that copies nothing. *)
LEMMA QuietStep ==
    ASSUME DOMAIN store' = Objects, ~stopped', stopped' \in BOOLEAN, last' = NoCopy,
           \A m \in Objects : store'[m] = Dead \/ Own(m, store'[m]),
           call' # Idle => Partial(call') /\ Continues(call)'
    PROVE  IInv'
<1>1. CopiesAgree'
  BY DEF CopiesAgree, NoCopy
<1>2. RoutesCopySafely'
  BY DEF RoutesCopySafely
<1>. QED
  BY <1>1, <1>2 DEF IInv

LEMMA BecomesKeeps ==
    ASSUME IInv, call = Idle, ~stopped, NEW m \in Objects, NEW value,
           value = Dead \/ Own(m, value), Becomes(m, value)
    PROVE  IInv'
<1>1. /\ DOMAIN store = Objects /\ stopped \in BOOLEAN
      /\ \A k \in Objects : store[k] = Dead \/ Own(k, store[k])
  BY DEF IInv
<1>2. /\ store' = [store EXCEPT ![m] = value] /\ call' = Idle /\ stopped' = stopped
      /\ last' = NoCopy
  BY DEF Becomes
<1>3. DOMAIN store' = Objects
  BY <1>1, <1>2
<1>4. \A k \in Objects : store'[k] = IF k = m THEN value ELSE store[k]
  BY <1>1, <1>2
<1>5. \A k \in Objects : store'[k] = Dead \/ Own(k, store'[k])
  BY <1>1, <1>4
<1>. QED
  BY <1>1, <1>2, <1>3, <1>5, QuietStep

(* What an object is while the client runs. *)
LEMMA LiveOwns ==
    ASSUME IInv, NEW m \in Objects
    PROVE  /\ store[m].live => Own(m, store[m]) /\ store[m].mrrg \in MRRGs
           /\ Own(m, store[m]) => store[m].live
<1>1. store[m] = Dead \/ Own(m, store[m])
  BY DEF IInv
<1>2. ~Dead.live
  BY DEF Dead
<1>3. Own(m, store[m]) => store[m].live
  <2>1. SUFFICES ASSUME Own(m, store[m]) PROVE store[m].live = TRUE
    OBVIOUS
  <2>2. store[m] = [live |-> TRUE, mrrg |-> store[m].mrrg, mapping |-> store[m].mapping,
                    route_map |-> store[m].route_map]
    BY <2>1 DEF Own
  <2>. QED
    BY <2>2
<1>. QED
  BY <1>1, <1>2, <1>3 DEF Own, Whole

LEMMA NewOwns ==
    ASSUME NEW m, NEW g, Whole(g)
    PROVE  Own(m, New(g))
<1>1. New(g) = [live |-> TRUE, mrrg |-> g, mapping |-> <<>>, route_map |-> <<>>]
  BY DEF New
<1>2. DOMAIN <<>> = {}
  OBVIOUS
<1>. QED
  BY <1>1, <1>2 DEF Own

LEMMA MakeNullKeeps ==
    ASSUME IInv, call = Idle, ~stopped, NEW m \in Objects, MakeNull(m) PROVE IInv'
<1>1. Own(m, New(EmptyMRRG))
  BY EmptyIsWhole, NewOwns
<1>. QED
  BY <1>1, BecomesKeeps DEF MakeNull

LEMMA DestroyKeeps ==
    ASSUME IInv, call = Idle, ~stopped, NEW m \in Objects, Destroy(m) PROVE IInv'
  BY BecomesKeeps DEF Destroy

LEMMA ExtendsKeeps ==
    ASSUME IInv, ~stopped, NEW m, NEW g, NEW T, Extends(m, g, T),
           Partial(Enter(m, g, T)), Continues(Enter(m, g, T))
    PROVE  IInv'
<1>1. /\ DOMAIN store = Objects /\ stopped \in BOOLEAN
      /\ \A k \in Objects : store[k] = Dead \/ Own(k, store[k])
  BY DEF IInv
<1>2. call' = Enter(m, g, T) /\ store' = store /\ stopped' = stopped /\ last' = NoCopy
  BY DEF Extends
<1>3. Continues(call)'
  BY <1>2 DEF Continues
<1>. QED
  BY <1>1, <1>2, <1>3, QuietStep

LEMMA MakeKeeps ==
    ASSUME IInv, call = Idle, ~stopped, NEW m \in Objects, Make(m) PROVE IInv'
<1>1. PICK II \in IIs : ~store[m].live /\ Extends(m, NewMRRG(Array, II), II)
  BY DEF Make
<1>. DEFINE c == Enter(m, NewMRRG(Array, II), II)
<1>2. Partial(c) /\ c.m = m /\ c.startT = 0
  BY BuildStarts
<1>. HIDE DEF c
<1>3. Continues(c)
  BY <1>1, <1>2 DEF Continues
<1>. QED
  BY <1>1, <1>2, <1>3, ExtendsKeeps DEF c

LEMMA LookupKeeps ==
    ASSUME IInv, call = Idle, ~stopped, NEW m \in Objects, Lookup(m) PROVE IInv'
<1>1. PICK T \in 1 .. MaxT : /\ store[m].live /\ store[m].mrrg.nodes # <<>>
                             /\ T > store[m].mrrg.TT /\ Extends(m, store[m].mrrg, T)
  BY DEF Lookup
<1>. DEFINE g == store[m].mrrg
            c == Enter(m, g, T)
<1>2. Whole(g) /\ Len(g.nodes) \in Nat
  <2>1. Own(m, store[m]) /\ g \in MRRGs
    BY <1>1, LiveOwns
  <2>2. g.nodes \in Seq(Nodes)
    BY <2>1 DEF MRRGs
  <2>. QED
    BY <2>1, <2>2, LenProperties DEF Own
<1>3. T \in Nat
  BY StoreAssumption
<1>4. Partial(c) /\ c.m = m /\ c.g = g /\ c.startT # 0
  <2>. HIDE DEF c, g
  <2>1. c = Enter(m, g, T) /\ g.nodes # <<>> /\ T > g.TT
    BY <1>1 DEF c, g
  <2>. QED
    BY <1>2, <1>3, <2>1, ExtensionStarts
<1>. HIDE DEF c
<1>5. Continues(c)
  <2>1. Len(store[m].mrrg.nodes) <= Len(g.nodes)
    BY <1>2
  <2>. QED
    BY <1>1, <1>4, <2>1 DEF Continues
<1>. QED
  BY <1>1, <1>4, <1>5, ExtendsKeeps DEF c

(* A member of an object that changes. *)
LEMMA OwnChanged ==
    ASSUME NEW m, NEW v, Own(m, v), NEW mapping, NEW route_map,
           NEW w, w = [live |-> TRUE, mrrg |-> v.mrrg,
                       mapping |-> mapping, route_map |-> route_map],
           DOMAIN mapping \subseteq Ops, DOMAIN route_map \subseteq Edges,
           \A d \in DOMAIN mapping : GoodPlace(m, v.mrrg, mapping[d]),
           \A e \in DOMAIN route_map : GoodRoute(m, v.mrrg, route_map[e])
    PROVE  Own(m, w)
<1>1. w.mrrg = v.mrrg /\ w.mapping = mapping /\ w.route_map = route_map
  OBVIOUS
<1>2. w = [live |-> TRUE, mrrg |-> w.mrrg, mapping |-> w.mapping, route_map |-> w.route_map]
  BY <1>1
<1>. QED
  BY <1>1, <1>2 DEF Own

(* The members of an object, and an object with one of them replaced. *)
Members(a, b, c) == [live : {TRUE}, mrrg : {a}, mapping : {b}, route_map : {c}]

LEMMA MembersTell ==
    ASSUME NEW a, NEW b, NEW c, NEW u, u \in Members(a, b, c)
    PROVE  u = [live |-> TRUE, mrrg |-> a, mapping |-> b, route_map |-> c]
  BY DEF Members

LEMMA HasMembers ==
    ASSUME NEW m, NEW v, Own(m, v)
    PROVE  v \in Members(v.mrrg, v.mapping, v.route_map)
<1>. DEFINE a == v.mrrg
            b == v.mapping
            c == v.route_map
<1>1. v = [live |-> TRUE, mrrg |-> a, mapping |-> b, route_map |-> c]
  BY DEF Own
<1>. HIDE DEF a, b, c
<1>2. v \in Members(a, b, c)
  BY <1>1 DEF Members
<1>. QED
  BY <1>2 DEF a, b, c

LEMMA PlacementReplaced ==
    ASSUME NEW m, NEW v, Own(m, v), NEW x, NEW w, w = [v EXCEPT !.mapping = x]
    PROVE  w = [live |-> TRUE, mrrg |-> v.mrrg, mapping |-> x, route_map |-> v.route_map]
<1>. DEFINE a == v.mrrg
            b == v.mapping
            c == v.route_map
<1>1. v \in Members(a, b, c)
  BY HasMembers
<1>. HIDE DEF a, b, c
<1>2. w \in Members(a, x, c)
  BY <1>1 DEF Members
<1>. QED
  BY <1>2, MembersTell DEF a, c

LEMMA RoutesReplaced ==
    ASSUME NEW m, NEW v, Own(m, v), NEW x, NEW w, w = [v EXCEPT !.route_map = x]
    PROVE  w = [live |-> TRUE, mrrg |-> v.mrrg, mapping |-> v.mapping, route_map |-> x]
<1>. DEFINE a == v.mrrg
            b == v.mapping
            c == v.route_map
<1>1. v \in Members(a, b, c)
  BY HasMembers
<1>. HIDE DEF a, b, c
<1>2. w \in Members(a, b, x)
  BY <1>1 DEF Members
<1>. QED
  BY <1>2, MembersTell DEF a, b

LEMMA PlaceKeeps ==
    ASSUME IInv, call = Idle, ~stopped, NEW m \in Objects, Place(m) PROVE IInv'
<1>. DEFINE v == store[m]
<1>1. PICK d \in Ops, k \in DOMAIN v.mrrg.nodes :
         /\ v.live
         /\ Becomes(m, [v EXCEPT !.mapping = With(@, d, [at |-> m, n |-> k])])
  BY DEF Place
<1>. DEFINE f == With(v.mapping, d, [at |-> m, n |-> k])
            w == [v EXCEPT !.mapping = f]
<1>2. Own(m, v) /\ v.mrrg \in MRRGs
  BY <1>1, LiveOwns
<1>3. Becomes(m, w)
  BY <1>1
<1>0. w = [v EXCEPT !.mapping = f] /\ f = With(v.mapping, d, [at |-> m, n |-> k])
  OBVIOUS
<1>. HIDE DEF v, f, w
<1>4. w = [live |-> TRUE, mrrg |-> v.mrrg, mapping |-> f, route_map |-> v.route_map]
  BY <1>0, <1>2, PlacementReplaced
<1>5. k \in 1 .. Len(v.mrrg.nodes)
  <2>1. v.mrrg.nodes \in Seq(Nodes) /\ k \in DOMAIN v.mrrg.nodes
    BY <1>2 DEF MRRGs, v
  <2>. QED
    BY <2>1, LenProperties
<1>6. GoodPlace(m, v.mrrg, [at |-> m, n |-> k])
  BY <1>5 DEF GoodPlace
<1>7. /\ DOMAIN v.mapping \subseteq Ops /\ DOMAIN v.route_map \subseteq Edges
      /\ \A x \in DOMAIN v.mapping : GoodPlace(m, v.mrrg, v.mapping[x])
      /\ \A e \in DOMAIN v.route_map : GoodRoute(m, v.mrrg, v.route_map[e])
  BY <1>2 DEF Own
<1>8. /\ DOMAIN f = DOMAIN v.mapping \cup {d} /\ f[d] = [at |-> m, n |-> k]
      /\ \A z \in DOMAIN v.mapping : z # d => f[z] = v.mapping[z]
  <2>. DEFINE p == [at |-> m, n |-> k]
  <2>1. f = With(v.mapping, d, p)
    BY <1>0
  <2>. HIDE DEF p
  <2>2. DOMAIN f = DOMAIN v.mapping \cup {d} /\ f[d] = p
    BY <2>1 DEF With
  <2>3. \A z \in DOMAIN v.mapping : z # d => f[z] = v.mapping[z]
    BY <2>1 DEF With
  <2>. QED
    BY <2>2, <2>3 DEF p
<1>9. DOMAIN f \subseteq Ops /\ \A x \in DOMAIN f : GoodPlace(m, v.mrrg, f[x])
  BY <1>6, <1>7, <1>8
<1>10. Own(m, w)
  BY <1>2, <1>4, <1>7, <1>9, OwnChanged
<1>. QED
  BY <1>3, <1>10, BecomesKeeps

LEMMA PushKeeps ==
    ASSUME IInv, call = Idle, ~stopped, NEW m \in Objects, Push(m) PROVE IInv'
<1>. DEFINE v == store[m]
            g == v.mrrg
            r(e) == IF e \in DOMAIN v.route_map THEN v.route_map[e] ELSE <<>>
<1>1. PICK e \in Edges, k \in DOMAIN g.edges :
         /\ v.live /\ ~HasStray(g)
         /\ Becomes(m, [v EXCEPT !.route_map = With(@, e, Append(r(e), EdgeValue(m, g, k)))])
  BY DEF Push
<1>. DEFINE x == EdgeValue(m, g, k)
            s == Append(r(e), x)
            f == With(v.route_map, e, s)
            w == [v EXCEPT !.route_map = f]
<1>2. Own(m, v) /\ g \in MRRGs
  BY <1>1, LiveOwns
<1>3. Becomes(m, w)
  BY <1>1
<1>4. ~HasStray(g) /\ k \in DOMAIN g.edges /\ x = EdgeValue(m, g, k)
  BY <1>1
<1>5. /\ r(e) = IF e \in DOMAIN v.route_map THEN v.route_map[e] ELSE <<>>
      /\ s = Append(r(e), x) /\ f = With(v.route_map, e, s)
      /\ w = [v EXCEPT !.route_map = f] /\ g = v.mrrg
  OBVIOUS
<1>. HIDE DEF v, g, f, x, r, s, w
<1>6. w = [live |-> TRUE, mrrg |-> v.mrrg, mapping |-> v.mapping, route_map |-> f]
  <2>1. w = [v EXCEPT !.route_map = f]
    BY <1>5
  <2>. QED
    BY <1>2, <2>1, RoutesReplaced
<1>7. /\ DOMAIN v.mapping \subseteq Ops /\ DOMAIN v.route_map \subseteq Edges
      /\ \A d \in DOMAIN v.mapping : GoodPlace(m, g, v.mapping[d])
      /\ \A i \in DOMAIN v.route_map : GoodRoute(m, g, v.route_map[i])
      /\ Whole(g) /\ g = v.mrrg
  BY <1>2, <1>5 DEF Own
<1>8. g.edges \in Seq(Int \X Int) /\ g.nodes \in Seq(Nodes)
  BY <1>2 DEF MRRGs
<1>9. /\ DOMAIN g.edges = 1 .. Len(g.edges) /\ Len(g.edges) \in Nat
      /\ g.edges[k] \in Int \X Int /\ Len(g.nodes) \in Nat
  BY <1>4, <1>8, SeqIsFunction
<1>10. g.edges[k][1] \in Nat \ {0} /\ g.edges[k][2] \in Nat \ {0}
  <2>1. g.nodes # <<>>
    <3>1. g.edges # <<>>
      BY <1>4, <1>9
    <3>. QED
      BY <1>7, <3>1 DEF Whole
  <2>2. g.edges[k][1] \in Int /\ g.edges[k][2] \in 2 .. Len(g.nodes)
    BY <1>4, <1>7, <1>9, <2>1 DEF Whole, Ends
  <2>3. ~(g.edges[k][1] < 1)
    BY <1>4 DEF HasStray
  <2>. QED
    BY <1>9, <2>2, <2>3
<1>11. x = [at |-> m, src |-> g.edges[k][1], des |-> g.edges[k][2]]
  BY <1>4 DEF EdgeValue
<1>12. x \in Hops(m) /\ <<x.src, x.des>> \in Range(g.edges)
  <2>1. <<x.src, x.des>> = g.edges[k]
    BY <1>9, <1>11
  <2>2. g.edges[k] \in Range(g.edges)
    BY <1>4 DEF Range
  <2>3. x \in Hops(m)
    BY <1>10, <1>11 DEF Hops
  <2>. QED
    BY <2>1, <2>2, <2>3
<1>13. GoodRoute(m, g, r(e))
  <2>1. CASE e \in DOMAIN v.route_map
    BY <1>5, <1>7, <2>1
  <2>2. CASE e \notin DOMAIN v.route_map
    <3>1. <<>> \in Seq(Hops(m)) /\ DOMAIN <<>> = {}
      OBVIOUS
    <3>. QED
      BY <1>5, <2>2, <3>1 DEF GoodRoute
  <2>. QED
    BY <2>1, <2>2
<1>14. GoodRoute(m, g, s)
  <2>0. /\ r(e) \in Seq(Hops(m)) /\ Len(r(e)) \in Nat /\ DOMAIN r(e) = 1 .. Len(r(e))
        /\ \A h \in DOMAIN r(e) : <<r(e)[h].src, r(e)[h].des>> \in Range(g.edges)
    BY <1>13, SeqIsFunction DEF GoodRoute
  <2>1. /\ s \in Seq(Hops(m)) /\ Len(s) = Len(r(e)) + 1
        /\ \A i \in 1 .. Len(r(e)) : s[i] = r(e)[i]
        /\ s[Len(r(e)) + 1] = x
    BY <1>5, <1>12, <2>0, AppendProperties
  <2>2. DOMAIN s = 1 .. Len(r(e)) + 1
    BY <2>1, SeqIsFunction
  <2>3. \A h \in DOMAIN s : h \in DOMAIN r(e) \/ h = Len(r(e)) + 1
    BY <2>0, <2>2
  <2>4. \A h \in DOMAIN s : <<s[h].src, s[h].des>> \in Range(g.edges)
    BY <1>12, <2>0, <2>1, <2>3
  <2>. QED
    BY <2>1, <2>4 DEF GoodRoute
<1>15. /\ DOMAIN f = DOMAIN v.route_map \cup {e} /\ f[e] = s
       /\ \A z \in DOMAIN v.route_map : z # e => f[z] = v.route_map[z]
  <2>1. f = With(v.route_map, e, s)
    BY <1>5
  <2>2. DOMAIN f = DOMAIN v.route_map \cup {e} /\ f[e] = s
    BY <2>1 DEF With
  <2>3. \A z \in DOMAIN v.route_map : z # e => f[z] = v.route_map[z]
    BY <2>1 DEF With
  <2>. QED
    BY <2>2, <2>3
<1>16. DOMAIN f \subseteq Edges /\ \A i \in DOMAIN f : GoodRoute(m, g, f[i])
  BY <1>7, <1>14, <1>15
<1>17. Own(m, w)
  BY <1>2, <1>6, <1>7, <1>16, OwnChanged
<1>. QED
  BY <1>3, <1>17, BecomesKeeps

LEMMA ClearKeeps ==
    ASSUME IInv, call = Idle, ~stopped, NEW m \in Objects, Clear(m) PROVE IInv'
<1>. DEFINE v == store[m]
            w == [v EXCEPT !.mapping = <<>>]
<1>1. v.live /\ Becomes(m, w)
  BY DEF Clear
<1>2. Own(m, v)
  BY <1>1, LiveOwns
<1>0. w = [v EXCEPT !.mapping = <<>>]
  OBVIOUS
<1>. HIDE DEF v, w
<1>3. w = [live |-> TRUE, mrrg |-> v.mrrg, mapping |-> <<>>, route_map |-> v.route_map]
  BY <1>0, <1>2, PlacementReplaced
<1>4. DOMAIN <<>> = {}
  OBVIOUS
<1>5. /\ DOMAIN v.route_map \subseteq Edges
      /\ \A e \in DOMAIN v.route_map : GoodRoute(m, v.mrrg, v.route_map[e])
  BY <1>2 DEF Own
<1>6. Own(m, w)
  BY <1>2, <1>3, <1>4, <1>5, OwnChanged
<1>. QED
  BY <1>1, <1>6, BecomesKeeps
-----------------------------------------------------------------------------
(* An iteration of an extension keeps the nodes and edges there are. *)
LEMMA IterationKeeps ==
    ASSUME IInv, call # Idle, UNCHANGED <<store, stopped, last>>,
           Partial(call'), Grows(call.g, call'.g), call'.m = call.m, call'.startT = call.startT
    PROVE  IInv'
<1>1. /\ DOMAIN store = Objects /\ stopped \in BOOLEAN
      /\ \A k \in Objects : store[k] = Dead \/ Own(k, store[k])
      /\ Partial(call) /\ Continues(call) /\ last = NoCopy /\ ~stopped
  BY DEF IInv
<1>2. Continues(call)'
  <2>1. CASE call.startT = 0
    BY <1>1, <2>1 DEF Continues
  <2>2. CASE call.startT # 0
    <3>. DEFINE g == store[call.m].mrrg
    <3>1. /\ store[call.m].live /\ Len(g.nodes) <= Len(call.g.nodes)
          /\ Range(g.edges) \subseteq Range(call.g.edges)
      BY <1>1, <2>2 DEF Continues
    <3>2. Own(call.m, store[call.m])
      <4>1. call.m \in Objects
        BY <1>1 DEF Partial, Calls
      <4>. QED
        BY <3>1, <4>1, LiveOwns
    <3>3. Len(g.nodes) \in Nat /\ Len(call.g.nodes) \in Nat /\ Len(call'.g.nodes) \in Nat
      <4>1. g.nodes \in Seq(Nodes)
        BY <3>2 DEF Own, Whole, MRRGs
      <4>2. call.g.nodes \in Seq(Nodes) /\ call'.g.nodes \in Seq(Nodes)
        BY <1>1 DEF Partial, Calls, MRRGs
      <4>. QED
        BY <4>1, <4>2, LenProperties
    <3>. HIDE DEF g
    <3>4. /\ Len(g.nodes) <= Len(call'.g.nodes)
          /\ Range(g.edges) \subseteq Range(call'.g.edges)
      BY <3>1, <3>3 DEF Grows
    <3>5. store' = store /\ call'.m = call.m /\ call'.startT # 0
      BY <2>2
    <3>. QED
      BY <3>1, <3>4, <3>5 DEF Continues, g
  <2>. QED
    BY <2>1, <2>2
<1>. QED
  BY <1>1, <1>2, QuietStep

LEMMA BuildUnitKeeps == ASSUME IInv, BuildUnit PROVE IInv'
<1>1. call.pc = "units" /\ call' = UnitStep(call) /\ UNCHANGED <<store, stopped, last>>
  BY DEF BuildUnit
<1>2. call # Idle
  BY <1>1 DEF Idle
<1>3. Partial(call)
  BY <1>2 DEF IInv
<1>4. /\ Partial(call') /\ Grows(call.g, call'.g)
      /\ call'.m = call.m /\ call'.startT = call.startT
  BY <1>1, <1>3, UnitStepFacts
<1>. QED
  BY <1>1, <1>2, <1>4, IterationKeeps

LEMMA BuildConnectionKeeps == ASSUME IInv, BuildConnection PROVE IInv'
<1>1. /\ call.pc = "connections" /\ ~Returns(call) /\ call' = ConnectionStep(call)
      /\ UNCHANGED <<store, stopped, last>>
  BY DEF BuildConnection
<1>2. call # Idle
  BY <1>1 DEF Idle
<1>3. Partial(call)
  BY <1>2 DEF IInv
<1>4. /\ Partial(call') /\ Grows(call.g, call'.g)
      /\ call'.m = call.m /\ call'.startT = call.startT
  BY <1>1, <1>3, ConnectionStepFacts
<1>. QED
  BY <1>1, <1>2, <1>4, IterationKeeps

LEMMA ReturnKeeps == ASSUME IInv, Return PROVE IInv'
<1>. DEFINE m == call.m
            v == store[m]
            g == Close(call.g, call.T)
            w == IF v.live THEN [v EXCEPT !.mrrg = g] ELSE New(Assign(EmptyMRRG, g, NULL))
<1>1. /\ call.pc = "connections" /\ Returns(call)
      /\ store' = [store EXCEPT ![m] = w]
      /\ call' = Idle /\ stopped' = stopped /\ last' = last
  BY DEF Return
<1>2. call # Idle
  BY <1>1 DEF Idle
<1>3. /\ DOMAIN store = Objects /\ stopped \in BOOLEAN
      /\ \A k \in Objects : store[k] = Dead \/ Own(k, store[k])
      /\ Partial(call) /\ Continues(call) /\ last = NoCopy /\ ~stopped
  BY <1>2 DEF IInv
<1>4. /\ Whole(g) /\ g.nodes = call.g.nodes
      /\ Range(call.g.edges) \subseteq Range(g.edges)
  BY <1>1, <1>3, ReturnFacts
<1>5. m \in Objects /\ call.g.nodes \in Seq(Nodes) /\ Len(call.g.nodes) \in Nat
  <2>1. m \in Objects /\ call.g.nodes \in Seq(Nodes)
    BY <1>3 DEF Partial, Calls, MRRGs
  <2>. QED
    BY <2>1, LenProperties
<1>. HIDE DEF m, g
<1>6. ASSUME v.live PROVE Own(m, w)
  <2>1. Own(m, v)
    BY <1>5, <1>6, LiveOwns
  <2>2. /\ Len(v.mrrg.nodes) <= Len(call.g.nodes)
        /\ Range(v.mrrg.edges) \subseteq Range(call.g.edges)
    BY <1>3, <1>6 DEF Continues, m
  <2>3. Len(v.mrrg.nodes) \in Nat
    <3>1. v.mrrg.nodes \in Seq(Nodes)
      BY <2>1 DEF Own, Whole, MRRGs
    <3>. QED
      BY <3>1, LenProperties
  <2>. HIDE DEF v
  <2>4. w = [live |-> TRUE, mrrg |-> g, mapping |-> v.mapping, route_map |-> v.route_map]
    BY <1>6, <2>1 DEF Own
  <2>5. \A x : GoodPlace(m, v.mrrg, x) => GoodPlace(m, g, x)
    <3>1. 1 .. Len(v.mrrg.nodes) \subseteq 1 .. Len(g.nodes)
      BY <1>4, <1>5, <2>2, <2>3
    <3>. QED
      BY <3>1 DEF GoodPlace
  <2>6. \A r : GoodRoute(m, v.mrrg, r) => GoodRoute(m, g, r)
    <3>1. Range(v.mrrg.edges) \subseteq Range(g.edges)
      BY <1>4, <2>2
    <3>. QED
      BY <3>1 DEF GoodRoute
  <2>. HIDE DEF w
  <2>7. /\ w.mrrg = g /\ w.mapping = v.mapping /\ w.route_map = v.route_map
        /\ w = [live |-> TRUE, mrrg |-> w.mrrg, mapping |-> w.mapping, route_map |-> w.route_map]
    BY <2>4
  <2>. QED
    BY <1>4, <2>1, <2>5, <2>6, <2>7 DEF Own
<1>7. ASSUME ~v.live PROVE Own(m, w)
  <2>1. w = New(Assign(EmptyMRRG, g, NULL))
    BY <1>7
  <2>2. Whole(Assign(EmptyMRRG, g, NULL))
    BY <1>4, EmptyIsWhole, AssignFacts
  <2>. HIDE DEF w
  <2>. QED
    BY <2>1, <2>2, NewOwns
<1>8. Own(m, w)
  BY <1>6, <1>7
<1>. HIDE DEF w
<1>9. DOMAIN store' = Objects /\ \A k \in Objects : store'[k] = IF k = m THEN w ELSE store[k]
  BY <1>1, <1>3, <1>5
<1>10. \A k \in Objects : store'[k] = Dead \/ Own(k, store'[k])
  BY <1>3, <1>8, <1>9
<1>. QED
  BY <1>1, <1>3, <1>9, <1>10, QuietStep
-----------------------------------------------------------------------------
(* A copy, finished or not. *)
LEMMA StopKeeps ==
    ASSUME IInv, call = Idle, ~stopped, NEW n \in Objects, store[n].live,
           MayStop(store[n]) \/ MustStop(store[n]),
           stopped' = TRUE, last' = [to |-> {}, from |-> {n}], UNCHANGED <<store, call>>
    PROVE  IInv'
<1>. DEFINE v == store[n]
            g == v.mrrg
<1>1. Own(n, v) /\ g \in MRRGs /\ Whole(g)
  BY LiveOwns DEF Own
<1>2. v.mapping # <<>> \/ HasStray(g)
  <2>1. MustStop(v) => HasStray(g)
    <3>1. NULL < 1
      BY DEF NULL
    <3>. QED
      BY <3>1 DEF MustStop, HasStray
  <2>. QED
    BY <2>1 DEF MayStop
<1>3. HasStray(g) => g.TT > g.II
  <2>1. SUFFICES ASSUME HasStray(g) PROVE g.TT > g.II
    OBVIOUS
  <2>2. g.edges # <<>>
    <3>1. g.edges \in Seq(Int \X Int)
      BY <1>1 DEF MRRGs
    <3>. QED
      BY <2>1 DEF HasStray
  <2>3. g.nodes # <<>>
    BY <1>1, <2>2 DEF Whole
  <2>4. g.II < g.TT /\ g.II \in Nat /\ g.TT \in Nat
    BY <1>1, <2>1, <2>3 DEF Whole, MRRGs
  <2>. QED
    BY <2>4
<1>4. RoutesCopySafely'
  <2>1. last'.from = {n} /\ store' = store
    OBVIOUS
  <2>. QED
    BY <1>2, <1>3, <2>1 DEF RoutesCopySafely
<1>5. CopiesAgree'
  <2>1. last'.to = {}
    OBVIOUS
  <2>. QED
    BY <2>1 DEF CopiesAgree
<1>6. /\ DOMAIN store = Objects
      /\ \A k \in Objects : store[k] = Dead \/ Own(k, store[k])
  BY DEF IInv
<1>7. n \in Live'
  BY DEF Live
<1>8. \E k \in Live' : last' = [to |-> {}, from |-> {k}]
  BY <1>7
<1>. QED
  BY <1>4, <1>5, <1>6, <1>8 DEF IInv

LEMMA CopyToKeeps ==
    ASSUME IInv, call = Idle, ~stopped, NEW m \in Objects, NEW n \in Objects, m # n,
           store[n].live, NEW old \in MRRGs, CopyTo(m, old, n)
    PROVE  IInv'
<1>. DEFINE other == store[n]
<1>1. CASE /\ MayStop(other) \/ MustStop(other)
           /\ stopped' = TRUE
           /\ last' = [to |-> {}, from |-> {n}]
           /\ UNCHANGED <<store, call>>
  BY <1>1, StopKeeps
<1>2. CASE /\ \E seen \in Reads(other.mrrg) :
                 store' = [store EXCEPT ![m] = CopyOf(m, old, other, seen)]
           /\ UNCHANGED <<call, stopped>>
           /\ last' = [to |-> {m}, from |-> {n}]
  <2>1. PICK seen \in Reads(other.mrrg) : store' = [store EXCEPT ![m] = CopyOf(m, old, other, seen)]
    BY <1>2
  <2>. DEFINE v == CopyOf(m, old, other, seen)
  <2>2. seen \in {1, NULL}
    BY <2>1 DEF Reads
  <2>3. Own(n, other)
    BY LiveOwns
  <2>4. /\ DOMAIN store = Objects /\ stopped \in BOOLEAN
        /\ \A k \in Objects : store[k] = Dead \/ Own(k, store[k])
    BY DEF IInv
  <2>5. store' = [store EXCEPT ![m] = v]
    BY <2>1
  <2>6. v = CopyOf(m, old, other, seen)
    OBVIOUS
  <2>. HIDE DEF v
  <2>7. DOMAIN store' = Objects /\ store'[m] = v /\ \A k \in Objects : k # m => store'[k] = store[k]
    BY <2>4, <2>5
  <2>. HIDE DEF other
  <2>8. Copied(m, v, other)
    BY <2>2, <2>3, <2>6, CopyFacts
  <2>9. PlacesOf(v) = PlacesOf(other) /\ (IDsDistinct(other.mrrg) => RoutesOf(v) = RoutesOf(other))
    BY <2>8, SameSayings DEF Copied
  <2>10. store'[n] = other
    BY <2>7 DEF other
  <2>11. CopiesAgree'
    <3>1. last'.to = {m} /\ last'.from = {n}
      BY <1>2
    <3>2. Places(m)' = PlacesOf(v) /\ Routes(m)' = RoutesOf(v)
      BY <2>7 DEF Places, Routes, PlacesOf, RoutesOf, RouteOf
    <3>3. Places(n)' = PlacesOf(other) /\ Routes(n)' = RoutesOf(other)
      BY <2>10 DEF Places, Routes, PlacesOf, RoutesOf, RouteOf
    <3>4. IDsDistinct(store[n].mrrg)' = IDsDistinct(other.mrrg)
      BY <2>10 DEF IDsDistinct
    <3>5. Places(m)' = Places(n)' /\ (IDsDistinct(store[n].mrrg)' => Routes(m)' = Routes(n)')
      BY <2>9, <3>2, <3>3, <3>4
    <3>. QED
      BY <3>1, <3>5 DEF CopiesAgree
  <2>12. RoutesCopySafely'
    BY <1>2 DEF RoutesCopySafely
  <2>13. \A k \in Objects : store'[k] = Dead \/ Own(k, store'[k])
    BY <2>4, <2>7, <2>8 DEF Copied
  <2>14. m \in Live' /\ n \in Live'
    <3>1. v.live
      <4>1. v = [live |-> TRUE, mrrg |-> v.mrrg, mapping |-> v.mapping, route_map |-> v.route_map]
        BY <2>8 DEF Copied, Own
      <4>. QED
        BY <4>1
    <3>2. other.live
      BY DEF other
    <3>. QED
      BY <2>7, <2>10, <3>1, <3>2 DEF Live
  <2>15. call' = Idle /\ ~stopped' /\ stopped' \in BOOLEAN
    BY <1>2, <2>4
  <2>16. \E i, j \in Live' : last' = [to |-> {i}, from |-> {j}] /\ ~stopped'
    BY <1>2, <2>14, <2>15
  <2>. QED
    BY <2>7, <2>11, <2>12, <2>13, <2>15, <2>16 DEF IInv
<1>. QED
  BY <1>1, <1>2 DEF CopyTo

LEMMA CopyConstructKeeps ==
    ASSUME IInv, call = Idle, ~stopped, NEW m \in Objects, NEW n \in Objects, CopyConstruct(m, n)
    PROVE  IInv'
  BY EmptyIsWhole, CopyToKeeps DEF CopyConstruct

LEMMA AssignMappingKeeps ==
    ASSUME IInv, call = Idle, ~stopped, NEW m \in Objects, NEW n \in Objects, AssignMapping(m, n)
    PROVE  IInv'
<1>1. m # n /\ store[m].live /\ store[n].live /\ CopyTo(m, store[m].mrrg, n)
  BY DEF AssignMapping
<1>2. store[m].mrrg \in MRRGs
  BY <1>1, LiveOwns
<1>. QED
  BY <1>1, <1>2, CopyToKeeps

LEMMA NextKeeps == IInv /\ [Next]_vars => IInv'
<1>1. SUFFICES ASSUME IInv, [Next]_vars PROVE IInv'
  OBVIOUS
<1>2. CASE Next
  <2>1. ~stopped /\ (Client \/ BuildUnit \/ BuildConnection \/ Return)
    BY <1>2 DEF Next
  <2>2. ASSUME Client PROVE IInv'
    <3>1. PICK m \in Objects :
             \/ Step(m)
             \/ \E n \in Objects : CopyConstruct(m, n) \/ AssignMapping(m, n)
      BY <2>2 DEF Client
    <3>2. call = Idle
      BY <2>2 DEF Client
    <3>3. ASSUME Step(m) PROVE IInv'
      BY <1>1, <2>1, <3>2, <3>3, MakeNullKeeps, MakeKeeps, DestroyKeeps, LookupKeeps,
         PlaceKeeps, PushKeeps, ClearKeeps DEF Step
    <3>4. ASSUME NEW n \in Objects, CopyConstruct(m, n) \/ AssignMapping(m, n) PROVE IInv'
      BY <1>1, <2>1, <3>2, <3>4, CopyConstructKeeps, AssignMappingKeeps
    <3>. QED
      BY <3>1, <3>3, <3>4
  <2>3. ASSUME BuildUnit PROVE IInv'
    BY <1>1, <2>3, BuildUnitKeeps
  <2>4. ASSUME BuildConnection PROVE IInv'
    BY <1>1, <2>4, BuildConnectionKeeps
  <2>5. ASSUME Return PROVE IInv'
    BY <1>1, <2>5, ReturnKeeps
  <2>. QED
    BY <2>1, <2>2, <2>3, <2>4, <2>5
<1>3. CASE UNCHANGED vars
  BY <1>1, <1>3 DEF vars, IInv, Continues, CopiesAgree, RoutesCopySafely, Live, Places, Routes
<1>. QED
  BY <1>1, <1>2, <1>3

(* IInv holds whatever the client does: a finished graph has the units and *)
(* the edges of its interval and its extensions, one that extendGraphUntil *)
(* works on those its loops have passed, and pointers stay inside.         *)
THEOREM StoreInvariant == Spec => []IInv
  BY InitKeeps, NextKeeps, PTL DEF Spec
-----------------------------------------------------------------------------
(* The description of a graph is that of MRRGGraph. *)
Steps(lo, hi) == G!StepEdges(Array, lo, hi)

LEMMA StepsAre ==
    ASSUME NEW T \in Nat
    PROVE  Holds(AllUnits(T)) \cup Moves(Array.connections \X (1 .. T)) = Steps(0, T)
<1>. DEFINE C == Array.connections
            P == Array.PEs
            step(a, b, t) == <<<<a, t - 1>>, <<b, t>>>>
<1>1. \A e : e \in Steps(0, T) <=> \E l \in G!Links(Array), t \in (0 .. T) \ {0} :
                                      e = step(l[1], l[2], t)
  BY DEF Steps, G!StepEdges
<1>2. \A l : l \in G!Links(Array) <=> (\E p \in P : l = <<p, p>>) \/ l \in C
  BY DEF G!Links
<1>3. \A t : t \in (0 .. T) \ {0} <=> t \in 1 .. T
  OBVIOUS
<1>4. \A e : e \in Holds(AllUnits(T)) <=> \E p \in P, t \in 1 .. T : e = step(p, p, t)
  <2>1. \A e : e \in Holds(AllUnits(T)) <=>
               \E u \in AllUnits(T) : u[2] > 0 /\ e = <<<<u[1], u[2] - 1>>, u>>
    BY Zenon DEF Holds
  <2>2. \A p \in P, t \in 1 .. T : /\ <<p, t>> \in AllUnits(T) /\ <<p, t>>[2] > 0
                                   /\ <<p, t>>[1] = p /\ <<p, t>>[2] = t
    BY DEF AllUnits
  <2>3. \A u \in AllUnits(T) : u = <<u[1], u[2]>> /\ u[1] \in P /\ u[2] \in 0 .. T
    BY DEF AllUnits
  <2>4. \A t \in 0 .. T : t > 0 => t \in 1 .. T
    OBVIOUS
  <2>5. ASSUME NEW e, e \in Holds(AllUnits(T))
        PROVE  \E p \in P, t \in 1 .. T : e = step(p, p, t)
    <3>1. PICK u \in AllUnits(T) : u[2] > 0 /\ e = <<<<u[1], u[2] - 1>>, u>>
      BY <2>1, <2>5
    <3>2. u = <<u[1], u[2]>> /\ u[1] \in P /\ u[2] \in 1 .. T
      BY <2>3, <2>4, <3>1
    <3>3. e = step(u[1], u[1], u[2])
      BY <3>1, <3>2
    <3>. QED
      BY <3>2, <3>3
  <2>6. ASSUME NEW p \in P, NEW t \in 1 .. T PROVE step(p, p, t) \in Holds(AllUnits(T))
    <3>. DEFINE u == <<p, t>>
    <3>1. u \in AllUnits(T) /\ u[2] > 0 /\ u[1] = p /\ u[2] = t
      BY <2>2
    <3>2. step(p, p, t) = <<<<u[1], u[2] - 1>>, u>>
      BY <3>1
    <3>. HIDE DEF u, step
    <3>. QED
      BY <2>1, <3>1, <3>2
  <2>. QED
    BY <2>5, <2>6
<1>5. \A e : e \in Moves(C \X (1 .. T)) <=> \E c \in C, t \in 1 .. T : e = step(c[1], c[2], t)
  <2>1. \A e : e \in Moves(C \X (1 .. T)) <=>
               \E d \in C \X (1 .. T) : e = step(d[1][1], d[1][2], d[2])
    BY Zenon DEF Moves
  <2>. HIDE DEF step
  <2>2. ASSUME NEW e, e \in Moves(C \X (1 .. T))
        PROVE  \E c \in C, t \in 1 .. T : e = step(c[1], c[2], t)
    <3>1. PICK d \in C \X (1 .. T) : e = step(d[1][1], d[1][2], d[2])
      BY <2>1, <2>2
    <3>2. d[1] \in C /\ d[2] \in 1 .. T
      OBVIOUS
    <3>. QED
      BY <3>1, <3>2
  <2>3. ASSUME NEW c \in C, NEW t \in 1 .. T PROVE step(c[1], c[2], t) \in Moves(C \X (1 .. T))
    <3>. DEFINE d == <<c, t>>
    <3>1. d \in C \X (1 .. T) /\ d[1] = c /\ d[2] = t
      OBVIOUS
    <3>. HIDE DEF d
    <3>2. step(c[1], c[2], t) = step(d[1][1], d[1][2], d[2])
      BY <3>1
    <3>. QED
      BY <2>1, <3>1, <3>2
  <2>. QED
    BY <2>2, <2>3
<1>. HIDE DEF C, P, step
<1>6. \A p, t : \A l : l = <<p, p>> => step(l[1], l[2], t) = step(p, p, t)
  OBVIOUS
<1>7. \A e : e \in Steps(0, T) <=> \/ \E p \in P, t \in 1 .. T : e = step(p, p, t)
                                   \/ \E c \in C, t \in 1 .. T : e = step(c[1], c[2], t)
  <2>1. ASSUME NEW e, e \in Steps(0, T)
        PROVE  \/ \E p \in P, t \in 1 .. T : e = step(p, p, t)
               \/ \E c \in C, t \in 1 .. T : e = step(c[1], c[2], t)
    <3>1. PICK l \in G!Links(Array), t \in 1 .. T : e = step(l[1], l[2], t)
      BY <1>1, <1>3, <2>1
    <3>. QED
      BY <1>2, <1>6, <3>1
  <2>2. ASSUME NEW p \in P, NEW t \in 1 .. T PROVE step(p, p, t) \in Steps(0, T)
    <3>. DEFINE l == <<p, p>>
    <3>1. l \in G!Links(Array) /\ step(p, p, t) = step(l[1], l[2], t)
      BY <1>2, <1>6
    <3>. HIDE DEF l
    <3>. QED
      BY <1>1, <1>3, <3>1
  <2>3. ASSUME NEW c \in C, NEW t \in 1 .. T PROVE step(c[1], c[2], t) \in Steps(0, T)
    <3>1. c \in G!Links(Array)
      BY <1>2
    <3>. QED
      BY <1>1, <1>3, <3>1
  <2>. QED
    BY <2>1, <2>2, <2>3
<1>8. \A e : e \in Steps(0, T) <=> e \in Holds(AllUnits(T)) \/ e \in Moves(C \X (1 .. T))
  BY <1>4, <1>5, <1>7
<1>. QED
  BY <1>8 DEF C

LEMMA StepsSplit ==
    ASSUME NEW lo \in Nat, NEW hi \in Nat, lo <= hi
    PROVE  Steps(0, hi) = Steps(0, lo) \cup Steps(lo + 1, hi)
<1>. DEFINE step(l, t) == <<<<l[1], t - 1>>, <<l[2], t>>>>
<1>1. \A i, j : Steps(i, j) = {step(l, t) : l \in G!Links(Array), t \in (i .. j) \ {0}}
  BY DEF Steps, G!StepEdges
<1>. HIDE DEF step
<1>2. \A t : t \in (0 .. hi) \ {0} <=> t \in (0 .. lo) \ {0} \/ t \in (lo + 1 .. hi) \ {0}
  OBVIOUS
<1>3. \A e : e \in Steps(0, hi) <=> e \in Steps(0, lo) \/ e \in Steps(lo + 1, hi)
  <2>1. ASSUME NEW e, e \in Steps(0, hi) PROVE e \in Steps(0, lo) \/ e \in Steps(lo + 1, hi)
    <3>1. PICK l \in G!Links(Array), t \in (0 .. hi) \ {0} : e = step(l, t)
      BY <1>1, <2>1
    <3>2. t \in (0 .. lo) \ {0} \/ t \in (lo + 1 .. hi) \ {0}
      BY <1>2
    <3>. QED
      BY <1>1, <3>1, <3>2
  <2>2. ASSUME NEW e, NEW i, NEW j, e \in Steps(i, j), (i .. j) \ {0} \subseteq (0 .. hi) \ {0}
        PROVE  e \in Steps(0, hi)
    <3>1. PICK l \in G!Links(Array), t \in (i .. j) \ {0} : e = step(l, t)
      BY <1>1, <2>2
    <3>2. t \in (0 .. hi) \ {0}
      BY <2>2
    <3>. QED
      BY <1>1, <3>1, <3>2
  <2>3. /\ (0 .. lo) \ {0} \subseteq (0 .. hi) \ {0}
        /\ (lo + 1 .. hi) \ {0} \subseteq (0 .. hi) \ {0}
    OBVIOUS
  <2>. QED
    BY <2>1, <2>2, <2>3
<1>. QED
  BY <1>3

LEMMA WrapsSplit ==
    ASSUME NEW lo \in Nat, NEW hi \in Nat, lo <= hi
    PROVE  Wraps(lo, hi) = G!WrapEdges(Array, lo) \cup Wraps(lo + 1, hi)
<1>. DEFINE wrap(T) == G!WrapEdges(Array, T)
<1>. HIDE DEF wrap
<1>1. \A l, h, e : e \in Wraps(l, h) <=> \E T \in l .. h : e \in wrap(T)
  BY DEF Wraps, wrap
<1>2. \A T : T \in lo .. hi <=> T = lo \/ T \in lo + 1 .. hi
  OBVIOUS
<1>3. \A e : e \in Wraps(lo, hi) <=> e \in wrap(lo) \/ e \in Wraps(lo + 1, hi)
  BY Zenon, <1>1, <1>2
<1>. QED
  BY <1>3 DEF wrap

(* The root is no unit. *)
LEMMA UnitsOnly ==
    ASSUME NEW lo, NEW hi
    PROVE  /\ \A e \in Steps(lo, hi) : e[1] # G!RootNode
           /\ \A T : \A e \in G!WrapEdges(Array, T) : e[1] # G!RootNode
<1>1. \A l \in G!Links(Array) : l[1] \in Nat
  <2>1. \A p \in Array.PEs : p \in Nat
    BY StoreAssumption
  <2>2. \A c \in Array.connections : c[1] \in Array.PEs
    BY StoreAssumption
  <2>. QED
    BY <2>1, <2>2 DEF G!Links
<1>2. \A a \in Nat : \A b : <<a, b>> # <<-1, -1>>
  OBVIOUS
<1>3. \A e \in Steps(lo, hi) : e[1] # G!RootNode
  BY <1>1, <1>2 DEF Steps, G!StepEdges, G!RootNode
<1>4. \A T : \A e \in G!WrapEdges(Array, T) : e[1] # G!RootNode
  BY <1>1, <1>2 DEF G!WrapEdges, G!RootNode
<1>. QED
  BY <1>3, <1>4

(* The edges of MRRGGraph without those of the root. *)
LEMMA AddedAre ==
    ASSUME NEW lo \in Nat, NEW T \in Nat
    PROVE  {e \in G!AddedEdges(Array, G!RootNode, lo, T) : e[1] # G!RootNode}
             = Steps(lo, T) \cup IF lo = 0 THEN G!WrapEdges(Array, T) ELSE Wraps(lo, T)
<1>. DEFINE R == {<<G!RootNode, fu>> : fu \in G!FUsBetween(Array, lo, T)}
            W == UNION {G!WrapEdges(Array, t) : t \in G!Closed(lo, T)}
            A == G!AddedEdges(Array, G!RootNode, lo, T)
<1>1. A = R \cup Steps(lo, T) \cup W
  BY DEF G!AddedEdges, Steps
<1>2. \A e \in R : e[1] = G!RootNode
  OBVIOUS
<1>3. W = IF lo = 0 THEN G!WrapEdges(Array, T) ELSE Wraps(lo, T)
  <2>1. CASE lo = 0
    <3>1. G!Closed(lo, T) = {T}
      BY <2>1 DEF G!Closed
    <3>2. UNION {G!WrapEdges(Array, t) : t \in {T}} = G!WrapEdges(Array, T)
      <4>. DEFINE wrap(t) == G!WrapEdges(Array, t)
      <4>. HIDE DEF wrap
      <4>1. UNION {wrap(t) : t \in {T}} = wrap(T)
        OBVIOUS
      <4>. QED
        BY <4>1 DEF wrap
    <3>. QED
      BY <2>1, <3>1, <3>2
  <2>2. CASE lo # 0
    BY <2>2 DEF G!Closed, Wraps
  <2>. QED
    BY <2>1, <2>2
<1>4. \A e \in W : e[1] # G!RootNode
  BY UnitsOnly
<1>5. \A e \in Steps(lo, T) : e[1] # G!RootNode
  BY UnitsOnly
<1>. HIDE DEF R, W, A
<1>6. {e \in A : e[1] # G!RootNode} = Steps(lo, T) \cup W
  BY <1>1, <1>2, <1>4, <1>5
<1>. QED
  BY <1>3, <1>6 DEF A

LEMMA WholeIsMRRG ==
    ASSUME NEW g, Whole(g), g.nodes # <<>>
    PROVE  Graph(g) = {e \in G!MRRGEdges(Array, g.II) \cup
                              (IF g.TT = g.II THEN {}
                               ELSE G!AddedEdges(Array, G!RootNode, g.II + 1, g.TT)) :
                              e[1] # G!RootNode}
<1>. DEFINE II == g.II
            TT == g.TT
            wrap(T) == G!WrapEdges(Array, T)
            first == G!MRRGEdges(Array, II)
            added == G!AddedEdges(Array, G!RootNode, II + 1, TT)
<1>1. II \in Nat /\ TT \in Nat /\ II <= TT
  BY DEF Whole, MRRGs
<1>2. Graph(g) = Holds(AllUnits(TT)) \cup Moves(Array.connections \X (1 .. TT)) \cup Wraps(II, TT)
  BY DEF Whole
<1>3. {e \in first : e[1] # G!RootNode} = Steps(0, II) \cup wrap(II)
  BY <1>1, AddedAre DEF G!MRRGEdges
<1>4. {e \in added : e[1] # G!RootNode} = Steps(II + 1, TT) \cup Wraps(II + 1, TT)
  <2>1. II + 1 \in Nat /\ II + 1 # 0
    BY <1>1
  <2>. QED
    BY <1>1, <2>1, AddedAre
<1>. HIDE DEF II, TT, wrap, first, added
<1>5. Graph(g) = Steps(0, TT) \cup Wraps(II, TT)
  BY <1>1, <1>2, StepsAre
<1>6. CASE TT = II
  <2>1. Wraps(II, TT) = wrap(II)
    BY <1>1, <1>6, WrapsAndOne DEF wrap
  <2>2. Graph(g) = {e \in first \cup {} : e[1] # G!RootNode}
    BY <1>3, <1>5, <1>6, <2>1
  <2>. QED
    BY <1>6, <2>2 DEF II, TT, first
<1>7. CASE TT # II
  <2>1. Steps(0, TT) = Steps(0, II) \cup Steps(II + 1, TT)
    BY <1>1, StepsSplit
  <2>2. Wraps(II, TT) = wrap(II) \cup Wraps(II + 1, TT)
    BY <1>1, WrapsSplit DEF wrap
  <2>3. Graph(g) = {e \in first \cup added : e[1] # G!RootNode}
    BY <1>3, <1>4, <1>5, <2>1, <2>2
  <2>. QED
    BY <1>7, <2>3 DEF II, TT, first, added
<1>. QED
  BY <1>6, <1>7

(* The nodes of MRRGGraph. *)
LEMMA WholeHasUnits ==
    ASSUME NEW g, Whole(g), g.nodes # <<>>,
           NEW fus, fus = {k \in DOMAIN g.nodes : g.nodes[k].type = "FUNode"}
    PROVE  /\ {Where(g, k) : k \in fus} = G!FUsBetween(Array, 0, g.TT)
           /\ \A j, k \in fus : Where(g, j) = Where(g, k) => j = k
           /\ DOMAIN g.nodes \ fus = {1}
<1>1. Layout(g, AllUnits(g.TT)) /\ g.nodes \in Seq(Nodes)
  BY DEF Whole, MRRGs
<1>2. DOMAIN g.nodes = 1 .. Len(g.nodes) /\ Len(g.nodes) \in Nat
  BY <1>1, LenProperties
<1>3. g.nodes[1].type # "FUNode"
  BY <1>1 DEF Layout, RootOf, Node
<1>4. fus = 2 .. Len(g.nodes)
  <2>1. \A k \in 1 .. Len(g.nodes) : g.nodes[k].type = "FUNode" <=> k \in 2 .. Len(g.nodes)
    <3>1. \A k \in 1 .. Len(g.nodes) : k = 1 \/ k \in 2 .. Len(g.nodes)
      BY <1>2
    <3>2. \A k \in 2 .. Len(g.nodes) : g.nodes[k].type = "FUNode"
      BY <1>1 DEF Layout
    <3>3. 1 \notin 2 .. Len(g.nodes)
      BY <1>2
    <3>. QED
      BY <1>3, <3>1, <3>2, <3>3
  <2>2. \A k \in 2 .. Len(g.nodes) : k \in 1 .. Len(g.nodes)
    BY <1>2
  <2>. QED
    BY <1>2, <2>1, <2>2
<1>5. {Where(g, k) : k \in fus} = AllUnits(g.TT)
  <2>1. /\ \A k \in fus : Where(g, k) \in AllUnits(g.TT)
        /\ \A u \in AllUnits(g.TT) : \E k \in fus : Where(g, k) = u
    BY <1>1, <1>4 DEF Layout
  <2>. QED
    BY <2>1
<1>6. \A j, k \in fus : Where(g, j) = Where(g, k) => j = k
  BY <1>1, <1>4 DEF Layout
<1>7. DOMAIN g.nodes \ fus = {1}
  <2>1. Len(g.nodes) >= 1
    BY <1>1 DEF Layout
  <2>. QED
    BY <1>2, <1>4, <2>1
<1>. QED
  BY <1>5, <1>6, <1>7 DEF AllUnits, G!FUsBetween
-----------------------------------------------------------------------------
LEMMA LiveIsWhole ==
    ASSUME IInv, NEW m \in Live
    PROVE  /\ m \in Objects /\ Own(m, store[m]) /\ Whole(store[m].mrrg)
           /\ store[m].mrrg \in MRRGs
  BY LiveOwns DEF Live, Own, Whole

(* Whatever the client does with its mappings, no edge leads to a node     *)
(* that is not in the graph: the source of an edge is a node, NULL or      *)
(* uninitialized, its end is a node.                                       *)
THEOREM TypesHold == Spec => []TypeOK
<1>1. ASSUME IInv PROVE TypeOK
  <2>1. stopped \in BOOLEAN
    BY <1>1 DEF IInv
  <2>2. ASSUME NEW m \in Live
        PROVE  LET g == store[m].mrrg
               IN  /\ \A k \in DOMAIN g.edges :
                         g.edges[k] \in (Stray .. Len(g.nodes)) \X (1 .. Len(g.nodes))
                   /\ DOMAIN store[m].mapping \subseteq Ops
                   /\ DOMAIN store[m].route_map \subseteq Edges
    <3>. DEFINE g == store[m].mrrg
    <3>1. Own(m, store[m]) /\ Whole(g) /\ g \in MRRGs
      BY <1>1, LiveIsWhole
    <3>2. g.edges \in Seq(Int \X Int) /\ g.nodes \in Seq(Nodes)
      BY <3>1 DEF MRRGs
    <3>3. Len(g.nodes) \in Nat
      BY <3>2, LenProperties
    <3>4. ASSUME NEW k \in DOMAIN g.edges
          PROVE  g.edges[k] \in (Stray .. Len(g.nodes)) \X (1 .. Len(g.nodes))
      <4>1. g.edges # <<>> /\ g.edges[k] \in Int \X Int
        BY <3>2
      <4>2. /\ g.edges[k][1] \in Stray .. Len(g.nodes)
            /\ g.edges[k][2] \in 2 .. Len(g.nodes)
        BY <3>1, <4>1 DEF Whole, Ends
      <4>. QED
        BY <3>3, <4>1, <4>2
    <3>. QED
      BY <3>1, <3>4 DEF Own
  <2>. QED
    BY <2>1, <2>2 DEF TypeOK
<1>. QED
  BY <1>1, StoreInvariant, PTL

(* A graph that extendGraphUntil built, entered again by its own lookups,  *)
(* extended by lookups of the client and copied any number of times is the *)
(* graph of MRRGGraph: a node for every unit and cycle, no node twice, one *)
(* root, and no edge too many or too few.                                  *)
THEOREM GraphsStayMRRG == Spec => []GraphIsMRRG
<1>1. ASSUME IInv PROVE GraphIsMRRG
  <2>1. ASSUME NEW m \in Live, store[m].mrrg.nodes # <<>>
        PROVE  LET g == store[m].mrrg
                   fus == {k \in DOMAIN g.nodes : g.nodes[k].type = "FUNode"}
               IN  /\ {Where(g, k) : k \in fus} = G!FUsBetween(Array, 0, g.TT)
                   /\ \A j, k \in fus : Where(g, j) = Where(g, k) => j = k
                   /\ DOMAIN g.nodes \ fus = {1}
                   /\ Graph(g) = {e \in G!MRRGEdges(Array, g.II) \cup
                                    (IF g.TT = g.II THEN {}
                                     ELSE G!AddedEdges(Array, G!RootNode, g.II + 1, g.TT)) :
                                     e[1] # G!RootNode}
    <3>. DEFINE g == store[m].mrrg
                fus == {k \in DOMAIN g.nodes : g.nodes[k].type = "FUNode"}
    <3>1. Whole(g) /\ g.nodes # <<>>
      BY <1>1, <2>1, LiveIsWhole
    <3>. HIDE DEF g
    <3>2. /\ {Where(g, k) : k \in fus} = G!FUsBetween(Array, 0, g.TT)
          /\ \A j, k \in fus : Where(g, j) = Where(g, k) => j = k
          /\ DOMAIN g.nodes \ fus = {1}
      BY <3>1, WholeHasUnits
    <3>3. Graph(g) = {e \in G!MRRGEdges(Array, g.II) \cup
                            (IF g.TT = g.II THEN {}
                             ELSE G!AddedEdges(Array, G!RootNode, g.II + 1, g.TT)) :
                            e[1] # G!RootNode}
      BY <3>1, WholeIsMRRG
    <3>. QED
      BY <3>2, <3>3 DEF g
  <2>. QED
    BY <2>1 DEF GraphIsMRRG
<1>. QED
  BY <1>1, StoreInvariant, PTL

(* The lookups of an extension enter extendGraphUntil again where they     *)
(* lead behind TT.  Those of the inner call do not: its loops find all     *)
(* nodes made, its closing edges begin before TT.  So the recursion ends   *)
(* one call deep.                                                          *)
NestsOnce ==
    call # Idle =>
        /\ call.pc = "units" => call.t - 2 <= call.g.TT
        /\ call.pc = "connections" =>
              /\ \E n \in Range(call.g.nodes) : n.T >= call.t
              /\ (IF Returns(call) THEN call.T ELSE call.t) - 1 <= call.g.TT

(* extendGraphUntil and getNodeByDetial call each other, but never deeper  *)
(* than once: TT follows the unit that is built closely enough for the     *)
(* inner call to find every node it looks up.                              *)
THEOREM RecursionIsShallow == Spec => []NestsOnce
<1>1. ASSUME IInv, call # Idle
      PROVE  /\ call.pc = "units" => call.t - 2 <= call.g.TT
             /\ call.pc = "connections" =>
                   /\ \E n \in Range(call.g.nodes) : n.T >= call.t
                   /\ (IF Returns(call) THEN call.T ELSE call.t) - 1 <= call.g.TT
  <2>1. Partial(call) /\ Progress(call)
    BY <1>1 DEF IInv, Partial
  <2>2. call.t \in Nat /\ call.T \in Nat /\ call.g.TT \in Nat /\ call.g.nodes \in Seq(Nodes)
    BY <2>1 DEF Partial, Calls, MRRGs
  <2>3. call.t <= call.T /\ (call.pc = "units" => call.t - 2 <= call.g.TT)
    BY <2>1, <2>2 DEF Progress
  <2>4. call.pc = "connections" => call.T - 1 <= call.g.TT
    BY <2>1, <2>2 DEF Progress
  <2>5. ASSUME call.pc = "connections" PROVE \E n \in Range(call.g.nodes) : n.T >= call.t
    <3>1. PICK p : p \in Array.PEs
      BY StoreAssumption
    <3>2. Layout(call.g, AllUnits(call.T))
      <4>1. UnitsBuilt(call) = AllUnits(call.T)
        BY <2>5 DEF UnitsBuilt
      <4>. QED
        BY <2>1, <4>1 DEF Partial
    <3>3. <<p, call.T>> \in AllUnits(call.T)
      BY <2>2, <3>1 DEF AllUnits
    <3>4. PICK k \in 2 .. Len(call.g.nodes) : Where(call.g, k) = <<p, call.T>>
      BY <3>2, <3>3 DEF Layout
    <3>5. call.g.nodes[k].T = call.T /\ call.g.nodes[k] \in Range(call.g.nodes)
      <4>1. k \in DOMAIN call.g.nodes
        BY <2>2, LenProperties
      <4>. QED
        BY <3>4, <4>1 DEF Where, Range
    <3>. QED
      BY <2>2, <2>3, <3>5
  <2>. QED
    BY <2>2, <2>3, <2>4, <2>5
<1>2. IInv => NestsOnce
  BY <1>1 DEF NestsOnce
<1>. QED
  BY <1>2, StoreInvariant, PTL

(* operator= of Mapping leaves no pointer to the nodes or edges of the     *)
(* mapping it copies from, and an extension of the graph keeps those that  *)
(* the mapping has valid.                                                  *)
THEOREM PointersOwned == Spec => []OwnPointers
<1>1. ASSUME IInv PROVE OwnPointers
  <2>1. ASSUME NEW m \in Live
        PROVE  /\ \A d \in DOMAIN store[m].mapping : store[m].mapping[d] \in Pointer(m)
               /\ \A e \in DOMAIN store[m].route_map : \A h \in DOMAIN store[m].route_map[e] :
                     /\ store[m].route_map[e][h].at = m
                     /\ <<store[m].route_map[e][h].src, store[m].route_map[e][h].des>>
                            \in Range(store[m].mrrg.edges)
    <3>. DEFINE v == store[m]
                g == v.mrrg
    <3>1. Own(m, v) /\ g \in MRRGs
      BY <1>1, LiveIsWhole
    <3>2. DOMAIN g.nodes = 1 .. Len(g.nodes)
      <4>1. g.nodes \in Seq(Nodes)
        BY <3>1 DEF MRRGs
      <4>. QED
        BY <4>1, LenProperties
    <3>3. \A d \in DOMAIN v.mapping : v.mapping[d] \in Pointer(m)
      BY <3>1, <3>2 DEF Own, GoodPlace, Pointer
    <3>4. ASSUME NEW e \in DOMAIN v.route_map, NEW h \in DOMAIN v.route_map[e]
          PROVE  /\ v.route_map[e][h].at = m
                 /\ <<v.route_map[e][h].src, v.route_map[e][h].des>> \in Range(g.edges)
      <4>. DEFINE r == v.route_map[e]
      <4>1. GoodRoute(m, g, r)
        BY <3>1 DEF Own
      <4>. HIDE DEF g, r, v
      <4>2. r[h] \in Hops(m) /\ <<r[h].src, r[h].des>> \in Range(g.edges)
        BY <3>4, <4>1, SeqIsFunction DEF GoodRoute, r
      <4>. QED
        BY <4>2 DEF Hops, r
    <3>. QED
      BY <3>3, <3>4
  <2>. QED
    BY <2>1 DEF OwnPointers
<1>. QED
  BY <1>1, StoreInvariant, PTL

(* A copy places every operation on the unit and the cycle of the original, *)
(* and, as long as IDs tell the nodes of the graph apart, routes every edge *)
(* through the same ones.                                                   *)
THEOREM CopiesSayTheSame == Spec => []CopiesAgree
<1>1. IInv => CopiesAgree
  BY DEF IInv
<1>. QED
  BY <1>1, StoreInvariant, PTL

(* Copying a mapping without a placement stops the program only when the   *)
(* graph has grown beyond its interval: what the ILP mapper returns is     *)
(* copied without reading a pointer that is not set.                       *)
THEOREM RoutesCopied == Spec => []RoutesCopySafely
<1>1. IInv => RoutesCopySafely
  BY DEF IInv
<1>. QED
  BY <1>1, StoreInvariant, PTL
=============================================================================
