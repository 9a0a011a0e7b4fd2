----------------------------- MODULE MRRGGraph -----------------------------
(***************************************************************************)
(* The modulo routing resource graph as MRRG::extendGraphUntil builds it   *)
(* (src/src/mapper/MRRG.cpp).  The functional unit of PE pe at time t is   *)
(* <<pe, t>>, the root node <<-1, -1>>, an edge a pair of nodes.           *)
(***************************************************************************)
EXTENDS Integers

RootNode == <<-1, -1>>
TimeOf(node) == node[2]
PEOf(node) == node[1]

(* A value stays in its PE or moves along a connection. *)
Links(cgra) == {<<p, p>> : p \in cgra.PEs} \cup cgra.connections

FUsBetween(cgra, lo, hi) == cgra.PEs \X (lo .. hi)

(* Edges t-1 -> t of the nodes with lo <= t <= hi. *)
StepEdges(cgra, lo, hi) ==
    {<<<<l[1], t - 1>>, <<l[2], t>>>> : l \in Links(cgra), t \in (lo .. hi) \ {0}}

(* Edges T-1 -> 0 that close the interval. *)
WrapEdges(cgra, T) ==
    {<<<<l[1], T - 1>>, <<l[2], 0>>>> : l \in Links(cgra)}

(* extendGraphUntil(T) when the nodes before lo exist: what it adds.  The  *)
(* lookups of an extension find TT not set yet and enter it again, once    *)
(* for every time on the way, so all of these get closing edges;           *)
(* MRRGObject has it step by step.                                         *)
Closed(lo, T) == IF lo = 0 THEN {T} ELSE lo .. T

AddedEdges(cgra, root, lo, T) ==
    {<<root, fu>> : fu \in FUsBetween(cgra, lo, T)}
    \cup StepEdges(cgra, lo, T)
    \cup UNION {WrapEdges(cgra, t) : t \in Closed(lo, T)}

(* MRRG(cgra, II) *)
MRRGEdges(cgra, II) == AddedEdges(cgra, RootNode, 0, II)

getEdgesOfT(edges, T0, T1) ==
    {e \in edges : TimeOf(e[1]) = T0 /\ TimeOf(e[2]) = T1}
=============================================================================
