------------------------------ MODULE FindPath ------------------------------
(***************************************************************************)
(* MRRG::findPath (src/src/mapper/MRRG.cpp), the depth-first search that   *)
(* Mapping::isLegal runs for every edge of the data-flow graph.            *)
(*                                                                         *)
(* The graph was built for the interval II and may have been extended to a *)
(* later time TT by getFUsOfT or getNodeByDetial.  An extension does not   *)
(* set its variable rootnode: the edges it adds for the root leave         *)
(* whatever that pointer holds (search.stale).  The edges are the vector   *)
(* of the object, in its order.                                            *)
(***************************************************************************)
EXTENDS MRRGGraph, Sequences, Order

CONSTANTS Searches,     \* inputs: [cgra, II, TT, stale, src, des]
          EdgesOf(_),   \* the vector of edges of the graph searched
          MaxPath       \* bound: a path with more nodes is not explored

(* The graph of the interval, and what an extension to TT adds. *)
Graph(s) ==
    MRRGEdges(s.cgra, s.II)
    \cup IF s.TT = s.II THEN {} ELSE AddedEdges(s.cgra, s.stale, s.II + 1, s.TT)

ASSUME SearchesAssumption == \A s \in Searches :
    /\ s.II \in Nat \ {0} /\ s.TT \in Nat /\ s.II <= s.TT
    /\ s.cgra.connections \subseteq s.cgra.PEs \X s.cgra.PEs
    /\ s.src \in FUsBetween(s.cgra, 0, s.TT) /\ s.des \in FUsBetween(s.cgra, 0, s.TT)

(* In whatever order, the vector has the edges of the graph. *)
ASSUME EdgesAssumption == \A s \in Searches :
    LET es == EdgesOf(s)
    IN  /\ Len(es) \in Nat /\ DOMAIN es = 1 .. Len(es)
        /\ {es[k] : k \in DOMAIN es} = Graph(s)

ASSUME MaxPathAssumption == MaxPath \in Nat

VARIABLES search,
          edges,      \* of the graph, pairs of <<PE, time>>
          pc,
          notVstd,    \* stack of nodes to visit
          curPath,    \* path to the node visited last
          paths       \* the paths found

vars == <<search, edges, pc, notVstd, curPath, paths>>

src == search.src
des == search.des

getEdge(m, n) == \E k \in DOMAIN edges : edges[k] = <<m, n>>

(* Mutant: edges back to time 0 are not followed. *)
childrenForward(node) ==
    LET out == InOrder({k \in DOMAIN edges : /\ edges[k][1] = node
                                            /\ TimeOf(edges[k][2]) > TimeOf(node)})
    IN  [j \in DOMAIN out |-> edges[out[j]][2]]

(* Mutant: the nodes with an edge to it. *)
parentsOf(node) ==
    LET in == InOrder({k \in DOMAIN edges : edges[k][2] = node})
    IN  [j \in DOMAIN in |-> edges[in[j]][1]]

childrenOf(node) ==
    LET out == InOrder({k \in DOMAIN edges : edges[k][1] = node})
    IN  [j \in DOMAIN out |-> edges[out[j]][2]]

Init ==
    /\ search \in Searches
    /\ edges = EdgesOf(search)
    /\ pc = "start"
    /\ notVstd = <<>> /\ curPath = <<>> /\ paths = {}

Reject ==
    /\ pc = "start" /\ TimeOf(src) >= TimeOf(des)
    /\ pc' = "done"
    /\ UNCHANGED <<search, edges, notVstd, curPath, paths>>

Begin ==
    /\ pc = "start" /\ TimeOf(src) < TimeOf(des)
    /\ pc' = "search"
    /\ notVstd' = <<src>>
    /\ UNCHANGED <<search, edges, curPath, paths>>
-----------------------------------------------------------------------------
cur == notVstd[Len(notVstd)]
Popped == SubSeq(notVstd, 1, Len(notVstd) - 1)

(* Mutant: one node is taken off the path, not as many as needed. *)
BacktrackOnce ==
    LET n == Len(curPath)
    IN  Append(IF n # 0 /\ ~getEdge(curPath[n], cur) THEN SubSeq(curPath, 1, n - 1)
               ELSE curPath, cur)

(* The longest prefix of curPath that leads to cur, and cur. *)
Backtracked ==
    LET ok == {0} \cup {k \in DOMAIN curPath : getEdge(curPath[k], cur)}
    IN  Append(SubSeq(curPath, 1, CHOOSE k \in ok : \A j \in ok : j <= k), cur)

Searching == pc = "search" /\ notVstd # <<>>

(* Mutant: the leaf stays on the stack. *)
VisitLeafAgain ==
    /\ Searching /\ TimeOf(cur) = TimeOf(des)
    /\ curPath' = Backtracked
    /\ paths' = IF cur = des THEN paths \cup {curPath'} ELSE paths
    /\ UNCHANGED <<search, edges, pc, notVstd>>

VisitLeaf ==
    /\ Searching /\ TimeOf(cur) = TimeOf(des)
    /\ curPath' = Backtracked
    /\ paths' = IF cur = des THEN paths \cup {curPath'} ELSE paths
    /\ notVstd' = Popped
    /\ UNCHANGED <<search, edges, pc>>

VisitInner ==
    /\ Searching /\ TimeOf(cur) < TimeOf(des)
    /\ Len(Backtracked) <= MaxPath
    /\ curPath' = Backtracked
    /\ notVstd' = Popped \o childrenOf(cur)
    /\ UNCHANGED <<search, edges, pc, paths>>

(* "There is no des node like" *)
VisitBeyond ==
    /\ Searching /\ TimeOf(cur) > TimeOf(des)
    /\ pc' = "failed"
    /\ curPath' = Backtracked
    /\ notVstd' = Popped
    /\ UNCHANGED <<search, edges, paths>>

Return ==
    /\ pc = "search" /\ notVstd = <<>>
    /\ pc' = "done"
    /\ UNCHANGED <<search, edges, notVstd, curPath, paths>>

Next == Reject \/ Begin \/ VisitLeaf \/ VisitInner \/ VisitBeyond \/ Return

Spec == Init /\ [][Next]_vars
(* One thread runs the search.                                             *)
FairSpec == Spec /\ WF_vars(Next)
-----------------------------------------------------------------------------
FUs == FUsBetween(search.cgra, 0, search.TT)

(* Times from which edges lead back to time 0: the end of the interval,    *)
(* and, in an extended graph, every later one.                             *)
Closings == search.II - 1 .. search.TT - 1
Crosses == \E t \in Closings : TimeOf(src) <= t /\ t < TimeOf(des)
StaleUsed == search.stale \in FUs

TypeOK ==
    /\ search \in Searches
    /\ pc \in {"start", "search", "done", "failed"}
    /\ \A k \in DOMAIN notVstd : notVstd[k] \in FUs
    /\ \A k \in DOMAIN curPath : curPath[k] \in FUs
    /\ \A p \in paths : p[1] = src /\ p[Len(p)] = des

(* The walks from src to des that advance one cycle a hop. *)
Walks ==
    LET n == TimeOf(des) - TimeOf(src) + 1
    IN  {[k \in 1 .. n |-> <<pe[k], TimeOf(src) + k - 1>>] :
            pe \in {pe \in [1 .. n -> search.cgra.PEs] :
                      /\ pe[1] = PEOf(src) /\ pe[n] = PEOf(des)
                      /\ \A k \in 1 .. n - 1 : <<pe[k], pe[k + 1]>> \in Links(search.cgra)}}

(* The path is rebuilt from the stack alone, by dropping nodes until one   *)
(* has an edge to the node visited; what the search returns are exactly    *)
(* the walks from src to des.                                              *)
FindsAllWalks ==
    pc = "done" /\ TimeOf(src) < TimeOf(des) /\ ~StaleUsed => paths = Walks

(* The search returns only when no closing edge lies between src and des:  *)
(* otherwise it walks around the interval for ever.  The anti edges        *)
(* isLegal looks for all end an II later, behind such an edge.  It gives   *)
(* up only where the root of an extension happens to be a unit.            *)
ReturnsOnlyWithinInterval ==
    /\ pc = "done" /\ TimeOf(src) < TimeOf(des) => ~Crosses
    /\ pc = "failed" => StaleUsed

(* Within the interval it does return. *)
SearchEnds == ~Crosses ~> pc \in {"done", "failed"}
=============================================================================
