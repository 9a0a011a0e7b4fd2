----------------------------- MODULE MCFindPath -----------------------------
(* All searches in the graphs of a 1x2 and a 2x2 mesh, for the interval    *)
(* and extended to twice its length, with the pointer left by an extension *)
(* to the root, to nothing, to the first and to a later functional unit.   *)
EXTENDS FindPath, MRRGObject

Wild == <<-2, -2>>

MeshSearches(ii, tt) ==
    [cgra : {init2dmesh(1, 2)}, II : {ii}, TT : {tt},
     stale : {RootNode, Wild, <<0, 0>>, <<0, ii>>},
     src : FUsBetween(init2dmesh(1, 2), 0, ii), des : FUsBetween(init2dmesh(1, 2), 0, tt)]

MCSearches ==
    UNION {MeshSearches(ii, ii) \cup MeshSearches(ii, 2 * ii) : ii \in 1 .. 4}
    \cup [cgra : {init2dmesh(2, 2)}, II : {3}, TT : {3}, stale : {Wild},
          src : {<<0, 0>>}, des : (0 .. 3) \X {2}]

(* A call of extendGraphUntil from beginning to end. *)
Turns(c) == (Len(PEsOf(c.g.cgra)) + Len(ConnectionsOf(c.g.cgra))) * (c.T - c.startT + 1)
Extended(g, T) ==
    LET turn(c, i) == IF c.pc = "units" THEN UnitStep(c) ELSE ConnectionStep(c)
        begun == Enter(NULL, g, T)
    IN  Close(FoldLeft(turn, begun, [i \in 1 .. Turns(begun) |-> i]).g, T)
Made(cgra, II) == Extended(NewMRRG(cgra, II), II)

(* The vector of edges with their ends as <<PE, time>>; a stray pointer     *)
(* holds stale.                                                            *)
EndsOf(g, root, stale) ==
    LET end(p) == CASE p = Stray -> stale
                    [] p = 1 -> root
                    [] OTHER -> <<g.nodes[p].pe, g.nodes[p].T>>
    IN  [k \in DOMAIN g.edges |-> <<end(g.edges[k][1]), end(g.edges[k][2])>>]

Graphs == {[cgra |-> s.cgra, II |-> s.II, TT |-> s.TT, stale |-> s.stale] : s \in MCSearches}
Built == [g \in Graphs |->
            EndsOf(IF g.TT = g.II THEN Made(g.cgra, g.II)
                   ELSE Extended(Made(g.cgra, g.II), g.TT), RootNode, g.stale)]
MCEdgesOf(s) == Built[[cgra |-> s.cgra, II |-> s.II, TT |-> s.TT, stale |-> s.stale]]
MCMaxPath == 9
=============================================================================
