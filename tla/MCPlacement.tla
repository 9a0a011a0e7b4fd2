----------------------------- MODULE MCPlacement -----------------------------
(* Two and three operations on two PEs, connected as a 1x2 mesh or, as in  *)
(* an array from a file, not at all; windows that lie inside the interval  *)
(* or reach behind it; operations that both, one or no PE supports;        *)
(* forward, anti and no edges.                                             *)
EXTENDS Placement, CGRA

Problem(lo, hi, units, edges, array, ii) ==
    [n |-> Len(lo), lo |-> lo, hi |-> hi, units |-> units, edges |-> edges,
     cgra |-> array, II |-> ii]

Mesh == init2dmesh(1, 2)
Custom == loadFromToml({0, 1}, {<<0, 1>>, <<1, 0>>})

MCProblems ==
    {Problem(<<0, 1>>, <<h, h + 1>>, <<u, v>>, e, Mesh, ii) :
        h \in 0 .. 2, u, v \in {<<>>, <<0>>, <<1>>, <<0, 1>>}, ii \in 1 .. 2,
        e \in {<<>>, <<<<1, 2, FALSE>>>>, <<<<1, 2, TRUE>>>>,
              <<<<1, 2, FALSE>>, <<2, 1, TRUE>>>>}}
    \cup
    {Problem(<<0, 0, 1>>, <<1, h, 2>>, <<<<0, 1>>, <<1>>, <<0, 1>>>>, e, Mesh, ii) :
        h \in {1, 3}, ii \in 1 .. 2,
        e \in {<<<<1, 3, FALSE>>>>, <<<<1, 3, FALSE>>, <<2, 3, FALSE>>>>,
              <<<<1, 3, FALSE>>, <<2, 2, TRUE>>>>}}
    \cup
    {Problem(<<0, 0, 1>>, <<1, 1, 2>>, <<<<0, 1>>, <<1>>, u>>, e, Custom, 3) :
        u \in {<<0>>, <<0, 1>>},
        e \in {<<<<1, 3, FALSE>>, <<2, 3, FALSE>>>>}}
MCMappers == {"exhaustive", "random"}
=============================================================================
