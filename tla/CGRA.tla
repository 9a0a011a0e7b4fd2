-------------------------------- MODULE CGRA --------------------------------
(***************************************************************************)
(* The processing elements of an array and their connections               *)
(* (src/src/hardware-modeler/CGRA.cpp).  A PE is its ID; an array is       *)
(* [PEs, connections, adjList], the members the mapper could read.         *)
(***************************************************************************)
EXTENDS Integers

(* init2dmesh: PEs are numbered row by row; every PE is connected both     *)
(* ways with the one above it and the one to its left.                     *)
MeshPE(col, i, j) == i * col + j

MeshLinks(row, col) ==
    {<<MeshPE(col, i - 1, j), MeshPE(col, i, j)>> :
        i \in 1 .. row - 1, j \in 0 .. col - 1}
    \cup
    {<<MeshPE(col, i, j - 1), MeshPE(col, i, j)>> :
        i \in 0 .. row - 1, j \in 1 .. col - 1}

init2dmesh(row, col) ==
    [PEs |-> 0 .. row * col - 1,
     connections |-> MeshLinks(row, col) \cup
                     {<<l[2], l[1]>> : l \in MeshLinks(row, col)},
     adjList |-> {}]

(* loadFromToml: the neighbours of the file go to adjList; connections     *)
(* stays as the constructor left it.                                       *)
loadFromToml(ids, neighbours) ==
    [PEs |-> ids, connections |-> {}, adjList |-> neighbours]
=============================================================================
