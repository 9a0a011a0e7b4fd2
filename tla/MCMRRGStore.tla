----------------------------- MODULE MCMRRGStore -----------------------------
(* Two mappings of one operation and one edge onto a 1x2 mesh. *)
EXTENDS MRRGStore, TLC

CONSTANTS m1, m2, op, edge

MCObjects == {m1, m2}
MCOps == {op}
MCEdges == {edge}
MCArray == init2dmesh(1, 2)
MCIIs == {2}
MCMaxT == 4
MCMaxID == 2
MCMaxRoute == 1
MCUsedPEs == {0}
MCSymmetry == Permutations(MCObjects)
=============================================================================
