--------------------------- MODULE MCDFGSchedule ---------------------------
(* Every dependence graph on MCN operations, with at most one anti edge    *)
(* and at most one control edge.                                           *)
EXTENDS DFGSchedule

MCN == 4
MCOp == 0 .. MCN - 1

AtMostOne(S) == {{}} \cup {{x} : x \in S}

MCGraphs ==
    LET fwd == {e \in MCOp \X MCOp : e[1] < e[2]}
        anti == {e \in MCOp \X MCOp : e[2] <= e[1]}
    IN  {[edges |-> d \cup a, ctrlEdges |-> c] :
            d \in SUBSET fwd, a \in AtMostOne(anti),
            c \in AtMostOne(MCOp \X MCOp)}
=============================================================================
