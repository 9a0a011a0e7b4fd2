----------------------------- MODULE MCDFGSlack -----------------------------
(* Six operations, four of them a dependence chain: the other two may form *)
(* a shorter branch of it, so that operations have room to move.           *)
EXTENDS DFGSchedule

MCN == 6
MCOp == 0 .. MCN - 1

Chain == {<<0, 1>>, <<1, 2>>, <<2, 5>>}

MCGraphs ==
    {[edges |-> Chain \cup d, ctrlEdges |-> {}] :
        d \in SUBSET ({e \in MCOp \X MCOp : e[1] < e[2]} \ Chain)}
=============================================================================
