--------------------------- MODULE PlacementSearch ---------------------------
(***************************************************************************)
(* What ExhaustiveMapper::mapII promises for one interval: it tries every  *)
(* placement once, in an order left open, and gives up only when none is   *)
(* left or the time is over.                                               *)
(***************************************************************************)
VARIABLES untried,   \* placements not tried yet
          answer,    \* "none", "found" or "null"
          expired    \* the time is over

vars == <<untried, answer, expired>>

Init == answer = "none" /\ expired = FALSE

Expire == ~expired /\ expired' = TRUE /\ UNCHANGED <<untried, answer>>

Try ==
    /\ \E x \in untried \ untried' : untried' = untried \ {x}
    /\ UNCHANGED <<answer, expired>>

Find == answer' = "found" /\ UNCHANGED <<untried, expired>>

GiveUp ==
    /\ untried = {} \/ expired
    /\ answer' = "null" /\ UNCHANGED <<untried, expired>>

Next ==
    \/ Expire
    \/ /\ answer = "none"
       /\ Try \/ Find \/ GiveUp

Spec == Init /\ [][Next]_vars
=============================================================================
