----------------------------- MODULE MCDFGBuild -----------------------------
(* Every small single-block loop, and loops with branches, calls and       *)
(* chains of uses before definitions.                                      *)
EXTENDS DFGBuild

Phi(ops, from) == [kind |-> "phi", ops |-> ops, from |-> from, succ |-> <<>>]
Inst(k, ops) == [kind |-> k, ops |-> ops, from |-> <<>>, succ |-> <<>>]
Jump(to) == [kind |-> "br", ops |-> <<Outside>>, from |-> <<>>, succ |-> <<to>>]
Branch(c, s) == [kind |-> "br", ops |-> <<c, Outside, Outside>>, from |-> <<>>, succ |-> s]

(* Block 1 is the loop, block 0 before it, block 9 after it. *)
OneBlock ==
    {<<Phi(<<Const, x>>, <<0, 1>>), Inst(k, <<y, z>>), Inst("op", <<u, Const>>),
       Branch(c, <<1, 9>>)>> :
        x \in -1 .. 3, k \in {"op", "call"}, y \in -1 .. 1, z \in -1 .. 1,
        u \in -1 .. 2, c \in {0, 3}}

(* Two phis that feed each other, a value found through three uses. *)
Chain ==
    <<Phi(<<Const, 6>>, <<0, 1>>), Phi(<<Outside, 1>>, <<0, 1>>),
      Inst("op", <<1, 2>>), Inst("op", <<3, Const>>), Inst("call", <<4, 3, Outside>>),
      Inst("op", <<5, 4>>), Inst("op", <<6, Const>>), Branch(7, <<9, 1>>)>>

(* if-then-else: blocks 1 -> 2, 3 -> 4 -> 1; the phi of block 4 merges. *)
Diamond ==
    <<Phi(<<Const, 6>>, <<0, 4>>), Inst("op", <<1, Const>>), Branch(2, <<2, 3>>),
      Jump(4), Jump(4), Phi(<<1, 2>>, <<2, 3>>), Inst("op", <<6, Outside>>),
      Branch(7, <<1, 9>>)>>

(* if-then: the branch is itself a predecessor of the merge. *)
Triangle ==
    <<Phi(<<Const, 4>>, <<0, 3>>), Branch(1, <<2, 3>>), Jump(3),
      Phi(<<1, Outside>>, <<1, 2>>), Branch(4, <<1, 9>>)>>

(* An instruction the tool does not know, met in turn or as an operand. *)
Unknown == <<Phi(<<Const, 2>>, <<0, 1>>), Inst("other", <<1>>), Branch(2, <<1, 9>>)>>
UnknownLast == <<Phi(<<Const, 1>>, <<0, 1>>), Branch(1, <<1, 9>>), Inst("other", <<1>>)>>

MCLoops == OneBlock \cup {Chain, Diamond, Triangle, Unknown, UnknownLast}
MCDiamond == {Diamond}
=============================================================================
