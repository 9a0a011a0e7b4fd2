----------------------------- MODULE MCIISearch -----------------------------
(* Limits of one and two ticks, minima on both sides of zero, intervals    *)
(* that are legal, hang or neither, and a largest interval of 4.           *)
EXTENDS IISearch

Call(m, mii, limit, limitII, legal, hangs) ==
    [mapper |-> m, MII |-> mii, limit |-> limit, limitII |-> limitII,
     places |-> 2, legal |-> legal, hangs |-> hangs]

MCCalls ==
    {Call("ilp", mii, l, 1, s, h) : mii \in -1 .. 2, l \in 1 .. 2,
         s \in SUBSET (1 .. 3), h \in {{}, {3}}}
    \cup {Call(m, mii, 2, 1, s, h) : m \in {"random", "exhaustive"}, mii \in 1 .. 2,
         s \in {{}, {2}, {2, 3}}, h \in {{}, {2}}}
MCRandom == {Call("random", 1, 2, 1, {1}, {})}
MCMAXT == 4
=============================================================================
