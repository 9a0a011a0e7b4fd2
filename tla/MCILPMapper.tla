---------------------------- MODULE MCILPMapper ----------------------------
(* Small loops on a 1x2 array.  The cycles are those calculateCycle gives, *)
(* written as functions of the graph.                                      *)
EXTENDS ILPMapper, CGRA

Dep(g) == {e \in {g.data[k] : k \in DOMAIN g.data} : e[1] < e[2]}
Best(S, R(_, _)) == CHOOSE x \in S : \A y \in S : R(x, y)
Larger(x, y) == x >= y
Smaller(x, y) == x <= y

Earliest(g) ==
    LET a[n \in 0 .. g.n - 1] ==
          Best({0} \cup {a[e[1]] + 1 : e \in {e \in Dep(g) : e[2] = n}}, Larger)
    IN  a
Scheduled(g) ==
    LET a == Earliest(g)
        c[n \in 0 .. g.n - 1] ==
          LET uses == {e \in Dep(g) : e[1] = n}
          IN  IF uses = {} THEN a[n]
              ELSE Best({c[e[2]] : e \in uses}, Smaller) - 1
    IN  c

MCProblem(g, ii, arch) ==
    [n |-> g.n, edges |-> g.data \o g.ctrl,
     ctrl |-> {Len(g.data) + k : k \in DOMAIN g.ctrl},
     cycle |-> Scheduled(g), cgra |-> arch, II |-> ii]

Mesh == init2dmesh(1, 2)
Row3 == init2dmesh(1, 3)
Toml == loadFromToml({0, 1}, {<<0, 1>>, <<1, 0>>})

(* phi -> add -> phi *)
Accumulate == [n |-> 2, data |-> <<<<0, 1>>, <<1, 0>>>>, ctrl |-> <<>>]
(* phi -> add -> icmp -> br, the add back to the phi, br controls the phi *)
CountedLoop == [n |-> 4, data |-> <<<<0, 1>>, <<1, 0>>, <<1, 2>>, <<2, 3>>>>,
                ctrl |-> <<<<3, 0>>>>]
(* an operand that waits one cycle *)
Waiting == [n |-> 3, data |-> <<<<0, 1>>, <<1, 2>>, <<0, 2>>>>, ctrl |-> <<>>]
(* an operand that waits two cycles *)
LongWait == [n |-> 4, data |-> <<<<0, 1>>, <<1, 2>>, <<2, 3>>, <<0, 3>>>>, ctrl |-> <<>>]
(* the value for the next iteration is ready before its phi is scheduled *)
EarlyValue == [n |-> 4, data |-> <<<<1, 2>>, <<2, 3>>, <<0, 3>>, <<1, 0>>>>,
               ctrl |-> <<>>]
(* a conditional branch before the phi it controls, in either cycle order *)
ForwardControl == [n |-> 3, data |-> <<<<0, 1>>>>, ctrl |-> <<<<1, 2>>>>]
LateMerge == [n |-> 4, data |-> <<<<0, 1>>, <<0, 2>>, <<2, 3>>>>, ctrl |-> <<<<1, 3>>>>]
(* a call: each value operand is an edge twice *)
CallUsed == [n |-> 3, data |-> <<<<0, 1>>, <<0, 1>>, <<1, 2>>>>, ctrl |-> <<>>]
CallChain == [n |-> 3, data |-> <<<<0, 1>>, <<0, 1>>, <<1, 2>>, <<1, 2>>>>, ctrl |-> <<>>]
(* a branch before an operation whose operand is doubled *)
CallMerge == [n |-> 3, data |-> <<<<0, 2>>, <<0, 2>>>>, ctrl |-> <<<<1, 2>>>>]
CallUnused == [n |-> 2, data |-> <<<<0, 1>>, <<0, 1>>>>, ctrl |-> <<>>]
(* two waiting operands of the same operation *)
TwoWaiting == [n |-> 4, data |-> <<<<0, 1>>, <<1, 2>>, <<2, 3>>, <<0, 3>>, <<1, 3>>>>,
               ctrl |-> <<>>]
(* RecMII is 2, the scheduled recurrence needs 3 *)
SlackRecurrence == [n |-> 5, data |-> <<<<0, 1>>, <<2, 3>>, <<3, 4>>, <<4, 0>>>>,
                    ctrl |-> <<>>]
(* the same with one operation more: RecMII is 2, the schedule needs 4 *)
LongSlackRecurrence == [n |-> 6, data |-> <<<<0, 1>>, <<2, 3>>, <<3, 4>>, <<4, 5>>, <<5, 0>>>>,
                        ctrl |-> <<>>]

MCProblems ==
    {MCProblem(Accumulate, ii, a) : ii \in 2 .. 3, a \in {Mesh, Toml}}
    \cup {MCProblem(CountedLoop, 4, Mesh)}
    \cup {MCProblem(Waiting, ii, Mesh) : ii \in 1 .. 3}
    \cup {MCProblem(LongWait, ii, Mesh) : ii \in 2 .. 3}
    \cup {MCProblem(EarlyValue, ii, Mesh) : ii \in 2 .. 3}
    \cup {MCProblem(g, 2, Mesh) : g \in {ForwardControl, LateMerge, CallUsed,
                                         SlackRecurrence, LongSlackRecurrence}}
    \cup {MCProblem(g, 3, Mesh) : g \in {TwoWaiting, CallChain}}
    \cup {MCProblem(CallMerge, 2, Row3)}

MCCallProblems == {MCProblem(CallUnused, 2, Mesh)}
MCSlackProblems == {MCProblem(LongSlackRecurrence, 2, init2dmesh(2, 2))}
=============================================================================
