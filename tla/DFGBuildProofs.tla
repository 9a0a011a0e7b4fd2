--------------------------- MODULE DFGBuildProofs ---------------------------
(***************************************************************************)
(* The graph of a loop, for every set of loops in SSA form: the recursive  *)
(* parse never enters an instruction twice, and leaves exactly the nodes   *)
(* and edges of the operands.                                              *)
(***************************************************************************)
EXTENDS DFGBuild, SequenceTheorems, FiniteSetTheorems, TLAPS

Kinds == {"root", "op", "const", "value"}

(* An instruction has at most one node; the other nodes have none. *)
NodeInv ==
    /\ nodes \in Seq([kind : Kinds, inst : 0 .. Len(insts)])
    /\ RootNode \in DOMAIN nodes
    /\ \A k \in DOMAIN nodes : /\ isOp(k) <=> nodes[k].inst # 0
                               /\ nodes[k].kind = "root" <=> k = RootNode
    /\ \A j, k \in DOMAIN nodes :
          nodes[j].inst # 0 /\ nodes[j].inst = nodes[k].inst => j = k

(* A parse under way has its node already: no second one begins. *)
StackInv ==
    /\ stack \in Seq([inst : DOMAIN insts, op : Nat \ {0}])
    /\ \A k \in DOMAIN stack : getNode(stack[k].inst) # {}
    /\ RecursionEnds
    /\ Parsed => stack = <<>>

ProgressInv ==
    /\ insts \in Loops /\ pc \in {"insts", "ctrl", "root", "done", "exited"}
    /\ next \in Nat \ {0}
    /\ pc = "insts" => \A n \in DOMAIN insts : n < next => getNode(n) # {}
    /\ Parsed => \A n \in DOMAIN insts : getNode(n) # {}

(* The parse of n has come past operand o, or is over. *)
Reached(n, o) == \A k \in DOMAIN stack : stack[k].inst = n => o < stack[k].op

CopiesOf(n, o) == IF insts[n].kind = "call" /\ insts[n].ops[o] # Const THEN {1, 2} ELSE {1}
Bundle(s, n, o) == {[src |-> s, des |-> NodeOf(n), op |-> o, copy |-> c] : c \in CopiesOf(n, o)}

(* Named without NodeOf: the node of the operand exists. *)
ComesFrom(e, v) ==
    IF v \in {Const, Outside}
    THEN ~isOp(e.src) /\ \A f \in edges : f.src = e.src => f.op = e.op /\ f.des = e.des
    ELSE nodes[e.src].inst = v

(* An edge is that of an operand passed, or one of the root's. *)
Sound(e) ==
    LET n == nodes[e.des].inst
    IN  IF e.src = RootNode
        THEN e.op = 0 /\ pc \in {"root", "done"}
        ELSE e.op \in DOMAIN insts[n].ops /\ Reached(n, e.op) /\ ComesFrom(e, insts[n].ops[e.op])

EdgeInv ==
    /\ edges \subseteq [src : DOMAIN nodes, des : DOMAIN nodes, op : Nat, copy : {1, 2}]
    /\ \A e \in edges : isOp(e.des) /\ Sound(e)

(* And every operand passed has its edges. *)
OperandInv ==
    \A n \in DOMAIN insts : getNode(n) # {} =>
        \A o \in DOMAIN insts[n].ops : Reached(n, o) =>
            \E s \in DOMAIN nodes : EdgesOf(n, o) = Bundle(s, n, o)

CtrlInv ==
    \A e \in ctrlEdges : e.src \in DOMAIN nodes /\ e.des \in DOMAIN nodes

(* InsertRoot has dealt with the nodes before next. *)
Fed(k) == \E e \in edges : e.src = RootNode /\ e.des = k
RootInv ==
    /\ pc = "root" => \A k \in DOMAIN nodes : isOp(k) =>
          IF k < next THEN getEdgesTo(k) = {} <=> Fed(k) ELSE ~Fed(k)
    /\ RootFeedsTheRest

IInv == /\ NodeInv /\ StackInv /\ ProgressInv /\ EdgeInv
        /\ OperandInv /\ CtrlInv /\ RootInv
-----------------------------------------------------------------------------
LEMMA LoopFacts ==
    ASSUME insts \in Loops
    PROVE  /\ Len(insts) \in Nat /\ DOMAIN insts = 1 .. Len(insts)
           /\ \A n \in DOMAIN insts :
                 /\ insts[n].ops \in Seq(DOMAIN insts \cup {Const, Outside})
                 /\ DOMAIN insts[n].ops = 1 .. Len(insts[n].ops)
                 /\ Len(insts[n].ops) \in Nat
                 /\ \A o \in DOMAIN insts[n].ops :
                       insts[n].ops[o] \in DOMAIN insts \cup {Const, Outside}
<1>1. Len(insts) \in Nat /\ DOMAIN insts = 1 .. Len(insts)
  BY LoopsAssumption
<1>2. ASSUME NEW n \in DOMAIN insts
      PROVE  /\ insts[n].ops \in Seq(DOMAIN insts \cup {Const, Outside})
             /\ DOMAIN insts[n].ops = 1 .. Len(insts[n].ops)
             /\ Len(insts[n].ops) \in Nat
             /\ \A o \in DOMAIN insts[n].ops :
                   insts[n].ops[o] \in DOMAIN insts \cup {Const, Outside}
  <2>1. insts[n].ops \in Seq(DOMAIN insts \cup {Const, Outside})
    BY <1>1, LoopsAssumption
  <2>. QED
    BY <2>1, LenProperties, ElementOfSeq
<1>. QED
  BY <1>1, <1>2

LEMMA NodeFacts ==
    ASSUME NodeInv
    PROVE  /\ Len(nodes) \in Nat \ {0} /\ DOMAIN nodes = 1 .. Len(nodes)
           /\ \A k \in DOMAIN nodes : nodes[k].kind \in Kinds
                                      /\ nodes[k].inst \in 0 .. Len(insts)
           /\ ~isOp(RootNode)
<1>1. nodes \in Seq([kind : Kinds, inst : 0 .. Len(insts)]) /\ RootNode \in DOMAIN nodes
  BY DEF NodeInv
<1>2. Len(nodes) \in Nat /\ DOMAIN nodes = 1 .. Len(nodes)
  BY <1>1, LenProperties
<1>3. \A k \in DOMAIN nodes : nodes[k] \in [kind : Kinds, inst : 0 .. Len(insts)]
  BY <1>1, <1>2, ElementOfSeq
<1>4. ~isOp(RootNode)
  BY <1>1 DEF NodeInv, isOp
<1>. QED
  BY <1>1, <1>2, <1>3, <1>4 DEF RootNode

(* NodeOf is the one node of an instruction that has one. *)
LEMMA NodeOfIs ==
    ASSUME NodeInv, insts \in Loops, NEW n \in DOMAIN insts, getNode(n) # {}
    PROVE  /\ NodeOf(n) \in DOMAIN nodes /\ nodes[NodeOf(n)].inst = n
           /\ isOp(NodeOf(n)) /\ NodeOf(n) # RootNode
           /\ getNode(n) = {NodeOf(n)}
<1>1. n # 0
  BY LoopFacts
<1>2. NodeOf(n) \in getNode(n)
  BY DEF NodeOf
<1>3. NodeOf(n) \in DOMAIN nodes /\ nodes[NodeOf(n)].inst = n
  BY <1>2 DEF getNode
<1>4. isOp(NodeOf(n)) /\ NodeOf(n) # RootNode
  BY <1>1, <1>3, NodeFacts DEF NodeInv
<1>5. \A k \in getNode(n) : k = NodeOf(n)
  BY <1>1, <1>3 DEF NodeInv, getNode
<1>. QED
  BY <1>2, <1>3, <1>4, <1>5

LEMMA NodeOfInst ==
    ASSUME NodeInv, insts \in Loops, NEW k \in DOMAIN nodes, isOp(k)
    PROVE  /\ nodes[k].inst \in DOMAIN insts
           /\ getNode(nodes[k].inst) # {} /\ NodeOf(nodes[k].inst) = k
<1>1. nodes[k].inst \in DOMAIN insts
  BY NodeFacts, LoopFacts DEF NodeInv
<1>2. k \in getNode(nodes[k].inst)
  BY DEF getNode
<1>. QED
  BY <1>1, <1>2, NodeOfIs

(* A node more: the others keep their places, and the instructions their   *)
(* nodes.                                                                  *)
LEMMA AppendNode ==
    ASSUME NodeInv, insts \in Loops, insts' = insts,
           NEW x \in [kind : {"op", "const", "value"}, inst : 0 .. Len(insts)],
           x.kind = "op" <=> x.inst # 0,
           x.inst # 0 => getNode(x.inst) = {},
           nodes' = Append(nodes, x)
    PROVE  /\ NodeInv'
           /\ Len(nodes') = Len(nodes) + 1
           /\ DOMAIN nodes' = DOMAIN nodes \cup {Len(nodes')}
           /\ Len(nodes') \notin DOMAIN nodes
           /\ \A k \in DOMAIN nodes : nodes'[k] = nodes[k]
           /\ nodes'[Len(nodes')] = x
           /\ \A n \in DOMAIN insts : n # x.inst =>
                 getNode(n)' = getNode(n) /\ NodeOf(n)' = NodeOf(n)
           /\ x.inst # 0 => getNode(x.inst)' = {Len(nodes')}
<1>1. /\ nodes \in Seq([kind : Kinds, inst : 0 .. Len(insts)])
      /\ x \in [kind : Kinds, inst : 0 .. Len(insts)]
  BY DEF NodeInv, Kinds
<1>2. /\ nodes' \in Seq([kind : Kinds, inst : 0 .. Len(insts)])
      /\ Len(nodes') = Len(nodes) + 1
      /\ \A k \in 1 .. Len(nodes) : nodes'[k] = nodes[k]
      /\ nodes'[Len(nodes) + 1] = x
  BY <1>1, AppendProperties
<1>3. Len(nodes) \in Nat \ {0} /\ DOMAIN nodes = 1 .. Len(nodes)
  BY NodeFacts
<1>4. /\ DOMAIN nodes' = DOMAIN nodes \cup {Len(nodes')}
      /\ Len(nodes') \notin DOMAIN nodes
      /\ \A k \in DOMAIN nodes : nodes'[k] = nodes[k]
      /\ nodes'[Len(nodes')] = x
  <2>1. DOMAIN nodes' = 1 .. Len(nodes')
    BY <1>2, LenProperties
  <2>. QED
    BY <1>2, <1>3, <2>1
<1>5. \A n : n # x.inst => getNode(n)' = getNode(n)
  BY <1>4 DEF getNode
<1>6. x.inst # 0 => getNode(x.inst)' = {Len(nodes')}
  BY <1>4 DEF getNode
<1>7. NodeInv'
  <2>1. /\ nodes' \in Seq([kind : Kinds, inst : 0 .. Len(insts')])
        /\ RootNode \in DOMAIN nodes'
    BY <1>2, <1>4 DEF NodeInv
  <2>2. RootNode # Len(nodes')
    BY <1>4 DEF NodeInv
  <2>3. \A k \in DOMAIN nodes' : /\ (nodes'[k].kind = "op") <=> nodes'[k].inst # 0
                                 /\ nodes'[k].kind = "root" <=> k = RootNode
    BY <1>4, <2>2 DEF NodeInv, isOp
  <2>4. ASSUME NEW j \in DOMAIN nodes', NEW k \in DOMAIN nodes',
               nodes'[j].inst # 0, nodes'[j].inst = nodes'[k].inst
        PROVE  j = k
    <3>1. CASE j \in DOMAIN nodes /\ k \in DOMAIN nodes
      BY <1>4, <2>4, <3>1 DEF NodeInv
    <3>2. CASE j = Len(nodes') /\ k \in DOMAIN nodes
      BY <1>4, <2>4, <3>2 DEF getNode
    <3>3. CASE k = Len(nodes') /\ j \in DOMAIN nodes
      BY <1>4, <2>4, <3>3 DEF getNode
    <3>. QED
      BY <1>4, <2>4, <3>1, <3>2, <3>3
  <2>. QED
    BY <2>1, <2>3, <2>4 DEF NodeInv, isOp, RootNode
<1>. QED
  BY <1>2, <1>4, <1>5, <1>6, <1>7 DEF NodeOf

LEMMA StackFacts ==
    ASSUME StackInv
    PROVE  /\ Len(stack) \in Nat /\ DOMAIN stack = 1 .. Len(stack)
           /\ \A k \in DOMAIN stack : /\ stack[k].inst \in DOMAIN insts
                                      /\ stack[k].op \in Nat \ {0}
                                      /\ getNode(stack[k].inst) # {}
           /\ stack # <<>> => Len(stack) \in DOMAIN stack /\ ~Parsed
<1>1. stack \in Seq([inst : DOMAIN insts, op : Nat \ {0}])
  BY DEF StackInv
<1>2. Len(stack) \in Nat /\ DOMAIN stack = 1 .. Len(stack)
  BY <1>1, LenProperties
<1>3. \A k \in DOMAIN stack : stack[k] \in [inst : DOMAIN insts, op : Nat \ {0}]
  BY <1>1, <1>2, ElementOfSeq
<1>4. stack # <<>> => Len(stack) # 0
  BY <1>1, EmptySeq
<1>. QED
  BY <1>2, <1>3, <1>4 DEF StackInv

(* An instruction without node is pushed. *)
LEMMA PushFrame ==
    ASSUME StackInv, NEW n \in DOMAIN insts, getNode(n) = {},
           stack' = Append(stack, [inst |-> n, op |-> 1])
    PROVE  /\ stack' \in Seq([inst : DOMAIN insts, op : Nat \ {0}])
           /\ DOMAIN stack' = DOMAIN stack \cup {Len(stack')}
           /\ \A k \in DOMAIN stack : stack'[k] = stack[k] /\ stack[k].inst # n
           /\ stack'[Len(stack')].inst = n /\ stack'[Len(stack')].op = 1
           /\ Len(stack') \notin DOMAIN stack
<1>1. /\ stack \in Seq([inst : DOMAIN insts, op : Nat \ {0}])
      /\ [inst |-> n, op |-> 1] \in [inst : DOMAIN insts, op : Nat \ {0}]
  BY DEF StackInv
<1>2. /\ stack' \in Seq([inst : DOMAIN insts, op : Nat \ {0}])
      /\ Len(stack') = Len(stack) + 1
      /\ \A k \in 1 .. Len(stack) : stack'[k] = stack[k]
      /\ stack'[Len(stack) + 1] = [inst |-> n, op |-> 1]
  BY <1>1, AppendProperties
<1>3. DOMAIN stack' = 1 .. Len(stack')
  BY <1>2, LenProperties
<1>. QED
  BY <1>2, <1>3, StackFacts

(* parseInst makes the node and begins with the first operand. *)
LEMMA EnterKeeps ==
    ASSUME IInv, NEW n \in DOMAIN insts, getNode(n) = {}, ~Parsed, Enter(n),
           UNCHANGED <<insts, pc, next, edges, ctrlEdges>>
    PROVE  IInv'
<1>. DEFINE x == [kind |-> "op", inst |-> n]
<1>1. /\ insts \in Loops /\ NodeInv /\ StackInv /\ ProgressInv /\ EdgeInv
      /\ OperandInv /\ CtrlInv /\ insts' = insts /\ pc' = pc /\ edges' = edges
  BY DEF IInv, ProgressInv
<1>2. /\ x \in [kind : {"op", "const", "value"}, inst : 0 .. Len(insts)]
      /\ x.inst = n /\ x.kind = "op" /\ n # 0
  BY <1>1, LoopFacts
<1>3. /\ NodeInv'
      /\ DOMAIN nodes' = DOMAIN nodes \cup {Len(nodes')}
      /\ \A k \in DOMAIN nodes : nodes'[k] = nodes[k]
      /\ \A m \in DOMAIN insts : m # n => getNode(m)' = getNode(m) /\ NodeOf(m)' = NodeOf(m)
      /\ getNode(n)' # {}
  <2>1. nodes' = Append(nodes, x) /\ insts' = insts
    BY DEF Enter
  <2>. HIDE DEF x
  <2>. QED
    BY <1>1, <1>2, <2>1, AppendNode
<1>4. /\ stack' \in Seq([inst : DOMAIN insts, op : Nat \ {0}])
      /\ DOMAIN stack' = DOMAIN stack \cup {Len(stack')}
      /\ \A k \in DOMAIN stack : stack'[k] = stack[k] /\ stack[k].inst # n
      /\ stack'[Len(stack')].inst = n /\ stack'[Len(stack')].op = 1
      /\ Len(stack') \notin DOMAIN stack
  BY <1>1, PushFrame DEF Enter
<1>5. \A m \in DOMAIN insts : getNode(m) # {} => m # n /\ getNode(m)' # {}
  BY <1>3
<1>6. StackInv'
  <2>1. ASSUME NEW k \in DOMAIN stack' PROVE getNode(stack[k].inst)' # {}
    <3>1. CASE k \in DOMAIN stack
      <4>1. PICK m \in DOMAIN insts : m = stack[k].inst /\ getNode(m) # {}
        BY <1>1, <3>1, StackFacts
      <4>2. getNode(m)' # {}
        BY <1>5, <4>1
      <4>3. stack'[k].inst = m
        BY <1>4, <3>1, <4>1
      <4>. QED
        BY <4>2, <4>3 DEF getNode
    <3>2. CASE k = Len(stack')
      BY <1>3, <1>4, <3>2 DEF getNode
    <3>. QED
      BY <1>4, <3>1, <3>2
  <2>2. ASSUME NEW j \in DOMAIN stack', NEW k \in DOMAIN stack', j # k
        PROVE  stack'[j].inst # stack'[k].inst
    <3>1. CASE j \in DOMAIN stack /\ k \in DOMAIN stack
      BY <1>1, <1>4, <2>2, <3>1 DEF StackInv, RecursionEnds
    <3>2. CASE j = Len(stack') \/ k = Len(stack')
      BY <1>4, <2>2, <3>2
    <3>. QED
      BY <1>4, <3>1, <3>2
  <2>3. ~Parsed'
    BY <1>1 DEF Parsed
  <2>4. RecursionEnds'
    BY <2>2 DEF RecursionEnds
  <2>. QED
    BY <1>1, <1>4, <2>1, <2>3, <2>4 DEF StackInv
<1>7. ProgressInv'
  <2>1. ~Parsed'
    BY <1>1 DEF Parsed
  <2>. QED
    BY <1>1, <1>5, <2>1 DEF ProgressInv
<1>8. ASSUME NEW m, m # n, NEW o PROVE Reached(m, o)' <=> Reached(m, o)
  BY <1>4, <1>8 DEF Reached
<1>9. EdgeInv'
  <2>1. edges' \subseteq [src : DOMAIN nodes', des : DOMAIN nodes', op : Nat, copy : {1, 2}]
    BY <1>1, <1>3 DEF EdgeInv
  <2>2. ASSUME NEW e \in edges PROVE isOp(e.des)' /\ Sound(e)'
    <3>1. isOp(e.des) /\ Sound(e) /\ e.src \in DOMAIN nodes /\ e.des \in DOMAIN nodes
      BY <1>1 DEF EdgeInv
    <3>2. /\ nodes'[e.des] = nodes[e.des] /\ nodes'[e.src] = nodes[e.src]
          /\ isOp(e.src)' <=> isOp(e.src)
          /\ isOp(e.des)' <=> isOp(e.des)
      BY <1>3, <3>1 DEF isOp
    <3>3. nodes[e.des].inst \in DOMAIN insts /\ nodes[e.des].inst # n
      BY <1>1, <3>1, NodeOfInst
    <3>4. \A v : ComesFrom(e, v)' <=> ComesFrom(e, v)
      BY <1>1, <3>2 DEF ComesFrom, Const, Outside
    <3>. QED
      BY <1>1, <1>8, <3>1, <3>2, <3>3, <3>4 DEF Sound, RootNode
  <2>. QED
    BY <1>1, <2>1, <2>2 DEF EdgeInv
<1>10. OperandInv'
  <2>1. ASSUME NEW m \in DOMAIN insts, getNode(m)' # {}, NEW o \in DOMAIN insts[m].ops,
               Reached(m, o)'
        PROVE  \E s \in DOMAIN nodes' : EdgesOf(m, o)' = Bundle(s, m, o)'
    <3>1. m # n
      <4>1. ~(o < 1)
        BY <1>1, LoopFacts
      <4>2. Len(stack') \in DOMAIN stack'
        BY <1>4
      <4>3. ~Reached(n, o)'
        BY <1>4, <4>1, <4>2 DEF Reached
      <4>. QED
        BY <2>1, <4>3
    <3>2. PICK s \in DOMAIN nodes : EdgesOf(m, o) = Bundle(s, m, o)
      BY <1>1, <1>3, <1>8, <2>1, <3>1 DEF OperandInv
    <3>3. EdgesOf(m, o)' = EdgesOf(m, o) /\ Bundle(s, m, o)' = Bundle(s, m, o)
      BY <1>1, <1>3, <3>1 DEF EdgesOf, Bundle, CopiesOf, Const
    <3>. QED
      BY <1>3, <3>2, <3>3
  <2>. QED
    BY <1>1, <2>1 DEF OperandInv
<1>11. CtrlInv' /\ RootInv'
  <2>1. pc' # "root" /\ pc' # "done"
    BY <1>1 DEF Parsed
  <2>. QED
    BY <1>1, <1>3, <2>1 DEF CtrlInv, RootInv, RootFeedsTheRest
<1>. QED
  BY <1>3, <1>6, <1>7, <1>9, <1>10, <1>11 DEF IInv
-----------------------------------------------------------------------------
LEMMA OpDoneFacts ==
    ASSUME StackInv, stack # <<>>, OpDone
    PROVE  /\ stack' \in Seq([inst : DOMAIN insts, op : Nat \ {0}])
           /\ stack' # <<>> /\ DOMAIN stack' = DOMAIN stack
           /\ \A k \in DOMAIN stack : stack'[k].inst = stack[k].inst
           /\ \A k \in DOMAIN stack : k # Len(stack) => stack'[k].op = stack[k].op
           /\ stack'[Len(stack)].op = Top.op + 1
<1>. DEFINE L == Len(stack)
            e == [stack[L] EXCEPT !.op = @ + 1]
<1>1. /\ stack \in Seq([inst : DOMAIN insts, op : Nat \ {0}])
      /\ L \in DOMAIN stack /\ DOMAIN stack = 1 .. L
  BY StackFacts DEF StackInv
<1>2. stack[L] \in [inst : DOMAIN insts, op : Nat \ {0}]
  BY <1>1, ElementOfSeq
<1>3. /\ e \in [inst : DOMAIN insts, op : Nat \ {0}]
      /\ e.inst = stack[L].inst /\ e.op = stack[L].op + 1
  BY <1>2
<1>4. stack' = [stack EXCEPT ![L] = e]
  BY DEF OpDone
<1>5. /\ stack' \in Seq([inst : DOMAIN insts, op : Nat \ {0}])
      /\ Len(stack') = L
      /\ \A k \in DOMAIN stack : stack'[k] = IF k = L THEN e ELSE stack[k]
  <2>. HIDE DEF e
  <2>. QED
    BY <1>1, <1>3, <1>4, ExceptSeq
<1>6. DOMAIN stack' = DOMAIN stack
  BY <1>1, <1>5, LenProperties
<1>. HIDE DEF e, L
<1>7. stack'[L].op = Top.op + 1 /\ \A k \in DOMAIN stack : stack'[k].inst = stack[k].inst
  BY <1>1, <1>3, <1>5 DEF Top, L
<1>8. stack' # <<>>
  BY <1>1, <1>6
<1>. QED
  BY <1>5, <1>6, <1>7, <1>8 DEF L

(* Of all operands, exactly the one at hand is reached by that. *)
LEMMA ReachesOne ==
    ASSUME StackInv, stack # <<>>, OpDone
    PROVE  /\ ~Reached(Top.inst, Top.op)
           /\ \A m : \A o \in Nat : Reached(m, o)' <=>
                 Reached(m, o) \/ (m = Top.inst /\ o = Top.op)
<1>. DEFINE L == Len(stack)
<1>1. /\ L \in DOMAIN stack
      /\ \A k \in DOMAIN stack : stack[k].op \in Nat
      /\ \A k \in DOMAIN stack : k # L => stack[k].inst # stack[L].inst
  BY StackFacts DEF StackInv, RecursionEnds
<1>2. /\ DOMAIN stack' = DOMAIN stack
      /\ \A k \in DOMAIN stack : stack'[k].inst = stack[k].inst
      /\ \A k \in DOMAIN stack : k # L => stack'[k].op = stack[k].op
      /\ stack'[L].op = stack[L].op + 1
  BY OpDoneFacts DEF Top
<1>. HIDE DEF L
<1>3. ~Reached(stack[L].inst, stack[L].op)
  BY <1>1 DEF Reached
<1>4. ASSUME NEW m, NEW o \in Nat, m # stack[L].inst PROVE Reached(m, o)' <=> Reached(m, o)
  BY <1>1, <1>2, <1>4 DEF Reached
<1>5. ASSUME NEW o \in Nat
      PROVE  /\ Reached(stack[L].inst, o) <=> o < stack[L].op
             /\ \A k \in DOMAIN stack' :
                   stack'[k].inst = stack[L].inst => (o < stack'[k].op <=> o < stack[L].op + 1)
             /\ L \in DOMAIN stack' /\ stack'[L].inst = stack[L].inst
  BY <1>1, <1>2 DEF Reached
<1>6. ASSUME NEW m, NEW o \in Nat, m = stack[L].inst
      PROVE  Reached(m, o)' <=> Reached(m, o) \/ o = stack[L].op
  <2>1. Reached(m, o)' <=> o < stack[L].op + 1
    BY <1>5, <1>6 DEF Reached
  <2>2. o < stack[L].op + 1 <=> o < stack[L].op \/ o = stack[L].op
    BY <1>1
  <2>. QED
    BY <1>5, <1>6, <2>1, <2>2
<1>. QED
  BY <1>3, <1>4, <1>6 DEF Top, L

(* The edges of an operand are added: from a node of its own, or from the  *)
(* node of the instruction it names.                                       *)
LEMMA LinkKeeps ==
    ASSUME IInv, Pending, NEW s, AddEdges(s), OpDone,
           UNCHANGED <<insts, pc, next, ctrlEdges>>,
           NodeInv', DOMAIN nodes \subseteq DOMAIN nodes',
           \A k \in DOMAIN nodes : nodes'[k] = nodes[k],
           \A m \in DOMAIN insts : getNode(m)' = getNode(m) /\ NodeOf(m)' = NodeOf(m),
           s \in DOMAIN nodes', s # RootNode,
           Operand \in {Const, Outside} => s \notin DOMAIN nodes /\ nodes'[s].kind # "op",
           Operand \notin {Const, Outside} => nodes'[s].kind = "op" /\ nodes'[s].inst = Operand
    PROVE  IInv'
<1>. DEFINE n == Top.inst
            o == Top.op
            new == Bundle(s, n, o)
<1>1. /\ insts \in Loops /\ NodeInv /\ StackInv /\ ProgressInv /\ EdgeInv
      /\ OperandInv /\ CtrlInv /\ insts' = insts /\ pc' = pc /\ stack # <<>> /\ ~Parsed
  BY StackFacts DEF IInv, ProgressInv, Pending
<1>2. n \in DOMAIN insts /\ o \in DOMAIN insts[n].ops /\ o \in Nat /\ getNode(n) # {}
  <2>1. Len(stack) \in DOMAIN stack
    BY <1>1, StackFacts
  <2>2. n \in DOMAIN insts /\ o \in Nat \ {0} /\ getNode(n) # {}
    BY <1>1, <2>1, StackFacts DEF Top
  <2>. QED
    BY <1>1, <2>2, LoopFacts DEF Pending
<1>3. /\ NodeOf(n) \in DOMAIN nodes /\ nodes[NodeOf(n)].inst = n /\ isOp(NodeOf(n))
  BY <1>1, <1>2, NodeOfIs
<1>4. edges' = edges \cup new
  BY DEF AddEdges, Bundle, Copies, CopiesOf, Operand
<1>5. /\ \A e \in new : /\ e.src = s /\ e.des = NodeOf(n) /\ e.op = o
                        /\ e \in [src : DOMAIN nodes', des : DOMAIN nodes', op : Nat,
                                  copy : {1, 2}]
  BY <1>2, <1>3 DEF Bundle, CopiesOf
<1>6. /\ ~Reached(n, o)
      /\ \A m : \A p \in Nat : Reached(m, p)' <=> Reached(m, p) \/ (m = n /\ p = o)
  BY <1>1, ReachesOne
<1>7. StackInv'
  <2>1. /\ stack' \in Seq([inst : DOMAIN insts, op : Nat \ {0}])
        /\ stack' # <<>> /\ DOMAIN stack' = DOMAIN stack
        /\ \A k \in DOMAIN stack : stack'[k].inst = stack[k].inst
    BY <1>1, OpDoneFacts
  <2>2. ASSUME NEW k \in DOMAIN stack' PROVE getNode(stack[k].inst)' # {}
    <3>1. PICK m \in DOMAIN insts : m = stack[k].inst /\ getNode(m) # {}
      BY <1>1, <2>1, StackFacts
    <3>2. getNode(m)' # {}
      BY <3>1
    <3>3. stack'[k].inst = m
      BY <2>1, <3>1
    <3>. QED
      BY <3>2, <3>3 DEF getNode
  <2>3. RecursionEnds'
    BY <1>1, <2>1 DEF StackInv, RecursionEnds
  <2>4. ~Parsed'
    BY <1>1 DEF Parsed
  <2>. QED
    BY <1>1, <2>1, <2>2, <2>3, <2>4 DEF StackInv
<1>8. ProgressInv'
  BY <1>1 DEF ProgressInv, Parsed
<1>9. \A e \in edges : /\ e.src \in DOMAIN nodes /\ e.des \in DOMAIN nodes
                       /\ e \in [src : DOMAIN nodes, des : DOMAIN nodes, op : Nat,
                                  copy : {1, 2}]
                       /\ isOp(e.des) /\ Sound(e) /\ e.src # RootNode
  BY <1>1 DEF EdgeInv, Sound, Parsed
<1>. HIDE DEF new
<1>10. EdgeInv'
  <2>1. edges' \subseteq [src : DOMAIN nodes', des : DOMAIN nodes', op : Nat, copy : {1, 2}]
    BY <1>4, <1>5, <1>9
  <2>2. ASSUME NEW e \in edges PROVE isOp(e.des)' /\ Sound(e)'
    <3>1. /\ nodes'[e.des] = nodes[e.des] /\ nodes'[e.src] = nodes[e.src]
          /\ isOp(e.src)' <=> isOp(e.src)
          /\ isOp(e.des)' <=> isOp(e.des)
      BY <1>9 DEF isOp
    <3>2. ASSUME NEW v, ComesFrom(e, v) PROVE ComesFrom(e, v)'
      <4>1. CASE v \in {Const, Outside}
        <5>1. ~isOp(e.src)' /\ \A f \in edges : f.src = e.src => f.op = e.op /\ f.des = e.des
          BY <3>1, <3>2, <4>1 DEF ComesFrom
        <5>2. \A f \in new : f.src # e.src
          BY <1>5, <1>9, <5>1 DEF isOp
        <5>. QED
          BY <1>4, <4>1, <5>1, <5>2 DEF ComesFrom, Const, Outside
      <4>2. CASE v \notin {Const, Outside}
        BY <3>1, <3>2, <4>2 DEF ComesFrom, Const, Outside
      <4>. QED
        BY <4>1, <4>2
    <3>. QED
      BY <1>1, <1>6, <1>9, <3>1, <3>2 DEF Sound, RootNode
  <2>3. ASSUME NEW e \in new PROVE isOp(e.des)' /\ Sound(e)'
    <3>1. e.src = s /\ e.des = NodeOf(n) /\ e.op = o /\ nodes'[NodeOf(n)] = nodes[NodeOf(n)]
      BY <1>3, <1>5
    <3>2. PICK m, p, v : m = n /\ p = o /\ v = insts[m].ops[p] /\ v = Operand
      BY DEF Operand
    <3>3. ComesFrom(e, v)'
      <4>1. CASE v \in {Const, Outside}
        <5>1. \A f \in edges' : f.src = s => f.op = p /\ f.des = e.des
          BY <1>4, <1>5, <1>9, <3>1, <3>2, <4>1
        <5>2. nodes'[s].kind # "op" /\ e.op = p
          BY <3>1, <3>2, <4>1
        <5>. QED
          BY <3>1, <4>1, <5>1, <5>2 DEF ComesFrom, isOp, Const, Outside
      <4>2. CASE v \notin {Const, Outside}
        BY <3>1, <3>2, <4>2 DEF ComesFrom, Const, Outside
      <4>. QED
        BY <4>1, <4>2
    <3>4. nodes'[e.des].inst = m /\ e.op = p /\ isOp(e.des)'
      BY <1>3, <3>1, <3>2 DEF isOp
    <3>5. m \in DOMAIN insts /\ p \in DOMAIN insts[m].ops /\ Reached(m, p)'
      BY <1>2, <1>6, <3>2
    <3>. QED
      BY <1>1, <3>1, <3>2, <3>3, <3>4, <3>5 DEF Sound, RootNode
  <2>. QED
    BY <1>4, <2>1, <2>2, <2>3 DEF EdgeInv
<1>11. OperandInv'
  <2>1. ASSUME NEW m \in DOMAIN insts, getNode(m)' # {}, NEW p \in DOMAIN insts[m].ops,
               Reached(m, p)'
        PROVE  \E r \in DOMAIN nodes' : EdgesOf(m, p)' = Bundle(r, m, p)'
    <3>1. getNode(m) # {} /\ p \in Nat
      BY <1>1, <2>1, LoopFacts
    <3>2. /\ EdgesOf(m, p)' = EdgesOf(m, p) \cup {e \in new : e.des = NodeOf(m) /\ e.op = p}
          /\ \A r : Bundle(r, m, p)' = Bundle(r, m, p)
      BY <1>1, <1>4 DEF EdgesOf, Bundle, CopiesOf, Const
    <3>3. CASE m = n /\ p = o
      <4>1. EdgesOf(m, p) = {}
        BY <1>3, <1>6, <1>9, <3>3 DEF EdgesOf, Sound
      <4>2. EdgesOf(m, p)' = Bundle(s, m, p)'
        BY <1>5, <3>2, <3>3, <4>1 DEF new
      <4>. QED
        BY <4>2
    <3>4. CASE ~(m = n /\ p = o)
      <4>1. PICK r \in DOMAIN nodes : EdgesOf(m, p) = Bundle(r, m, p)
        BY <1>1, <1>6, <2>1, <3>1, <3>4 DEF OperandInv
      <4>2. m # n => NodeOf(m) # NodeOf(n)
        BY <1>1, <1>3, <3>1, NodeOfIs
      <4>3. {e \in new : e.des = NodeOf(m) /\ e.op = p} = {}
        BY <1>5, <3>4, <4>2
      <4>. QED
        BY <3>2, <4>1, <4>3
    <3>. QED
      BY <3>3, <3>4
  <2>. QED
    BY <1>1, <2>1 DEF OperandInv
<1>12. CtrlInv' /\ RootInv'
  <2>1. pc' # "root" /\ pc' # "done"
    BY <1>1 DEF Parsed
  <2>. QED
    BY <1>1, <2>1 DEF CtrlInv, RootInv, RootFeedsTheRest
<1>. QED
  BY <1>7, <1>8, <1>10, <1>11, <1>12 DEF IInv

(* A parse ends with every operand of its instruction passed. *)
LEMMA ReturnKeeps ==
    ASSUME IInv, ReturnNode
    PROVE  IInv'
<1>1. /\ insts \in Loops /\ NodeInv /\ StackInv /\ ProgressInv /\ EdgeInv /\ OperandInv
      /\ CtrlInv /\ stack # <<>> /\ ~Parsed /\ Top.op > Len(insts[Top.inst].ops)
  <2>1. insts \in Loops /\ StackInv /\ stack # <<>>
    BY DEF IInv, ProgressInv, ReturnNode
  <2>2. /\ Top.op \in Nat /\ Top.inst \in DOMAIN insts /\ ~Parsed
        /\ Len(insts[Top.inst].ops) \in Nat
    BY <2>1, StackFacts, LoopFacts DEF Top
  <2>. QED
    BY <2>1, <2>2 DEF IInv, ReturnNode, Pending
<1>2. UNCHANGED <<insts, pc, next, nodes, edges, ctrlEdges>>
  BY DEF ReturnNode
<1>3. /\ stack' \in Seq([inst : DOMAIN insts, op : Nat \ {0}])
      /\ DOMAIN stack = DOMAIN stack' \cup {Len(stack)}
      /\ \A k \in DOMAIN stack' : stack'[k] = stack[k]
  <2>1. /\ stack \in Seq([inst : DOMAIN insts, op : Nat \ {0}])
        /\ Len(stack) \in Nat \ {0} /\ DOMAIN stack = 1 .. Len(stack)
    BY <1>1, StackFacts DEF StackInv
  <2>2. stack' = SubSeq(stack, 1, Len(stack) - 1)
    BY DEF ReturnNode
  <2>3. /\ stack' \in Seq([inst : DOMAIN insts, op : Nat \ {0}])
        /\ Len(stack') = Len(stack) - 1
        /\ \A k \in 1 .. Len(stack) - 1 : stack'[k] = stack[k]
    <3>. DEFINE F == [inst : DOMAIN insts, op : Nat \ {0}]
    <3>. HIDE DEF F
    <3>1. PICK l \in Nat \ {0}, q \in Nat : l = Len(stack) /\ q = l - 1
      <4>1. PICK l \in Nat \ {0} : l = Len(stack)
        BY <2>1
      <4>2. l - 1 \in Nat
        OBVIOUS
      <4>. QED
        BY <4>1, <4>2
    <3>2. \A k \in 1 .. q : stack[k] \in F
      <4>1. stack \in Seq(F)
        BY <2>1 DEF F
      <4>2. \A k \in 1 .. q : k \in 1 .. Len(stack)
        BY <3>1
      <4>. QED
        BY <4>1, <4>2, ElementOfSeq
    <3>3. /\ SubSeq(stack, 1, q) \in Seq(F)
          /\ Len(SubSeq(stack, 1, q)) = IF 1 <= q THEN q - 1 + 1 ELSE 0
          /\ \A k \in 1 .. q - 1 + 1 : SubSeq(stack, 1, q)[k] = stack[1 + k - 1]
      BY <3>2, SubSeqProperties
    <3>4. /\ stack' \in Seq(F) /\ Len(stack') = q
          /\ \A k \in 1 .. q : stack'[k] = stack[k]
      BY <2>2, <3>1, <3>3
    <3>. QED
      BY <3>1, <3>4 DEF F
  <2>4. DOMAIN stack' = 1 .. Len(stack')
    BY <2>3, LenProperties
  <2>. QED
    BY <2>1, <2>3, <2>4
<1>4. ASSUME NEW m \in DOMAIN insts, NEW o \in DOMAIN insts[m].ops
      PROVE  Reached(m, o)' <=> Reached(m, o)
  <2>1. o \in 1 .. Len(insts[m].ops) /\ Len(insts[m].ops) \in Nat
    BY <1>1, LoopFacts
  <2>2. /\ Top.op \in Nat
        /\ Top.inst = m => o < Top.op
    BY <1>1, <2>1, StackFacts DEF Top
  <2>. QED
    BY <1>3, <2>2 DEF Reached, Top
<1>5. StackInv'
  <2>1. ASSUME NEW k \in DOMAIN stack' PROVE getNode(stack[k].inst)' # {}
    <3>1. PICK m \in DOMAIN insts : m = stack[k].inst /\ getNode(m) # {}
      BY <1>1, <1>3, StackFacts
    <3>2. stack'[k].inst = m
      BY <1>3, <3>1
    <3>. QED
      BY <1>2, <3>1, <3>2 DEF getNode
  <2>2. RecursionEnds'
    BY <1>1, <1>3 DEF StackInv, RecursionEnds
  <2>3. ~Parsed'
    BY <1>1, <1>2 DEF Parsed
  <2>. QED
    BY <1>2, <1>3, <2>1, <2>2, <2>3 DEF StackInv
<1>6. NodeInv' /\ ProgressInv' /\ CtrlInv'
  BY <1>1, <1>2 DEF NodeInv, ProgressInv, CtrlInv, isOp, getNode, Parsed
<1>7. EdgeInv'
  <2>1. ASSUME NEW e \in edges PROVE isOp(e.des) /\ Sound(e)'
    <3>1. isOp(e.des) /\ Sound(e) /\ e.des \in DOMAIN nodes
      BY <1>1 DEF EdgeInv
    <3>2. PICK m \in DOMAIN insts : m = nodes[e.des].inst
      BY <1>1, <3>1, NodeOfInst
    <3>3. \A v : ComesFrom(e, v)' <=> ComesFrom(e, v)
      BY <1>2 DEF ComesFrom, isOp
    <3>. QED
      BY <1>2, <1>4, <3>1, <3>2, <3>3 DEF Sound
  <2>. QED
    BY <1>1, <1>2, <2>1 DEF EdgeInv, isOp
<1>8. OperandInv'
  <2>1. ASSUME NEW m \in DOMAIN insts, getNode(m)' # {}, NEW o \in DOMAIN insts[m].ops,
               Reached(m, o)'
        PROVE  \E s \in DOMAIN nodes' : EdgesOf(m, o)' = Bundle(s, m, o)'
    <3>1. PICK s \in DOMAIN nodes : EdgesOf(m, o) = Bundle(s, m, o)
      BY <1>1, <1>2, <1>4, <2>1 DEF OperandInv, getNode
    <3>. QED
      BY <1>2, <3>1 DEF EdgesOf, Bundle, CopiesOf, NodeOf, getNode
  <2>. QED
    BY <1>2, <2>1 DEF OperandInv
<1>9. RootInv'
  BY <1>1, <1>2 DEF RootInv, RootFeedsTheRest, Parsed
<1>. QED
  BY <1>5, <1>6, <1>7, <1>8, <1>9 DEF IInv
-----------------------------------------------------------------------------
(* Steps that add no node and no data edge. *)
LEMMA PhaseKeeps ==
    ASSUME IInv, UNCHANGED <<insts, stack, nodes, edges>>,
           next' \in Nat \ {0}, pc' \in {"insts", "ctrl", "root", "done", "exited"},
           pc' = "insts" => /\ pc = "insts"
                            /\ \A n \in DOMAIN insts : n < next' => getNode(n) # {},
           Parsed' => /\ stack = <<>>
                      /\ \A n \in DOMAIN insts : getNode(n) # {},
           pc \in {"root", "done"} => pc' \in {"root", "done"}
    PROVE  NodeInv' /\ StackInv' /\ ProgressInv' /\ EdgeInv' /\ OperandInv'
<1>1. NodeInv /\ StackInv /\ ProgressInv /\ EdgeInv /\ OperandInv
  BY DEF IInv
<1>2. NodeInv'
  BY <1>1 DEF NodeInv, isOp
<1>3. StackInv' /\ ProgressInv'
  BY <1>1 DEF StackInv, RecursionEnds, ProgressInv, getNode
<1>4. EdgeInv'
  BY <1>1 DEF EdgeInv, isOp, Sound, Reached, ComesFrom
<1>5. OperandInv'
  BY <1>1 DEF OperandInv, Reached, EdgesOf, Bundle, CopiesOf, NodeOf, getNode
<1>. QED
  BY <1>2, <1>3, <1>4, <1>5

LEMMA ParsedAlreadyKeeps == ASSUME IInv, ParsedAlready PROVE IInv'
<1>1. /\ NodeInv /\ StackInv /\ ProgressInv /\ CtrlInv /\ pc = "insts" /\ pc' = pc
      /\ next' = next + 1 /\ UNCHANGED <<insts, stack, nodes, edges, ctrlEdges>>
      /\ getNode(next) # {}
  BY DEF IInv, ParsedAlready
<1>2. \A n \in DOMAIN insts : n < next + 1 => getNode(n) # {}
  BY <1>1, LoopFacts DEF ProgressInv
<1>3. NodeInv' /\ StackInv' /\ ProgressInv' /\ EdgeInv' /\ OperandInv'
  BY <1>1, <1>2, PhaseKeeps DEF Parsed, ProgressInv
<1>. QED
  BY <1>1, <1>3 DEF IInv, CtrlInv, RootInv, RootFeedsTheRest

LEMMA UnrecognizedKeeps == ASSUME IInv, Unrecognized PROVE IInv'
<1>1. /\ ProgressInv /\ CtrlInv /\ pc = "insts" /\ pc' = "exited"
      /\ next' = next /\ UNCHANGED <<insts, stack, nodes, edges, ctrlEdges>>
  BY DEF IInv, Unrecognized
<1>2. NodeInv' /\ StackInv' /\ ProgressInv' /\ EdgeInv' /\ OperandInv'
  BY <1>1, PhaseKeeps DEF Parsed, ProgressInv
<1>. QED
  BY <1>1, <1>2 DEF IInv, CtrlInv, RootInv, RootFeedsTheRest

LEMMA InstsParsedKeeps == ASSUME IInv, InstsParsed PROVE IInv'
<1>1. /\ ProgressInv /\ CtrlInv /\ pc = "insts" /\ pc' = "ctrl" /\ next' = 1
      /\ stack = <<>> /\ next > Len(insts)
      /\ UNCHANGED <<insts, stack, nodes, edges, ctrlEdges>>
  BY DEF IInv, InstsParsed
<1>2. \A n \in DOMAIN insts : getNode(n) # {}
  BY <1>1, LoopFacts DEF ProgressInv
<1>3. NodeInv' /\ StackInv' /\ ProgressInv' /\ EdgeInv' /\ OperandInv'
  BY <1>1, <1>2, PhaseKeeps
<1>. QED
  BY <1>1, <1>3 DEF IInv, CtrlInv, RootInv, RootFeedsTheRest

LEMMA ParseCtrlEdgeKeeps == ASSUME IInv, ParseCtrlEdge PROVE IInv'
<1>1. /\ insts \in Loops /\ NodeInv /\ StackInv /\ ProgressInv /\ CtrlInv
      /\ pc = "ctrl" /\ pc' = pc /\ next' = next + 1 /\ next <= Len(insts)
      /\ UNCHANGED <<insts, stack, nodes, edges>>
      /\ ctrlEdges' = ctrlEdges \cup IF Conditional(next) THEN Controls(next) ELSE {}
  BY DEF IInv, ProgressInv, ParseCtrlEdge
<1>2. NodeInv' /\ StackInv' /\ ProgressInv' /\ EdgeInv' /\ OperandInv'
  BY <1>1, PhaseKeeps DEF Parsed, StackInv, ProgressInv
<1>3. ASSUME NEW e \in Controls(next) PROVE e.src \in DOMAIN nodes /\ e.des \in DOMAIN nodes
  <2>1. next \in DOMAIN insts /\ getNode(next) # {}
    BY <1>1, LoopFacts DEF ProgressInv, Parsed
  <2>2. PICK p \in DOMAIN insts : e.src = NodeOf(next) /\ e.des = NodeOf(p)
    BY DEF Controls
  <2>3. getNode(p) # {}
    BY <1>1 DEF ProgressInv, Parsed
  <2>. QED
    BY <1>1, <2>1, <2>2, <2>3, NodeOfIs
<1>4. CtrlInv'
  BY <1>1, <1>3 DEF CtrlInv
<1>. QED
  BY <1>1, <1>2, <1>4 DEF IInv, RootInv, RootFeedsTheRest

LEMMA CtrlParsedKeeps == ASSUME IInv, CtrlParsed PROVE IInv'
<1>1. /\ insts \in Loops /\ NodeInv /\ StackInv /\ ProgressInv /\ EdgeInv /\ CtrlInv
      /\ pc = "ctrl" /\ pc' = "root" /\ next' = 1
      /\ UNCHANGED <<insts, stack, nodes, edges, ctrlEdges>>
  BY DEF IInv, ProgressInv, CtrlParsed
<1>2. NodeInv' /\ StackInv' /\ ProgressInv' /\ EdgeInv' /\ OperandInv'
  BY <1>1, PhaseKeeps DEF Parsed, StackInv, ProgressInv
<1>3. \A e \in edges : e.src # RootNode
  BY <1>1 DEF EdgeInv, Sound
<1>4. \A k \in DOMAIN nodes : ~(k < 1)
  BY <1>1, NodeFacts
<1>5. RootInv'
  BY <1>1, <1>3, <1>4 DEF RootInv, RootFeedsTheRest, Fed
<1>. QED
  BY <1>1, <1>2, <1>5 DEF IInv, CtrlInv

LEMMA BuiltKeeps == ASSUME IInv, Built PROVE IInv'
<1>1. /\ NodeInv /\ StackInv /\ ProgressInv /\ CtrlInv /\ RootInv
      /\ pc = "root" /\ pc' = "done" /\ next' = next /\ next > Len(nodes)
      /\ UNCHANGED <<insts, stack, nodes, edges, ctrlEdges>>
  BY DEF IInv, Built
<1>2. NodeInv' /\ StackInv' /\ ProgressInv' /\ EdgeInv' /\ OperandInv'
  BY <1>1, PhaseKeeps DEF Parsed, StackInv, ProgressInv
<1>3. \A k \in DOMAIN nodes : k < next
  BY <1>1, NodeFacts DEF ProgressInv
<1>4. \A k \in DOMAIN nodes : isOp(k) => (getEdgesTo(k) = {} <=> Fed(k))
  BY <1>1, <1>3 DEF RootInv
<1>5. RootFeedsTheRest'
  BY <1>1, <1>4 DEF RootFeedsTheRest, Fed, getEdgesTo, isVisible, isAnti, isOp
<1>. QED
  BY <1>1, <1>2, <1>5 DEF IInv, CtrlInv, RootInv
-----------------------------------------------------------------------------
LEMMA OperandFacts ==
    ASSUME IInv, Pending
    PROVE  /\ Top.inst \in DOMAIN insts /\ ~Parsed
           /\ Operand \in DOMAIN insts \cup {Const, Outside}
<1>1. insts \in Loops /\ StackInv /\ stack # <<>>
  BY DEF IInv, ProgressInv, Pending
<1>2. Top.inst \in DOMAIN insts /\ Top.op \in Nat \ {0} /\ ~Parsed
  BY <1>1, StackFacts DEF Top
<1>3. Top.op \in DOMAIN insts[Top.inst].ops
  BY <1>1, <1>2, LoopFacts DEF Pending
<1>. QED
  BY <1>1, <1>2, <1>3, LoopFacts DEF Operand

LEMMA ParseInstKeeps == ASSUME IInv, ParseInst PROVE IInv'
<1>1. /\ pc = "insts" /\ next \in DOMAIN insts /\ getNode(next) = {} /\ Enter(next)
      /\ UNCHANGED <<insts, pc, next, edges, ctrlEdges>>
  BY LoopFacts DEF IInv, ProgressInv, ParseInst
<1>2. PICK n \in DOMAIN insts : n = next
  BY <1>1
<1>. QED
  BY <1>1, <1>2, EnterKeeps DEF Parsed

LEMMA NewOperandKeeps == ASSUME IInv, NewOperand PROVE IInv'
<1>1. PICK n \in DOMAIN insts : n = Operand
  BY OperandFacts DEF NewOperand
<1>2. /\ ~Parsed /\ getNode(n) = {} /\ Enter(n)
      /\ UNCHANGED <<insts, pc, next, edges, ctrlEdges>>
  BY <1>1, OperandFacts DEF NewOperand
<1>. QED
  BY <1>1, <1>2, EnterKeeps

LEMMA NodeOperandKeeps == ASSUME IInv, NodeOperand PROVE IInv'
<1>1. /\ NodeInv /\ insts \in Loops /\ Pending /\ OpDone
      /\ UNCHANGED <<insts, pc, next, nodes, ctrlEdges>>
  BY DEF IInv, ProgressInv, NodeOperand
<1>2. PICK n \in DOMAIN insts : n = Operand /\ getNode(n) # {} /\ AddEdges(NodeOf(n))
                                /\ n \notin {Const, Outside}
  BY OperandFacts DEF NodeOperand
<1>3. PICK s \in DOMAIN nodes : /\ s = NodeOf(n) /\ s # RootNode /\ nodes[s].inst = n
                                /\ nodes[s].kind = "op"
  BY <1>1, <1>2, NodeOfIs DEF isOp
<1>4. NodeInv' /\ \A m \in DOMAIN insts : getNode(m)' = getNode(m) /\ NodeOf(m)' = NodeOf(m)
  BY <1>1 DEF NodeInv, isOp, getNode, NodeOf
<1>5. AddEdges(s)
  BY <1>2, <1>3
<1>6. nodes' = nodes /\ s \in DOMAIN nodes' /\ nodes'[s].kind = "op" /\ nodes'[s].inst = Operand
  BY <1>1, <1>2, <1>3
<1>. QED
  BY <1>1, <1>2, <1>3, <1>4, <1>5, <1>6, LinkKeeps

LEMMA LeafOperandKeeps == ASSUME IInv, LeafOperand PROVE IInv'
<1>1. /\ NodeInv /\ insts \in Loops /\ Pending /\ OpDone /\ Operand \in {Const, Outside}
      /\ UNCHANGED <<insts, pc, next, ctrlEdges>>
  BY DEF IInv, ProgressInv, LeafOperand
<1>2. PICK x : /\ x \in [kind : {"op", "const", "value"}, inst : 0 .. Len(insts)]
               /\ x.kind # "op" /\ x.inst = 0 /\ nodes' = Append(nodes, x)
  <2>1. 0 \in 0 .. Len(insts)
    BY <1>1, LoopFacts
  <2>. QED
    BY <2>1 DEF LeafOperand
<1>3. /\ NodeInv' /\ Len(nodes') \notin DOMAIN nodes
      /\ DOMAIN nodes' = DOMAIN nodes \cup {Len(nodes')}
      /\ \A k \in DOMAIN nodes : nodes'[k] = nodes[k]
      /\ nodes'[Len(nodes')] = x
      /\ \A m \in DOMAIN insts : m # 0 =>
            getNode(m)' = getNode(m) /\ NodeOf(m)' = NodeOf(m)
  BY <1>1, <1>2, AppendNode
<1>4. \A m \in DOMAIN insts : getNode(m)' = getNode(m) /\ NodeOf(m)' = NodeOf(m)
  BY <1>1, <1>3, LoopFacts
<1>5. PICK s : s = Len(nodes') /\ AddEdges(s)
  BY DEF LeafOperand
<1>6. s \in DOMAIN nodes' /\ s # RootNode /\ s \notin DOMAIN nodes /\ nodes'[s].kind # "op"
  BY <1>1, <1>2, <1>3, <1>5 DEF NodeInv
<1>. QED
  BY <1>1, <1>3, <1>4, <1>5, <1>6, LinkKeeps

(* A root edge is invisible: the forward in-edges stay what they are. *)
LEMMA InsertRootKeeps == ASSUME IInv, InsertRoot PROVE IInv'
<1>1. /\ insts \in Loops /\ NodeInv /\ StackInv /\ ProgressInv /\ EdgeInv
      /\ OperandInv /\ CtrlInv /\ RootInv
      /\ pc = "root" /\ pc' = pc /\ next' = next + 1
      /\ UNCHANGED <<insts, stack, nodes, ctrlEdges>>
  BY DEF IInv, ProgressInv, InsertRoot
<1>2. /\ next \in DOMAIN nodes /\ next \in Nat \ {0} /\ ~isOp(RootNode)
      /\ RootNode \in DOMAIN nodes /\ \A k \in DOMAIN nodes : k \in Nat
  BY <1>1, NodeFacts DEF ProgressInv, InsertRoot, NodeInv
<1>3. PICK r : /\ r = [src |-> RootNode, des |-> next, op |-> 0, copy |-> 1]
               /\ edges' = IF isOp(next) /\ getEdgesTo(next) = {} THEN edges \cup {r}
                           ELSE edges
  BY DEF InsertRoot
<1>4. /\ r.src = RootNode /\ r.des = next /\ r.op = 0
      /\ r \in [src : DOMAIN nodes, des : DOMAIN nodes, op : Nat, copy : {1, 2}]
  BY <1>2, <1>3
<1>5. NodeInv' /\ StackInv' /\ ProgressInv' /\ CtrlInv'
  BY <1>1 DEF NodeInv, StackInv, RecursionEnds, ProgressInv, CtrlInv, isOp, getNode, Parsed
<1>6. EdgeInv'
  <2>1. edges' \subseteq [src : DOMAIN nodes', des : DOMAIN nodes', op : Nat, copy : {1, 2}]
    BY <1>1, <1>3, <1>4 DEF EdgeInv
  <2>2. ASSUME NEW e \in edges PROVE isOp(e.des)' /\ Sound(e)'
    <3>1. isOp(e.des) /\ Sound(e)
      BY <1>1 DEF EdgeInv
    <3>2. ASSUME e.src # RootNode, NEW v, ComesFrom(e, v) PROVE ComesFrom(e, v)'
      BY <1>1, <1>3, <1>4, <3>2 DEF ComesFrom, isOp
    <3>. QED
      BY <1>1, <3>1, <3>2 DEF Sound, Reached, isOp
  <2>3. r \in edges' /\ r \notin edges => isOp(r.des)' /\ Sound(r)'
    BY <1>1, <1>3, <1>4 DEF Sound, isOp
  <2>. QED
    BY <1>3, <2>1, <2>2, <2>3 DEF EdgeInv
<1>7. OperandInv'
  <2>1. ASSUME NEW m \in DOMAIN insts, getNode(m) # {}, NEW o \in DOMAIN insts[m].ops
        PROVE  EdgesOf(m, o)' = EdgesOf(m, o) /\ \A s : Bundle(s, m, o)' = Bundle(s, m, o)
    <3>1. o # 0
      BY <1>1, LoopFacts
    <3>. QED
      BY <1>1, <1>3, <1>4, <3>1 DEF EdgesOf, Bundle, CopiesOf, NodeOf, getNode
  <2>. QED
    BY <1>1, <2>1 DEF OperandInv, Reached, getNode
<1>8. \A k : getEdgesTo(k)' = getEdgesTo(k)
  BY <1>1, <1>2, <1>3, <1>4 DEF getEdgesTo, isVisible, isAnti, isOp
<1>9. \A k : Fed(k)' <=> Fed(k) \/ (k = next /\ isOp(next) /\ getEdgesTo(next) = {})
  BY <1>3, <1>4 DEF Fed
<1>10. ASSUME NEW k \in DOMAIN nodes, isOp(k)
       PROVE  IF k < next + 1 THEN getEdgesTo(k)' = {} <=> Fed(k)' ELSE ~Fed(k)'
  <2>1. IF k < next THEN getEdgesTo(k) = {} <=> Fed(k) ELSE ~Fed(k)
    BY <1>1, <1>10 DEF RootInv
  <2>2. CASE k = next
    BY <1>2, <1>8, <1>9, <1>10, <2>1, <2>2
  <2>3. CASE k # next
    <3>1. k < next + 1 <=> k < next
      BY <1>2, <2>3
    <3>. QED
      BY <1>8, <1>9, <2>1, <2>3, <3>1
  <2>. QED
    BY <2>2, <2>3
<1>11. RootInv'
  BY <1>1, <1>10 DEF RootInv, RootFeedsTheRest, isOp
<1>. QED
  BY <1>5, <1>6, <1>7, <1>11 DEF IInv
-----------------------------------------------------------------------------
LEMMA InitIInv == Init => IInv
<1>. SUFFICES ASSUME Init PROVE IInv
  OBVIOUS
<1>. DEFINE x == [kind |-> "root", inst |-> 0]
<1>1. /\ insts \in Loops /\ pc = "insts" /\ next = 1 /\ stack = <<>>
      /\ nodes = <<x>> /\ edges = {} /\ ctrlEdges = {}
  BY DEF Init
<1>2. x \in [kind : Kinds, inst : 0 .. Len(insts)]
  BY <1>1, LoopFacts DEF Kinds
<1>3. /\ nodes \in Seq([kind : Kinds, inst : 0 .. Len(insts)])
      /\ DOMAIN nodes = {1} /\ nodes[1].kind = "root" /\ nodes[1].inst = 0
  BY <1>1, <1>2
<1>4. NodeInv
  BY <1>3 DEF NodeInv, RootNode, isOp
<1>5. \A n \in DOMAIN insts : getNode(n) = {} /\ ~(n < 1)
  BY <1>1, <1>3, LoopFacts DEF getNode
<1>6. stack \in Seq([inst : DOMAIN insts, op : Nat \ {0}]) /\ DOMAIN stack = {}
  BY <1>1
<1>7. StackInv
  BY <1>1, <1>6 DEF StackInv, RecursionEnds, Parsed
<1>8. ProgressInv
  BY <1>1, <1>5 DEF ProgressInv, Parsed
<1>. QED
  BY <1>1, <1>4, <1>5, <1>7, <1>8
     DEF IInv, EdgeInv, OperandInv, CtrlInv, RootInv, RootFeedsTheRest

LEMMA StutterKeeps == ASSUME IInv, UNCHANGED vars PROVE IInv'
<1>1. UNCHANGED <<insts, pc, next, stack, nodes, edges, ctrlEdges>>
  BY DEF vars
<1>2. NodeInv' /\ StackInv' /\ ProgressInv' /\ EdgeInv' /\ OperandInv'
  BY <1>1, PhaseKeeps DEF IInv, ProgressInv, StackInv, Parsed
<1>3. CtrlInv'
  BY <1>1 DEF IInv, CtrlInv
<1>4. RootInv'
  BY <1>1 DEF IInv, RootInv, RootFeedsTheRest, Fed, getEdgesTo, isVisible, isAnti, isOp
<1>. QED
  BY <1>2, <1>3, <1>4 DEF IInv

LEMMA NextIInv == IInv /\ [Next]_vars => IInv'
<1>. SUFFICES ASSUME IInv, [Next]_vars PROVE IInv'
  OBVIOUS
<1>1. CASE ParseInst
  BY <1>1, ParseInstKeeps
<1>2. CASE ParsedAlready
  BY <1>2, ParsedAlreadyKeeps
<1>3. CASE LeafOperand
  BY <1>3, LeafOperandKeeps
<1>4. CASE NodeOperand
  BY <1>4, NodeOperandKeeps
<1>5. CASE NewOperand
  BY <1>5, NewOperandKeeps
<1>6. CASE ReturnNode
  BY <1>6, ReturnKeeps
<1>7. CASE Unrecognized
  BY <1>7, UnrecognizedKeeps
<1>8. CASE InstsParsed
  BY <1>8, InstsParsedKeeps
<1>9. CASE ParseCtrlEdge
  BY <1>9, ParseCtrlEdgeKeeps
<1>10. CASE CtrlParsed
  BY <1>10, CtrlParsedKeeps
<1>11. CASE InsertRoot
  BY <1>11, InsertRootKeeps
<1>12. CASE Built
  BY <1>12, BuiltKeeps
<1>13. CASE UNCHANGED vars
  BY <1>13, StutterKeeps
<1>. QED
  BY <1>1, <1>2, <1>3, <1>4, <1>5, <1>6, <1>7, <1>8, <1>9, <1>10, <1>11, <1>12, <1>13
     DEF Next

(* The inductive invariant: an instruction has its node before its operands *)
(* are parsed, and the edges so far are those of the operands passed.       *)
THEOREM BuildInvariant == Spec => []IInv
  BY InitIInv, NextIInv, PTL DEF Spec

(* The variables of the constructor have their types.                      *)
THEOREM TypeCorrect == Spec => []TypeOK
<1>1. IInv => TypeOK
  <2>. SUFFICES ASSUME IInv PROVE TypeOK
    OBVIOUS
  <2>1. insts \in Loops /\ NodeInv /\ StackInv /\ ProgressInv /\ EdgeInv /\ CtrlInv
    BY DEF IInv, ProgressInv
  <2>2. \A k \in DOMAIN nodes : nodes[k].inst \in IF isOp(k) THEN DOMAIN insts ELSE {0}
    BY <2>1, NodeOfInst DEF NodeInv
  <2>3. \A e \in edges : e.src \in DOMAIN nodes /\ e.des \in DOMAIN nodes
    BY <2>1 DEF EdgeInv
  <2>. QED
    BY <2>1, <2>2, <2>3, StackFacts, NodeFacts
       DEF TypeOK, NodeInv, ProgressInv, CtrlInv, Kinds
<1>. QED
  BY <1>1, BuildInvariant, PTL

(* No parse under way is begun again, in a loop of any shape.              *)
THEOREM ParseNeverReenters == Spec => []RecursionEnds
<1>1. IInv => RecursionEnds
  BY DEF IInv, StackInv
<1>. QED
  BY <1>1, BuildInvariant, PTL

(* One node per instruction, whatever the recursion met first.             *)
THEOREM NodePerInst == Spec => []OneNodePerInst
<1>1. IInv => OneNodePerInst
  <2>. SUFFICES ASSUME IInv PROVE OneNodePerInst
    OBVIOUS
  <2>1. ASSUME NEW n \in DOMAIN insts PROVE Cardinality(getNode(n)) <= 1
    <3>1. CASE getNode(n) = {}
      BY <3>1, FS_EmptySet
    <3>2. CASE getNode(n) # {}
      <4>1. getNode(n) = {NodeOf(n)}
        BY <3>2, NodeOfIs DEF IInv, ProgressInv
      <4>2. Cardinality({NodeOf(n)}) = 1
        BY FS_Singleton
      <4>. QED
        BY <4>1, <4>2
    <3>. QED
      BY <3>1, <3>2
  <2>. QED
    BY <2>1 DEF OneNodePerInst, IInv, ProgressInv
<1>. QED
  BY <1>1, BuildInvariant, PTL

LEMMA BundleSize ==
    ASSUME NEW s, NEW n, NEW o
    PROVE  Cardinality(Bundle(s, n, o)) =
             IF insts[n].kind = "call" /\ insts[n].ops[o] # Const THEN 2 ELSE 1
<1>. DEFINE b(c) == [src |-> s, des |-> NodeOf(n), op |-> o, copy |-> c]
<1>1. CASE insts[n].kind = "call" /\ insts[n].ops[o] # Const
  <2>1. Bundle(s, n, o) = {b(1)} \cup {b(2)}
    BY <1>1 DEF Bundle, CopiesOf
  <2>2. b(1).copy # b(2).copy
    OBVIOUS
  <2>3. b(2) \notin {b(1)}
    BY <2>2
  <2>. HIDE DEF b
  <2>4. IsFiniteSet({b(1)}) /\ Cardinality({b(1)}) = 1
    BY FS_Singleton
  <2>5. Cardinality({b(1)} \cup {b(2)}) = 2
    BY <2>3, <2>4, FS_AddElement
  <2>. QED
    BY <1>1, <2>1, <2>5
<1>2. CASE ~(insts[n].kind = "call" /\ insts[n].ops[o] # Const)
  <2>1. Bundle(s, n, o) = {b(1)}
    BY <1>2 DEF Bundle, CopiesOf
  <2>. HIDE DEF b
  <2>2. Cardinality({b(1)}) = 1
    BY FS_Singleton
  <2>. QED
    BY <1>2, <2>1, <2>2
<1>. QED
  BY <1>1, <1>2

(* The graph holds the edges of the operands and no other.                 *)
THEOREM OperandsAndEdges == Spec => []OperandsBecomeEdges
<1>1. IInv => OperandsBecomeEdges
  <2>. SUFFICES ASSUME IInv, Parsed PROVE OperandsBecomeEdges
    BY DEF OperandsBecomeEdges
  <2>1. /\ insts \in Loops /\ NodeInv /\ StackInv /\ ProgressInv /\ EdgeInv
        /\ OperandInv /\ stack = <<>>
    BY DEF IInv, ProgressInv, StackInv
  <2>2. \A n, o : Reached(n, o)
    BY <2>1 DEF Reached
  <2>3. ASSUME NEW n \in DOMAIN insts, NEW o \in DOMAIN insts[n].ops
        PROVE  Cardinality(EdgesOf(n, o)) =
                 IF insts[n].kind = "call" /\ insts[n].ops[o] # Const THEN 2 ELSE 1
    <3>1. PICK s \in DOMAIN nodes : EdgesOf(n, o) = Bundle(s, n, o)
      BY <2>1, <2>2 DEF OperandInv, ProgressInv
    <3>. QED
      BY <3>1, BundleSize
  <2>4. ASSUME NEW e \in edges, e.src # RootNode PROVE Named(e)
    <3>1. PICK v : /\ v = insts[nodes[e.des].inst].ops[e.op] /\ ComesFrom(e, v)
                   /\ e.src \in DOMAIN nodes
                   /\ v \in DOMAIN insts \cup {Const, Outside}
      <4>1. /\ isOp(e.des) /\ Sound(e) /\ e.src \in DOMAIN nodes /\ e.des \in DOMAIN nodes
        BY <2>1 DEF EdgeInv
      <4>2. nodes[e.des].inst \in DOMAIN insts
        BY <2>1, <4>1, NodeOfInst
      <4>. QED
        BY <2>1, <2>4, <4>1, <4>2, LoopFacts DEF Sound
    <3>2. CASE v \in {Const, Outside}
      BY <3>1, <3>2 DEF ComesFrom, Named
    <3>3. CASE v \notin {Const, Outside}
      <4>1. nodes[e.src].inst = v /\ v # 0
        BY <3>1, <3>3 DEF ComesFrom, Const
      <4>2. NodeOf(v) = e.src
        BY <2>1, <3>1, <4>1, NodeOfInst DEF NodeInv
      <4>. QED
        BY <3>1, <3>3, <4>2 DEF Named
    <3>. QED
      BY <3>2, <3>3
  <2>. QED
    BY <2>3, <2>4 DEF OperandsBecomeEdges
<1>. QED
  BY <1>1, BuildInvariant, PTL

(* Dominance order leaves the anti edges to the phis.                      *)
THEOREM AntiEdgesAndPhis == Spec => []AntiEdgesEndInPhi
<1>1. IInv => AntiEdgesEndInPhi
  <2>. SUFFICES ASSUME IInv, NEW e \in edges, isAnti(e)
                PROVE  insts[nodes[e.des].inst].kind = "phi"
    BY DEF AntiEdgesEndInPhi
  <2>1. /\ insts \in Loops /\ NodeInv /\ EdgeInv
        /\ isOp(e.src) /\ nodes[e.des].inst <= nodes[e.src].inst
    BY DEF IInv, ProgressInv, isAnti
  <2>2. /\ isOp(e.des) /\ Sound(e) /\ e.src # RootNode
        /\ e.src \in DOMAIN nodes /\ e.des \in DOMAIN nodes
    BY <2>1, NodeFacts DEF EdgeInv
  <2>3. PICK n \in DOMAIN insts : n = nodes[e.des].inst
    BY <2>1, <2>2, NodeOfInst
  <2>4. /\ e.op \in DOMAIN insts[n].ops /\ insts[n].ops[e.op] = nodes[e.src].inst
    BY <2>1, <2>2, <2>3 DEF Sound, ComesFrom
  <2>5. insts[n].ops[e.op] >= n
    BY <2>1, <2>2, <2>3, <2>4, NodeOfInst, LoopFacts
  <2>. QED
    BY <2>1, <2>3, <2>4, <2>5, DominanceAssumption
<1>. QED
  BY <1>1, BuildInvariant, PTL

(* The root feeds exactly the operations without forward in-edge.          *)
THEOREM RootEdges == Spec => []RootFeedsTheRest
<1>1. IInv => RootFeedsTheRest
  BY DEF IInv, RootInv
<1>. QED
  BY <1>1, BuildInvariant, PTL
=============================================================================
