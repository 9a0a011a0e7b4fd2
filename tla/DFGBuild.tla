------------------------------ MODULE DFGBuild ------------------------------
(***************************************************************************)
(* Construction of the data-flow graph of a loop: DFG::DFG, parseInst with *)
(* the parse functions it dispatches to, parseCtrlEdge and addEdge         *)
(* (src/src/dfg/DFG.cpp).                                                  *)
(*                                                                         *)
(* A loop is the sequence `insts' of its instructions, block after block.  *)
(* An instruction has a kind ("phi", "op", "call", "br", or "other" for    *)
(* one the tool does not know), its operands, and for a phi the block each *)
(* operand comes from, for a br the blocks it leads to.  An operand is the *)
(* position of an instruction of the loop, Const or Outside.               *)
(*                                                                         *)
(* A node is its position in `nodes', which is its ID + 2: nodes are       *)
(* numbered in the order they are created.                                 *)
(***************************************************************************)
EXTENDS Integers, Sequences, FiniteSets

CONSTANT Loops

Const == 0      \* a constant integer
Outside == -1   \* an argument, a block, a function, another loop's value

ASSUME LoopsAssumption == \A l \in Loops :
    /\ Len(l) \in Nat /\ DOMAIN l = 1 .. Len(l)
    /\ \A n \in 1 .. Len(l) : l[n].ops \in Seq(1 .. Len(l) \cup {Const, Outside})

(* SSA form, blocks in dominance order: only a phi uses what comes later. *)
ASSUME DominanceAssumption == \A l \in Loops : \A n \in DOMAIN l :
    \A o \in DOMAIN l[n].ops : l[n].ops[o] >= n => l[n].kind = "phi"

VARIABLES
    insts,      \* the loop
    pc,
    next,       \* instruction, branch or node the current loop is at
    stack,      \* parse calls under way, innermost last: [inst, op]
    nodes,      \* [kind, inst], inst = 0 for a node without instruction
    edges,      \* [src, des, op, copy]: the copy-th edge of operand op of des
    ctrlEdges   \* [src, des, succ, inc]

vars == <<insts, pc, next, stack, nodes, edges, ctrlEdges>>

RootNode == 1
Known == {"phi", "op", "call", "br"}

getNode(inst) == {k \in DOMAIN nodes : nodes[k].inst = inst}
NodeOf(inst) == CHOOSE k \in getNode(inst) : TRUE
isOp(k) == nodes[k].kind = "op"
isVisible(e) == isOp(e.src) /\ isOp(e.des)

(* Mutant: the order of the node IDs decides. *)
isAntiByID(e) == isOp(e.src) /\ e.des <= e.src

(* The root, constants and values have no instruction: never anti. *)
isAnti(e) == isOp(e.src) /\ nodes[e.des].inst <= nodes[e.src].inst

getEdgesTo(k) == {e \in edges : e.des = k /\ isVisible(e) /\ ~isAnti(e)}

(* Mutant: the root is created and not pushed, as in DFG::DFG(). *)
InitNoRoot ==
    /\ insts \in Loops
    /\ pc = "insts" /\ next = 1 /\ stack = <<>>
    /\ nodes = <<>>
    /\ edges = {} /\ ctrlEdges = {}

Init ==
    /\ insts \in Loops
    /\ pc = "insts" /\ next = 1 /\ stack = <<>>
    /\ nodes = <<[kind |-> "root", inst |-> 0]>>
    /\ edges = {} /\ ctrlEdges = {}
-----------------------------------------------------------------------------
(* parseInst of an instruction without node: the node comes first, so that *)
(* the operands that lead back to it find it.                              *)
Enter(inst) ==
    /\ insts[inst].kind \in Known
    /\ nodes' = Append(nodes, [kind |-> "op", inst |-> inst])
    /\ stack' = Append(stack, [inst |-> inst, op |-> 1])

(* Mutant: parseInst does not look for the node of the instruction. *)
ParseInstAgain ==
    /\ pc = "insts" /\ stack = <<>> /\ next <= Len(insts)
    /\ Enter(next)
    /\ next' = next + 1
    /\ UNCHANGED <<insts, pc, edges, ctrlEdges>>

ParseInst ==
    /\ pc = "insts" /\ stack = <<>> /\ next <= Len(insts)
    /\ getNode(next) = {}
    /\ Enter(next)
    /\ UNCHANGED <<insts, pc, next, edges, ctrlEdges>>

ParsedAlready ==
    /\ pc = "insts" /\ stack = <<>> /\ next <= Len(insts)
    /\ getNode(next) # {}
    /\ next' = next + 1
    /\ UNCHANGED <<insts, pc, stack, nodes, edges, ctrlEdges>>

Top == stack[Len(stack)]
Pending == stack # <<>> /\ Top.op <= Len(insts[Top.inst].ops)
Operand == insts[Top.inst].ops[Top.op]
OpDone == stack' = [stack EXCEPT ![Len(stack)].op = @ + 1]

(* parseCall adds the edge of a value operand twice; parseBr does not know *)
(* constants and takes them for values.                                    *)
Copies == IF insts[Top.inst].kind = "call" /\ Operand # Const THEN {1, 2} ELSE {1}
AddEdges(src) ==
    edges' = edges \cup {[src |-> src, des |-> NodeOf(Top.inst),
                          op |-> Top.op, copy |-> c] : c \in Copies}

(* A new node for each use of a constant or of a value from outside. *)
LeafOperand ==
    /\ Pending /\ Operand \in {Const, Outside}
    /\ nodes' = Append(nodes,
          [kind |-> IF Operand = Const /\ insts[Top.inst].kind # "br"
                    THEN "const" ELSE "value", inst |-> 0])
    /\ AddEdges(Len(nodes'))
    /\ OpDone
    /\ UNCHANGED <<insts, pc, next, ctrlEdges>>

NodeOperand ==
    /\ Pending /\ Operand \notin {Const, Outside}
    /\ getNode(Operand) # {}
    /\ AddEdges(NodeOf(Operand))
    /\ OpDone
    /\ UNCHANGED <<insts, pc, next, nodes, ctrlEdges>>

(* Mutant: the operand counts as done when its parse begins. *)
NewOperandNoEdge ==
    /\ Pending /\ Operand \notin {Const, Outside}
    /\ getNode(Operand) = {}
    /\ insts[Operand].kind \in Known
    /\ nodes' = Append(nodes, [kind |-> "op", inst |-> Operand])
    /\ stack' = Append([stack EXCEPT ![Len(stack)].op = @ + 1],
                        [inst |-> Operand, op |-> 1])
    /\ UNCHANGED <<insts, pc, next, edges, ctrlEdges>>

(* Mutant: an operand is always parsed anew. *)
NewOperandAlways ==
    /\ Pending /\ Operand \notin {Const, Outside}
    /\ Enter(Operand)
    /\ UNCHANGED <<insts, pc, next, edges, ctrlEdges>>

(* getNodeElseCreate: the operand is parsed first, its edge added on       *)
(* return, when it is a NodeOperand.                                       *)
NewOperand ==
    /\ Pending /\ Operand \notin {Const, Outside}
    /\ getNode(Operand) = {}
    /\ Enter(Operand)
    /\ UNCHANGED <<insts, pc, next, edges, ctrlEdges>>

ReturnNode ==
    /\ stack # <<>> /\ ~Pending
    /\ stack' = SubSeq(stack, 1, Len(stack) - 1)
    /\ UNCHANGED <<insts, pc, next, nodes, edges, ctrlEdges>>

(* Mutant: only the loop over the instructions stops. *)
UnrecognizedTop ==
    /\ pc = "insts"
    /\ stack = <<>> /\ next <= Len(insts) /\ insts[next].kind \notin Known
    /\ pc' = "exited"
    /\ UNCHANGED <<insts, next, stack, nodes, edges, ctrlEdges>>

(* "not recognized instruction": exit(1) *)
Unrecognized ==
    /\ pc = "insts"
    /\ \/ stack = <<>> /\ next <= Len(insts) /\ insts[next].kind \notin Known
       \/ /\ Pending /\ Operand \notin {Const, Outside}
          /\ insts[Operand].kind \notin Known
    /\ pc' = "exited"
    /\ UNCHANGED <<insts, next, stack, nodes, edges, ctrlEdges>>

InstsParsed ==
    /\ pc = "insts" /\ stack = <<>> /\ next > Len(insts)
    /\ pc' = "ctrl" /\ next' = 1
    /\ UNCHANGED <<insts, stack, nodes, edges, ctrlEdges>>
-----------------------------------------------------------------------------
(* parseCtrlEdge: a conditional branch controls the phis that have an      *)
(* operand coming from one of its successors.                              *)
Conditional(b) == insts[b].kind = "br" /\ Len(insts[b].succ) = 2

Controls(b) ==
    UNION {{[src |-> NodeOf(b), des |-> NodeOf(p), succ |-> s, inc |-> k] :
              k \in {k \in DOMAIN insts[p].from : insts[p].from[k] = insts[b].succ[s]}} :
           p \in {p \in DOMAIN insts : insts[p].kind = "phi"}, s \in 1 .. 2}

ParseCtrlEdge ==
    /\ pc = "ctrl" /\ next <= Len(insts)
    /\ ctrlEdges' = ctrlEdges \cup IF Conditional(next) THEN Controls(next) ELSE {}
    /\ next' = next + 1
    /\ UNCHANGED <<insts, pc, stack, nodes, edges>>

CtrlParsed ==
    /\ pc = "ctrl" /\ next > Len(insts)
    /\ pc' = "root" /\ next' = 1
    /\ UNCHANGED <<insts, stack, nodes, edges, ctrlEdges>>

(* Mutant: anti edges count as in-edges, getEdgesTo(op, true, false). *)
InsertRootAnti ==
    /\ pc = "root" /\ next <= Len(nodes)
    /\ edges' = IF isOp(next) /\ {e \in edges : e.des = next /\ isVisible(e)} = {}
                THEN edges \cup {[src |-> RootNode, des |-> next, op |-> 0, copy |-> 1]}
                ELSE edges
    /\ next' = next + 1
    /\ UNCHANGED <<insts, pc, stack, nodes, ctrlEdges>>

(* "insert fake node R->0" *)
InsertRoot ==
    /\ pc = "root" /\ next <= Len(nodes)
    /\ edges' = IF isOp(next) /\ getEdgesTo(next) = {}
                THEN edges \cup {[src |-> RootNode, des |-> next, op |-> 0, copy |-> 1]}
                ELSE edges
    /\ next' = next + 1
    /\ UNCHANGED <<insts, pc, stack, nodes, ctrlEdges>>

Built ==
    /\ pc = "root" /\ next > Len(nodes)
    /\ pc' = "done"
    /\ UNCHANGED <<insts, next, stack, nodes, edges, ctrlEdges>>

Next ==
    \/ ParseInst \/ ParsedAlready \/ LeafOperand \/ NodeOperand \/ NewOperand
    \/ ReturnNode \/ Unrecognized \/ InstsParsed
    \/ ParseCtrlEdge \/ CtrlParsed \/ InsertRoot \/ Built

Spec == Init /\ [][Next]_vars
(* One thread runs the constructor to its end.                             *)
FairSpec == Spec /\ WF_vars(Next)
-----------------------------------------------------------------------------
TypeOK ==
    /\ insts \in Loops
    /\ pc \in {"insts", "ctrl", "root", "done", "exited"}
    /\ next \in Nat \ {0}
    /\ \A k \in DOMAIN stack : stack[k].inst \in DOMAIN insts /\ stack[k].op \in Nat \ {0}
    /\ \A k \in DOMAIN nodes :
          /\ nodes[k].kind \in {"root", "op", "const", "value"}
          /\ nodes[k].inst \in IF isOp(k) THEN DOMAIN insts ELSE {0}
          /\ nodes[k].kind = "root" <=> k = RootNode
    /\ \A e \in edges \cup ctrlEdges : e.src \in DOMAIN nodes /\ e.des \in DOMAIN nodes

(* The graph is as cyclic as the loop, but parsing an operand never starts *)
(* the parse of an instruction whose own parse is under way.               *)
RecursionEnds ==
    \A j, k \in DOMAIN stack : j # k => stack[j].inst # stack[k].inst

(* Whatever the recursion met first, an instruction has one node.          *)
Parsed == pc \in {"ctrl", "root", "done"}
OneNodePerInst ==
    /\ \A n \in DOMAIN insts : Cardinality(getNode(n)) <= 1
    /\ Parsed => \A n \in DOMAIN insts : getNode(n) # {}

(* Every operand is an edge from what it names, a call's value operand     *)
(* two, and there is no other edge than the root's; a constant or a value  *)
(* from outside is a node of its own at each use.                          *)
EdgesOf(n, o) == {e \in edges : e.des = NodeOf(n) /\ e.op = o}
Named(e) ==
    LET v == insts[nodes[e.des].inst].ops[e.op]
    IN  IF v \in {Const, Outside}
        THEN ~isOp(e.src) /\ \A f \in edges : f.src = e.src => f.op = e.op /\ f.des = e.des
        ELSE e.src = NodeOf(v)
OperandsBecomeEdges ==
    Parsed =>
        /\ \A n \in DOMAIN insts : \A o \in DOMAIN insts[n].ops :
              Cardinality(EdgesOf(n, o)) =
                IF insts[n].kind = "call" /\ insts[n].ops[o] # Const THEN 2 ELSE 1
        /\ \A e \in edges : e.src # RootNode => Named(e)

(* The value of an earlier iteration only reaches a phi: in a loop whose   *)
(* blocks are in dominance order every anti data edge ends in one, however *)
(* the recursion numbered the nodes.                                       *)
AntiEdgesEndInPhi ==
    Parsed => \A e \in edges : isAnti(e) => insts[nodes[e.des].inst].kind = "phi"

(* ILPMapper::mapII asks for the root edge of exactly the operations       *)
(* without forward in-edge, and the program exits when there is none.      *)
RootFeedsTheRest ==
    pc = "done" => \A k \in DOMAIN nodes : isOp(k) =>
        (getEdgesTo(k) = {} <=> \E e \in edges : e.src = RootNode /\ e.des = k)

(* The constructor returns, or the program exits.                          *)
ConstructionEnds == <>(pc \in {"done", "exited"})

(* "Control edges are all anti edges." (DFG.hpp:93)                        *)
ControlEdgesAreAnti == Parsed => \A c \in ctrlEdges : isAnti(c)
=============================================================================
