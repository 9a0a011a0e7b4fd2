-------------------------- MODULE ILPMapperProofs --------------------------
(***************************************************************************)
(* The integer program of ILPMapper::mapII, for any loop, schedule, array  *)
(* and interval, and for whatever solution the solver finds.               *)
(***************************************************************************)
EXTENDS ILPMapper, OrderProofs, TLAPS
-----------------------------------------------------------------------------
(* Arithmetic of time slots. *)
LEMMA SlotOf ==
    ASSUME NEW n \in Nat \ {0}, NEW q \in Int, NEW r \in 0 .. n - 1
    PROVE  (n * q + r) % n = r
<1>. DEFINE a == n * q + r
            p == a \div n
            s == a % n
<1>1. a \in Int /\ p \in Int /\ s \in 0 .. n - 1 /\ a = n * p + s
  OBVIOUS
<1>. HIDE DEF p, s
<1>2. n * (p - q) = r - s
  BY <1>1
<1>3. ASSUME p - q >= 1 PROVE FALSE
  <2>1. n * (p - q) >= n * 1
    BY <1>1, <1>3
  <2>. QED
    BY <2>1, <1>1, <1>2
<1>4. ASSUME q - p >= 1 PROVE FALSE
  <2>1. n * (q - p) >= n * 1
    BY <1>1, <1>4
  <2>2. n * (q - p) = s - r
    BY <1>1
  <2>. QED
    BY <2>1, <2>2, <1>1
<1>5. p = q
  BY <1>1, <1>3, <1>4
<1>6. s = r
  BY <1>1, <1>2, <1>5
<1>. QED
  BY <1>6 DEF s

LEMMA Slots ==
    ASSUME NEW n \in Nat \ {0}, NEW a \in Nat
    PROVE  /\ a % n \in 0 .. n - 1
           /\ a \div n \in Nat /\ a = n * (a \div n) + (a % n)
OBVIOUS

LEMMA NextRound ==
    ASSUME NEW n \in Nat \ {0}, NEW a \in Nat
    PROVE  (a + n) % n = a % n
<1>. DEFINE q == a \div n
            r == a % n
<1>1. r \in 0 .. n - 1 /\ q \in Nat /\ a = n * q + r
  BY Slots
<1>. HIDE DEF q, r
<1>2. a + n = n * (q + 1) + r
  BY <1>1
<1>3. (n * (q + 1) + r) % n = r
  BY <1>1, SlotOf
<1>. QED
  BY <1>2, <1>3 DEF r

LEMMA SameSlot ==
    ASSUME NEW n \in Nat \ {0}, NEW a \in Nat, NEW b \in Nat, a < b, a % n = b % n
    PROVE  a + n <= b
<1>. DEFINE q == a \div n
            p == b \div n
            r == a % n
<1>1. r \in 0 .. n - 1 /\ q \in Nat /\ a = n * q + r /\ p \in Nat /\ b = n * p + r
  BY Slots
<1>. HIDE DEF p, q, r
<1>2. n * (p - q) = b - a
  BY <1>1
<1>3. ASSUME p <= q PROVE FALSE
  <2>1. n * (q - p) >= 0
    BY <1>1, <1>3
  <2>2. n * (q - p) = a - b
    BY <1>1
  <2>. QED
    BY <2>1, <2>2
<1>4. n * (p - q) >= n * 1
  BY <1>1, <1>3
<1>. QED
  BY <1>2, <1>4

LEMMA NextSlot ==
    ASSUME NEW n \in Nat \ {0}, NEW a \in Nat
    PROVE  (a + 1) % n = ((a % n) + 1) % n
<1>. DEFINE q == a \div n
            r == a % n
<1>1. r \in 0 .. n - 1 /\ q \in Nat /\ a = n * q + r
  BY Slots
<1>. HIDE DEF q, r
<1>2. CASE r + 1 <= n - 1
  <2>1. (n * q + (r + 1)) % n = r + 1 /\ (n * 0 + (r + 1)) % n = r + 1
    BY <1>1, <1>2, SlotOf
  <2>2. n * q + (r + 1) = a + 1 /\ n * 0 + (r + 1) = r + 1
    BY <1>1
  <2>. QED
    BY <2>1, <2>2 DEF r
<1>3. CASE r + 1 = n
  <2>1. (n * (q + 1) + 0) % n = 0 /\ (n * 1 + 0) % n = 0
    BY <1>1, SlotOf
  <2>2. n * (q + 1) + 0 = a + 1 /\ n * 1 + 0 = r + 1
    BY <1>1, <1>3
  <2>. QED
    BY <2>1, <2>2 DEF r
<1>. QED
  BY <1>1, <1>2, <1>3
-----------------------------------------------------------------------------
(* What an input is. *)
LEMMA InputFacts ==
    ASSUME problem \in Problems
    PROVE  /\ II \in Nat \ {0} /\ problem.n \in Nat \ {0}
           /\ Ops = 0 .. problem.n - 1 /\ 0 \in Ops
           /\ Len(edges) \in Nat /\ DOMAIN edges = 1 .. Len(edges)
           /\ \A j \in DOMAIN edges :
                 /\ j # RootEdge /\ edges[j] = <<edges[j][1], edges[j][2]>>
                 /\ edges[j][1] \in Ops /\ edges[j][2] \in Ops
           /\ problem.ctrl \subseteq DOMAIN edges
           /\ \A j, k \in DOMAIN edges :
                 edges[j] = edges[k] /\ j \in problem.ctrl => k \in problem.ctrl
           /\ \A d \in Ops : Cycle(d) \in Nat
           /\ problem.cgra.connections \subseteq problem.cgra.PEs \X problem.cgra.PEs
<1>1. /\ problem.n \in Nat \ {0} /\ problem.II \in Nat \ {0}
      /\ Len(problem.edges) \in Nat
      /\ problem.edges \in [1 .. Len(problem.edges) -> Ops \X Ops]
      /\ problem.ctrl \subseteq DOMAIN problem.edges
      /\ problem.cycle \in [Ops -> Nat]
      /\ problem.cgra.connections \subseteq problem.cgra.PEs \X problem.cgra.PEs
  BY ProblemsAssumption DEF Ops
<1>2. \A j \in problem.ctrl, k \in DOMAIN problem.edges \ problem.ctrl :
          problem.edges[j] # problem.edges[k]
  BY ProblemsAssumption
<1>3. \A j \in DOMAIN edges :
          /\ j # RootEdge /\ edges[j] = <<edges[j][1], edges[j][2]>>
          /\ edges[j][1] \in Ops /\ edges[j][2] \in Ops
  BY <1>1 DEF edges, RootEdge
<1>4. \A j, k \in DOMAIN edges :
          edges[j] = edges[k] /\ j \in problem.ctrl => k \in problem.ctrl
  BY <1>2 DEF edges
<1>. QED
  BY <1>1, <1>3, <1>4 DEF edges, II, Ops, Cycle

LEMMA ConcatFacts ==
    ASSUME NEW S, NEW s \in Seq(S), NEW t \in Seq(S)
    PROVE  /\ s \o t \in Seq(S) /\ Len(s \o t) = Len(s) + Len(t)
           /\ \A a \in 1 .. Len(s) : (s \o t)[a] = s[a]
           /\ \A a \in 1 .. Len(t) : (s \o t)[Len(s) + a] = t[a]
OBVIOUS

(* The loop edges of a set of edges are those, each once. *)
LEMMA Listed ==
    ASSUME problem \in Problems, NEW S \in SUBSET DOMAIN edges
    PROVE  /\ InOrder(S) \in Seq(S) /\ Len(InOrder(S)) \in Nat
           /\ DOMAIN InOrder(S) = 1 .. Len(InOrder(S))
           /\ \A a \in DOMAIN InOrder(S) : InOrder(S)[a] \in S
           /\ \A j \in S : \E a \in DOMAIN InOrder(S) : InOrder(S)[a] = j
           /\ \A a, b \in DOMAIN InOrder(S) : InOrder(S)[a] = InOrder(S)[b] => a = b
<1>1. S \in SUBSET (1 .. Len(edges)) /\ Len(edges) \in Nat
  BY InputFacts
<1>2. /\ Cardinality(S) \in Nat
      /\ DOMAIN InOrder(S) = 1 .. Cardinality(S)
      /\ \A a \in 1 .. Cardinality(S) : InOrder(S)[a] \in S
      /\ \A j \in S : \E a \in 1 .. Cardinality(S) : InOrder(S)[a] = j
      /\ \A a, b \in 1 .. Cardinality(S) : a < b => InOrder(S)[a] < InOrder(S)[b]
  BY <1>1, InOrderLists
<1>3. InOrder(S) = [a \in 1 .. Cardinality(S) |-> InOrder(S)[a]]
  BY <1>2 DEF InOrder
<1>. DEFINE s == InOrder(S)
            c == Cardinality(S)
<1>. HIDE DEF s, c
<1>4. s \in Seq(S) /\ Len(s) = c
  <2>1. c \in Nat /\ s = [a \in 1 .. c |-> s[a]] /\ \A a \in 1 .. c : s[a] \in S
    BY <1>2, <1>3 DEF s, c
  <2>. QED
    BY <2>1
<1>5. \A a, b \in 1 .. c : s[a] = s[b] => a = b
  <2>1. c \in Nat /\ \A a, b \in 1 .. c : a < b => s[a] < s[b]
    BY <1>2 DEF s, c
  <2>2. \A a \in 1 .. c : s[a] \in Int
    BY <1>1, <1>2 DEF s, c
  <2>. QED
    BY <2>1, <2>2
<1>. QED
  BY <1>2, <1>4, <1>5 DEF s, c

(* The loops of an operation in the first phase: its in-edges, each once,  *)
(* the first of which is none of a recurrence.                             *)
LEMMA RowLoops ==
    ASSUME problem \in Problems, NEW d \in Ops
    PROVE  LET L == Loops("rows", d)
               ies == InEdges(d)
           IN  /\ Len(L) \in Nat /\ DOMAIN L = 1 .. Len(L)
               /\ \A a \in DOMAIN L :
                     \/ L[a] = RootEdge
                     \/ L[a] \in DOMAIN edges /\ edges[L[a]][2] = d
               /\ \A j \in DOMAIN edges : edges[j][2] = d => \E a \in DOMAIN L : L[a] = j
               /\ \A a, b \in DOMAIN L : L[a] = L[b] => a = b
               /\ Len(ies) \in Nat /\ DOMAIN ies = 1 .. Len(ies) /\ 1 \in DOMAIN ies
               /\ \A a \in DOMAIN ies : a \in DOMAIN L /\ L[a] = ies[a] /\ ~Recurrent(ies[a])
<1>. DEFINE fwd == {j \in DOMAIN edges : edges[j][2] = d /\ ~Recurrent(j)}
            rec == {j \in DOMAIN edges : edges[j][2] = d /\ Recurrent(j)}
            ies == InEdges(d)
            aes == InOrder(rec)
            E == {RootEdge} \cup DOMAIN edges
            L == ies \o aes
<1>1. /\ ies \in Seq(E) /\ Len(ies) \in Nat /\ Len(ies) >= 1
      /\ \A a \in 1 .. Len(ies) : /\ ~Recurrent(ies[a])
                                  /\ ies[a] = RootEdge \/ ies[a] \in fwd
      /\ \A j \in fwd : \E a \in 1 .. Len(ies) : ies[a] = j
      /\ \A a, b \in 1 .. Len(ies) : ies[a] = ies[b] => a = b
  <2>1. CASE fwd = {}
    <3>1. ies = <<RootEdge>>
      BY <2>1 DEF InEdges
    <3>2. ~Recurrent(RootEdge)
      BY DEF Recurrent
    <3>3. ies \in Seq(E) /\ Len(ies) = 1 /\ ies[1] = RootEdge
      BY <3>1
    <3>. QED
      BY <2>1, <3>2, <3>3
  <2>2. CASE fwd # {}
    <3>1. ies = InOrder(fwd)
      BY <2>2 DEF InEdges
    <3>2. PICK j \in fwd : TRUE
      BY <2>2
    <3>3. /\ InOrder(fwd) \in Seq(fwd) /\ Len(InOrder(fwd)) \in Nat
          /\ DOMAIN InOrder(fwd) = 1 .. Len(InOrder(fwd))
          /\ \A a \in DOMAIN InOrder(fwd) : InOrder(fwd)[a] \in fwd
          /\ \A k \in fwd : \E a \in DOMAIN InOrder(fwd) : InOrder(fwd)[a] = k
          /\ \A a, b \in DOMAIN InOrder(fwd) : InOrder(fwd)[a] = InOrder(fwd)[b] => a = b
      <4>1. fwd \in SUBSET DOMAIN edges
        OBVIOUS
      <4>. HIDE DEF fwd
      <4>. QED
        BY <4>1, Listed
    <3>4. \A k \in fwd : ~Recurrent(k)
      OBVIOUS
    <3>5. fwd \subseteq E
      OBVIOUS
    <3>. HIDE DEF fwd, E, ies
    <3>6. \E a \in 1 .. Len(ies) : ies[a] = j
      BY <3>1, <3>2, <3>3
    <3>7. Len(ies) >= 1 /\ ies \in Seq(E)
      BY <3>1, <3>3, <3>5, <3>6
    <3>. QED
      BY <3>1, <3>3, <3>4, <3>7
  <2>. QED
    BY <2>1, <2>2
<1>2. /\ aes \in Seq(E) /\ Len(aes) \in Nat
      /\ \A a \in 1 .. Len(aes) : aes[a] \in rec
      /\ \A j \in rec : \E a \in 1 .. Len(aes) : aes[a] = j
      /\ \A a, b \in 1 .. Len(aes) : aes[a] = aes[b] => a = b
  <2>1. rec \in SUBSET DOMAIN edges
    OBVIOUS
  <2>. HIDE DEF rec
  <2>. QED
    BY <2>1, Listed
<1>3. \A j \in rec : Recurrent(j) /\ j \in DOMAIN edges /\ edges[j][2] = d
  OBVIOUS
<1>4. \A j \in fwd : j \in DOMAIN edges /\ edges[j][2] = d
  OBVIOUS
<1>5. \A j \in DOMAIN edges : edges[j][2] = d => j \in fwd \/ j \in rec
  OBVIOUS
<1>6. Loops("rows", d) = L
  BY DEF Loops, AntiEdges
<1>. HIDE DEF fwd, rec, ies, aes, E
<1>7. /\ Len(L) = Len(ies) + Len(aes) /\ DOMAIN L = 1 .. Len(L)
      /\ \A a \in 1 .. Len(ies) : L[a] = ies[a]
      /\ \A a \in 1 .. Len(aes) : L[Len(ies) + a] = aes[a]
  BY <1>1, <1>2, ConcatFacts
<1>. HIDE DEF L
<1>8. \A a \in DOMAIN L : \/ a \in 1 .. Len(ies) /\ L[a] = ies[a]
                          \/ a - Len(ies) \in 1 .. Len(aes) /\ L[a] = aes[a - Len(ies)]
  <2>1. TAKE a \in DOMAIN L
  <2>2. CASE a <= Len(ies)
    BY <1>1, <1>2, <1>7, <2>2
  <2>3. CASE a > Len(ies)
    <3>1. a - Len(ies) \in 1 .. Len(aes) /\ a = Len(ies) + (a - Len(ies))
      BY <1>1, <1>2, <1>7, <2>3
    <3>. QED
      BY <1>7, <3>1
  <2>. QED
    BY <1>1, <1>2, <1>7, <2>2, <2>3
<1>9. \A a \in DOMAIN L : \/ L[a] = RootEdge
                          \/ L[a] \in DOMAIN edges /\ edges[L[a]][2] = d
  BY <1>1, <1>2, <1>3, <1>4, <1>8
<1>10. ASSUME NEW j \in DOMAIN edges, edges[j][2] = d
       PROVE  \E a \in DOMAIN L : L[a] = j
  <2>1. CASE j \in fwd
    BY <1>1, <1>2, <1>7, <2>1
  <2>2. CASE j \in rec
    <3>1. PICK a \in 1 .. Len(aes) : aes[a] = j
      BY <1>2, <2>2
    <3>2. Len(ies) + a \in DOMAIN L
      BY <1>1, <1>2, <1>7
    <3>. QED
      BY <1>7, <3>1, <3>2
  <2>. QED
    BY <1>5, <1>10, <2>1, <2>2
<1>11. ASSUME NEW a \in DOMAIN L, NEW b \in DOMAIN L, L[a] = L[b]
       PROVE  a = b
  <2>1. CASE a \in 1 .. Len(ies) /\ L[a] = ies[a]
    <3>1. ~Recurrent(L[b])
      BY <1>1, <1>11, <2>1
    <3>2. b \in 1 .. Len(ies) /\ L[b] = ies[b]
      BY <1>2, <1>3, <1>8, <3>1
    <3>. QED
      BY <1>1, <1>11, <2>1, <3>2
  <2>2. CASE a - Len(ies) \in 1 .. Len(aes) /\ L[a] = aes[a - Len(ies)]
    <3>1. Recurrent(L[b])
      BY <1>2, <1>3, <1>11, <2>2
    <3>2. b - Len(ies) \in 1 .. Len(aes) /\ L[b] = aes[b - Len(ies)]
      BY <1>1, <1>8, <3>1
    <3>3. a - Len(ies) = b - Len(ies)
      BY <1>2, <1>11, <2>2, <3>2
    <3>. QED
      BY <1>1, <1>7, <3>3
  <2>. QED
    BY <1>8, <2>1, <2>2
<1>12. \A a \in DOMAIN ies : a \in DOMAIN L /\ L[a] = ies[a] /\ ~Recurrent(ies[a])
  BY <1>1, <1>2, <1>7
<1>13. Len(L) \in Nat /\ 1 \in DOMAIN ies /\ DOMAIN ies = 1 .. Len(ies)
  BY <1>1, <1>2, <1>7
<1>. QED
  BY <1>1, <1>6, <1>7, <1>9, <1>10, <1>11, <1>12, <1>13 DEF ies

LEMMA ContLoops ==
    ASSUME problem \in Problems, NEW d \in Ops
    PROVE  LET L == Loops("cont", d)
           IN  /\ Len(L) \in Nat /\ DOMAIN L = 1 .. Len(L)
               /\ \A a \in DOMAIN L : L[a] \in DOMAIN edges /\ edges[L[a]][1] = d
               /\ \A j \in DOMAIN edges : edges[j][1] = d => \E a \in DOMAIN L : L[a] = j
<1>. DEFINE out == {j \in DOMAIN edges : edges[j][1] = d}
<1>1. Loops("cont", d) = InOrder(out)
  BY DEF Loops, OutEdges
<1>2. /\ out \in SUBSET DOMAIN edges
      /\ \A j \in out : j \in DOMAIN edges /\ edges[j][1] = d
      /\ \A j \in DOMAIN edges : edges[j][1] = d => j \in out
  OBVIOUS
<1>. HIDE DEF out
<1>3. /\ Len(InOrder(out)) \in Nat /\ DOMAIN InOrder(out) = 1 .. Len(InOrder(out))
      /\ \A a \in DOMAIN InOrder(out) : InOrder(out)[a] \in out
      /\ \A j \in out : \E a \in DOMAIN InOrder(out) : InOrder(out)[a] = j
  BY <1>2, Listed
<1>. QED
  BY <1>1, <1>2, <1>3
-----------------------------------------------------------------------------
RowType == [edge : {RootEdge} \cup DOMAIN edges, ds : Ops \cup {Root}, dd : Ops, i : Int,
            from : -1 .. II - 1, to : 0 .. II - 1]

ControlInv ==
    /\ problem \in Problems
    /\ pc \in {"rows", "cont", "solve", "done", "diverged"}
    /\ node \in Ops /\ at \in Nat \ {0} /\ i \in Int
    /\ \A phase \in {"rows", "cont"} :
          Running(phase) => First(phase, node, Loops(phase, node)[at]) <= i
    /\ rows \in Seq(RowType)

(* Where the loops stand: in the b-th loop of operation n, at turn v, or,  *)
(* in a later phase p, behind all of them.  RowsOver: the a-th loop of     *)
(* operation d is behind.                                                  *)
Passed(n, b, d, a) == d < n \/ (d = n /\ a < b)
RowsOver(p, n, b, d, a) == p # "rows" \/ Passed(n, b, d, a)

(* Every row is one of a loop, at a turn this loop has had ... *)
RowsOfLoops(p, n, b, v, rs) ==
    \A k \in DOMAIN rs :
        LET r == rs[k]
            L == Loops("rows", r.dd)
        IN  /\ r = Row(r.edge, r.dd, r.i)
            /\ RowFirst(r.dd, r.edge) <= r.i /\ r.i < RowLast(r.dd, r.edge)
            /\ \E a \in DOMAIN L :
                  /\ L[a] = r.edge
                  /\ RowsOver(p, n, b, r.dd, a) \/ (r.dd = n /\ a = b /\ r.i < v)

(* ... and a loop has left a row for every turn it has had, in order. *)
RowsUntil(rs, d, j, t) ==
    \A u \in RowFirst(d, j) .. t - 1 : \E k \in DOMAIN rs : rs[k] = Row(j, d, u)
LoopsWriteRows(p, n, b, v, rs) ==
    /\ \A d \in Ops : \A a \in DOMAIN Loops("rows", d) :
          LET j == Loops("rows", d)[a]
          IN  RowsOver(p, n, b, d, a) =>
                /\ RowFirst(d, j) <= RowLast(d, j)
                /\ RowsUntil(rs, d, j, RowLast(d, j))
    /\ p = "rows" /\ b \in DOMAIN Loops("rows", n) =>
          RowsUntil(rs, n, Loops("rows", n)[b], v)
RowsInTurn(rs) ==
    \A k, l \in DOMAIN rs :
        k < l /\ rs[k].edge = rs[l].edge /\ rs[k].dd = rs[l].dd => rs[k].i < rs[l].i

RowsOK(p, n, b, v, rs) ==
    RowsOfLoops(p, n, b, v, rs) /\ LoopsWriteRows(p, n, b, v, rs) /\ RowsInTurn(rs)
RowsInv == pc # "diverged" => RowsOK(pc, node, at, i, rows)

(* The same of the continuation constraints. *)
ContsOver(p, n, b, d, a) == p # "cont" \/ Passed(n, b, d, a)
HopsUntil(cs, j, t) == \A u \in ContFirst(j) .. t - 1 : HopCont(j, u) \in cs
ContsOK(p, n, b, v, cs) ==
    /\ \A d \in Ops : \A a \in DOMAIN Loops("cont", d) :
          LET j == Loops("cont", d)[a]
          IN  ContsOver(p, n, b, d, a) =>
                /\ ContFirst(j) <= ContLast(j)
                /\ OwnCont(j) \in cs /\ HopsUntil(cs, j, ContLast(j))
    /\ p = "cont" /\ b \in DOMAIN Loops("cont", n) =>
          HopsUntil(cs, Loops("cont", n)[b], v)
ContsInv == pc \in {"cont", "solve", "done"} => ContsOK(pc, node, at, i, conts)

(* What is known of the picks, and of the mapping read off them. *)
SolInv ==
    /\ sol \in Seq(mrrg) /\ Len(sol) <= Len(rows)
    /\ pc \in {"rows", "cont"} => sol = <<>>
    /\ \A k \in DOMAIN sol : sol[k] \in Candidates(rows[k])
    /\ Exclusive(sol)
MappingInv ==
    mapping # <<>> =>
        /\ pc = "done" /\ Len(sol) = Len(rows) /\ Consistent(sol) /\ Continued(sol)
        /\ mapping = [key \in {<<rows[k].ds, rows[k].dd>> : k \in DOMAIN rows} |-> RouteOf(key)]

IInv == ControlInv /\ RowsInv /\ ContsInv /\ SolInv /\ MappingInv
-----------------------------------------------------------------------------
(* The operators of the input. *)
LEMMA SameProblem ==
    ASSUME problem' = problem
    PROVE  /\ II' = II /\ Ops' = Ops /\ edges' = edges /\ mrrg' = mrrg /\ RowType' = RowType
           /\ \A p, d : Loops(p, d)' = Loops(p, d)
           /\ \A p, d, j : First(p, d, j)' = First(p, d, j) /\ Last(p, d, j)' = Last(p, d, j)
           /\ \A d, j : RowFirst(d, j)' = RowFirst(d, j) /\ RowLast(d, j)' = RowLast(d, j)
           /\ \A j, d, t : Row(j, d, t)' = Row(j, d, t)
           /\ \A j : /\ ContFirst(j)' = ContFirst(j) /\ ContLast(j)' = ContLast(j)
                     /\ OwnCont(j)' = OwnCont(j)
           /\ \A j, t : HopCont(j, t)' = HopCont(j, t)
           /\ \A r : Candidates(r)' = Candidates(r)
           /\ \A p, n, b, v, rs : RowsOK(p, n, b, v, rs)' = RowsOK(p, n, b, v, rs)
           /\ \A p, n, b, v, cs : ContsOK(p, n, b, v, cs)' = ContsOK(p, n, b, v, cs)
<1>1. II' = II /\ Ops' = Ops /\ edges' = edges /\ mrrg' = mrrg
  BY DEF II, Ops, edges, mrrg
<1>2. RowType' = RowType
  BY <1>1 DEF RowType
<1>3. \A d : Cycle(d)' = Cycle(d)
  BY DEF Cycle
<1>4. \A j : Recurrent(j)' = Recurrent(j) /\ SrcOf(j)' = SrcOf(j)
  BY <1>1 DEF Recurrent, SrcOf
<1>5. \A d, j : RowFirst(d, j)' = RowFirst(d, j) /\ RowLast(d, j)' = RowLast(d, j)
  BY <1>1, <1>3, <1>4 DEF RowFirst, RowLast
<1>6. \A j : ContFirst(j)' = ContFirst(j) /\ ContLast(j)' = ContLast(j)
  BY <1>1, <1>3 DEF ContFirst, ContLast
<1>7. \A p, d, j : First(p, d, j)' = First(p, d, j) /\ Last(p, d, j)' = Last(p, d, j)
  BY <1>5, <1>6 DEF First, Last
<1>8. \A j, d, t : Row(j, d, t)' = Row(j, d, t)
  BY <1>1, <1>4 DEF Row
<1>9. \A j : OwnCont(j)' = OwnCont(j)
  BY <1>1, <1>3 DEF OwnCont
<1>10. \A j, t : HopCont(j, t)' = HopCont(j, t)
  BY <1>1 DEF HopCont
<1>11. \A r : Candidates(r)' = Candidates(r)
  BY <1>1 DEF Candidates
<1>12. \A p, d : Loops(p, d)' = Loops(p, d)
  <2>1. \A d : OutEdges(d)' = OutEdges(d)
    BY <1>1 DEF OutEdges
  <2>2. \A d : AntiEdges(d)' = AntiEdges(d)
    BY <1>1, <1>4 DEF AntiEdges
  <2>3. \A d : InEdges(d)' = InEdges(d)
    BY <1>1, <1>4 DEF InEdges
  <2>. QED
    BY <2>1, <2>2, <2>3 DEF Loops
<1>13. \A p, n, b, v, rs : RowsOK(p, n, b, v, rs)' = RowsOK(p, n, b, v, rs)
  <2>1. \A p, n, b, v, rs : RowsOfLoops(p, n, b, v, rs)' = RowsOfLoops(p, n, b, v, rs)
    BY <1>5, <1>8, <1>12 DEF RowsOfLoops, RowsOver, Passed
  <2>2. \A rs, d, j, t : RowsUntil(rs, d, j, t)' = RowsUntil(rs, d, j, t)
    BY <1>5, <1>8 DEF RowsUntil
  <2>3. \A p, n, b, v, rs : LoopsWriteRows(p, n, b, v, rs)' = LoopsWriteRows(p, n, b, v, rs)
    BY <1>1, <1>5, <1>12, <2>2 DEF LoopsWriteRows, RowsOver, Passed
  <2>. QED
    BY <2>1, <2>3 DEF RowsOK, RowsInTurn
<1>14. \A p, n, b, v, cs : ContsOK(p, n, b, v, cs)' = ContsOK(p, n, b, v, cs)
  <2>1. \A cs, j, t : HopsUntil(cs, j, t)' = HopsUntil(cs, j, t)
    BY <1>6, <1>10 DEF HopsUntil
  <2>. QED
    BY <1>1, <1>6, <1>9, <1>12, <2>1 DEF ContsOK, ContsOver, Passed
<1>. QED
  BY <1>1, <1>2, <1>5, <1>6, <1>7, <1>8, <1>9, <1>10, <1>11, <1>12, <1>13, <1>14

(* The bounds of a loop are numbers, and its slots time slots. *)
LEMMA LoopBounds ==
    ASSUME problem \in Problems, NEW d \in Ops
    PROVE  /\ \A a \in DOMAIN Loops("rows", d) :
                 LET j == Loops("rows", d)[a]
                 IN  /\ RowFirst(d, j) \in Int /\ RowLast(d, j) \in Nat
                     /\ \A t \in Int : RowFirst(d, j) <= t => Row(j, d, t) \in RowType
           /\ \A a \in DOMAIN Loops("cont", d) :
                 LET j == Loops("cont", d)[a] IN ContFirst(j) \in Nat /\ ContLast(j) \in Nat
<1>1. ASSUME NEW a \in DOMAIN Loops("rows", d)
      PROVE  LET j == Loops("rows", d)[a]
             IN  /\ RowFirst(d, j) \in Int /\ RowLast(d, j) \in Nat
                 /\ \A t \in Int : RowFirst(d, j) <= t => Row(j, d, t) \in RowType
  <2>. DEFINE j == Loops("rows", d)[a]
  <2>1. j = RootEdge \/ (j \in DOMAIN edges /\ edges[j][2] = d)
    BY RowLoops
  <2>. HIDE DEF j
  <2>2. /\ RowFirst(d, j) \in Int /\ RowLast(d, j) \in Nat
        /\ j = RootEdge => RowFirst(d, j) >= -1
        /\ j # RootEdge => RowFirst(d, j) >= 0
    BY <2>1, InputFacts DEF RowFirst, RowLast
  <2>3. SrcOf(j) \in Ops \cup {Root}
    BY <2>1, InputFacts DEF SrcOf
  <2>4. ASSUME NEW t \in Int, RowFirst(d, j) <= t
        PROVE  Row(j, d, t) \in RowType
    <3>1. t + 1 \in Nat /\ (j # RootEdge => t \in Nat)
      BY <2>2, <2>4
    <3>2. (t + 1) % II \in 0 .. II - 1 /\ (j # RootEdge => t % II \in 0 .. II - 1)
      BY <3>1, InputFacts, Slots
    <3>3. (IF j = RootEdge THEN -1 ELSE t % II) \in -1 .. II - 1
      BY <3>2, InputFacts
    <3>. QED
      BY <2>1, <2>3, <3>2, <3>3 DEF Row, RowType
  <2>. QED
    BY <2>2, <2>4 DEF j
<1>2. ASSUME NEW a \in DOMAIN Loops("cont", d)
      PROVE  LET j == Loops("cont", d)[a] IN ContFirst(j) \in Nat /\ ContLast(j) \in Nat
  <2>. DEFINE j == Loops("cont", d)[a]
  <2>1. j \in DOMAIN edges
    BY ContLoops
  <2>. HIDE DEF j
  <2>2. ContFirst(j) \in Nat /\ ContLast(j) \in Nat
    BY <2>1, InputFacts DEF ContFirst, ContLast
  <2>. QED
    BY <2>2 DEF j
<1>. QED
  BY <1>1, <1>2
-----------------------------------------------------------------------------
LEMMA InitHolds == Init => IInv
<1>. SUFFICES ASSUME Init PROVE IInv
  OBVIOUS
<1>1. problem \in Problems /\ 0 \in Ops
  BY InputFacts DEF Init
<1>2. 1 \in DOMAIN Loops("rows", 0)
  BY <1>1, RowLoops
<1>3. i = RowFirst(0, Loops("rows", 0)[1]) /\ i \in Int
  BY <1>1, <1>2, LoopBounds DEF Init, First
<1>4. ControlInv
  BY <1>1, <1>2, <1>3 DEF Init, ControlInv, Running, First
<1>5. RowsInv
  <2>1. rows = <<>> /\ DOMAIN rows = {} /\ node = 0 /\ at = 1 /\ pc = "rows"
    BY DEF Init
  <2>2. RowsUntil(rows, 0, Loops("rows", 0)[1], i)
    BY <1>3 DEF RowsUntil
  <2>3. \A d \in Ops : \A a \in DOMAIN Loops("rows", d) : ~RowsOver(pc, node, at, d, a)
    <3>1. TAKE d \in Ops
    <3>2. TAKE a \in DOMAIN Loops("rows", d)
    <3>3. d \in Nat /\ a \in Nat /\ a >= 1
      BY <1>1, <3>1, <3>2, InputFacts, RowLoops
    <3>. QED
      BY <2>1, <3>3 DEF RowsOver, Passed
  <2>. QED
    BY <2>1, <2>2, <2>3 DEF RowsInv, RowsOK, RowsOfLoops, LoopsWriteRows, RowsInTurn
<1>6. ContsInv
  BY DEF Init, ContsInv
<1>7. SolInv
  BY DEF Init, SolInv, Exclusive
<1>8. MappingInv
  BY DEF Init, MappingInv
<1>. QED
  BY <1>4, <1>5, <1>6, <1>7, <1>8 DEF IInv

LEMMA EnterFacts ==
    ASSUME NEW phase \in {"rows", "cont"}, problem \in Problems, problem' = problem,
           NEW d \in Ops, NEW a, Enter(phase, d, a)
    PROVE  /\ pc' = phase /\ node' = d /\ at' = a /\ i' \in Int
           /\ a \in DOMAIN Loops(phase, d) => i' = First(phase, d, Loops(phase, d)[a])
BY LoopBounds DEF Enter, First

LEMMA ControlStep ==
    ASSUME ControlInv, [Next]_vars
    PROVE  ControlInv'
<1>1. CASE UNCHANGED vars
  <2>1. problem' = problem
    BY <1>1 DEF vars
  <2>. QED
    BY <1>1, <2>1, SameProblem DEF vars, ControlInv, Running
<1>2. CASE Next
  <2>0. problem' = problem /\ problem \in Problems
    BY <1>2 DEF Next, RowStep, RowLoopEnds, RowsNextOp, RowsDone, ContStep, ContLoopEnds,
           ContsNextOp, ContsDone, RowsDiverge, ContDiverge, Pick, NotSolved, Solved, ControlInv
  <2>. DEFINE Same == /\ problem \in Problems
                      /\ RowType' = RowType /\ Ops' = Ops
                      /\ \A p, d : Loops(p, d)' = Loops(p, d)
                      /\ \A p, d, j : First(p, d, j)' = First(p, d, j)
  <2>1. Same
    BY <2>0, SameProblem
  <2>2. ASSUME NEW phase \in {"rows", "cont"}, NEW d \in Ops, NEW a \in Nat \ {0},
               Enter(phase, d, a), rows' = rows
        PROVE  ControlInv'
    <3>1. /\ pc' = phase /\ node' = d /\ at' = a /\ i' \in Int
          /\ a \in DOMAIN Loops(phase, d) => i' = First(phase, d, Loops(phase, d)[a])
      BY <2>0, <2>2, EnterFacts
    <3>2. i' <= i'
      BY <3>1
    <3>. QED
      BY <2>0, <2>1, <2>2, <3>1, <3>2 DEF ControlInv, Running
  <2>3. CASE RowStep
    <3>1. i \in Int /\ First("rows", node, edge) <= i /\ i' = i + 1
          /\ node \in Ops /\ at \in DOMAIN Loops("rows", node) /\ pc = "rows"
      BY <2>3 DEF ControlInv, RowStep, Running, edge
    <3>2. First("rows", node, edge) = RowFirst(node, edge) /\ RowFirst(node, edge) \in Int
          /\ Row(edge, node, i) \in RowType
      BY <2>1, <3>1, LoopBounds DEF First, edge
    <3>3. rows' \in Seq(RowType)
      BY <2>3, <3>2 DEF ControlInv, RowStep
    <3>4. First("rows", node, edge) <= i' /\ i' \in Int
      BY <3>1, <3>2
    <3>. QED
      BY <2>0, <2>1, <2>3, <3>1, <3>3, <3>4 DEF ControlInv, RowStep, Running, edge
  <2>4. CASE ContStep
    <3>1. i \in Int /\ First("cont", node, edge) <= i /\ i' = i + 1
          /\ node \in Ops /\ at \in DOMAIN Loops("cont", node) /\ pc = "cont"
      BY <2>4 DEF ControlInv, ContStep, Running, edge
    <3>2. First("cont", node, edge) = ContFirst(edge) /\ ContFirst(edge) \in Nat
      BY <2>1, <3>1, LoopBounds DEF First, edge
    <3>4. First("cont", node, edge) <= i' /\ i' \in Int
      BY <3>1, <3>2
    <3>. QED
      BY <2>0, <2>1, <2>4, <3>1, <3>4 DEF ControlInv, ContStep, Running, edge
  <2>5. CASE RowLoopEnds
    BY <2>2, <2>5 DEF RowLoopEnds, ControlInv
  <2>6. CASE RowsNextOp
    BY <2>2, <2>6 DEF RowsNextOp, ControlInv
  <2>7. CASE RowsDone
    <3>1. 0 \in Ops
      BY <2>0, InputFacts
    <3>. QED
      BY <2>2, <2>7, <3>1 DEF RowsDone, ControlInv
  <2>8. CASE ContLoopEnds
    BY <2>2, <2>8 DEF ContLoopEnds, ControlInv
  <2>9. CASE ContsNextOp
    BY <2>2, <2>9 DEF ContsNextOp, ControlInv
  <2>10. CASE ContsDone \/ RowsDiverge \/ ContDiverge \/ NotSolved \/ Solved
    BY <2>1, <2>0, <2>10 DEF ContsDone, RowsDiverge, ContDiverge, NotSolved, Solved, ControlInv, Running
  <2>11. CASE Pick
    BY <2>1, <2>0, <2>11 DEF Pick, ControlInv, Running
  <2>. QED
    BY <1>2, <2>3, <2>4, <2>5, <2>6, <2>7, <2>8, <2>9, <2>10, <2>11 DEF Next
<1>. QED
  BY <1>1, <1>2
-----------------------------------------------------------------------------
(* From one place of the loops to a later one: the loops behind the first  *)
(* place are behind the other, and the loop that ran may be, at its bound. *)
GoOn(p, n, b, v, q, m, c) ==
    /\ \A d \in Ops : \A a \in DOMAIN Loops("rows", d) :
          /\ RowsOver(p, n, b, d, a) => RowsOver(q, m, c, d, a)
          /\ RowsOver(q, m, c, d, a) /\ ~RowsOver(p, n, b, d, a) =>
               /\ d = n /\ a = b /\ p = "rows" /\ v = RowLast(d, Loops("rows", d)[a])
               /\ RowFirst(d, Loops("rows", d)[a]) <= v
    /\ p = "rows" /\ b \in DOMAIN Loops("rows", n) => RowsOver(q, m, c, n, b)

(* No row is added. *)
LEMMA RowsKept ==
    ASSUME problem \in Problems, NEW rs \in Seq(RowType), NEW v \in Int, NEW w \in Int,
           NEW p, NEW n \in Ops, NEW b, RowsOK(p, n, b, v, rs),
           NEW q, NEW m \in Ops, NEW c, GoOn(p, n, b, v, q, m, c),
           q = "rows" /\ c \in DOMAIN Loops("rows", m) => w = RowFirst(m, Loops("rows", m)[c])
    PROVE  RowsOK(q, m, c, w, rs)
<1>. DEFINE L(d) == Loops("rows", d)
<1>1. RowsOfLoops(p, n, b, v, rs) /\ LoopsWriteRows(p, n, b, v, rs) /\ RowsInTurn(rs)
  BY DEF RowsOK
<1>2. ASSUME NEW d \in Ops, NEW a \in DOMAIN L(d), RowsOver(q, m, c, d, a)
      PROVE  /\ RowFirst(d, L(d)[a]) <= RowLast(d, L(d)[a])
             /\ RowsUntil(rs, d, L(d)[a], RowLast(d, L(d)[a]))
  <2>1. CASE RowsOver(p, n, b, d, a)
    BY <1>1, <2>1 DEF LoopsWriteRows
  <2>2. CASE ~RowsOver(p, n, b, d, a)
    BY <1>1, <1>2, <2>2 DEF LoopsWriteRows, GoOn
  <2>. QED
    BY <2>1, <2>2
<1>3. ASSUME q = "rows", c \in DOMAIN L(m)
      PROVE  RowsUntil(rs, m, L(m)[c], w)
  <2>1. w = RowFirst(m, L(m)[c])
    BY <1>3
  <2>2. w .. w - 1 = {}
    OBVIOUS
  <2>. QED
    BY <2>1, <2>2 DEF RowsUntil
<1>4. LoopsWriteRows(q, m, c, w, rs)
  BY <1>2, <1>3 DEF LoopsWriteRows
<1>5. ASSUME NEW k \in DOMAIN rs
      PROVE  LET r == rs[k]
             IN  /\ r = Row(r.edge, r.dd, r.i)
                 /\ RowFirst(r.dd, r.edge) <= r.i /\ r.i < RowLast(r.dd, r.edge)
                 /\ \E a \in DOMAIN L(r.dd) : L(r.dd)[a] = r.edge /\ RowsOver(q, m, c, r.dd, a)
  <2>1. /\ rs[k] = Row(rs[k].edge, rs[k].dd, rs[k].i)
        /\ RowFirst(rs[k].dd, rs[k].edge) <= rs[k].i
        /\ rs[k].i < RowLast(rs[k].dd, rs[k].edge)
    BY <1>1 DEF RowsOfLoops
  <2>2. PICK a \in DOMAIN L(rs[k].dd) :
            /\ L(rs[k].dd)[a] = rs[k].edge
            /\ \/ RowsOver(p, n, b, rs[k].dd, a)
               \/ rs[k].dd = n /\ a = b /\ rs[k].i < v
    BY <1>1 DEF RowsOfLoops
  <2>3. rs[k].dd \in Ops
    <3>1. rs[k] \in RowType
      OBVIOUS
    <3>. QED
      BY <3>1 DEF RowType
  <2>4. RowsOver(q, m, c, rs[k].dd, a)
    BY <2>2, <2>3 DEF RowsOver, GoOn
  <2>. QED
    BY <2>1, <2>2, <2>4
<1>6. RowsOfLoops(q, m, c, w, rs)
  BY <1>5 DEF RowsOfLoops
<1>. QED
  BY <1>1, <1>4, <1>6 DEF RowsOK

(* The loop that runs adds the row of its turn. *)
LEMMA RowAdded ==
    ASSUME problem \in Problems, NEW rs \in Seq(RowType), NEW v \in Int, NEW n \in Ops,
           NEW b \in DOMAIN Loops("rows", n), RowsOK("rows", n, b, v, rs),
           NEW j, j = Loops("rows", n)[b], RowFirst(n, j) <= v, v < RowLast(n, j),
           NEW row \in RowType, row = Row(j, n, v)
    PROVE  RowsOK("rows", n, b, v + 1, Append(rs, row))
<1>. DEFINE L(d) == Loops("rows", d)
            rt == Append(rs, row)
            N == Len(rs)
            Had(d, a, u) == RowsOver("rows", n, b, d, a) \/ (d = n /\ a = b /\ u < v)
<1>1. RowsOfLoops("rows", n, b, v, rs) /\ LoopsWriteRows("rows", n, b, v, rs) /\ RowsInTurn(rs)
  BY DEF RowsOK
<1>2. /\ N \in Nat /\ DOMAIN rs = 1 .. N /\ DOMAIN rt = 1 .. N + 1
      /\ \A k \in 1 .. N : rt[k] = rs[k] /\ rs[k] \in RowType
      /\ rt[N + 1] = row
  OBVIOUS
<1>3. row.edge = j /\ row.dd = n /\ row.i = v
  BY DEF Row
<1>4. \A k \in 1 .. N : rs[k].dd \in Ops /\ rs[k].i \in Int
  BY <1>2 DEF RowType
<1>5. \A k \in 1 .. N : \E a \in DOMAIN L(rs[k].dd) :
          L(rs[k].dd)[a] = rs[k].edge /\ Had(rs[k].dd, a, rs[k].i)
  BY <1>1, <1>2 DEF RowsOfLoops
<1>6. \A d, a : Passed(n, b, d, a) /\ d = n /\ n \in Int => a < b
  BY DEF Passed
<1>. HIDE DEF rt, N
<1>7. RowsOfLoops("rows", n, b, v + 1, rt)
  <2>. SUFFICES ASSUME NEW k \in DOMAIN rt
       PROVE  LET r == rt[k]
              IN  /\ r = Row(r.edge, r.dd, r.i)
                  /\ RowFirst(r.dd, r.edge) <= r.i /\ r.i < RowLast(r.dd, r.edge)
                  /\ \E a \in DOMAIN L(r.dd) :
                        /\ L(r.dd)[a] = r.edge
                        /\ RowsOver("rows", n, b, r.dd, a) \/ (r.dd = n /\ a = b /\ r.i < v + 1)
    BY DEF RowsOfLoops
  <2>1. CASE k = N + 1
    BY <1>2, <1>3, <2>1
  <2>2. CASE k \in 1 .. N
    <3>1. /\ rs[k] = Row(rs[k].edge, rs[k].dd, rs[k].i)
          /\ RowFirst(rs[k].dd, rs[k].edge) <= rs[k].i
          /\ rs[k].i < RowLast(rs[k].dd, rs[k].edge)
      BY <1>1, <1>2, <2>2 DEF RowsOfLoops
    <3>2. PICK a \in DOMAIN L(rs[k].dd) :
              L(rs[k].dd)[a] = rs[k].edge /\ Had(rs[k].dd, a, rs[k].i)
      BY <1>5, <2>2
    <3>3. \/ RowsOver("rows", n, b, rs[k].dd, a)
          \/ rs[k].dd = n /\ a = b /\ rs[k].i < v + 1
      BY <1>4, <2>2, <3>2
    <3>. QED
      BY <1>2, <2>2, <3>1, <3>2, <3>3
  <2>. QED
    BY <1>2, <2>1, <2>2
<1>8. \A d, e, t : RowsUntil(rs, d, e, t) => RowsUntil(rt, d, e, t)
  BY <1>2 DEF RowsUntil
<1>9. RowsUntil(rt, n, j, v + 1)
  <2>. SUFFICES ASSUME NEW u \in RowFirst(n, j) .. v
       PROVE  \E k \in DOMAIN rt : rt[k] = Row(j, n, u)
    BY DEF RowsUntil
  <2>1. RowsUntil(rt, n, j, v)
    BY <1>1, <1>8 DEF LoopsWriteRows
  <2>2. RowFirst(n, j) \in Int
    BY LoopBounds
  <2>3. CASE u = v
    BY <1>2, <2>3
  <2>4. CASE u # v
    BY <2>1, <2>2, <2>4 DEF RowsUntil
  <2>. QED
    BY <2>3, <2>4
<1>10. LoopsWriteRows("rows", n, b, v + 1, rt)
  BY <1>1, <1>8, <1>9 DEF LoopsWriteRows
<1>11. ASSUME NEW k \in 1 .. N, rs[k].edge = j, rs[k].dd = n
       PROVE  rs[k].i < v
  <2>1. PICK a \in DOMAIN L(n) : L(n)[a] = j /\ Had(n, a, rs[k].i)
    BY <1>5, <1>11
  <2>2. a = b
    BY <2>1, RowLoops
  <2>3. b \in Nat /\ n \in Nat
    BY InputFacts, RowLoops
  <2>. QED
    BY <2>1, <2>2, <2>3 DEF RowsOver, Passed
<1>12. RowsInTurn(rt)
  <2>. SUFFICES ASSUME NEW k \in DOMAIN rt, NEW l \in DOMAIN rt, k < l,
                       rt[k].edge = rt[l].edge, rt[k].dd = rt[l].dd
       PROVE  rt[k].i < rt[l].i
    BY DEF RowsInTurn
  <2>1. k \in 1 .. N
    BY <1>2
  <2>2. CASE l = N + 1
    BY <1>2, <1>3, <1>11, <2>1, <2>2
  <2>3. CASE l \in 1 .. N
    BY <1>1, <1>2, <2>1, <2>3 DEF RowsInTurn
  <2>. QED
    BY <1>2, <2>2, <2>3
<1>. QED
  BY <1>7, <1>10, <1>12 DEF RowsOK, rt

LEMMA RowsStep ==
    ASSUME ControlInv, RowsInv, [Next]_vars
    PROVE  RowsInv'
<1>. DEFINE L(d) == Loops("rows", d)
<1>0. problem' = problem /\ problem \in Problems
  BY DEF vars, Next, RowStep, RowLoopEnds, RowsNextOp, RowsDone, ContStep, ContLoopEnds,
         ContsNextOp, ContsDone, RowsDiverge, ContDiverge, Pick, NotSolved, Solved, ControlInv
<1>1. \A p, n, b, v, rs : RowsOK(p, n, b, v, rs)' = RowsOK(p, n, b, v, rs)
  BY <1>0, SameProblem
<1>2. /\ node \in Ops /\ at \in Nat \ {0} /\ i \in Int /\ rows \in Seq(RowType)
      /\ Ops \subseteq Int /\ 0 \in Ops /\ Ops = 0 .. problem.n - 1 /\ problem.n \in Nat
  BY <1>0, InputFacts DEF ControlInv
<1>3. \A d \in Ops : DOMAIN L(d) = 1 .. Len(L(d)) /\ Len(L(d)) \in Nat
  BY <1>0, RowLoops
<1>4. PICK p, n, b, v, rs : p = pc' /\ n = node' /\ b = at' /\ v = i' /\ rs = rows'
  OBVIOUS
<1>5. SUFFICES ASSUME p # "diverged", pc # "diverged", RowsOK(pc, node, at, i, rows)
      PROVE  RowsOK(p, n, b, v, rs)
  <2>1. pc = "diverged" => pc' = "diverged"
    BY DEF vars, Next, RowStep, RowLoopEnds, RowsNextOp, RowsDone, ContStep, ContLoopEnds,
           ContsNextOp, ContsDone, RowsDiverge, ContDiverge, Pick, NotSolved, Solved, Running, Over
  <2>2. RowsOK(pc, node, at, i, rows)' = RowsOK(p, n, b, v, rs)'
    BY <1>4
  <2>. QED
    BY <1>1, <1>4, <2>1, <2>2 DEF RowsInv
<1>6. CASE UNCHANGED <<pc, node, at, i, rows>>
  BY <1>4, <1>5, <1>6
\* Beyond the rows phase nothing changes: every loop is behind.
<1>7. CASE pc # "rows" /\ p # "rows" /\ rs = rows /\ n \in Ops /\ v \in Int
  <2>1. \A d, a : RowsOver(pc, node, at, d, a) /\ RowsOver(p, n, b, d, a)
    BY <1>7 DEF RowsOver
  <2>2. GoOn(pc, node, at, i, p, n, b)
    BY <1>7, <2>1 DEF GoOn
  <2>. QED
    BY <1>0, <1>2, <1>5, <1>7, <2>2, RowsKept
<1>8. CASE RowStep
  <2>. DEFINE j == L(node)[at]
  <2>1. /\ pc = "rows" /\ at \in DOMAIN L(node) /\ i < RowLast(node, j)
        /\ rows' = Append(rows, Row(j, node, i)) /\ i' = i + 1
        /\ pc' = pc /\ node' = node /\ at' = at
    BY <1>8 DEF RowStep, Running, last, Last, edge
  <2>2. RowFirst(node, j) <= i
    BY <2>1 DEF ControlInv, Running, First
  <2>3. Row(j, node, i) \in RowType
    BY <1>0, <1>2, <2>1, <2>2, LoopBounds
  <2>. QED
    BY <1>0, <1>2, <1>4, <1>5, <2>1, <2>2, <2>3, RowAdded
<1>9. ASSUME NEW phase \in {"rows", "cont"}, NEW d \in Ops, NEW a, Enter(phase, d, a)
      PROVE  /\ p = phase /\ n = d /\ b = a /\ v \in Int
             /\ p = "rows" /\ b \in DOMAIN L(n) => v = RowFirst(n, L(n)[b])
  BY <1>0, <1>4, <1>9, EnterFacts DEF First
<1>10. CASE RowLoopEnds
  <2>1. /\ p = "rows" /\ n = node /\ b = at + 1 /\ v \in Int /\ rs = rows
        /\ b \in DOMAIN L(n) => v = RowFirst(n, L(n)[b])
    BY <1>2, <1>4, <1>9, <1>10 DEF RowLoopEnds
  <2>2. pc = "rows" /\ at \in DOMAIN L(node) /\ i = RowLast(node, L(node)[at])
    BY <1>10 DEF RowLoopEnds, Running, last, Last, edge
  <2>3. RowFirst(node, L(node)[at]) <= i
    BY <2>2 DEF ControlInv, Running, First
  <2>4. ASSUME NEW d \in Ops, NEW a \in DOMAIN L(d)
        PROVE  /\ RowsOver(pc, node, at, d, a) => RowsOver(p, n, b, d, a)
               /\ RowsOver(p, n, b, d, a) /\ ~RowsOver(pc, node, at, d, a) => d = node /\ a = at
    <3>1. a \in Nat /\ d \in Int
      BY <1>2, <1>3
    <3>. QED
      BY <1>2, <2>1, <2>2, <3>1 DEF RowsOver, Passed
  <2>5. RowsOver(p, n, b, node, at)
    BY <1>2, <2>1 DEF RowsOver, Passed
  <2>6. GoOn(pc, node, at, i, p, n, b)
    BY <2>2, <2>3, <2>4, <2>5 DEF GoOn
  <2>. QED
    BY <1>0, <1>2, <1>5, <2>1, <2>6, RowsKept
<1>11. CASE RowsNextOp
  <2>1. /\ p = "rows" /\ n = node + 1 /\ n \in Ops /\ b = 1 /\ v \in Int /\ rs = rows
        /\ b \in DOMAIN L(n) => v = RowFirst(n, L(n)[b])
    BY <1>2, <1>4, <1>9, <1>11 DEF RowsNextOp
  <2>2. pc = "rows" /\ at \notin DOMAIN L(node)
    BY <1>11 DEF RowsNextOp, Over
  <2>3. ASSUME NEW d \in Ops, NEW a \in DOMAIN L(d)
        PROVE  RowsOver(pc, node, at, d, a) <=> RowsOver(p, n, b, d, a)
    <3>1. a \in Nat /\ a >= 1 /\ d \in Int
      BY <1>2, <1>3
    <3>2. d = node => a < at
      BY <1>2, <1>3, <2>2
    <3>. QED
      BY <1>2, <2>1, <2>2, <3>1, <3>2 DEF RowsOver, Passed
  <2>4. GoOn(pc, node, at, i, p, n, b)
    BY <2>2, <2>3 DEF GoOn
  <2>. QED
    BY <1>0, <1>2, <1>5, <2>1, <2>4, RowsKept
<1>12. CASE RowsDone
  <2>1. p = "cont" /\ n = 0 /\ v \in Int /\ rs = rows
    BY <1>2, <1>4, <1>9, <1>12 DEF RowsDone
  <2>2. pc = "rows" /\ at \notin DOMAIN L(node) /\ node + 1 \notin Ops
    BY <1>12 DEF RowsDone, Over
  <2>3. ASSUME NEW d \in Ops, NEW a \in DOMAIN L(d)
        PROVE  RowsOver(pc, node, at, d, a) /\ RowsOver(p, n, b, d, a)
    <3>1. a \in Nat /\ d \in Int /\ (d < node \/ d = node)
      BY <1>2, <1>3, <2>2
    <3>2. d = node => a < at
      BY <1>2, <1>3, <2>2
    <3>. QED
      BY <1>2, <2>1, <3>1, <3>2 DEF RowsOver, Passed
  <2>4. GoOn(pc, node, at, i, p, n, b)
    BY <2>2, <2>3 DEF GoOn
  <2>. QED
    BY <1>0, <1>2, <1>5, <2>1, <2>4, RowsKept
<1>13. CASE ContStep \/ ContsDone \/ Pick \/ NotSolved \/ Solved
  BY <1>2, <1>4, <1>7, <1>13 DEF ContStep, ContsDone, Pick, NotSolved, Solved, Running, Over
<1>14. CASE ContLoopEnds
  BY <1>2, <1>4, <1>7, <1>9, <1>14 DEF ContLoopEnds, Running
<1>15. CASE ContsNextOp
  BY <1>2, <1>4, <1>7, <1>9, <1>15 DEF ContsNextOp, Over
<1>16. CASE RowsDiverge \/ ContDiverge
  BY <1>4, <1>5, <1>16 DEF RowsDiverge, ContDiverge
<1>17. CASE UNCHANGED vars
  BY <1>6, <1>17 DEF vars
<1>. QED
  BY <1>8, <1>10, <1>11, <1>12, <1>13, <1>14, <1>15, <1>16, <1>17 DEF Next
-----------------------------------------------------------------------------
(* The same for the continuation constraints, none of which is ever taken  *)
(* away.                                                                   *)
ContsGoOn(p, n, b, v, q, m, c, cs) ==
    \A d \in Ops : \A a \in DOMAIN Loops("cont", d) :
        LET j == Loops("cont", d)[a]
        IN  ContsOver(q, m, c, d, a) /\ ~ContsOver(p, n, b, d, a) =>
              /\ d = n /\ a = b /\ p = "cont" /\ v = ContLast(j) /\ ContFirst(j) <= v
              /\ OwnCont(j) \in cs

LEMMA ContsKept ==
    ASSUME problem \in Problems, NEW cs, NEW ct, cs \subseteq ct, NEW v \in Int, NEW w \in Int,
           NEW p, NEW n \in Ops, NEW b, ContsOK(p, n, b, v, cs),
           NEW q, NEW m \in Ops, NEW c, ContsGoOn(p, n, b, v, q, m, c, ct),
           q = "cont" /\ c \in DOMAIN Loops("cont", m) => w = ContFirst(Loops("cont", m)[c])
    PROVE  ContsOK(q, m, c, w, ct)
<1>. DEFINE L(d) == Loops("cont", d)
<1>1. \A j, t : HopsUntil(cs, j, t) => HopsUntil(ct, j, t)
  BY DEF HopsUntil
<1>2. ASSUME NEW d \in Ops, NEW a \in DOMAIN L(d), ContsOver(q, m, c, d, a)
      PROVE  /\ ContFirst(L(d)[a]) <= ContLast(L(d)[a])
             /\ OwnCont(L(d)[a]) \in ct /\ HopsUntil(ct, L(d)[a], ContLast(L(d)[a]))
  <2>1. CASE ContsOver(p, n, b, d, a)
    BY <1>1, <2>1 DEF ContsOK
  <2>2. CASE ~ContsOver(p, n, b, d, a)
    <3>1. /\ d = n /\ a = b /\ p = "cont" /\ v = ContLast(L(d)[a]) /\ ContFirst(L(d)[a]) <= v
          /\ OwnCont(L(d)[a]) \in ct
      BY <1>2, <2>2 DEF ContsGoOn
    <3>2. HopsUntil(cs, L(d)[a], v)
      BY <3>1 DEF ContsOK
    <3>. QED
      BY <1>1, <3>1, <3>2
  <2>. QED
    BY <2>1, <2>2
<1>3. ASSUME q = "cont", c \in DOMAIN L(m)
      PROVE  HopsUntil(ct, L(m)[c], w)
  <2>1. w = ContFirst(L(m)[c]) /\ w .. w - 1 = {}
    BY <1>3
  <2>. QED
    BY <2>1 DEF HopsUntil
<1>. QED
  BY <1>2, <1>3 DEF ContsOK

LEMMA ContAdded ==
    ASSUME problem \in Problems, NEW cs, NEW v \in Int, NEW n \in Ops,
           NEW b \in DOMAIN Loops("cont", n), ContsOK("cont", n, b, v, cs),
           NEW j, j = Loops("cont", n)[b]
    PROVE  ContsOK("cont", n, b, v + 1, cs \cup {HopCont(j, v)})
<1>. DEFINE ct == cs \cup {HopCont(j, v)}
<1>1. \A k, t : HopsUntil(cs, k, t) => HopsUntil(ct, k, t)
  BY DEF HopsUntil
<1>2. HopsUntil(ct, j, v + 1)
  <2>. SUFFICES ASSUME NEW u \in ContFirst(j) .. v
       PROVE  HopCont(j, u) \in ct
    BY DEF HopsUntil
  <2>1. HopsUntil(cs, j, v) /\ ContFirst(j) \in Int
    BY LoopBounds DEF ContsOK
  <2>2. CASE u = v
    BY <2>2
  <2>3. CASE u # v
    BY <2>1, <2>3 DEF HopsUntil
  <2>. QED
    BY <2>2, <2>3
<1>3. cs \subseteq ct
  OBVIOUS
<1>. HIDE DEF ct
<1>. QED
  BY <1>1, <1>2, <1>3 DEF ContsOK, ct

LEMMA ContsStep ==
    ASSUME ControlInv, ContsInv, [Next]_vars
    PROVE  ContsInv'
<1>. DEFINE L(d) == Loops("cont", d)
<1>0. problem' = problem /\ problem \in Problems
  BY DEF vars, Next, RowStep, RowLoopEnds, RowsNextOp, RowsDone, ContStep, ContLoopEnds,
         ContsNextOp, ContsDone, RowsDiverge, ContDiverge, Pick, NotSolved, Solved, ControlInv
<1>1. \A p, n, b, v, cs : ContsOK(p, n, b, v, cs)' = ContsOK(p, n, b, v, cs)
  BY <1>0, SameProblem
<1>2. /\ node \in Ops /\ at \in Nat \ {0} /\ i \in Int
      /\ Ops \subseteq Int /\ 0 \in Ops /\ Ops = 0 .. problem.n - 1 /\ problem.n \in Nat
  BY <1>0, InputFacts DEF ControlInv
<1>3. \A d \in Ops : DOMAIN L(d) = 1 .. Len(L(d)) /\ Len(L(d)) \in Nat
  BY <1>0, ContLoops
<1>4. PICK p, n, b, v, cs : p = pc' /\ n = node' /\ b = at' /\ v = i' /\ cs = conts'
  OBVIOUS
<1>5. SUFFICES ASSUME p \in {"cont", "solve", "done"}
      PROVE  ContsOK(p, n, b, v, cs)
  <2>2. ContsOK(pc, node, at, i, conts)' = ContsOK(p, n, b, v, cs)'
    BY <1>4
  <2>. QED
    BY <1>1, <1>4, <2>2 DEF ContsInv
<1>6. CASE UNCHANGED <<pc, node, at, i, conts>>
  BY <1>4, <1>5, <1>6 DEF ContsInv
<1>7. CASE /\ pc \in {"solve", "done"} /\ p \in {"solve", "done"}
           /\ cs = conts /\ n \in Ops /\ v \in Int
  <2>1. ContsOK(pc, node, at, i, conts)
    BY <1>7 DEF ContsInv
  <2>2. ContsGoOn(pc, node, at, i, p, n, b, conts)
    BY <1>7 DEF ContsGoOn, ContsOver
  <2>. QED
    BY <1>0, <1>2, <1>7, <2>1, <2>2, ContsKept
<1>8. CASE ContStep
  <2>. DEFINE j == L(node)[at]
  <2>1. /\ pc = "cont" /\ at \in DOMAIN L(node)
        /\ conts' = conts \cup {HopCont(j, i)} /\ i' = i + 1
        /\ pc' = pc /\ node' = node /\ at' = at
    BY <1>8 DEF ContStep, Running, edge
  <2>2. ContsOK("cont", node, at, i, conts)
    BY <2>1 DEF ContsInv
  <2>. QED
    BY <1>0, <1>2, <1>4, <2>1, <2>2, ContAdded
<1>9. ASSUME NEW phase \in {"rows", "cont"}, NEW d \in Ops, NEW a, Enter(phase, d, a)
      PROVE  /\ p = phase /\ n = d /\ b = a /\ v \in Int
             /\ p = "cont" /\ b \in DOMAIN L(n) => v = ContFirst(L(n)[b])
  BY <1>0, <1>4, <1>9, EnterFacts DEF First
<1>10. CASE ContLoopEnds
  <2>1. /\ p = "cont" /\ n = node /\ b = at + 1 /\ v \in Int
        /\ b \in DOMAIN L(n) => v = ContFirst(L(n)[b])
    BY <1>2, <1>4, <1>9, <1>10 DEF ContLoopEnds
  <2>2. /\ pc = "cont" /\ at \in DOMAIN L(node) /\ i = ContLast(L(node)[at])
        /\ cs = conts \cup {OwnCont(L(node)[at])}
    BY <1>4, <1>10 DEF ContLoopEnds, Running, last, Last, edge
  <2>3. ContFirst(L(node)[at]) <= i
    BY <2>2 DEF ControlInv, Running, First
  <2>4. ASSUME NEW d \in Ops, NEW a \in DOMAIN L(d),
               ContsOver(p, n, b, d, a), ~ContsOver(pc, node, at, d, a)
        PROVE  d = node /\ a = at
    <3>1. a \in Nat /\ d \in Int
      BY <1>2, <1>3
    <3>. QED
      BY <1>2, <2>1, <2>2, <2>4, <3>1 DEF ContsOver, Passed
  <2>5. ContsGoOn(pc, node, at, i, p, n, b, cs)
    BY <2>2, <2>3, <2>4 DEF ContsGoOn
  <2>6. ContsOK(pc, node, at, i, conts)
    BY <2>2 DEF ContsInv
  <2>7. conts \subseteq cs
    BY <2>2
  <2>. QED
    BY <1>0, <1>2, <2>1, <2>5, <2>6, <2>7, ContsKept
<1>11. CASE ContsNextOp
  <2>1. /\ p = "cont" /\ n = node + 1 /\ n \in Ops /\ b = 1 /\ v \in Int /\ cs = conts
        /\ b \in DOMAIN L(n) => v = ContFirst(L(n)[b])
    BY <1>2, <1>4, <1>9, <1>11 DEF ContsNextOp
  <2>2. pc = "cont" /\ at \notin DOMAIN L(node)
    BY <1>11 DEF ContsNextOp, Over
  <2>3. ASSUME NEW d \in Ops, NEW a \in DOMAIN L(d), ContsOver(p, n, b, d, a)
        PROVE  ContsOver(pc, node, at, d, a)
    <3>1. a \in Nat /\ a >= 1 /\ d \in Int
      BY <1>2, <1>3
    <3>2. d = node => a < at
      BY <1>2, <1>3, <2>2
    <3>. QED
      BY <1>2, <2>1, <2>2, <2>3, <3>1, <3>2 DEF ContsOver, Passed
  <2>4. ContsGoOn(pc, node, at, i, p, n, b, conts)
    BY <2>3 DEF ContsGoOn
  <2>5. ContsOK(pc, node, at, i, conts)
    BY <2>2 DEF ContsInv
  <2>. QED
    BY <1>0, <1>2, <2>1, <2>4, <2>5, ContsKept
<1>12. CASE RowsDone
  <2>1. /\ p = "cont" /\ n = 0 /\ b = 1 /\ v \in Int
        /\ b \in DOMAIN L(n) => v = ContFirst(L(n)[b])
    BY <1>2, <1>4, <1>9, <1>12 DEF RowsDone
  <2>2. ASSUME NEW d \in Ops, NEW a \in DOMAIN L(d)
        PROVE  ~ContsOver(p, n, b, d, a)
    <3>1. a \in Nat /\ a >= 1 /\ d \in Nat
      BY <1>2, <1>3
    <3>. QED
      BY <2>1, <3>1 DEF ContsOver, Passed
  <2>3. ASSUME b \in DOMAIN L(n)
        PROVE  HopsUntil(cs, L(n)[b], v)
    <3>1. v = ContFirst(L(n)[b]) /\ v .. v - 1 = {}
      BY <2>1, <2>3
    <3>. QED
      BY <3>1 DEF HopsUntil
  <2>. QED
    BY <2>1, <2>2, <2>3 DEF ContsOK
<1>13. CASE ContsDone
  <2>1. pc = "cont" /\ at \notin DOMAIN L(node) /\ node + 1 \notin Ops
    BY <1>13 DEF ContsDone, Over
  <2>2. p = "solve" /\ n = node /\ v = i /\ cs = conts
    BY <1>4, <1>13 DEF ContsDone
  <2>3. ASSUME NEW d \in Ops, NEW a \in DOMAIN L(d)
        PROVE  ContsOver(pc, node, at, d, a)
    <3>1. a \in Nat /\ d \in Int /\ (d < node \/ d = node)
      BY <1>2, <1>3, <2>1
    <3>2. d = node => a < at
      BY <1>2, <1>3, <2>1
    <3>. QED
      BY <3>1, <3>2 DEF ContsOver, Passed
  <2>4. ContsGoOn(pc, node, at, i, p, n, b, conts)
    BY <2>3 DEF ContsGoOn
  <2>5. ContsOK(pc, node, at, i, conts)
    BY <2>1 DEF ContsInv
  <2>. QED
    BY <1>0, <1>2, <2>2, <2>4, <2>5, ContsKept
<1>14. CASE Pick \/ NotSolved \/ Solved
  BY <1>2, <1>4, <1>7, <1>14 DEF Pick, NotSolved, Solved
<1>15. CASE RowStep
  BY <1>4, <1>5, <1>15 DEF RowStep, Running
<1>16. CASE RowLoopEnds \/ RowsNextOp
  BY <1>2, <1>5, <1>9, <1>16 DEF RowLoopEnds, RowsNextOp
<1>17. CASE RowsDiverge \/ ContDiverge
  BY <1>4, <1>5, <1>17 DEF RowsDiverge, ContDiverge
<1>18. CASE UNCHANGED vars
  BY <1>6, <1>18 DEF vars
<1>. QED
  BY <1>8, <1>10, <1>11, <1>12, <1>13, <1>14, <1>15, <1>16, <1>17, <1>18 DEF Next
-----------------------------------------------------------------------------
LEMMA SameRows ==
    ASSUME rows' = rows
    PROVE  /\ \A s : Exclusive(s)' = Exclusive(s) /\ Consistent(s)' = Consistent(s)
           /\ conts' = conts => \A s : Continued(s)' = Continued(s)
<1>1. \A d, t : FirstSource(d, t)' = FirstSource(d, t)
  BY DEF FirstSource, Sources, Into
<1>2. \A k : Counts(k)' = Counts(k)
  BY <1>1 DEF Counts
<1>3. \A s : Exclusive(s)' = Exclusive(s)
  BY <1>2 DEF Exclusive, Lands
<1>4. \A d, t : Sources(d, t)' = Sources(d, t)
  BY DEF Sources, Into
<1>5. \A s, d, t : Into(s, d, t)' = Into(s, d, t)
  BY DEF Into
<1>6. \A s, d, e, m : Count(s, d, e, m)' = Count(s, d, e, m)
  BY <1>5 DEF Count, Lands
<1>7. \A s : Consistent(s)' = Consistent(s)
  BY <1>4, <1>6 DEF Consistent, Lands
<1>8. conts' = conts => \A s : Continued(s)' = Continued(s)
  BY DEF Continued, Lands, Leaves
<1>. QED
  BY <1>3, <1>7, <1>8

LEMMA SameSolution ==
    ASSUME rows' = rows, sol' = sol
    PROVE  /\ Exclusive(sol)' = Exclusive(sol) /\ Consistent(sol)' = Consistent(sol)
           /\ conts' = conts => Continued(sol)' = Continued(sol)
<1>. PICK s : s = sol
  OBVIOUS
<1>1. /\ Exclusive(sol)' = Exclusive(s)' /\ Consistent(sol)' = Consistent(s)'
      /\ Continued(sol)' = Continued(s)'
  OBVIOUS
<1>. QED
  BY <1>1, SameRows

(* The rows stand when the solver starts, so Exclusive only speaks of the  *)
(* picks.                                                                  *)
LEMMA SolStep ==
    ASSUME ControlInv, SolInv, [Next]_vars
    PROVE  SolInv'
<1>0. problem' = problem /\ problem \in Problems
  BY DEF vars, Next, RowStep, RowLoopEnds, RowsNextOp, RowsDone, ContStep, ContLoopEnds,
         ContsNextOp, ContsDone, RowsDiverge, ContDiverge, Pick, NotSolved, Solved, ControlInv
<1>1. mrrg' = mrrg /\ \A r : Candidates(r)' = Candidates(r)
  BY <1>0, SameProblem
<1>2. rows \in Seq(RowType) /\ Len(rows) \in Nat /\ sol \in Seq(mrrg)
  BY DEF ControlInv, SolInv
<1>3. CASE pc \in {"rows", "cont"} /\ sol' = sol
  <2>1. sol' = <<>> /\ DOMAIN sol' = {}
    BY <1>3 DEF SolInv
  <2>2. Len(rows') \in Nat
    <3>1. rows' \in Seq(RowType')
      BY ControlStep DEF ControlInv
    <3>. QED
      BY <3>1
  <2>. QED
    BY <2>1, <2>2 DEF SolInv, Exclusive
<1>4. CASE UNCHANGED <<rows, sol>> /\ (pc' \in {"rows", "cont"} => sol = <<>>)
  <2>1. Exclusive(sol)'
    BY <1>4, SameSolution DEF SolInv
  <2>. QED
    BY <1>1, <1>4, <2>1 DEF SolInv
<1>5. CASE Pick
  <2>1. Exclusive(sol)'
    <3>1. PICK s : s = sol'
      OBVIOUS
    <3>2. Exclusive(sol)' = Exclusive(s)' /\ Exclusive(s)' = Exclusive(s) /\ Exclusive(s)
      BY <1>5, <3>1, SameRows DEF Pick
    <3>. QED
      BY <3>2
  <2>2. PICK e \in Candidates(rows[Len(sol) + 1]) : sol' = Append(sol, e)
    BY <1>5 DEF Pick
  <2>3. e \in mrrg /\ Len(sol) < Len(rows) /\ rows' = rows /\ pc' = "solve"
    BY <1>5, <2>2 DEF Pick, Candidates, getEdgesOfT
  <2>4. sol' \in Seq(mrrg) /\ Len(sol') = Len(sol) + 1 /\ Len(sol') <= Len(rows)
    BY <1>2, <2>2, <2>3
  <2>5. \A k \in DOMAIN sol' : sol'[k] \in Candidates(rows[k])
    BY <1>2, <2>2, <2>4 DEF SolInv
  <2>. QED
    BY <1>1, <2>1, <2>3, <2>4, <2>5 DEF SolInv
<1>6. CASE RowStep \/ RowLoopEnds \/ RowsNextOp \/ RowsDone
  BY <1>3, <1>6 DEF RowStep, RowLoopEnds, RowsNextOp, RowsDone, Running, Over
<1>7. CASE ContStep \/ ContLoopEnds \/ ContsNextOp \/ ContsDone
  BY <1>3, <1>7 DEF ContStep, ContLoopEnds, ContsNextOp, ContsDone, Running, Over
<1>8. CASE RowsDiverge \/ ContDiverge \/ NotSolved \/ Solved
  BY <1>4, <1>8 DEF RowsDiverge, ContDiverge, NotSolved, Solved
<1>9. CASE UNCHANGED vars
  BY <1>4, <1>9 DEF vars, SolInv
<1>. QED
  BY <1>5, <1>6, <1>7, <1>8, <1>9 DEF Next

LEMMA MappingStep ==
    ASSUME ControlInv, MappingInv, [Next]_vars
    PROVE  MappingInv'
<1>1. CASE UNCHANGED <<rows, conts, sol, mapping, problem>> /\ (mapping # <<>> => pc' = pc)
  <2>1. Continued(sol)' = Continued(sol) /\ Consistent(sol)' = Consistent(sol)
    BY <1>1, SameSolution
  <2>2. \A key : RouteOf(key)' = RouteOf(key)
    BY <1>1 DEF RouteOf
  <2>. QED
    BY <1>1, <2>1, <2>2 DEF MappingInv
<1>2. CASE mapping = <<>> /\ mapping' = <<>>
  BY <1>2 DEF MappingInv
<1>3. CASE Solved
  <2>1. UNCHANGED <<problem, rows, conts, sol>> /\ pc' = "done" /\ Len(sol) = Len(rows)
    BY <1>3 DEF Solved
  <2>2. Continued(sol)' /\ Consistent(sol)'
    BY <1>3, <2>1, SameSolution DEF Solved
  <2>3. \A key : RouteOf(key)' = RouteOf(key)
    BY <2>1 DEF RouteOf
  <2>. QED
    BY <1>3, <2>1, <2>2, <2>3 DEF MappingInv, Solved
<1>4. CASE ~Solved /\ UNCHANGED mapping
  <2>1. CASE mapping = <<>>
    BY <1>2, <1>4, <2>1
  <2>2. CASE mapping # <<>>
    <3>1. pc = "done"
      BY <2>2 DEF MappingInv
    <3>2. UNCHANGED vars
      BY <1>4, <3>1 DEF Next, RowStep, RowLoopEnds, RowsNextOp, RowsDone, ContStep, ContLoopEnds,
         ContsNextOp, ContsDone, RowsDiverge, ContDiverge, Pick, NotSolved, Running, Over
    <3>. QED
      BY <1>1, <3>2 DEF vars
  <2>. QED
    BY <2>1, <2>2
<1>. QED
  BY <1>3, <1>4 DEF vars, Next, RowStep, RowLoopEnds, RowsNextOp, RowsDone, ContStep,
     ContLoopEnds, ContsNextOp, ContsDone, RowsDiverge, ContDiverge, Pick, NotSolved

(* The inductive invariant of mapII: the rows and constraints written so   *)
(* far are those of the loops up to here, the picks keep to them, and a    *)
(* mapping is what a full solution says.                                   *)
THEOREM Invariant == Spec => []IInv
<1>1. IInv /\ [Next]_vars => IInv'
  BY ControlStep, RowsStep, ContsStep, SolStep, MappingStep DEF IInv
<1>. QED
  BY <1>1, InitHolds, PTL DEF Spec

(* TypeOK on every run of mapII, for every problem. *)
THEOREM TypesHold == Spec => []TypeOK
<1>1. IInv => TypeOK
  <2>. SUFFICES ASSUME IInv PROVE TypeOK
    OBVIOUS
  <2>1. rows \in Seq(RowType) /\ sol \in Seq(mrrg)
    BY DEF IInv, ControlInv, SolInv
  <2>2. \A k \in DOMAIN rows : rows[k] \in RowType
    BY <2>1
  <2>3. \A k \in DOMAIN sol : sol[k] \in mrrg
    BY <2>1
  <2>4. DOMAIN mapping \subseteq (Ops \cup {Root}) \X Ops
    <3>1. CASE mapping = <<>>
      BY <3>1
    <3>2. CASE mapping # <<>>
      <4>1. DOMAIN mapping = {<<rows[k].ds, rows[k].dd>> : k \in DOMAIN rows}
        BY <3>2 DEF IInv, MappingInv
      <4>. QED
        BY <2>2, <4>1 DEF RowType
    <3>. QED
      BY <3>1, <3>2
  <2>. QED
    BY <2>2, <2>3, <2>4 DEF TypeOK, IInv, ControlInv, SolInv, RowType
<1>. QED
  BY <1>1, Invariant, PTL
-----------------------------------------------------------------------------
(* A loop whose bounds are in order does not run past its end. *)
THEOREM LoopsEnd == Spec => [](Covered => pc # "diverged")
<1>. DEFINE InBounds == Covered =>
                /\ pc # "diverged"
                /\ \A phase \in {"rows", "cont"} : Running(phase) =>
                      i <= Last(phase, node, Loops(phase, node)[at])
<1>1. ASSUME problem \in Problems, Covered, NEW phase \in {"rows", "cont"}, NEW d \in Ops,
             NEW a \in DOMAIN Loops(phase, d)
      PROVE  First(phase, d, Loops(phase, d)[a]) <= Last(phase, d, Loops(phase, d)[a])
  <2>. DEFINE j == Loops(phase, d)[a]
  <2>1. ASSUME NEW k \in DOMAIN edges
        PROVE  /\ RowFirst(edges[k][2], k) < RowLast(edges[k][2], k)
               /\ ContLast(k) = RowLast(edges[k][2], k)
               /\ ContFirst(k) = RowFirst(edges[k][2], k) + 1
               /\ RowFirst(edges[k][2], k) \in Int /\ RowLast(edges[k][2], k) \in Int
    <3>1. /\ RowFirst(edges[k][2], k) \in Int /\ RowLast(edges[k][2], k) \in Int
      BY <1>1, InputFacts DEF RowFirst, RowLast
    <3>2. RowLast(edges[k][2], k) - RowFirst(edges[k][2], k) > 0
      BY <1>1 DEF Covered, Span
    <3>3. Recurrent(k) <=> isAnti(edges[k])
      BY <1>1, InputFacts DEF Covered, Recurrent
    <3>. QED
      BY <1>1, <3>1, <3>2, <3>3, InputFacts DEF RowFirst, RowLast, ContFirst, ContLast
  <2>2. CASE phase = "rows"
    <3>1. j = RootEdge \/ (j \in DOMAIN edges /\ edges[j][2] = d)
      BY <1>1, <2>2, RowLoops
    <3>2. CASE j = RootEdge
      <4>1. RowFirst(d, j) = Cycle(d) - 1 /\ RowLast(d, j) = Cycle(d) /\ Cycle(d) \in Nat
        BY <1>1, <3>2, InputFacts DEF RowFirst, RowLast, Recurrent
      <4>. QED
        BY <2>2, <4>1 DEF First, Last
    <3>3. CASE j \in DOMAIN edges /\ edges[j][2] = d
      BY <2>1, <2>2, <3>3 DEF First, Last
    <3>. QED
      BY <3>1, <3>2, <3>3
  <2>3. CASE phase = "cont"
    <3>1. j \in DOMAIN edges
      BY <1>1, <2>3, ContLoops
    <3>. HIDE DEF j
    <3>2. ContFirst(j) <= ContLast(j)
      BY <2>1, <3>1
    <3>. QED
      BY <2>3, <3>2 DEF First, Last, j
  <2>. QED
    BY <2>2, <2>3
<1>2. ASSUME problem \in Problems, node \in Ops, i \in Int, [Next]_vars, InBounds
      PROVE  InBounds'
  <2>0. problem' = problem
    BY <1>2 DEF vars, Next, RowStep, RowLoopEnds, RowsNextOp, RowsDone, ContStep,
           ContLoopEnds, ContsNextOp, ContsDone, RowsDiverge, ContDiverge, Pick, NotSolved, Solved
  <2>1. /\ \A p, d : Loops(p, d)' = Loops(p, d)
        /\ \A p, d, j : Last(p, d, j)' = Last(p, d, j)
    BY <2>0, SameProblem
  <2>2. Covered' = Covered
    <3>1. \A j : Span(j)' = Span(j)
      BY <2>0, SameProblem DEF Span
    <3>. QED
      BY <2>0, <3>1 DEF Covered, edges
  <2>. SUFFICES ASSUME Covered
       PROVE  /\ pc' # "diverged"
              /\ \A phase \in {"rows", "cont"} : Running(phase)' =>
                    i' <= Last(phase, node', Loops(phase, node')[at'])
    BY <2>1, <2>2
  <2>3. ASSUME NEW phase \in {"rows", "cont"}, NEW d \in Ops, NEW a, Enter(phase, d, a)
        PROVE  /\ pc' # "diverged"
               /\ \A p \in {"rows", "cont"} : Running(p)' =>
                    i' <= Last(p, node', Loops(p, node')[at'])
    <3>1. /\ pc' = phase /\ node' = d /\ at' = a
          /\ a \in DOMAIN Loops(phase, d) => i' = First(phase, d, Loops(phase, d)[a])
      BY <1>2, <2>0, <2>3, EnterFacts
    <3>2. a \in DOMAIN Loops(phase, d) =>
            First(phase, d, Loops(phase, d)[a]) <= Last(phase, d, Loops(phase, d)[a])
      BY <1>1, <1>2
    <3>. QED
      BY <2>1, <3>1, <3>2 DEF Running
  <2>4. pc # "diverged"
    BY <1>2
  <2>5. ASSUME NEW phase \in {"rows", "cont"}, Running(phase), i < last,
               i' = i + 1, UNCHANGED <<pc, node, at>>
        PROVE  /\ pc' # "diverged"
               /\ \A p \in {"rows", "cont"} : Running(p)' =>
                    i' <= Last(p, node', Loops(p, node')[at'])
    <3>1. pc = phase /\ last = Last(phase, node, Loops(phase, node)[at])
      BY <2>5 DEF Running, last, edge
    <3>2. last \in Int
      BY <1>2, <2>5, <3>1, LoopBounds DEF Running, Last
    <3>3. i + 1 <= last
      BY <1>2, <2>5, <3>2
    <3>. QED
      BY <2>1, <2>5, <3>1, <3>3 DEF Running
  <2>6. CASE RowStep
    BY <2>5, <2>6 DEF RowStep
  <2>7. CASE ContStep
    BY <2>5, <2>7 DEF ContStep
  <2>8. CASE RowLoopEnds
    BY <1>2, <2>3, <2>8 DEF RowLoopEnds
  <2>9. CASE RowsNextOp
    BY <2>3, <2>9 DEF RowsNextOp
  <2>10. CASE RowsDone
    <3>1. 0 \in Ops
      BY <1>2, InputFacts
    <3>. QED
      BY <2>3, <2>10, <3>1 DEF RowsDone
  <2>11. CASE ContLoopEnds
    BY <1>2, <2>3, <2>11 DEF ContLoopEnds
  <2>12. CASE ContsNextOp
    BY <2>3, <2>12 DEF ContsNextOp
  <2>13. CASE ContsDone \/ Pick \/ NotSolved \/ Solved
    BY <2>13 DEF ContsDone, Pick, NotSolved, Solved, Running
  <2>14. CASE RowsDiverge \/ ContDiverge
    <3>1. PICK phase \in {"rows", "cont"} : Running(phase) /\ i > last
      BY <2>14 DEF RowsDiverge, ContDiverge
    <3>2. i <= last
      BY <1>2, <3>1 DEF Running, last, edge
    <3>3. last \in Int
      BY <1>2, <3>1, LoopBounds DEF Running, Last, last, edge
    <3>. QED
      BY <1>2, <3>1, <3>2, <3>3
  <2>15. CASE UNCHANGED vars
    BY <1>2, <2>1, <2>15 DEF vars, Running
  <2>. QED
    BY <1>2, <2>6, <2>7, <2>8, <2>9, <2>10, <2>11, <2>12, <2>13, <2>14, <2>15 DEF Next
<1>3. Init => InBounds
  <2>. SUFFICES ASSUME Init, Covered PROVE InBounds
    OBVIOUS
  <2>1. problem \in Problems /\ 0 \in Ops
    BY InputFacts DEF Init
  <2>2. 1 \in DOMAIN Loops("rows", 0)
    BY <2>1, RowLoops
  <2>3. First("rows", 0, Loops("rows", 0)[1]) <= Last("rows", 0, Loops("rows", 0)[1])
    BY <1>1, <2>1, <2>2
  <2>. QED
    BY <2>3 DEF Init, Running
<1>4. IInv => problem \in Problems /\ node \in Ops /\ i \in Int
  BY DEF IInv, ControlInv
<1>5. InBounds => (Covered => pc # "diverged")
  OBVIOUS
<1>. HIDE DEF InBounds
<1>6. IInv /\ InBounds /\ [Next]_vars => InBounds'
  BY <1>2, <1>4
<1>. QED
  BY <1>3, <1>5, <1>6, Invariant, PTL DEF Spec
-----------------------------------------------------------------------------
(* What has been written when a mapping is read off the solution: a row    *)
(* for every turn of every loop, once, and every continuation constraint.  *)
Key(k) == <<rows[k].ds, rows[k].dd>>

RowsFull ==
    /\ Len(rows) \in Nat /\ DOMAIN rows = 1 .. Len(rows)
    /\ \A k \in DOMAIN rows : /\ rows[k] = Row(rows[k].edge, rows[k].dd, rows[k].i)
                              /\ rows[k].dd \in Ops /\ rows[k].ds \in -1 .. problem.n - 1
                              /\ rows[k].i \in Int /\ rows[k].to \in Nat
                              /\ RowFirst(rows[k].dd, rows[k].edge) <= rows[k].i
                              /\ rows[k].i < RowLast(rows[k].dd, rows[k].edge)
                              /\ rows[k].ds = SrcOf(rows[k].edge)
                              /\ \/ rows[k].edge = RootEdge
                                 \/ /\ rows[k].edge \in DOMAIN edges
                                    /\ edges[rows[k].edge] = Key(k)
    /\ \A j \in DOMAIN edges : \A t \in RowFirst(edges[j][2], j) .. RowLast(edges[j][2], j) - 1 :
          \E k \in DOMAIN rows : rows[k] = Row(j, edges[j][2], t)
    /\ \A d \in Ops : \A a \in DOMAIN InEdges(d) :
          \E k \in DOMAIN rows : rows[k] = Row(InEdges(d)[a], d, Cycle(d) - 1)
    /\ \A k, l \in DOMAIN rows :
          k < l /\ rows[k].edge = rows[l].edge /\ rows[k].dd = rows[l].dd => rows[k].i < rows[l].i

ContsFull ==
    \A j \in DOMAIN edges :
        /\ ContFirst(j) <= ContLast(j) /\ OwnCont(j) \in conts
        /\ \A t \in ContFirst(j) .. ContLast(j) - 1 : HopCont(j, t) \in conts

LEMMA ContLastBound ==
    ASSUME problem \in Problems, NEW j \in DOMAIN edges
    PROVE  /\ ContFirst(j) = RowFirst(edges[j][2], j) + 1 /\ RowFirst(edges[j][2], j) \in Nat
           /\ RowLast(edges[j][2], j) \in Nat /\ ContLast(j) \in Nat
           /\ ContLast(j) <= RowLast(edges[j][2], j)
           /\ j \notin problem.ctrl \/ isAnti(edges[j]) => ContLast(j) = RowLast(edges[j][2], j)
           /\ RowFirst(edges[j][2], j) = Cycle(edges[j][1])
           /\ RowLast(edges[j][2], j) \in {Cycle(edges[j][2]), Cycle(edges[j][2]) + II}
           /\ RowLast(edges[j][2], j) % II = Cycle(edges[j][2]) % II
           /\ ~Recurrent(j) => RowLast(edges[j][2], j) = Cycle(edges[j][2])
<1>1. /\ j # RootEdge /\ Cycle(edges[j][1]) \in Nat /\ Cycle(edges[j][2]) \in Nat
      /\ II \in Nat \ {0}
  BY InputFacts
<1>2. /\ RowFirst(edges[j][2], j) = Cycle(edges[j][1])
      /\ ContFirst(j) = Cycle(edges[j][1]) + 1
      /\ RowLast(edges[j][2], j) = Cycle(edges[j][2]) + (IF Recurrent(j) THEN II ELSE 0)
      /\ ContLast(j) = Cycle(edges[j][2]) + (IF isAnti(edges[j]) THEN II ELSE 0)
  BY <1>1 DEF RowFirst, RowLast, ContFirst, ContLast
<1>3. isAnti(edges[j]) => Recurrent(j)
  BY <1>1 DEF Recurrent
<1>4. j \notin problem.ctrl /\ Recurrent(j) => isAnti(edges[j])
  BY DEF Recurrent
<1>5. (Cycle(edges[j][2]) + II) % II = Cycle(edges[j][2]) % II
  BY <1>1, NextRound
<1>6. RowLast(edges[j][2], j) % II = Cycle(edges[j][2]) % II
  <2>1. CASE Recurrent(j)
    BY <1>2, <1>5, <2>1
  <2>2. CASE ~Recurrent(j)
    BY <1>1, <1>2, <2>2
  <2>. QED
    BY <2>1, <2>2
<1>. QED
  BY <1>1, <1>2, <1>3, <1>4, <1>6

LEMMA WrittenInFull ==
    ASSUME IInv, pc = "done", Len(rows) \in Nat
    PROVE  RowsFull /\ ContsFull
<1>1. /\ problem \in Problems /\ RowsOK(pc, node, at, i, rows) /\ ContsOK(pc, node, at, i, conts)
      /\ rows \in Seq(RowType)
  BY DEF IInv, ControlInv, RowsInv, ContsInv
<1>2. /\ \A d, a : RowsOver(pc, node, at, d, a) /\ ContsOver(pc, node, at, d, a)
  BY DEF RowsOver, ContsOver
<1>3. ContsFull
  <2>. SUFFICES ASSUME NEW j \in DOMAIN edges
       PROVE  /\ ContFirst(j) <= ContLast(j) /\ OwnCont(j) \in conts
              /\ HopsUntil(conts, j, ContLast(j))
    BY DEF ContsFull, HopsUntil
  <2>1. PICK d \in Ops : d = edges[j][1]
    BY <1>1, InputFacts
  <2>2. PICK a \in DOMAIN Loops("cont", d) : Loops("cont", d)[a] = j
    BY <1>1, <2>1, ContLoops
  <2>. QED
    BY <1>1, <1>2, <2>2 DEF ContsOK
<1>4. \A d \in Ops : \A a \in DOMAIN Loops("rows", d) :
          RowsUntil(rows, d, Loops("rows", d)[a], RowLast(d, Loops("rows", d)[a]))
  BY <1>1, <1>2 DEF RowsOK, LoopsWriteRows
<1>5. ASSUME NEW j \in DOMAIN edges
      PROVE  RowsUntil(rows, edges[j][2], j, RowLast(edges[j][2], j))
  <2>1. PICK d \in Ops : d = edges[j][2]
    BY <1>1, InputFacts
  <2>2. PICK a \in DOMAIN Loops("rows", d) : Loops("rows", d)[a] = j
    BY <1>1, <2>1, RowLoops
  <2>. QED
    BY <1>4, <2>1, <2>2
<1>6. ASSUME NEW d \in Ops, NEW a \in DOMAIN InEdges(d)
      PROVE  \E k \in DOMAIN rows : rows[k] = Row(InEdges(d)[a], d, Cycle(d) - 1)
  <2>. DEFINE j == InEdges(d)[a]
  <2>1. /\ a \in DOMAIN Loops("rows", d) /\ Loops("rows", d)[a] = j
        /\ ~Recurrent(j) /\ (j = RootEdge \/ (j \in DOMAIN edges /\ edges[j][2] = d))
    BY <1>1, RowLoops
  <2>. HIDE DEF j
  <2>2. RowLast(d, j) = Cycle(d) /\ Cycle(d) \in Nat
    BY <1>1, <2>1, InputFacts DEF RowLast
  <2>3. RowFirst(d, j) <= Cycle(d) - 1 /\ RowFirst(d, j) \in Int
    <3>1. CASE j = RootEdge
      BY <2>2, <3>1 DEF RowFirst
    <3>2. CASE j \in DOMAIN edges /\ edges[j][2] = d
      <4>1. ContFirst(j) <= ContLast(j)
        BY <1>3, <3>2 DEF ContsFull
      <4>. QED
        BY <1>1, <2>2, <3>2, <4>1, ContLastBound
    <3>. QED
      BY <2>1, <3>1, <3>2
  <2>4. RowsUntil(rows, d, j, RowLast(d, j))
    BY <1>4, <2>1
  <2>. QED
    BY <2>2, <2>3, <2>4 DEF RowsUntil, j
<1>7. ASSUME NEW k \in DOMAIN rows
      PROVE  /\ rows[k] = Row(rows[k].edge, rows[k].dd, rows[k].i)
             /\ rows[k].dd \in Ops /\ rows[k].ds \in -1 .. problem.n - 1
             /\ rows[k].i \in Int /\ rows[k].to \in Nat
             /\ RowFirst(rows[k].dd, rows[k].edge) <= rows[k].i
             /\ rows[k].i < RowLast(rows[k].dd, rows[k].edge)
             /\ rows[k].ds = SrcOf(rows[k].edge)
             /\ \/ rows[k].edge = RootEdge
                \/ rows[k].edge \in DOMAIN edges /\ edges[rows[k].edge] = Key(k)
  <2>1. rows[k] \in RowType
    BY <1>1
  <2>2. /\ rows[k].dd \in Ops /\ rows[k].ds \in Ops \cup {Root}
        /\ rows[k].i \in Int /\ rows[k].to \in 0 .. II - 1
    BY <2>1 DEF RowType
  <2>3. rows[k].ds \in -1 .. problem.n - 1 /\ rows[k].to \in Nat
    BY <1>1, <2>2, InputFacts DEF Root
  <2>4. /\ rows[k] = Row(rows[k].edge, rows[k].dd, rows[k].i)
        /\ RowFirst(rows[k].dd, rows[k].edge) <= rows[k].i
        /\ rows[k].i < RowLast(rows[k].dd, rows[k].edge)
        /\ \E a \in DOMAIN Loops("rows", rows[k].dd) : Loops("rows", rows[k].dd)[a] = rows[k].edge
    BY <1>1 DEF RowsOK, RowsOfLoops
  <2>5. rows[k].ds = SrcOf(rows[k].edge)
    BY <2>4 DEF Row
  <2>6. \/ rows[k].edge = RootEdge
        \/ rows[k].edge \in DOMAIN edges /\ edges[rows[k].edge][2] = rows[k].dd
    BY <1>1, <2>2, <2>4, RowLoops
  <2>7. ASSUME rows[k].edge \in DOMAIN edges, edges[rows[k].edge][2] = rows[k].dd
        PROVE  edges[rows[k].edge] = Key(k)
    BY <1>1, <2>5, <2>7, InputFacts DEF Key, SrcOf
  <2>. QED
    BY <2>2, <2>3, <2>4, <2>5, <2>6, <2>7
<1>8. RowsInTurn(rows)
  BY <1>1 DEF RowsOK
<1>9. DOMAIN rows = 1 .. Len(rows)
  BY <1>1
<1>10. RowsFull
  BY <1>5, <1>6, <1>7, <1>8, <1>9 DEF RowsFull, RowsUntil, RowsInTurn
<1>. QED
  BY <1>3, <1>10
-----------------------------------------------------------------------------
(* What a full solution says, row by row. *)
LEMMA MinimumExists ==
    ASSUME NEW n \in Nat, NEW S \in SUBSET (-1 .. n), S # {}
    PROVE  \E x \in S : \A y \in S : x <= y
<1>. DEFINE T == {x + 2 : x \in S}
<1>1. T \in SUBSET (1 .. n + 2) /\ n + 2 \in Nat /\ \A x \in T : x \in Int
  OBVIOUS
<1>2. PICK x \in S : TRUE
  OBVIOUS
<1>3. x + 2 \in T
  OBVIOUS
<1>4. \A u \in T : u - 2 \in S
  OBVIOUS
<1>5. \A y \in S : y + 2 \in T
  OBVIOUS
<1>. HIDE DEF T
<1>6. /\ Cardinality(T) \in Nat
      /\ \A j \in 1 .. Cardinality(T) : InOrder(T)[j] \in T
      /\ \A k \in T : \E j \in 1 .. Cardinality(T) : InOrder(T)[j] = k
      /\ \A j, k \in 1 .. Cardinality(T) : j < k => InOrder(T)[j] < InOrder(T)[k]
  BY <1>1, InOrderLists
<1>7. 1 \in 1 .. Cardinality(T)
  BY <1>3, <1>6
<1>. DEFINE u == InOrder(T)[1]
<1>8. u \in T
  BY <1>6, <1>7
<1>9. ASSUME NEW y \in T PROVE u <= y
  <2>1. PICK j \in 1 .. Cardinality(T) : InOrder(T)[j] = y
    BY <1>6
  <2>2. CASE j = 1
    BY <1>1, <1>8, <2>1, <2>2
  <2>3. CASE j # 1
    <3>1. 1 < j
      BY <1>6, <2>3
    <3>2. u < InOrder(T)[j]
      BY <1>6, <1>7, <3>1
    <3>3. u \in Int /\ y \in Int
      BY <1>1, <1>8, <1>9
    <3>. QED
      BY <2>1, <3>2, <3>3
  <2>. QED
    BY <2>2, <2>3
<1>. HIDE DEF u
<1>10. \A y \in S : u - 2 <= y
  <2>1. TAKE y \in S
  <2>2. u <= y + 2
    BY <1>5, <1>9
  <2>. QED
    BY <1>1, <1>8, <2>2
<1>. QED
  BY <1>4, <1>8, <1>10

LEMMA FirstSourceFacts ==
    ASSUME RowsFull, NEW k \in DOMAIN rows, problem.n \in Nat
    PROVE  /\ rows[k].ds \in Sources(rows[k].dd, rows[k].to)
           /\ FirstSource(rows[k].dd, rows[k].to) \in Sources(rows[k].dd, rows[k].to)
<1>. DEFINE S == Sources(rows[k].dd, rows[k].to)
<1>1. rows[k].ds \in S
  BY DEF Sources, Into
<1>2. S \in SUBSET (-1 .. problem.n)
  BY DEF Sources, Into, RowsFull
<1>. HIDE DEF S
<1>3. \E x \in S : \A y \in S : x <= y
  BY <1>1, <1>2, MinimumExists
<1>. QED
  BY <1>1, <1>3 DEF FirstSource, S

(* The rows of one source and operation that land on a node. *)
On(ds, dd, m) == {k \in Into(sol, dd, TimeOf(m)) : rows[k].ds = ds /\ Lands(sol, k) = m}

LEMMA CountFacts ==
    ASSUME NEW ds, NEW dd, NEW m, Len(rows) \in Nat, DOMAIN sol = 1 .. Len(rows)
    PROVE  /\ IsFiniteSet(On(ds, dd, m)) /\ Count(sol, ds, dd, m) \in Nat
           /\ Count(sol, ds, dd, m) = Cardinality(On(ds, dd, m))
           /\ Count(sol, ds, dd, m) = 0 <=> On(ds, dd, m) = {}
           /\ Count(sol, ds, dd, m) = 1 <=> \E k : On(ds, dd, m) = {k}
<1>1. On(ds, dd, m) \in SUBSET (1 .. Len(rows))
  BY DEF On, Into
<1>2. IsFiniteSet(1 .. Len(rows))
  BY FS_Interval
<1>3. IsFiniteSet(On(ds, dd, m))
  BY <1>1, <1>2, FS_Subset
<1>4. Count(sol, ds, dd, m) = Cardinality(On(ds, dd, m))
  BY DEF Count, On
<1>. QED
  BY <1>3, <1>4, FS_CardinalityType, FS_EmptySet, FS_Singleton

Picked ==
    /\ DOMAIN sol = 1 .. Len(rows)
    /\ \A k \in DOMAIN rows : /\ sol[k] \in mrrg /\ TimeOf(Leaves(sol, k)) = rows[k].from
                              /\ TimeOf(Lands(sol, k)) = rows[k].to

(* Where a row lands, every other source that lands at the same time does. *)
LEMMA Together ==
    ASSUME RowsFull, Picked, Consistent(sol), NEW k \in DOMAIN rows,
           NEW ds \in Sources(rows[k].dd, rows[k].to)
    PROVE  \E l \in DOMAIN rows : /\ rows[l].ds = ds /\ rows[l].dd = rows[k].dd
                                  /\ rows[l].to = rows[k].to /\ Lands(sol, l) = Lands(sol, k)
<1>. DEFINE m == Lands(sol, k)
            dd == rows[k].dd
<1>1. DOMAIN sol = 1 .. Len(rows) /\ DOMAIN rows = 1 .. Len(rows) /\ Len(rows) \in Nat
      /\ TimeOf(m) = rows[k].to
  BY DEF RowsFull, Picked
<1>2. k \in On(rows[k].ds, dd, m)
  BY <1>1 DEF On, Into
<1>3. Count(sol, ds, dd, m) = Count(sol, rows[k].ds, dd, m)
  BY <1>1 DEF Consistent
<1>4. Count(sol, rows[k].ds, dd, m) # 0
  BY <1>1, <1>2, CountFacts
<1>5. On(ds, dd, m) # {}
  BY <1>1, <1>3, <1>4, CountFacts
<1>. QED
  BY <1>1, <1>5 DEF On, Into

(* A node is landed on for one operation, and for each of its sources by   *)
(* one row.                                                                *)
LEMMA OneLanding ==
    ASSUME RowsFull, Picked, Consistent(sol), Exclusive(sol), problem.n \in Nat,
           NEW k \in DOMAIN rows, NEW l \in DOMAIN rows, Lands(sol, k) = Lands(sol, l)
    PROVE  /\ rows[k].dd = rows[l].dd
           /\ rows[k].ds = rows[l].ds => k = l
<1>. DEFINE m == Lands(sol, k)
            F(a) == FirstSource(rows[a].dd, rows[a].to)
<1>1. DOMAIN sol = 1 .. Len(rows) /\ DOMAIN rows = 1 .. Len(rows) /\ Len(rows) \in Nat
      /\ TimeOf(m) = rows[k].to /\ rows[k].to = rows[l].to
  BY DEF RowsFull, Picked
<1>2. F(k) \in Sources(rows[k].dd, rows[k].to) /\ F(l) \in Sources(rows[l].dd, rows[l].to)
  BY FirstSourceFacts
<1>3. PICK x \in DOMAIN rows : /\ rows[x].ds = F(k) /\ rows[x].dd = rows[k].dd
                               /\ rows[x].to = rows[k].to /\ Lands(sol, x) = m
  BY <1>2, Together
<1>4. PICK y \in DOMAIN rows : /\ rows[y].ds = F(l) /\ rows[y].dd = rows[l].dd
                               /\ rows[y].to = rows[l].to /\ Lands(sol, y) = m
  BY <1>2, Together
<1>5. Counts(x) /\ Counts(y)
  BY <1>3, <1>4 DEF Counts
<1>6. x = y
  BY <1>1, <1>3, <1>4, <1>5 DEF Exclusive
<1>7. rows[k].dd = rows[l].dd
  BY <1>3, <1>4, <1>6
<1>8. ASSUME rows[k].ds = rows[l].ds PROVE k = l
  <2>. DEFINE dd == rows[k].dd
  <2>1. k \in On(rows[k].ds, dd, m) /\ l \in On(rows[k].ds, dd, m)
    BY <1>1, <1>7, <1>8 DEF On, Into
  <2>2. Count(sol, F(k), dd, m) = Count(sol, rows[k].ds, dd, m)
    BY <1>1, <1>2 DEF Consistent
  <2>3. \A z \in On(F(k), dd, m) : z = x
    <3>. SUFFICES ASSUME NEW z \in On(F(k), dd, m) PROVE z = x
      OBVIOUS
    <3>1. z \in DOMAIN sol /\ rows[z].ds = F(k) /\ rows[z].dd = dd /\ rows[z].to = TimeOf(m)
          /\ Lands(sol, z) = m
      BY DEF On, Into
    <3>2. Counts(z)
      BY <1>1, <3>1 DEF Counts
    <3>. QED
      BY <1>1, <1>3, <1>5, <3>1, <3>2 DEF Exclusive
  <2>4. x \in On(F(k), dd, m)
    BY <1>1, <1>3 DEF On, Into
  <2>5. On(F(k), dd, m) = {x}
    BY <2>3, <2>4
  <2>6. Count(sol, F(k), dd, m) = 1
    BY <1>1, <2>5, CountFacts
  <2>7. PICK z : On(rows[k].ds, dd, m) = {z}
    BY <1>1, <2>2, <2>6, CountFacts
  <2>. QED
    BY <2>1, <2>7
<1>. QED
  BY <1>7, <1>8
-----------------------------------------------------------------------------
(* What is known when a mapping is read off. *)
LeftOwn ==
    \A j \in DOMAIN edges, k \in DOMAIN rows :
        rows[k].dd = edges[j][1] /\ rows[k].to = Cycle(edges[j][1]) % II =>
            \E l \in DOMAIN rows : Key(l) = edges[j] /\ Leaves(sol, l) = Lands(sol, k)
LeftOnTheWay ==
    \A j \in DOMAIN edges : \A t \in ContFirst(j) .. ContLast(j) - 1 : \A k \in DOMAIN rows :
        Key(k) = edges[j] /\ rows[k].to = t % II =>
            \E l \in DOMAIN rows : Key(l) = edges[j] /\ Leaves(sol, l) = Lands(sol, k)

Solution ==
    /\ problem \in Problems /\ RowsFull /\ ContsFull /\ Picked
    /\ Consistent(sol) /\ Exclusive(sol) /\ LeftOwn /\ LeftOnTheWay
    /\ mapping = [key \in {Key(k) : k \in DOMAIN rows} |-> RouteOf(key)]

LEMMA Solves == ASSUME IInv, Mapped PROVE Solution
<1>1. /\ problem \in Problems /\ pc = "done" /\ Len(sol) = Len(rows)
      /\ Consistent(sol) /\ Continued(sol) /\ Exclusive(sol)
      /\ rows \in Seq(RowType) /\ sol \in Seq(mrrg)
      /\ \A k \in DOMAIN sol : sol[k] \in Candidates(rows[k])
      /\ mapping = [key \in {<<rows[k].ds, rows[k].dd>> : k \in DOMAIN rows} |-> RouteOf(key)]
  BY DEF IInv, Mapped, Returned, ControlInv, SolInv, MappingInv
<1>2. Len(rows) \in Nat
  BY <1>1
<1>3. RowsFull /\ ContsFull
  BY <1>1, <1>2, WrittenInFull
<1>4. DOMAIN sol = 1 .. Len(rows) /\ DOMAIN rows = 1 .. Len(rows)
  BY <1>1
<1>5. Picked
  BY <1>1, <1>4 DEF Picked, Candidates, getEdgesOfT, Leaves, Lands
<1>6. \A j \in DOMAIN edges : edges[j] = <<edges[j][1], edges[j][2]>>
  BY <1>1, InputFacts
<1>7. LeftOwn
  <2>. SUFFICES ASSUME NEW j \in DOMAIN edges, NEW k \in DOMAIN rows,
                       rows[k].dd = edges[j][1], rows[k].to = Cycle(edges[j][1]) % II
       PROVE  \E l \in DOMAIN rows : Key(l) = edges[j] /\ Leaves(sol, l) = Lands(sol, k)
    BY DEF LeftOwn
  <2>1. PICK c \in conts : c = OwnCont(j)
    BY <1>3 DEF ContsFull
  <2>2. c.ds = edges[j][1] /\ c.dd = edges[j][2] /\ ~c.hop /\ c.at = Cycle(edges[j][1]) % II
    BY <2>1 DEF OwnCont
  <2>3. PICK l \in DOMAIN sol : rows[l].ds = c.ds /\ rows[l].dd = c.dd
                                /\ Leaves(sol, l) = Lands(sol, k)
    BY <1>1, <1>4, <2>2 DEF Continued
  <2>. QED
    BY <1>4, <1>6, <2>2, <2>3 DEF Key
<1>8. LeftOnTheWay
  <2>. SUFFICES ASSUME NEW j \in DOMAIN edges, NEW t \in ContFirst(j) .. ContLast(j) - 1,
                       NEW k \in DOMAIN rows, Key(k) = edges[j], rows[k].to = t % II
       PROVE  \E l \in DOMAIN rows : Key(l) = edges[j] /\ Leaves(sol, l) = Lands(sol, k)
    BY DEF LeftOnTheWay
  <2>1. PICK c \in conts : c = HopCont(j, t)
    BY <1>3 DEF ContsFull
  <2>2. c.ds = edges[j][1] /\ c.dd = edges[j][2] /\ c.hop /\ c.at = t % II
    BY <2>1 DEF HopCont
  <2>3. rows[k].ds = edges[j][1] /\ rows[k].dd = edges[j][2]
    BY <1>6 DEF Key
  <2>4. PICK l \in DOMAIN sol : rows[l].ds = c.ds /\ rows[l].dd = c.dd
                                /\ Leaves(sol, l) = Lands(sol, k)
    BY <1>1, <1>4, <2>2, <2>3 DEF Continued
  <2>. QED
    BY <1>4, <1>6, <2>2, <2>4 DEF Key
<1>. QED
  BY <1>1, <1>3, <1>5, <1>7, <1>8 DEF Solution, Key

(* The rows of an edge, and of those doubled with it. *)
LEMMA RowsOfEdge ==
    ASSUME Solution, NEW j \in DOMAIN edges, NEW k \in DOMAIN rows, Key(k) = edges[j]
    PROVE  /\ rows[k].edge \in DOMAIN edges /\ edges[rows[k].edge] = edges[j]
           /\ rows[k].dd = edges[j][2] /\ rows[k].ds = edges[j][1]
           /\ rows[k].i \in Nat /\ RowFirst(edges[j][2], j) <= rows[k].i
           /\ rows[k].i < RowLast(edges[j][2], j)
           /\ rows[k].from = rows[k].i % II /\ rows[k].to = (rows[k].i + 1) % II
<1>. DEFINE e == rows[k].edge
            d == edges[j][2]
<1>1. problem \in Problems
  BY DEF Solution
<1>2. /\ rows[k] = Row(e, rows[k].dd, rows[k].i)
      /\ RowFirst(rows[k].dd, e) <= rows[k].i /\ rows[k].i < RowLast(rows[k].dd, e)
      /\ rows[k].ds = SrcOf(e) /\ (e = RootEdge \/ (e \in DOMAIN edges /\ edges[e] = Key(k)))
      /\ rows[k].i \in Int
  BY DEF Solution, RowsFull
<1>3. rows[k].dd = d /\ rows[k].ds = edges[j][1] /\ edges[j][1] \in Ops
  BY <1>1, InputFacts DEF Key
<1>4. e # RootEdge /\ e \in DOMAIN edges /\ edges[e] = edges[j]
  BY <1>1, <1>2, <1>3, InputFacts DEF SrcOf, Root
<1>5. Recurrent(e) <=> Recurrent(j)
  BY <1>1, <1>4, InputFacts DEF Recurrent
<1>6. RowFirst(d, e) = RowFirst(d, j) /\ RowLast(d, e) = RowLast(d, j)
  BY <1>1, <1>4, <1>5, InputFacts DEF RowFirst, RowLast
<1>7. RowFirst(d, j) \in Nat
  BY <1>1, ContLastBound
<1>8. rows[k].from = rows[k].i % II /\ rows[k].to = (rows[k].i + 1) % II
  BY <1>2, <1>4 DEF Row
<1>9. rows[k].i \in Nat
  BY <1>2, <1>3, <1>6, <1>7
<1>. QED
  BY <1>2, <1>3, <1>4, <1>6, <1>8, <1>9

LEMMA RowOfTurn ==
    ASSUME Solution, NEW j \in DOMAIN edges,
           NEW t \in RowFirst(edges[j][2], j) .. RowLast(edges[j][2], j) - 1
    PROVE  \E k \in DOMAIN rows : rows[k].edge = j /\ rows[k].i = t /\ Key(k) = edges[j]
<1>1. problem \in Problems
  BY DEF Solution
<1>2. PICK k \in DOMAIN rows : rows[k] = Row(j, edges[j][2], t)
  BY DEF Solution, RowsFull
<1>3. rows[k].edge = j /\ rows[k].i = t /\ rows[k].ds = edges[j][1] /\ rows[k].dd = edges[j][2]
  BY <1>1, <1>2, InputFacts DEF Row, SrcOf
<1>. QED
  BY <1>1, <1>3, InputFacts DEF Key

LEMMA SameBounds ==
    ASSUME problem \in Problems, NEW j \in DOMAIN edges, NEW l \in DOMAIN edges,
           edges[j] = edges[l]
    PROVE  /\ RowFirst(edges[j][2], j) = RowFirst(edges[l][2], l)
           /\ RowLast(edges[j][2], j) = RowLast(edges[l][2], l)
<1>1. Recurrent(l) <=> Recurrent(j)
  BY InputFacts DEF Recurrent
<1>. QED
  BY <1>1, InputFacts DEF RowFirst, RowLast

LEMMA OneRow ==
    ASSUME Solution, NEW k \in DOMAIN rows, NEW l \in DOMAIN rows,
           rows[k].edge = rows[l].edge, rows[k].dd = rows[l].dd, rows[k].i = rows[l].i
    PROVE  k = l
<1>1. /\ DOMAIN rows = 1 .. Len(rows) /\ Len(rows) \in Nat
      /\ k < l => rows[k].i < rows[l].i
      /\ l < k => rows[l].i < rows[k].i
      /\ rows[k].i \in Int
  BY DEF Solution, RowsFull
<1>. QED
  BY <1>1

LEMMA Landed ==
    ASSUME Solution, NEW k \in DOMAIN rows, NEW l \in DOMAIN rows, Lands(sol, k) = Lands(sol, l)
    PROVE  rows[k].dd = rows[l].dd /\ (rows[k].ds = rows[l].ds => k = l)
<1>1. problem.n \in Nat
  BY InputFacts DEF Solution
<1>. QED
  BY <1>1, OneLanding DEF Solution
-----------------------------------------------------------------------------
(* The operands of an operation that are under way at the same time slot   *)
(* are on the same nodes.                                                  *)
THEOREM TravelTogether == Spec => []OperandsTravelTogether
<1>1. ASSUME IInv, Mapped, NEW q \in DOMAIN mapping
      PROVE  /\ \A m \in Hops(q) : \E k \in DOMAIN rows : Key(k) = q /\ Lands(sol, k) = m
             /\ \A k \in DOMAIN rows : Key(k) = q => Lands(sol, k) \in Hops(q)
  <2>1. Solution
    BY <1>1, Solves
  <2>2. mapping[q] = RouteOf(q)
    BY <2>1 DEF Solution
  <2>. DEFINE S == {k \in DOMAIN rows : <<rows[k].ds, rows[k].dd>> = q}
  <2>3. S \in SUBSET (1 .. Len(rows)) /\ Len(rows) \in Nat
    BY <2>1 DEF Solution, RowsFull
  <2>4. \A k \in S : k \in DOMAIN rows /\ Key(k) = q
    BY DEF Key
  <2>5. \A k \in DOMAIN rows : Key(k) = q => k \in S
    BY DEF Key
  <2>6. RouteOf(q) = [a \in DOMAIN InOrder(S) |-> sol[InOrder(S)[a]]]
    BY DEF RouteOf
  <2>. HIDE DEF S
  <2>7. /\ DOMAIN InOrder(S) = 1 .. Cardinality(S)
        /\ \A a \in 1 .. Cardinality(S) : InOrder(S)[a] \in S
        /\ \A k \in S : \E a \in 1 .. Cardinality(S) : InOrder(S)[a] = k
    BY <2>3, InOrderLists
  <2>8. Hops(q) = {sol[InOrder(S)[a]][2] : a \in DOMAIN InOrder(S)}
    BY <2>2, <2>6 DEF Hops
  <2>. QED
    BY <2>4, <2>5, <2>7, <2>8 DEF Lands
<1>2. ASSUME IInv, Mapped, NEW q \in DOMAIN mapping, NEW r \in DOMAIN mapping, q[2] = r[2],
             NEW t, At(r, t) # {}
      PROVE  At(q, t) \subseteq At(r, t)
  <2>1. Solution
    BY <1>2, Solves
  <2>2. SUFFICES ASSUME NEW m \in Hops(q), TimeOf(m) = t PROVE m \in Hops(r)
    BY DEF At
  <2>3. PICK k \in DOMAIN rows : Key(k) = q /\ Lands(sol, k) = m
    BY <1>1, <1>2
  <2>4. PICK x \in Hops(r) : TimeOf(x) = t
    BY <1>2 DEF At
  <2>5. PICK l \in DOMAIN rows : Key(l) = r /\ Lands(sol, l) = x
    BY <1>1, <1>2
  <2>6. rows[k].to = t /\ rows[l].to = t
    BY <2>1, <2>2, <2>3, <2>4, <2>5 DEF Solution, Picked
  <2>7. /\ rows[k].dd = rows[l].dd
        /\ q = <<rows[k].ds, rows[k].dd>> /\ r = <<rows[l].ds, rows[l].dd>>
    BY <1>2, <2>3, <2>5 DEF Key
  <2>8. rows[l].ds \in Sources(rows[k].dd, rows[k].to)
    BY <2>6, <2>7 DEF Sources, Into
  <2>9. PICK z \in DOMAIN rows : /\ rows[z].ds = rows[l].ds /\ rows[z].dd = rows[k].dd
                                 /\ Lands(sol, z) = m
    BY <2>1, <2>3, <2>8, Together DEF Solution
  <2>10. Key(z) = r
    BY <2>7, <2>9 DEF Key
  <2>. QED
    BY <1>1, <1>2, <2>9, <2>10
<1>3. IInv => OperandsTravelTogether
  BY <1>2 DEF OperandsTravelTogether
<1>. QED
  BY <1>3, Invariant, PTL
-----------------------------------------------------------------------------
(* There and back without a collision leaves nothing out. *)
LEMMA RoundTrip ==
    ASSUME NEW L, IsFiniteSet(L), NEW F, NEW h \in [L -> F], NEW g \in [F -> L],
           \A k, l \in L : h[k] = h[l] => k = l, \A k, l \in F : g[k] = g[l] => k = l
    PROVE  \A y \in L : \E k \in L : g[h[k]] = y
<1>. DEFINE f == [k \in L |-> g[h[k]]]
<1>1. f \in Injection(L, L)
  BY DEF Injection, IsInjective
<1>2. f \in Surjection(L, L)
  <2>. HIDE DEF f
  <2>. QED
    BY <1>1, FS_Injection
<1>. QED
  BY <1>2 DEF Surjection

(* A route whose every landing is left again has a span of at most the II. *)
(* All landings of the edge in the slot of its end have to be left, the    *)
(* last one too; but no row leaves after the last, and the one that leaves *)
(* first leaves the source.                                                *)
LEMMA ShortSpan ==
    ASSUME Solution, NEW j \in DOMAIN edges, ContLast(j) = RowLast(edges[j][2], j)
    PROVE  Span(j) <= II
<1>. DEFINE e == edges[j]
            first == RowFirst(edges[j][2], j)
            end == RowLast(edges[j][2], j)
            s == end % II
            L == {k \in DOMAIN rows : Key(k) = e /\ rows[k].to = s}
            F == {k \in DOMAIN rows : Key(k) = e /\ rows[k].from = s}
<1>0. problem \in Problems /\ II \in Nat \ {0} /\ e[1] \in Ops /\ e[2] \in Ops
  BY InputFacts DEF Solution
<1>1. /\ ContFirst(j) = first + 1 /\ first \in Nat /\ end \in Nat
      /\ ContFirst(j) <= ContLast(j) /\ first = Cycle(e[1])
  BY <1>0, ContLastBound DEF Solution, ContsFull
<1>2. SUFFICES ASSUME end - first > II PROVE FALSE
  BY <1>0, <1>1 DEF Span
<1>3. /\ \A k \in L : k \in DOMAIN rows /\ Key(k) = e /\ rows[k].to = s
      /\ \A k \in F : k \in DOMAIN rows /\ Key(k) = e /\ rows[k].from = s
      /\ \A k \in DOMAIN rows : Key(k) = e /\ rows[k].to = s => k \in L
      /\ \A k \in DOMAIN rows : Key(k) = e /\ rows[k].from = s => k \in F
  OBVIOUS
<1>4. IsFiniteSet(L)
  <2>1. L \in SUBSET (1 .. Len(rows)) /\ Len(rows) \in Nat
    BY DEF Solution, RowsFull
  <2>2. IsFiniteSet(1 .. Len(rows))
    BY <2>1, FS_Interval
  <2>. QED
    BY <2>1, <2>2, FS_Subset
<1>. DEFINE Turn(l) == IF rows[l].i = first THEN end - 1 ELSE rows[l].i - 1
            h == [k \in L |-> CHOOSE l \in F : Leaves(sol, l) = Lands(sol, k)]
            g == [l \in F |-> CHOOSE k \in L : rows[k].edge = rows[l].edge /\ rows[k].i = Turn(l)]
<1>. HIDE DEF L, F
<1>5. ASSUME NEW k \in L
      PROVE  \E l \in F : Leaves(sol, l) = Lands(sol, k)
  <2>1. end - II \in ContFirst(j) .. ContLast(j) - 1 /\ end - II \in Nat
    BY <1>0, <1>1, <1>2
  <2>2. (end - II) % II = s
    <3>1. ((end - II) + II) % II = (end - II) % II
      BY <1>0, <2>1, NextRound
    <3>2. (end - II) + II = end
      BY <1>0, <1>1
    <3>. QED
      BY <3>1, <3>2
  <2>3. PICK l \in DOMAIN rows : Key(l) = e /\ Leaves(sol, l) = Lands(sol, k)
    BY <1>3, <2>1, <2>2 DEF Solution, LeftOnTheWay
  <2>4. rows[l].from = s
    BY <1>3, <2>3 DEF Solution, Picked
  <2>. QED
    BY <1>3, <2>3, <2>4
<1>6. ASSUME NEW l \in F
      PROVE  /\ rows[l].i \in Nat /\ first <= rows[l].i /\ rows[l].i < end
             /\ rows[l].i % II = s
             /\ \E k \in L : rows[k].edge = rows[l].edge /\ rows[k].i = Turn(l)
  <2>1. /\ rows[l].edge \in DOMAIN edges /\ edges[rows[l].edge] = e
        /\ rows[l].i \in Nat /\ first <= rows[l].i /\ rows[l].i < end
        /\ rows[l].from = rows[l].i % II
    BY <1>3, RowsOfEdge
  <2>2. rows[l].i % II = s
    BY <1>3, <2>1
  <2>3. Turn(l) \in first .. end - 1 /\ Turn(l) \in Nat
    BY <1>0, <1>1, <1>2, <2>1
  <2>4. (Turn(l) + 1) % II = s
    <3>1. CASE rows[l].i = first
      <4>1. Turn(l) + 1 = end
        BY <1>1, <3>1
      <4>. QED
        BY <4>1
    <3>2. CASE rows[l].i # first
      <4>1. Turn(l) + 1 = rows[l].i
        BY <2>1, <3>2
      <4>. QED
        BY <2>2, <4>1
    <3>. QED
      BY <3>1, <3>2
  <2>5. PICK x \in DOMAIN edges : x = rows[l].edge
    BY <2>1
  <2>6. RowFirst(edges[x][2], x) = first /\ RowLast(edges[x][2], x) = end /\ edges[x] = e
    BY <1>0, <2>1, <2>5, SameBounds
  <2>7. PICK k \in DOMAIN rows : rows[k].edge = x /\ rows[k].i = Turn(l) /\ Key(k) = edges[x]
    BY <2>3, <2>6, RowOfTurn
  <2>8. rows[k].to = (rows[k].i + 1) % II
    BY <2>6, <2>7, RowsOfEdge
  <2>9. k \in L
    BY <1>3, <2>4, <2>6, <2>7, <2>8
  <2>. QED
    BY <2>1, <2>2, <2>5, <2>7, <2>9
<1>7. /\ h \in [L -> F] /\ \A k \in L : Leaves(sol, h[k]) = Lands(sol, k)
  BY <1>5
<1>8. /\ g \in [F -> L]
      /\ \A l \in F : rows[g[l]].edge = rows[l].edge /\ rows[g[l]].i = Turn(l)
  BY <1>6
<1>. HIDE DEF h, g
<1>9. ASSUME NEW k \in L, NEW l \in L, h[k] = h[l] PROVE k = l
  <2>1. Lands(sol, k) = Lands(sol, l)
    BY <1>7, <1>9
  <2>2. rows[k].ds = rows[l].ds
    BY <1>3 DEF Key
  <2>. QED
    BY <1>3, <2>1, <2>2, Landed
<1>10. ASSUME NEW k \in F, NEW l \in F, g[k] = g[l] PROVE k = l
  <2>1. rows[k].edge = rows[l].edge /\ Turn(k) = Turn(l)
    BY <1>8, <1>10
  <2>2. rows[k].i = rows[l].i
    <3>1. /\ rows[k].i \in Nat /\ first <= rows[k].i /\ rows[k].i < end
          /\ rows[l].i \in Nat /\ first <= rows[l].i /\ rows[l].i < end
      BY <1>6
    <3>. QED
      BY <1>1, <2>1, <3>1
  <2>3. rows[k].dd = rows[l].dd
    BY <1>3 DEF Key
  <2>. QED
    BY <1>3, <2>1, <2>2, <2>3, OneRow
<1>11. \A y \in L : \E k \in L : g[h[k]] = y
  <2>1. \A k, l \in L : h[k] = h[l] => k = l
    BY <1>9
  <2>2. \A k, l \in F : g[k] = g[l] => k = l
    BY <1>10
  <2>3. h \in [L -> F] /\ g \in [F -> L]
    BY <1>7, <1>8
  <2>. HIDE DEF Turn, s, e, first, end
  <2>. QED
    BY <1>4, <2>1, <2>2, <2>3, RoundTrip
<1>12. CASE first % II # s
  <2>1. end - 1 \in first .. end - 1
    BY <1>1, <1>2, <1>0
  <2>2. PICK y \in DOMAIN rows : rows[y].edge = j /\ rows[y].i = end - 1 /\ Key(y) = e
    BY <2>1, RowOfTurn
  <2>3. rows[y].to = s
    <3>1. rows[y].to = (rows[y].i + 1) % II
      BY <2>2, RowsOfEdge
    <3>2. rows[y].i + 1 = end
      BY <1>1, <2>2
    <3>. QED
      BY <3>1, <3>2
  <2>4. PICK k \in L : g[h[k]] = y
    BY <1>3, <1>11, <2>2, <2>3
  <2>5. h[k] \in F /\ Turn(h[k]) = end - 1
    BY <1>7, <1>8, <2>2, <2>4
  <2>6. /\ rows[h[k]].i \in Nat /\ rows[h[k]].i < end /\ rows[h[k]].i % II = s
    BY <1>6, <2>5
  <2>7. rows[h[k]].i = first
    BY <1>1, <2>5, <2>6
  <2>. QED
    BY <1>12, <2>6, <2>7
<1>13. CASE first % II = s
  <2>1. PICK a \in DOMAIN InEdges(e[1]) : TRUE
    BY <1>0, RowLoops
  <2>2. PICK z \in DOMAIN rows : rows[z] = Row(InEdges(e[1])[a], e[1], Cycle(e[1]) - 1)
    BY <1>0, <2>1 DEF Solution, RowsFull
  <2>3. rows[z].dd = e[1] /\ rows[z].to = Cycle(e[1]) % II
    <3>1. (Cycle(e[1]) - 1) + 1 = Cycle(e[1])
      BY <1>1
    <3>. QED
      BY <2>2, <3>1 DEF Row
  <2>4. PICK l \in DOMAIN rows : Key(l) = e /\ Leaves(sol, l) = Lands(sol, z)
    BY <2>3 DEF Solution, LeftOwn
  <2>5. rows[l].from = s
    BY <1>1, <1>13, <2>3, <2>4 DEF Solution, Picked
  <2>6. l \in F /\ g[l] \in L
    BY <1>3, <1>8, <2>4, <2>5
  <2>7. PICK k \in L : g[h[k]] = g[l]
    BY <1>11, <2>6
  <2>8. h[k] = l
    BY <1>7, <1>10, <2>6, <2>7
  <2>9. Lands(sol, k) = Lands(sol, z)
    BY <1>7, <2>4, <2>8
  <2>10. rows[k].dd = e[1]
    BY <1>3, <2>3, <2>9, Landed
  <2>11. rows[k].dd = e[2]
    BY <1>0, <1>3, InputFacts DEF Key
  <2>12. isAnti(e)
    BY <1>0, <2>10, <2>11, InputFacts DEF isAnti
  <2>13. end = first + II
    BY <1>0, <1>1, <2>10, <2>11, <2>12, InputFacts DEF RowLast, Recurrent
  <2>. QED
    BY <1>0, <1>1, <1>2, <2>13
<1>. QED
  BY <1>12, <1>13
-----------------------------------------------------------------------------
(* So the rows of an edge that is not doubled visit a slot once. *)
LEMMA OneVisit ==
    ASSUME Solution, NEW q \in DOMAIN edges, Span(q) <= II, ~Doubled(edges[q]),
           NEW k \in DOMAIN rows, NEW l \in DOMAIN rows, Key(k) = edges[q], Key(l) = edges[q],
           rows[k].to = rows[l].to \/ rows[k].from = rows[l].from
    PROVE  k = l
<1>. DEFINE first == RowFirst(edges[q][2], q)
            end == RowLast(edges[q][2], q)
<1>1. problem \in Problems /\ II \in Nat \ {0} /\ first \in Nat /\ end \in Nat
  BY InputFacts, ContLastBound DEF Solution
<1>2. ASSUME NEW x \in DOMAIN rows, Key(x) = edges[q]
      PROVE  /\ rows[x].edge = q /\ rows[x].dd = edges[q][2]
             /\ rows[x].i \in Nat /\ first <= rows[x].i /\ rows[x].i < end
             /\ rows[x].from = rows[x].i % II /\ rows[x].to = (rows[x].i + 1) % II
  <2>1. /\ rows[x].edge \in DOMAIN edges /\ edges[rows[x].edge] = edges[q]
        /\ rows[x].dd = edges[q][2]
        /\ rows[x].i \in Nat /\ first <= rows[x].i /\ rows[x].i < end
        /\ rows[x].from = rows[x].i % II /\ rows[x].to = (rows[x].i + 1) % II
    BY <1>2, RowsOfEdge
  <2>2. rows[x].edge = q
    BY <2>1 DEF Doubled
  <2>. QED
    BY <2>1, <2>2
<1>3. ASSUME NEW a \in Nat, NEW b \in Nat, first <= a, b < end,
             a % II = b % II \/ (a + 1) % II = (b + 1) % II
      PROVE  ~(a < b)
  <2>. SUFFICES ASSUME a < b PROVE FALSE
    OBVIOUS
  <2>1. a + II <= b
    <3>1. CASE a % II = b % II
      BY <1>1, <3>1, SameSlot
    <3>2. CASE (a + 1) % II = (b + 1) % II
      <4>0. a + 1 \in Nat /\ b + 1 \in Nat /\ a + 1 < b + 1
        OBVIOUS
      <4>1. (a + 1) + II <= b + 1
        BY <1>1, <3>2, <4>0, SameSlot
      <4>. QED
        BY <1>1, <4>1
    <3>. QED
      BY <1>3, <3>1, <3>2
  <2>. QED
    BY <1>1, <1>3, <2>1 DEF Span
<1>. DEFINE a == rows[k].i
            b == rows[l].i
<1>4. /\ a \in Nat /\ b \in Nat /\ first <= a /\ a < end /\ first <= b /\ b < end
      /\ a % II = b % II \/ (a + 1) % II = (b + 1) % II
  BY <1>2
<1>5. a = b
  <2>. HIDE DEF a, b, first, end
  <2>1. ~(a < b) /\ ~(b < a)
    BY <1>3, <1>4
  <2>. QED
    BY <1>4, <2>1
<1>. QED
  BY <1>2, <1>5, OneRow

(* The in-edge that lands on the operation once forbids a control edge of  *)
(* long span to land in its slot twice.                                    *)
LEMMA BoundedSpan ==
    ASSUME Solution, NEW j \in DOMAIN edges
    PROVE  \/ Span(j) <= II
           \/ j \in problem.ctrl /\ ~isAnti(edges[j]) /\ OperandsDoubled(edges[j][2])
<1>1. ASSUME Span(j) > II, NEW a \in DOMAIN InEdges(edges[j][2]),
             \/ InEdges(edges[j][2])[a] = RootEdge
             \/ ~Doubled(edges[InEdges(edges[j][2])[a]])
      PROVE  FALSE
  <2>. DEFINE d == edges[j][2]
              q == InEdges(d)[a]
              first == RowFirst(d, j)
              end == RowLast(d, j)
              s == Cycle(d) % II
  <2>1. /\ problem \in Problems /\ II \in Nat \ {0} /\ d \in Ops
        /\ first \in Nat /\ end \in Nat /\ end % II = s /\ Cycle(d) \in Nat
    BY <1>1, InputFacts, ContLastBound DEF Solution
  <2>2. end - 1 \in first .. end - 1 /\ (end - II) - 1 \in first .. end - 1 /\ end - II \in Nat
    BY <1>1, <2>1 DEF Span
  <2>3. (end - II) % II = s
    <3>1. ((end - II) + II) % II = (end - II) % II
      BY <2>1, <2>2, NextRound
    <3>2. (end - II) + II = end
      BY <2>1
    <3>. QED
      BY <2>1, <3>1, <3>2
  <2>4. ASSUME NEW t \in Nat, t - 1 \in first .. end - 1, t % II = s
        PROVE  \E y \in DOMAIN rows : /\ rows[y].i = t - 1 /\ Key(y) = edges[j]
                                      /\ rows[y].to = s /\ rows[y].dd = d
    <3>1. PICK y \in DOMAIN rows : rows[y].edge = j /\ rows[y].i = t - 1 /\ Key(y) = edges[j]
      BY <1>1, <2>4, RowOfTurn
    <3>2. rows[y].to = (rows[y].i + 1) % II /\ rows[y].dd = d
      BY <1>1, <3>1, RowsOfEdge
    <3>3. rows[y].i + 1 = t
      BY <3>1
    <3>. QED
      BY <2>4, <3>1, <3>2, <3>3
  <2>5. PICK x \in DOMAIN rows : /\ rows[x].i = end - 1 /\ Key(x) = edges[j]
                                 /\ rows[x].to = s /\ rows[x].dd = d
    BY <2>1, <2>2, <2>4
  <2>6. PICK y \in DOMAIN rows : /\ rows[y].i = (end - II) - 1 /\ Key(y) = edges[j]
                                 /\ rows[y].to = s /\ rows[y].dd = d
    BY <2>2, <2>3, <2>4
  <2>7. Lands(sol, x) # Lands(sol, y)
    <3>1. rows[x].ds = rows[y].ds /\ x # y
      BY <2>1, <2>5, <2>6 DEF Key
    <3>. QED
      BY <1>1, <3>1, Landed
  <2>8. PICK z \in DOMAIN rows : rows[z] = Row(q, d, Cycle(d) - 1)
    BY <1>1, <2>1 DEF Solution, RowsFull
  <2>9. rows[z].dd = d /\ rows[z].to = s /\ rows[z].ds = SrcOf(q)
    <3>1. (Cycle(d) - 1) + 1 = Cycle(d)
      BY <2>1
    <3>. QED
      BY <2>8, <3>1 DEF Row
  <2>10. SrcOf(q) \in Sources(d, s)
    BY <2>9 DEF Sources, Into
  <2>0. ASSUME NEW w \in DOMAIN rows, rows[w].dd = d, rows[w].to = s
        PROVE  \E u \in DOMAIN rows : /\ rows[u].ds = SrcOf(q) /\ rows[u].dd = d /\ rows[u].to = s
                                      /\ Lands(sol, u) = Lands(sol, w)
    <3>1. SrcOf(q) \in Sources(rows[w].dd, rows[w].to)
      BY <2>0, <2>10
    <3>2. RowsFull /\ Picked /\ Consistent(sol)
      BY <1>1 DEF Solution
    <3>. QED
      BY <2>0, <3>1, <3>2, Together
  <2>11. PICK u \in DOMAIN rows : /\ rows[u].ds = SrcOf(q) /\ rows[u].dd = d /\ rows[u].to = s
                                  /\ Lands(sol, u) = Lands(sol, x)
    BY <2>0, <2>5
  <2>12. PICK v \in DOMAIN rows : /\ rows[v].ds = SrcOf(q) /\ rows[v].dd = d /\ rows[v].to = s
                                  /\ Lands(sol, v) = Lands(sol, y)
    BY <2>0, <2>6
  <2>13. u = v
    <3>1. CASE q = RootEdge
      <4>1. ASSUME NEW w \in DOMAIN rows, rows[w].ds = SrcOf(q), rows[w].dd = d
            PROVE  rows[w].edge = RootEdge /\ rows[w].i = Cycle(d) - 1
        <5>1. rows[w].ds = Root
          BY <3>1, <4>1 DEF SrcOf
        <5>2. /\ rows[w].ds = SrcOf(rows[w].edge)
              /\ \/ rows[w].edge = RootEdge
                 \/ rows[w].edge \in DOMAIN edges
              /\ rows[w].i \in Int
              /\ RowFirst(d, rows[w].edge) <= rows[w].i /\ rows[w].i < RowLast(d, rows[w].edge)
          BY <1>1, <4>1 DEF Solution, RowsFull
        <5>3. rows[w].edge = RootEdge
          <6>1. \A k \in DOMAIN edges : SrcOf(k) # Root
            BY <2>1, InputFacts DEF SrcOf, Root
          <6>. QED
            BY <5>1, <5>2, <6>1
        <5>4. RowFirst(d, RootEdge) = Cycle(d) - 1 /\ RowLast(d, RootEdge) = Cycle(d)
          BY <2>1 DEF RowFirst, RowLast, Recurrent
        <5>. QED
          BY <2>1, <5>2, <5>3, <5>4
      <4>2. rows[u].edge = rows[v].edge /\ rows[u].i = rows[v].i
        BY <2>11, <2>12, <4>1
      <4>. QED
        BY <1>1, <2>11, <2>12, <4>2, OneRow
    <3>2. CASE q # RootEdge
      <4>1. q \in DOMAIN edges /\ edges[q][2] = d /\ ~Recurrent(q)
        BY <2>1, <3>2, RowLoops
      <4>2. ContLast(q) = RowLast(edges[q][2], q)
        BY <2>1, <3>2, <4>1, ContLastBound DEF Recurrent
      <4>3. Span(q) <= II
        BY <1>1, <4>1, <4>2, ShortSpan
      <4>4. edges[q] = <<SrcOf(q), d>>
        BY <2>1, <4>1, InputFacts DEF SrcOf
      <4>5. Key(u) = edges[q] /\ Key(v) = edges[q]
        BY <2>11, <2>12, <4>4 DEF Key
      <4>. QED
        BY <1>1, <2>11, <2>12, <3>2, <4>1, <4>3, <4>5, OneVisit
    <3>. QED
      BY <3>1, <3>2
  <2>. QED
    BY <2>7, <2>11, <2>12, <2>13
<1>2. problem \in Problems /\ Span(j) \in Int /\ II \in Int
  BY InputFacts, ContLastBound DEF Solution, Span
<1>3. CASE j \notin problem.ctrl \/ isAnti(edges[j])
  <2>1. ContLast(j) = RowLast(edges[j][2], j)
    BY <1>2, <1>3, ContLastBound
  <2>. QED
    BY <2>1, ShortSpan
<1>4. CASE j \in problem.ctrl /\ ~isAnti(edges[j]) /\ Span(j) > II
  BY <1>1, <1>4 DEF OperandsDoubled
<1>. QED
  BY <1>2, <1>3, <1>4

(* SpanWithinII on every run of mapII, for every problem.                  *)
THEOREM SpansWithinII == Spec => []SpanWithinII
<1>1. IInv => SpanWithinII
  BY BoundedSpan, Solves DEF SpanWithinII
<1>. QED
  BY <1>1, Invariant, PTL

(* DoublesGoOn: the two rows of a doubled edge land on two units, and both *)
(* have to be left for every use of the result.                            *)
THEOREM DoublesEverywhere == Spec => []DoublesGoOn
<1>1. ASSUME Solution, NEW j \in DOMAIN edges \ problem.ctrl, NEW k \in DOMAIN edges \ problem.ctrl,
             Doubled(edges[j]), edges[k][1] = edges[j][2]
      PROVE  Doubled(edges[k])
  <2>. DEFINE o == edges[j][2]
              s == Cycle(o) % II
  <2>1. /\ problem \in Problems /\ II \in Nat \ {0} /\ o \in Ops
    BY <1>1, InputFacts DEF Solution
  <2>2. ASSUME NEW x \in DOMAIN edges, edges[x] = edges[j]
        PROVE  \E y \in DOMAIN rows : /\ rows[y].edge = x /\ Key(y) = edges[j]
                                      /\ rows[y].dd = o /\ rows[y].to = s
    <3>. DEFINE end == RowLast(edges[x][2], x)
    <3>1. /\ RowFirst(edges[x][2], x) \in Nat /\ end \in Nat /\ end % II = s
          /\ RowFirst(edges[x][2], x) < end
      BY <1>1, <2>1, <2>2, ContLastBound DEF Solution, ContsFull
    <3>2. end - 1 \in RowFirst(edges[x][2], x) .. end - 1
      BY <3>1
    <3>3. PICK y \in DOMAIN rows : rows[y].edge = x /\ rows[y].i = end - 1 /\ Key(y) = edges[x]
      BY <1>1, <3>2, RowOfTurn
    <3>4. rows[y].to = (rows[y].i + 1) % II /\ rows[y].dd = o
      BY <1>1, <2>2, <3>3, RowsOfEdge
    <3>5. rows[y].i + 1 = end
      BY <3>1, <3>3
    <3>. QED
      BY <2>2, <3>1, <3>3, <3>4, <3>5
  <2>3. PICK a \in DOMAIN edges, b \in DOMAIN edges : a # b /\ edges[a] = edges[j] /\ edges[b] = edges[j]
    BY <1>1 DEF Doubled
  <2>4. PICK x \in DOMAIN rows : /\ rows[x].edge = a /\ Key(x) = edges[j]
                                 /\ rows[x].dd = o /\ rows[x].to = s
    BY <2>2, <2>3
  <2>5. PICK y \in DOMAIN rows : /\ rows[y].edge = b /\ Key(y) = edges[j]
                                 /\ rows[y].dd = o /\ rows[y].to = s
    BY <2>2, <2>3
  <2>6. Lands(sol, x) # Lands(sol, y)
    <3>1. rows[x].ds = rows[y].ds /\ x # y
      BY <2>3, <2>4, <2>5 DEF Key
    <3>. QED
      BY <1>1, <3>1, Landed
  <2>7. PICK u \in DOMAIN rows : Key(u) = edges[k] /\ Leaves(sol, u) = Lands(sol, x)
    BY <1>1, <2>4 DEF Solution, LeftOwn
  <2>8. PICK v \in DOMAIN rows : Key(v) = edges[k] /\ Leaves(sol, v) = Lands(sol, y)
    BY <1>1, <2>5 DEF Solution, LeftOwn
  <2>9. rows[u].from = s /\ rows[v].from = s /\ u # v
    BY <1>1, <2>4, <2>5, <2>6, <2>7, <2>8 DEF Solution, Picked
  <2>10. ContLast(k) = RowLast(edges[k][2], k)
    BY <1>1, <2>1, ContLastBound
  <2>11. Span(k) <= II
    BY <1>1, <2>10, ShortSpan
  <2>. QED
    BY <1>1, <2>7, <2>8, <2>9, <2>11, OneVisit
<1>2. IInv => DoublesGoOn
  BY <1>1, Solves DEF DoublesGoOn
<1>. QED
  BY <1>2, Invariant, PTL
-----------------------------------------------------------------------------
(* A route is the rows of its edge, turn by turn. *)
Once == \A j, k \in DOMAIN edges : edges[j] = edges[k] => j = k

(* The edges that end in d, and the root's if d has a row for it. *)
EndsIn(j, d) ==
    \/ j \in DOMAIN edges /\ edges[j][2] = d
    \/ j = RootEdge /\ \E a \in DOMAIN InEdges(d) : InEdges(d)[a] = RootEdge

LEMMA OnceNotDoubled ==
    ASSUME problem \in Problems, Once
    PROVE  /\ \A j \in DOMAIN edges : ~Doubled(edges[j])
           /\ \A d \in Ops : ~OperandsDoubled(d)
<1>1. \A j \in DOMAIN edges : ~Doubled(edges[j])
  BY DEF Once, Doubled
<1>2. ASSUME NEW d \in Ops PROVE ~OperandsDoubled(d)
  <2>1. /\ 1 \in DOMAIN InEdges(d)
        /\ InEdges(d)[1] = RootEdge \/ InEdges(d)[1] \in DOMAIN edges
    BY RowLoops
  <2>. QED
    BY <1>1, <2>1 DEF OperandsDoubled
<1>. QED
  BY <1>1, <1>2

LEMMA RowsOfKey ==
    ASSUME Solution, Once, NEW d \in Ops, NEW j, EndsIn(j, d)
    PROVE  /\ RowFirst(d, j) \in Int /\ RowLast(d, j) \in Int /\ RowFirst(d, j) < RowLast(d, j)
           /\ RowLast(d, j) % II = Cycle(d) % II
           /\ \A k \in DOMAIN rows :
                 Key(k) = <<SrcOf(j), d>> =>
                    /\ rows[k].edge = j /\ rows[k].dd = d /\ rows[k].ds = SrcOf(j)
                    /\ rows[k].i \in Int /\ RowFirst(d, j) <= rows[k].i /\ rows[k].i < RowLast(d, j)
                    /\ rows[k].to = (rows[k].i + 1) % II
           /\ \A t \in RowFirst(d, j) .. RowLast(d, j) - 1 :
                 \E k \in DOMAIN rows : rows[k].i = t /\ Key(k) = <<SrcOf(j), d>>
<1>1. problem \in Problems /\ II \in Nat \ {0} /\ Cycle(d) \in Nat
  BY InputFacts DEF Solution
<1>2. CASE j \in DOMAIN edges /\ edges[j][2] = d
  <2>1. edges[j] = <<SrcOf(j), d>>
    BY <1>1, <1>2, InputFacts DEF SrcOf
  <2>2. /\ RowFirst(d, j) \in Nat /\ RowLast(d, j) \in Nat /\ RowFirst(d, j) < RowLast(d, j)
        /\ RowLast(d, j) % II = Cycle(d) % II
    BY <1>1, <1>2, ContLastBound DEF Solution, ContsFull
  <2>3. ASSUME NEW k \in DOMAIN rows, Key(k) = edges[j]
        PROVE  /\ rows[k].edge = j /\ rows[k].dd = d /\ rows[k].ds = SrcOf(j)
               /\ rows[k].i \in Int /\ RowFirst(d, j) <= rows[k].i /\ rows[k].i < RowLast(d, j)
               /\ rows[k].to = (rows[k].i + 1) % II
    <3>1. /\ rows[k].edge \in DOMAIN edges /\ edges[rows[k].edge] = edges[j]
          /\ rows[k].dd = d /\ rows[k].ds = edges[j][1]
          /\ rows[k].i \in Nat /\ RowFirst(d, j) <= rows[k].i /\ rows[k].i < RowLast(d, j)
          /\ rows[k].to = (rows[k].i + 1) % II
      BY <1>2, <2>3, RowsOfEdge
    <3>2. rows[k].edge = j
      BY <1>2, <3>1 DEF Once
    <3>3. edges[j][1] = SrcOf(j)
      BY <2>1
    <3>. QED
      BY <3>1, <3>2, <3>3
  <2>4. ASSUME NEW t \in RowFirst(d, j) .. RowLast(d, j) - 1
        PROVE  \E k \in DOMAIN rows : rows[k].i = t /\ Key(k) = edges[j]
    BY <1>2, RowOfTurn
  <2>. QED
    BY <2>1, <2>2, <2>3, <2>4
<1>3. CASE j = RootEdge /\ \E a \in DOMAIN InEdges(d) : InEdges(d)[a] = RootEdge
  <2>1. SrcOf(j) = Root /\ RowFirst(d, j) = Cycle(d) - 1 /\ RowLast(d, j) = Cycle(d)
    BY <1>1, <1>3 DEF SrcOf, RowFirst, RowLast, Recurrent
  <2>2. ASSUME NEW k \in DOMAIN rows, Key(k) = <<Root, d>>
        PROVE  /\ rows[k].edge = j /\ rows[k].dd = d /\ rows[k].ds = Root
               /\ rows[k].i \in Int /\ RowFirst(d, j) <= rows[k].i /\ rows[k].i < RowLast(d, j)
               /\ rows[k].to = (rows[k].i + 1) % II
    <3>1. /\ rows[k] = Row(rows[k].edge, rows[k].dd, rows[k].i) /\ rows[k].i \in Int
          /\ RowFirst(rows[k].dd, rows[k].edge) <= rows[k].i
          /\ rows[k].i < RowLast(rows[k].dd, rows[k].edge)
          /\ rows[k].ds = SrcOf(rows[k].edge)
          /\ rows[k].edge = RootEdge \/ rows[k].edge \in DOMAIN edges
      BY DEF Solution, RowsFull
    <3>2. rows[k].dd = d /\ rows[k].ds = Root
      BY <2>2 DEF Key
    <3>3. \A x \in DOMAIN edges : SrcOf(x) # Root
      BY <1>1, InputFacts DEF SrcOf, Root
    <3>4. rows[k].edge = j
      BY <1>3, <3>1, <3>2, <3>3
    <3>5. rows[k].to = (rows[k].i + 1) % II
      BY <3>1 DEF Row
    <3>. QED
      BY <3>1, <3>2, <3>4, <3>5
  <2>3. PICK a \in DOMAIN InEdges(d) : InEdges(d)[a] = RootEdge
    BY <1>3
  <2>4. PICK z \in DOMAIN rows : rows[z] = Row(InEdges(d)[a], d, Cycle(d) - 1)
    BY DEF Solution, RowsFull
  <2>5. rows[z].i = Cycle(d) - 1 /\ Key(z) = <<Root, d>>
    BY <2>3, <2>4 DEF Row, Key, SrcOf
  <2>6. \A t \in RowFirst(d, j) .. RowLast(d, j) - 1 : t = Cycle(d) - 1
    BY <1>1, <2>1
  <2>. QED
    BY <1>1, <2>1, <2>2, <2>5, <2>6
<1>. QED
  BY <1>2, <1>3 DEF EndsIn

LEMMA RouteFacts ==
    ASSUME Solution, Once, NEW d \in Ops, NEW j, EndsIn(j, d)
    PROVE  LET q == <<SrcOf(j), d>>
           IN  /\ q \in DOMAIN mapping
               /\ Len(mapping[q]) = RowLast(d, j) - RowFirst(d, j)
               /\ \A a \in 1 .. Len(mapping[q]) : \E k \in DOMAIN rows :
                     /\ Key(k) = q /\ rows[k].i = RowFirst(d, j) + a - 1
                     /\ mapping[q][a] = sol[k]
<1>. DEFINE q == <<SrcOf(j), d>>
            lo == RowFirst(d, j)
            hi == RowLast(d, j) - 1
            S == {k \in DOMAIN rows : <<rows[k].ds, rows[k].dd>> = q}
            f == [k \in S |-> rows[k].i]
<1>1. lo \in Int /\ hi \in Int /\ lo <= hi
  BY RowsOfKey
<1>2. Len(rows) \in Nat /\ DOMAIN rows = 1 .. Len(rows) /\ S \in SUBSET (1 .. Len(rows))
  BY DEF Solution, RowsFull
<1>3. /\ \A k \in S : k \in DOMAIN rows /\ Key(k) = q
      /\ \A k \in DOMAIN rows : Key(k) = q => k \in S
  BY DEF Key
<1>4. RouteOf(q) = [a \in DOMAIN InOrder(S) |-> sol[InOrder(S)[a]]]
  BY DEF RouteOf
<1>. HIDE DEF S
<1>5. \A k \in S : /\ rows[k].edge = j /\ rows[k].dd = d
                   /\ rows[k].i \in Int /\ lo <= rows[k].i /\ rows[k].i < RowLast(d, j)
                   /\ RowLast(d, j) \in Int
  BY <1>3, RowsOfKey
<1>6. f \in [S -> lo .. hi]
  BY <1>1, <1>5
<1>7. \A k, l \in S : k < l => f[k] < f[l]
  BY <1>3, <1>5 DEF Solution, RowsFull
<1>8. \A t \in lo .. hi : \E k \in S : f[k] = t
  BY <1>3, RowsOfKey
<1>9. /\ Cardinality(S) = hi - lo + 1
      /\ \A a \in 1 .. Cardinality(S) : f[InOrder(S)[a]] = lo + a - 1
  <2>. HIDE DEF f, lo, hi
  <2>. QED
    BY <1>1, <1>2, <1>6, <1>7, <1>8, InOrderCounts
<1>10. /\ DOMAIN InOrder(S) = 1 .. Cardinality(S) /\ Cardinality(S) \in Nat
       /\ \A a \in 1 .. Cardinality(S) : InOrder(S)[a] \in S
  BY <1>2, InOrderLists
<1>11. q \in DOMAIN mapping /\ mapping[q] = RouteOf(q)
  <2>1. PICK k \in S : f[k] = lo
    BY <1>1, <1>8
  <2>2. k \in DOMAIN rows /\ Key(k) = q
    BY <1>3
  <2>. QED
    BY <2>2 DEF Solution
<1>12. /\ Len(mapping[q]) = Cardinality(S)
       /\ mapping[q] = [a \in 1 .. Cardinality(S) |-> sol[InOrder(S)[a]]]
  BY <1>4, <1>10, <1>11
<1>13. Cardinality(S) = RowLast(d, j) - RowFirst(d, j)
  BY <1>1, <1>9, RowsOfKey
<1>14. ASSUME NEW a \in 1 .. Cardinality(S)
       PROVE  \E k \in DOMAIN rows :
                 Key(k) = q /\ rows[k].i = RowFirst(d, j) + a - 1 /\ mapping[q][a] = sol[k]
  <2>1. InOrder(S)[a] \in S /\ rows[InOrder(S)[a]].i = lo + a - 1
    BY <1>9, <1>10
  <2>. QED
    BY <1>3, <1>12, <2>1
<1>. QED
  BY <1>11, <1>12, <1>13, <1>14
-----------------------------------------------------------------------------
(* An edge of the graph lands on a unit; one between units is a link.      *)
LEMMA EdgeShape ==
    ASSUME problem \in Problems, NEW e \in mrrg
    PROVE  /\ e[2] \in problem.cgra.PEs \X {TimeOf(e[2])}
           /\ TimeOf(e[1]) # -1 => <<PEOf(e[1]), PEOf(e[2])>> \in Links(problem.cgra)
<1>1. \A l \in Links(problem.cgra) :
         l = <<l[1], l[2]>> /\ l[2] \in problem.cgra.PEs
  BY InputFacts DEF Links
<1>2. CASE e \in {<<RootNode, fu>> : fu \in FUsBetween(problem.cgra, 0, II)}
  <2>1. PICK fu \in problem.cgra.PEs \X (0 .. II) : e = <<RootNode, fu>>
    BY <1>2 DEF FUsBetween
  <2>. QED
    BY <2>1 DEF TimeOf, RootNode
<1>3. CASE e \in StepEdges(problem.cgra, 0, II)
  <2>1. PICK l \in Links(problem.cgra), t \in (0 .. II) \ {0} :
           e = <<<<l[1], t - 1>>, <<l[2], t>>>>
    BY <1>3 DEF StepEdges
  <2>. QED
    BY <1>1, <2>1 DEF TimeOf, PEOf
<1>4. CASE e \in WrapEdges(problem.cgra, II)
  <2>1. PICK l \in Links(problem.cgra) : e = <<<<l[1], II - 1>>, <<l[2], 0>>>>
    BY <1>4 DEF WrapEdges
  <2>. QED
    BY <1>1, <2>1 DEF TimeOf, PEOf
<1>. QED
  BY <1>2, <1>3, <1>4 DEF mrrg, MRRGEdges, AddedEdges, Closed

(* The operation is where its first operand ends, and so does whatever     *)
(* lands for it in its slot.                                               *)
LEMMA PlaceFacts ==
    ASSUME Solution, Once, \A j \in DOMAIN edges : Span(j) <= II, NEW d \in Ops
    PROVE  \E z \in DOMAIN rows :
              /\ rows[z].dd = d /\ rows[z].to = Cycle(d) % II /\ PlaceOf(d) = Lands(sol, z)
              /\ \A w \in DOMAIN rows :
                    rows[w].dd = d /\ rows[w].to = Cycle(d) % II => Lands(sol, w) = Lands(sol, z)
<1>. DEFINE q == InEdges(d)[1]
            key == <<SrcOf(q), d>>
            r == mapping[key]
            s == Cycle(d) % II
<1>1. problem \in Problems /\ II \in Nat \ {0}
  BY InputFacts DEF Solution
<1>2. 1 \in DOMAIN InEdges(d) /\ (q = RootEdge \/ (q \in DOMAIN edges /\ edges[q][2] = d))
  <2>1. LET L == Loops("rows", d)
        IN  /\ 1 \in DOMAIN InEdges(d) /\ 1 \in DOMAIN L /\ L[1] = q
            /\ L[1] = RootEdge \/ (L[1] \in DOMAIN edges /\ edges[L[1]][2] = d)
    BY <1>1, RowLoops
  <2>. QED
    BY <2>1
<1>3. EndsIn(q, d)
  BY <1>2 DEF EndsIn
<1>4. /\ RowFirst(d, q) \in Int /\ RowLast(d, q) \in Int /\ RowFirst(d, q) < RowLast(d, q)
      /\ RowLast(d, q) % II = s
      /\ \A k \in DOMAIN rows : Key(k) = key =>
            /\ rows[k].edge = q /\ rows[k].dd = d /\ rows[k].ds = SrcOf(q)
            /\ rows[k].i \in Int /\ RowFirst(d, q) <= rows[k].i /\ rows[k].i < RowLast(d, q)
            /\ rows[k].to = (rows[k].i + 1) % II
  BY <1>3, RowsOfKey
<1>5. /\ Len(r) = RowLast(d, q) - RowFirst(d, q)
      /\ \A a \in 1 .. Len(r) : \E k \in DOMAIN rows :
            Key(k) = key /\ rows[k].i = RowFirst(d, q) + a - 1 /\ r[a] = sol[k]
  BY <1>3, RouteFacts
<1>6. Len(r) \in 1 .. Len(r)
  BY <1>4, <1>5
<1>7. PICK z \in DOMAIN rows :
         Key(z) = key /\ rows[z].i = RowFirst(d, q) + Len(r) - 1 /\ r[Len(r)] = sol[z]
  BY <1>5, <1>6
<1>8. rows[z].i + 1 = RowLast(d, q)
  BY <1>4, <1>5, <1>7
<1>9. rows[z].dd = d /\ rows[z].to = s /\ PlaceOf(d) = Lands(sol, z)
  BY <1>4, <1>7, <1>8 DEF PlaceOf, Lands
<1>10. ASSUME NEW w \in DOMAIN rows, rows[w].dd = d, rows[w].to = s
       PROVE  Lands(sol, w) = Lands(sol, z)
  <2>1. SrcOf(q) \in Sources(rows[w].dd, rows[w].to)
    BY <1>4, <1>7, <1>9, <1>10 DEF Sources, Into
  <2>2. PICK u \in DOMAIN rows : /\ rows[u].ds = SrcOf(q) /\ rows[u].dd = d
                                 /\ rows[u].to = s /\ Lands(sol, u) = Lands(sol, w)
    BY <1>10, <2>1, Together DEF Solution
  <2>3. Key(u) = key
    BY <2>2 DEF Key
  <2>4. u = z
    <3>1. CASE q = RootEdge
      <4>1. RowFirst(d, q) = Cycle(d) - 1 /\ RowLast(d, q) = Cycle(d) /\ Cycle(d) \in Nat
        BY <1>1, <3>1, InputFacts DEF RowFirst, RowLast, Recurrent
      <4>2. /\ rows[u].edge = q /\ rows[u].dd = d /\ rows[u].i \in Int
            /\ RowFirst(d, q) <= rows[u].i /\ rows[u].i < RowLast(d, q)
            /\ rows[z].edge = q /\ rows[z].dd = d /\ rows[z].i \in Int
            /\ RowFirst(d, q) <= rows[z].i /\ rows[z].i < RowLast(d, q)
        BY <1>4, <1>7, <2>3
      <4>3. rows[u].i = rows[z].i
        BY <4>1, <4>2
      <4>. QED
        BY <4>2, <4>3, OneRow
    <3>2. CASE q # RootEdge
      <4>1. q \in DOMAIN edges /\ edges[q] = key
        BY <1>1, <1>2, <3>2, InputFacts DEF SrcOf
      <4>2. ~Doubled(edges[q])
        BY <1>1, <4>1, OnceNotDoubled
      <4>. QED
        BY <1>7, <1>9, <2>2, <2>3, <4>1, <4>2, OneVisit
    <3>. QED
      BY <3>1, <3>2
  <2>. QED
    BY <2>2, <2>4
<1>. QED
  BY <1>9, <1>10

(* The route of an edge is an unbroken walk from place to place.           *)
LEMMA WalkFacts ==
    ASSUME Solution, Once, \A j \in DOMAIN edges : Span(j) <= II,
           NEW j \in DOMAIN edges, NEW r, r = mapping[edges[j]]
    PROVE  /\ edges[j] \in DOMAIN mapping
           /\ Span(j) \in Nat \ {0} /\ Len(r) = Span(j)
           /\ r[1][1] = PlaceOf(edges[j][1]) /\ r[Span(j)][2] = PlaceOf(edges[j][2])
           /\ \A k \in 1 .. Span(j) :
                 /\ <<PEOf(r[k][1]), PEOf(r[k][2])>> \in Links(problem.cgra)
                 /\ TimeOf(r[k][2]) = (TimeOf(r[k][1]) + 1) % II
                 /\ k < Span(j) => r[k][2] = r[k + 1][1]
           /\ \A k \in 1 .. Span(j) : \E l \in DOMAIN rows :
                 rows[l].dd = edges[j][2] /\ r[k][2] = Lands(sol, l)
<1>. DEFINE d == edges[j][2]
            o == edges[j][1]
            first == RowFirst(d, j)
            end == RowLast(d, j)
<1>1. problem \in Problems /\ II \in Nat \ {0} /\ d \in Ops /\ o \in Ops
      /\ edges[j] = <<SrcOf(j), d>> /\ edges[j] = <<o, d>>
  BY InputFacts DEF Solution, SrcOf
<1>2. /\ first \in Nat /\ end \in Nat /\ first < end /\ first = Cycle(o)
      /\ end % II = Cycle(d) % II /\ end - first <= II
      /\ ContFirst(j) = first + 1
  BY <1>1, ContLastBound DEF Solution, ContsFull, Span
<1>3. ContLast(j) = end
  <2>1. j \notin problem.ctrl \/ isAnti(edges[j]) => ContLast(j) = end
    BY <1>1, ContLastBound
  <2>2. ASSUME j \in problem.ctrl, ~isAnti(edges[j]) PROVE FALSE
    <3>1. end = Cycle(d) + II /\ ContLast(j) = Cycle(d) /\ Cycle(d) \in Nat
      BY <1>1, <2>2, InputFacts DEF RowLast, Recurrent, ContLast
    <3>2. first + 1 <= Cycle(d)
      BY <1>2, <3>1 DEF Solution, ContsFull
    <3>. QED
      BY <1>1, <1>2, <3>1, <3>2
  <2>. QED
    BY <2>1, <2>2
<1>4. /\ edges[j] \in DOMAIN mapping /\ Len(r) = end - first
      /\ \A a \in 1 .. end - first : \E k \in DOMAIN rows :
            Key(k) = edges[j] /\ rows[k].i = first + a - 1 /\ r[a] = sol[k]
  <2>1. EndsIn(j, d)
    BY DEF EndsIn
  <2>2. /\ <<SrcOf(j), d>> \in DOMAIN mapping
        /\ Len(mapping[<<SrcOf(j), d>>]) = end - first
        /\ \A a \in 1 .. Len(mapping[<<SrcOf(j), d>>]) : \E k \in DOMAIN rows :
              /\ Key(k) = <<SrcOf(j), d>> /\ rows[k].i = first + a - 1
              /\ mapping[<<SrcOf(j), d>>][a] = sol[k]
    BY <1>1, <2>1, RouteFacts
  <2>. HIDE DEF d, first, end
  <2>. QED
    BY <1>1, <2>2
<1>5. ASSUME NEW k \in DOMAIN rows, Key(k) = edges[j]
      PROVE  /\ rows[k].dd = d /\ rows[k].i \in Nat
             /\ rows[k].from = rows[k].i % II /\ rows[k].to = (rows[k].i + 1) % II
             /\ TimeOf(Leaves(sol, k)) = rows[k].from /\ TimeOf(Lands(sol, k)) = rows[k].to
             /\ sol[k] \in mrrg
  BY <1>5, RowsOfEdge DEF Solution, Picked
<1>6. ASSUME NEW k \in DOMAIN rows, NEW l \in DOMAIN rows, Key(k) = edges[j], Key(l) = edges[j],
             rows[k].from = rows[l].from
      PROVE  k = l
  <2>1. ~Doubled(edges[j])
    BY <1>1, OnceNotDoubled
  <2>. QED
    BY <1>6, <2>1, OneVisit
<1>7. r[1][1] = PlaceOf(o)
  <2>1. 1 \in 1 .. end - first
    BY <1>2
  <2>2. PICK k \in DOMAIN rows : Key(k) = edges[j] /\ rows[k].i = first + 1 - 1 /\ r[1] = sol[k]
    BY <1>4, <2>1
  <2>3. rows[k].from = Cycle(o) % II
    <3>1. rows[k].i = Cycle(o)
      BY <1>2, <2>2
    <3>. QED
      BY <1>5, <2>2, <3>1
  <2>4. PICK z \in DOMAIN rows :
           rows[z].dd = o /\ rows[z].to = Cycle(o) % II /\ PlaceOf(o) = Lands(sol, z)
    BY <1>1, PlaceFacts
  <2>5. PICK l \in DOMAIN rows : Key(l) = edges[j] /\ Leaves(sol, l) = Lands(sol, z)
    BY <2>4 DEF Solution, LeftOwn
  <2>6. rows[l].from = Cycle(o) % II
    BY <1>5, <2>4, <2>5 DEF Solution, Picked
  <2>7. k = l
    BY <1>6, <2>2, <2>3, <2>5, <2>6
  <2>. QED
    BY <2>2, <2>4, <2>5, <2>7 DEF Leaves
<1>8. r[end - first][2] = PlaceOf(d)
  <2>1. end - first \in 1 .. end - first
    BY <1>2
  <2>2. PICK k \in DOMAIN rows : /\ Key(k) = edges[j] /\ rows[k].i = first + (end - first) - 1
                                 /\ r[end - first] = sol[k]
    BY <1>4, <2>1
  <2>3. rows[k].to = Cycle(d) % II /\ rows[k].dd = d
    <3>1. rows[k].i + 1 = end
      BY <1>2, <2>2
    <3>. QED
      BY <1>2, <1>5, <2>2, <3>1
  <2>4. Lands(sol, k) = PlaceOf(d)
    BY <1>1, <2>3, PlaceFacts
  <2>. QED
    BY <2>2, <2>4 DEF Lands
<1>9. ASSUME NEW a \in 1 .. end - first
      PROVE  /\ <<PEOf(r[a][1]), PEOf(r[a][2])>> \in Links(problem.cgra)
             /\ TimeOf(r[a][2]) = (TimeOf(r[a][1]) + 1) % II
             /\ a < end - first => r[a][2] = r[a + 1][1]
             /\ \E l \in DOMAIN rows : rows[l].dd = d /\ r[a][2] = Lands(sol, l)
  <2>1. PICK k \in DOMAIN rows : Key(k) = edges[j] /\ rows[k].i = first + a - 1 /\ r[a] = sol[k]
    BY <1>4
  <2>2. TimeOf(r[a][1]) = rows[k].i % II /\ TimeOf(r[a][2]) = (rows[k].i + 1) % II
    BY <1>5, <2>1 DEF Leaves, Lands
  <2>3. TimeOf(r[a][1]) # -1
    <3>1. rows[k].i \in Nat
      BY <1>5, <2>1
    <3>2. rows[k].i % II \in 0 .. II - 1
      BY <1>1, <3>1, Slots
    <3>. QED
      BY <1>1, <2>2, <3>2
  <2>4. TimeOf(r[a][2]) = (TimeOf(r[a][1]) + 1) % II
    BY <1>1, <1>5, <2>1, <2>2, NextSlot
  <2>5. ASSUME a < end - first PROVE r[a][2] = r[a + 1][1]
    <3>1. a + 1 \in 1 .. end - first
      BY <1>2, <2>5
    <3>2. PICK l \in DOMAIN rows : /\ Key(l) = edges[j] /\ rows[l].i = first + (a + 1) - 1
                                   /\ r[a + 1] = sol[l]
      BY <1>4, <3>1
    <3>3. rows[l].i = rows[k].i + 1 /\ rows[k].i + 1 \in ContFirst(j) .. ContLast(j) - 1
      BY <1>2, <1>3, <2>1, <2>5, <3>2
    <3>4. rows[k].to = (rows[k].i + 1) % II
      BY <1>5, <2>1
    <3>5. PICK m \in DOMAIN rows : Key(m) = edges[j] /\ Leaves(sol, m) = Lands(sol, k)
      BY <2>1, <3>3, <3>4 DEF Solution, LeftOnTheWay
    <3>6. rows[m].from = rows[l].from
      BY <1>5, <2>1, <3>2, <3>3, <3>4, <3>5
    <3>7. m = l
      BY <1>6, <3>2, <3>5, <3>6
    <3>. QED
      BY <2>1, <3>2, <3>5, <3>7 DEF Leaves, Lands
  <2>6. <<PEOf(r[a][1]), PEOf(r[a][2])>> \in Links(problem.cgra)
    BY <1>1, <1>5, <2>1, <2>3, EdgeShape
  <2>7. rows[k].dd = d /\ r[a][2] = Lands(sol, k)
    BY <1>5, <2>1 DEF Lands
  <2>. QED
    BY <2>4, <2>5, <2>6, <2>7
<1>10. Span(j) = end - first
  BY DEF Span
<1>11. Span(j) \in Nat \ {0}
  BY <1>2, <1>10
<1>. QED
  BY <1>4, <1>7, <1>8, <1>9, <1>10, <1>11
-----------------------------------------------------------------------------
(* The mapping read off a solution is a legal modulo mapping.              *)
LEMMA LegalWhenMapped ==
    ASSUME IInv, Mapped, Once
    PROVE  Abstract!LegalMapping
<1>. DEFINE P == [d \in Ops |-> PlaceOf(d)]
            R == [e \in Edges |-> mapping[e]]
<1>1. Solution /\ problem \in Problems /\ II \in Nat \ {0}
  BY Solves, InputFacts DEF Solution
<1>2. \A j \in DOMAIN edges : Span(j) <= II
  <2>1. \A d \in Ops : ~OperandsDoubled(d)
    BY <1>1, OnceNotDoubled
  <2>. QED
    BY <1>1, <2>1, BoundedSpan, InputFacts
<1>3. \A d \in Ops : \E z \in DOMAIN rows :
         rows[z].dd = d /\ rows[z].to = Cycle(d) % II /\ PlaceOf(d) = Lands(sol, z)
  BY <1>1, <1>2, PlaceFacts
<1>4. ASSUME NEW d \in Ops PROVE Abstract!Placed(d)
  <2>1. PICK z \in DOMAIN rows : rows[z].to = Cycle(d) % II /\ PlaceOf(d) = Lands(sol, z)
    BY <1>3
  <2>2. sol[z] \in mrrg /\ TimeOf(Lands(sol, z)) = rows[z].to
    BY <1>1 DEF Solution, Picked
  <2>3. PlaceOf(d) \in problem.cgra.PEs \X {Cycle(d) % II}
    BY <1>1, <2>1, <2>2, EdgeShape DEF Lands
  <2>. QED
    BY <2>3 DEF Abstract!Placed, Abstract!Slot, Cycle, II
<1>5. ASSUME NEW j \in DOMAIN edges PROVE Abstract!Routed(edges[j])
  <2>. DEFINE e == edges[j]
              r == mapping[e]
              span == problem.cycle[e[2]] - problem.cycle[e[1]]
                      + (IF Abstract!NextIteration(e) THEN problem.II ELSE 0)
  <2>1. e[1] \in Ops /\ e[2] \in Ops /\ j # RootEdge /\ Cycle(e[1]) \in Nat /\ Cycle(e[2]) \in Nat
    BY <1>1, InputFacts
  <2>2. Abstract!NextIteration(e) <=> Recurrent(j)
    <3>1. Abstract!NextIteration(e) <=> (e[2] <= e[1] \/ \E k \in problem.ctrl : edges[k] = e)
      BY DEF Abstract!NextIteration, edges
    <3>2. (\E k \in problem.ctrl : edges[k] = e) <=> j \in problem.ctrl
      BY <1>1, InputFacts DEF Once
    <3>. QED
      BY <2>1, <3>1, <3>2 DEF Recurrent, isAnti
  <2>3. span = Span(j)
    BY <1>1, <2>1, <2>2 DEF Span, RowLast, RowFirst, Cycle, II
  <2>4. /\ Len(r) = Span(j) /\ Span(j) \in Nat \ {0}
        /\ r[1][1] = PlaceOf(e[1]) /\ r[Span(j)][2] = PlaceOf(e[2])
        /\ \A k \in 1 .. Span(j) :
              /\ <<PEOf(r[k][1]), PEOf(r[k][2])>> \in Links(problem.cgra)
              /\ TimeOf(r[k][2]) = (TimeOf(r[k][1]) + 1) % II
              /\ k < Span(j) => r[k][2] = r[k + 1][1]
    BY <1>1, <1>2, WalkFacts
  <2>5. R[e] = r /\ P[e[1]] = PlaceOf(e[1]) /\ P[e[2]] = PlaceOf(e[2])
    BY <2>1 DEF Edges
  <2>. HIDE DEF e, r, P, R, span
  <2>6. LET t == R[e]
        IN  /\ Len(t) = span
            /\ t[1][1] = P[e[1]] /\ t[span][2] = P[e[2]]
            /\ \A k \in 1 .. span :
                  /\ <<PEOf(t[k][1]), PEOf(t[k][2])>> \in Links(problem.cgra)
                  /\ TimeOf(t[k][2]) = (TimeOf(t[k][1]) + 1) % problem.II
                  /\ k < span => t[k][2] = t[k + 1][1]
    BY <2>3, <2>4, <2>5 DEF II
  <2>. QED
    BY <2>6 DEF Abstract!Routed, Abstract!PEOf, Abstract!TimeOf, Abstract!Links, PEOf, TimeOf,
       Links, e, P, R, span
<1>6. ASSUME NEW d \in Ops, NEW m \in Abstract!Uses(d)
      PROVE  \E k \in DOMAIN rows : rows[k].dd = d /\ Lands(sol, k) = m
  <2>1. m = PlaceOf(d) \/ \E j \in DOMAIN edges : \E k \in DOMAIN mapping[edges[j]] :
                             edges[j][2] = d /\ m = mapping[edges[j]][k][2]
    <3>1. Abstract!Uses(d) = {P[d]} \cup UNION {{R[e][k][2] : k \in DOMAIN R[e]} :
                                                  e \in {e \in DOMAIN R : e[2] = d}}
      BY DEF Abstract!Uses, Abstract!Hops
    <3>2. CASE m = P[d]
      BY <3>2
    <3>3. ASSUME NEW e \in DOMAIN R, e[2] = d, m \in {R[e][k][2] : k \in DOMAIN R[e]}
          PROVE  \E j \in DOMAIN edges : \E k \in DOMAIN mapping[edges[j]] :
                    edges[j][2] = d /\ m = mapping[edges[j]][k][2]
      <4>1. PICK j \in DOMAIN edges : e = edges[j]
        BY DEF Edges
      <4>. QED
        BY <3>3, <4>1
    <3>. HIDE DEF P, R
    <3>4. m = P[d] \/ \E e \in DOMAIN R : e[2] = d /\ m \in {R[e][k][2] : k \in DOMAIN R[e]}
      BY <1>6, <3>1
    <3>. QED
      BY <3>2, <3>3, <3>4 DEF P
  <2>2. CASE m = PlaceOf(d)
    BY <1>3, <2>2
  <2>3. ASSUME NEW j \in DOMAIN edges, NEW k \in DOMAIN mapping[edges[j]],
               edges[j][2] = d, m = mapping[edges[j]][k][2]
        PROVE  \E l \in DOMAIN rows : rows[l].dd = d /\ Lands(sol, l) = m
    <3>1. /\ edges[j] \in DOMAIN mapping
          /\ Len(mapping[edges[j]]) = Span(j) /\ Span(j) \in Nat
          /\ \A a \in 1 .. Span(j) : \E l \in DOMAIN rows :
                rows[l].dd = edges[j][2] /\ mapping[edges[j]][a][2] = Lands(sol, l)
      BY <1>1, <1>2, WalkFacts
    <3>2. DOMAIN mapping[edges[j]] = 1 .. Len(mapping[edges[j]])
      <4>1. mapping[edges[j]] = RouteOf(edges[j])
        BY <1>1, <3>1 DEF Solution
      <4>2. \E s : DOMAIN RouteOf(edges[j]) = 1 .. Cardinality(s) /\ Cardinality(s) \in Nat
        <5>. DEFINE S == {l \in DOMAIN rows : <<rows[l].ds, rows[l].dd>> = edges[j]}
        <5>1. S \in SUBSET (1 .. Len(rows)) /\ Len(rows) \in Nat
          BY <1>1 DEF Solution, RowsFull
        <5>2. DOMAIN RouteOf(edges[j]) = DOMAIN InOrder(S)
          BY DEF RouteOf
        <5>. QED
          BY <5>1, <5>2, InOrderLists
      <4>. QED
        BY <4>1, <4>2
    <3>. QED
      BY <2>3, <3>1, <3>2
  <2>. QED
    BY <2>1, <2>2, <2>3
<1>7. Abstract!Disjoint
  <2>1. SUFFICES ASSUME NEW n \in Ops, NEW o \in Ops, n # o, NEW m,
                        m \in Abstract!Uses(n), m \in Abstract!Uses(o)
                 PROVE  FALSE
    BY DEF Abstract!Disjoint, Abstract!Ops, Ops
  <2>2. PICK k \in DOMAIN rows : rows[k].dd = n /\ Lands(sol, k) = m
    BY <1>6, <2>1
  <2>3. PICK l \in DOMAIN rows : rows[l].dd = o /\ Lands(sol, l) = m
    BY <1>6, <2>1
  <2>. QED
    BY <1>1, <2>1, <2>2, <2>3, Landed
<1>. QED
  BY <1>4, <1>5, <1>7 DEF Abstract!LegalMapping, Abstract!Ops, Ops, Edges

(* What a step to a mapping has to bring about. *)
Legal == Mapped /\ Once => Abstract!LegalMapping

(* The integer program and the loops that write it implement the promise   *)
(* of ModuloMapping, for every graph, schedule, array and II: mapII gives  *)
(* up, or the mapping it reads off the solution is a legal one, provided   *)
(* no two edges of the graph join the same operations.                     *)
THEOREM RefinesModuloMapping == Spec => ImplementsModuloMapping
<1>1. Init => Abstract!Init
  BY DEF Init, Abstract!Init, Mapped, Returned
<1>2. IInv => Legal
  BY LegalWhenMapped DEF Legal
<1>3. IInv /\ Legal' /\ [Next]_vars => [Abstract!Next]_(Abstract!vars)
  <2>. SUFFICES ASSUME IInv, Legal', [Next]_vars
                PROVE  Abstract!Next \/ UNCHANGED Abstract!vars
    OBVIOUS
  <2>1. mapping # <<>> => pc = "done"
    BY DEF IInv, MappingInv
  <2>2. CASE NotSolved
    <3>1. pc = "solve" /\ pc' = "done" /\ mapping = <<>> /\ mapping' = <<>> /\ problem' = problem
      BY <2>1, <2>2 DEF NotSolved
    <3>. QED
      BY <3>1 DEF Abstract!Next, Abstract!Fail, Mapped, Returned
  <2>3. CASE Solved
    <3>1. pc = "solve" /\ pc' = "done" /\ mapping = <<>> /\ problem' = problem
      BY <2>1, <2>3 DEF Solved
    <3>2. CASE mapping' = <<>>
      BY <3>1, <3>2 DEF Abstract!Next, Abstract!Fail, Mapped, Returned
    <3>3. CASE mapping' # <<>>
      <4>1. Mapped' /\ ~Mapped /\ ~Returned
        BY <3>1, <3>3 DEF Mapped, Returned
      <4>2. Abstract!EdgesOnce => Once'
        BY <3>1 DEF Abstract!EdgesOnce, Once, edges
      <4>3. Abstract!EdgesOnce => Abstract!LegalMapping'
        BY <4>1, <4>2 DEF Legal
      <4>. QED
        BY <3>1, <4>1, <4>3 DEF Abstract!Next, Abstract!Map
    <3>. QED
      BY <3>2, <3>3
  <2>4. CASE UNCHANGED vars
    BY <2>4 DEF vars, Abstract!vars, Mapped, Returned, Edges, edges, Ops, PlaceOf, InEdges, SrcOf,
       Recurrent, isAnti
  <2>5. ASSUME pc # "done", pc' # "done", problem' = problem PROVE UNCHANGED Abstract!vars
    BY <2>5 DEF Abstract!vars, Mapped, Returned
  <2>6. CASE RowStep \/ RowLoopEnds \/ RowsNextOp \/ RowsDone \/ ContStep \/ ContLoopEnds
             \/ ContsNextOp \/ ContsDone \/ RowsDiverge \/ ContDiverge \/ Pick
    <3>1. pc # "done" /\ pc' # "done" /\ problem' = problem
      BY <2>6 DEF RowStep, RowLoopEnds, RowsNextOp, RowsDone, ContStep, ContLoopEnds,
         ContsNextOp, ContsDone, RowsDiverge, ContDiverge, Pick, Running, Over, Enter
    <3>. QED
      BY <2>5, <3>1
  <2>. QED
    BY <2>2, <2>3, <2>4, <2>6 DEF Next
<1>. QED
  BY <1>1, <1>2, <1>3, Invariant, PTL DEF Spec, ImplementsModuloMapping, Abstract!Spec
=============================================================================
