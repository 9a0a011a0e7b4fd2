--------------------------- MODULE FindPathProofs ---------------------------
(***************************************************************************)
(* The path search of the MRRG, on the graph of any array and interval,    *)
(* extended or not, and with its edges in any order.                       *)
(***************************************************************************)
EXTENDS FindPath, OrderProofs, SequenceTheorems

Graphs == search \in Searches /\ edges = EdgesOf(search)
-----------------------------------------------------------------------------
LEMMA InputFacts ==
    ASSUME Graphs
    PROVE  /\ search.II \in Nat \ {0} /\ search.TT \in Nat /\ search.II <= search.TT
           /\ search.cgra.connections \subseteq search.cgra.PEs \X search.cgra.PEs
           /\ src \in FUs /\ des \in FUs
           /\ TimeOf(src) \in 0 .. search.TT /\ TimeOf(des) \in 0 .. search.TT
           /\ FUs = search.cgra.PEs \X (0 .. search.TT)
           /\ Len(edges) \in Nat /\ DOMAIN edges = 1 .. Len(edges)
           /\ \A u, v : getEdge(u, v) <=> <<u, v>> \in Graph(search)
           /\ \A k \in DOMAIN edges : edges[k] \in Graph(search)
<1>1. /\ search.II \in Nat \ {0} /\ search.TT \in Nat /\ search.II <= search.TT
      /\ search.cgra.connections \subseteq search.cgra.PEs \X search.cgra.PEs
      /\ src \in FUs /\ des \in FUs
  BY SearchesAssumption DEF Graphs, src, des, FUs
<1>2. FUs = search.cgra.PEs \X (0 .. search.TT)
  BY DEF FUs, FUsBetween
<1>3. TimeOf(src) \in 0 .. search.TT /\ TimeOf(des) \in 0 .. search.TT
  BY <1>1, <1>2 DEF TimeOf
<1>4. /\ Len(edges) \in Nat /\ DOMAIN edges = 1 .. Len(edges)
      /\ {edges[k] : k \in DOMAIN edges} = Graph(search)
  BY EdgesAssumption DEF Graphs
<1>5. /\ \A u, v : getEdge(u, v) <=> <<u, v>> \in Graph(search)
      /\ \A k \in DOMAIN edges : edges[k] \in Graph(search)
  BY <1>4 DEF getEdge
<1>. QED
  BY <1>1, <1>2, <1>3, <1>4, <1>5

(* What an edge of the graph can be. *)
LEMMA EdgeKinds ==
    ASSUME Graphs, NEW e \in Graph(search)
    PROVE  /\ e = <<e[1], e[2]>> /\ e[2] \in FUs
           /\ \/ e[1] \in {RootNode, search.stale}
              \/ /\ <<PEOf(e[1]), PEOf(e[2])>> \in Links(search.cgra)
                 /\ \/ TimeOf(e[2]) = TimeOf(e[1]) + 1
                    \/ TimeOf(e[2]) = 0 /\ TimeOf(e[1]) \in Closings
<1>. DEFINE PEs == search.cgra.PEs
            II == search.II
            TT == search.TT
<1>1. /\ II \in Nat \ {0} /\ TT \in Nat /\ II <= TT /\ FUs = PEs \X (0 .. TT)
      /\ Links(search.cgra) \subseteq PEs \X PEs
  BY InputFacts DEF Links
<1>2. ASSUME NEW root, NEW lo \in Nat, NEW hi \in Nat, hi <= TT,
             e \in {<<root, fu>> : fu \in FUsBetween(search.cgra, lo, hi)}
      PROVE  e = <<root, e[2]>> /\ e[2] \in FUs
  BY <1>1, <1>2 DEF FUsBetween
<1>3. ASSUME NEW lo \in Nat, NEW hi \in Nat, hi <= TT, e \in StepEdges(search.cgra, lo, hi)
      PROVE  /\ e = <<e[1], e[2]>> /\ e[2] \in FUs
             /\ <<PEOf(e[1]), PEOf(e[2])>> \in Links(search.cgra)
             /\ TimeOf(e[2]) = TimeOf(e[1]) + 1
  <2>1. PICK l \in Links(search.cgra), t \in (lo .. hi) \ {0} :
            e = <<<<l[1], t - 1>>, <<l[2], t>>>>
    BY <1>3 DEF StepEdges
  <2>2. l = <<l[1], l[2]>> /\ l[2] \in PEs
    BY <1>1, <2>1
  <2>3. t \in 0 .. TT
    BY <1>1, <1>3, <2>1
  <2>. QED
    BY <1>1, <2>1, <2>2, <2>3 DEF PEOf, TimeOf
<1>4. ASSUME NEW t \in Nat, t - 1 \in Closings, e \in WrapEdges(search.cgra, t)
      PROVE  /\ e = <<e[1], e[2]>> /\ e[2] \in FUs
             /\ <<PEOf(e[1]), PEOf(e[2])>> \in Links(search.cgra)
             /\ TimeOf(e[2]) = 0 /\ TimeOf(e[1]) \in Closings
  <2>1. PICK l \in Links(search.cgra) : e = <<<<l[1], t - 1>>, <<l[2], 0>>>>
    BY <1>4 DEF WrapEdges
  <2>2. l = <<l[1], l[2]>> /\ l[2] \in PEs
    BY <1>1, <2>1
  <2>. QED
    BY <1>1, <1>4, <2>1, <2>2 DEF PEOf, TimeOf
<1>5. CASE e \in MRRGEdges(search.cgra, II)
  <2>1. II - 1 \in Closings
    BY <1>1 DEF Closings
  <2>2. \/ e \in {<<RootNode, fu>> : fu \in FUsBetween(search.cgra, 0, II)}
        \/ e \in StepEdges(search.cgra, 0, II)
        \/ e \in WrapEdges(search.cgra, II)
    BY <1>5 DEF MRRGEdges, AddedEdges, Closed
  <2>. QED
    BY <1>1, <1>2, <1>3, <1>4, <2>1, <2>2
<1>6. CASE e \in AddedEdges(search.cgra, search.stale, II + 1, TT)
  <2>1. \A t \in II + 1 .. TT : t \in Nat /\ t - 1 \in Closings
    BY <1>1 DEF Closings
  <2>2. \/ e \in {<<search.stale, fu>> : fu \in FUsBetween(search.cgra, II + 1, TT)}
        \/ e \in StepEdges(search.cgra, II + 1, TT)
        \/ \E t \in II + 1 .. TT : e \in WrapEdges(search.cgra, t)
    BY <1>1, <1>6 DEF AddedEdges, Closed
  <2>. QED
    BY <1>1, <1>2, <1>3, <1>4, <2>1, <2>2
<1>. QED
  BY <1>5, <1>6 DEF Graph

(* Where the edges out of a functional unit lead. *)
LEMMA EdgesOut ==
    ASSUME Graphs, NEW u \in FUs, NEW v, getEdge(u, v)
    PROVE  /\ v \in FUs
           /\ ~StaleUsed => /\ <<PEOf(u), PEOf(v)>> \in Links(search.cgra)
                            /\ \/ TimeOf(v) = TimeOf(u) + 1
                               \/ TimeOf(v) = 0 /\ TimeOf(u) \in Closings
<1>1. <<u, v>> \in Graph(search)
  BY InputFacts
<1>2. u # RootNode
  BY InputFacts DEF RootNode
<1>3. ~StaleUsed => u # search.stale
  BY DEF StaleUsed
<1>. QED
  BY <1>1, <1>2, <1>3, EdgeKinds

(* The edges that are there: one cycle on along a link, and around.        *)
LEMMA EdgesThere ==
    ASSUME Graphs, NEW l \in Links(search.cgra), NEW t \in 0 .. search.TT
    PROVE  /\ t < search.TT => getEdge(<<l[1], t>>, <<l[2], t + 1>>)
           /\ t \in Closings => getEdge(<<l[1], t>>, <<l[2], 0>>)
<1>. DEFINE II == search.II
            TT == search.TT
<1>1. /\ II \in Nat \ {0} /\ TT \in Nat /\ II <= TT /\ t \in Nat
      /\ \A u, v : getEdge(u, v) <=> <<u, v>> \in Graph(search)
  BY InputFacts
<1>2. ASSUME t < TT PROVE <<<<l[1], t>>, <<l[2], t + 1>>>> \in Graph(search)
  <2>. DEFINE e == <<<<l[1], t>>, <<l[2], t + 1>>>>
  <2>1. t + 1 - 1 = t /\ t + 1 \in Nat \ {0}
    BY <1>1
  <2>2. CASE t + 1 <= II
    <3>1. t + 1 \in (0 .. II) \ {0}
      BY <1>1, <2>1, <2>2
    <3>2. e \in StepEdges(search.cgra, 0, II)
      BY <2>1, <3>1 DEF StepEdges
    <3>. QED
      BY <3>2 DEF Graph, MRRGEdges, AddedEdges
  <2>3. CASE ~(t + 1 <= II)
    <3>1. t + 1 \in (II + 1 .. TT) \ {0} /\ TT # II
      BY <1>1, <1>2, <2>1, <2>3
    <3>2. e \in StepEdges(search.cgra, II + 1, TT)
      BY <2>1, <3>1 DEF StepEdges
    <3>. QED
      BY <3>1, <3>2 DEF Graph, AddedEdges
  <2>. QED
    BY <2>2, <2>3
<1>3. ASSUME t \in Closings PROVE <<<<l[1], t>>, <<l[2], 0>>>> \in Graph(search)
  <2>. DEFINE e == <<<<l[1], t>>, <<l[2], 0>>>>
  <2>1. t + 1 - 1 = t /\ e \in WrapEdges(search.cgra, t + 1)
    BY <1>1 DEF WrapEdges
  <2>2. CASE t = II - 1
    <3>1. e \in WrapEdges(search.cgra, II)
      BY <1>1, <2>1, <2>2
    <3>. QED
      BY <3>1 DEF Graph, MRRGEdges, AddedEdges, Closed
  <2>3. CASE t # II - 1
    <3>1. t + 1 \in II + 1 .. TT /\ TT # II /\ II + 1 # 0
      BY <1>1, <1>3, <2>3 DEF Closings
    <3>. QED
      BY <2>1, <3>1 DEF Graph, AddedEdges, Closed
  <2>. QED
    BY <2>2, <2>3
<1>. QED
  BY <1>1, <1>2, <1>3

(* The children of a node are the ends of the edges that leave it. *)
LEMMA ChildrenFacts ==
    ASSUME Graphs, NEW u \in FUs
    PROVE  /\ childrenOf(u) \in Seq(FUs)
           /\ \A j \in 1 .. Len(childrenOf(u)) : getEdge(u, childrenOf(u)[j])
           /\ \A v : getEdge(u, v) => \E j \in 1 .. Len(childrenOf(u)) : childrenOf(u)[j] = v
<1>. DEFINE S == {k \in DOMAIN edges : edges[k][1] = u}
            out == InOrder(S)
            c == Cardinality(S)
<1>1. /\ Len(edges) \in Nat /\ S \in SUBSET (1 .. Len(edges))
      /\ \A k \in DOMAIN edges : edges[k] = <<edges[k][1], edges[k][2]>>
  BY InputFacts, EdgeKinds
<1>2. /\ c \in Nat /\ DOMAIN out = 1 .. c
      /\ \A j \in 1 .. c : out[j] \in S
      /\ \A k \in S : \E j \in 1 .. c : out[j] = k
  <2>. HIDE DEF S
  <2>. QED
    BY <1>1, InOrderLists
<1>3. childrenOf(u) = [j \in 1 .. c |-> edges[out[j]][2]]
  BY <1>2 DEF childrenOf
<1>4. \A k \in S : getEdge(u, edges[k][2])
  BY <1>1 DEF getEdge
<1>. HIDE DEF S, out, c
<1>5. \A j \in 1 .. c : /\ childrenOf(u)[j] = edges[out[j]][2]
                        /\ getEdge(u, childrenOf(u)[j])
  BY <1>2, <1>3, <1>4
<1>6. \A j \in 1 .. c : childrenOf(u)[j] \in FUs
  BY <1>5, EdgesOut
<1>7. childrenOf(u) \in Seq(FUs) /\ Len(childrenOf(u)) = c
  BY <1>2, <1>3, <1>6
<1>8. ASSUME NEW v, getEdge(u, v) PROVE \E j \in 1 .. c : childrenOf(u)[j] = v
  <2>1. PICK k \in S : edges[k][2] = v
    BY <1>8 DEF getEdge, S
  <2>2. PICK j \in 1 .. c : out[j] = k
    BY <1>2
  <2>. QED
    BY <1>5, <2>1, <2>2
<1>. QED
  BY <1>5, <1>7, <1>8
-----------------------------------------------------------------------------
LEMMA SameSearch ==
    ASSUME UNCHANGED <<search, edges>>
    PROVE  /\ src' = src /\ des' = des /\ FUs' = FUs /\ Closings' = Closings
           /\ StaleUsed' = StaleUsed /\ Crosses' = Crosses /\ Walks' = Walks
           /\ \A u, v : getEdge(u, v)' = getEdge(u, v)
           /\ Graphs => Graphs'
  BY DEF src, des, FUs, Closings, StaleUsed, Crosses, Walks, getEdge, Graphs

LEMMA MaximumExists ==
    ASSUME NEW n \in Nat, NEW S \in SUBSET (1 .. n)
    PROVE  \E b \in {0} \cup S : \A k \in {0} \cup S : k <= b
<1>. DEFINE c == Cardinality(S)
<1>1. /\ c \in Nat
      /\ \A j \in 1 .. c : InOrder(S)[j] \in S
      /\ \A k \in S : \E j \in 1 .. c : InOrder(S)[j] = k
      /\ \A i, j \in 1 .. c : i < j => InOrder(S)[i] < InOrder(S)[j]
  BY InOrderLists
<1>. HIDE DEF c
<1>9. \A k \in S : k \in Int /\ 0 <= k
  OBVIOUS
<1>2. CASE c = 0
  <2>1. ASSUME NEW k \in S PROVE FALSE
    <3>1. PICK j \in 1 .. c : InOrder(S)[j] = k
      BY <1>1
    <3>. QED
      BY <1>2
  <2>. QED
    BY <2>1
<1>3. CASE c # 0
  <2>1. c \in 1 .. c
    BY <1>1, <1>3
  <2>2. ASSUME NEW k \in S PROVE k <= InOrder(S)[c]
    <3>1. PICK j \in 1 .. c : InOrder(S)[j] = k
      BY <1>1
    <3>2. j = c \/ j < c
      BY <1>1
    <3>3. k \in Int /\ InOrder(S)[c] \in Int
      BY <1>1, <1>9, <2>1
    <3>4. j < c => k < InOrder(S)[c]
      BY <1>1, <2>1, <3>1
    <3>. QED
      BY <3>1, <3>2, <3>3, <3>4
  <2>3. InOrder(S)[c] \in S /\ 0 <= InOrder(S)[c]
    BY <1>1, <1>9, <2>1
  <2>. QED
    BY <2>2, <2>3
<1>. QED
  BY <1>2, <1>3

LEMMA PrefixFacts ==
    ASSUME NEW T, NEW s \in Seq(T), NEW b \in 0 .. Len(s)
    PROVE  /\ SubSeq(s, 1, b) \in Seq(T) /\ Len(SubSeq(s, 1, b)) = b
           /\ \A k \in 1 .. b : SubSeq(s, 1, b)[k] = s[k]
<1>1. Len(s) \in Nat /\ \A k \in 1 .. Len(s) : s[k] \in T
  BY LenProperties, ElementOfSeq
<1>2. 1 \in 1 .. Len(s) + 1 /\ b \in 1 - 1 .. Len(s)
  BY <1>1
<1>. QED
  BY <1>1, <1>2, SubSeqProperties

LEMMA ConcatFacts ==
    ASSUME NEW T, NEW s \in Seq(T), NEW t \in Seq(T), NEW n \in Nat \ {0}, Len(s) = n - 1,
           NEW st, st = s \o t
    PROVE  /\ st \in Seq(T)
           /\ Len(st) \in Nat
           /\ n - 1 <= Len(st)
           /\ \A i \in 1 .. n - 1 : st[i] = s[i]
           /\ \A i \in n .. Len(st) : i - n + 1 \in 1 .. Len(t) /\ st[i] = t[i - n + 1]
           /\ \A j \in 1 .. Len(t) : j + n - 1 \in n .. Len(st) /\ st[j + n - 1] = t[j]
<1>1. Len(s) \in Nat /\ Len(t) \in Nat
  BY LenProperties
<1>2. /\ st \in Seq(T) /\ Len(st) = n - 1 + Len(t)
      /\ \A i \in 1 .. n - 1 + Len(t) :
            st[i] = IF i <= n - 1 THEN s[i] ELSE t[i - (n - 1)]
  <2>1. /\ s \o t \in Seq(T)
        /\ Len(s \o t) = Len(s) + Len(t)
        /\ \A i \in 1 .. Len(s) + Len(t) :
              (s \o t)[i] = IF i <= Len(s) THEN s[i] ELSE t[i - Len(s)]
    BY ConcatProperties, Zenon
  <2>. QED
    BY <2>1, Zenon
<1>3. \A i \in 1 .. n - 1 : i \in 1 .. n - 1 + Len(t) /\ i <= n - 1
  BY <1>1
<1>4. \A i \in n .. n - 1 + Len(t) : /\ i \in 1 .. n - 1 + Len(t) /\ ~(i <= n - 1)
                                     /\ i - (n - 1) = i - n + 1
                                     /\ i - n + 1 \in 1 .. Len(t)
  BY <1>1
<1>5. \A j \in 1 .. Len(t) : /\ j + n - 1 \in n .. n - 1 + Len(t)
                             /\ j + n - 1 - n + 1 = j
  BY <1>1
<1>6. \A i \in n .. n - 1 + Len(t) : st[i] = t[i - n + 1]
  BY <1>2, <1>4
<1>7. ASSUME NEW j \in 1 .. Len(t) PROVE st[j + n - 1] = t[j]
  <2>1. PICK k : k = j + n - 1
    OBVIOUS
  <2>2. k \in n .. n - 1 + Len(t) /\ k - n + 1 = j
    BY <1>1, <2>1
  <2>. QED
    BY <1>6, <2>1, <2>2
<1>8. Len(st) \in Nat /\ n - 1 <= Len(st)
  BY <1>1, <1>2
<1>9. \A i \in 1 .. n - 1 : st[i] = s[i]
  BY <1>2, <1>3
<1>. QED
  BY <1>2, <1>4, <1>5, <1>6, <1>7, <1>8, <1>9

(* Taking the top off the stack: the longest prefix of the path that leads *)
(* to it is kept.                                                          *)
LEMMA VisitFacts ==
    ASSUME Graphs, notVstd \in Seq(FUs), curPath \in Seq(FUs), notVstd # <<>>
    PROVE  /\ Len(notVstd) \in Nat \ {0} /\ Len(curPath) \in Nat
           /\ cur \in FUs /\ TimeOf(cur) \in 0 .. search.TT
           /\ Popped \in Seq(FUs) /\ Len(Popped) = Len(notVstd) - 1
           /\ \A i \in 1 .. Len(notVstd) - 1 : Popped[i] = notVstd[i]
           /\ \E b \in 0 .. Len(curPath) :
                /\ Backtracked \in Seq(FUs) /\ Len(Backtracked) = b + 1
                /\ Backtracked[b + 1] = cur
                /\ \A k \in 1 .. b : Backtracked[k] = curPath[k]
                /\ b # 0 => getEdge(curPath[b], cur)
                /\ \A k \in 1 .. Len(curPath) : getEdge(curPath[k], cur) => k <= b
<1>1. Len(notVstd) \in Nat \ {0} /\ Len(curPath) \in Nat /\ DOMAIN curPath = 1 .. Len(curPath)
  BY EmptySeq, LenProperties
<1>2. cur \in FUs
  BY <1>1, ElementOfSeq DEF cur
<1>3. TimeOf(cur) \in 0 .. search.TT
  BY <1>2, InputFacts DEF TimeOf
<1>4. /\ Popped \in Seq(FUs) /\ Len(Popped) = Len(notVstd) - 1
      /\ \A i \in 1 .. Len(notVstd) - 1 : Popped[i] = notVstd[i]
  <2>1. Len(notVstd) - 1 \in 0 .. Len(notVstd)
    BY <1>1
  <2>. QED
    BY <2>1, PrefixFacts DEF Popped
<1>. DEFINE S == {k \in DOMAIN curPath : getEdge(curPath[k], cur)}
            ok == {0} \cup S
            b == CHOOSE k \in ok : \A j \in ok : j <= k
<1>5. b \in ok /\ \A j \in ok : j <= b
  <2>1. S \in SUBSET (1 .. Len(curPath))
    BY <1>1
  <2>2. \E k \in ok : \A j \in ok : j <= k
    <3>. HIDE DEF S
    <3>. QED
      BY <1>1, <2>1, MaximumExists
  <2>. HIDE DEF ok
  <2>. QED
    BY <2>2
<1>6. Backtracked = Append(SubSeq(curPath, 1, b), cur)
  BY DEF Backtracked
<1>7. b \in 0 .. Len(curPath)
  BY <1>1, <1>5
<1>8. b # 0 => getEdge(curPath[b], cur)
  BY <1>5
<1>9. \A k \in 1 .. Len(curPath) : getEdge(curPath[k], cur) => k <= b
  BY <1>1, <1>5
<1>. HIDE DEF S, ok, b
<1>10. /\ SubSeq(curPath, 1, b) \in Seq(FUs) /\ Len(SubSeq(curPath, 1, b)) = b
       /\ \A k \in 1 .. b : SubSeq(curPath, 1, b)[k] = curPath[k]
  BY <1>7, PrefixFacts
<1>11. /\ Backtracked \in Seq(FUs) /\ Len(Backtracked) = b + 1
       /\ Backtracked[b + 1] = cur
       /\ \A k \in 1 .. b : Backtracked[k] = curPath[k]
  BY <1>2, <1>6, <1>7, <1>10, AppendProperties
<1>. QED
  BY <1>1, <1>2, <1>3, <1>4, <1>7, <1>8, <1>9, <1>11

(* Its children are then on top of the stack. *)
LEMMA PushFacts ==
    ASSUME Graphs, notVstd \in Seq(FUs), curPath \in Seq(FUs), notVstd # <<>>,
           NEW st, st = Popped \o childrenOf(cur)
    PROVE  /\ st \in Seq(FUs) /\ Len(st) \in Nat /\ Len(notVstd) - 1 <= Len(st)
           /\ \A i \in 1 .. Len(notVstd) - 1 : st[i] = notVstd[i]
           /\ \A i \in Len(notVstd) .. Len(st) : getEdge(cur, st[i])
           /\ \A v : getEdge(cur, v) => \E i \in Len(notVstd) .. Len(st) : st[i] = v
<1>1. /\ Len(notVstd) \in Nat \ {0} /\ Popped \in Seq(FUs) /\ Len(Popped) = Len(notVstd) - 1
      /\ \A i \in 1 .. Len(notVstd) - 1 : Popped[i] = notVstd[i]
  BY VisitFacts
<1>2. /\ childrenOf(cur) \in Seq(FUs)
      /\ \A j \in 1 .. Len(childrenOf(cur)) : getEdge(cur, childrenOf(cur)[j])
      /\ \A v : getEdge(cur, v) => \E j \in 1 .. Len(childrenOf(cur)) : childrenOf(cur)[j] = v
  BY VisitFacts, ChildrenFacts
<1>3. PICK n, s, t : n = Len(notVstd) /\ s = Popped /\ t = childrenOf(cur)
  OBVIOUS
<1>4. st = s \o t /\ s \in Seq(FUs) /\ t \in Seq(FUs) /\ n \in Nat \ {0} /\ Len(s) = n - 1
  BY <1>1, <1>2, <1>3
<1>5. /\ st \in Seq(FUs) /\ Len(st) \in Nat /\ n - 1 <= Len(st)
      /\ \A i \in 1 .. n - 1 : st[i] = s[i]
      /\ \A i \in n .. Len(st) : i - n + 1 \in 1 .. Len(t) /\ st[i] = t[i - n + 1]
      /\ \A j \in 1 .. Len(t) : j + n - 1 \in n .. Len(st) /\ st[j + n - 1] = t[j]
  BY <1>4, ConcatFacts
<1>6. \A i \in n .. Len(st) : getEdge(cur, st[i])
  BY <1>2, <1>3, <1>5
<1>7. ASSUME NEW v, getEdge(cur, v) PROVE \E i \in n .. Len(st) : st[i] = v
  <2>1. PICK j \in 1 .. Len(t) : t[j] = v
    BY <1>2, <1>3, <1>7
  <2>. QED
    BY <1>5, <2>1
<1>. QED
  BY <1>1, <1>3, <1>5, <1>6, <1>7
-----------------------------------------------------------------------------
(* The search before its first node, or with a path that starts at src and *)
(* leads, before the time of des, to every node of the stack, to the upper *)
(* ones from further on.                                                   *)
LeadsToStack(par) ==
    /\ \A i, j \in 1 .. Len(notVstd) : i <= j => par[i] <= par[j]
    /\ \A i \in 1 .. Len(notVstd) : /\ getEdge(curPath[par[i]], notVstd[i])
                                    /\ TimeOf(curPath[par[i]]) < TimeOf(des)

Rooted ==
    \/ curPath = <<>> /\ notVstd = <<src>>
    \/ /\ curPath # <<>> /\ curPath[1] = src
       /\ \E par \in [1 .. Len(notVstd) -> 1 .. Len(curPath)] : LeadsToStack(par)

StackInv ==
    /\ notVstd \in Seq(FUs) /\ curPath \in Seq(FUs)
    /\ pc \in {"start", "search", "done", "failed"}
    /\ pc = "start" => notVstd = <<>> /\ curPath = <<>> /\ paths = {}
    /\ pc = "search" => TimeOf(src) < TimeOf(des) /\ Rooted
    /\ \A p \in paths : p[1] = src /\ p[Len(p)] = des

(* Visiting the top keeps src at the start of the path. *)
LEMMA VisitRooted ==
    ASSUME Graphs, StackInv, Searching
    PROVE  /\ Backtracked \in Seq(FUs) /\ Backtracked # <<>> /\ Backtracked[1] = src
           /\ Backtracked[Len(Backtracked)] = cur
<1>1. /\ notVstd \in Seq(FUs) /\ curPath \in Seq(FUs) /\ notVstd # <<>> /\ Rooted
  BY DEF StackInv, Searching
<1>2. Len(notVstd) \in Nat \ {0} /\ Len(curPath) \in Nat
  BY <1>1, VisitFacts
<1>3. PICK b \in 0 .. Len(curPath) :
        /\ Backtracked \in Seq(FUs) /\ Len(Backtracked) = b + 1
        /\ Backtracked[b + 1] = cur
        /\ \A k \in 1 .. b : Backtracked[k] = curPath[k]
        /\ \A k \in 1 .. Len(curPath) : getEdge(curPath[k], cur) => k <= b
  BY <1>1, VisitFacts
<1>4. Backtracked # <<>>
  BY <1>3
<1>5. CASE curPath = <<>> /\ notVstd = <<src>>
  <2>1. b = 0 /\ cur = src
    BY <1>3, <1>5 DEF cur
  <2>. QED
    BY <1>3, <1>4, <2>1
<1>6. CASE /\ curPath # <<>> /\ curPath[1] = src
           /\ \E par \in [1 .. Len(notVstd) -> 1 .. Len(curPath)] : LeadsToStack(par)
  <2>1. PICK par \in [1 .. Len(notVstd) -> 1 .. Len(curPath)] : LeadsToStack(par)
    BY <1>6
  <2>2. Len(notVstd) \in 1 .. Len(notVstd)
    BY <1>2
  <2>3. par[Len(notVstd)] \in 1 .. Len(curPath) /\ getEdge(curPath[par[Len(notVstd)]], cur)
    BY <2>1, <2>2 DEF LeadsToStack, cur
  <2>4. 1 \in 1 .. b
    BY <1>2, <1>3, <2>3
  <2>. QED
    BY <1>3, <1>4, <1>6, <2>4
<1>. QED
  BY <1>1, <1>5, <1>6 DEF Rooted

(* ... and leads to the nodes below it. *)
LEMMA VisitLeads ==
    ASSUME Graphs, StackInv, Searching
    PROVE  \E par \in [1 .. Len(notVstd) - 1 -> 1 .. Len(Backtracked)] :
              /\ \A i, j \in 1 .. Len(notVstd) - 1 : i <= j => par[i] <= par[j]
              /\ \A i \in 1 .. Len(notVstd) - 1 :
                    /\ par[i] < Len(Backtracked) /\ getEdge(Backtracked[par[i]], notVstd[i])
                    /\ TimeOf(Backtracked[par[i]]) < TimeOf(des)
<1>1. /\ notVstd \in Seq(FUs) /\ curPath \in Seq(FUs) /\ notVstd # <<>> /\ Rooted
  BY DEF StackInv, Searching
<1>2. Len(notVstd) \in Nat \ {0} /\ Len(curPath) \in Nat
  BY <1>1, VisitFacts
<1>3. PICK b \in 0 .. Len(curPath) :
        /\ Backtracked \in Seq(FUs) /\ Len(Backtracked) = b + 1
        /\ \A k \in 1 .. b : Backtracked[k] = curPath[k]
        /\ \A k \in 1 .. Len(curPath) : getEdge(curPath[k], cur) => k <= b
  BY <1>1, VisitFacts
<1>4. PICK n : n = Len(notVstd)
  OBVIOUS
<1>5. CASE curPath = <<>> /\ notVstd = <<src>>
  <2>1. 1 .. n - 1 = {}
    BY <1>4, <1>5
  <2>2. [i \in 1 .. n - 1 |-> 1] \in [1 .. n - 1 -> 1 .. Len(Backtracked)]
    BY <2>1
  <2>. QED
    BY <1>4, <2>1, <2>2
<1>6. CASE \E par \in [1 .. Len(notVstd) -> 1 .. Len(curPath)] : LeadsToStack(par)
  <2>1. PICK par \in [1 .. n -> 1 .. Len(curPath)] : LeadsToStack(par)
    BY <1>4, <1>6
  <2>2. n \in 1 .. n /\ \A i \in 1 .. n - 1 : i \in 1 .. n /\ i <= n
    BY <1>2, <1>4
  <2>3. par[n] \in 1 .. Len(curPath) /\ getEdge(curPath[par[n]], cur)
    BY <1>4, <2>1, <2>2 DEF LeadsToStack, cur
  <2>4. par[n] <= b
    BY <1>3, <2>3
  <2>5. \A i \in 1 .. n - 1 : /\ par[i] \in 1 .. Len(curPath) /\ par[i] <= par[n]
                              /\ getEdge(curPath[par[i]], notVstd[i])
                              /\ TimeOf(curPath[par[i]]) < TimeOf(des)
    BY <1>4, <2>1, <2>2 DEF LeadsToStack
  <2>6. \A i \in 1 .. n - 1 : par[i] \in 1 .. b
    <3>1. \A a \in 1 .. Len(curPath) : a <= par[n] => a \in 1 .. b
      BY <1>2, <2>3, <2>4
    <3>. QED
      BY <2>5, <3>1
  <2>7. \A i \in 1 .. n - 1 : /\ getEdge(Backtracked[par[i]], notVstd[i])
                              /\ TimeOf(Backtracked[par[i]]) < TimeOf(des)
    BY <1>3, <2>5, <2>6
  <2>8. \A a \in 1 .. b : a \in 1 .. Len(Backtracked) /\ a < Len(Backtracked)
    BY <1>3
  <2>. DEFINE q == [i \in 1 .. n - 1 |-> par[i]]
  <2>9. q \in [1 .. n - 1 -> 1 .. Len(Backtracked)] /\ \A i \in 1 .. n - 1 : q[i] = par[i]
    BY <2>6, <2>8
  <2>10. \A i, j \in 1 .. n - 1 : i <= j => par[i] <= par[j]
    BY <1>4, <2>1, <2>2 DEF LeadsToStack
  <2>. HIDE DEF q
  <2>11. \A i, j \in 1 .. n - 1 : i <= j => q[i] <= q[j]
    BY <2>9, <2>10
  <2>12. \A i \in 1 .. n - 1 :
            /\ q[i] < Len(Backtracked) /\ getEdge(Backtracked[q[i]], notVstd[i])
            /\ TimeOf(Backtracked[q[i]]) < TimeOf(des)
    BY <2>6, <2>7, <2>8, <2>9
  <2>. QED
    BY <1>4, <2>9, <2>11, <2>12
<1>. QED
  BY <1>1, <1>5, <1>6 DEF Rooted

LEMMA StackInit == Init => Graphs /\ StackInv
<1>. SUFFICES ASSUME Init PROVE Graphs /\ StackInv
  OBVIOUS
<1>1. notVstd \in Seq(FUs) /\ curPath \in Seq(FUs)
  BY EmptySeq DEF Init
<1>. QED
  BY <1>1 DEF Init, Graphs, StackInv

LEMMA StackStep ==
    ASSUME Graphs, StackInv, [Next]_vars
    PROVE  Graphs' /\ StackInv'
<1>0. UNCHANGED <<search, edges>>
  BY DEF Next, Reject, Begin, VisitLeaf, VisitInner, VisitBeyond, Return, vars
<1>1. /\ src' = src /\ des' = des /\ FUs' = FUs /\ Graphs'
      /\ \A u, v : getEdge(u, v)' = getEdge(u, v)
  BY <1>0, SameSearch
<1>2. CASE UNCHANGED vars
  BY <1>0, <1>1, <1>2 DEF vars, StackInv, Rooted, LeadsToStack
<1>3. CASE Reject
  BY <1>1, <1>3 DEF Reject, StackInv
<1>4. CASE Begin
  <2>1. src \in FUs
    BY InputFacts
  <2>2. <<src>> \in Seq(FUs)
    BY <2>1
  <2>. QED
    BY <1>1, <1>4, <2>2 DEF Begin, StackInv, Rooted
<1>5. CASE VisitLeaf
  <2>1. Searching /\ curPath' = Backtracked /\ notVstd' = Popped /\ pc' = "search"
    BY <1>5 DEF VisitLeaf, Searching
  <2>2. /\ curPath' \in Seq(FUs) /\ curPath' # <<>> /\ curPath'[1] = src
        /\ curPath'[Len(curPath')] = cur
    BY <2>1, VisitRooted
  <2>3. /\ notVstd' \in Seq(FUs) /\ Len(notVstd') = Len(notVstd) - 1
        /\ \A i \in 1 .. Len(notVstd) - 1 : notVstd'[i] = notVstd[i]
    BY <2>1, VisitFacts DEF Searching, StackInv
  <2>4. PICK par \in [1 .. Len(notVstd') -> 1 .. Len(curPath')] :
            /\ \A i, j \in 1 .. Len(notVstd') : i <= j => par[i] <= par[j]
            /\ \A i \in 1 .. Len(notVstd') : /\ getEdge(curPath'[par[i]], notVstd[i])
                                             /\ TimeOf(curPath'[par[i]]) < TimeOf(des)
    BY <2>1, <2>3, VisitLeads
  <2>5. Rooted'
    BY <1>1, <2>2, <2>3, <2>4 DEF Rooted, LeadsToStack
  <2>6. \A p \in paths' : p[1] = src /\ p[Len(p)] = des
    BY <1>5, <2>2 DEF VisitLeaf, StackInv
  <2>7. TimeOf(src) < TimeOf(des)
    BY <2>1 DEF Searching, StackInv
  <2>. QED
    BY <1>1, <2>1, <2>2, <2>3, <2>5, <2>6, <2>7 DEF StackInv
<1>6. CASE VisitInner
  <2>1. /\ Searching /\ curPath' = Backtracked /\ notVstd' = Popped \o childrenOf(cur)
        /\ pc' = "search" /\ paths' = paths /\ TimeOf(cur) < TimeOf(des)
    BY <1>6 DEF VisitInner, Searching
  <2>2. /\ curPath' \in Seq(FUs) /\ curPath' # <<>> /\ curPath'[1] = src
        /\ curPath'[Len(curPath')] = cur
    BY <2>1, VisitRooted
  <2>. PICK n, st, pth, u : n = Len(notVstd) /\ st = notVstd' /\ pth = curPath' /\ u = cur
    OBVIOUS
  <2>3. /\ st \in Seq(FUs) /\ Len(st) \in Nat /\ n - 1 <= Len(st) /\ n \in Nat \ {0}
        /\ \A i \in 1 .. n - 1 : st[i] = notVstd[i]
        /\ \A i \in n .. Len(st) : getEdge(u, st[i])
    BY <2>1, VisitFacts, PushFacts DEF Searching, StackInv
  <2>4. PICK par \in [1 .. n - 1 -> 1 .. Len(pth)] :
            /\ \A i, j \in 1 .. n - 1 : i <= j => par[i] <= par[j]
            /\ \A i \in 1 .. n - 1 : /\ par[i] < Len(pth) /\ getEdge(pth[par[i]], notVstd[i])
                                      /\ TimeOf(pth[par[i]]) < TimeOf(des)
    BY <2>1, VisitLeads
  <2>5. Len(pth) \in Nat \ {0} /\ pth[Len(pth)] = u
    BY <2>2, EmptySeq
  <2>. DEFINE q == [i \in 1 .. Len(st) |-> IF i < n THEN par[i] ELSE Len(pth)]
  <2>6. \A i \in 1 .. Len(st) : i < n => i \in 1 .. n - 1
    BY <2>3
  <2>7. \A i \in 1 .. Len(st) : ~(i < n) => i \in n .. Len(st)
    BY <2>3
  <2>8. Len(pth) \in 1 .. Len(pth)
    BY <2>5
  <2>9. q \in [1 .. Len(st) -> 1 .. Len(pth)]
    BY <2>4, <2>6, <2>8
  <2>10. \A i \in 1 .. Len(st) : q[i] = IF i < n THEN par[i] ELSE Len(pth)
    OBVIOUS
  <2>. HIDE DEF q
  <2>11. \A i \in 1 .. Len(st) : getEdge(pth[q[i]], st[i]) /\ TimeOf(pth[q[i]]) < TimeOf(des)
    BY <2>1, <2>3, <2>4, <2>5, <2>6, <2>7, <2>10
  <2>12. ASSUME NEW i \in 1 .. Len(st), NEW j \in 1 .. Len(st), i <= j PROVE q[i] <= q[j]
    <3>1. CASE j < n
      <4>1. i < n
        BY <2>3, <2>12, <3>1
      <4>. QED
        BY <2>4, <2>6, <2>10, <2>12, <3>1, <4>1
    <3>2. CASE ~(j < n)
      <4>1. q[j] = Len(pth) /\ q[i] \in 1 .. Len(pth)
        BY <2>9, <2>10, <3>2
      <4>. QED
        BY <2>5, <4>1
    <3>. QED
      BY <3>1, <3>2
  <2>13. Rooted'
    BY <1>1, <2>2, <2>9, <2>11, <2>12 DEF Rooted, LeadsToStack
  <2>14. TimeOf(src) < TimeOf(des)
    BY <2>1 DEF Searching, StackInv
  <2>. QED
    BY <1>1, <2>1, <2>2, <2>3, <2>13, <2>14 DEF StackInv
<1>7. CASE VisitBeyond
  <2>1. Searching /\ curPath' = Backtracked /\ notVstd' = Popped /\ pc' = "failed"
        /\ paths' = paths
    BY <1>7 DEF VisitBeyond
  <2>2. curPath' \in Seq(FUs) /\ notVstd' \in Seq(FUs)
    BY <2>1, VisitFacts DEF Searching, StackInv
  <2>. QED
    BY <1>1, <2>1, <2>2 DEF StackInv
<1>8. CASE Return
  BY <1>1, <1>8 DEF Return, StackInv
<1>. QED
  BY <1>2, <1>3, <1>4, <1>5, <1>6, <1>7, <1>8 DEF Next

(* What the search holds are functional units, and every path it has found *)
(* leads from src to des (isLegal hands them to the routing).              *)
THEOREM TypesHold == Spec => []TypeOK
<1>1. Graphs /\ StackInv => TypeOK
  <2>. SUFFICES ASSUME Graphs, StackInv PROVE TypeOK
    OBVIOUS
  <2>1. \A k \in DOMAIN notVstd : notVstd[k] \in FUs
    BY LenProperties, ElementOfSeq DEF StackInv
  <2>2. \A k \in DOMAIN curPath : curPath[k] \in FUs
    BY LenProperties, ElementOfSeq DEF StackInv
  <2>. QED
    BY <2>1, <2>2 DEF TypeOK, StackInv, Graphs
<1>. QED
  BY StackInit, StackStep, <1>1, PTL DEF Spec
-----------------------------------------------------------------------------
(* While there is a closing edge between src and des, a node at or before  *)
(* it stays on the stack: its stay child leads up to the edge, and the     *)
(* edge back to time 0.                                                    *)
IntervalInv ==
    /\ pc = "search" =>
          \A t \in Closings : TimeOf(src) <= t /\ t < TimeOf(des) =>
              \E i \in 1 .. Len(notVstd) : TimeOf(notVstd[i]) <= t
    /\ pc = "done" /\ TimeOf(src) < TimeOf(des) => ~Crosses
    /\ pc = "search" /\ ~StaleUsed =>
          \A i \in 1 .. Len(notVstd) : TimeOf(notVstd[i]) <= TimeOf(des)
    /\ pc = "failed" => StaleUsed

LEMMA IntervalStep ==
    ASSUME Graphs, StackInv, IntervalInv, [Next]_vars
    PROVE  IntervalInv'
<1>0. UNCHANGED <<search, edges>>
  BY DEF Next, Reject, Begin, VisitLeaf, VisitInner, VisitBeyond, Return, vars
<1>1. /\ src' = src /\ des' = des /\ Closings' = Closings
      /\ StaleUsed' = StaleUsed /\ Crosses' = Crosses
  BY <1>0, SameSearch
<1>2. /\ search.TT \in Nat /\ TimeOf(src) \in 0 .. search.TT /\ TimeOf(des) \in 0 .. search.TT
      /\ FUs = search.cgra.PEs \X (0 .. search.TT)
      /\ \A t \in Closings : t \in Int /\ t < search.TT
  BY InputFacts DEF Closings
<1>3. CASE UNCHANGED vars
  BY <1>1, <1>3 DEF vars, IntervalInv
<1>4. CASE Reject
  BY <1>1, <1>2, <1>4 DEF Reject, IntervalInv
<1>5. CASE Begin
  <2>1. 1 \in 1 .. Len(<<src>>) /\ \A i \in 1 .. Len(<<src>>) : <<src>>[i] = src
    OBVIOUS
  <2>2. TimeOf(src) <= TimeOf(des)
    BY <1>2, <1>5 DEF Begin
  <2>. QED
    BY <1>1, <1>5, <2>1, <2>2 DEF Begin, IntervalInv
<1>6. CASE Searching
  <2>. PICK n, u : n = Len(notVstd) /\ u = cur
    OBVIOUS
  <2>1. /\ n \in Nat \ {0} /\ u \in FUs /\ TimeOf(u) \in 0 .. search.TT
        /\ Len(Popped) = n - 1 /\ \A i \in 1 .. n - 1 : Popped[i] = notVstd[i]
    BY <1>6, VisitFacts DEF Searching, StackInv
  <2>2. n \in 1 .. n /\ notVstd[n] = u /\ \A i \in 1 .. n : i = n \/ i \in 1 .. n - 1
    BY <2>1 DEF cur
  <2>3. CASE VisitLeaf
    <3>1. /\ pc' = "search" /\ Len(notVstd') = n - 1 /\ TimeOf(u) = TimeOf(des)
          /\ \A i \in 1 .. n - 1 : notVstd'[i] = notVstd[i]
      BY <2>1, <2>3 DEF VisitLeaf, Searching
    <3>2. ASSUME NEW t \in Closings, TimeOf(src) <= t, t < TimeOf(des)
          PROVE  \E i \in 1 .. n - 1 : TimeOf(notVstd[i]) <= t
      <4>1. PICK i \in 1 .. n : TimeOf(notVstd[i]) <= t
        BY <1>6, <3>2 DEF Searching, IntervalInv
      <4>2. i # n
        BY <1>2, <2>2, <3>1, <3>2, <4>1
      <4>. QED
        BY <2>2, <4>1, <4>2
    <3>3. ~StaleUsed => \A i \in 1 .. n - 1 : TimeOf(notVstd[i]) <= TimeOf(des)
      BY <1>6, <2>1 DEF Searching, IntervalInv
    <3>. QED
      BY <1>1, <3>1, <3>2, <3>3 DEF IntervalInv
  <2>4. CASE VisitInner
    <3>. PICK st : st = notVstd'
      OBVIOUS
    <3>1. /\ pc' = "search" /\ TimeOf(u) < TimeOf(des)
          /\ Len(st) \in Nat /\ n - 1 <= Len(st)
          /\ \A i \in 1 .. n - 1 : st[i] = notVstd[i]
          /\ \A i \in n .. Len(st) : getEdge(u, st[i])
          /\ \A v : getEdge(u, v) => \E i \in n .. Len(st) : st[i] = v
      <4>1. st = Popped \o childrenOf(cur) /\ pc' = "search" /\ TimeOf(u) < TimeOf(des)
        BY <1>6, <2>4 DEF VisitInner, Searching
      <4>2. Graphs /\ notVstd \in Seq(FUs) /\ curPath \in Seq(FUs) /\ notVstd # <<>>
        BY <1>6 DEF Searching, StackInv
      <4>3. /\ Len(st) \in Nat /\ Len(notVstd) - 1 <= Len(st)
            /\ \A i \in 1 .. Len(notVstd) - 1 : st[i] = notVstd[i]
            /\ \A i \in Len(notVstd) .. Len(st) : getEdge(cur, st[i])
        BY <4>1, <4>2, PushFacts
      <4>4. \A v : getEdge(cur, v) => \E i \in Len(notVstd) .. Len(st) : st[i] = v
        BY <4>1, <4>2, PushFacts, Zenon
      <4>. QED
        BY <4>1, <4>3, <4>4
    <3>2. \A i \in 1 .. Len(st) : i \in 1 .. n - 1 \/ i \in n .. Len(st)
      BY <2>1, <3>1
    <3>3. /\ \A i \in 1 .. n - 1 : i \in 1 .. Len(st)
          /\ \A i \in n .. Len(st) : i \in 1 .. Len(st)
      BY <2>1, <3>1
    <3>4. ASSUME NEW t \in Closings, TimeOf(src) <= t, t < TimeOf(des)
          PROVE  \E i \in 1 .. Len(st) : TimeOf(st[i]) <= t
      <4>1. PICK i \in 1 .. n : TimeOf(notVstd[i]) <= t
        BY <1>6, <3>4 DEF Searching, IntervalInv
      <4>2. CASE i # n
        BY <2>2, <3>1, <3>3, <4>1, <4>2
      <4>3. CASE i = n
        <5>1. PICK p \in search.cgra.PEs, k \in 0 .. search.TT : u = <<p, k>>
          BY <1>2, <2>1
        <5>2. k <= t /\ k < search.TT /\ k + 1 \in Int
          BY <1>2, <2>2, <4>1, <4>3, <5>1 DEF TimeOf
        <5>3. <<p, p>> \in Links(search.cgra)
          BY DEF Links
        <5>4. /\ getEdge(<<p, k>>, <<p, k + 1>>)
              /\ k \in Closings => getEdge(<<p, k>>, <<p, 0>>)
          BY <5>2, <5>3, EdgesThere
        <5>5. \E v : getEdge(u, v) /\ TimeOf(v) <= t
          <6>1. CASE k = t
            <7>1. TimeOf(<<p, 0>>) <= t
              BY <1>2, <5>1, <5>2 DEF TimeOf
            <7>. QED
              BY <5>1, <5>4, <6>1, <7>1
          <6>2. CASE k # t
            <7>1. TimeOf(<<p, k + 1>>) <= t
              BY <1>2, <5>1, <5>2, <6>2 DEF TimeOf
            <7>. QED
              BY <5>1, <5>4, <7>1
          <6>. QED
            BY <6>1, <6>2
        <5>. QED
          BY <3>1, <3>3, <5>5
      <4>. QED
        BY <4>2, <4>3
    <3>5. ASSUME ~StaleUsed, NEW i \in 1 .. Len(st) PROVE TimeOf(st[i]) <= TimeOf(des)
      <4>1. CASE i \in 1 .. n - 1
        BY <1>6, <2>1, <3>1, <3>5, <4>1 DEF Searching, IntervalInv
      <4>2. CASE i \in n .. Len(st)
        <5>1. getEdge(u, st[i])
          BY <3>1, <4>2
        <5>2. TimeOf(st[i]) = TimeOf(u) + 1 \/ TimeOf(st[i]) = 0
          BY <2>1, <3>5, <5>1, EdgesOut
        <5>. QED
          BY <1>2, <2>1, <3>1, <5>2
      <4>. QED
        BY <3>2, <4>1, <4>2
    <3>. QED
      BY <1>1, <3>1, <3>4, <3>5 DEF IntervalInv
  <2>5. CASE VisitBeyond
    <3>1. pc' = "failed" /\ TimeOf(u) > TimeOf(des)
      BY <2>5 DEF VisitBeyond
    <3>2. StaleUsed
      BY <1>2, <1>6, <2>1, <2>2, <3>1 DEF Searching, IntervalInv
    <3>. QED
      BY <1>1, <3>1, <3>2 DEF IntervalInv
  <2>6. ~Reject /\ ~Begin /\ ~Return
    BY <1>6 DEF Reject, Begin, Return, Searching
  <2>. QED
    BY <1>3, <2>3, <2>4, <2>5, <2>6 DEF Next
<1>7. CASE Return
  <2>1. pc = "search" /\ pc' = "done" /\ 1 .. Len(notVstd) = {}
    BY <1>7 DEF Return
  <2>2. ~Crosses
    BY <2>1 DEF IntervalInv, Crosses
  <2>. QED
    BY <1>1, <2>1, <2>2 DEF IntervalInv
<1>8. VisitLeaf \/ VisitInner \/ VisitBeyond => Searching
  BY DEF VisitLeaf, VisitInner, VisitBeyond
<1>. QED
  BY <1>3, <1>4, <1>5, <1>6, <1>7, <1>8 DEF Next

(* The search returns only when no closing edge lies between src and des,  *)
(* and gives up ("There is no des node like") only where the pointer an    *)
(* extension leaves to the root is one of the units: isLegal depends on    *)
(* both, for any array, interval and extension.                            *)
THEOREM ReturnsWithinInterval == Spec => []ReturnsOnlyWithinInterval
<1>1. Init => IntervalInv
  BY DEF Init, IntervalInv
<1>2. Graphs /\ StackInv /\ IntervalInv /\ [Next]_vars => Graphs' /\ StackInv' /\ IntervalInv'
  BY StackStep, IntervalStep
<1>3. IntervalInv => ReturnsOnlyWithinInterval
  BY DEF IntervalInv, ReturnsOnlyWithinInterval
<1>. QED
  BY StackInit, <1>1, <1>2, <1>3, PTL DEF Spec
-----------------------------------------------------------------------------
(* Within the interval a path cannot turn back: node k of it is at the     *)
(* k-th time from that of src on.                                          *)
Plain == ~StaleUsed /\ ~Crosses
Hops == TimeOf(des) - TimeOf(src)
DepthOf(node) == TimeOf(node) - TimeOf(src)

(* The search still follows walk w: a node of it is on the stack, and the  *)
(* path has the nodes of w before it.                                      *)
Ahead(w) ==
    \E i \in 1 .. Len(notVstd) :
        /\ w[DepthOf(notVstd[i]) + 1] = notVstd[i]
        /\ \A k \in 1 .. DepthOf(notVstd[i]) : w[k] = curPath[k]

PathInv ==
    pc = "search" =>
        /\ \A k \in 1 .. Len(curPath) : TimeOf(curPath[k]) = TimeOf(src) + k - 1
        /\ \A k \in 1 .. Len(curPath) - 1 : getEdge(curPath[k], curPath[k + 1])

WalkInv ==
    /\ PathInv
    /\ paths \subseteq Walks
    /\ pc = "search" => \A w \in Walks : w \in paths \/ Ahead(w)
    /\ pc = "done" /\ TimeOf(src) < TimeOf(des) => Walks \subseteq paths

LEMMA WalkFacts ==
    ASSUME Graphs, TimeOf(src) < TimeOf(des), NEW w \in Walks
    PROVE  /\ w \in Seq(FUs) /\ Len(w) = Hops + 1
           /\ w[1] = src /\ w[Hops + 1] = des
           /\ \A k \in 1 .. Hops + 1 : w[k] \in FUs /\ TimeOf(w[k]) = TimeOf(src) + k - 1
           /\ \A k \in 1 .. Hops : getEdge(w[k], w[k + 1])
<1>. DEFINE n == TimeOf(des) - TimeOf(src) + 1
            s == TimeOf(src)
            PEs == search.cgra.PEs
<1>1. /\ search.TT \in Nat /\ s \in 0 .. search.TT /\ TimeOf(des) \in 0 .. search.TT
      /\ src \in FUs /\ des \in FUs /\ FUs = PEs \X (0 .. search.TT)
  BY InputFacts
<1>2. n = Hops + 1 /\ Hops \in Nat /\ n \in Nat /\ s \in Nat
  BY <1>1 DEF Hops
<1>3. PICK pe \in [1 .. n -> PEs] :
        /\ pe[1] = PEOf(src) /\ pe[n] = PEOf(des)
        /\ \A k \in 1 .. n - 1 : <<pe[k], pe[k + 1]>> \in Links(search.cgra)
        /\ w = [k \in 1 .. n |-> <<pe[k], s + k - 1>>]
  BY DEF Walks
<1>4. \A k \in 1 .. n : w[k] = <<pe[k], s + k - 1>> /\ s + k - 1 \in 0 .. search.TT
  BY <1>1, <1>2, <1>3
<1>5. \A k \in 1 .. n : w[k] \in FUs /\ TimeOf(w[k]) = s + k - 1
  BY <1>1, <1>3, <1>4 DEF TimeOf
<1>6. w \in Seq(FUs) /\ Len(w) = n
  <2>1. w \in [1 .. n -> FUs]
    BY <1>3, <1>5
  <2>. HIDE DEF n
  <2>. QED
    BY <1>2, <2>1
<1>7. w[1] = src /\ w[n] = des
  <2>1. 1 \in 1 .. n /\ n \in 1 .. n /\ s + 1 - 1 = s /\ s + n - 1 = TimeOf(des)
    <3>1. \A a, b \in Nat : a < b => /\ 1 \in 1 .. b - a + 1 /\ b - a + 1 \in 1 .. b - a + 1
                                    /\ a + 1 - 1 = a /\ a + (b - a + 1) - 1 = b
      OBVIOUS
    <3>2. TimeOf(src) \in Nat /\ TimeOf(des) \in Nat
      BY <1>1
    <3>. QED
      BY <3>1, <3>2
  <2>2. src = <<PEOf(src), TimeOf(src)>> /\ des = <<PEOf(des), TimeOf(des)>>
    BY <1>1 DEF PEOf, TimeOf
  <2>. QED
    BY <1>3, <1>4, <2>1, <2>2
<1>8. ASSUME NEW k \in 1 .. n - 1 PROVE getEdge(w[k], w[k + 1])
  <2>1. /\ k \in 1 .. n /\ k + 1 \in 1 .. n /\ s + k - 1 \in 0 .. search.TT
        /\ s + (k + 1) - 1 = s + k - 1 + 1 /\ s + k - 1 < search.TT
    BY <1>1, <1>2
  <2>2. w[k] = <<pe[k], s + k - 1>> /\ w[k + 1] = <<pe[k + 1], s + k - 1 + 1>>
    BY <1>4, <2>1
  <2>3. PICK l \in Links(search.cgra) : l = <<pe[k], pe[k + 1]>>
    BY <1>3
  <2>. QED
    BY <2>1, <2>2, <2>3, EdgesThere
<1>. QED
  BY <1>2, <1>5, <1>6, <1>7, <1>8

LEMMA WalkIntro ==
    ASSUME Graphs, ~StaleUsed, TimeOf(src) < TimeOf(des),
           NEW p \in Seq(FUs), Len(p) = Hops + 1, p[1] = src, p[Len(p)] = des,
           \A k \in 1 .. Len(p) : TimeOf(p[k]) = TimeOf(src) + k - 1,
           \A k \in 1 .. Len(p) - 1 : getEdge(p[k], p[k + 1])
    PROVE  p \in Walks
<1>. DEFINE n == TimeOf(des) - TimeOf(src) + 1
            PEs == search.cgra.PEs
            pe == [k \in 1 .. n |-> PEOf(p[k])]
<1>1. /\ search.TT \in Nat /\ TimeOf(src) \in Nat /\ TimeOf(des) \in Nat
      /\ FUs = PEs \X (0 .. search.TT)
  BY InputFacts
<1>2. /\ n = Len(p) /\ n \in Nat /\ DOMAIN p = 1 .. n /\ 1 \in 1 .. n /\ n \in 1 .. n
      /\ p = [k \in 1 .. n |-> p[k]]
  BY <1>1, LenProperties DEF Hops
<1>3. \A k \in 1 .. n : p[k] \in FUs
  BY <1>2, ElementOfSeq
<1>4. \A k \in 1 .. n : /\ p[k] = <<PEOf(p[k]), TimeOf(src) + k - 1>> /\ PEOf(p[k]) \in PEs
  <2>1. \A x \in FUs : x = <<PEOf(x), TimeOf(x)>> /\ PEOf(x) \in PEs
    BY <1>1 DEF PEOf, TimeOf
  <2>. QED
    BY <1>2, <1>3, <2>1
<1>5. pe \in [1 .. n -> PEs] /\ \A k \in 1 .. n : pe[k] = PEOf(p[k])
  BY <1>4
<1>. HIDE DEF pe
<1>6. p = [k \in 1 .. n |-> <<pe[k], TimeOf(src) + k - 1>>]
  BY <1>2, <1>4, <1>5
<1>7. ASSUME NEW k \in 1 .. n - 1 PROVE <<pe[k], pe[k + 1]>> \in Links(search.cgra)
  <2>1. k \in 1 .. n /\ k + 1 \in 1 .. n /\ k \in 1 .. Len(p) - 1
    BY <1>2
  <2>2. getEdge(p[k], p[k + 1]) /\ p[k] \in FUs
    BY <1>3, <2>1
  <2>3. <<PEOf(p[k]), PEOf(p[k + 1])>> \in Links(search.cgra)
    BY <2>2, EdgesOut
  <2>. QED
    BY <1>5, <2>1, <2>3
<1>8. pe[1] = PEOf(src) /\ pe[n] = PEOf(des)
  BY <1>2, <1>5
<1>. QED
  BY <1>5, <1>6, <1>7, <1>8 DEF Walks

(* An edge between src and des leads one cycle on. *)
LEMMA PlainEdge ==
    ASSUME Graphs, Plain, NEW u \in FUs, NEW v, getEdge(u, v),
           TimeOf(src) <= TimeOf(u), TimeOf(u) < TimeOf(des)
    PROVE  v \in FUs /\ TimeOf(v) = TimeOf(u) + 1
<1>1. /\ v \in FUs
      /\ TimeOf(v) = TimeOf(u) + 1 \/ TimeOf(u) \in Closings
  BY EdgesOut DEF Plain
<1>2. TimeOf(u) \notin Closings
  BY DEF Plain, Crosses
<1>. QED
  BY <1>1, <1>2

LEMMA StackDepths ==
    ASSUME Graphs, StackInv, Plain, PathInv, pc = "search"
    PROVE  /\ \A i \in 1 .. Len(notVstd) : DepthOf(notVstd[i]) \in 0 .. Hops
           /\ \A i, j \in 1 .. Len(notVstd) :
                 i <= j => DepthOf(notVstd[i]) <= DepthOf(notVstd[j])
           /\ \A i \in 1 .. Len(notVstd) : curPath # <<>> =>
                 /\ DepthOf(notVstd[i]) \in 1 .. Len(curPath)
                 /\ getEdge(curPath[DepthOf(notVstd[i])], notVstd[i])
<1>1. /\ TimeOf(src) \in Nat /\ TimeOf(des) \in Nat /\ TimeOf(src) < TimeOf(des)
      /\ Rooted /\ curPath \in Seq(FUs)
  BY InputFacts DEF StackInv
<1>2. CASE curPath = <<>> /\ notVstd = <<src>>
  <2>1. \A i \in 1 .. Len(notVstd) : notVstd[i] = src
    BY <1>2
  <2>2. DepthOf(src) = 0 /\ 0 \in 0 .. Hops
    BY <1>1 DEF DepthOf, Hops
  <2>. QED
    BY <1>2, <2>1, <2>2
<1>3. CASE \E par \in [1 .. Len(notVstd) -> 1 .. Len(curPath)] : LeadsToStack(par)
  <2>1. PICK par \in [1 .. Len(notVstd) -> 1 .. Len(curPath)] : LeadsToStack(par)
    BY <1>3
  <2>2. ASSUME NEW i \in 1 .. Len(notVstd)
        PROVE  /\ DepthOf(notVstd[i]) = par[i] /\ par[i] \in 1 .. Len(curPath)
               /\ par[i] \in 1 .. Hops
               /\ getEdge(curPath[par[i]], notVstd[i])
    <3>1. /\ par[i] \in 1 .. Len(curPath)
          /\ getEdge(curPath[par[i]], notVstd[i]) /\ TimeOf(curPath[par[i]]) < TimeOf(des)
      BY <2>1 DEF LeadsToStack
    <3>2. curPath[par[i]] \in FUs /\ TimeOf(curPath[par[i]]) = TimeOf(src) + par[i] - 1
      BY <1>1, <3>1, ElementOfSeq DEF PathInv
    <3>3. TimeOf(src) <= TimeOf(curPath[par[i]])
      BY <1>1, <3>1, <3>2
    <3>4. TimeOf(notVstd[i]) = TimeOf(src) + par[i] - 1 + 1
      BY <3>1, <3>2, <3>3, PlainEdge
    <3>. QED
      BY <1>1, <3>1, <3>2, <3>4 DEF DepthOf, Hops
  <2>3. \A i, j \in 1 .. Len(notVstd) : i <= j => par[i] <= par[j]
    BY <2>1 DEF LeadsToStack
  <2>4. \A a \in 1 .. Hops : a \in 0 .. Hops
    BY <1>1 DEF Hops
  <2>. QED
    BY <2>2, <2>3, <2>4
<1>. QED
  BY <1>1, <1>2, <1>3 DEF Rooted

(* The path is cut where the node visited continues it. *)
LEMMA VisitOnWalk ==
    ASSUME Graphs, StackInv, Plain, PathInv, Searching
    PROVE  LET d == DepthOf(cur)
           IN  /\ d \in 0 .. Hops /\ d <= Len(curPath)
               /\ Backtracked \in Seq(FUs) /\ Len(Backtracked) = d + 1
               /\ Backtracked[d + 1] = cur
               /\ \A k \in 1 .. d : Backtracked[k] = curPath[k]
               /\ \A k \in 1 .. d + 1 : TimeOf(Backtracked[k]) = TimeOf(src) + k - 1
               /\ \A k \in 1 .. d : getEdge(Backtracked[k], Backtracked[k + 1])
<1>. PICK d, n, u, bt : d = DepthOf(cur) /\ n = Len(notVstd) /\ u = cur /\ bt = Backtracked
  OBVIOUS
<1>1. /\ n \in 1 .. n /\ notVstd[n] = u /\ pc = "search" /\ curPath \in Seq(FUs)
      /\ Len(curPath) \in Nat
      /\ TimeOf(src) \in Nat /\ TimeOf(des) \in Nat /\ TimeOf(src) < TimeOf(des)
      /\ TimeOf(u) \in Nat
  BY VisitFacts, InputFacts DEF Searching, StackInv, cur
<1>2. PICK b \in 0 .. Len(curPath) :
        /\ bt \in Seq(FUs) /\ Len(bt) = b + 1
        /\ bt[b + 1] = u
        /\ \A k \in 1 .. b : bt[k] = curPath[k]
        /\ b # 0 => getEdge(curPath[b], u)
        /\ \A k \in 1 .. Len(curPath) : getEdge(curPath[k], u) => k <= b
  BY VisitFacts DEF Searching, StackInv
<1>3. /\ d \in 0 .. Hops
      /\ curPath # <<>> => d \in 1 .. Len(curPath) /\ getEdge(curPath[d], u)
  BY <1>1, StackDepths
<1>4. TimeOf(u) = TimeOf(src) + d
  BY <1>1 DEF DepthOf
<1>5. /\ \A k \in 1 .. Len(curPath) : TimeOf(curPath[k]) = TimeOf(src) + k - 1
      /\ \A k \in 1 .. Len(curPath) - 1 : getEdge(curPath[k], curPath[k + 1])
  BY <1>1 DEF PathInv
<1>6. b = d
  <2>1. CASE curPath = <<>>
    <3>1. notVstd = <<src>>
      BY <1>1, <2>1 DEF StackInv, Rooted
    <3>2. u = src /\ b = 0
      BY <1>1, <1>2, <2>1, <3>1
    <3>. QED
      BY <1>1, <1>4, <3>2, <1>3
  <2>2. CASE curPath # <<>>
    <3>1. d \in 1 .. Len(curPath) /\ d <= b
      BY <1>2, <1>3, <2>2
    <3>2. b \in 1 .. Len(curPath) /\ getEdge(curPath[b], u) /\ curPath[b] \in FUs
      BY <1>1, <1>2, <3>1, ElementOfSeq
    <3>3. TimeOf(u) = TimeOf(curPath[b]) + 1 \/ TimeOf(u) = 0
      BY <3>2, EdgesOut DEF Plain
    <3>4. TimeOf(curPath[b]) = TimeOf(src) + b - 1
      BY <1>5, <3>2
    <3>. QED
      BY <1>1, <1>4, <3>1, <3>2, <3>3, <3>4
  <2>. QED
    BY <2>1, <2>2
<1>7. ASSUME NEW k \in 1 .. d + 1 PROVE TimeOf(bt[k]) = TimeOf(src) + k - 1
  <2>1. CASE k = d + 1
    BY <1>1, <1>2, <1>3, <1>4, <1>6, <2>1
  <2>2. CASE k # d + 1
    <3>1. k \in 1 .. d /\ k \in 1 .. Len(curPath)
      BY <1>1, <1>2, <1>3, <1>6, <2>2
    <3>. QED
      BY <1>2, <1>5, <1>6, <3>1
  <2>. QED
    BY <2>1, <2>2
<1>8. ASSUME NEW k \in 1 .. d PROVE getEdge(bt[k], bt[k + 1])
  <2>1. CASE k = d
    BY <1>2, <1>3, <1>6, <2>1
  <2>2. CASE k # d
    <3>1. k + 1 \in 1 .. d /\ k \in 1 .. Len(curPath) - 1
      BY <1>1, <1>2, <1>3, <1>6, <2>2
    <3>. QED
      BY <1>2, <1>5, <1>6, <3>1
  <2>. QED
    BY <2>1, <2>2
<1>9. d <= Len(curPath)
  BY <1>1, <1>2, <1>6
<1>. QED
  BY <1>2, <1>3, <1>6, <1>7, <1>8, <1>9

(* Walks followed at a node below the top are still followed. *)
LEMMA LowerWalks ==
    ASSUME Graphs, StackInv, Plain, PathInv, Searching,
           NEW w \in Walks, NEW i \in 1 .. Len(notVstd) - 1,
           \A k \in 1 .. DepthOf(notVstd[i]) : w[k] = curPath[k]
    PROVE  \A k \in 1 .. DepthOf(notVstd[i]) : w[k] = Backtracked[k]
<1>. PICK d, n, di : d = DepthOf(cur) /\ n = Len(notVstd) /\ di = DepthOf(notVstd[i])
  OBVIOUS
<1>1. n \in Nat \ {0} /\ notVstd[n] = cur /\ Hops \in Int
  BY VisitFacts, InputFacts DEF Searching, StackInv, cur, Hops
<1>2. i \in 1 .. n /\ n \in 1 .. n /\ i <= n
  BY <1>1
<1>3. di \in 0 .. Hops /\ d \in 0 .. Hops /\ di <= d
  BY <1>1, <1>2, StackDepths DEF Searching
<1>4. \A k \in 1 .. di : k \in 1 .. d
  BY <1>1, <1>3
<1>5. \A k \in 1 .. d : Backtracked[k] = curPath[k]
  BY VisitOnWalk
<1>. QED
  BY <1>4, <1>5

(* A walk followed at the top goes on with a child of it, or ends there. *)
LEMMA TopWalks ==
    ASSUME Graphs, StackInv, Plain, PathInv, Searching,
           NEW w \in Walks, w[DepthOf(cur) + 1] = cur,
           \A k \in 1 .. DepthOf(cur) : w[k] = curPath[k]
    PROVE  /\ \A k \in 1 .. DepthOf(cur) + 1 : w[k] = Backtracked[k]
           /\ TimeOf(cur) = TimeOf(des) => w = Backtracked /\ cur = des
           /\ TimeOf(cur) < TimeOf(des) =>
                 /\ getEdge(cur, w[DepthOf(cur) + 2])
                 /\ DepthOf(w[DepthOf(cur) + 2]) = DepthOf(cur) + 1
<1>. PICK d, bt : d = DepthOf(cur) /\ bt = Backtracked
  OBVIOUS
<1>1. /\ TimeOf(src) \in Nat /\ TimeOf(des) \in Nat /\ TimeOf(src) < TimeOf(des)
      /\ TimeOf(cur) \in Nat
  BY VisitFacts, InputFacts DEF Searching, StackInv
<1>2. /\ d \in 0 .. Hops
      /\ bt \in Seq(FUs) /\ Len(bt) = d + 1 /\ bt[d + 1] = cur
      /\ \A k \in 1 .. d : bt[k] = curPath[k]
  BY VisitOnWalk
<1>3. /\ w \in Seq(FUs) /\ Len(w) = Hops + 1 /\ w[Hops + 1] = des
      /\ \A k \in 1 .. Hops + 1 : w[k] \in FUs /\ TimeOf(w[k]) = TimeOf(src) + k - 1
      /\ \A k \in 1 .. Hops : getEdge(w[k], w[k + 1])
  BY <1>1, WalkFacts
<1>4. Hops \in Nat /\ d \in Nat
  BY <1>1, <1>2 DEF Hops
<1>5. ASSUME NEW k \in 1 .. d + 1 PROVE w[k] = bt[k]
  <2>1. k = d + 1 \/ k \in 1 .. d
    BY <1>4
  <2>. QED
    BY <1>2, <2>1
<1>6. ASSUME TimeOf(cur) = TimeOf(des) PROVE w = bt /\ cur = des
  <2>1. d = Hops
    BY <1>6 DEF DepthOf, Hops
  <2>2. cur = des
    BY <1>3, <2>1
  <2>3. w = bt
    BY <1>2, <1>3, <1>5, <2>1, SeqEqual
  <2>. QED
    BY <2>2, <2>3
<1>7. ASSUME TimeOf(cur) < TimeOf(des)
      PROVE  getEdge(cur, w[d + 2]) /\ DepthOf(w[d + 2]) = d + 1
  <2>1. d < Hops
    BY <1>1, <1>7 DEF DepthOf, Hops
  <2>2. d + 1 \in 1 .. Hops /\ d + 1 + 1 = d + 2 /\ d + 2 \in 1 .. Hops + 1
    BY <1>4, <2>1
  <2>3. getEdge(w[d + 1], w[d + 2]) /\ TimeOf(w[d + 2]) = TimeOf(src) + (d + 2) - 1
    BY <1>3, <2>2
  <2>. QED
    BY <1>1, <1>4, <2>3 DEF DepthOf
<1>. QED
  BY <1>5, <1>6, <1>7

LEMMA FoundIsWalk ==
    ASSUME Graphs, StackInv, Plain, PathInv, Searching, cur = des
    PROVE  Backtracked \in Walks
<1>1. Backtracked[1] = src /\ Backtracked[Len(Backtracked)] = cur
  BY VisitRooted
<1>2. TimeOf(src) < TimeOf(des) /\ DepthOf(cur) = Hops /\ Hops \in Int
  BY InputFacts DEF Searching, StackInv, DepthOf, Hops
<1>3. /\ Backtracked \in Seq(FUs) /\ Len(Backtracked) = Hops + 1
      /\ \A k \in 1 .. Hops + 1 : TimeOf(Backtracked[k]) = TimeOf(src) + k - 1
      /\ \A k \in 1 .. Hops : getEdge(Backtracked[k], Backtracked[k + 1])
  BY <1>2, VisitOnWalk
<1>4. Hops + 1 - 1 = Hops
  BY <1>2
<1>. QED
  BY <1>1, <1>2, <1>3, <1>4, WalkIntro DEF Plain

LEMMA WalkStep ==
    ASSUME Graphs, StackInv, Plain, WalkInv, [Next]_vars
    PROVE  WalkInv'
<1>0. UNCHANGED <<search, edges>>
  BY DEF Next, Reject, Begin, VisitLeaf, VisitInner, VisitBeyond, Return, vars
<1>1. /\ src' = src /\ des' = des /\ Walks' = Walks
      /\ \A u, v : getEdge(u, v)' = getEdge(u, v)
      /\ \A x : DepthOf(x)' = DepthOf(x)
  BY <1>0, SameSearch DEF DepthOf
<1>2. CASE UNCHANGED vars
  BY <1>1, <1>2 DEF vars, WalkInv, PathInv, Ahead
<1>3. CASE Reject
  BY <1>1, <1>3, InputFacts DEF Reject, WalkInv, PathInv
<1>4. CASE Begin
  <2>1. curPath = <<>> /\ curPath' = <<>> /\ notVstd' = <<src>> /\ TimeOf(src) < TimeOf(des)
        /\ pc' = "search" /\ paths' = paths
    BY <1>4 DEF Begin, StackInv
  <2>2. DepthOf(src) = 0
    BY InputFacts DEF DepthOf
  <2>3. ASSUME NEW w \in Walks PROVE Ahead(w)'
    <3>1. w[1] = src
      BY <2>1, WalkFacts
    <3>2. /\ 1 \in 1 .. Len(notVstd') /\ notVstd'[1] = src /\ DepthOf(notVstd'[1]) = 0
      BY <2>1, <2>2
    <3>. QED
      BY <1>1, <3>1, <3>2 DEF Ahead
  <2>4. PathInv'
    BY <2>1 DEF PathInv
  <2>. QED
    BY <1>1, <2>1, <2>3, <2>4 DEF WalkInv
<1>5. CASE Searching /\ (VisitLeaf \/ VisitInner)
  <2>. PICK n, st, bt, u : n = Len(notVstd) /\ st = notVstd' /\ bt = Backtracked /\ u = cur
    OBVIOUS
  <2>1. /\ n \in Nat \ {0} /\ notVstd[n] = u /\ curPath' = bt /\ pc' = "search" /\ PathInv
        /\ Graphs /\ notVstd \in Seq(FUs) /\ curPath \in Seq(FUs) /\ notVstd # <<>>
        /\ \A i \in 1 .. n : i = n \/ i \in 1 .. n - 1
        /\ TimeOf(src) \in Nat /\ TimeOf(des) \in Nat /\ TimeOf(u) \in Nat
    BY <1>5, VisitFacts, InputFacts
       DEF VisitLeaf, VisitInner, Searching, StackInv, cur, WalkInv
  <2>2. /\ DepthOf(u) \in 0 .. Hops /\ Len(bt) = DepthOf(u) + 1
        /\ \A k \in 1 .. DepthOf(u) + 1 : TimeOf(bt[k]) = TimeOf(src) + k - 1
        /\ \A k \in 1 .. DepthOf(u) : getEdge(bt[k], bt[k + 1])
    BY <1>5, <2>1, VisitOnWalk
  <2>3. PathInv'
    <3>1. Len(bt) - 1 = DepthOf(u)
      BY <2>2
    <3>. QED
      BY <1>1, <2>1, <2>2, <3>1 DEF PathInv
  <2>4. \A i \in 1 .. n - 1 : i \in 1 .. Len(st) /\ st[i] = notVstd[i]
    <3>1. CASE VisitLeaf
      BY <2>1, <3>1, VisitFacts DEF VisitLeaf
    <3>2. CASE VisitInner
      <4>1. st = Popped \o childrenOf(cur)
        BY <3>2 DEF VisitInner
      <4>2. /\ Len(st) \in Nat /\ Len(notVstd) - 1 <= Len(st)
            /\ \A i \in 1 .. Len(notVstd) - 1 : st[i] = notVstd[i]
        BY <2>1, <4>1, PushFacts
      <4>. QED
        BY <2>1, <4>2
    <3>. QED
      BY <1>5, <3>1, <3>2
  <2>5. paths' \subseteq Walks
    <3>1. CASE VisitLeaf
      <4>1. paths' = IF cur = des THEN paths \cup {bt} ELSE paths
        BY <2>1, <3>1 DEF VisitLeaf
      <4>2. cur = des => bt \in Walks
        BY <1>5, <2>1, FoundIsWalk
      <4>. QED
        BY <4>1, <4>2 DEF WalkInv
    <3>2. CASE VisitInner
      BY <3>2 DEF VisitInner, WalkInv
    <3>. QED
      BY <1>5, <3>1, <3>2
  <2>6. paths \subseteq paths'
    BY <1>5 DEF VisitLeaf, VisitInner
  <2>7. ASSUME NEW w \in Walks PROVE w \in paths' \/ Ahead(w)'
    <3>1. CASE w \in paths
      BY <2>6, <3>1
    <3>2. CASE Ahead(w)
      <4>1. PICK i \in 1 .. n : /\ w[DepthOf(notVstd[i]) + 1] = notVstd[i]
                                /\ \A k \in 1 .. DepthOf(notVstd[i]) : w[k] = curPath[k]
        BY <3>2 DEF Ahead
      <4>2. CASE i \in 1 .. n - 1
        <5>1. \A k \in 1 .. DepthOf(notVstd[i]) : w[k] = bt[k]
          BY <1>5, <2>1, <4>1, <4>2, LowerWalks
        <5>2. i \in 1 .. Len(st) /\ st[i] = notVstd[i]
          BY <2>4, <4>2
        <5>. QED
          BY <1>1, <2>1, <4>1, <5>1, <5>2 DEF Ahead
      <4>3. CASE i = n
        <5>1. w[DepthOf(u) + 1] = u /\ \A k \in 1 .. DepthOf(u) : w[k] = curPath[k]
          BY <2>1, <4>1, <4>3
        <5>2. /\ \A k \in 1 .. DepthOf(u) + 1 : w[k] = bt[k]
              /\ TimeOf(u) = TimeOf(des) => w = bt /\ u = des
              /\ TimeOf(u) < TimeOf(des) =>
                    /\ getEdge(u, w[DepthOf(u) + 2])
                    /\ DepthOf(w[DepthOf(u) + 2]) = DepthOf(u) + 1
          BY <1>5, <2>1, <5>1, TopWalks
        <5>3. CASE VisitLeaf
          <6>1. w = bt /\ u = des
            BY <5>2, <5>3 DEF VisitLeaf
          <6>2. bt \in paths'
            BY <2>1, <5>3, <6>1 DEF VisitLeaf
          <6>. QED
            BY <6>1, <6>2
        <5>4. CASE VisitInner
          <6>. PICK c : c = w[DepthOf(u) + 2]
            OBVIOUS
          <6>1. /\ getEdge(cur, c) /\ DepthOf(c) = DepthOf(u) + 1
                /\ st = Popped \o childrenOf(cur)
            BY <5>2, <5>4 DEF VisitInner
          <6>2. PICK j \in Len(notVstd) .. Len(st) : st[j] = c
            <7>1. \A v : getEdge(cur, v) => \E j \in Len(notVstd) .. Len(st) : st[j] = v
              BY <2>1, <6>1, PushFacts, Zenon
            <7>. QED
              BY <6>1, <7>1
          <6>3. Len(st) \in Nat
            BY <2>1, <6>1, PushFacts
          <6>4. j \in 1 .. Len(st)
            BY <2>1, <6>2, <6>3
          <6>5. DepthOf(c) + 1 = DepthOf(u) + 2
            BY <2>2, <6>1
          <6>6. /\ w[DepthOf(st[j]) + 1] = st[j]
                /\ \A k \in 1 .. DepthOf(st[j]) : w[k] = bt[k]
            BY <5>2, <6>1, <6>2, <6>5
          <6>. QED
            BY <1>1, <2>1, <6>4, <6>6 DEF Ahead
        <5>. QED
          BY <1>5, <5>3, <5>4
      <4>. QED
        BY <2>1, <4>1, <4>2, <4>3
    <3>. QED
      BY <1>5, <3>1, <3>2 DEF WalkInv, Searching
  <2>. QED
    BY <1>1, <2>1, <2>3, <2>5, <2>7 DEF WalkInv
<1>6. CASE VisitBeyond
  BY <1>1, <1>6 DEF VisitBeyond, WalkInv, PathInv
<1>7. CASE Return
  <2>1. pc = "search" /\ pc' = "done" /\ paths' = paths /\ 1 .. Len(notVstd) = {}
    BY <1>7 DEF Return
  <2>2. Walks \subseteq paths
    BY <2>1 DEF WalkInv, Ahead
  <2>. QED
    BY <1>1, <2>1, <2>2 DEF WalkInv, PathInv
<1>8. VisitLeaf \/ VisitInner => Searching
  BY DEF VisitLeaf, VisitInner
<1>. QED
  BY <1>2, <1>3, <1>4, <1>5, <1>6, <1>7, <1>8 DEF Next

(* The path is rebuilt from the stack alone; still, what the search        *)
(* returns are exactly the walks from src to des, none missed and none     *)
(* made up, in the graph of any array and interval.                        *)
THEOREM AllWalksFound == Spec => []FindsAllWalks
<1>1. Init => (Plain => WalkInv)
  BY DEF Init, WalkInv, PathInv
<1>2. ASSUME Graphs, StackInv, IntervalInv, Plain => WalkInv, [Next]_vars
      PROVE  Graphs' /\ StackInv' /\ IntervalInv' /\ (Plain' => WalkInv')
  <2>1. UNCHANGED <<search, edges>>
    BY <1>2 DEF Next, Reject, Begin, VisitLeaf, VisitInner, VisitBeyond, Return, vars
  <2>2. Plain' => Plain
    BY <2>1, SameSearch DEF Plain
  <2>. QED
    BY <1>2, <2>2, StackStep, IntervalStep, WalkStep
<1>3. IntervalInv /\ (Plain => WalkInv) => FindsAllWalks
  BY DEF IntervalInv, Plain, WalkInv, FindsAllWalks
<1>4. Init => IntervalInv
  BY DEF Init, IntervalInv
<1>. QED
  BY StackInit, <1>1, <1>2, <1>3, <1>4, PTL DEF Spec
=============================================================================
