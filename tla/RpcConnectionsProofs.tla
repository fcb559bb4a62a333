----------------------- MODULE RpcConnectionsProofs -----------------------
(* The links of the connections of the RPC server match, for any number of them. *)
EXTENDS RpcConnections, SequenceFacts

\* DeleteFromLRU (rpc.cc:119) leaves the list without the connection well linked.
LEMMA DeleteKeepsLinks ==
  ASSUME NEW L \in SUBSET Connections, NEW l \in Lists, Linked(l, L), NEW c \in L
  PROVE  /\ DeleteFromLRU(l, c) \in Lists
         /\ Linked(DeleteFromLRU(l, c), L \ {c})
<1> DEFINE m == DeleteFromLRU(l, c)
           newer == l.next_lru[c]
           older == l.next_mru[c]
<1>1. newer \in L \cup {NULL} /\ older \in L \cup {NULL}
  BY DEF Linked
<1>2. /\ m.mru = IF newer = NULL THEN older ELSE l.mru
      /\ m.lru = IF older = NULL THEN newer ELSE l.lru
      /\ m.next_mru = IF newer = NULL THEN l.next_mru
                                      ELSE [l.next_mru EXCEPT ![newer] = older]
      /\ m.next_lru = IF older = NULL THEN l.next_lru
                                      ELSE [l.next_lru EXCEPT ![older] = newer]
      /\ m \in Lists
  BY <1>1 DEF DeleteFromLRU, Lists, Links
<1> HIDE DEF m
<1>3. Linked(m, L \ {c})
  <2>1. /\ m.mru \in (L \ {c}) \cup {NULL} /\ m.lru \in (L \ {c}) \cup {NULL}
        /\ m.mru = NULL <=> m.lru = NULL
    BY <1>1, <1>2, NullAssumption DEF Linked, Lists
  <2>2. ASSUME NEW d \in L \ {c}
        PROVE  /\ m.next_lru[d] = NULL <=> m.mru = d
               /\ m.next_mru[d] = NULL <=> m.lru = d
               /\ m.next_lru[d] # NULL =>
                    m.next_lru[d] \in L \ {c} /\ m.next_mru[m.next_lru[d]] = d
               /\ m.next_mru[d] # NULL =>
                    m.next_mru[d] \in L \ {c} /\ m.next_lru[m.next_mru[d]] = d
    BY <1>1, <1>2, NullAssumption DEF Linked, Lists
  <2> QED BY <2>1, <2>2 DEF Linked
<1> QED BY <1>2, <1>3 DEF m

\* MarkActive (rpc.cc:133) puts a connection that is not in the list at its mru end.
LEMMA LinkKeepsLinks ==
  ASSUME NEW L \in SUBSET Connections, NEW l \in Lists, Linked(l, L),
         NEW c \in Connections, c \notin L
  PROVE  /\ LinkFirst(l, c) \in Lists
         /\ Linked(LinkFirst(l, c), L \cup {c})
<1> DEFINE m == LinkFirst(l, c)
<1>1. /\ m.mru = c
      /\ m.lru = IF l.mru = NULL THEN c ELSE l.lru
      /\ m.next_mru = [l.next_mru EXCEPT ![c] = l.mru]
      /\ m.next_lru = IF l.mru = NULL THEN [l.next_lru EXCEPT ![c] = NULL]
                      ELSE [l.next_lru EXCEPT ![c] = NULL, ![l.mru] = c]
      /\ m \in Lists
  BY DEF LinkFirst, Lists, Links, Linked
<1> HIDE DEF m
<1>2. Linked(m, L \cup {c})
  <2>1. /\ m.mru \in L \cup {c} \cup {NULL} /\ m.lru \in L \cup {c} \cup {NULL}
        /\ m.mru = NULL <=> m.lru = NULL
    BY <1>1, NullAssumption DEF Linked
  <2>2. ASSUME NEW d \in L \cup {c}
        PROVE  /\ m.next_lru[d] = NULL <=> m.mru = d
               /\ m.next_mru[d] = NULL <=> m.lru = d
               /\ m.next_lru[d] # NULL =>
                    m.next_lru[d] \in L \cup {c} /\ m.next_mru[m.next_lru[d]] = d
               /\ m.next_mru[d] # NULL =>
                    m.next_mru[d] \in L \cup {c} /\ m.next_lru[m.next_mru[d]] = d
    <3>1. CASE d = c
      BY <1>1, <3>1, NullAssumption DEF Linked, Lists
    <3>2. CASE d # c
      BY <1>1, <3>2, NullAssumption DEF Linked, Lists
    <3> QED BY <3>1, <3>2
  <2> QED BY <2>1, <2>2 DEF Linked
<1> QED BY <1>1, <1>2 DEF m

\* The links to older connections lead nowhere back: they are part of a strict order.
Acyclic(l, L) ==
  \E R \in SUBSET (Connections \X Connections) :
    /\ \A c \in L : <<c, c>> \notin R
    /\ \A c, d, e \in L : <<c, d>> \in R /\ <<d, e>> \in R => <<c, e>> \in R
    /\ \A c \in L : l.next_mru[c] # NULL => <<c, l.next_mru[c]>> \in R

\* DeleteFromLRU joins the two neighbours, the order of the others stays.
LEMMA DeleteKeepsOrder ==
  ASSUME NEW L \in SUBSET Connections, NEW l \in Lists, Linked(l, L), Acyclic(l, L),
         NEW c \in L
  PROVE  Acyclic(DeleteFromLRU(l, c), L \ {c})
<1> DEFINE m == DeleteFromLRU(l, c)
           newer == l.next_lru[c]
           older == l.next_mru[c]
<1>1. PICK R \in SUBSET (Connections \X Connections) :
        /\ \A d \in L : <<d, d>> \notin R
        /\ \A d, e, f \in L : <<d, e>> \in R /\ <<e, f>> \in R => <<d, f>> \in R
        /\ \A d \in L : l.next_mru[d] # NULL => <<d, l.next_mru[d]>> \in R
  BY DEF Acyclic
<1>2. m.next_mru = IF newer = NULL THEN l.next_mru ELSE [l.next_mru EXCEPT ![newer] = older]
  BY DEF DeleteFromLRU, Lists
<1>3. /\ newer # NULL => newer \in L /\ l.next_mru[newer] = c
      /\ older # NULL => older \in L
  BY DEF Linked
<1> HIDE DEF m
<1>4. ASSUME NEW d \in L \ {c}, m.next_mru[d] # NULL
      PROVE  <<d, m.next_mru[d]>> \in R
  <2>1. CASE newer # NULL /\ d = newer
    <3>1. m.next_mru[d] = older
      BY <1>2, <1>3, <2>1 DEF Lists
    <3>2. <<newer, c>> \in R /\ <<c, older>> \in R /\ older \in L
      BY <1>1, <1>3, <1>4, <2>1, <3>1, NullAssumption
    <3> QED BY <1>1, <1>3, <2>1, <3>1, <3>2
  <2>2. CASE ~(newer # NULL /\ d = newer)
    BY <1>1, <1>2, <1>4, <2>2 DEF Lists
  <2> QED BY <2>1, <2>2
<1> QED BY <1>1, <1>4 DEF Acyclic, m

\* MarkActive puts a connection before all the others.
LEMMA LinkKeepsOrder ==
  ASSUME NEW L \in SUBSET Connections, NEW l \in Lists, Linked(l, L), Acyclic(l, L),
         NEW c \in Connections, c \notin L
  PROVE  Acyclic(LinkFirst(l, c), L \cup {c})
<1> DEFINE m == LinkFirst(l, c)
<1>1. PICK R \in SUBSET (Connections \X Connections) :
        /\ \A d \in L : <<d, d>> \notin R
        /\ \A d, e, f \in L : <<d, e>> \in R /\ <<e, f>> \in R => <<d, f>> \in R
        /\ \A d \in L : l.next_mru[d] # NULL => <<d, l.next_mru[d]>> \in R
  BY DEF Acyclic
<1> DEFINE Q == (R \cap (L \X L)) \cup {<<c, d>> : d \in L}
<1>2. m.next_mru = [l.next_mru EXCEPT ![c] = l.mru]
  BY DEF LinkFirst, Lists
<1> HIDE DEF m
<1>3. Q \in SUBSET (Connections \X Connections)
  OBVIOUS
<1>4. \A d, e \in L \cup {c} :
        <<d, e>> \in Q <=> (d = c /\ e \in L) \/ (d \in L /\ e \in L /\ <<d, e>> \in R)
  OBVIOUS
<1> HIDE DEF Q
<1>5. \A d \in L \cup {c} : <<d, d>> \notin Q
  BY <1>1, <1>4
<1>6. \A d, e, f \in L \cup {c} : <<d, e>> \in Q /\ <<e, f>> \in Q => <<d, f>> \in Q
  BY <1>1, <1>4
<1>7. ASSUME NEW d \in L \cup {c}, m.next_mru[d] # NULL
      PROVE  <<d, m.next_mru[d]>> \in Q
  <2>1. CASE d = c
    <3>1. m.next_mru[d] = l.mru /\ l.mru \in L
      BY <1>2, <1>7, <2>1 DEF Lists, Linked
    <3> QED BY <1>4, <2>1, <3>1
  <2>2. CASE d # c
    <3>1. d \in L /\ m.next_mru[d] = l.next_mru[d]
      BY <1>2, <2>2 DEF Lists
    <3>2. l.next_mru[d] \in L
      BY <1>7, <3>1 DEF Linked
    <3> QED BY <1>1, <1>4, <1>7, <3>1, <3>2
  <2> QED BY <2>1, <2>2
<1> QED BY <1>3, <1>5, <1>6, <1>7 DEF Acyclic, m

ListInv == ConnectionsTypeOK /\ LinksMatch /\ Acyclic(list, live)

\* A connection that CloseConnection or ~Server deletes leaves the others well linked.
LEMMA DeleteKeepsListInv ==
  ASSUME ListInv, NEW c \in registered, Delete(c)
  PROVE  /\ list' \in Lists /\ Linked(list', live') /\ Acyclic(list', live')
         /\ live' \in SUBSET Connections /\ registered' \in SUBSET live'
BY DeleteKeepsLinks, DeleteKeepsOrder DEF ListInv, ConnectionsTypeOK, LinksMatch, Delete

\* Each operation of the server on its connections keeps the links of the list matched.
LEMMA StepKeepsListInv == ListInv /\ [Next]_vars => ListInv'
<1> SUFFICES ASSUME ListInv, [Next]_vars PROVE ListInv'
  OBVIOUS
<1>1. CASE UNCHANGED vars
  BY <1>1 DEF ListInv, ConnectionsTypeOK, LinksMatch, vars
<1>2. ASSUME NEW c \in Connections, OnNewConnection(c) PROVE ListInv'
  <2>1. list' \in Lists /\ LinksMatch' /\ Acyclic(list', live')
    BY <1>2, LinkKeepsLinks, LinkKeepsOrder
    DEF OnNewConnection, ListInv, ConnectionsTypeOK, LinksMatch
  <2> QED BY <1>2, <2>1 DEF OnNewConnection, ListInv, ConnectionsTypeOK
<1>3. ASSUME NEW c \in Connections, OnConnectionEvent(c) PROVE ListInv'
  <2> DEFINE l == DeleteFromLRU(list, c)
  <2>1. c \in live
    BY <1>3 DEF OnConnectionEvent, ListInv, ConnectionsTypeOK
  <2>2. l \in Lists /\ Linked(l, live \ {c}) /\ Acyclic(l, live \ {c})
    BY <2>1, DeleteKeepsLinks, DeleteKeepsOrder DEF ListInv, ConnectionsTypeOK, LinksMatch
  <2>3. /\ LinkFirst(l, c) \in Lists
        /\ Linked(LinkFirst(l, c), (live \ {c}) \cup {c})
        /\ Acyclic(LinkFirst(l, c), (live \ {c}) \cup {c})
    <3>1. live \ {c} \in SUBSET Connections
      BY DEF ListInv, ConnectionsTypeOK
    <3> HIDE DEF l
    <3> QED BY <2>2, <3>1, LinkKeepsLinks, LinkKeepsOrder
  <2>4. (live \ {c}) \cup {c} = live
    BY <2>1
  <2> QED BY <1>3, <2>3, <2>4 DEF OnConnectionEvent, ListInv, ConnectionsTypeOK, LinksMatch
<1>4. ASSUME NEW c \in Connections, CloseConnection(c) PROVE ListInv'
  BY <1>4, DeleteKeepsListInv DEF CloseConnection, ListInv, ConnectionsTypeOK, LinksMatch
<1>5. CASE StartDestroy
  BY <1>5 DEF StartDestroy, ListInv, ConnectionsTypeOK, LinksMatch, Linked, Lists
<1>6. CASE DestroyNext
  <2>1. /\ at' = "destroying" /\ conn' = list.next_mru[conn]
        /\ conn \in live /\ Linked(list, live)
    BY <1>6 DEF DestroyNext, ListInv, LinksMatch
  <2>2. conn' # conn /\ conn' \in live \cup {NULL}
    <3>1. conn # NULL
      BY <1>6 DEF DestroyNext
    <3>2. conn' # conn
      <4>1. Acyclic(list, live)
        BY DEF ListInv
      <4> QED BY <2>1, <3>1, <4>1 DEF Acyclic
    <3>3. conn' \in live \cup {NULL}
      BY <2>1 DEF Linked
    <3> QED BY <3>2, <3>3
  <2>3. CASE conn \in registered
    <3>1. Delete(conn) /\ live' = live \ {conn}
      BY <1>6, <2>3 DEF DestroyNext, Delete
    <3> QED BY <2>1, <2>2, <2>3, <3>1, DeleteKeepsListInv
            DEF ListInv, ConnectionsTypeOK, LinksMatch, Links
  <2>4. CASE conn \notin registered
    BY <1>6, <2>1, <2>2, <2>4 DEF DestroyNext, ListInv, ConnectionsTypeOK, LinksMatch, Links
  <2> QED BY <2>3, <2>4
<1>7. CASE Destroyed
  BY <1>7 DEF Destroyed, ListInv, ConnectionsTypeOK, LinksMatch
<1> QED BY <1>1, <1>2, <1>3, <1>4, <1>5, <1>6, <1>7 DEF Next

\* The list invariant holds in every state of the server: type and links.
LEMMA ListInvariant == Spec => []ListInv
<1>1. Init => ListInv
  BY DEF Init, ListInv, ConnectionsTypeOK, Lists, Links, LinksMatch, Linked, Acyclic
<1> QED BY <1>1, StepKeepsListInv, PTL DEF Spec

\* In every state of the server the list of its connections is well linked, no link that is
\* reached from a live connection leads to deleted memory (rpc.cc:119-146), and the loop of
\* ~Server stands at a live connection (rpc.cc:255).
THEOREM LinksMatchTheorem == Spec => []LinksMatch
BY ListInvariant, PTL DEF ListInv

\* The links have no cycle, so the walk of ~Server, which reads next_mru of a connection
\* and then deletes it (rpc.cc:253-260), never comes back to where it was.
THEOREM LinksAreAcyclic == Spec => []Acyclic(list, live)
BY ListInvariant, PTL DEF ListInv

\* The variables of the list hold connections or null in every state.
THEOREM ConnectionsTypeCorrect == Spec => []ConnectionsTypeOK
BY ListInvariant, PTL DEF ListInv

-----------------------------------------------------------------------------
\* The list as a sequence

\* s is the list of the connections of L, from the mru end on.
InOrder(s, n, l, L) ==
  /\ s \in Seq(L) /\ Len(s) = n
  /\ \A i, j \in 1..n : s[i] = s[j] => i = j
  /\ \A c \in L : \E i \in 1..n : s[i] = c
  /\ n = 0 => l.mru = NULL
  /\ n # 0 => l.mru = s[1] /\ l.next_mru[s[n]] = NULL
  /\ \A i \in 1..n : i + 1 <= n => l.next_mru[s[i]] = s[i + 1]

\* s without its element i, and with one more in front
Without(s, n, i) == [k \in 1..(n - 1) |-> s[IF k < i THEN k ELSE k + 1]]
InFront(c, s, n) == [k \in 1..(n + 1) |-> IF k = 1 THEN c ELSE s[k - 1]]

\* Functions on 1..n are sequences.
LEMMA Listed ==
  ASSUME NEW L, NEW n \in Nat, NEW s, s = [k \in 1..n |-> s[k]], \A k \in 1..n : s[k] \in L
  PROVE  s \in Seq(L) /\ Len(s) = n
<1>1. s \in [1..n -> L]
  OBVIOUS
<1> QED BY ONLY <1>1, n \in Nat, SeqDef, LenProperties

LEMMA Elements ==
  ASSUME NEW s, NEW n \in Nat, NEW l, NEW L, InOrder(s, n, l, L)
  PROVE  s = [k \in 1..n |-> s[k]] /\ \A k \in 1..n : s[k] \in L
<1>1. s \in [1..n -> L]
  BY LenProperties DEF InOrder
<1> QED BY <1>1

\* The neighbours of a connection in the list are those in the sequence.
LEMMA Neighbours ==
  ASSUME NEW L \in SUBSET Connections, NEW l \in Lists, Linked(l, L),
         NEW s, NEW n \in Nat, InOrder(s, n, l, L), NEW i \in 1..n
  PROVE  /\ l.next_lru[s[i]] = IF i = 1 THEN NULL ELSE s[i - 1]
         /\ l.next_mru[s[i]] = IF i = n THEN NULL ELSE s[i + 1]
<1>1. \A k \in 1..n : s[k] \in L /\ s[k] # NULL
  BY Elements, NullAssumption
<1>2. ASSUME i = 1 PROVE l.next_lru[s[i]] = NULL
  BY <1>1, <1>2 DEF InOrder, Linked
<1>3. ASSUME i # 1 PROVE l.next_lru[s[i]] = s[i - 1]
  <2>1. PICK j \in 1..n : j = i - 1 /\ j + 1 = i
    BY <1>3
  <2>2. l.next_mru[s[j]] = s[i]
    BY <2>1 DEF InOrder
  <2>3. l.next_lru[s[i]] = s[j]
    BY <1>1, <2>2 DEF Linked
  <2> QED BY <1>3, <2>1, <2>3
<1>4. l.next_mru[s[i]] = IF i = n THEN NULL ELSE s[i + 1]
  BY DEF InOrder
<1> QED BY <1>2, <1>3, <1>4

\* What is left when an element is taken out
LeftOf(t, s, n, i, L) ==
  /\ t \in Seq(L) /\ Len(t) = n - 1
  /\ \A k \in 1..(n - 1) : t[k] = s[IF k < i THEN k ELSE k + 1]
  /\ \A j, k \in 1..(n - 1) : t[j] = t[k] => j = k
  /\ \A c \in L : \E k \in 1..(n - 1) : t[k] = c

LEMMA WithoutElements ==
  ASSUME NEW L, NEW n \in Nat, NEW s, NEW i \in 1..n, s = [k \in 1..n |-> s[k]],
         \A k \in 1..n : s[k] \in L, \A j, k \in 1..n : s[j] = s[k] => j = k,
         \A c \in L : \E k \in 1..n : s[k] = c, NEW t, t = Without(s, n, i)
  PROVE  LeftOf(t, s, n, i, L \ {s[i]})
<1>1. PICK m \in Nat : m = n - 1 /\ n = m + 1
  OBVIOUS
<1>2. \A k \in 1..m : t[k] = s[IF k < i THEN k ELSE k + 1]
  BY <1>1 DEF Without
<1>3. \A k \in 1..m : t[k] \in L \ {s[i]}
  BY <1>1, <1>2
<1>4. t = [k \in 1..m |-> t[k]]
  BY <1>1 DEF Without
<1>5. t \in Seq(L \ {s[i]}) /\ Len(t) = m
  BY ONLY <1>3, <1>4, m \in Nat, Listed
<1>6. \A j, k \in 1..m : t[j] = t[k] => j = k
  BY <1>1, <1>2
<1>7. ASSUME NEW c \in L \ {s[i]} PROVE \E k \in 1..m : t[k] = c
  <2>1. PICK j \in 1..n : s[j] = c
    OBVIOUS
  <2>2. CASE j < i
    <3>1. j \in 1..m
      BY <1>1, <2>2
    <3>2. t[j] = s[j]
      BY <1>2, <2>2, <3>1
    <3> QED BY <2>1, <3>1, <3>2
  <2>3. CASE j > i
    <3>1. PICK k \in 1..m : k = j - 1 /\ ~(k < i) /\ k + 1 = j
      BY <1>1, <2>3
    <3> QED BY <1>2, <2>1, <3>1
  <2> QED BY <2>1, <2>2, <2>3
<1> QED BY <1>1, <1>2, <1>5, <1>6, <1>7 DEF LeftOf

\* DeleteFromLRU takes the connection out of the sequence.
LEMMA DeleteTakesOut ==
  ASSUME NEW L \in SUBSET Connections, NEW l \in Lists, Linked(l, L),
         NEW s, NEW n \in Nat, InOrder(s, n, l, L), NEW i \in 1..n
  PROVE  InOrder(Without(s, n, i), n - 1, DeleteFromLRU(l, s[i]), L \ {s[i]})
<1>1. PICK c, newer, older, m, t :
        /\ c = s[i] /\ newer = l.next_lru[c] /\ older = l.next_mru[c]
        /\ m = DeleteFromLRU(l, c) /\ t = Without(s, n, i)
  OBVIOUS
<1>2. s = [k \in 1..n |-> s[k]] /\ \A k \in 1..n : s[k] \in L /\ s[k] # NULL
  BY Elements, NullAssumption
<1>3. newer = (IF i = 1 THEN NULL ELSE s[i - 1]) /\ older = (IF i = n THEN NULL ELSE s[i + 1])
  BY <1>1, Neighbours
<1>4. /\ m.mru = IF newer = NULL THEN older ELSE l.mru
      /\ m.next_mru = IF newer = NULL THEN l.next_mru ELSE [l.next_mru EXCEPT ![newer] = older]
  BY <1>1 DEF DeleteFromLRU, Lists
<1>5. /\ t \in Seq(L \ {c}) /\ Len(t) = n - 1
      /\ \A k \in 1..(n - 1) : t[k] = s[IF k < i THEN k ELSE k + 1]
      /\ \A j, k \in 1..(n - 1) : t[j] = t[k] => j = k
      /\ \A d \in L \ {c} : \E k \in 1..(n - 1) : t[k] = d
  <2>1. /\ \A j, k \in 1..n : s[j] = s[k] => j = k
        /\ \A d \in L : \E k \in 1..n : s[k] = d
    BY DEF InOrder
  <2>2. t = Without(s, n, i)
    BY <1>1
  <2>3. \A k \in 1..n : s[k] \in L
    BY <1>2
  <2>4. LeftOf(t, s, n, i, L \ {s[i]})
    BY ONLY <1>2, <2>1, <2>2, <2>3, n \in Nat, i \in 1..n, WithoutElements
  <2> QED BY <1>1, <2>4 DEF LeftOf
<1>6. l.next_mru \in [Connections -> Links] /\ \A k \in 1..n : s[k] \in Connections
  BY <1>2 DEF Lists
<1>7. \A k \in 1..n : m.next_mru[s[k]] = IF k + 1 = i THEN older ELSE l.next_mru[s[k]]
  <2>1. CASE i = 1
    BY <1>3, <1>4, <2>1
  <2>2. CASE i # 1
    <3>1. PICK j \in 1..n : j + 1 = i /\ newer = s[j]
      BY <1>3, <2>2
    <3>2. m.next_mru = [l.next_mru EXCEPT ![s[j]] = older]
      BY <1>2, <1>4, <3>1
    <3>3. \A k \in 1..n : s[k] = s[j] <=> k + 1 = i
      BY <3>1 DEF InOrder
    <3> QED BY <1>6, <3>2, <3>3
  <2> QED BY <2>1, <2>2
<1>8. n - 1 = 0 => m.mru = NULL
  BY <1>3, <1>4
<1>9. ASSUME n - 1 # 0 PROVE m.mru = t[1] /\ m.next_mru[t[n - 1]] = NULL
  <2>1. 1 \in 1..(n - 1) /\ n - 1 \in 1..(n - 1)
    BY <1>9
  <2>2. l.mru = s[1] /\ l.next_mru[s[n]] = NULL
    BY DEF InOrder
  <2>3. m.mru = t[1]
    <3>1. CASE i = 1
      <4>1. t[1] = s[2] /\ older = s[2]
        BY <1>3, <1>5, <1>9, <2>1, <3>1
      <4> QED BY <1>3, <1>4, <3>1, <4>1
    <3>2. CASE i # 1
      <4>1. PICK j \in 1..n : j = i - 1
        BY <3>2
      <4>2. newer = s[j] /\ newer # NULL
        BY <1>2, <1>3, <3>2, <4>1
      <4>3. t[1] = s[1]
        BY <1>5, <2>1, <3>2
      <4> QED BY <1>4, <2>2, <4>2, <4>3
    <3> QED BY <3>1, <3>2
  <2>4. CASE i = n
    <3>1. PICK j \in 1..n : j = n - 1 /\ j \in 1..(n - 1) /\ j < i /\ j + 1 = i
      BY <2>1, <2>4
    <3>2. t[j] = s[j] /\ m.next_mru[s[j]] = older
      BY <1>5, <1>7, <3>1
    <3> QED BY <1>3, <2>3, <2>4, <3>1, <3>2
  <2>5. CASE i < n
    <3>1. t[n - 1] = s[n]
      BY <1>5, <2>1, <2>5
    <3> QED BY <1>7, <2>2, <2>3, <2>5, <3>1
  <2> QED BY <2>3, <2>4, <2>5
<1>10. ASSUME NEW k \in 1..(n - 1), k + 1 <= n - 1 PROVE m.next_mru[t[k]] = t[k + 1]
  <2>1. /\ k \in 1..n /\ k + 1 \in 1..n /\ k + 2 \in 1..n
        /\ k + 1 \in 1..(n - 1) /\ (k + 1) + 1 = k + 2
    BY <1>10
  <2>2. l.next_mru[s[k]] = s[k + 1] /\ l.next_mru[s[k + 1]] = s[k + 2]
    BY <2>1 DEF InOrder
  <2>3. CASE k + 1 < i
    BY <1>5, <1>7, <2>1, <2>2, <2>3
  <2>4. CASE k + 1 = i
    <3>1. t[k] = s[k] /\ m.next_mru[s[k]] = older
      BY <1>5, <1>7, <2>1, <2>4
    <3>2. t[k + 1] = s[k + 2]
      BY <1>5, <2>1, <2>4
    <3>3. older = s[k + 2]
      BY <1>3, <1>10, <2>1, <2>4
    <3> QED BY <3>1, <3>2, <3>3
  <2>5. CASE k >= i
    <3>1. t[k] = s[k + 1] /\ t[k + 1] = s[k + 2]
      BY <1>5, <2>1, <2>5
    <3>2. m.next_mru[s[k + 1]] = l.next_mru[s[k + 1]]
      BY <1>7, <2>1, <2>5
    <3> QED BY <2>2, <3>1, <3>2
  <2> QED BY <2>3, <2>4, <2>5
<1>11. InOrder(t, n - 1, m, L \ {c})
  BY <1>5, <1>8, <1>9, <1>10 DEF InOrder
<1> QED BY <1>1, <1>11

\* MarkActive and the constructor put the connection in front.
LEMMA LinkPutsInFront ==
  ASSUME NEW L \in SUBSET Connections, NEW l \in Lists, NEW c \in Connections, c \notin L,
         NEW s, NEW n \in Nat, InOrder(s, n, l, L)
  PROVE  InOrder(InFront(c, s, n), n + 1, LinkFirst(l, c), L \cup {c})
<1>1. PICK m, t : m = LinkFirst(l, c) /\ t = InFront(c, s, n)
  OBVIOUS
<1>2. \A k \in 1..n : s[k] \in L /\ s[k] # NULL /\ s[k] # c
  <2>1. \A k \in 1..n : s[k] \in L
    BY Elements
  <2> QED BY <2>1, NullAssumption
<1>3. m.mru = c /\ m.next_mru = [l.next_mru EXCEPT ![c] = l.mru]
  BY <1>1 DEF LinkFirst, Lists
<1>4. m.next_mru[c] = l.mru /\ \A k \in 1..n : m.next_mru[s[k]] = l.next_mru[s[k]]
  BY <1>2, <1>3 DEF Lists
<1>5. t = [k \in 1..(n + 1) |-> t[k]] /\ t[1] = c /\ \A k \in 1..n : t[k + 1] = s[k]
  BY <1>1 DEF InFront
<1>6. ASSUME NEW k \in 1..(n + 1), k # 1
      PROVE  k - 1 \in 1..n /\ t[k] = s[k - 1] /\ t[k] \in L
  BY <1>1, <1>2, <1>6 DEF InFront
<1>7. t \in Seq(L \cup {c}) /\ Len(t) = n + 1
  <2>1. \A k \in 1..(n + 1) : t[k] \in L \cup {c}
    BY <1>5, <1>6
  <2>2. n + 1 \in Nat
    OBVIOUS
  <2> QED BY ONLY <1>5, <2>1, <2>2, Listed
<1>8. ASSUME NEW j \in 1..(n + 1), NEW k \in 1..(n + 1), t[j] = t[k] PROVE j = k
  <2>1. CASE j = 1 \/ k = 1
    BY <1>5, <1>6, <1>8, <2>1
  <2>2. CASE j # 1 /\ k # 1
    <3>1. PICK x \in 1..n, y \in 1..n : x = j - 1 /\ y = k - 1
      BY <1>6, <2>2
    <3>2. t[j] = s[x] /\ t[k] = s[y]
      BY <1>6, <2>2, <3>1
    <3>3. \A a, b \in 1..n : s[a] = s[b] => a = b
      BY DEF InOrder
    <3>4. x = y
      BY ONLY <1>8, <3>2, <3>3, x \in 1..n, y \in 1..n
    <3> QED BY <3>1, <3>4
  <2> QED BY <2>1, <2>2
<1>9. ASSUME NEW d \in L \cup {c} PROVE \E k \in 1..(n + 1) : t[k] = d
  <2>1. CASE d = c
    BY <1>5, <2>1
  <2>2. CASE d \in L
    <3>1. PICK k \in 1..n : s[k] = d
      BY <2>2 DEF InOrder
    <3>2. k + 1 \in 1..(n + 1)
      OBVIOUS
    <3>3. t[k + 1] = s[k]
      BY <1>5
    <3> QED BY ONLY <3>1, <3>2, <3>3
  <2> QED BY <2>1, <2>2
<1>10. m.next_mru[t[n + 1]] = NULL
  <2>1. CASE n = 0
    BY <1>4, <1>5, <2>1 DEF InOrder
  <2>2. CASE n # 0
    <3>1. n \in 1..n /\ l.next_mru[s[n]] = NULL
      BY <2>2 DEF InOrder
    <3> QED BY <1>4, <1>5, <3>1
  <2> QED BY <2>1, <2>2
<1>11. ASSUME NEW k \in 1..(n + 1), k + 1 <= n + 1 PROVE m.next_mru[t[k]] = t[k + 1]
  <2>1. k \in 1..n
    BY <1>11
  <2>a. t[k + 1] = s[k]
    BY ONLY <1>5, <2>1
  <2>2. CASE k = 1
    BY <1>4, <1>5, <2>1, <2>a, <2>2 DEF InOrder
  <2>3. CASE k # 1
    <3>1. PICK j \in 1..n : j = k - 1 /\ j + 1 = k
      BY <2>1, <2>3
    <3>2. t[k] = s[j]
      BY ONLY <1>5, <3>1, j \in 1..n
    <3>3. l.next_mru[s[j]] = s[k]
      BY <2>1, <3>1 DEF InOrder
    <3> QED BY <1>4, <2>a, <3>2, <3>3
  <2> QED BY <2>2, <2>3
<1>12. InOrder(t, n + 1, m, L \cup {c})
  <2>1. n + 1 # 0 /\ m.mru = t[1]
    BY <1>3, <1>5
  <2> QED BY <1>7, <1>8, <1>9, <1>10, <1>11, <2>1 DEF InOrder
<1> QED BY <1>1, <1>12

-----------------------------------------------------------------------------
\* The walk along the links is that sequence, and each step of the server one of RpcRecency.

LEMMA OneFirst ==
  ASSUME NEW L, NEW c, NEW n \in Nat, NEW s \in Seq(L), Len(s) = n
  PROVE  <<c>> \o s = InFront(c, s, n)
<1>1. PICK T : T = L \cup {c}
  OBVIOUS
<1>2. s = [k \in 1..n |-> s[k]] /\ \A k \in 1..n : s[k] \in T
  <2>1. s \in [1..n -> L]
    BY LenProperties
  <2> QED BY <1>1, <2>1
<1>3. s \in Seq(T) /\ <<c>> \in Seq(T) /\ Len(<<c>>) = 1
  <2>1. s \in Seq(T)
    BY ONLY <1>2, n \in Nat, Listed
  <2> QED BY <1>1, <2>1
<1>4. PICK t : t = <<c>> \o s
  OBVIOUS
<1>5. /\ t \in Seq(T) /\ Len(t) = n + 1
      /\ \A k \in 1..(n + 1) : t[k] = IF k <= 1 THEN <<c>>[k] ELSE s[k - 1]
  <2>1. /\ <<c>> \o s \in Seq(T) /\ Len(<<c>> \o s) = Len(<<c>>) + Len(s)
        /\ \A k \in 1..(Len(<<c>>) + Len(s)) : (<<c>> \o s)[k] =
             IF k <= Len(<<c>>) THEN <<c>>[k] ELSE s[k - Len(<<c>>)]
    BY <1>3, ConcatProperties
  <2> QED BY <1>3, <1>4, <2>1
<1>6. t = [k \in 1..(n + 1) |-> t[k]]
  BY <1>5, LenProperties
<1>7. \A k \in 1..(n + 1) : t[k] = IF k = 1 THEN c ELSE s[k - 1]
  BY <1>5
<1>8. t = InFront(c, s, n)
  BY ONLY <1>6, <1>7 DEF InFront
<1> QED BY <1>4, <1>8

\* What Walk computes
Walks(f, n, l) ==
  f = [i \in 1..n |-> IF i = 1 THEN l.mru
                      ELSE IF f[i - 1] = NULL THEN NULL ELSE l.next_mru[f[i - 1]]]

LEMMA WalkIs ==
  ASSUME NEW L \in SUBSET Connections, NEW l, NEW n \in Nat, NEW s, InOrder(s, n, l, L)
  PROVE  Walk(l, L) = s
<1>1. s = [k \in 1..n |-> s[k]] /\ \A k \in 1..n : s[k] \in L /\ s[k] # NULL
  <2>1. s = [k \in 1..n |-> s[k]] /\ \A k \in 1..n : s[k] \in L
    BY Elements
  <2> QED BY <2>1, NullAssumption
<1>2. Cardinality(L) = n
  <2>1. s \in [1..n -> L] /\ \A i, j \in 1..n : s[i] = s[j] => i = j
    BY <1>1 DEF InOrder
  <2>2. \A c \in L : \E i \in 1..n : s[i] = c
    BY DEF InOrder
  <2>3. s \in Bijection(1..n, L)
    BY <2>1, <2>2 DEF Bijection, Injection, Surjection, IsInjective
  <2> QED BY <2>3, FS_CountingElements DEF ExistsBijection
<1>3. Walks(s, n, l)
  <2>1. ASSUME NEW i \in 1..n, i # 1
        PROVE  s[i] = IF s[i - 1] = NULL THEN NULL ELSE l.next_mru[s[i - 1]]
    <3>1. PICK j \in 1..n : j = i - 1 /\ j + 1 = i
      BY <2>1
    <3>2. s[j] # NULL
      BY ONLY <1>1, j \in 1..n
    <3>3. l.next_mru[s[j]] = s[j + 1]
      BY <3>1 DEF InOrder
    <3> QED BY <3>1, <3>2, <3>3
  <2>2. n # 0 => s[1] = l.mru
    BY DEF InOrder
  <2>3. \A i \in 1..n : s[i] = IF i = 1 THEN l.mru
            ELSE IF s[i - 1] = NULL THEN NULL ELSE l.next_mru[s[i - 1]]
    BY <2>1, <2>2
  <2> QED BY ONLY <1>1, <2>3 DEF Walks
<1>4. PICK f : Walk(l, L) = f /\ Walks(f, n, l)
  BY <1>2, <1>3 DEF Walk, Walks
<1>5. 1..n \subseteq {i \in 1..n : f[i] = s[i]}
  <2> DEFINE S == {i \in 1..n : f[i] = s[i]}
  <2>1. 1 \in S \/ n = 0
    BY <1>3, <1>4 DEF Walks
  <2>2. ASSUME NEW i \in 1..n, i + 1 <= n /\ i \in S PROVE i + 1 \in S
    <3>1. i + 1 \in 1..n /\ i + 1 # 1 /\ (i + 1) - 1 = i
      BY <2>2
    <3>2. f[i + 1] = IF f[i] = NULL THEN NULL ELSE l.next_mru[f[i]]
      BY <1>4, <3>1 DEF Walks
    <3>3. s[i + 1] = IF s[i] = NULL THEN NULL ELSE l.next_mru[s[i]]
      BY <1>3, <3>1 DEF Walks
    <3> QED BY <2>2, <3>1, <3>2, <3>3
  <2> HIDE DEF S
  <2> QED BY ONLY <2>1, <2>2, n \in Nat, Upwards DEF S
<1>6. f = [i \in 1..n |-> f[i]]
  BY <1>4 DEF Walks
<1> QED BY <1>1, <1>4, <1>5, <1>6

\* RpcRecency's order without c, and what its steps make of an order
OthersOf(order, c) ==
  LET place == CHOOSE i \in DOMAIN order : order[i] = c
  IN [i \in 1..(Len(order) - 1) |-> order[IF i < place THEN i ELSE i + 1]]

LEMMA OthersAre ==
  ASSUME NEW s, NEW n \in Nat, NEW l, NEW L, InOrder(s, n, l, L), NEW i \in 1..n
  PROVE  OthersOf(s, s[i]) = Without(s, n, i)
<1>1. DOMAIN s = 1..n /\ Len(s) = n
  BY LenProperties DEF InOrder
<1>2. \A j \in 1..n : s[j] = s[i] <=> j = i
  BY DEF InOrder
<1>3. (CHOOSE j \in DOMAIN s : s[j] = s[i]) = i
  BY <1>1, <1>2
<1> QED BY ONLY <1>1, <1>3 DEF OthersOf, Without

\* A live connection has its place in the order.
LEMMA HeldAre ==
  ASSUME NEW s, NEW n \in Nat, NEW l, NEW L, InOrder(s, n, l, L)
  PROVE  {s[i] : i \in DOMAIN s} = L
<1>1. DOMAIN s = 1..n /\ \A i \in 1..n : s[i] \in L
  <2>1. s = [k \in 1..n |-> s[k]] /\ \A k \in 1..n : s[k] \in L
    BY Elements
  <2> QED BY <2>1
<1>2. \A c \in L : \E i \in 1..n : s[i] = c
  BY DEF InOrder
<1> QED BY <1>1, <1>2

\* The order after the construction of a connection, an event of it and its destruction
LEMMA OrderNew ==
  ASSUME NEW L \in SUBSET Connections, NEW l \in Lists, NEW c \in Connections, c \notin L,
         NEW s, NEW n \in Nat, InOrder(s, n, l, L)
  PROVE  \E m \in Nat : InOrder(<<c>> \o s, m, LinkFirst(l, c), L \cup {c})
<1>1. InOrder(InFront(c, s, n), n + 1, LinkFirst(l, c), L \cup {c})
  BY LinkPutsInFront
<1>2. <<c>> \o s = InFront(c, s, n)
  BY OneFirst DEF InOrder
<1>3. n + 1 \in Nat
  OBVIOUS
<1> QED BY <1>1, <1>2, <1>3

LEMMA OrderClose ==
  ASSUME NEW L \in SUBSET Connections, NEW l \in Lists, Linked(l, L), NEW c \in L,
         NEW s, NEW n \in Nat, InOrder(s, n, l, L)
  PROVE  \E m \in Nat : InOrder(OthersOf(s, c), m, DeleteFromLRU(l, c), L \ {c})
<1>1. PICK i \in 1..n : s[i] = c
  BY DEF InOrder
<1>2. InOrder(Without(s, n, i), n - 1, DeleteFromLRU(l, c), L \ {c})
  BY <1>1, DeleteTakesOut
<1>3. OthersOf(s, c) = Without(s, n, i) /\ n - 1 \in Nat
  BY <1>1, OthersAre
<1> QED BY <1>2, <1>3

LEMMA OrderActive ==
  ASSUME NEW L \in SUBSET Connections, NEW l \in Lists, Linked(l, L), NEW c \in L,
         NEW s, NEW n \in Nat, InOrder(s, n, l, L)
  PROVE  \E m \in Nat :
           InOrder(<<c>> \o OthersOf(s, c), m, LinkFirst(DeleteFromLRU(l, c), c), L)
<1>1. PICK o, d, D : o = OthersOf(s, c) /\ d = DeleteFromLRU(l, c) /\ D = L \ {c}
  OBVIOUS
<1>2. PICK k \in Nat : InOrder(o, k, d, D)
  BY <1>1, OrderClose
<1>3. d \in Lists /\ D \in SUBSET Connections /\ c \in Connections /\ c \notin D
  BY <1>1, DeleteKeepsLinks
<1>4. \E m \in Nat : InOrder(<<c>> \o o, m, LinkFirst(d, c), D \cup {c})
  BY <1>2, <1>3, OrderNew
<1>5. D \cup {c} = L
  BY <1>1
<1> QED BY <1>1, <1>4, <1>5

\* The links make one sequence of the live connections.
Ordered == \E n \in Nat : \E s : InOrder(s, n, list, live)

\* A step of the server is one of RpcRecency, or none.
LEMMA StepIsRecency ==
  ListInv /\ Ordered /\ [Next]_vars =>
    Ordered' /\ [Recency!Next]_(Walk(list, live))
<1> SUFFICES ASSUME ListInv, Ordered, [Next]_vars
             PROVE  Ordered' /\ [Recency!Next]_(Walk(list, live))
  OBVIOUS
<1>1. PICK n \in Nat : \E s : InOrder(s, n, list, live)
  BY DEF Ordered
<1>2. PICK s : InOrder(s, n, list, live)
  BY <1>1
<1>3. list \in Lists /\ live \in SUBSET Connections /\ Linked(list, live) /\ registered \subseteq live
  BY DEF ListInv, ConnectionsTypeOK, LinksMatch
<1>4. Walk(list, live) = s /\ {s[i] : i \in DOMAIN s} = live
  BY <1>2, <1>3, WalkIs, HeldAre
<1>5. Recency!Held = live
  BY <1>4 DEF Recency!Held
<1>6. ASSUME NEW c PROVE Recency!Others(c) = OthersOf(s, c)
  BY <1>4 DEF Recency!Others, OthersOf
<1>7. ListInv'
  BY StepKeepsListInv
<1>8. live' \in SUBSET Connections
  BY <1>7 DEF ListInv, ConnectionsTypeOK
<1>9. ASSUME NEW t, NEW m \in Nat, InOrder(t, m, list', live')
      PROVE  Ordered' /\ Walk(list, live)' = t
  <2>1. Ordered'
    BY <1>9 DEF Ordered
  <2>2. Walk(list', live') = t
    BY ONLY <1>8, <1>9, m \in Nat, WalkIs
  <2> QED BY <2>1, <2>2
<1>10. ASSUME list' = list, live' = live
       PROVE  Ordered' /\ [Recency!Next]_(Walk(list, live))
  <2>1. InOrder(s, n, list', live')
    BY <1>2, <1>10
  <2> QED BY <1>4, <1>9, <2>1
<1>11. ASSUME NEW c \in Connections, OnNewConnection(c)
       PROVE  Ordered' /\ [Recency!Next]_(Walk(list, live))
  <2>1. c \notin live /\ list' = LinkFirst(list, c) /\ live' = live \cup {c}
    BY <1>11 DEF OnNewConnection
  <2>2. PICK m \in Nat : InOrder(<<c>> \o s, m, list', live')
    BY <1>2, <1>3, <2>1, OrderNew
  <2>3. Ordered' /\ Walk(list, live)' = <<c>> \o s
    BY <1>9, <2>2
  <2>4. Recency!New(c)
    BY <1>4, <1>5, <2>1, <2>3 DEF Recency!New
  <2> QED BY <2>3, <2>4 DEF Recency!Next
<1>12. ASSUME NEW c \in Connections, OnConnectionEvent(c)
       PROVE  Ordered' /\ [Recency!Next]_(Walk(list, live))
  <2>1. c \in live /\ list' = LinkFirst(DeleteFromLRU(list, c), c) /\ live' = live
    BY <1>3, <1>12 DEF OnConnectionEvent
  <2>2. PICK m \in Nat : InOrder(<<c>> \o OthersOf(s, c), m, list', live')
    BY <1>2, <1>3, <2>1, OrderActive
  <2>3. Ordered' /\ Walk(list, live)' = <<c>> \o OthersOf(s, c)
    BY <1>9, <2>2
  <2>4. Recency!Active(c)
    BY <1>5, <1>6, <2>1, <2>3 DEF Recency!Active
  <2> QED BY <2>3, <2>4 DEF Recency!Next
<1>13. ASSUME NEW c \in live, list' = DeleteFromLRU(list, c), live' = live \ {c}
       PROVE  Ordered' /\ [Recency!Next]_(Walk(list, live))
  <2>1. PICK m \in Nat : InOrder(OthersOf(s, c), m, list', live')
    BY <1>2, <1>3, <1>13, OrderClose
  <2>2. Ordered' /\ Walk(list, live)' = OthersOf(s, c)
    BY <1>9, <2>1
  <2>3. Recency!Close(c) /\ c \in Connections
    BY <1>3, <1>5, <1>6, <2>2 DEF Recency!Close
  <2> QED BY <2>2, <2>3 DEF Recency!Next
<1>14. CASE UNCHANGED vars
  BY <1>10, <1>14 DEF vars
<1>15. ASSUME NEW c \in Connections, CloseConnection(c)
       PROVE  Ordered' /\ [Recency!Next]_(Walk(list, live))
  BY <1>3, <1>13, <1>15 DEF CloseConnection, Delete
<1>16. CASE StartDestroy \/ Destroyed
  BY <1>10, <1>16 DEF StartDestroy, Destroyed
<1>17. CASE DestroyNext
  <2>1. CASE conn \in registered
    BY <1>3, <1>13, <1>17, <2>1 DEF DestroyNext, Delete
  <2>2. CASE conn \notin registered
    BY <1>10, <1>17, <2>2 DEF DestroyNext
  <2> QED BY <2>1, <2>2
<1> QED BY <1>11, <1>12, <1>14, <1>15, <1>16, <1>17 DEF Next

\* For any number of connections the list is at every step a sequence of the live ones, and
\* each operation of rpc.cc on its pointers (MarkActive, DeleteFromLRU at line 119) does to
\* that sequence what RpcRecency says, the deletions in the walk of ~Server included.
THEOREM ListIsRecency == Spec => ImplementsRecency
<1>1. Init => Ordered /\ Walk(list, live) = <<>>
  <2>1. ASSUME Init PROVE InOrder(<<>>, 0, list, live) /\ live \in SUBSET Connections
    <3>1. <<>> \in Seq({}) /\ Len(<<>>) = 0
      BY EmptySeq
    <3> QED BY <2>1, <3>1 DEF Init, InOrder
  <2>2. 0 \in Nat
    OBVIOUS
  <2> QED BY <2>1, <2>2, WalkIs DEF Ordered
<1>2. Init => Recency!Init
  BY <1>1 DEF Recency!Init
<1> QED BY <1>1, <1>2, ListInvariant, StepIsRecency, PTL DEF Spec, ImplementsRecency, Recency!Spec
=============================================================================
