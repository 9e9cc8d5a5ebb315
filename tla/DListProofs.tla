---------------------------- MODULE DListProofs ----------------------------
(* The pointers of DList always represent the lists.  The argument is by   *)
(* positions: Link(L, h, i) names the i-th link of the ring of h, positions  *)
(* of rings are distinct links, and each call changes the pointers at two  *)
(* neighbouring positions only.                                            *)
EXTENDS DList, SeqLemmas, FiniteSetTheorems

Ptr == [next : [Elem -> Elem], prev : [Elem -> Elem]]

ListsOf == [Heads -> Seq(Nodes)]

\* L is a state of the lists and p a state of the pointers that represents it.
Good(p, L) == p \in Ptr /\ L \in ListsOf /\ Apart(L) /\ Rings(p, L)

\* Entry e is on one of the lists of L.
Linked(e, L) == \E h \in Heads : \E i \in DOMAIN L[h] : L[h][i] = e

-----------------------------------------------------------------------------
(* Positions                                                               *)

\* What Link is, by position.
LEMMA AtPlaces ==
    ASSUME NEW L \in ListsOf, NEW h \in Heads
    PROVE  /\ Len(L[h]) \in Nat
           /\ DOMAIN L[h] = 1 .. Len(L[h])
           /\ Link(L, h, 0) = h
           /\ Link(L, h, Len(L[h]) + 1) = h
           /\ \A i \in 1 .. Len(L[h]) : Link(L, h, i) = L[h][i] /\ L[h][i] \in Nodes
           /\ \A i \in 0 .. (Len(L[h]) + 1) : Link(L, h, i) \in Elem
<1>1. L[h] \in Seq(Nodes)
      BY DEF ListsOf
<1>2. Len(L[h]) \in Nat /\ DOMAIN L[h] = 1 .. Len(L[h])
      BY <1>1, LenProperties
<1>3. \A i \in 1 .. Len(L[h]) : L[h][i] \in Nodes
      BY <1>1, ElementOfSeq
<1>4. 0 \notin DOMAIN L[h] /\ Len(L[h]) + 1 \notin DOMAIN L[h]
      BY <1>2
<1> QED BY <1>2, <1>3, <1>4 DEF Link, Elem

\* The places of the rings are distinct links, the head closing each of them.
LEMMA PlacesApart ==
    ASSUME NEW L \in ListsOf, Apart(L), NEW g \in Heads, NEW h \in Heads
    PROVE  /\ \A i \in 0 .. Len(L[g]), j \in 0 .. Len(L[h]) :
                Link(L, g, i) = Link(L, h, j) => g = h /\ i = j
           /\ \A i \in 0 .. Len(L[g]), j \in 0 .. Len(L[h]) :
                Link(L, g, i + 1) = Link(L, h, j + 1) => g = h /\ i = j
<1>1. \A i \in 1 .. Len(L[g]), j \in 1 .. Len(L[h]) :
        L[g][i] = L[h][j] => g = h /\ i = j
      BY AtPlaces DEF Apart
<1>2. \A n \in Nodes : n # g /\ n # h
      BY ElemAssumption
<1>3. /\ Len(L[g]) \in Nat /\ Link(L, g, 0) = g /\ Link(L, g, Len(L[g]) + 1) = g
      /\ \A i \in 1 .. Len(L[g]) : Link(L, g, i) = L[g][i] /\ L[g][i] \in Nodes
      BY AtPlaces
<1>4. /\ Len(L[h]) \in Nat /\ Link(L, h, 0) = h /\ Link(L, h, Len(L[h]) + 1) = h
      /\ \A i \in 1 .. Len(L[h]) : Link(L, h, i) = L[h][i] /\ L[h][i] \in Nodes
      BY AtPlaces
<1>5. ASSUME NEW i \in 0 .. Len(L[g]), NEW j \in 0 .. Len(L[h]),
             Link(L, g, i) = Link(L, h, j)
      PROVE  g = h /\ i = j
  <2>1. (i = 0 \/ i \in 1 .. Len(L[g])) /\ (j = 0 \/ j \in 1 .. Len(L[h]))
        BY <1>3, <1>4
  <2> QED BY <2>1, <1>1, <1>2, <1>3, <1>4, <1>5
<1>6. ASSUME NEW i \in 0 .. Len(L[g]), NEW j \in 0 .. Len(L[h]),
             Link(L, g, i + 1) = Link(L, h, j + 1)
      PROVE  g = h /\ i = j
  <2>1. /\ i = Len(L[g]) \/ i + 1 \in 1 .. Len(L[g])
        /\ j = Len(L[h]) \/ j + 1 \in 1 .. Len(L[h])
        BY <1>3, <1>4
  <2>2. CASE i = Len(L[g]) /\ j = Len(L[h])
        BY <2>2, <1>3, <1>4, <1>6
  <2>3. CASE i = Len(L[g]) /\ j + 1 \in 1 .. Len(L[h])
        BY <2>3, <1>2, <1>3, <1>4, <1>6
  <2>4. CASE i + 1 \in 1 .. Len(L[g]) /\ j = Len(L[h])
        BY <2>4, <1>2, <1>3, <1>4, <1>6
  <2>5. CASE i + 1 \in 1 .. Len(L[g]) /\ j + 1 \in 1 .. Len(L[h])
    <3>1. L[g][i + 1] = L[h][j + 1]
          BY <2>5, <1>3, <1>4, <1>6
    <3>2. g = h /\ i + 1 = j + 1
          BY <3>1, <2>5, <1>1
    <3> QED BY <3>2
  <2> QED BY <2>1, <2>2, <2>3, <2>4, <2>5
<1> QED BY <1>5, <1>6

-----------------------------------------------------------------------------
(* Linking in and out                                                      *)

\* Linking a free entry in between places k and k + 1 of the ring of h gives the
\* ring of the list with the entry at k + 1.
LEMMA InsertKeepsGood ==
    ASSUME NEW p, NEW L, Good(p, L), NEW h \in Heads, NEW e \in Nodes, ~Linked(e, L),
           NEW k \in 0 .. Len(L[h]),
           NEW M \in ListsOf, Apart(M),
           \A g \in Heads : g # h => M[g] = L[g],
           Len(M[h]) = Len(L[h]) + 1,
           \A j \in 1 .. Len(M[h]) :
              M[h][j] = IF j <= k THEN L[h][j] ELSE IF j = k + 1 THEN e ELSE L[h][j - 1]
    PROVE  Good(Insert(p, e, Link(L, h, k), Link(L, h, k + 1)), M)
<1> DEFINE b == Link(L, h, k)
           a == Link(L, h, k + 1)
           r == Insert(p, e, b, a)
           n == Len(L[h])
<1>1. /\ p \in Ptr /\ L \in ListsOf /\ Apart(L) /\ Rings(p, L)
      BY DEF Good
<1>2. /\ n \in Nat /\ Len(M[h]) = n + 1
      /\ Link(L, h, 0) = h /\ Link(L, h, n + 1) = h
      /\ \A i \in 1 .. n : Link(L, h, i) = L[h][i] /\ L[h][i] \in Nodes
      /\ \A i \in 0 .. (n + 1) : Link(L, h, i) \in Elem
      BY <1>1, AtPlaces
<1>3. /\ Link(M, h, 0) = h /\ Link(M, h, n + 2) = h
      /\ \A i \in 1 .. (n + 1) : Link(M, h, i) = M[h][i]
  <2>1. (n + 1) + 1 = n + 2
        BY <1>2
  <2>2. /\ Link(M, h, 0) = h /\ Link(M, h, Len(M[h]) + 1) = h
        /\ \A i \in 1 .. Len(M[h]) : Link(M, h, i) = M[h][i]
        BY AtPlaces
  <2> QED BY <2>1, <2>2, <1>2
<1>4. \A j \in 0 .. (n + 2) :
        Link(M, h, j) = IF j <= k THEN Link(L, h, j) ELSE IF j = k + 1 THEN e ELSE Link(L, h, j - 1)
  <2> TAKE j \in 0 .. (n + 2)
  <2>1. CASE j = 0
        BY <2>1, <1>2, <1>3
  <2>2. CASE j = n + 2
    <3>1. ~(j <= k) /\ j # k + 1 /\ j - 1 = n + 1
          BY <2>2, <1>2
    <3> QED BY <3>1, <2>2, <1>2, <1>3
  <2>3. CASE j \in 1 .. (n + 1)
    <3>1. Link(M, h, j) = M[h][j]
          BY <2>3, <1>3
    <3>2. CASE j <= k
      <4>1. j \in 1 .. n
            BY <3>2, <2>3, <1>2
      <4> QED BY <4>1, <3>1, <3>2, <2>3, <1>2
    <3>3. CASE j = k + 1
          BY <3>3, <3>1, <2>3, <1>2
    <3>4. CASE j > k + 1
      <4>1. j - 1 \in 1 .. n /\ ~(j <= k) /\ j # k + 1
            BY <3>4, <2>3, <1>2
      <4> QED BY <4>1, <3>1, <2>3, <1>2
    <3> QED BY <3>2, <3>3, <3>4, <2>3, <1>2
  <2> QED BY <2>1, <2>2, <2>3, <1>2
<1>5. e \in Elem /\ a \in Elem /\ b \in Elem
      BY <1>2 DEF Elem
<1>6. \A g \in Heads : \A i \in 0 .. (Len(L[g]) + 1) : Link(L, g, i) # e
  <2> SUFFICES ASSUME NEW g \in Heads, NEW i \in 0 .. (Len(L[g]) + 1)
               PROVE  Link(L, g, i) # e
      OBVIOUS
  <2>1. e # g
        BY ElemAssumption
  <2>2. CASE i \in DOMAIN L[g]
        BY <2>2 DEF Link, Linked
  <2>3. CASE i \notin DOMAIN L[g]
        BY <2>3, <2>1 DEF Link
  <2> QED BY <2>2, <2>3
<1>7. a # e /\ b # e
      BY <1>2, <1>6
<1>8. /\ r \in Ptr
      /\ \A x \in Elem :
           /\ r.next[x] = IF x = b THEN e ELSE IF x = e THEN a ELSE p.next[x]
           /\ r.prev[x] = IF x = e THEN b ELSE IF x = a THEN e ELSE p.prev[x]
      BY <1>1, <1>5, <1>7 DEF Insert, Ptr
<1> HIDE DEF r
<1>9. ASSUME NEW g \in Heads, NEW i \in 0 .. Len(M[g])
      PROVE  r.next[Link(M, g, i)] = Link(M, g, i + 1) /\ r.prev[Link(M, g, i + 1)] = Link(M, g, i)
  <2>1. CASE g # h
    <3>1. M[g] = L[g] /\ Len(L[g]) \in Nat
          BY <2>1, <1>1, AtPlaces
    <3>2. Link(M, g, i) = Link(L, g, i) /\ Link(M, g, i + 1) = Link(L, g, i + 1)
          BY <3>1 DEF Link
    <3>3. /\ Link(L, g, i) \in Elem /\ Link(L, g, i + 1) \in Elem
          /\ Link(L, g, i) # e /\ Link(L, g, i + 1) # e
          BY <3>1, <1>1, <1>6, AtPlaces
    <3>4. Link(L, g, i) # b /\ Link(L, g, i + 1) # a
          BY <3>1, <2>1, <1>1, PlacesApart
    <3>5. p.next[Link(L, g, i)] = Link(L, g, i + 1) /\ p.prev[Link(L, g, i + 1)] = Link(L, g, i)
          BY <3>1, <1>1 DEF Rings
    <3> QED BY <3>2, <3>3, <3>4, <3>5, <1>8
  <2>2. CASE g = h
    <3>1. i \in 0 .. (n + 1)
          BY <2>2, <1>2
    <3>2. \A j \in 0 .. n : p.next[Link(L, h, j)] = Link(L, h, j + 1)
                          /\ p.prev[Link(L, h, j + 1)] = Link(L, h, j)
          BY <1>1 DEF Rings
    <3>3. CASE i < k
      <4>1. /\ i \in 0 .. n /\ i # k /\ i + 1 \in 0 .. (n + 1) /\ i + 1 <= k
            /\ i \in 0 .. (n + 2) /\ i + 1 \in 0 .. (n + 2) /\ i <= k
            BY <3>1, <3>3, <1>2
      <4>2. Link(M, h, i) = Link(L, h, i) /\ Link(M, h, i + 1) = Link(L, h, i + 1)
            BY <4>1, <1>4
      <4>3. Link(L, h, i) # b /\ Link(L, h, i + 1) # a
            BY <4>1, <1>1, PlacesApart
      <4>4. /\ Link(L, h, i) \in Elem /\ Link(L, h, i + 1) \in Elem
            /\ Link(L, h, i) # e /\ Link(L, h, i + 1) # e
            BY <4>1, <1>2, <1>6
      <4> QED BY <4>1, <4>2, <4>3, <4>4, <3>2, <2>2, <1>8
    <3>4. CASE i = k
      <4>1. i \in 0 .. (n + 2) /\ i + 1 \in 0 .. (n + 2) /\ i <= k /\ ~(i + 1 <= k)
            BY <3>1, <3>4, <1>2
      <4>2. Link(M, h, i) = b /\ Link(M, h, i + 1) = e
            BY <4>1, <3>4, <1>4
      <4> QED BY <4>2, <2>2, <1>5, <1>8
    <3>5. CASE i = k + 1
      <4>1. /\ i \in 0 .. (n + 2) /\ i + 1 \in 0 .. (n + 2)
            /\ ~(i <= k) /\ ~(i + 1 <= k) /\ i + 1 # k + 1 /\ (i + 1) - 1 = k + 1
            BY <3>1, <3>5, <1>2
      <4>2. Link(M, h, i) = e /\ Link(M, h, i + 1) = a
            BY <4>1, <3>5, <1>4
      <4> QED BY <4>2, <2>2, <1>5, <1>7, <1>8
    <3>6. CASE i > k + 1
      <4> DEFINE j == i - 1
      <4>1. /\ j \in 0 .. n /\ j # k /\ j + 1 = i
            /\ i \in 0 .. (n + 2) /\ i + 1 \in 0 .. (n + 2)
            /\ ~(i <= k) /\ i # k + 1 /\ ~(i + 1 <= k) /\ i + 1 # k + 1 /\ (i + 1) - 1 = j + 1
            /\ j \in 0 .. (n + 1) /\ j + 1 \in 0 .. (n + 1)
            BY <3>1, <3>6, <1>2
      <4>2. Link(M, h, i) = Link(L, h, j) /\ Link(M, h, i + 1) = Link(L, h, j + 1)
            BY <4>1, <1>4
      <4>3. Link(L, h, j) # b /\ Link(L, h, j + 1) # a
            BY <4>1, <1>1, PlacesApart
      <4>4. /\ Link(L, h, j) \in Elem /\ Link(L, h, j + 1) \in Elem
            /\ Link(L, h, j) # e /\ Link(L, h, j + 1) # e
            BY <4>1, <1>2, <1>6
      <4> HIDE DEF j
      <4> QED BY <4>1, <4>2, <4>3, <4>4, <3>2, <2>2, <1>8
    <3> QED BY <3>1, <3>3, <3>4, <3>5, <3>6, <1>2
  <2> QED BY <2>1, <2>2
<1>10. Rings(r, M)
      BY <1>9 DEF Rings
<1> QED BY <1>8, <1>10 DEF Good, r

\* Unlinking the entry at place k of the ring of h gives the ring of the list
\* without it.
LEMMA UnlinkKeepsGood ==
    ASSUME NEW p, NEW L, Good(p, L), NEW h \in Heads, NEW k \in 1 .. Len(L[h]),
           NEW M \in ListsOf, Apart(M),
           \A g \in Heads : g # h => M[g] = L[g],
           Len(M[h]) = Len(L[h]) - 1,
           \A j \in 1 .. Len(M[h]) : M[h][j] = L[h][IF j < k THEN j ELSE j + 1]
    PROVE  Good(Unlink(p, L[h][k]), M)
<1> DEFINE n == Len(L[h])
           e == L[h][k]
           b == Link(L, h, k - 1)
           a == Link(L, h, k + 1)
           r == Unlink(p, e)
<1>1. /\ p \in Ptr /\ L \in ListsOf /\ Apart(L) /\ Rings(p, L)
      BY DEF Good
<1>2. /\ n \in Nat /\ Len(M[h]) = n - 1
      /\ Link(L, h, 0) = h /\ Link(L, h, n + 1) = h
      /\ \A i \in 1 .. n : Link(L, h, i) = L[h][i] /\ L[h][i] \in Nodes
      /\ \A i \in 0 .. (n + 1) : Link(L, h, i) \in Elem
      BY <1>1, AtPlaces
<1>3. /\ Link(M, h, 0) = h /\ Link(M, h, n) = h
      /\ \A i \in 1 .. (n - 1) : Link(M, h, i) = M[h][i]
  <2>1. (n - 1) + 1 = n
        BY <1>2
  <2> QED BY <2>1, <1>2, AtPlaces
<1>4. \A j \in 0 .. n : Link(M, h, j) = Link(L, h, IF j < k THEN j ELSE j + 1)
  <2> TAKE j \in 0 .. n
  <2>1. CASE j = 0
        BY <2>1, <1>2, <1>3
  <2>2. CASE j = n
        BY <2>2, <1>2, <1>3
  <2>3. CASE j \in 1 .. (n - 1)
    <3>1. Link(M, h, j) = L[h][IF j < k THEN j ELSE j + 1]
          BY <2>3, <1>2, <1>3
    <3>2. (IF j < k THEN j ELSE j + 1) \in 1 .. n
          BY <2>3, <1>2
    <3> QED BY <3>1, <3>2, <1>2
  <2> QED BY <2>1, <2>2, <2>3, <1>2
<1>5. \A j \in 0 .. n : p.next[Link(L, h, j)] = Link(L, h, j + 1)
                      /\ p.prev[Link(L, h, j + 1)] = Link(L, h, j)
      BY <1>1 DEF Rings
<1>6. e = Link(L, h, k) /\ p.next[e] = a /\ p.prev[e] = b
  <2>1. k \in 0 .. n /\ k - 1 \in 0 .. n /\ (k - 1) + 1 = k
        BY <1>2
  <2> QED BY <2>1, <1>2, <1>5
<1>7. a \in Elem /\ b \in Elem
  <2>1. k - 1 \in 0 .. (n + 1) /\ k + 1 \in 0 .. (n + 1)
        BY <1>2
  <2> QED BY <2>1, <1>2
<1>8. /\ r \in Ptr
      /\ \A x \in Elem : /\ r.next[x] = IF x = b THEN a ELSE p.next[x]
                         /\ r.prev[x] = IF x = a THEN b ELSE p.prev[x]
      BY <1>1, <1>6, <1>7 DEF Unlink, Ptr
<1> HIDE DEF r
<1>9. ASSUME NEW g \in Heads, NEW i \in 0 .. Len(M[g])
      PROVE  r.next[Link(M, g, i)] = Link(M, g, i + 1) /\ r.prev[Link(M, g, i + 1)] = Link(M, g, i)
  <2>1. CASE g # h
    <3>1. M[g] = L[g] /\ Len(L[g]) \in Nat
          BY <2>1, <1>1, AtPlaces
    <3>2. Link(M, g, i) = Link(L, g, i) /\ Link(M, g, i + 1) = Link(L, g, i + 1)
          BY <3>1 DEF Link
    <3>3. Link(L, g, i) \in Elem /\ Link(L, g, i + 1) \in Elem
          BY <3>1, <1>1, AtPlaces
    <3>4. Link(L, g, i) # b /\ Link(L, g, i + 1) # a
      <4>1. k - 1 \in 0 .. n /\ k \in 0 .. n
            BY <1>2
      <4> QED BY <4>1, <3>1, <2>1, <1>1, PlacesApart
    <3>5. p.next[Link(L, g, i)] = Link(L, g, i + 1) /\ p.prev[Link(L, g, i + 1)] = Link(L, g, i)
          BY <3>1, <1>1 DEF Rings
    <3> QED BY <3>2, <3>3, <3>4, <3>5, <1>8
  <2>2. CASE g = h
    <3>1. i \in 0 .. (n - 1)
          BY <2>2, <1>2
    <3>2. CASE i + 1 < k
      <4>1. /\ i \in 0 .. n /\ i + 1 \in 0 .. n /\ i < k
            /\ k - 1 \in 0 .. n /\ k \in 0 .. n /\ i # k - 1 /\ i # k
            /\ i \in 0 .. (n + 1) /\ i + 1 \in 0 .. (n + 1)
            BY <3>1, <3>2, <1>2
      <4>2. Link(M, h, i) = Link(L, h, i) /\ Link(M, h, i + 1) = Link(L, h, i + 1)
            BY <4>1, <3>2, <1>4
      <4>3. Link(L, h, i) # b /\ Link(L, h, i + 1) # a
            BY <4>1, <1>1, PlacesApart
      <4> QED BY <4>1, <4>2, <4>3, <2>2, <1>2, <1>5, <1>8, ZenonT(40)
    <3>3. CASE i + 1 = k
      <4>1. i \in 0 .. n /\ i + 1 \in 0 .. n /\ i < k /\ ~(i + 1 < k) /\ i = k - 1
            BY <3>1, <3>3, <1>2
      <4>2. Link(M, h, i) = b /\ Link(M, h, i + 1) = a
            BY <4>1, <3>3, <1>4
      <4> QED BY <4>2, <2>2, <1>7, <1>8
    <3>4. CASE i >= k
      <4> DEFINE j == i + 1
      <4>1. /\ i \in 0 .. n /\ i + 1 \in 0 .. n /\ ~(i < k) /\ ~(i + 1 < k)
            /\ j \in 0 .. n /\ k - 1 \in 0 .. n /\ k \in 0 .. n /\ j # k - 1 /\ j # k
            /\ j \in 0 .. (n + 1) /\ j + 1 \in 0 .. (n + 1) /\ j = i + 1
            BY <3>1, <3>4, <1>2
      <4> HIDE DEF j
      <4>2. Link(M, h, i) = Link(L, h, j) /\ Link(M, h, i + 1) = Link(L, h, j + 1)
            BY <4>1, <1>4
      <4>3. Link(L, h, j) # b /\ Link(L, h, j + 1) # a
            BY <4>1, <1>1, PlacesApart
      <4> QED BY <4>1, <4>2, <4>3, <2>2, <1>2, <1>5, <1>8
    <3> QED BY <3>1, <3>2, <3>3, <3>4, <1>2
  <2> QED BY <2>1, <2>2
<1>10. Rings(r, M)
      BY <1>9 DEF Rings
<1> QED BY <1>8, <1>10 DEF Good, r

-----------------------------------------------------------------------------
(* The calls                                                               *)

\* Append links a free entry in at the end.
LEMMA AddTailKeepsGood ==
    ASSUME NEW p, NEW L, Good(p, L), NEW h \in Heads, NEW e \in Nodes, ~Linked(e, L)
    PROVE  Good(AddTail(p, e, h), [L EXCEPT ![h] = Append(@, e)])
<1> DEFINE M == [L EXCEPT ![h] = Append(@, e)]
           n == Len(L[h])
<1>1. L \in ListsOf /\ Apart(L) /\ Rings(p, L)
      BY DEF Good
<1>2. L[h] \in Seq(Nodes) /\ n \in Nat /\ DOMAIN L[h] = 1 .. n
      BY <1>1, LenProperties DEF ListsOf
<1>3. /\ Append(L[h], e) \in Seq(Nodes) /\ Len(Append(L[h], e)) = n + 1
      /\ \A j \in 1 .. n : Append(L[h], e)[j] = L[h][j]
      /\ Append(L[h], e)[n + 1] = e
      BY <1>2, AppendProperties
<1>4. M \in ListsOf /\ M[h] = Append(L[h], e) /\ \A g \in Heads : g # h => M[g] = L[g]
      BY <1>1, <1>3 DEF ListsOf
<1> HIDE DEF M
<1>5. \A j \in 1 .. Len(M[h]) :
        M[h][j] = IF j <= n THEN L[h][j] ELSE IF j = n + 1 THEN e ELSE L[h][j - 1]
      BY <1>2, <1>3, <1>4
<1>6. Apart(M)
  <2> SUFFICES ASSUME NEW g \in Heads, NEW f \in Heads,
                      NEW i \in DOMAIN M[g], NEW j \in DOMAIN M[f], M[g][i] = M[f][j]
               PROVE  g = f /\ i = j
      BY DEF Apart
  <2>1. DOMAIN M[h] = 1 .. (n + 1)
        BY <1>3, <1>4, LenProperties
  <2>2. g # h => i \in DOMAIN L[g] /\ M[g][i] = L[g][i]
        BY <1>4
  <2>3. f # h => j \in DOMAIN L[f] /\ M[f][j] = L[f][j]
        BY <1>4
  <2>4. g = h => \/ i \in DOMAIN L[g] /\ M[g][i] = L[g][i]
                 \/ i = n + 1 /\ M[g][i] = e
        BY <2>1, <1>2, <1>3, <1>4
  <2>5. f = h => \/ j \in DOMAIN L[f] /\ M[f][j] = L[f][j]
                 \/ j = n + 1 /\ M[f][j] = e
        BY <2>1, <1>2, <1>3, <1>4
  <2> QED BY <2>2, <2>3, <2>4, <2>5, <1>1 DEF Apart, Linked
<1>7. p.prev[h] = Link(L, h, n) /\ h = Link(L, h, n + 1)
  <2>1. n \in 0 .. n
        BY <1>2
  <2> QED BY <2>1, <1>1, AtPlaces DEF Rings
<1>8. n \in 0 .. Len(L[h]) /\ Len(M[h]) = Len(L[h]) + 1
      BY <1>2, <1>3, <1>4
<1>9. Good(Insert(p, e, Link(L, h, n), Link(L, h, n + 1)), M)
      BY <1>4, <1>5, <1>6, <1>8, InsertKeepsGood
<1> QED BY <1>7, <1>9 DEF AddTail, M

\* list_add links a free entry in at the front.
LEMMA AddFrontKeepsGood ==
    ASSUME NEW p, NEW L, Good(p, L), NEW h \in Heads, NEW e \in Nodes, ~Linked(e, L)
    PROVE  Good(AddFront(p, e, h), [L EXCEPT ![h] = <<e>> \o @])
<1> DEFINE M == [L EXCEPT ![h] = <<e>> \o @]
           n == Len(L[h])
<1>1. L \in ListsOf /\ Apart(L) /\ Rings(p, L)
      BY DEF Good
<1>2. L[h] \in Seq(Nodes) /\ n \in Nat /\ DOMAIN L[h] = 1 .. n
      BY <1>1, LenProperties DEF ListsOf
<1>3. /\ <<e>> \o L[h] \in Seq(Nodes) /\ Len(<<e>> \o L[h]) = n + 1
      /\ (<<e>> \o L[h])[1] = e
      /\ \A j \in 2 .. (n + 1) : (<<e>> \o L[h])[j] = L[h][j - 1]
  <2>1. <<e>> \in Seq(Nodes) /\ Len(<<e>>) = 1 /\ <<e>>[1] = e
        OBVIOUS
  <2>2. /\ <<e>> \o L[h] \in Seq(Nodes) /\ Len(<<e>> \o L[h]) = Len(<<e>>) + n
        /\ \A j \in 1 .. (Len(<<e>>) + n) :
             (<<e>> \o L[h])[j] = IF j <= Len(<<e>>) THEN <<e>>[j] ELSE L[h][j - Len(<<e>>)]
        BY <2>1, <1>2, ConcatProperties
  <2> QED BY <2>1, <2>2, <1>2
<1>4. M \in ListsOf /\ M[h] = <<e>> \o L[h] /\ \A g \in Heads : g # h => M[g] = L[g]
      BY <1>1, <1>3 DEF ListsOf
<1> HIDE DEF M
<1>5. \A j \in 1 .. Len(M[h]) :
        M[h][j] = IF j <= 0 THEN L[h][j] ELSE IF j = 0 + 1 THEN e ELSE L[h][j - 1]
      BY <1>2, <1>3, <1>4
<1>6. Apart(M)
  <2> SUFFICES ASSUME NEW g \in Heads, NEW f \in Heads,
                      NEW i \in DOMAIN M[g], NEW j \in DOMAIN M[f], M[g][i] = M[f][j]
               PROVE  g = f /\ i = j
      BY DEF Apart
  <2>1. DOMAIN M[h] = 1 .. (n + 1)
        BY <1>3, <1>4, LenProperties
  <2>2. g # h => i \in DOMAIN L[g] /\ M[g][i] = L[g][i]
        BY <1>4
  <2>3. f # h => j \in DOMAIN L[f] /\ M[f][j] = L[f][j]
        BY <1>4
  <2>4. g = h => /\ i \in 1 .. (n + 1)
                 /\ \/ i - 1 \in DOMAIN L[g] /\ M[g][i] = L[g][i - 1]
                    \/ i = 1 /\ M[g][i] = e
        BY <2>1, <1>2, <1>3, <1>4
  <2>5. f = h => /\ j \in 1 .. (n + 1)
                 /\ \/ j - 1 \in DOMAIN L[f] /\ M[f][j] = L[f][j - 1]
                    \/ j = 1 /\ M[f][j] = e
        BY <2>1, <1>2, <1>3, <1>4
  <2>6. CASE g # h /\ f # h
        BY <2>6, <2>2, <2>3, <1>1 DEF Apart
  <2>7. CASE g # h /\ f = h
        BY <2>7, <2>2, <2>5, <1>1 DEF Apart, Linked
  <2>8. CASE g = h /\ f # h
        BY <2>8, <2>3, <2>4, <1>1 DEF Apart, Linked
  <2>9. CASE g = h /\ f = h
    <3>1. CASE i = 1 /\ M[g][i] = e
          BY <3>1, <2>9, <2>5 DEF Linked
    <3>2. CASE j = 1 /\ M[f][j] = e
          BY <3>2, <2>9, <2>4 DEF Linked
    <3>3. CASE /\ i - 1 \in DOMAIN L[g] /\ M[g][i] = L[g][i - 1]
               /\ j - 1 \in DOMAIN L[f] /\ M[f][j] = L[f][j - 1]
      <4>1. L[h][i - 1] = L[h][j - 1]
            BY <3>3, <2>9
      <4>2. i - 1 = j - 1
            BY <4>1, <3>3, <2>9, <1>1 DEF Apart
      <4> QED BY <4>2, <2>9, <2>4, <2>5
    <3> QED BY <3>1, <3>2, <3>3, <2>9, <2>4, <2>5
  <2> QED BY <2>6, <2>7, <2>8, <2>9
<1>7. h = Link(L, h, 0) /\ p.next[h] = Link(L, h, 0 + 1)
  <2>1. 0 \in 0 .. n
        BY <1>2
  <2> QED BY <2>1, <1>1, AtPlaces DEF Rings
<1>8. 0 \in 0 .. Len(L[h]) /\ Len(M[h]) = Len(L[h]) + 1
      BY <1>2, <1>3, <1>4
<1>9. Good(Insert(p, e, Link(L, h, 0), Link(L, h, 0 + 1)), M)
      BY <1>4, <1>5, <1>6, <1>8, InsertKeepsGood
<1> QED BY <1>7, <1>9 DEF AddFront, M

\* list_del takes an entry off its list, and off all of them.
LEMMA DelKeepsGood ==
    ASSUME NEW p, NEW L, Good(p, L), NEW h \in Heads, NEW k \in DOMAIN L[h]
    PROVE  /\ Good(Unlink(p, L[h][k]), [L EXCEPT ![h] = RemoveAt(@, k)])
           /\ ~Linked(L[h][k], [L EXCEPT ![h] = RemoveAt(@, k)])
           /\ L[h][k] \in Nodes
<1> DEFINE M == [L EXCEPT ![h] = RemoveAt(@, k)]
           n == Len(L[h])
<1>1. L \in ListsOf /\ Apart(L)
      BY DEF Good
<1>2. /\ L[h] \in Seq(Nodes) /\ n \in Nat /\ DOMAIN L[h] = 1 .. n
      /\ k \in 1 .. n /\ L[h][k] \in Nodes
      BY <1>1, LenProperties, ElementOfSeq DEF ListsOf
<1>3. /\ RemoveAt(L[h], k) \in Seq(Nodes) /\ Len(RemoveAt(L[h], k)) = n - 1
      /\ \A j \in 1 .. (n - 1) : RemoveAt(L[h], k)[j] = L[h][IF j < k THEN j ELSE j + 1]
      BY <1>2, RemoveAtEntries
<1>4. M \in ListsOf /\ M[h] = RemoveAt(L[h], k) /\ \A g \in Heads : g # h => M[g] = L[g]
      BY <1>1, <1>3 DEF ListsOf
<1> HIDE DEF M
<1>5. DOMAIN M[h] = 1 .. (n - 1)
      BY <1>3, <1>4, LenProperties
<1> DEFINE old(g, i) == IF g = h /\ i >= k THEN i + 1 ELSE i
<1>6. \A g \in Heads : \A i \in DOMAIN M[g] :
        /\ old(g, i) \in DOMAIN L[g] /\ M[g][i] = L[g][old(g, i)]
        /\ g = h => i \in 1 .. (n - 1) /\ old(g, i) # k
  <2> SUFFICES ASSUME NEW g \in Heads, NEW i \in DOMAIN M[g]
               PROVE  /\ old(g, i) \in DOMAIN L[g] /\ M[g][i] = L[g][old(g, i)]
                      /\ g = h => i \in 1 .. (n - 1) /\ old(g, i) # k
      OBVIOUS
  <2>1. CASE g # h
        BY <2>1, <1>4
  <2>2. CASE g = h
    <3>1. i \in 1 .. (n - 1)
          BY <2>2, <1>5
    <3>2. M[g][i] = L[h][IF i < k THEN i ELSE i + 1]
          BY <3>1, <2>2, <1>3, <1>4
    <3>3. CASE i < k
          BY <3>1, <3>2, <3>3, <2>2, <1>2
    <3>4. CASE i >= k
          BY <3>1, <3>2, <3>4, <2>2, <1>2
    <3> QED BY <3>1, <3>3, <3>4, <1>2
  <2> QED BY <2>1, <2>2
<1>7. Apart(M)
  <2> SUFFICES ASSUME NEW g \in Heads, NEW f \in Heads,
                      NEW i \in DOMAIN M[g], NEW j \in DOMAIN M[f], M[g][i] = M[f][j]
               PROVE  g = f /\ i = j
      BY DEF Apart
  <2>1. g = f /\ old(g, i) = old(f, j)
        BY <1>1, <1>6 DEF Apart
  <2>2. CASE g # h
        BY <2>1, <2>2
  <2>3. CASE g = h
    <3>1. i \in 1 .. (n - 1) /\ j \in 1 .. (n - 1)
          BY <2>1, <2>3, <1>6
    <3> QED BY <3>1, <2>1, <1>2
  <2> QED BY <2>2, <2>3
<1>8. ~Linked(L[h][k], M)
  <2> SUFFICES ASSUME NEW g \in Heads, NEW i \in DOMAIN M[g], M[g][i] = L[h][k]
               PROVE  FALSE
      BY DEF Linked
  <2>1. g = h /\ old(g, i) = k
        BY <1>1, <1>6 DEF Apart
  <2> QED BY <2>1, <1>6
<1>9. Good(Unlink(p, L[h][k]), M)
  <2>1. Len(M[h]) = Len(L[h]) - 1 /\ k \in 1 .. Len(L[h])
        BY <1>2, <1>3, <1>4
  <2>2. \A j \in 1 .. Len(M[h]) : M[h][j] = L[h][IF j < k THEN j ELSE j + 1]
        BY <2>1, <1>3, <1>4
  <2> QED BY <2>1, <2>2, <1>4, <1>7, UnlinkKeepsGood
<1> QED BY <1>2, <1>8, <1>9 DEF M

\* INIT_LIST_HEAD of a free entry leaves every list alone.
LEMMA SingleKeepsGood ==
    ASSUME NEW p, NEW L, Good(p, L), NEW e \in Nodes, ~Linked(e, L)
    PROVE  Good(Single(p, e), L)
<1>1. p \in Ptr /\ L \in ListsOf /\ Apart(L) /\ Rings(p, L)
      BY DEF Good
<1>2. e \in Elem
      BY DEF Elem
<1>3. /\ Single(p, e) \in Ptr
      /\ \A x \in Elem : x # e => /\ Single(p, e).next[x] = p.next[x]
                                 /\ Single(p, e).prev[x] = p.prev[x]
      BY <1>1, <1>2 DEF Single, Ptr
<1>4. ASSUME NEW h \in Heads, NEW i \in 0 .. Len(L[h])
      PROVE  /\ Single(p, e).next[Link(L, h, i)] = Link(L, h, i + 1)
             /\ Single(p, e).prev[Link(L, h, i + 1)] = Link(L, h, i)
  <2>1. \A j \in 0 .. (Len(L[h]) + 1) : Link(L, h, j) \in Elem /\ Link(L, h, j) # e
    <3>1. h # e
          BY ElemAssumption
    <3> QED BY <3>1, <1>1, AtPlaces DEF Link, Linked
  <2>2. i \in 0 .. (Len(L[h]) + 1) /\ i + 1 \in 0 .. (Len(L[h]) + 1)
        BY <1>1, AtPlaces
  <2>3. p.next[Link(L, h, i)] = Link(L, h, i + 1) /\ p.prev[Link(L, h, i + 1)] = Link(L, h, i)
        BY <1>1 DEF Rings
  <2> QED BY <2>1, <2>2, <2>3, <1>3
<1>5. Rings(Single(p, e), L)
      BY <1>4 DEF Rings
<1> QED BY <1>1, <1>3, <1>5 DEF Good

-----------------------------------------------------------------------------
(* The theorems                                                            *)

LEMMA InitGood == ListInit => Good(ptr, lists)
<1> SUFFICES ASSUME ListInit PROVE Good(ptr, lists)
    OBVIOUS
<1>1. ptr \in Ptr /\ lists \in ListsOf
      BY EmptySeq DEF ListInit, Ptr, ListsOf
<1>2. \A h \in Heads : Len(lists[h]) = 0 /\ DOMAIN lists[h] = {}
      BY EmptySeq, LenProperties DEF ListInit
<1>3. Apart(lists)
      BY <1>2 DEF Apart
<1>4. Rings(ptr, lists)
  <2> SUFFICES ASSUME NEW h \in Heads, NEW i \in 0 .. 0
               PROVE  ptr.next[Link(lists, h, i)] = Link(lists, h, i + 1)
                      /\ ptr.prev[Link(lists, h, i + 1)] = Link(lists, h, i)
      BY <1>2 DEF Rings
  <2>1. Link(lists, h, i) = h /\ Link(lists, h, i + 1) = h
        BY <1>2 DEF Link
  <2>2. h \in Elem
        BY DEF Elem
  <2> QED BY <2>1, <2>2 DEF ListInit
<1> QED BY <1>1, <1>3, <1>4 DEF Good

LEMMA NextGood == Good(ptr, lists) /\ [ListNext]_listVars => Good(ptr, lists)'
<1> SUFFICES ASSUME Good(ptr, lists), [ListNext]_listVars PROVE Good(ptr', lists')
    BY DEF Good, Apart, Rings, Link
<1>1. ASSUME NEW e \in Nodes, NEW h \in Heads, ListAdd(e, h) PROVE Good(ptr', lists')
      BY <1>1, AddFrontKeepsGood DEF ListAdd, On, Linked
<1>2. ASSUME NEW e \in Nodes, NEW h \in Heads, ListAddTail(e, h) PROVE Good(ptr', lists')
      BY <1>2, AddTailKeepsGood DEF ListAddTail, On, Linked
<1>3. ASSUME NEW g \in Heads, NEW i \in DOMAIN lists[g], ListDel(g, i)
      PROVE  Good(ptr', lists')
      BY <1>3, DelKeepsGood DEF ListDel
<1>4. ASSUME NEW g \in Heads, NEW i \in DOMAIN lists[g], ListDelInit(g, i)
      PROVE  Good(ptr', lists')
      BY <1>4, DelKeepsGood, SingleKeepsGood DEF ListDelInit, UnlinkInit
<1>5. ASSUME NEW g \in Heads, NEW i \in DOMAIN lists[g], NEW h \in Heads,
             ListMoveTail(g, i, h)
      PROVE  Good(ptr', lists')
      BY <1>5, DelKeepsGood, AddTailKeepsGood DEF ListMoveTail, ToTail
<1>6. ASSUME UNCHANGED listVars PROVE Good(ptr', lists')
      BY <1>6 DEF listVars
<1> QED BY <1>1, <1>2, <1>3, <1>4, <1>5, <1>6 DEF ListNext

\* The pointers of list.h represent the lists they are meant to, in every state any
\* order of legal calls reaches.
THEOREM ListsRepresented == ListSpec => []Represents
<1>1. Good(ptr, lists) => Represents
      BY DEF Good, Represents
<1> QED BY InitGood, NextGood, <1>1, PTL DEF ListSpec

\* Every pointer of list.h points to a head or to an entry.
THEOREM PointersTyped == ListSpec => []ListTypeOK
<1>1. Good(ptr, lists) => ListTypeOK
      BY DEF Good, ListTypeOK, Ptr, ListsOf
<1> QED BY InitGood, NextGood, <1>1, PTL DEF ListSpec

-----------------------------------------------------------------------------
(* The readers.  A walk is a recursive function; what it visits is found   *)
(* by its least step that would go astray.                                 *)

\* The links a walk from h visits in its steps 0 to k are well defined.
Visits(p, h, k, f) ==
    f = [n \in 0 .. k |-> IF n = 0 THEN p.next[h] ELSE p.next[f[n - 1]]]

LEMMA WalkIsDefined ==
    ASSUME NEW p, NEW h, NEW most \in Nat
    PROVE  \E f : Visits(p, h, most, f)
<1> DEFINE T == {k \in Nat : ~ \E f : Visits(p, h, k, f)}
<1> SUFFICES ASSUME most \in T PROVE FALSE
    OBVIOUS
<1>1. PICK k \in T : \A j \in T : k <= j
      BY LeastNat
<1>2. k \in Nat /\ ~ \E f : Visits(p, h, k, f)
      BY <1>1
<1>3. k # 0
  <2> SUFFICES ASSUME k = 0 PROVE FALSE
      OBVIOUS
  <2> DEFINE f == [n \in 0 .. k |-> p.next[h]]
  <2>1. \A n \in 0 .. k : n = 0
        OBVIOUS
  <2>2. f = [n \in 0 .. k |-> IF n = 0 THEN p.next[h] ELSE p.next[f[n - 1]]]
        BY <2>1
  <2> HIDE DEF f
  <2>3. Visits(p, h, k, f)
        BY <2>2 DEF Visits
  <2> QED BY <2>3, <1>2
<1>4. k - 1 \in Nat /\ k - 1 \notin T
  <2>1. k - 1 \in Nat /\ ~(k <= k - 1)
        BY <1>2, <1>3
  <2> HIDE DEF T
  <2> QED BY <2>1, <1>1
<1>5. PICK f : Visits(p, h, k - 1, f)
      BY <1>4
<1>6. f = [n \in 0 .. (k - 1) |-> IF n = 0 THEN p.next[h] ELSE p.next[f[n - 1]]]
      BY <1>5 DEF Visits
<1>7. \A n \in 0 .. (k - 1) : f[n] = IF n = 0 THEN p.next[h] ELSE p.next[f[n - 1]]
      BY <1>6
<1> DEFINE x == p.next[f[k - 1]]
           g == [n \in 0 .. k |-> IF n = k THEN x ELSE f[n]]
<1>8. \A n \in 0 .. k : g[n] = IF n = k THEN x ELSE f[n]
      OBVIOUS
<1>9. ASSUME NEW n \in 0 .. k
      PROVE  g[n] = IF n = 0 THEN p.next[h] ELSE p.next[g[n - 1]]
  <2>1. CASE n = k
    <3>1. k - 1 \in 0 .. k /\ k - 1 # k
          BY <1>2, <1>3
    <3>2. g[k - 1] = f[k - 1]
          BY <3>1, <1>8
    <3> HIDE DEF g
    <3> QED BY <2>1, <3>2, <1>3, <1>8
  <2>2. CASE n # k
    <3>1. n \in 0 .. (k - 1) /\ (n # 0 => n - 1 \in 0 .. k /\ n - 1 # k)
          BY <2>2, <1>2
    <3>2. g[n] = f[n] /\ (n # 0 => g[n - 1] = f[n - 1])
          BY <2>2, <3>1, <1>8
    <3> HIDE DEF g
    <3> QED BY <3>1, <3>2, <1>7
  <2> QED BY <2>1, <2>2
<1>10. g = [n \in 0 .. k |-> IF n = 0 THEN p.next[h] ELSE p.next[g[n - 1]]]
       BY <1>9
<1> HIDE DEF g
<1>11. Visits(p, h, k, g)
       BY <1>10 DEF Visits
<1> QED BY <1>11, <1>2

\* A list is no longer than there are entries, so that a walk along it is not cut short.
LEMMA ListFits ==
    ASSUME NEW L \in ListsOf, Apart(L), NEW h \in Heads
    PROVE  Cardinality(Elem) \in Nat /\ Len(L[h]) <= Cardinality(Elem)
<1> DEFINE n == Len(L[h])
           S == 1 .. n
<1>1. IsFiniteSet(Elem)
      BY FiniteAssumption DEF Elem
<1>2. Cardinality(Elem) \in Nat
      BY <1>1, FS_CardinalityType
<1>3. L[h] \in Seq(Nodes) /\ n \in Nat /\ DOMAIN L[h] = S
      BY LenProperties DEF ListsOf
<1>4. \A i \in S : L[h][i] \in Elem
      BY <1>3, ElementOfSeq DEF Elem
<1>5. \A i, j \in S : L[h][i] = L[h][j] => i = j
      BY <1>3 DEF Apart
<1> DEFINE f == [i \in S |-> L[h][i]]
<1>6. f \in [S -> Elem] /\ DOMAIN f = S /\ \A i, j \in S : f[i] = f[j] => i = j
      BY <1>4, <1>5
<1>7. Cardinality(S) = n
  <2>1. 1 \in Int /\ n \in Int
        BY <1>3
  <2>2. Cardinality(1 .. n) = IF 1 > n THEN 0 ELSE n - 1 + 1
    <3> HIDE DEF n
    <3> QED BY <2>1, FS_Interval, Zenon
  <2> QED BY <2>2, <1>3
<1> HIDE DEF f, S
<1>8. f \in Injection(S, Elem)
  <2>1. IsInjective(f)
        BY <1>6, Zenon DEF IsInjective
  <2> QED BY <2>1, <1>6, Zenon DEF Injection
<1>9. Cardinality(S) <= Cardinality(Elem)
      BY <1>1, <1>8, FS_Injection
<1> QED BY <1>2, <1>7, <1>9

\* A walk from the head of a list visits its places in their order, up to the head.
LEMMA WalkGoesRound ==
    ASSUME NEW p, NEW L, Good(p, L), NEW h \in Heads, NEW most \in Nat,
           Len(L[h]) <= most, NEW f, Visits(p, h, most, f)
    PROVE  \A n \in 0 .. Len(L[h]) : f[n] = Link(L, h, n + 1)
<1> DEFINE len == Len(L[h])
           T == {n \in 0 .. len : f[n] # Link(L, h, n + 1)}
<1> SUFFICES ASSUME T # {} PROVE FALSE
    OBVIOUS
<1>1. len \in Nat /\ Link(L, h, 0) = h /\ Rings(p, L) /\ L \in ListsOf
      BY AtPlaces DEF Good
<1>2. T \in SUBSET Nat
      BY <1>1
<1>3. PICK n \in T : \A m \in T : n <= m
  <2> HIDE DEF T
  <2> QED BY <1>2, LeastNat
<1>4. n \in 0 .. len /\ f[n] # Link(L, h, n + 1) /\ n \in 0 .. most
      BY <1>1, <1>3
<1>5. f[n] = IF n = 0 THEN p.next[h] ELSE p.next[f[n - 1]]
      BY <1>4 DEF Visits
<1>6. p.next[Link(L, h, n)] = Link(L, h, n + 1)
      BY <1>1, <1>4 DEF Rings
<1>7. CASE n = 0
      BY <1>1, <1>4, <1>5, <1>6, <1>7
<1>8. CASE n # 0
  <2>1. n - 1 \in 0 .. len /\ ~(n <= n - 1) /\ (n - 1) + 1 = n
        BY <1>1, <1>4, <1>8
  <2>2. n - 1 \notin T
    <3> HIDE DEF T
    <3> QED BY <2>1, <1>3
  <2>3. f[n - 1] = Link(L, h, n)
        BY <2>1, <2>2
  <2> QED BY <2>3, <1>4, <1>5, <1>6, <1>8
<1> QED BY <1>7, <1>8

\* list_for_each_entry visits exactly the entries of the list, in their order.
LEMMA WalkIsTheList ==
    ASSUME NEW p, NEW L, Good(p, L), NEW h \in Heads
    PROVE  Walk(p, h) = L[h]
<1> DEFINE most == Cardinality(Elem)
           len == Len(L[h])
           F(f) == f = [n \in 0 .. most |-> IF n = 0 THEN p.next[h] ELSE p.next[f[n - 1]]]
           at == CHOOSE f : F(f)
           ends == {n \in 0 .. most : at[n] = h}
           all == [i \in 1 .. (most + 1) |-> at[i - 1]]
           walk == [i \in 1 .. Min(ends) |-> at[i - 1]]
<1>1. Walk(p, h) = IF ends = {} THEN all ELSE walk
      BY DEF Walk
<1>2. L \in ListsOf /\ Apart(L)
      BY DEF Good
<1>3. most \in Nat /\ len \in Nat /\ len <= most
      BY <1>2, ListFits, AtPlaces
<1>4. F(at)
  <2>1. \E f : F(f)
    <3>1. PICK f : Visits(p, h, most, f)
          BY <1>3, WalkIsDefined
    <3> QED BY <3>1 DEF Visits
  <2> HIDE DEF F
  <2> QED BY <2>1
<1>5. Visits(p, h, most, at)
      BY <1>4, Zenon DEF Visits
<1> HIDE DEF at, most
<1>6. \A n \in 0 .. len : at[n] = Link(L, h, n + 1)
      BY <1>3, <1>5, WalkGoesRound
<1>7. /\ Link(L, h, len + 1) = h /\ DOMAIN L[h] = 1 .. len
      /\ \A i \in 1 .. len : Link(L, h, i) = L[h][i] /\ L[h][i] \in Nodes
      BY <1>2, AtPlaces
<1>8. \A n \in 0 .. len : n # len => at[n] # h
  <2> SUFFICES ASSUME NEW n \in 0 .. len, n # len PROVE at[n] # h
      OBVIOUS
  <2>1. n + 1 \in 1 .. len
        BY <1>3
  <2>2. at[n] \in Nodes
        BY <2>1, <1>6, <1>7
  <2> QED BY <2>2, ElemAssumption
<1>9. len \in ends
      BY <1>3, <1>6, <1>7
<1>10. \A n \in ends : len <= n
  <2> SUFFICES ASSUME NEW n \in ends, n < len PROVE FALSE
      BY <1>3
  <2>1. n \in 0 .. len /\ n # len /\ at[n] = h
        BY <1>3
  <2> QED BY <2>1, <1>8
<1>11. Min(ends) = len
  <2>1. \A n \in ends : n \in Nat
        BY <1>3
  <2> HIDE DEF ends
  <2>2. \A n \in ends : (\A m \in ends : n <= m) => n = len
        BY <2>1, <1>3, <1>9, <1>10
  <2> QED BY <2>2, <1>9, <1>10 DEF Min
<1>12. Walk(p, h) = walk
      BY <1>1, <1>9
<1>13. walk = [i \in 1 .. len |-> at[i - 1]]
      BY <1>11
<1>14. \A i \in 1 .. len : at[i - 1] = L[h][i]
  <2> SUFFICES ASSUME NEW i \in 1 .. len PROVE at[i - 1] = L[h][i]
      OBVIOUS
  <2>1. i - 1 \in 0 .. len /\ (i - 1) + 1 = i
        BY <1>3
  <2>2. at[i - 1] = Link(L, h, (i - 1) + 1)
        BY <2>1, <1>6
  <2> QED BY <2>1, <2>2, <1>7
<1>15. L[h] = [i \in 1 .. len |-> L[h][i]]
  <2>1. L[h] \in Seq(Nodes)
        BY <1>2 DEF ListsOf
  <2> QED BY <2>1, <1>7
<1> HIDE DEF walk, len
<1>16. walk = [i \in 1 .. len |-> L[h][i]]
      BY <1>13, <1>14
<1> QED BY <1>12, <1>15, <1>16

\* Whatever calls came before, list_empty tells the empty lists and list_for_each_entry
\* visits every entry once, in the order the calls meant, and comes to an end.
THEOREM ReadersAlwaysRight == ListSpec => []ReadersSeeTheLists
<1>1. Good(ptr, lists) => ReadersSeeTheLists
  <2> SUFFICES ASSUME Good(ptr, lists), NEW h \in Heads
               PROVE  (ListEmpty(ptr, h) <=> lists[h] = <<>>) /\ Walk(ptr, h) = lists[h]
      BY DEF ReadersSeeTheLists
  <2>1. lists \in ListsOf /\ Rings(ptr, lists)
        BY DEF Good
  <2>2. /\ Len(lists[h]) \in Nat /\ Link(lists, h, 0) = h
        /\ Link(lists, h, Len(lists[h]) + 1) = h
        /\ \A i \in 1 .. Len(lists[h]) : Link(lists, h, i) \in Nodes
        BY <2>1, AtPlaces
  <2>3. ptr.next[h] = Link(lists, h, 1)
    <3>1. 0 \in 0 .. Len(lists[h])
          BY <2>2
    <3>2. ptr.next[Link(lists, h, 0)] = Link(lists, h, 0 + 1)
          BY <3>1, <2>1 DEF Rings
    <3> QED BY <3>2, <2>2
  <2>4. ptr.next[h] = h <=> Len(lists[h]) = 0
    <3>1. CASE Len(lists[h]) = 0
          BY <3>1, <2>2, <2>3
    <3>2. CASE Len(lists[h]) # 0
      <4>1. 1 \in 1 .. Len(lists[h])
            BY <3>2, <2>2
      <4>2. ptr.next[h] \in Nodes
            BY <4>1, <2>2, <2>3
      <4> QED BY <4>2, <3>2, ElemAssumption
    <3> QED BY <3>1, <3>2
  <2>5. lists[h] = <<>> <=> Len(lists[h]) = 0
    <3>1. lists[h] \in Seq(Nodes)
          BY <2>1 DEF ListsOf
    <3> QED BY <3>1, EmptySeq
  <2> QED BY <2>4, <2>5, WalkIsTheList DEF ListEmpty
<1> QED BY InitGood, NextGood, <1>1, PTL DEF ListSpec
=============================================================================
