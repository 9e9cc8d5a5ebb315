---------------------------- MODULE BlkMemProofs ----------------------------
(* Proofs about the block allocator, for every geometry, number of         *)
(* descriptors and set of inputs that the assumptions of BlkMem admit.     *)
EXTENDS BlkMem, SeqLemmas

-----------------------------------------------------------------------------
(* Geometry: blocks of one descriptor, and of two                          *)

\* The typed constants, in the form the arithmetic below uses.
LEMMA Constants ==
    /\ SpaceStart \in Nat /\ SpaceStart > 0
    /\ NDesc \in Nat /\ NDesc > 0
    /\ MapOne \in Nat /\ MapBits \in Nat
    /\ 1 \in Slab /\ Top \in Slab /\ 1 # Top /\ 0 \in Desc
    /\ \A s \in Slab : /\ s \in Nat
                       /\ BlkSize[s] \in Nat /\ BlkSize[s] > 1
                       /\ Bitl[s] \in Nat /\ Bitl[s] > 0 /\ Bitl[s] <= MapBits
                       /\ Bitl[s] * BlkSize[s] = MapOne
    /\ MapOne > 1
<1>1. /\ SpaceStart \in Nat /\ SpaceStart > 0
      /\ NDesc \in Nat /\ NDesc > 0
      /\ 0 \in Desc
      BY SpaceAssumption DEF Desc
<1>2. /\ MapOne \in Nat /\ MapBits \in Nat
      /\ 1 \in Slab /\ Top \in Slab /\ 1 # Top
      BY GeometryAssumption DEF Slab, Top
<1>3. ASSUME NEW s \in Slab
      PROVE  /\ s \in Nat
             /\ BlkSize[s] \in Nat /\ BlkSize[s] > 1
             /\ Bitl[s] \in Nat /\ Bitl[s] > 0 /\ Bitl[s] <= MapBits
             /\ Bitl[s] * BlkSize[s] = MapOne
      BY GeometryAssumption DEF Slab
<1>4. MapOne > 1
  <2>1. Bitl[Top] = 1
        BY GeometryAssumption
  <2>2. 1 * BlkSize[Top] = MapOne /\ BlkSize[Top] \in Nat /\ BlkSize[Top] > 1
        BY <1>2, <1>3, <2>1
  <2> QED BY <2>2
<1> QED BY <1>1, <1>2, <1>3, <1>4

\* Descriptors follow one another without overlap.
LEMMA DescsApart ==
    ASSUME NEW d \in Desc, NEW e \in Desc, d < e
    PROVE  DescStart(d) + MapOne <= DescStart(e)
<1>1. d \in Nat /\ e \in Nat /\ d + 1 <= e /\ MapOne \in Nat /\ SpaceStart \in Nat
      BY Constants DEF Desc
<1>2. \A x, y, m \in Nat : x + 1 <= y => x * m + m <= y * m
      OBVIOUS
<1>3. d * MapOne + MapOne <= e * MapOne
      BY <1>1, <1>2
<1>4. d * MapOne \in Nat /\ e * MapOne \in Nat
      BY <1>1
<1> QED BY <1>1, <1>3, <1>4 DEF DescStart

\* A block lies within its descriptor.
LEMMA BlockInDesc ==
    ASSUME NEW d \in Desc, NEW s \in Slab, NEW b \in BlockBits(s)
    PROVE  /\ DescStart(d) \in Nat
           /\ BlockAt(d, s, b).adr \in Nat /\ BlockAt(d, s, b).size \in Nat
           /\ BlockAt(d, s, b).size = BlkSize[s]
           /\ BlockAt(d, s, b).adr = DescStart(d) + BlkSize[s] * b
           /\ DescStart(d) <= BlockAt(d, s, b).adr
           /\ BlockAt(d, s, b).adr + BlkSize[s] <= DescStart(d) + MapOne
           /\ BlockAt(d, s, b).adr < DescEnd(d)
<1>1. /\ b \in Nat /\ b + 1 <= Bitl[s] /\ BlkSize[s] \in Nat /\ Bitl[s] \in Nat
      /\ Bitl[s] * BlkSize[s] = MapOne /\ BlkSize[s] > 1 /\ MapOne \in Nat
      BY Constants DEF BlockBits
<1>2. d \in Nat /\ DescStart(d) \in Nat
  <2>1. d \in Nat /\ SpaceStart \in Nat /\ MapOne \in Nat
        BY Constants DEF Desc
  <2>2. d * MapOne \in Nat
        BY <2>1
  <2> QED BY <2>1, <2>2 DEF DescStart
<1>3. \A x, y, m \in Nat : x + 1 <= y => m * x + m <= y * m
      OBVIOUS
<1>4. BlkSize[s] * b + BlkSize[s] <= MapOne
      BY <1>1, <1>3
<1>5. BlkSize[s] * b \in Nat
      BY <1>1
<1> DEFINE z == BlkSize[s] * b
<1>6. /\ BlockAt(d, s, b).adr = DescStart(d) + z
      /\ BlockAt(d, s, b).size = BlkSize[s]
      BY DEF BlockAt
<1>7. z \in Nat /\ z + BlkSize[s] <= MapOne
      BY <1>4, <1>5
<1> HIDE DEF z
<1>8. DescEnd(d) = DescStart(d) + MapOne - 1
      BY DEF DescEnd
<1>9. /\ BlockAt(d, s, b).adr \in Nat /\ BlockAt(d, s, b).size \in Nat
      /\ DescStart(d) <= BlockAt(d, s, b).adr
      /\ BlockAt(d, s, b).adr + BlkSize[s] <= DescStart(d) + MapOne
      /\ BlockAt(d, s, b).adr < DescEnd(d)
      BY <1>1, <1>2, <1>6, <1>7, <1>8
<1> QED BY <1>2, <1>6, <1>9 DEF z

\* Two blocks of one descriptor's division, or of two descriptors, are disjoint.
LEMMA BlocksDisjoint ==
    ASSUME NEW d \in Desc, NEW s \in Slab, NEW b \in BlockBits(s),
           NEW e \in Desc, NEW t \in Slab, NEW c \in BlockBits(t),
           d # e \/ (s = t /\ b # c)
    PROVE  Disjoint(BlockAt(d, s, b), BlockAt(e, t, c))
<1> DEFINE g == BlockAt(d, s, b)
           h == BlockAt(e, t, c)
<1>1. /\ DescStart(d) \in Nat /\ g.adr \in Nat /\ g.size = BlkSize[s]
      /\ DescStart(d) <= g.adr /\ g.adr + BlkSize[s] <= DescStart(d) + MapOne
      /\ g.adr = DescStart(d) + BlkSize[s] * b
      BY BlockInDesc
<1>2. /\ DescStart(e) \in Nat /\ h.adr \in Nat /\ h.size = BlkSize[t]
      /\ DescStart(e) <= h.adr /\ h.adr + BlkSize[t] <= DescStart(e) + MapOne
      /\ h.adr = DescStart(e) + BlkSize[t] * c
      BY BlockInDesc
<1>3. d \in Nat /\ e \in Nat /\ MapOne \in Nat /\ BlkSize[s] \in Nat /\ BlkSize[t] \in Nat
      BY Constants DEF Desc
<1> HIDE DEF g, h
<1>4. CASE d < e
  <2>1. DescStart(d) + MapOne <= DescStart(e)
        BY <1>4, DescsApart
  <2> QED BY <1>1, <1>2, <1>3, <2>1 DEF Disjoint, g, h
<1>5. CASE e < d
  <2>1. DescStart(e) + MapOne <= DescStart(d)
        BY <1>5, DescsApart
  <2> QED BY <1>1, <1>2, <1>3, <2>1 DEF Disjoint, g, h
<1>6. CASE d = e
  <2>1. s = t /\ b # c /\ b \in Nat /\ c \in Nat
        BY <1>6, Constants DEF BlockBits
  <2>2. \A x, y, m \in Nat : x < y => m * x + m <= m * y
        OBVIOUS
  <2>3. BlkSize[s] * b \in Nat /\ BlkSize[s] * c \in Nat
        BY <2>1, <1>3
  <2>4. CASE b < c
    <3>1. BlkSize[s] * b + BlkSize[s] <= BlkSize[s] * c
          BY <2>1, <2>2, <2>4, <1>3
    <3>2. g.adr + g.size <= h.adr
          BY <3>1, <2>1, <2>3, <1>1, <1>2, <1>3, <1>6
    <3> QED BY <3>2 DEF Disjoint, g, h
  <2>5. CASE c < b
    <3>1. BlkSize[s] * c + BlkSize[s] <= BlkSize[s] * b
          BY <2>1, <2>2, <2>5, <1>3
    <3>2. h.adr + h.size <= g.adr
          BY <3>1, <2>1, <2>3, <1>1, <1>2, <1>3, <1>6
    <3> QED BY <3>2 DEF Disjoint, g, h
  <2> QED BY <2>1, <2>4, <2>5
<1> QED BY <1>3, <1>4, <1>5, <1>6

\* The bit __free_blk_in_slab computes is that of the block the address lies in.
LEMMA BitOfAddress ==
    ASSUME NEW x \in Nat, NEW a \in Nat, NEW m \in Nat, m > 0, x <= a
    PROVE  LET b == (a - x) \div m
           IN  b \in Nat /\ x + m * b <= a /\ a < x + m * b + m
<1>1. a - x \in Nat
      OBVIOUS
<1>2. \A n \in Nat : n \div m \in Nat /\ m * (n \div m) <= n /\ n < m * (n \div m) + m
      OBVIOUS
<1> DEFINE b == (a - x) \div m
<1>3. b \in Nat /\ m * b <= a - x /\ a - x < m * b + m
      BY <1>1, <1>2
<1>4. m * b \in Nat
      BY <1>3
<1> QED BY <1>3, <1>4

\* An address within a block gives the block's bit.
LEMMA BitOfBlock ==
    ASSUME NEW x \in Nat, NEW a \in Nat, NEW m \in Nat, m > 0, NEW b \in Nat,
           x + m * b <= a, a < x + m * b + m
    PROVE  (a - x) \div m = b
<1> DEFINE c == (a - x) \div m
<1>1. m * b \in Nat
      OBVIOUS
<1>2. x <= a
      BY <1>1
<1>3. c \in Nat /\ x + m * c <= a /\ a < x + m * c + m
      BY <1>2, BitOfAddress
<1> HIDE DEF c
<1>4. m * c \in Nat
      BY <1>3
<1>5. m * b < m * c + m /\ m * c < m * b + m
      BY <1>1, <1>3, <1>4
<1>6. \A y, z \in Nat : y < z => m * y + m <= m * z
      OBVIOUS
<1>7. ~(b < c) /\ ~(c < b)
      BY <1>1, <1>3, <1>4, <1>5, <1>6
<1> QED BY <1>3, <1>7 DEF c

-----------------------------------------------------------------------------
(* The queues                                                              *)

\* Every descriptor is at one place of one queue, for any value w of q.
Placed(w) ==
    /\ \A k \in Lists : Simple(w[k])
    /\ \A k, l \in Lists : \A e : Occurs(e, w[k]) /\ Occurs(e, w[l]) => k = l

\* Two ways to say that a descriptor is on one queue only.
LEMMA OneQueue == EachOnOneQueue <=> Placed(q)
  BY DEF EachOnOneQueue, Placed, Simple, Occurs

\* The same after a step.
LEMMA OneQueueNext == EachOnOneQueue' <=> Placed(q')
  BY DEF EachOnOneQueue, Placed, Simple, Occurs

\* In w, descriptor d is on queue l and on no other, every other descriptor is where it
\* is in q.
Moved(w, d, l) ==
    /\ w \in [Lists -> Seq(Desc)] /\ Placed(w)
    /\ \A m \in Lists : \A e :
         Occurs(e, w[m]) <=> IF e = d THEN m = l ELSE Occurs(e, q[m])

\* That is what list_move_tail does to the entry it is given.
LEMMA MoveTailPlaces ==
    ASSUME q \in [Lists -> Seq(Desc)], Placed(q),
           NEW k \in Lists, NEW i \in DOMAIN q[k], NEW l \in Lists
    PROVE  Moved(MoveTail(k, i, l), q[k][i], l)
<1> DEFINE d == q[k][i]
           u == [q EXCEPT ![k] = RemoveAt(q[k], i)]
           w == [u EXCEPT ![l] = Append(u[l], d)]
<1>1. MoveTail(k, i, l) = w
      BY DEF MoveTail
<1>2. q[k] \in Seq(Desc) /\ Simple(q[k])
      BY DEF Placed
<1>3. d \in Desc /\ Occurs(d, q[k])
      BY <1>2, ElementOfSeq, LenProperties DEF Occurs
<1>4. /\ RemoveAt(q[k], i) \in Seq(Desc)
      /\ Simple(RemoveAt(q[k], i))
      /\ \A e : Occurs(e, RemoveAt(q[k], i)) <=> Occurs(e, q[k]) /\ e # d
      BY <1>2, RemoveAtEntries, RemoveAtElements
<1>5. /\ u \in [Lists -> Seq(Desc)]
      /\ u[k] = RemoveAt(q[k], i)
      /\ \A m \in Lists : m # k => u[m] = q[m]
      BY <1>4
<1> HIDE DEF d, u
<1>6. \A m \in Lists : \A e : Occurs(e, u[m]) <=> Occurs(e, q[m]) /\ e # d
  <2> TAKE m \in Lists
  <2> TAKE e
  <2>1. CASE m = k
        BY <2>1, <1>4, <1>5
  <2>2. CASE m # k
    <3>1. u[m] = q[m]
          BY <2>2, <1>5
    <3>2. ~Occurs(d, q[m])
          BY <2>2, <1>3 DEF Placed
    <3> QED BY <3>1, <3>2
  <2> QED BY <2>1, <2>2
<1>7. \A m \in Lists : Simple(u[m])
      BY <1>4, <1>5 DEF Placed
<1>8. /\ Append(u[l], d) \in Seq(Desc)
      /\ \A e : Occurs(e, Append(u[l], d)) <=> Occurs(e, u[l]) \/ e = d
      /\ Simple(Append(u[l], d))
  <2>1. u[l] \in Seq(Desc) /\ Simple(u[l]) /\ ~Occurs(d, u[l])
        BY <1>5, <1>6, <1>7
  <2> QED BY <2>1, <1>3, AppendElements
<1>9. /\ w \in [Lists -> Seq(Desc)]
      /\ w[l] = Append(u[l], d)
      /\ \A m \in Lists : m # l => w[m] = u[m]
      BY <1>5, <1>8
<1> HIDE DEF w
<1>10. \A m \in Lists : \A e :
         Occurs(e, w[m]) <=> IF e = d THEN m = l ELSE Occurs(e, q[m])
  <2> TAKE m \in Lists
  <2> TAKE e
  <2>1. CASE m = l
        BY <2>1, <1>6, <1>8, <1>9
  <2>2. CASE m # l
        BY <2>2, <1>6, <1>9
  <2> QED BY <2>1, <2>2
<1>11. \A m \in Lists : Simple(w[m])
       BY <1>7, <1>8, <1>9
<1>12. Placed(w)
       BY <1>10, <1>11 DEF Placed
<1> QED BY <1>1, <1>9, <1>10, <1>12 DEF d, Moved

\* Moving one descriptor keeps the queues sound when its new bitmap and flag suit the
\* queue it is moved to.
LEMMA MoveKeepsQueues ==
    ASSUME TypeOK, QueuesSound, cpu' = cpu,
           NEW k \in Lists, NEW i \in DOMAIN q[k], NEW l \in Lists,
           NEW d, d = q[k][i],
           q' = MoveTail(k, i, l),
           \A e \in Desc : e # d => map'[e] = map[e] /\ acsz'[e] = acsz[e],
           Fits(l, d)'
    PROVE  QueuesSound' /\ q' \in [Lists -> Seq(Desc)]
<1>1. q \in [Lists -> Seq(Desc)] /\ Placed(q)
      BY OneQueue DEF TypeOK, QueuesSound
<1>2. /\ q' \in [Lists -> Seq(Desc)] /\ Placed(q')
      /\ \A m \in Lists : \A e :
           Occurs(e, q'[m]) <=> IF e = d THEN m = l ELSE Occurs(e, q[m])
  <2>1. Moved(MoveTail(k, i, l), q[k][i], l)
        BY <1>1, MoveTailPlaces
  <2>2. Moved(q', d, l)
        BY <2>1
  <2> QED BY <2>2 DEF Moved
<1>3. EachOnOneQueue'
      BY <1>2, OneQueueNext
<1>4. NoneLost'
  <2> SUFFICES ASSUME cpu = "run", NEW e \in Desc PROVE \E m \in Lists : Occurs(e, q'[m])
      BY DEF NoneLost, Occurs
  <2>1. \E m \in Lists : Occurs(e, q[m])
        BY DEF QueuesSound, NoneLost, Occurs
  <2> QED BY <2>1, <1>2
<1>5. ASSUME NEW m \in Lists, NEW e \in Desc, Occurs(e, q'[m]) PROVE Fits(m, e)'
  <2>1. CASE e = d
    <3>1. m = l
          BY <2>1, <1>2, <1>5
    <3> QED BY <2>1, <3>1
  <2>2. CASE e # d
    <3>1. Occurs(e, q[m])
          BY <2>2, <1>2, <1>5
    <3>2. Fits(m, e)
          BY <3>1 DEF QueuesSound, QueuesFit, Occurs
    <3>3. map'[e] = map[e] /\ acsz'[e] = acsz[e]
          BY <2>2
    <3> QED BY <3>2, <3>3 DEF Fits
  <2> QED BY <2>1, <2>2
<1>6. QueuesFit'
  <2>1. \A m \in Lists : \A j \in DOMAIN q'[m] : q'[m][j] \in Desc
        BY <1>2, ElementOfSeq, LenProperties
  <2> QED BY <1>5, <2>1 DEF QueuesFit, Occurs
<1> QED BY <1>2, <1>3, <1>4, <1>6 DEF QueuesSound

-----------------------------------------------------------------------------
(* What the invariant says of a booted allocator                           *)

\* The scan of alloc_blk_on_desc ends at a clear bit when there is one.
LEMMA FirstClearIsClear ==
    ASSUME NEW d, NEW s \in Slab, ClearBits(d, s) # {}
    PROVE  /\ FirstClear(d, s) \in BlockBits(s)
           /\ FirstClear(d, s) \notin map[d]
<1>1. ClearBits(d, s) \in SUBSET Nat
      BY Constants DEF ClearBits, BlockBits
<1>2. \E b \in ClearBits(d, s) : \A c \in ClearBits(d, s) : b <= c
      BY <1>1, LeastNat
<1>3. FirstClear(d, s) \in ClearBits(d, s)
      BY <1>2 DEF FirstClear
<1> QED BY <1>3 DEF ClearBits

\* A queue is a kind and a slab.
LEMMA ListParts ==
    ASSUME NEW k \in Lists
    PROVE  /\ k[1] \in Kinds /\ k[2] \in Slab /\ k = <<k[1], k[2]>>
           /\ k[1] = "full" \/ k[1] = "partial" \/ k[1] = "empty"
  BY DEF Lists, Kinds

\* The bitmap of a descriptor lies within its division; when it is not empty the
\* descriptor is on the full or on the partial list of its slab.
LEMMA DescOnItsSlab ==
    ASSUME TypeOK, QueuesSound, cpu = "run", NEW d \in Desc
    PROVE  /\ acsz[d] \in Slab
           /\ map[d] \subseteq BlockBits(acsz[d])
           /\ map[d] # {} => \/ Occurs(d, q[<<"full", acsz[d]>>])
                             \/ Occurs(d, q[<<"partial", acsz[d]>>])
           /\ map[d] = {} => Occurs(d, q[<<"empty", Top>>])
<1>1. PICK k \in Lists : Occurs(d, q[k])
      BY DEF QueuesSound, NoneLost, Occurs
<1>2. Fits(k, d)
      BY <1>1 DEF QueuesSound, QueuesFit, Occurs
<1>3. k[2] = acsz[d] /\ acsz[d] \in Slab /\ k = <<k[1], acsz[d]>>
      BY <1>2, ListParts DEF Fits
<1>4. map[d] # {} => k[1] = "full" \/ k[1] = "partial"
      BY <1>2, ListParts DEF Fits
<1>5. map[d] = {} => k[1] = "empty" /\ k[2] = Top
      BY <1>2, ListParts DEF Fits
<1>6. map[d] \subseteq BlockBits(acsz[d])
      BY <1>2, <1>3 DEF Fits
<1> QED BY <1>1, <1>3, <1>4, <1>5, <1>6

\* The ledger, as a statement about one block.
LEMMA LedgerEntry ==
    ASSUME LedgerMatchesMaps, cpu = "run", NEW h
    PROVE  h \in held <=> h # Reserved /\ \E d \in Desc : \E b \in map[d] : h = Used(d, b)
<1>1. h \in held <=> h # Reserved /\ \E d \in Desc : h \in Taken(d)
      BY DEF LedgerMatchesMaps
<1>2. \A d \in Desc : h \in Taken(d) <=> \E b \in map[d] : h = Used(d, b)
      BY DEF Taken
<1> QED BY <1>1, <1>2

\* Blocks taken under different bits are disjoint.
LEMMA UsedDisjoint ==
    ASSUME TypeOK, QueuesSound, cpu = "run",
           NEW d \in Desc, NEW b \in map[d], NEW e \in Desc, NEW c \in map[e],
           d # e \/ b # c
    PROVE  Disjoint(Used(d, b), Used(e, c))
<1>1. acsz[d] \in Slab /\ b \in BlockBits(acsz[d])
      BY DescOnItsSlab
<1>2. acsz[e] \in Slab /\ c \in BlockBits(acsz[e])
      BY DescOnItsSlab
<1>3. d # e \/ (acsz[d] = acsz[e] /\ b # c)
      OBVIOUS
<1>4. Disjoint(BlockAt(d, acsz[d], b), BlockAt(e, acsz[e], c))
      BY <1>1, <1>2, <1>3, BlocksDisjoint
<1> QED BY <1>4 DEF Used

\* No two blocks that are out overlap, by the ledger and the division of descriptors.
LEMMA NoOverlapFromInv == IInv => NoOverlap
<1> SUFFICES ASSUME IInv, NEW g \in held, NEW h \in held, g # h PROVE Disjoint(g, h)
    BY DEF NoOverlap
<1>1. cpu = "run" /\ TypeOK /\ QueuesSound /\ LedgerMatchesMaps
      BY DEF IInv, BootUntouched
<1>2a. PICK d \in Desc : \E b \in map[d] : g = Used(d, b)
      BY <1>1, LedgerEntry
<1>2. PICK b \in map[d] : g = Used(d, b)
      BY <1>2a
<1>3a. PICK e \in Desc : \E c \in map[e] : h = Used(e, c)
      BY <1>1, LedgerEntry
<1>3. PICK c \in map[e] : h = Used(e, c)
      BY <1>3a
<1>4. d # e \/ b # c
      BY <1>2, <1>3
<1> QED BY <1>1, <1>2, <1>3, <1>4, UsedDisjoint

\* No block that is out touches the kernel's: its bit is taken, so they differ.
LEMMA ReservedFromInv == IInv => ReservedNeverHandedOut
<1> SUFFICES ASSUME IInv, NEW h \in held PROVE Disjoint(h, Reserved)
    BY DEF ReservedNeverHandedOut
<1>1. cpu = "run" /\ TypeOK /\ QueuesSound /\ LedgerMatchesMaps
      BY DEF IInv, BootUntouched
<1>2. 0 \in Desc /\ 0 \in map[0] /\ Reserved = Used(0, 0)
      BY <1>1, Constants DEF IInv, ReserveKept, Reserved, Used
<1>3. h # Reserved
      BY <1>1, LedgerEntry
<1>4a. PICK d \in Desc : \E b \in map[d] : h = Used(d, b)
      BY <1>1, LedgerEntry
<1>4. PICK b \in map[d] : h = Used(d, b)
      BY <1>4a
<1>5. d # 0 \/ b # 0
      BY <1>2, <1>3, <1>4
<1> QED BY <1>1, <1>2, <1>4, <1>5, UsedDisjoint

-----------------------------------------------------------------------------
(* The steps                                                               *)

\* The descriptor alloc_mem_blk takes a block from: it heads a queue, and it is either
\* wholly free or already divided for the size asked for.
LEMMA AllocSource ==
    ASSUME TypeOK, QueuesSound, NEW s \in Slab, HasRoom(s)
    PROVE  /\ AllocList(s) \in Lists
           /\ 1 \in DOMAIN q[AllocList(s)]
           /\ AllocDesc(s) = q[AllocList(s)][1]
           /\ AllocDesc(s) \in Desc
           /\ map[AllocDesc(s)] \subseteq BlockBits(s)
           /\ map[AllocDesc(s)] = {} \/ acsz[AllocDesc(s)] = s
<1> DEFINE k == AllocList(s)
           t == AllocSlab(s)
           d == AllocDesc(s)
<1>1. q \in [Lists -> Seq(Desc)] /\ Top \in Slab
      BY Constants DEF TypeOK
<1>2. t \in Slab /\ (t = s \/ t = Top)
      BY <1>1 DEF AllocSlab
<1>3. k \in Lists /\ (k = <<"partial", t>> \/ k = <<"empty", t>>)
      BY <1>2 DEF AllocList, Lists, Kinds
<1>4. q[k] # <<>>
      BY <1>1 DEF AllocList, AllocSlab, HasRoom
<1>5. q[k] \in Seq(Desc)
      BY <1>1, <1>3
<1>6. 1 \in DOMAIN q[k] /\ d = q[k][1] /\ d \in Desc
  <2>1. Len(q[k]) \in Nat /\ Len(q[k]) # 0 /\ DOMAIN q[k] = 1 .. Len(q[k])
        BY <1>4, <1>5, LenProperties, EmptySeq
  <2>2. 1 \in 1 .. Len(q[k])
        BY <2>1
  <2>3. Head(q[k]) = q[k][1]
        BY <1>4, <1>5
  <2> QED BY <2>1, <2>2, <2>3, <1>5, ElementOfSeq DEF AllocDesc
<1>7. Fits(k, d)
      BY <1>3, <1>6 DEF QueuesSound, QueuesFit
<1> HIDE DEF k, d, t
<1>8. CASE k = <<"empty", t>>
      BY <1>3, <1>6, <1>7, <1>8 DEF Fits, k, d
<1>9. CASE k = <<"partial", t>>
  <2>1. acsz[d] = t /\ map[d] \subseteq BlockBits(t) /\ map[d] # {} /\ map[d] # BlockBits(t)
        BY <1>7, <1>9 DEF Fits
  <2>2. BlockBits(Top) = {0}
        BY GeometryAssumption DEF BlockBits
  <2>3. t = s
    <3> SUFFICES ASSUME t = Top PROVE FALSE
        BY <1>2
    <3> QED BY <2>1, <2>2
  <2> QED BY <1>3, <1>6, <2>1, <2>3 DEF k, d
<1> QED BY <1>3, <1>8, <1>9

\* A successful allocation: the invariant holds after it, and the block it returns was
\* not out and is one of the blocks a caller may have.
LEMMA AllocStep ==
    ASSUME IInv, cpu = "run", UNCHANGED <<kmem, cpu>>, NEW s \in Slab, AllocBlk(s)
    PROVE  /\ IInv'
           /\ AllocBlock(s) \notin held
           /\ held' = held \cup {AllocBlock(s)}
           /\ AllocBlock(s) \in
                {BlockAt(d, t, b) : d \in Desc, t \in Slab, b \in 0 .. (MapBits - 1)}
           /\ AllocBlock(s).adr + AllocBlock(s).size <= SpaceStart + NDesc * MapOne
<1>1. TypeOK /\ QueuesSound /\ ReserveKept /\ LedgerMatchesMaps
      BY DEF IInv
<1>2. HasRoom(s) /\ ClearBits(AllocDesc(s), s) # {}
      BY DEF AllocBlk, CanAlloc
<1>3. PICK d \in Desc : d = AllocDesc(s)
      BY <1>1, <1>2, AllocSource
<1>4. PICK b \in BlockBits(s) : b = FirstClear(d, s) /\ b \notin map[d]
      BY <1>2, <1>3, FirstClearIsClear
<1>5. PICK k \in Lists : k = AllocList(s) /\ 1 \in DOMAIN q[k] /\ d = q[k][1]
      BY <1>1, <1>2, <1>3, AllocSource
<1>6. map[d] \subseteq BlockBits(s) /\ (map[d] = {} \/ acsz[d] = s)
      BY <1>1, <1>2, <1>3, AllocSource
<1>7. PICK m : m = map[d] \cup {b}
       OBVIOUS
<1>8. PICK l \in Lists : l = QueueAfterAlloc(m, s)
       BY DEF QueueAfterAlloc, Lists, Kinds
<1>9. AllocBlock(s) = BlockAt(d, s, b)
      BY <1>3, <1>4 DEF AllocBlock
<1>10. /\ map' = [map EXCEPT ![d] = m]
      /\ acsz' = [acsz EXCEPT ![d] = s]
      /\ q' = MoveTail(k, 1, l)
      /\ held' = held \cup {BlockAt(d, s, b)}
      BY <1>3, <1>4, <1>5, <1>9, <1>8, <1>7 DEF AllocBlk
<1>11. /\ map \in [Desc -> SUBSET (0 .. (MapBits - 1))]
      /\ acsz \in [Desc -> Slab]
      BY <1>1 DEF TypeOK
<1>12. BlockBits(s) \subseteq 0 .. (MapBits - 1) /\ m \subseteq BlockBits(s) /\ m # {}
       BY <1>4, <1>6, <1>7, Constants DEF BlockBits
<1>13. map'[d] = m /\ acsz'[d] = s
       BY <1>10, <1>11
<1>14. \A e \in Desc : e # d => map'[e] = map[e] /\ acsz'[e] = acsz[e]
       BY <1>10, <1>11
<1>15. Fits(l, d)'
  <2>1. CASE BlockBits(s) \subseteq m
        BY <2>1, <1>12, <1>8, <1>13 DEF Fits, QueueAfterAlloc
  <2>2. CASE ~(BlockBits(s) \subseteq m)
        BY <2>2, <1>12, <1>8, <1>13 DEF Fits, QueueAfterAlloc
  <2> QED BY <2>1, <2>2
<1>16. QueuesSound' /\ q' \in [Lists -> Seq(Desc)]
       BY <1>1, <1>5, <1>10, <1>8, <1>14, <1>15, MoveKeepsQueues
<1>17. BlockAt(d, s, b) \in [adr : Nat, size : Nat]
  <2>1. BlockAt(d, s, b).adr \in Nat /\ BlockAt(d, s, b).size \in Nat
        BY BlockInDesc
  <2> QED BY <2>1 DEF BlockAt
<1>18. TypeOK'
  <2>1. map' \in [Desc -> SUBSET (0 .. (MapBits - 1))] /\ acsz' \in [Desc -> Slab]
        BY <1>10, <1>11, <1>12
  <2> QED BY <1>1, <1>10, <1>16, <1>17, <2>1 DEF TypeOK
<1>19. ReserveKept'
  <2>1. 0 \in map[0] /\ acsz[0] = 1 /\ 0 \in Desc
        BY <1>1, Constants DEF ReserveKept
  <2>2. CASE d = 0
        BY <2>1, <2>2, <1>6, <1>13, <1>7 DEF ReserveKept
  <2>3. CASE d # 0
        BY <2>1, <2>3, <1>14 DEF ReserveKept
  <2> QED BY <2>2, <2>3
<1>20. \A c \in map[d] : Used(d, c)' = Used(d, c)
       BY <1>6, <1>13 DEF Used
<1>21. \A e \in Desc : e # d => Taken(e)' = Taken(e)
       BY <1>14 DEF Taken, Used
<1>22. Taken(d)' = Taken(d) \cup {BlockAt(d, s, b)}
       BY <1>13, <1>20, <1>7 DEF Taken, Used
<1>23. BlockAt(d, s, b) # Reserved
  <2> SUFFICES ASSUME BlockAt(d, s, b) = BlockAt(0, 1, 0) PROVE FALSE
      BY DEF Reserved
  <2>1. 1 \in Slab /\ 0 \in Desc /\ 0 \in BlockBits(1)
        BY Constants DEF BlockBits
  <2>2. BlkSize[s] = BlkSize[1]
        BY <2>1, BlockInDesc
  <2>3. s = 1
        BY <2>1, <2>2, GeometryAssumption
  <2>4. ~Disjoint(BlockAt(0, 1, 0), BlockAt(0, 1, 0))
        BY <2>1, BlockInDesc, Constants DEF Disjoint
  <2>5. d = 0 /\ b = 0
        BY <2>1, <2>3, <2>4, BlocksDisjoint
  <2> QED BY <2>5, <1>1, <1>4 DEF ReserveKept
<1>24. LedgerMatchesMaps'
  <2>1. held = (UNION {Taken(e) : e \in Desc}) \ {Reserved}
        BY <1>1 DEF LedgerMatchesMaps
  <2>2. \A h : h \in UNION {Taken(e) : e \in Desc} <=> \E e \in Desc : h \in Taken(e)
        OBVIOUS
  <2>3. \A h : h \in (UNION {Taken(e) : e \in Desc})' <=> \E e \in Desc : h \in Taken(e)'
        OBVIOUS
  <2>4. (UNION {Taken(e) : e \in Desc})' = (UNION {Taken(e) : e \in Desc}) \cup {BlockAt(d, s, b)}
        BY <2>2, <2>3, <1>21, <1>22
  <2> QED BY <2>1, <2>4, <1>10, <1>23 DEF LedgerMatchesMaps, Reserved
<1>25. BootUntouched'
       BY DEF BootUntouched
<1>26. BlockAt(d, s, b) \notin held
  <2> SUFFICES ASSUME NEW e \in Desc, NEW c \in map[e], BlockAt(d, s, b) = Used(e, c)
               PROVE  FALSE
      BY <1>1, LedgerEntry
  <2>1. acsz[e] \in Slab /\ c \in BlockBits(acsz[e])
        BY <1>1, DescOnItsSlab
  <2>2. ~Disjoint(BlockAt(d, s, b), BlockAt(d, s, b))
        BY BlockInDesc, Constants DEF Disjoint
  <2>3. d = e /\ (s = acsz[e] => b = c)
        BY <2>1, <2>2, BlocksDisjoint DEF Used
  <2>4. b # c /\ s = acsz[e]
        BY <2>3, <1>4, <1>6
  <2> QED BY <2>3, <2>4
<1>27. BlockAt(d, s, b).adr + BlockAt(d, s, b).size <= SpaceStart + NDesc * MapOne
  <2>1. /\ BlockAt(d, s, b).adr + BlkSize[s] <= DescStart(d) + MapOne
        /\ BlockAt(d, s, b).size = BlkSize[s]
        /\ BlockAt(d, s, b).adr \in Nat
        BY BlockInDesc
  <2>2. d \in Nat /\ d + 1 <= NDesc /\ NDesc \in Nat /\ MapOne \in Nat /\ SpaceStart \in Nat
        BY Constants DEF Desc
  <2>3. \A x, y, z \in Nat : x + 1 <= y => x * z + z <= y * z
        OBVIOUS
  <2>4. d * MapOne + MapOne <= NDesc * MapOne /\ d * MapOne \in Nat /\ NDesc * MapOne \in Nat
        BY <2>2, <2>3
  <2>5. DescStart(d) + MapOne <= SpaceStart + NDesc * MapOne
        BY <2>2, <2>4 DEF DescStart
  <2>6. BlkSize[s] \in Nat /\ DescStart(d) \in Nat
        BY Constants, BlockInDesc
  <2> QED BY <2>1, <2>2, <2>4, <2>5, <2>6
<1> QED BY <1>9, <1>10, <1>12, <1>16, <1>18, <1>19, <1>24, <1>25, <1>26, <1>27 DEF IInv

\* find_desc_for_free ends at an entry when there is one.
LEMMA FreePosFound ==
    ASSUME TypeOK, NEW s \in Slab, NEW a, FoundIn(FreeList(s, a), a) # {}
    PROVE  FreePos(s, a) \in FoundIn(FreeList(s, a), a)
<1> DEFINE k == FreeList(s, a)
           F == FoundIn(k, a)
<1>1. q[k] \in Seq(Desc)
      BY DEF FreeList, Lists, Kinds, TypeOK
<1>2. DOMAIN q[k] = 1 .. Len(q[k]) /\ Len(q[k]) \in Nat
      BY <1>1, LenProperties
<1>3. F \in SUBSET Nat
      BY <1>2 DEF FoundIn
<1>4. \E x \in F : \A y \in F : x <= y
      BY <1>3, LeastNat
<1> QED BY <1>4 DEF FreePos

\* The descriptor free_mem_blk finds for an address is divided for the size given, and
\* its memory holds the address.
LEMMA FreeTarget ==
    ASSUME TypeOK, QueuesSound, NEW s \in Slab, NEW a \in Nat, CanFree(s, a)
    PROVE  /\ FreeList(s, a) \in Lists
           /\ FreeList(s, a)[1] \in {"full", "partial"} /\ FreeList(s, a)[2] = s
           /\ FreePos(s, a) \in DOMAIN q[FreeList(s, a)]
           /\ FreeDesc(s, a) \in Desc
           /\ DescStart(FreeDesc(s, a)) <= a
           /\ Fits(FreeList(s, a), FreeDesc(s, a))
<1> DEFINE k == FreeList(s, a)
           i == FreePos(s, a)
           F == FoundIn(k, a)
<1>1. k \in Lists /\ k[1] \in {"full", "partial"} /\ k[2] = s
      BY DEF FreeList, Lists, Kinds
<1>2. q[k] \in Seq(Desc)
      BY <1>1 DEF TypeOK
<1>3. F # {}
      BY DEF CanFree
<1>4. i \in F
      BY <1>3, FreePosFound
<1>5. i \in DOMAIN q[k] /\ DescStart(q[k][i]) <= a
      BY <1>4 DEF FoundIn
<1>6. q[k][i] \in Desc
      BY <1>2, <1>5, ElementOfSeq, LenProperties
<1>7. Fits(k, q[k][i])
      BY <1>1, <1>5 DEF QueuesSound, QueuesFit
<1> QED BY <1>1, <1>5, <1>6, <1>7 DEF FreeDesc

\* A successful free of an address outside the kernel's block: the invariant holds
\* after it, and exactly one block that was out has come back.
LEMMA FreeStep ==
    ASSUME IInv, cpu = "run", UNCHANGED <<kmem, cpu>>,
           NEW s \in Slab, NEW a \in Nat, ~InBlock(a, Reserved), FreeBlk(s, a)
    PROVE  IInv' /\ \E h \in held : held' = held \ {h}
<1>1. TypeOK /\ QueuesSound /\ ReserveKept /\ LedgerMatchesMaps
      BY DEF IInv
<1>2. CanFree(s, a)
      BY DEF FreeBlk
<1>3. PICK k \in Lists : k = FreeList(s, a) /\ k[1] \in {"full", "partial"} /\ k[2] = s
      BY <1>1, <1>2, FreeTarget
<1>4. PICK i \in DOMAIN q[k] : i = FreePos(s, a)
      BY <1>1, <1>2, <1>3, FreeTarget
<1>5. PICK d \in Desc : d = FreeDesc(s, a) /\ d = q[k][i] /\ DescStart(d) <= a /\ Fits(k, d)
      BY <1>1, <1>2, <1>3, <1>4, FreeTarget DEF FreeDesc
<1>6. acsz[d] = s /\ map[d] \subseteq BlockBits(s)
      BY <1>3, <1>5 DEF Fits
<1>7. PICK b \in map[d] : b = FreeBit(s, a)
      BY <1>2, <1>5 DEF CanFree
<1>8. PICK m : m = map[d] \ {b}
      OBVIOUS
<1>9. /\ map' = [map EXCEPT ![d] = m]
      /\ IF WholeFree(m, s)
         THEN /\ acsz' = [acsz EXCEPT ![d] = Top]
              /\ q' = MoveTail(k, i, <<"empty", Top>>)
         ELSE acsz' = acsz /\ q' = q
      /\ held' = {g \in held : ~InBlock(a, g)}
      BY <1>3, <1>4, <1>5, <1>7, <1>8 DEF FreeBlk, HeldAfterFree
<1>10. /\ map \in [Desc -> SUBSET (0 .. (MapBits - 1))]
       /\ acsz \in [Desc -> Slab]
       BY <1>1 DEF TypeOK
<1>11. b \in BlockBits(s) /\ m \subseteq BlockBits(s) /\ b \notin m
       BY <1>6, <1>7, <1>8
<1> DEFINE h == BlockAt(d, s, b)
<1>12. InBlock(a, h)
  <2>1. DescStart(d) \in Nat /\ BlkSize[s] \in Nat /\ BlkSize[s] > 0
        BY <1>11, BlockInDesc, Constants
  <2>2. b = (a - DescStart(d)) \div BlkSize[s]
        BY <1>5, <1>7 DEF FreeBit
  <2>3. DescStart(d) + BlkSize[s] * b <= a /\ a < DescStart(d) + BlkSize[s] * b + BlkSize[s]
        BY <1>5, <2>1, <2>2, BitOfAddress
  <2> QED BY <2>3 DEF InBlock, BlockAt
<1>13. h = Used(d, b) /\ h # Reserved
       BY <1>6, <1>12 DEF Used
<1>14. h \in held
       BY <1>1, <1>13, LedgerEntry
<1>15. held' = held \ {h}
  <2> SUFFICES ASSUME NEW g \in held, InBlock(a, g), g # h PROVE FALSE
      BY <1>9, <1>12
  <2>1. Disjoint(g, h)
        BY <1>14, NoOverlapFromInv DEF NoOverlap
  <2>2. /\ g.adr \in Nat /\ g.size \in Nat /\ h.adr \in Nat /\ h.size \in Nat
        BY <1>1, <1>14 DEF TypeOK
  <2> QED BY <2>1, <2>2, <1>12 DEF InBlock, Disjoint
<1>16. map'[d] = m /\ \A e \in Desc : e # d => map'[e] = map[e] /\ acsz'[e] = acsz[e]
       BY <1>9, <1>10
<1>17. WholeFree(m, s) => m = {}
       BY <1>11 DEF WholeFree
<1>18. ~WholeFree(m, s) => m # {} /\ acsz'[d] = s
       BY <1>6, <1>9 DEF WholeFree
<1>19. QueuesSound' /\ q' \in [Lists -> Seq(Desc)]
  <2>1. CASE WholeFree(m, s)
    <3>1. <<"empty", Top>> \in Lists
          BY Constants DEF Lists, Kinds
    <3>2. acsz'[d] = Top
          BY <2>1, <1>9, <1>10, Constants
    <3>3. Fits(<<"empty", Top>>, d)'
          BY <2>1, <3>2, <1>16, <1>17 DEF Fits
    <3> QED BY <2>1, <3>1, <3>3, <1>1, <1>5, <1>9, <1>16, MoveKeepsQueues
  <2>2. CASE ~WholeFree(m, s)
    <3>1. q' = q /\ q \in [Lists -> Seq(Desc)]
          BY <2>2, <1>1, <1>9 DEF TypeOK
    <3>2. EachOnOneQueue' /\ NoneLost'
          BY <3>1, <1>1 DEF QueuesSound, EachOnOneQueue, NoneLost
    <3>3. ASSUME NEW l \in Lists, NEW j \in DOMAIN q[l], NEW e, e = q[l][j] PROVE Fits(l, e)'
      <4>1. Fits(l, e)
            BY <3>3, <1>1 DEF QueuesSound, QueuesFit
      <4>2. e \in Desc
            BY <3>1, <3>3, ElementOfSeq, LenProperties
      <4>3. CASE e # d
            BY <4>1, <4>2, <4>3, <1>16 DEF Fits
      <4>4. CASE e = d
        <5>1. l = k
              BY <3>3, <4>4, <1>1, <1>5 DEF QueuesSound, EachOnOneQueue
        <5>2. m # BlockBits(s)
              BY <1>11
        <5> QED BY <2>2, <4>4, <5>1, <5>2, <1>3, <1>11, <1>16, <1>18 DEF Fits
      <4> QED BY <4>3, <4>4
    <3>4. QueuesFit'
          BY <3>1, <3>3 DEF QueuesFit
    <3> QED BY <3>1, <3>2, <3>4 DEF QueuesSound
  <2> QED BY <2>1, <2>2
<1>20. TypeOK'
  <2>1. map' \in [Desc -> SUBSET (0 .. (MapBits - 1))]
        BY <1>8, <1>9, <1>10
  <2>2. acsz' \in [Desc -> Slab]
        BY <1>9, <1>10, Constants
  <2>3. held' \subseteq [adr : Nat, size : Nat]
        BY <1>1, <1>15 DEF TypeOK
  <2> QED BY <1>1, <1>19, <2>1, <2>2, <2>3 DEF TypeOK
<1>21. ReserveKept'
  <2>1. 0 \in map[0] /\ acsz[0] = 1 /\ 0 \in Desc
        BY <1>1, Constants DEF ReserveKept
  <2>2. CASE d = 0
    <3>1. s = 1
          BY <2>1, <2>2, <1>6
    <3>2. b # 0
          BY <2>2, <3>1, <1>13 DEF Reserved
    <3>3. 0 \in m
          BY <2>1, <2>2, <3>2, <1>8
    <3>4. acsz'[0] = 1
          BY <2>2, <3>1, <3>3, <1>17, <1>18
    <3> QED BY <2>2, <3>3, <3>4, <1>16 DEF ReserveKept
  <2>3. CASE d # 0
        BY <2>1, <2>3, <1>16 DEF ReserveKept
  <2> QED BY <2>2, <2>3
<1>22. ASSUME NEW e \in Desc, NEW c \in map[e], Used(e, c) = h PROVE e = d /\ c = b
  <2>1. ~Disjoint(h, h)
        BY <1>11, BlockInDesc, Constants DEF Disjoint
  <2> QED BY <2>1, <1>1, <1>13, <1>22, UsedDisjoint
<1>23. \A e \in Desc : e # d => Taken(e)' = Taken(e) /\ h \notin Taken(e)
       BY <1>16, <1>22 DEF Taken, Used
<1>24. Taken(d)' = Taken(d) \ {h}
  <2>1. Taken(d) \ {h} = {Used(d, c) : c \in m}
        BY <1>8, <1>13, <1>22 DEF Taken
  <2>2. CASE WholeFree(m, s)
        BY <2>1, <2>2, <1>16, <1>17 DEF Taken
  <2>3. CASE ~WholeFree(m, s)
        BY <2>1, <2>3, <1>6, <1>16, <1>18 DEF Taken, Used
  <2> QED BY <2>2, <2>3
<1> HIDE DEF h
<1>25. LedgerMatchesMaps'
  <2>1. held = (UNION {Taken(e) : e \in Desc}) \ {Reserved}
        BY <1>1 DEF LedgerMatchesMaps
  <2>2. \A g : g \in UNION {Taken(e) : e \in Desc} <=> \E e \in Desc : g \in Taken(e)
        OBVIOUS
  <2>3. \A g : g \in (UNION {Taken(e) : e \in Desc})' <=> \E e \in Desc : g \in Taken(e)'
        OBVIOUS
  <2>4. (UNION {Taken(e) : e \in Desc})' = (UNION {Taken(e) : e \in Desc}) \ {h}
    <3>1. ASSUME NEW g PROVE (\E e \in Desc : g \in Taken(e)') <=>
                             (\E e \in Desc : g \in Taken(e)) /\ g # h
      <4>1. ASSUME NEW e \in Desc PROVE g \in Taken(e)' <=> g \in Taken(e) /\ g # h
        <5>1. CASE e = d
              BY <5>1, <1>24
        <5>2. CASE e # d
              BY <5>2, <1>23
        <5> QED BY <5>1, <5>2
      <4> QED BY <4>1
    <3> QED BY <2>2, <2>3, <3>1
  <2> QED BY <2>1, <2>4, <1>15 DEF LedgerMatchesMaps, Reserved
<1>26. BootUntouched'
       BY DEF BootUntouched
<1> QED BY <1>14, <1>15, <1>19, <1>20, <1>21, <1>25, <1>26 DEF IInv

-----------------------------------------------------------------------------
(* The invariant, and what follows from it                                 *)

\* init_phy_mem leaves every descriptor but the first on the top empty list.
LEMMA InitInv == Init => IInv
<1> SUFFICES ASSUME Init PROVE IInv
    OBVIOUS
<1> USE DEF Init
<1>1. q \in [Lists -> Seq(Desc)]
  <2>1. [i \in 1 .. (NDesc - 1) |-> i] \in Seq(Desc)
    <3>1. NDesc - 1 \in Nat /\ 1 .. (NDesc - 1) \subseteq Desc
          BY Constants DEF Desc
    <3> QED BY <3>1, IsASeq
  <2>2. <<>> \in Seq(Desc)
        OBVIOUS
  <2> QED BY <2>1, <2>2 DEF BootLists
<1>2. TypeOK
  <2>1. map \in [Desc -> SUBSET (0 .. (MapBits - 1))] /\ acsz \in [Desc -> Slab]
        BY Constants
  <2> QED BY <1>1, <2>1 DEF TypeOK
<1>3. \A k \in Lists : \A i \in DOMAIN q[k] : k = <<"empty", Top>> /\ q[k][i] = i
  <2> SUFFICES ASSUME NEW k \in Lists, NEW i \in DOMAIN q[k]
               PROVE  k = <<"empty", Top>> /\ q[k][i] = i
      OBVIOUS
  <2>1. q[k] = IF k = <<"empty", Top>> THEN [j \in 1 .. (NDesc - 1) |-> j] ELSE <<>>
        BY DEF BootLists
  <2>2. DOMAIN <<>> = {}
        OBVIOUS
  <2> QED BY <2>1, <2>2
<1>4. \A k \in Lists : \A i \in DOMAIN q[k] : q[k][i] \in Desc
      BY <1>1, ElementOfSeq, LenProperties
<1>5. QueuesSound
      BY <1>3, <1>4 DEF QueuesSound, EachOnOneQueue, NoneLost, QueuesFit, Fits
<1> QED BY <1>2, <1>5 DEF IInv, ReserveKept, LedgerMatchesMaps, BootUntouched

\* init_kernel_mem puts the first descriptor on the partial list of the first slab, with
\* the kernel's block taken; or the machine dies.
LEMMA BootStep == IInv /\ InitKernelMem => IInv'
<1> SUFFICES ASSUME IInv, InitKernelMem PROVE IInv'
    OBVIOUS
<1>1. TypeOK /\ QueuesSound /\ BootUntouched /\ cpu = "boot"
      BY DEF IInv, InitKernelMem
<1>2. q = BootLists /\ map = [d \in Desc |-> {}] /\ acsz = [d \in Desc |-> Top] /\ held = {}
      BY <1>1 DEF BootUntouched
<1>3. CASE ~KernelFits
  <2>1. cpu' = "die" /\ UNCHANGED <<map, acsz, q, kmem, held>>
        BY <1>3 DEF InitKernelMem
  <2>2. TypeOK'
        BY <2>1, <1>1 DEF TypeOK
  <2>3. QueuesSound'
        BY <2>1, <1>1 DEF QueuesSound, EachOnOneQueue, NoneLost, QueuesFit, Fits
  <2> QED BY <2>1, <2>2, <2>3, <1>2
          DEF IInv, ReserveKept, LedgerMatchesMaps, BootUntouched, BootLists
<1>4. CASE KernelFits
  <2> DEFINE p == <<"partial", 1>>
             t == <<"empty", Top>>
  <2>1. /\ cpu' = "run" /\ kmem' = kmem /\ held' = {}
        /\ map' = [map EXCEPT ![0] = {0}]
        /\ acsz' = [acsz EXCEPT ![0] = 1]
        /\ q' = [q EXCEPT ![p] = Append(q[p], 0)]
        BY <1>2, <1>4 DEF InitKernelMem
  <2>2. p \in Lists /\ t \in Lists /\ p # t /\ 0 \in Desc
        BY Constants DEF Lists, Kinds
  <2>3. q \in [Lists -> Seq(Desc)]
        BY <1>1 DEF TypeOK
  <2>4. q[p] = <<>> /\ q[t] = [i \in 1 .. (NDesc - 1) |-> i]
        BY <1>2, <2>2 DEF BootLists
  <2>5. q'[p] = <<0>> /\ q'[t] = [i \in 1 .. (NDesc - 1) |-> i]
        BY <2>1, <2>2, <2>3, <2>4
  <2>6. \A k \in Lists : k # p /\ k # t => q'[k] = <<>>
        BY <1>2, <2>1, <2>2, <2>3 DEF BootLists
  <2>7. q' \in [Lists -> Seq(Desc)]
        BY <2>1, <2>2, <2>3, <2>4
  <2>8. map' = [d \in Desc |-> IF d = 0 THEN {0} ELSE {}]
        /\ acsz' = [d \in Desc |-> IF d = 0 THEN 1 ELSE Top]
        BY <1>2, <2>1
  <2>9. \A k \in Lists : \A i \in DOMAIN q'[k] :
          \/ k = p /\ i = 1 /\ q'[k][i] = 0
          \/ k = t /\ i \in 1 .. (NDesc - 1) /\ q'[k][i] = i
    <3> SUFFICES ASSUME NEW k \in Lists, NEW i \in DOMAIN q'[k]
                 PROVE  \/ k = p /\ i = 1 /\ q'[k][i] = 0
                        \/ k = t /\ i \in 1 .. (NDesc - 1) /\ q'[k][i] = i
        OBVIOUS
    <3>1. CASE k = p
          BY <3>1, <2>5
    <3>2. CASE k = t
          BY <3>2, <2>5
    <3>3. CASE k # p /\ k # t
      <4>1. DOMAIN <<>> = {}
            OBVIOUS
      <4> QED BY <3>3, <4>1, <2>6
    <3> QED BY <3>1, <3>2, <3>3
  <2>10. EachOnOneQueue'
         BY <2>2, <2>9 DEF EachOnOneQueue
  <2>11. NoneLost'
    <3> SUFFICES ASSUME NEW d \in Desc
                 PROVE  \E k \in Lists : \E i \in DOMAIN q'[k] : q'[k][i] = d
        BY DEF NoneLost
    <3>1. CASE d = 0
      <4>1. 1 \in DOMAIN q'[p] /\ q'[p][1] = 0
            BY <2>5
      <4> QED BY <3>1, <4>1, <2>2
    <3>2. CASE d # 0
      <4>1. d \in 1 .. (NDesc - 1)
            BY <3>2, Constants DEF Desc
      <4>2. d \in DOMAIN q'[t] /\ q'[t][d] = d
            BY <4>1, <2>5
      <4> QED BY <4>2, <2>2
    <3> QED BY <3>1, <3>2
  <2>12. QueuesFit'
    <3> SUFFICES ASSUME NEW k \in Lists, NEW d \in Desc,
                        \/ k = p /\ d = 0
                        \/ k = t /\ d # 0
                 PROVE  Fits(k, d)'
      <4>1. \A k \in Lists : \A i \in DOMAIN q'[k] : q'[k][i] \in Desc
            BY <2>7, ElementOfSeq, LenProperties
      <4>2. \A i \in 1 .. (NDesc - 1) : i # 0
            BY Constants
      <4> QED BY <2>9, <4>1, <4>2 DEF QueuesFit
    <3>1. 0 \in BlockBits(1) /\ BlockBits(1) # {0}
      <4>1. Bitl[1] > 1 /\ Bitl[1] \in Nat
            BY GeometryAssumption, Constants
      <4>2. 0 \in BlockBits(1) /\ 1 \in BlockBits(1)
            BY <4>1 DEF BlockBits
      <4> QED BY <4>2
    <3>2. CASE k = p /\ d = 0
          BY <3>1, <3>2, <2>2, <2>8 DEF Fits
    <3>3. CASE k = t /\ d # 0
          BY <3>3, <2>2, <2>8 DEF Fits
    <3> QED BY <3>2, <3>3
  <2>13. TypeOK'
    <3>1. 0 \in 0 .. (MapBits - 1)
          BY Constants
    <3>2. map' \in [Desc -> SUBSET (0 .. (MapBits - 1))] /\ acsz' \in [Desc -> Slab]
          BY <2>8, <3>1, Constants
    <3> QED BY <1>1, <2>1, <2>7, <3>2 DEF TypeOK
  <2>14. ReserveKept'
         BY <2>2, <2>8 DEF ReserveKept
  <2>15. LedgerMatchesMaps'
    <3>1. \A d \in Desc : Taken(d)' = IF d = 0 THEN {Reserved} ELSE {}
          BY <2>8 DEF Taken, Used, Reserved
    <3>2. (UNION {Taken(d) : d \in Desc})' = {Reserved}
      <4>1. \A h : h \in (UNION {Taken(e) : e \in Desc})' <=> \E e \in Desc : h \in Taken(e)'
            OBVIOUS
      <4> QED BY <4>1, <3>1, <2>2
    <3> QED BY <3>2, <2>1 DEF LedgerMatchesMaps, Reserved
  <2>16. BootUntouched'
         BY <2>1 DEF BootUntouched
  <2> QED BY <2>10, <2>11, <2>12, <2>13, <2>14, <2>15, <2>16 DEF IInv, QueuesSound
<1> QED BY <1>3, <1>4

\* Every step keeps the invariant.
LEMMA NextInv == IInv /\ [Next]_vars => IInv'
<1> SUFFICES ASSUME IInv, [Next]_vars PROVE IInv'
    OBVIOUS
<1>1. CASE InitKernelMem
      BY <1>1, BootStep
<1>2. ASSUME NEW size \in Sizes, AllocMemBlk(size) PROVE IInv'
  <2>1. PICK s \in Slab : AllocBlk(s)
        BY <1>2 DEF AllocMemBlk
  <2> QED BY <1>2, <2>1, AllocStep DEF AllocMemBlk
<1>3. ASSUME NEW a \in FreeAddrs, NEW size \in Sizes, FreeMemBlk(a, size) PROVE IInv'
  <2>1. PICK s \in Slab : FreeBlk(s, a)
        BY <1>3 DEF FreeMemBlk
  <2>2. a \in Nat /\ ~InBlock(a, Reserved)
        BY InputAssumption DEF FreeAddrs
  <2> QED BY <1>3, <2>1, <2>2, FreeStep DEF FreeMemBlk
<1>4. CASE UNCHANGED vars
  <2> USE <1>4 DEF vars
  <2>1. TypeOK'
        BY DEF IInv, TypeOK
  <2>2. QueuesSound'
        BY DEF IInv, QueuesSound, EachOnOneQueue, NoneLost, QueuesFit, Fits
  <2>3. ReserveKept' /\ BootUntouched'
        BY DEF IInv, ReserveKept, BootUntouched, BootLists
  <2>4. LedgerMatchesMaps'
        BY DEF IInv, LedgerMatchesMaps, Taken, Used
  <2> QED BY <2>1, <2>2, <2>3, <2>4 DEF IInv
<1> QED BY <1>1, <1>2, <1>3, <1>4
        DEF Next, SysDie, AllocMemBlkNull, FreeMemBlkFalse

\* The inductive invariant holds of every behaviour of the allocator: types, queues
\* that mean what they say, a kernel block that stays taken, an exact ledger.
THEOREM Invariant == Spec => []IInv
<1>1. Init => IInv
      BY InitInv
<1>2. IInv /\ [Next]_vars => IInv'
      BY NextInv
<1> QED BY <1>1, <1>2, PTL DEF Spec

\* Every variable keeps its type; in particular bitmaps stay within map_count's bits.
THEOREM TypeCorrect == Spec => []TypeOK
<1>1. IInv => TypeOK
      BY DEF IInv
<1> QED BY <1>1, Invariant, PTL

\* No descriptor is lost or linked twice, and every queue holds what it is meant to.
THEOREM QueuesAlwaysSound == Spec => []QueuesSound
<1>1. IInv => QueuesSound
      BY DEF IInv
<1> QED BY <1>1, Invariant, PTL

\* The bitmaps account for exactly the blocks that are out.
THEOREM LedgerAlwaysExact == Spec => []LedgerMatchesMaps
<1>1. IInv => LedgerMatchesMaps
      BY DEF IInv
<1> QED BY <1>1, Invariant, PTL

\* alloc_mem_blk never hands out a byte that is already out.
THEOREM BlocksNeverOverlap == Spec => []NoOverlap
  BY Invariant, NoOverlapFromInv, PTL

\* alloc_mem_blk never hands out a byte of the block kept for the kernel.
THEOREM ReservedIsSafe == Spec => []ReservedNeverHandedOut
  BY Invariant, ReservedFromInv, PTL

\* A block that is out is found again by free_mem_blk: its descriptor is on the full or
\* the partial list of its slab, no other descriptor holds its address, its bit is set.
LEMMA FreeableFromInv == IInv => HeldCanBeFreed
<1> SUFFICES ASSUME IInv, NEW h \in held
             PROVE  \E s \in Slab : BlkSize[s] = h.size /\ CanFree(s, h.adr)
    BY DEF HeldCanBeFreed
<1>1. cpu = "run" /\ TypeOK /\ QueuesSound /\ LedgerMatchesMaps
      BY DEF IInv, BootUntouched
<1>2. PICK d \in Desc : \E b \in map[d] : h = Used(d, b)
      BY <1>1, LedgerEntry
<1>3. PICK b \in map[d] : h = Used(d, b)
      BY <1>2
<1>4. PICK s \in Slab : s = acsz[d] /\ b \in BlockBits(s)
      BY <1>1, DescOnItsSlab
<1>5. PICK a : a = h.adr
      OBVIOUS
<1>6. /\ h = BlockAt(d, s, b) /\ h.size = BlkSize[s]
      /\ a = DescStart(d) + BlkSize[s] * b
      /\ a \in Nat /\ DescStart(d) \in Nat /\ BlkSize[s] \in Nat /\ BlkSize[s] > 1
      /\ DescStart(d) <= a /\ a < DescEnd(d)
      BY <1>3, <1>4, <1>5, BlockInDesc, Constants DEF Used
<1>7. a # 0
  <2>1. d \in Nat /\ MapOne \in Nat /\ SpaceStart \in Nat /\ SpaceStart > 0
        BY Constants DEF Desc
  <2>2. d * MapOne \in Nat
        BY <2>1
  <2> QED BY <2>1, <2>2, <1>6 DEF DescStart
<1> DEFINE k == FreeList(s, a)
<1>8. k \in Lists
      BY DEF FreeList, Lists, Kinds
<1>9. FoundIn(k, a) # {}
  <2>1. CASE Occurs(d, q[<<"full", s>>])
    <3>1. FoundIn(<<"full", s>>, a) # {}
          BY <2>1, <1>6 DEF FoundIn, Occurs
    <3> QED BY <3>1 DEF FreeList
  <2>2. CASE Occurs(d, q[<<"partial", s>>])
    <3>1. FoundIn(<<"partial", s>>, a) # {}
          BY <2>2, <1>6 DEF FoundIn, Occurs
    <3> QED BY <3>1 DEF FreeList
  <2> QED BY <2>1, <2>2, <1>1, <1>4, DescOnItsSlab
<1>10. FreePos(s, a) \in FoundIn(k, a)
       BY <1>1, <1>9, FreePosFound
<1>11. PICK e : e = FreeDesc(s, a)
       OBVIOUS
<1>12. e \in Desc /\ DescStart(e) <= a /\ a < DescEnd(e)
  <2>1. q[k] \in Seq(Desc)
        BY <1>1, <1>8 DEF TypeOK
  <2>2. /\ FreePos(s, a) \in DOMAIN q[k]
        /\ DescStart(q[k][FreePos(s, a)]) <= a /\ a < DescEnd(q[k][FreePos(s, a)])
        BY <1>10 DEF FoundIn
  <2> QED BY <2>1, <2>2, <1>11, ElementOfSeq, LenProperties DEF FreeDesc
<1>13. e = d
  <2>1. d \in Nat /\ e \in Nat /\ MapOne \in Nat
        BY <1>12, Constants DEF Desc
  <2>2. DescStart(e) \in Nat
    <3>1. SpaceStart \in Nat /\ e * MapOne \in Nat
          BY <2>1, Constants
    <3> QED BY <3>1 DEF DescStart
  <2>3. ~(d < e)
        BY <2>1, <2>2, <1>6, <1>12, DescsApart DEF DescEnd
  <2>4. ~(e < d)
        BY <2>1, <2>2, <1>6, <1>12, DescsApart DEF DescEnd
  <2> QED BY <2>1, <2>3, <2>4
<1>14. FreeBit(s, a) = b
  <2>1. b \in Nat
        BY <1>4 DEF BlockBits
  <2>2. BlkSize[s] * b \in Nat
        BY <2>1, <1>6
  <2>3. (a - DescStart(d)) \div BlkSize[s] = b
        BY <2>1, <2>2, <1>6, BitOfBlock
  <2> QED BY <2>3, <1>11, <1>13 DEF FreeBit
<1>15. b < MapBits
       BY <1>4, Constants DEF BlockBits
<1>16. CanFree(s, a)
       BY <1>3, <1>7, <1>9, <1>11, <1>13, <1>14, <1>15 DEF CanFree
<1> QED BY <1>5, <1>6, <1>16

\* free_mem_blk succeeds for every block that is out, given its address and size.
THEOREM BlocksCanBeFreed == Spec => []HeldCanBeFreed
  BY Invariant, FreeableFromInv, PTL

\* With nothing out, no bit but the kernel's is set.
LEMMA WholeFromInv == IInv => AllFreeIsWhole
<1> SUFFICES ASSUME IInv, cpu = "run", held = {}
             PROVE  ToSet(q[<<"empty", Top>>]) = Desc \ {0}
    BY DEF AllFreeIsWhole
<1> DEFINE t == <<"empty", Top>>
<1>1. TypeOK /\ QueuesSound /\ LedgerMatchesMaps /\ 0 \in map[0] /\ acsz[0] = 1 /\ 0 \in Desc
      BY Constants DEF IInv, ReserveKept
<1>2. ASSUME NEW d \in Desc, d # 0 PROVE map[d] = {}
  <2> SUFFICES ASSUME NEW b \in map[d] PROVE FALSE
      BY <1>1 DEF TypeOK
  <2>1. Used(d, b) = Reserved
        BY <1>1, <1>2, LedgerEntry
  <2>2. Disjoint(Used(d, b), Used(0, 0))
        BY <1>1, <1>2, UsedDisjoint
  <2>3. Used(0, 0) = Reserved
        BY <1>1 DEF Used, Reserved
  <2>4. Reserved.adr \in Nat /\ Reserved.size \in Nat /\ Reserved.size > 0
    <3>1. 1 \in Slab /\ 0 \in BlockBits(1)
          BY Constants DEF BlockBits
    <3> QED BY <3>1, <1>1, BlockInDesc, Constants DEF Reserved
  <2> QED BY <2>1, <2>2, <2>3, <2>4 DEF Disjoint
<1>3. t \in Lists
      BY Constants DEF Lists, Kinds
<1>4. ASSUME NEW d \in Desc, d # 0 PROVE Occurs(d, q[t])
      BY <1>1, <1>2, <1>4, DescOnItsSlab
<1>5. ASSUME NEW i \in DOMAIN q[t] PROVE q[t][i] \in Desc \ {0}
  <2>1. q[t][i] \in Desc
        BY <1>1, <1>3, ElementOfSeq, LenProperties DEF TypeOK
  <2>2. map[q[t][i]] = {}
        BY <1>1, <1>3 DEF QueuesSound, QueuesFit, Fits
  <2> QED BY <2>1, <2>2, <1>1
<1> QED BY <1>4, <1>5 DEF ToSet, Occurs

\* When everything has come back, every descriptor but the first is whole again.
THEOREM FreedMemoryIsWhole == Spec => []AllFreeIsWhole
  BY Invariant, WholeFromInv, PTL

\* A step hands out one block a caller may have, takes one back, or changes nothing.
LEMMA StepIsStoreStep == IInv /\ [Next]_vars => [Store!Next]_held
<1> SUFFICES ASSUME IInv, [Next]_vars PROVE Store!Next \/ held' = held
    OBVIOUS
<1>1. ASSUME NEW size \in Sizes, AllocMemBlk(size) PROVE Store!Next
  <2>1. PICK s \in Slab : AllocBlk(s)
        BY <1>1 DEF AllocMemBlk
  <2>2. PICK h : h = AllocBlock(s)
        OBVIOUS
  <2>3. /\ IInv' /\ h \notin held /\ held' = held \cup {h}
        /\ h \in {BlockAt(d, t, b) : d \in Desc, t \in Slab, b \in 0 .. (MapBits - 1)}
        /\ h.adr + h.size <= SpaceStart + NDesc * MapOne
        BY <1>1, <2>1, <2>2, AllocStep DEF AllocMemBlk
  <2>4. NoOverlap' /\ ReservedNeverHandedOut'
    <3>1. IInv' => NoOverlap'
          BY NoOverlapFromInv, PTL
    <3>2. IInv' => ReservedNeverHandedOut'
          BY ReservedFromInv, PTL
    <3> QED BY <2>3, <3>1, <3>2
  <2>5. h \in UserBlock
    <3>1. Disjoint(h, Reserved)
          BY <2>3, <2>4 DEF ReservedNeverHandedOut, Reserved
    <3> QED BY <2>3, <3>1 DEF UserBlock
  <2>6. \A g \in held : Store!Disjoint(h, g)
        BY <2>3, <2>4 DEF NoOverlap, Disjoint, Store!Disjoint
  <2>7. Store!Get
        BY <2>3, <2>5, <2>6 DEF Store!Get
  <2> QED BY <2>7 DEF Store!Next
<1>2. ASSUME NEW a \in FreeAddrs, NEW size \in Sizes, FreeMemBlk(a, size) PROVE Store!Next
  <2>1. PICK s \in Slab : FreeBlk(s, a)
        BY <1>2 DEF FreeMemBlk
  <2>2. a \in Nat /\ ~InBlock(a, Reserved)
        BY InputAssumption DEF FreeAddrs
  <2>3. \E h \in held : held' = held \ {h}
        BY <1>2, <2>1, <2>2, FreeStep DEF FreeMemBlk
  <2> QED BY <2>3 DEF Store!Next, Store!Release
<1>3. CASE UNCHANGED vars \/ InitKernelMem
      BY <1>3 DEF vars, InitKernelMem
<1> QED BY <1>1, <1>2, <1>3
        DEF Next, SysDie, AllocMemBlkNull, FreeMemBlkFalse, vars

\* The allocator implements the abstract block store: whatever its lists and bitmaps do,
\* callers see disjoint blocks going out one by one and coming back one by one.
THEOREM Implementation == Spec => ImplementsBlockStore
<1>1. Init => Store!Init
      BY DEF Init, Store!Init
<1>2. IInv /\ [Next]_vars => [Store!Next]_held
      BY StepIsStoreStep
<1> QED BY <1>1, <1>2, Invariant, PTL DEF Spec, ImplementsBlockStore, Store!Spec
=============================================================================
