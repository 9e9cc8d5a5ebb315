--------------------------- MODULE PagePoolProofs ---------------------------
(* Proofs about the page pool, for every geometry, page size, table of     *)
(* pools and set of inputs that the assumptions of BlkMem and PagePool     *)
(* admit.                                                                  *)
EXTENDS PagePool, BlkMemProofs, FiniteSetTheorems

-----------------------------------------------------------------------------
(* One pool: its objects and its free chain, whatever the rest of the list *)

\* A pool with its objects in its block and its pointers to maps of its own.
Shaped(p) ==
    /\ p \in PoolHead
    /\ p.afindx \in 0 .. p.objs
    /\ p.next_map \in 0 .. p.objs
    /\ p.next \in [1 .. p.objs -> 0 .. p.objs]
    /\ Page + p.objs * p.size <= BlockOf(p).size

\* c is the free chain of p when the pages in pg are out.
Accounted(p, c, pg) ==
    /\ c \in [1 .. (p.objs - p.afindx) -> 1 .. p.objs]
    /\ IsChain(p, c)
    /\ \A m \in 1 .. p.objs : PageOf(p, m) \in pg <=> \A k \in DOMAIN c : c[k] # m

\* The fields of a pool.
LEMMA HeadFields ==
    ASSUME NEW p \in PoolHead
    PROVE  /\ p.start \in Nat /\ p.start # 0 /\ p.end \in Nat
           /\ p.size \in Nat /\ p.size > 0 /\ p.objs \in Nat
           /\ p.afindx \in Nat /\ p.next_map \in Nat /\ p.next \in Seq(Nat)
  BY DEF PoolHead, NULL

\* PAGE_SIZE is a number of bytes.
LEMMA PageIsNat == Page \in Nat /\ Page > 0
  BY PageAssumption

\* An object lies in its pool's block, behind the first page.
LEMMA PageInBlock ==
    ASSUME NEW p \in PoolHead, Page + p.objs * p.size <= BlockOf(p).size,
           NEW m \in 1 .. p.objs
    PROVE  /\ PageOf(p, m).adr \in Nat /\ PageOf(p, m).size = p.size
           /\ p.start + Page <= PageOf(p, m).adr
           /\ PageOf(p, m).adr + p.size <= p.end + 1
<1>1. /\ p.start \in Nat /\ p.end \in Nat /\ p.size \in Nat /\ p.objs \in Nat
      /\ m \in Nat /\ 1 <= m /\ m <= p.objs /\ Page \in Nat
      BY HeadFields, PageIsNat
<1>2. \A x, y, z \in Nat : 1 <= x /\ x <= y => (x - 1) * z \in Nat /\ (x - 1) * z + z <= y * z
  <2>1. \A a, y, z \in Nat : a + 1 <= y => a * z \in Nat /\ a * z + z <= y * z
        OBVIOUS
  <2> TAKE x, y, z \in Nat
  <2>2. 1 <= x => x - 1 \in Nat /\ (x - 1) + 1 = x
        OBVIOUS
  <2> QED BY <2>1, <2>2
<1> DEFINE at == (m - 1) * p.size
           all == p.objs * p.size
<1>3. at \in Nat /\ at + p.size <= all /\ all \in Nat
      BY <1>1, <1>2
<1>4. Page + all <= p.end - p.start + 1
      BY DEF BlockOf
<1>5. PageOf(p, m).adr = p.start + Page + at /\ PageOf(p, m).size = p.size
      BY DEF PageOf
<1> HIDE DEF at, all
<1> QED BY <1>1, <1>3, <1>4, <1>5

\* Two objects of a pool share no byte.
LEMMA PagesApart ==
    ASSUME NEW p \in PoolHead, NEW m \in 1 .. p.objs, NEW n \in 1 .. p.objs, m # n
    PROVE  Disjoint(PageOf(p, m), PageOf(p, n)) /\ PageOf(p, m).adr # PageOf(p, n).adr
<1>1. /\ p.start \in Nat /\ p.size \in Nat /\ p.size > 0 /\ p.objs \in Nat
      /\ m \in Nat /\ 1 <= m /\ n \in Nat /\ 1 <= n /\ Page \in Nat
      BY HeadFields, PageIsNat
<1>2. \A x, y, z \in Nat : 1 <= x /\ x < y => (x - 1) * z + z <= (y - 1) * z
  <2>1. \A a, b, z \in Nat : a + 1 <= b => a * z + z <= b * z
        OBVIOUS
  <2> TAKE x, y, z \in Nat
  <2>2. 1 <= x /\ x < y => x - 1 \in Nat /\ y - 1 \in Nat /\ (x - 1) + 1 <= y - 1
        OBVIOUS
  <2> QED BY <2>1, <2>2
<1>3. \A x, z \in Nat : 1 <= x => (x - 1) * z \in Nat
  <2>1. \A a, z \in Nat : a * z \in Nat
        OBVIOUS
  <2> QED BY <2>1
<1> DEFINE a == (m - 1) * p.size
           b == (n - 1) * p.size
<1>4. a \in Nat /\ b \in Nat
      BY <1>1, <1>3
<1>5. (m < n => a + p.size <= b) /\ (n < m => b + p.size <= a)
      BY <1>1, <1>2
<1>6. /\ PageOf(p, m) = [adr |-> p.start + Page + a, size |-> p.size]
      /\ PageOf(p, n) = [adr |-> p.start + Page + b, size |-> p.size]
      BY DEF PageOf
<1> HIDE DEF a, b
<1>7. m < n \/ n < m
      BY <1>1
<1> QED BY <1>1, <1>4, <1>5, <1>6, <1>7 DEF Disjoint

\* What a chain says, a conjunct at a time.
LEMMA ChainFacts ==
    ASSUME NEW p, Shaped(p), NEW c, NEW pg, Accounted(p, c, pg)
    PROVE  LET n == p.objs - p.afindx
           IN  /\ n \in Nat /\ DOMAIN c = 1 .. n
               /\ \A i \in 1 .. n : c[i] \in 1 .. p.objs
               /\ \A i, j \in 1 .. n : c[i] = c[j] => i = j
               /\ p.next_map = IF n = 0 THEN 0 ELSE c[1]
               /\ \A i \in 1 .. n : p.next[c[i]] = IF i = n THEN 0 ELSE c[i + 1]
               /\ \A m \in 1 .. p.objs : (\A i \in 1 .. n : c[i] # m) => p.next[m] = 0
<1> DEFINE n == p.objs - p.afindx
           links == [i \in 1 .. (n + 1) |-> IF i = n + 1 THEN NULL ELSE c[i]]
<1>1. n \in Nat
      BY HeadFields DEF Shaped
<1>2. c \in [1 .. n -> 1 .. p.objs]
      BY DEF Accounted
<1>3. /\ \A i, j \in 1 .. n : c[i] = c[j] => i = j
      /\ p.next_map = links[1]
      /\ \A i \in 1 .. n : p.next[c[i]] = links[i + 1]
      /\ \A m \in 1 .. p.objs : (\A i \in 1 .. n : c[i] # m) => p.next[m] = 0
      BY DEF Accounted, IsChain, NULL
<1>4. \A i \in 1 .. (n + 1) : links[i] = IF i = n + 1 THEN 0 ELSE c[i]
      BY DEF NULL
<1> HIDE DEF n, links
<1>5. p.next_map = IF n = 0 THEN 0 ELSE c[1]
  <2>1. 1 \in 1 .. (n + 1)
        BY <1>1
  <2> QED BY <1>1, <1>3, <1>4, <2>1
<1>6. ASSUME NEW i \in 1 .. n PROVE p.next[c[i]] = IF i = n THEN 0 ELSE c[i + 1]
  <2>1. i + 1 \in 1 .. (n + 1) /\ (i + 1 = n + 1 <=> i = n)
        BY <1>1
  <2> QED BY <1>3, <1>4, <2>1
<1> QED BY <1>1, <1>2, <1>3, <1>5, <1>6 DEF n

\* The same facts make a chain.
LEMMA ChainIntro ==
    ASSUME NEW p, NEW c, NEW pg, NEW n \in Nat, p.objs - p.afindx = n,
           c \in [1 .. n -> 1 .. p.objs],
           \A i, j \in 1 .. n : c[i] = c[j] => i = j,
           p.next_map = IF n = 0 THEN 0 ELSE c[1],
           \A i \in 1 .. n : p.next[c[i]] = IF i = n THEN 0 ELSE c[i + 1],
           \A m \in 1 .. p.objs : (\A i \in 1 .. n : c[i] # m) => p.next[m] = 0,
           \A m \in 1 .. p.objs : PageOf(p, m) \in pg <=> \A k \in 1 .. n : c[k] # m
    PROVE  Accounted(p, c, pg)
<1> DEFINE links == [i \in 1 .. (n + 1) |-> IF i = n + 1 THEN NULL ELSE c[i]]
<1>1. \A i \in 1 .. (n + 1) : links[i] = IF i = n + 1 THEN 0 ELSE c[i]
      BY DEF NULL
<1> HIDE DEF links
<1>2. 1 \in 1 .. (n + 1) /\ (1 = n + 1 <=> n = 0)
      OBVIOUS
<1>3. p.next_map = links[1]
      BY <1>1, <1>2
<1>4. ASSUME NEW i \in 1 .. n PROVE p.next[c[i]] = links[i + 1]
  <2>1. i + 1 \in 1 .. (n + 1) /\ (i + 1 = n + 1 <=> i = n)
        OBVIOUS
  <2> QED BY <1>1, <2>1
<1>5. IsChain(p, c)
      BY <1>3, <1>4 DEF IsChain, links, NULL
<1> QED BY <1>5 DEF Accounted

\* A function from 1 .. n to links is a sequence.
LEMMA LinksAreSeq ==
    ASSUME NEW n \in Nat, NEW f \in [1 .. n -> 0 .. n]
    PROVE  f \in Seq(Nat)
<1>1. f \in [1 .. n -> Nat]
      OBVIOUS
<1> QED BY <1>1

\* The pool after page_new_on_mplhead.
LEMMA TakeFields ==
    ASSUME NEW p, Shaped(p), HasPage(p)
    PROVE  LET t == Take(p)
           IN  /\ Shaped(t)
               /\ p.next_map \in 1 .. p.objs
               /\ t.start = p.start /\ t.end = p.end /\ t.size = p.size /\ t.objs = p.objs
               /\ t.afindx = p.afindx + 1
               /\ t.next_map = p.next[p.next_map]
               /\ t.next = [p.next EXCEPT ![p.next_map] = 0]
<1> DEFINE t == Take(p)
<1>1. /\ p \in PoolHead /\ p.objs \in Nat /\ p.afindx \in Nat /\ p.next_map \in Nat
      /\ p.next \in [1 .. p.objs -> 0 .. p.objs]
      BY HeadFields DEF Shaped
<1>2. p.next_map \in 1 .. p.objs /\ p.afindx < p.objs
      BY <1>1 DEF Shaped, HasPage, NULL
<1>3. t = [start |-> p.start, end |-> p.end, size |-> p.size, objs |-> p.objs,
           afindx |-> p.afindx + 1, next_map |-> p.next[p.next_map],
           next |-> [p.next EXCEPT ![p.next_map] = 0]]
  <2> DEFINE x == p.next_map
             y == p.next[x]
             f == [p.next EXCEPT ![x] = 0]
             t1 == [p EXCEPT !.next_map = y]
             t2 == [t1 EXCEPT !.next[x] = NULL]
  <2> HIDE DEF x, y, f
  <2>1. t1 = [start |-> p.start, end |-> p.end, size |-> p.size, objs |-> p.objs,
              afindx |-> p.afindx, next_map |-> y, next |-> p.next]
        BY <1>1 DEF PoolHead
  <2> HIDE DEF t1
  <2>2. t2 = [start |-> p.start, end |-> p.end, size |-> p.size, objs |-> p.objs,
              afindx |-> p.afindx, next_map |-> y, next |-> f]
        BY <2>1 DEF f, NULL
  <2> HIDE DEF t2
  <2>3. [t2 EXCEPT !.afindx = p.afindx + 1] =
             [start |-> p.start, end |-> p.end, size |-> p.size, objs |-> p.objs,
              afindx |-> p.afindx + 1, next_map |-> y, next |-> f]
        BY <2>2
  <2>4. t = [t2 EXCEPT !.afindx = p.afindx + 1]
        BY DEF Take, t2, t1, x, y
  <2> QED BY <2>3, <2>4 DEF x, y, f
<1>4. /\ t.start = p.start /\ t.end = p.end /\ t.size = p.size /\ t.objs = p.objs
      /\ t.afindx = p.afindx + 1 /\ t.next_map = p.next[p.next_map]
      /\ t.next = [p.next EXCEPT ![p.next_map] = 0]
      BY <1>3
<1>5. t.next \in [1 .. t.objs -> 0 .. t.objs] /\ t.next_map \in 0 .. t.objs
      BY <1>1, <1>2, <1>4
<1>6. t.next \in Seq(Nat)
      BY <1>1, <1>4, <1>5, LinksAreSeq
<1>7. t \in PoolHead
  <2>1. /\ p.start \in Nat \ {NULL} /\ p.end \in Nat /\ p.size \in Nat \ {0}
        BY <1>1 DEF PoolHead
  <2>2. t.afindx \in Nat /\ t.next_map \in Nat
        BY <1>1, <1>2, <1>4, <1>5
  <2> QED BY <1>1, <1>3, <1>4, <1>6, <2>1, <2>2 DEF PoolHead
<1>8. BlockOf(t) = BlockOf(p)
      BY <1>4 DEF BlockOf
<1>9. t.afindx \in 0 .. t.objs
      BY <1>1, <1>2, <1>4
<1> QED BY <1>2, <1>4, <1>5, <1>7, <1>8, <1>9 DEF Shaped

\* Pools of the same geometry have the same objects and the same block.
LEMMA SameObjects ==
    ASSUME NEW p, NEW t, t.start = p.start, t.end = p.end, t.size = p.size
    PROVE  BlockOf(t) = BlockOf(p) /\ \A m : PageOf(t, m) = PageOf(p, m)
  BY DEF BlockOf, PageOf

\* The page taken leaves the chain and joins those that are out.
LEMMA TakeChain ==
    ASSUME NEW p, Shaped(p), HasPage(p), NEW c, NEW pg, Accounted(p, c, pg)
    PROVE  \E d : Accounted(Take(p), d, pg \cup {PageOf(p, p.next_map)})
<1> DEFINE t == Take(p)
           n == p.objs - p.afindx
           x == p.next_map
           d == [i \in 1 .. (n - 1) |-> c[i + 1]]
           pt == pg \cup {PageOf(p, x)}
<1>1. /\ x \in 1 .. p.objs
      /\ t.start = p.start /\ t.end = p.end /\ t.size = p.size /\ t.objs = p.objs
      /\ t.afindx = p.afindx + 1 /\ t.next_map = p.next[x]
      /\ t.next = [p.next EXCEPT ![x] = 0]
      BY TakeFields
<1>2. /\ p \in PoolHead /\ p.objs \in Nat /\ p.afindx \in Nat
      /\ p.next \in [1 .. p.objs -> 0 .. p.objs]
      BY HeadFields DEF Shaped
<1>3. /\ n \in Nat /\ n # 0 /\ DOMAIN c = 1 .. n
      BY <1>2, ChainFacts DEF HasPage
<1>4. /\ \A i \in 1 .. n : c[i] \in 1 .. p.objs
      /\ \A i, j \in 1 .. n : c[i] = c[j] => i = j
      /\ x = c[1]
      /\ \A i \in 1 .. n : p.next[c[i]] = IF i = n THEN 0 ELSE c[i + 1]
      /\ \A m \in 1 .. p.objs : (\A i \in 1 .. n : c[i] # m) => p.next[m] = 0
      BY <1>3, ChainFacts
<1>5. \A m \in 1 .. p.objs : PageOf(p, m) \in pg <=> \A k \in 1 .. n : c[k] # m
      BY <1>3 DEF Accounted
<1>6. n - 1 \in Nat /\ t.objs - t.afindx = n - 1
      BY <1>1, <1>2, <1>3
<1>7. \A m : PageOf(t, m) = PageOf(p, m)
      BY <1>1, SameObjects
<1>8. \A m \in 1 .. p.objs : m # x => PageOf(p, m) # PageOf(p, x)
      BY <1>1, <1>2, PagesApart
<1> HIDE DEF t, n, x, d
<1>9. \A i \in 1 .. (n - 1) : i + 1 \in 1 .. n /\ d[i] = c[i + 1] /\ i + 1 # 1
      BY <1>3 DEF d
<1>10. \A i, j \in 1 .. (n - 1) : d[i] = d[j] => i = j
  <2> SUFFICES ASSUME NEW i \in 1 .. (n - 1), NEW j \in 1 .. (n - 1), d[i] = d[j]
               PROVE  i = j
      OBVIOUS
  <2>1. i + 1 = j + 1
        BY <1>4, <1>9
  <2> QED BY <2>1, <1>6
<1>11. d \in [1 .. (n - 1) -> 1 .. t.objs]
      BY <1>1, <1>4, <1>9 DEF d
<1>12. t.next_map = IF n - 1 = 0 THEN 0 ELSE d[1]
  <2>1. 1 \in 1 .. n
        BY <1>3
  <2>2. t.next_map = IF 1 = n THEN 0 ELSE c[1 + 1]
        BY <1>1, <1>4, <2>1
  <2>3. CASE n = 1
        BY <2>2, <2>3
  <2>4. CASE n # 1
    <3>1. 1 \in 1 .. (n - 1)
          BY <2>4, <1>3
    <3> QED BY <2>2, <2>4, <3>1, <1>3, <1>9
  <2> QED BY <2>3, <2>4
<1>13. ASSUME NEW i \in 1 .. (n - 1)
       PROVE  t.next[d[i]] = IF i = n - 1 THEN 0 ELSE d[i + 1]
  <2>1. d[i] # x /\ d[i] \in 1 .. p.objs
    <3>1. 1 \in 1 .. n
          BY <1>3
    <3> QED BY <3>1, <1>4, <1>9
  <2>2. t.next[d[i]] = p.next[c[i + 1]]
        BY <2>1, <1>1, <1>2, <1>9
  <2>3. p.next[c[i + 1]] = IF i + 1 = n THEN 0 ELSE c[(i + 1) + 1]
        BY <1>4, <1>9
  <2>4. CASE i = n - 1
        BY <2>2, <2>3, <2>4, <1>3
  <2>5. CASE i # n - 1
    <3>1. i + 1 \in 1 .. (n - 1) /\ i + 1 # n
          BY <2>5, <1>3
    <3> QED BY <2>2, <2>3, <2>5, <3>1, <1>9
  <2> QED BY <2>4, <2>5
<1>14. ASSUME NEW m \in 1 .. p.objs
       PROVE  (\A i \in 1 .. (n - 1) : d[i] # m) <=> (m = x \/ \A i \in 1 .. n : c[i] # m)
  <2>1. ASSUME m # x, NEW i \in 1 .. n, c[i] = m
        PROVE  \E j \in 1 .. (n - 1) : d[j] = m
    <3>1. i - 1 \in 1 .. (n - 1) /\ (i - 1) + 1 = i
          BY <2>1, <1>3, <1>4
    <3> QED BY <2>1, <3>1, <1>9
  <2>2. ASSUME NEW i \in 1 .. (n - 1), d[i] = m
        PROVE  m # x /\ \E j \in 1 .. n : c[j] = m
    <3>1. 1 \in 1 .. n
          BY <1>3
    <3> QED BY <2>2, <3>1, <1>4, <1>9
  <2> QED BY <2>1, <2>2
<1>15. ASSUME NEW m \in 1 .. t.objs, \A i \in 1 .. (n - 1) : d[i] # m
       PROVE  t.next[m] = 0
  <2>1. m = x \/ \A i \in 1 .. n : c[i] # m
        BY <1>1, <1>14, <1>15
  <2>2. m = x \/ p.next[m] = 0
        BY <2>1, <1>1, <1>4
  <2> QED BY <2>2, <1>1, <1>2
<1>16. ASSUME NEW m \in 1 .. t.objs
       PROVE  PageOf(t, m) \in pt <=> \A k \in 1 .. (n - 1) : d[k] # m
  <2>1. PageOf(t, m) \in pt <=> PageOf(p, m) \in pg \/ m = x
        BY <1>1, <1>7, <1>8
  <2> QED BY <2>1, <1>1, <1>5, <1>14
<1>17. Accounted(t, d, pt)
  <2> DEFINE k == n - 1
  <2>1. k \in Nat /\ t.objs - t.afindx = k
        BY <1>6
  <2> HIDE DEF pt
  <2> QED BY <2>1, <1>10, <1>11, <1>12, <1>13, <1>15, <1>16, ChainIntro
<1> QED BY <1>17 DEF t, x

\* The pool after delete_page_on_mplhead.
LEMMA GiveFields ==
    ASSUME NEW p, Shaped(p), NEW m \in 1 .. p.objs, p.afindx # 0
    PROVE  LET t == Give(p, m)
           IN  /\ t.start = p.start /\ t.end = p.end /\ t.size = p.size /\ t.objs = p.objs
               /\ t.afindx = p.afindx - 1
               /\ t.next_map = m
               /\ t.next = [p.next EXCEPT ![m] = p.next_map]
               /\ Shaped(t)
<1> DEFINE t == Give(p, m)
<1>1. /\ p \in PoolHead /\ p.objs \in Nat /\ p.afindx \in Nat /\ p.next_map \in 0 .. p.objs
      /\ p.next \in [1 .. p.objs -> 0 .. p.objs] /\ m \in Nat
      /\ p.afindx \in 0 .. p.objs
      BY HeadFields DEF Shaped
<1>2. t = [start |-> p.start, end |-> p.end, size |-> p.size, objs |-> p.objs,
           afindx |-> p.afindx - 1, next_map |-> m,
           next |-> [p.next EXCEPT ![m] = p.next_map]]
  <2> DEFINE f == [p.next EXCEPT ![m] = p.next_map]
             t1 == [p EXCEPT !.next[m] = p.next_map]
             t2 == [t1 EXCEPT !.next_map = m]
  <2> HIDE DEF f
  <2>1. t1 = [start |-> p.start, end |-> p.end, size |-> p.size, objs |-> p.objs,
              afindx |-> p.afindx, next_map |-> p.next_map, next |-> f]
    <3> DEFINE g == p.next_map
               h == p.next
    <3>1. p = [start |-> p.start, end |-> p.end, size |-> p.size, objs |-> p.objs,
               afindx |-> p.afindx, next_map |-> g, next |-> h]
          BY <1>1 DEF PoolHead
    <3>2. f = [h EXCEPT ![m] = g]
          BY DEF f
    <3> HIDE DEF g, h
    <3>3. [p EXCEPT !.next[m] = g] =
              [start |-> p.start, end |-> p.end, size |-> p.size, objs |-> p.objs,
               afindx |-> p.afindx, next_map |-> g, next |-> f]
          BY <3>1, <3>2
    <3> QED BY <3>3 DEF g
  <2> HIDE DEF t1
  <2>2. t2 = [start |-> p.start, end |-> p.end, size |-> p.size, objs |-> p.objs,
              afindx |-> p.afindx, next_map |-> m, next |-> f]
        BY <2>1
  <2> HIDE DEF t2
  <2>3. [t2 EXCEPT !.afindx = p.afindx - 1] =
             [start |-> p.start, end |-> p.end, size |-> p.size, objs |-> p.objs,
              afindx |-> p.afindx - 1, next_map |-> m, next |-> f]
        BY <2>2
  <2>4. t = [t2 EXCEPT !.afindx = p.afindx - 1]
        BY DEF Give, t2, t1
  <2> QED BY <2>3, <2>4 DEF f
<1>3. /\ t.start = p.start /\ t.end = p.end /\ t.size = p.size /\ t.objs = p.objs
      /\ t.afindx = p.afindx - 1 /\ t.next_map = m
      /\ t.next = [p.next EXCEPT ![m] = p.next_map]
      BY <1>2
<1>4. t.next \in [1 .. t.objs -> 0 .. t.objs] /\ t.next_map \in 0 .. t.objs
      BY <1>1, <1>3
<1>5. t.next \in Seq(Nat)
      BY <1>1, <1>3, <1>4, LinksAreSeq
<1>6. t.afindx \in 0 .. t.objs /\ t.afindx \in Nat
      BY <1>1, <1>3
<1>7. t \in PoolHead
  <2>1. /\ p.start \in Nat \ {NULL} /\ p.end \in Nat /\ p.size \in Nat \ {0}
        BY <1>1 DEF PoolHead
  <2> QED BY <1>1, <1>2, <1>3, <1>5, <1>6, <2>1 DEF PoolHead
<1>8. BlockOf(t) = BlockOf(p)
      BY <1>3 DEF BlockOf
<1>9. Shaped(t)
      BY <1>3, <1>4, <1>6, <1>7, <1>8 DEF Shaped
<1> QED BY <1>3, <1>9

\* A page that is out is not on the chain, and its map points nowhere.
LEMMA OutIsOffChain ==
    ASSUME NEW p, Shaped(p), NEW c, NEW pg, Accounted(p, c, pg),
           NEW m \in 1 .. p.objs, PageOf(p, m) \in pg
    PROVE  (\A k \in DOMAIN c : c[k] # m) /\ p.next[m] = NULL
<1>1. \A k \in DOMAIN c : c[k] # m
      BY DEF Accounted
<1> QED BY <1>1, ChainFacts DEF NULL

\* The page freed joins the chain and leaves those that are out.
LEMMA GiveChain ==
    ASSUME NEW p, Shaped(p), NEW c, NEW pg, Accounted(p, c, pg),
           NEW m \in 1 .. p.objs, PageOf(p, m) \in pg, p.afindx # 0
    PROVE  \E d : Accounted(Give(p, m), d, pg \ {PageOf(p, m)})
<1> DEFINE t == Give(p, m)
           n == p.objs - p.afindx
           d == [i \in 1 .. (n + 1) |-> IF i = 1 THEN m ELSE c[i - 1]]
           pt == pg \ {PageOf(p, m)}
<1>1. /\ t.start = p.start /\ t.end = p.end /\ t.size = p.size /\ t.objs = p.objs
      /\ t.afindx = p.afindx - 1 /\ t.next_map = m
      /\ t.next = [p.next EXCEPT ![m] = p.next_map]
      BY GiveFields
<1>2. /\ p \in PoolHead /\ p.objs \in Nat /\ p.afindx \in Nat
      /\ p.next \in [1 .. p.objs -> 0 .. p.objs]
      BY HeadFields DEF Shaped
<1>3. n \in Nat /\ DOMAIN c = 1 .. n
      BY ChainFacts
<1>4. /\ \A i \in 1 .. n : c[i] \in 1 .. p.objs
      /\ \A i, j \in 1 .. n : c[i] = c[j] => i = j
      /\ p.next_map = IF n = 0 THEN 0 ELSE c[1]
      /\ \A i \in 1 .. n : p.next[c[i]] = IF i = n THEN 0 ELSE c[i + 1]
      /\ \A x \in 1 .. p.objs : (\A i \in 1 .. n : c[i] # x) => p.next[x] = 0
      BY ChainFacts
<1>5. \A x \in 1 .. p.objs : PageOf(p, x) \in pg <=> \A k \in 1 .. n : c[k] # x
      BY <1>3 DEF Accounted
<1>6. \A k \in 1 .. n : c[k] # m
      BY <1>5
<1>7. n + 1 \in Nat /\ t.objs - t.afindx = n + 1
  <2> DEFINE a == p.objs
             b == p.afindx
  <2>1. t.objs = a /\ t.afindx = b - 1 /\ a \in Nat /\ b \in Nat
        BY <1>1, <1>2
  <2> HIDE DEF a, b, t
  <2>2. t.objs - t.afindx = (a - b) + 1
        BY <2>1
  <2> QED BY <2>2, <1>3 DEF a, b
<1>8. \A x : PageOf(t, x) = PageOf(p, x)
      BY <1>1, SameObjects
<1>9. \A x \in 1 .. p.objs : x # m => PageOf(p, x) # PageOf(p, m)
      BY <1>2, PagesApart
<1> HIDE DEF t, n, d
<1>10. /\ d[1] = m
       /\ \A i \in 2 .. (n + 1) : i - 1 \in 1 .. n /\ d[i] = c[i - 1]
       /\ \A i \in 1 .. n : i + 1 \in 2 .. (n + 1) /\ d[i + 1] = c[i]
  <2>1. 1 \in 1 .. (n + 1)
        BY <1>3
  <2>2. ASSUME NEW i \in 2 .. (n + 1) PROVE i - 1 \in 1 .. n /\ d[i] = c[i - 1]
        BY <1>3 DEF d
  <2>3. ASSUME NEW i \in 1 .. n PROVE i + 1 \in 2 .. (n + 1) /\ d[i + 1] = c[i]
    <3>1. i + 1 \in 2 .. (n + 1) /\ (i + 1) - 1 = i
          BY <1>3
    <3> QED BY <3>1, <2>2
  <2> QED BY <2>1, <2>2, <2>3 DEF d
<1>11. \A i, j \in 1 .. (n + 1) : d[i] = d[j] => i = j
  <2> SUFFICES ASSUME NEW i \in 1 .. (n + 1), NEW j \in 1 .. (n + 1), d[i] = d[j]
               PROVE  i = j
      OBVIOUS
  <2>1. \A k \in 1 .. (n + 1) : k = 1 \/ k \in 2 .. (n + 1)
        BY <1>3
  <2>2. CASE i = 1 \/ j = 1
        BY <2>1, <2>2, <1>6, <1>10
  <2>3. CASE i \in 2 .. (n + 1) /\ j \in 2 .. (n + 1)
    <3>1. i - 1 = j - 1
          BY <2>3, <1>4, <1>10
    <3> QED BY <3>1, <1>3
  <2> QED BY <2>1, <2>2, <2>3
<1>12. d \in [1 .. (n + 1) -> 1 .. t.objs]
      BY <1>1, <1>3, <1>4, <1>10 DEF d
<1>13. t.next_map = IF n + 1 = 0 THEN 0 ELSE d[1]
      BY <1>1, <1>3, <1>10
<1>14. ASSUME NEW i \in 1 .. (n + 1)
       PROVE  t.next[d[i]] = IF i = n + 1 THEN 0 ELSE d[i + 1]
  <2>1. CASE i = 1
    <3>1. t.next[m] = p.next_map
          BY <1>1, <1>2
    <3>2. CASE n = 0
          BY <2>1, <3>1, <3>2, <1>4, <1>10
    <3>3. CASE n # 0
      <4>1. 1 \in 1 .. n
            BY <3>3, <1>3
      <4>2. d[1 + 1] = c[1]
            BY <4>1, <1>10
      <4> QED BY <2>1, <3>1, <3>3, <4>2, <1>3, <1>4, <1>10
    <3> QED BY <3>2, <3>3
  <2>2. CASE i \in 2 .. (n + 1)
    <3>1. i - 1 \in 1 .. n /\ d[i] = c[i - 1] /\ d[i] # m /\ d[i] \in 1 .. p.objs
          BY <2>2, <1>4, <1>6, <1>10
    <3>2. t.next[d[i]] = p.next[c[i - 1]]
          BY <3>1, <1>1, <1>2
    <3>3. p.next[c[i - 1]] = IF i - 1 = n THEN 0 ELSE c[(i - 1) + 1]
          BY <3>1, <1>4
    <3>4. CASE i = n + 1
          BY <3>2, <3>3, <3>4, <1>3
    <3>5. CASE i # n + 1
      <4>1. i \in 1 .. n /\ i - 1 # n /\ (i - 1) + 1 = i
            BY <3>5, <1>3
      <4> QED BY <3>2, <3>3, <3>5, <4>1, <1>10
    <3> QED BY <3>4, <3>5
  <2>3. i = 1 \/ i \in 2 .. (n + 1)
        BY <1>3
  <2> QED BY <2>1, <2>2, <2>3
<1>15. ASSUME NEW x \in 1 .. p.objs
       PROVE  (\A i \in 1 .. (n + 1) : d[i] # x) <=> (x # m /\ \A i \in 1 .. n : c[i] # x)
  <2>1. \A k \in 1 .. (n + 1) : k = 1 \/ k \in 2 .. (n + 1)
        BY <1>3
  <2>2. 1 \in 1 .. (n + 1) /\ \A k \in 2 .. (n + 1) : k \in 1 .. (n + 1)
        BY <1>3
  <2> QED BY <2>1, <2>2, <1>10
<1>16. ASSUME NEW x \in 1 .. t.objs, \A i \in 1 .. (n + 1) : d[i] # x
       PROVE  t.next[x] = 0
  <2>1. x # m /\ \A i \in 1 .. n : c[i] # x
        BY <1>1, <1>15, <1>16
  <2> QED BY <2>1, <1>1, <1>2, <1>4
<1>17. ASSUME NEW x \in 1 .. t.objs
       PROVE  PageOf(t, x) \in pt <=> \A k \in 1 .. (n + 1) : d[k] # x
  <2>1. PageOf(t, x) \in pt <=> PageOf(p, x) \in pg /\ x # m
        BY <1>1, <1>8, <1>9
  <2> QED BY <2>1, <1>1, <1>5, <1>15
<1>18. Accounted(t, d, pt)
  <2> DEFINE k == n + 1
  <2>1. k \in Nat /\ t.objs - t.afindx = k
        BY <1>7
  <2> HIDE DEF pt
  <2> QED BY <2>1, <1>11, <1>12, <1>13, <1>14, <1>16, <1>17, ChainIntro
<1> QED BY <1>18 DEF t

\* What is out elsewhere does not matter to a pool.
LEMMA OthersDoNotCount ==
    ASSUME NEW p, NEW c, NEW pg, NEW pt, Accounted(p, c, pg),
           \A m \in 1 .. p.objs : PageOf(p, m) \in pg <=> PageOf(p, m) \in pt
    PROVE  Accounted(p, c, pt)
  BY DEF Accounted

\* A pool has a page out exactly if its count is not 0.
LEMMA CountIsRight ==
    ASSUME NEW p, p.objs \in Nat, p.afindx \in 0 .. p.objs, NEW c, NEW pg,
           Accounted(p, c, pg)
    PROVE  p.afindx = 0 <=> \A m \in 1 .. p.objs : PageOf(p, m) \notin pg
<1> DEFINE n == p.objs - p.afindx
           S == 1 .. n
           T == 1 .. p.objs
<1>1. n \in Nat /\ c \in [S -> T] /\ \A i, j \in S : c[i] = c[j] => i = j
  <2>1. n \in Nat
        OBVIOUS
  <2>2. c \in [S -> T]
        BY DEF Accounted
  <2>3. IsChain(p, c)
        BY DEF Accounted
  <2>4. \A i, j \in S : c[i] = c[j] => i = j
        BY <2>3 DEF IsChain
  <2> QED BY <2>1, <2>2, <2>4
<1>2. c \in Injection(S, T)
  <2>1. DOMAIN c = S /\ c \in [S -> T]
        BY <1>1
  <2>2. \A i, j \in DOMAIN c : c[i] = c[j] => i = j
        BY <1>1, <2>1
  <2> HIDE DEF S, T
  <2>3. IsInjective(c)
        BY <2>2 DEF IsInjective
  <2> QED BY <2>1, <2>3, Zenon DEF Injection
<1>3. IsFiniteSet(T) /\ Cardinality(T) = p.objs /\ Cardinality(S) = n
  <2>1. \A k \in Nat : IsFiniteSet(1 .. k) /\ Cardinality(1 .. k) = k
    <3> TAKE k \in Nat
    <3>1. /\ IsFiniteSet(1 .. k)
          /\ Cardinality(1 .. k) = IF 1 > k THEN 0 ELSE k - 1 + 1
      <4>1. 1 \in Int /\ k \in Int
            OBVIOUS
      <4> QED BY <4>1, FS_Interval, Zenon
    <3> QED BY <3>1
  <2> QED BY <1>1, <2>1
<1>4. Cardinality(S) = Cardinality(T) <=> c \in Surjection(S, T)
      BY <1>2, <1>3, FS_Injection
<1> HIDE DEF S, T
<1>5. c \in Surjection(S, T) <=> \A m \in T : \E k \in S : c[k] = m
      BY <1>1, Zenon DEF Surjection
<1>6. (\A m \in T : \E k \in S : c[k] = m) <=> \A m \in T : PageOf(p, m) \notin pg
      BY <1>1 DEF Accounted, S, T
<1>7. n = p.objs <=> p.afindx = 0
      OBVIOUS
<1>8. p.afindx = 0 <=> \A m \in T : PageOf(p, m) \notin pg
      BY <1>3, <1>4, <1>5, <1>6, <1>7
<1> QED BY <1>8 DEF T

\* page_mpool_init puts every object on the chain of a pool that fills its block.
LEMMA NewPoolFields ==
    ASSUME NEW a \in Nat, a # 0, NEW z \in Nat, z >= 2 * Page, NEW size \in Nat, size > 0
    PROVE  LET p == NewPool([adr |-> a, size |-> z], size)
           IN  /\ Shaped(p) /\ p.start = a /\ p.size = size /\ p.afindx = 0
               /\ BlockOf(p) = [adr |-> a, size |-> z]
               /\ p.objs <= z /\ (p.objs # 0 => HasPage(p))
               /\ \A pg : (\A m \in 1 .. p.objs : PageOf(p, m) \notin pg)
                            => \E c : Accounted(p, c, pg)
<1> DEFINE p == NewPool([adr |-> a, size |-> z], size)
           n == (z - Page) \div size
<1>1. Page \in Nat /\ Page > 0
      BY PageIsNat
<1>2. n \in Nat /\ n * size <= z - Page /\ n <= z
  <2>1. z - Page \in Nat
        BY <1>1
  <2>2. \A x, y \in Nat : y > 0 => x \div y \in Nat /\ (x \div y) * y <= x /\ x \div y <= x
    <3> TAKE x, y \in Nat
    <3>1. y > 0 => x \div y \in Nat /\ (x \div y) * y <= x
          OBVIOUS
    <3>2. \A u \in Nat : y > 0 => u <= u * y
          OBVIOUS
    <3>3. \A u \in Nat : u * y \in Nat
          OBVIOUS
    <3> QED BY <3>1, <3>2, <3>3
  <2>3. n \in Nat /\ n * size <= z - Page /\ n <= z - Page
        BY <2>1, <2>2
  <2> QED BY <2>3, <1>1
<1> DEFINE f == [m \in 1 .. n |-> IF m < n THEN m + 1 ELSE NULL]
           h == IF n > 0 THEN 1 ELSE NULL
<1>3. p = [start |-> a, end |-> a + z - 1, size |-> size, objs |-> n,
           afindx |-> 0, next_map |-> h, next |-> f]
      BY DEF NewPool
<1> HIDE DEF p, n
<1>4. h \in 0 .. n /\ f \in [1 .. n -> 0 .. n]
      BY <1>2 DEF NULL
<1>5. /\ p.start = a /\ p.end = a + z - 1 /\ p.size = size /\ p.objs = n
      /\ p.afindx = 0 /\ p.next_map = h /\ p.next = f
      BY <1>3
<1>6. a + z - 1 \in Nat /\ (a + z - 1) - a + 1 = z
      BY <1>1
<1>7. p \in PoolHead
  <2>1. f \in Seq(Nat)
        BY <1>2, <1>4, LinksAreSeq
  <2>2. h \in Nat
        BY <1>4
  <2> HIDE DEF f, h
  <2> QED BY <1>2, <1>3, <1>6, <2>1, <2>2 DEF PoolHead, NULL
<1>8. BlockOf(p) = [adr |-> a, size |-> z]
      BY <1>5, <1>6 DEF BlockOf
<1>9. Shaped(p)
  <2>1. Page + p.objs * p.size <= BlockOf(p).size
    <3> DEFINE all == n * size
    <3>1. all \in Nat /\ all <= z - Page
          BY <1>2
    <3> HIDE DEF all
    <3>2. Page + all <= z
          BY <3>1, <1>1
    <3> QED BY <3>2, <1>5, <1>8 DEF all
  <2>2. p.afindx \in 0 .. p.objs
        BY <1>2, <1>5
  <2> HIDE DEF f, h
  <2> QED BY <1>4, <1>5, <1>7, <2>1, <2>2 DEF Shaped
<1>10. p.objs # 0 => HasPage(p)
      BY <1>2, <1>5 DEF HasPage, NULL
<1>11. ASSUME NEW pg, \A m \in 1 .. p.objs : PageOf(p, m) \notin pg
       PROVE  \E c : Accounted(p, c, pg)
  <2> DEFINE c == [i \in 1 .. n |-> i]
  <2>1. /\ p.objs - p.afindx = n
        /\ c \in [1 .. n -> 1 .. p.objs]
        /\ \A i \in 1 .. n : c[i] = i
        BY <1>2, <1>5
  <2> HIDE DEF c
  <2>2. p.next_map = IF n = 0 THEN 0 ELSE c[1]
    <3>1. n # 0 => 1 \in 1 .. n
          BY <1>2
    <3> QED BY <3>1, <2>1, <1>2, <1>5 DEF NULL
  <2>3. ASSUME NEW i \in 1 .. n PROVE p.next[c[i]] = IF i = n THEN 0 ELSE c[i + 1]
    <3>1. i # n => i + 1 \in 1 .. n /\ i < n
          BY <1>2
    <3> QED BY <3>1, <2>1, <1>2, <1>5 DEF NULL
  <2>4. \A m \in 1 .. p.objs : ~ \A i \in 1 .. n : c[i] # m
        BY <2>1, <1>5
  <2>5. \A i, j \in 1 .. n : c[i] = c[j] => i = j
        BY <2>1
  <2>6. Accounted(p, c, pg)
        BY <2>1, <2>2, <2>3, <2>4, <2>5, <1>2, <1>11, ChainIntro
  <2> QED BY <2>6
<1> QED BY <1>2, <1>5, <1>8, <1>9, <1>10, <1>11 DEF p

-----------------------------------------------------------------------------
(* The list of pools, as a value                                           *)

\* The pools of list w live in blocks of hd, and the pages in pg are out of them.
PoolsGood(w, pg, hd) ==
    /\ w \in Seq(PoolHead)
    /\ \A i \in DOMAIN w :
          /\ Shaped(w[i])
          /\ w[i].afindx = 0 => w[i].objs = 0
          /\ BlockOf(w[i]) \in hd
          /\ \E c : Accounted(w[i], c, pg)
    /\ \A i, j \in DOMAIN w : w[i].start = w[j].start => i = j
    /\ \A g \in pg : \E i \in DOMAIN w : \E m \in 1 .. w[i].objs : g = PageOf(w[i], m)

\* The blocks of hd share no byte.
Spread(hd) == \A g, h \in hd : g # h => Disjoint(g, h)

\* A pool's block holds at least its first page.
LEMMA BlockIsWide ==
    ASSUME NEW p, Shaped(p)
    PROVE  /\ BlockOf(p).adr = p.start /\ p.start \in Nat
           /\ BlockOf(p).size = p.end - p.start + 1
           /\ BlockOf(p).size \in Nat /\ BlockOf(p).size > 0
<1>1. /\ p.start \in Nat /\ p.end \in Nat /\ p.objs \in Nat /\ p.size \in Nat
      /\ Page \in Nat /\ Page > 0
      BY HeadFields, PageIsNat DEF Shaped
<1>2. BlockOf(p).adr = p.start /\ BlockOf(p).size = p.end - p.start + 1
      BY DEF BlockOf
<1>3. Page + p.objs * p.size <= p.end - p.start + 1
      BY <1>2 DEF Shaped
<1>4. p.objs * p.size \in Nat
      BY <1>1
<1>5. p.end - p.start + 1 \in Nat /\ p.end - p.start + 1 > 0
  <2> DEFINE all == p.objs * p.size
             z == p.end - p.start + 1
  <2>1. Page + all <= z /\ all \in Nat /\ z \in Int
        BY <1>1, <1>3, <1>4
  <2> HIDE DEF all, z
  <2>2. z \in Nat /\ z > 0
        BY <1>1, <2>1
  <2> QED BY <2>2 DEF z
<1> QED BY <1>1, <1>2, <1>5

\* Objects of pools in two blocks share no byte.
LEMMA PagesOfTwoPools ==
    ASSUME NEW p, NEW r, Shaped(p), Shaped(r), Disjoint(BlockOf(p), BlockOf(r)),
           NEW m \in 1 .. p.objs, NEW k \in 1 .. r.objs
    PROVE  /\ Disjoint(PageOf(p, m), PageOf(r, k))
           /\ PageOf(p, m) # PageOf(r, k)
<1>1. /\ p.start \in Nat /\ p.end \in Nat /\ p.size \in Nat /\ p.size > 0
      /\ r.start \in Nat /\ r.end \in Nat /\ r.size \in Nat /\ r.size > 0
      /\ Page \in Nat
      BY HeadFields, PageIsNat DEF Shaped
<1>2. /\ PageOf(p, m).adr \in Nat /\ PageOf(p, m).size = p.size
      /\ p.start + Page <= PageOf(p, m).adr /\ PageOf(p, m).adr + p.size <= p.end + 1
      BY PageInBlock DEF Shaped
<1>3. /\ PageOf(r, k).adr \in Nat /\ PageOf(r, k).size = r.size
      /\ r.start + Page <= PageOf(r, k).adr /\ PageOf(r, k).adr + r.size <= r.end + 1
      BY PageInBlock DEF Shaped
<1>4. p.end + 1 <= r.start \/ r.end + 1 <= p.start
      BY <1>1 DEF Disjoint, BlockOf
<1>5. \/ PageOf(p, m).adr + PageOf(p, m).size <= PageOf(r, k).adr
      \/ PageOf(r, k).adr + PageOf(r, k).size <= PageOf(p, m).adr
      BY <1>1, <1>2, <1>3, <1>4
<1>6. PageOf(p, m).adr # PageOf(r, k).adr
      BY <1>1, <1>2, <1>3, <1>5
<1> QED BY <1>5, <1>6 DEF Disjoint

\* The pools of a list live apart.
LEMMA BlocksOfPools ==
    ASSUME NEW w, NEW pg, NEW hd, PoolsGood(w, pg, hd), Spread(hd),
           NEW i \in DOMAIN w, NEW j \in DOMAIN w, i # j
    PROVE  /\ BlockOf(w[i]) # BlockOf(w[j])
           /\ Disjoint(BlockOf(w[i]), BlockOf(w[j]))
<1>1. w[i].start # w[j].start /\ BlockOf(w[i]) \in hd /\ BlockOf(w[j]) \in hd
      BY DEF PoolsGood
<1>2. BlockOf(w[i]).adr = w[i].start /\ BlockOf(w[j]).adr = w[j].start
      BY DEF BlockOf
<1>3. BlockOf(w[i]) # BlockOf(w[j])
      BY <1>1, <1>2
<1> QED BY <1>1, <1>3 DEF Spread

\* A page belongs to one pool of the list, and to one of its objects.
LEMMA OwnerIsUnique ==
    ASSUME NEW w, NEW pg, NEW hd, PoolsGood(w, pg, hd), Spread(hd),
           NEW i \in DOMAIN w, NEW j \in DOMAIN w,
           NEW m \in 1 .. w[i].objs, NEW k \in 1 .. w[j].objs,
           PageOf(w[i], m) = PageOf(w[j], k)
    PROVE  i = j /\ m = k
<1>1. Shaped(w[i]) /\ Shaped(w[j])
      BY DEF PoolsGood
<1>2. i = j
      BY <1>1, BlocksOfPools, PagesOfTwoPools
<1>3. w[i] \in PoolHead
      BY <1>1 DEF Shaped
<1> QED BY <1>2, <1>3, PagesApart

\* A call changes one pool that keeps a page out, and one page of that pool.
LEMMA GoodReplace ==
    ASSUME NEW w, NEW pg, NEW hd, PoolsGood(w, pg, hd), Spread(hd), NEW i \in DOMAIN w,
           NEW t, Shaped(t), t.afindx # 0, t.start = w[i].start, t.end = w[i].end,
           t.size = w[i].size, t.objs = w[i].objs,
           NEW m \in 1 .. w[i].objs, NEW pt,
           pt = pg \cup {PageOf(w[i], m)} \/ pt = pg \ {PageOf(w[i], m)},
           \E c : Accounted(t, c, pt)
    PROVE  PoolsGood([w EXCEPT ![i] = t], pt, hd)
<1> DEFINE v == [w EXCEPT ![i] = t]
<1>1. w \in Seq(PoolHead) /\ i \in 1 .. Len(w) /\ t \in PoolHead
      BY LenProperties DEF PoolsGood, Shaped
<1>2. v \in Seq(PoolHead)
      BY <1>1, ExceptSeq
<1>3. DOMAIN v = DOMAIN w /\ v[i] = t /\ \A j \in DOMAIN w : j # i => v[j] = w[j]
      BY <1>1, LenProperties
<1> HIDE DEF v
<1>4. BlockOf(t) = BlockOf(w[i]) /\ \A k : PageOf(t, k) = PageOf(w[i], k)
      BY SameObjects
<1>5. ASSUME NEW j \in DOMAIN v
      PROVE  /\ Shaped(v[j])
             /\ v[j].afindx = 0 => v[j].objs = 0
             /\ BlockOf(v[j]) \in hd
             /\ \E c : Accounted(v[j], c, pt)
  <2>1. CASE j = i
        BY <2>1, <1>3, <1>4 DEF PoolsGood
  <2>2. CASE j # i
    <3>1. /\ Shaped(w[j]) /\ (w[j].afindx = 0 => w[j].objs = 0)
          /\ BlockOf(w[j]) \in hd
          BY <1>3 DEF PoolsGood
    <3>2. PICK c : Accounted(w[j], c, pg)
          BY <1>3 DEF PoolsGood
    <3>3. \A k \in 1 .. w[j].objs : PageOf(w[j], k) # PageOf(w[i], m)
          BY <2>2, <1>3, OwnerIsUnique
    <3>4. \A k \in 1 .. w[j].objs : PageOf(w[j], k) \in pg <=> PageOf(w[j], k) \in pt
          BY <3>3
    <3>5. Accounted(w[j], c, pt)
          BY <3>2, <3>4, OthersDoNotCount
    <3> QED BY <2>2, <3>1, <3>5, <1>3
  <2> QED BY <2>1, <2>2
<1>6. \A j \in DOMAIN v : v[j].start = w[j].start
      BY <1>3
<1>7. \A j, k \in DOMAIN v : v[j].start = v[k].start => j = k
      BY <1>3, <1>6 DEF PoolsGood
<1>8. ASSUME NEW g \in pt
      PROVE  \E j \in DOMAIN v : \E k \in 1 .. v[j].objs : g = PageOf(v[j], k)
  <2>1. PICK j \in DOMAIN w : \E k \in 1 .. w[j].objs : g = PageOf(w[j], k)
        BY <1>8 DEF PoolsGood
  <2>2. v[j].objs = w[j].objs /\ \A k : PageOf(v[j], k) = PageOf(w[j], k)
        BY <1>3, <1>4
  <2> QED BY <2>1, <2>2, <1>3
<1> QED BY <1>2, <1>5, <1>7, <1>8 DEF PoolsGood, v

\* A pool none of whose objects is out is taken off the list with its block.
LEMMA GoodRemove ==
    ASSUME NEW w, NEW pg, NEW hd, PoolsGood(w, pg, hd), Spread(hd), NEW i \in DOMAIN w,
           NEW m \in 1 .. w[i].objs, NEW pt, pt = pg \ {PageOf(w[i], m)},
           \A k \in 1 .. w[i].objs : PageOf(w[i], k) \notin pt
    PROVE  PoolsGood(RemoveAt(w, i), pt, hd \ {BlockOf(w[i])})
<1> DEFINE v == RemoveAt(w, i)
           At(j) == IF j < i THEN j ELSE j + 1
<1>1. w \in Seq(PoolHead) /\ Len(w) \in Nat /\ DOMAIN w = 1 .. Len(w) /\ i \in 1 .. Len(w)
      BY LenProperties DEF PoolsGood
<1>2. /\ v \in Seq(PoolHead) /\ Len(v) = Len(w) - 1
      /\ \A j \in 1 .. (Len(w) - 1) : v[j] = w[At(j)]
  <2>1. /\ RemoveAt(w, i) \in Seq(PoolHead)
        /\ Len(RemoveAt(w, i)) = Len(w) - 1
        /\ \A j \in 1 .. (Len(w) - 1) :
             RemoveAt(w, i)[j] = w[IF j < i THEN j ELSE j + 1]
    <3> HIDE DEF v, At
    <3>1. w \in Seq(PoolHead) /\ i \in DOMAIN w
          BY <1>1
    <3> QED BY <3>1, RemoveAtEntries
  <2> QED BY <2>1, Zenon
<1>3. DOMAIN v = 1 .. (Len(w) - 1)
      BY <1>2, LenProperties
<1>4. \A j \in DOMAIN v : At(j) \in DOMAIN w /\ At(j) # i /\ v[j] = w[At(j)]
      BY <1>1, <1>2, <1>3
<1>5. \A j, k \in DOMAIN v : At(j) = At(k) => j = k
      BY <1>1, <1>3
<1>6. \A l \in DOMAIN w : l # i => \E j \in DOMAIN v : At(j) = l
  <2> TAKE l \in DOMAIN w
  <2> DEFINE j == IF l < i THEN l ELSE l - 1
  <2>1. l # i => j \in DOMAIN v /\ At(j) = l
        BY <1>1, <1>3
  <2> QED BY <2>1
<1> HIDE DEF v, At
<1>7. ASSUME NEW j \in DOMAIN v
      PROVE  /\ Shaped(v[j])
             /\ v[j].afindx = 0 => v[j].objs = 0
             /\ BlockOf(v[j]) \in hd \ {BlockOf(w[i])}
             /\ \E c : Accounted(v[j], c, pt)
  <2> DEFINE l == At(j)
  <2>1. l \in DOMAIN w /\ l # i /\ v[j] = w[l]
        BY <1>4
  <2> HIDE DEF l
  <2>2. /\ Shaped(w[l]) /\ (w[l].afindx = 0 => w[l].objs = 0)
        /\ BlockOf(w[l]) \in hd
        BY <2>1 DEF PoolsGood
  <2>3. PICK c : Accounted(w[l], c, pg)
        BY <2>1 DEF PoolsGood
  <2>4. \A k \in 1 .. w[l].objs : PageOf(w[l], k) # PageOf(w[i], m)
        BY <2>1, OwnerIsUnique
  <2>5. Accounted(w[l], c, pt)
        BY <2>3, <2>4, OthersDoNotCount
  <2>6. BlockOf(w[l]) # BlockOf(w[i])
        BY <2>1, BlocksOfPools
  <2> QED BY <2>1, <2>2, <2>5, <2>6
<1>8. \A j, k \in DOMAIN v : v[j].start = v[k].start => j = k
  <2> TAKE j, k \in DOMAIN v
  <2>1. v[j].start = v[k].start => At(j) = At(k)
        BY <1>4 DEF PoolsGood
  <2> QED BY <2>1, <1>5
<1>9. ASSUME NEW g \in pt
      PROVE  \E j \in DOMAIN v : \E k \in 1 .. v[j].objs : g = PageOf(v[j], k)
  <2>1. PICK l \in DOMAIN w : \E k \in 1 .. w[l].objs : g = PageOf(w[l], k)
        BY <1>9 DEF PoolsGood
  <2>2. l # i
        BY <2>1, <1>9
  <2>3. PICK j \in DOMAIN v : At(j) = l
        BY <2>2, <1>6
  <2>4. v[j] = w[l]
        BY <2>3, <1>4
  <2> QED BY <2>1, <2>4
<1>10. v \in Seq(PoolHead)
      BY <1>2
<1>11. PoolsGood(v, pt, hd \ {BlockOf(w[i])})
      BY <1>7, <1>8, <1>9, <1>10, Zenon DEF PoolsGood
<1> QED BY <1>11 DEF v

\* A new pool goes to the end of the list, in a block of its own.
LEMMA GoodAppend ==
    ASSUME NEW w, NEW pg, NEW hd, PoolsGood(w, pg, hd), NEW t, Shaped(t),
           t.afindx = 0 => t.objs = 0,
           NEW ht, ht = hd \cup {BlockOf(t)}, Spread(ht), BlockOf(t) \notin hd,
           NEW pt, pt = pg \/ \E m \in 1 .. t.objs : pt = pg \cup {PageOf(t, m)},
           \E c : Accounted(t, c, pt)
    PROVE  PoolsGood(Append(w, t), pt, ht)
<1> DEFINE v == Append(w, t)
           n == Len(w) + 1
<1>1. w \in Seq(PoolHead) /\ Len(w) \in Nat /\ DOMAIN w = 1 .. Len(w) /\ t \in PoolHead
      BY LenProperties DEF PoolsGood, Shaped
<1>2. /\ v \in Seq(PoolHead) /\ Len(v) = n
      /\ \A j \in 1 .. Len(w) : v[j] = w[j]
      /\ v[n] = t
      BY <1>1, AppendProperties
<1>3. DOMAIN v = 1 .. n
      BY <1>2, LenProperties
<1>4. /\ n \in DOMAIN v
      /\ \A j \in DOMAIN v : j = n \/ (j \in DOMAIN w /\ j # n)
      /\ \A j \in DOMAIN w : j \in DOMAIN v /\ v[j] = w[j]
  <2> DEFINE len == Len(w)
  <2>1. len \in Nat /\ DOMAIN w = 1 .. len /\ n = len + 1 /\ DOMAIN v = 1 .. n
        /\ \A j \in 1 .. len : v[j] = w[j]
        BY <1>1, <1>2, <1>3
  <2> HIDE DEF v, n, len
  <2> QED BY <2>1
<1> HIDE DEF v, n
<1>5. ASSUME NEW j \in DOMAIN w
      PROVE  Shaped(w[j]) /\ BlockOf(w[j]) \in hd /\ Disjoint(BlockOf(w[j]), BlockOf(t))
  <2>1. Shaped(w[j]) /\ BlockOf(w[j]) \in hd
        BY DEF PoolsGood
  <2> QED BY <2>1 DEF Spread
<1>6. ASSUME NEW j \in DOMAIN v
      PROVE  /\ Shaped(v[j])
             /\ v[j].afindx = 0 => v[j].objs = 0
             /\ BlockOf(v[j]) \in ht
             /\ \E c : Accounted(v[j], c, pt)
  <2>1. CASE j = n
        BY <2>1, <1>2
  <2>2. CASE j \in DOMAIN w
    <3>1. /\ Shaped(w[j]) /\ (w[j].afindx = 0 => w[j].objs = 0)
          /\ BlockOf(w[j]) \in hd
          BY <2>2 DEF PoolsGood
    <3>2. PICK c : Accounted(w[j], c, pg)
          BY <2>2 DEF PoolsGood
    <3>3. \A k \in 1 .. w[j].objs, m \in 1 .. t.objs : PageOf(w[j], k) # PageOf(t, m)
          BY <2>2, <1>5, PagesOfTwoPools
    <3>4. \A k \in 1 .. w[j].objs : PageOf(w[j], k) \in pg <=> PageOf(w[j], k) \in pt
          BY <3>3
    <3>5. Accounted(w[j], c, pt)
          BY <3>2, <3>4, OthersDoNotCount
    <3> QED BY <2>2, <3>1, <3>5, <1>4
  <2> QED BY <2>1, <2>2, <1>4
<1>7. ASSUME NEW j \in DOMAIN w PROVE w[j].start # t.start
  <2>1. /\ BlockOf(w[j]).adr = w[j].start /\ w[j].start \in Nat
        /\ BlockOf(w[j]).size \in Nat /\ BlockOf(w[j]).size > 0
        BY <1>5, BlockIsWide
  <2>2. /\ BlockOf(t).adr = t.start /\ t.start \in Nat
        /\ BlockOf(t).size \in Nat /\ BlockOf(t).size > 0
        BY BlockIsWide
  <2>3. \/ w[j].start + BlockOf(w[j]).size <= t.start
        \/ t.start + BlockOf(t).size <= w[j].start
        BY <1>5, <2>1, <2>2 DEF Disjoint
  <2> QED BY <2>1, <2>2, <2>3
<1>8. \A j, k \in DOMAIN v : v[j].start = v[k].start => j = k
  <2> TAKE j, k \in DOMAIN v
  <2>1. CASE j = n /\ k = n
        BY <2>1
  <2>2. CASE j \in DOMAIN w /\ k \in DOMAIN w
        BY <2>2, <1>4 DEF PoolsGood
  <2>3. CASE j = n /\ k \in DOMAIN w
        BY <2>3, <1>2, <1>4, <1>7
  <2>4. CASE j \in DOMAIN w /\ k = n
        BY <2>4, <1>2, <1>4, <1>7
  <2> QED BY <2>1, <2>2, <2>3, <2>4, <1>4
<1>9. ASSUME NEW g \in pt
      PROVE  \E j \in DOMAIN v : \E k \in 1 .. v[j].objs : g = PageOf(v[j], k)
  <2>1. CASE g \in pg
    <3>1. PICK j \in DOMAIN w : \E k \in 1 .. w[j].objs : g = PageOf(w[j], k)
          BY <2>1 DEF PoolsGood
    <3> QED BY <3>1, <1>4
  <2>2. CASE g \notin pg
    <3>1. \E m \in 1 .. t.objs : g = PageOf(t, m)
          BY <2>2, <1>9
    <3> QED BY <3>1, <1>2, <1>4
  <2> QED BY <2>1, <2>2
<1> QED BY <1>2, <1>6, <1>8, <1>9 DEF PoolsGood, v

-----------------------------------------------------------------------------
(* The invariant, in the two forms the proofs use                          *)

\* The counter and the cache agree with list w.
Books(w, ch, n, wd) ==
    /\ ch \in Nat /\ n = Len(w) /\ wd \in BOOLEAN
    /\ ch # NULL => \E i \in DOMAIN w : w[i].start = ch

\* The pages out of good pools are addresses and sizes.
LEMMA PagesAreTyped ==
    ASSUME NEW w, NEW pg, NEW hd, PoolsGood(w, pg, hd)
    PROVE  pg \subseteq [adr : Nat, size : Nat]
<1> SUFFICES ASSUME NEW g \in pg PROVE g \in [adr : Nat, size : Nat]
    OBVIOUS
<1>1. PICK i \in DOMAIN w : \E m \in 1 .. w[i].objs : g = PageOf(w[i], m)
      BY DEF PoolsGood
<1>2. PICK m \in 1 .. w[i].objs : g = PageOf(w[i], m)
      BY <1>1
<1>3. w[i] \in PoolHead /\ Page + w[i].objs * w[i].size <= BlockOf(w[i]).size
      BY DEF PoolsGood, Shaped
<1>4. g.adr \in Nat /\ g.size \in Nat
      BY <1>2, <1>3, PageInBlock, HeadFields
<1>5. g = [adr |-> g.adr, size |-> g.size]
      BY <1>2 DEF PageOf
<1> QED BY <1>4, <1>5

LEMMA InvIff ==
    PoolInv <=> /\ IInv /\ NeverDies
                /\ PoolsGood(pools, pages, held)
                /\ Books(pools, cache, count, wild)
<1>1. ASSUME PoolInv
      PROVE  PoolsGood(pools, pages, held) /\ Books(pools, cache, count, wild)
  <2>1. pools \in Seq(PoolHead)
        BY <1>1 DEF PoolInv, PoolTypeOK
  <2>2. ASSUME NEW i \in DOMAIN pools
        PROVE  /\ Shaped(pools[i])
               /\ pools[i].afindx = 0 => pools[i].objs = 0
               /\ BlockOf(pools[i]) \in held
               /\ \E c : Accounted(pools[i], c, pages)
    <3>1. pools[i] \in PoolHead
          BY <2>1, LenProperties, ElementOfSeq
    <3>2. /\ pools[i].afindx \in 0 .. pools[i].objs
          /\ pools[i].next_map \in 0 .. pools[i].objs
          /\ pools[i].next \in [1 .. pools[i].objs -> 0 .. pools[i].objs]
          BY <1>1 DEF PoolInv, PoolTypeOK
    <3>3. /\ Page + pools[i].objs * pools[i].size <= BlockOf(pools[i]).size
          /\ BlockOf(pools[i]) \in held
          BY <1>1 DEF PoolInv, PoolsSound, PoolBlocks
    <3>4. pools[i].afindx = 0 => pools[i].objs = 0
          BY <1>1 DEF PoolInv, NoneIdle
    <3>5. \E c : Accounted(pools[i], c, pages)
          BY <1>1 DEF PoolInv, ChainsSound, Accounted
    <3> QED BY <3>1, <3>2, <3>3, <3>4, <3>5 DEF Shaped
  <2>3. /\ \A i, j \in DOMAIN pools : pools[i].start = pools[j].start => i = j
        /\ \A g \in pages : \E i \in DOMAIN pools : \E m \in 1 .. pools[i].objs :
              g = PageOf(pools[i], m)
        BY <1>1 DEF PoolInv, PoolsSound
  <2>4. PoolsGood(pools, pages, held)
        BY <2>1, <2>2, <2>3 DEF PoolsGood
  <2>5. Books(pools, cache, count, wild)
        BY <1>1 DEF PoolInv, PoolTypeOK, PoolsSound, CachePos, Books
  <2> QED BY <2>4, <2>5
<1>2. ASSUME IInv, NeverDies, PoolsGood(pools, pages, held), Books(pools, cache, count, wild)
      PROVE  PoolInv
  <2>1. PoolTypeOK
    <3>1. pages \subseteq [adr : Nat, size : Nat]
          BY <1>2, PagesAreTyped
    <3>2. pools \in Seq(PoolHead)
          BY <1>2 DEF PoolsGood
    <3>3. cache \in Nat /\ count \in Nat /\ wild \in BOOLEAN
          BY <1>2, <3>2, LenProperties DEF Books
    <3>4. ASSUME NEW i \in DOMAIN pools
          PROVE  /\ pools[i].afindx \in 0 .. pools[i].objs
                 /\ pools[i].next_map \in 0 .. pools[i].objs
                 /\ pools[i].next \in [1 .. pools[i].objs -> 0 .. pools[i].objs]
          BY <1>2 DEF PoolsGood, Shaped
    <3> QED BY <3>1, <3>2, <3>3, <3>4 DEF PoolTypeOK
  <2>2. ChainsSound
        BY <1>2 DEF PoolsGood, ChainsSound, Accounted
  <2>3. PoolsSound
    <3>1. PoolBlocks \subseteq held
          BY <1>2 DEF PoolsGood, PoolBlocks
    <3>2. count = Len(pools) /\ (cache # NULL => CachePos # {})
          BY <1>2 DEF Books, CachePos
    <3>3. \A i \in DOMAIN pools :
             Page + pools[i].objs * pools[i].size <= BlockOf(pools[i]).size
          BY <1>2 DEF PoolsGood, Shaped
    <3> QED BY <1>2, <3>1, <3>2, <3>3 DEF PoolsSound, PoolsGood
  <2>4. NoneIdle
        BY <1>2 DEF PoolsGood, NoneIdle
  <2> QED BY <1>2, <2>1, <2>2, <2>3, <2>4 DEF PoolInv
<1> QED BY <1>1, <1>2 DEF PoolInv

\* The same after a step.
LEMMA InvIffNext ==
    PoolInv' <=> /\ IInv' /\ NeverDies'
                 /\ PoolsGood(pools', pages', held')
                 /\ Books(pools', cache', count', wild')
<1>1. (PoolInv <=> /\ IInv /\ NeverDies
                   /\ PoolsGood(pools, pages, held)
                   /\ Books(pools, cache, count, wild))'
      BY InvIff, PTL
<1> QED BY <1>1

\* The blocks that are out share no byte.
LEMMA HeldSpread == IInv => Spread(held)
  BY NoOverlapFromInv DEF NoOverlap, Spread

LEMMA HeldSpreadNext == IInv' => Spread(held')
<1>1. (IInv => Spread(held))'
      BY HeldSpread, PTL
<1> QED BY <1>1

-----------------------------------------------------------------------------
(* The blocks the pool gets and gives back                                 *)

\* x is a whole number of pages.
Whole(x) == \E k \in Nat : x = k * Page

LEMMA WholeIsMod == ASSUME NEW x \in Nat PROVE Whole(x) <=> x % Page = 0
<1>1. Page \in Nat /\ Page > 0
      BY PageIsNat
<1> DEFINE m == Page
<1>2. m \in Nat /\ m > 0
      BY <1>1
<1> HIDE DEF m
<1>3. ASSUME x % m = 0 PROVE \E k \in Nat : x = k * m
  <2>1. x = (x \div m) * m + (x % m) /\ x \div m \in Nat
        BY <1>2
  <2>2. x = (x \div m) * m
        BY <2>1, <1>2, <1>3
  <2> QED BY <2>1, <2>2
<1>4. ASSUME NEW k \in Nat, x = k * m PROVE x % m = 0
  <2>1. /\ x = (x \div m) * m + (x % m) /\ x \div m \in Nat
        /\ x % m \in Nat /\ x % m < m
        BY <1>2
  <2> DEFINE j == x \div m
             r == x % m
  <2>2. x = j * m + r /\ j \in Nat /\ r \in Nat /\ r < m
        BY <2>1
  <2> HIDE DEF j, r
  <2>3. \A a, b \in Nat : a + 1 <= b => a * m + m <= b * m
        BY <1>2
  <2>4. ~(k < j) /\ ~(j < k)
    <3>1. k * m \in Nat /\ j * m \in Nat /\ m * j = j * m
          BY <1>2, <2>2
    <3>2. k * m = j * m + r
          BY <1>4, <2>2, <3>1
    <3>3. ~(k + 1 <= j) /\ ~(j + 1 <= k)
          BY <2>2, <2>3, <3>1, <3>2, <1>2
    <3> QED BY <3>3, <2>2
  <2>5. k = j
        BY <2>2, <2>4
  <2>6. r = 0
    <3>1. k * m \in Nat /\ x = k * m + r
          BY <1>2, <2>2, <2>5
    <3> QED BY <3>1, <1>4, <2>2
  <2> QED BY <2>6 DEF r
<1>5. (\E k \in Nat : x = k * m) <=> x % m = 0
      BY <1>3, <1>4
<1> QED BY <1>5 DEF Whole, m

LEMMA WholeSums ==
    ASSUME NEW x \in Nat, NEW y \in Nat, Whole(x), Whole(y)
    PROVE  Whole(x + y)
<1>1. PICK k \in Nat, l \in Nat : x = k * Page /\ y = l * Page
      BY DEF Whole
<1>2. x + y = (k + l) * Page /\ k + l \in Nat
      BY <1>1, PageIsNat
<1> QED BY <1>2 DEF Whole

LEMMA WholeProducts ==
    ASSUME NEW n \in Nat, NEW x \in Nat, Whole(x)
    PROVE  Whole(n * x)
<1>1. PICK k \in Nat : x = k * Page
      BY DEF Whole
<1>2. \A a, b, c \in Nat : a * (b * c) = (a * b) * c /\ a * b \in Nat
      OBVIOUS
<1>3. n * x = (n * k) * Page /\ n * k \in Nat
      BY <1>1, <1>2, PageIsNat
<1> QED BY <1>3 DEF Whole

\* Every block passes the checks of page_mpool_init.
LEMMA BlocksAreGood ==
    ASSUME NEW d \in Desc, NEW s \in Slab, NEW b \in BlockBits(s)
    PROVE  LET h == BlockAt(d, s, b)
           IN  /\ GoodPoolBlock(h) /\ h = [adr |-> h.adr, size |-> h.size]
               /\ h.adr \in Nat /\ h.adr # 0 /\ h.adr >= SpaceStart
               /\ h.size \in Nat /\ h.size >= 2 * Page /\ h.size > 1 /\ h.size <= MapOne
               /\ h.adr + h.size <= SpaceStart + NDesc * MapOne
<1> DEFINE h == BlockAt(d, s, b)
           x == d * MapOne
           y == BlkSize[s] * b
<1>1. /\ SpaceStart \in Nat /\ SpaceStart > 0 /\ MapOne \in Nat /\ d \in Nat /\ b \in Nat
      /\ BlkSize[s] \in Nat /\ BlkSize[s] > 1 /\ Bitl[s] \in Nat /\ Bitl[s] > 0
      /\ Bitl[s] * BlkSize[s] = MapOne /\ NDesc \in Nat /\ d + 1 <= NDesc
      BY Constants DEF Desc, BlockBits
<1>2. x \in Nat /\ y \in Nat /\ b * BlkSize[s] = y
      BY <1>1
<1>3. h = [adr |-> SpaceStart + x + y, size |-> BlkSize[s]]
      BY DEF BlockAt, DescStart
<1>4. Whole(SpaceStart) /\ Whole(BlkSize[s])
      BY <1>1, WholeIsMod, PageGeometryAssumption
<1>5. Whole(x) /\ Whole(y)
  <2>1. Whole(MapOne)
        BY <1>1, <1>4, WholeProducts
  <2> QED BY <2>1, <1>1, <1>2, <1>4, WholeProducts
<1> HIDE DEF x, y, h
<1>6. h.adr = SpaceStart + x + y /\ h.size = BlkSize[s] /\ h = [adr |-> h.adr, size |-> h.size]
      BY <1>3
<1>7. h.adr \in Nat /\ h.adr # 0 /\ h.adr >= SpaceStart
      BY <1>1, <1>2, <1>6
<1>8. h.adr % Page = 0
  <2>1. Whole(SpaceStart + x) /\ SpaceStart + x \in Nat
        BY <1>1, <1>2, <1>4, <1>5, WholeSums
  <2>2. Whole(h.adr)
        BY <2>1, <1>2, <1>5, <1>6, WholeSums
  <2> QED BY <2>2, <1>7, WholeIsMod
<1>9. h.size >= 2 * Page
      BY <1>6, PageGeometryAssumption
<1>10. GoodPoolBlock(h)
  <2>1. h.size - 1 >= 2 * Page - 1
        BY <1>1, <1>6, <1>9, PageIsNat
  <2> QED BY <2>1, <1>8 DEF GoodPoolBlock
<1>11. h.adr + BlkSize[s] <= DescStart(d) + MapOne /\ DescStart(d) = SpaceStart + x
      BY BlockInDesc DEF h, x, DescStart
<1>12. BlkSize[s] <= MapOne
      BY <1>1, <1>2, <1>6, <1>11
<1>13. SpaceStart + x + MapOne <= SpaceStart + NDesc * MapOne
  <2>1. \A k, n, z \in Nat : k + 1 <= n => k * z + z <= n * z
        OBVIOUS
  <2>2. x + MapOne <= NDesc * MapOne /\ NDesc * MapOne \in Nat
        BY <2>1, <1>1 DEF x
  <2> QED BY <2>2, <1>1, <1>2
<1>14. h.adr + h.size <= SpaceStart + NDesc * MapOne
  <2>1. NDesc * MapOne \in Nat
        BY <1>1
  <2> QED BY <2>1, <1>1, <1>2, <1>6, <1>7, <1>11, <1>13
<1> QED BY <1>1, <1>6, <1>7, <1>9, <1>10, <1>12, <1>14 DEF h

\* A block that is out is one of a descriptor's division.
LEMMA HeldIsBlock ==
    ASSUME IInv, NEW h \in held
    PROVE  /\ cpu = "run"
           /\ \E d \in Desc, s \in Slab : \E b \in BlockBits(s) : h = BlockAt(d, s, b)
<1>1. cpu = "run"
      BY DEF IInv, BootUntouched
<1>2. PICK d \in Desc : \E b \in map[d] : h = Used(d, b)
      BY <1>1, LedgerEntry DEF IInv
<1>3. acsz[d] \in Slab /\ map[d] \subseteq BlockBits(acsz[d])
      BY <1>1, DescOnItsSlab DEF IInv
<1> QED BY <1>1, <1>2, <1>3 DEF Used

\* The block of the next alloc_mem_blk.
LEMMA NextBlock ==
    ASSUME IInv, NEW s \in Slab, CanAlloc(s)
    PROVE  \E d \in Desc : \E b \in BlockBits(s) : AllocBlock(s) = BlockAt(d, s, b)
<1>1. TypeOK /\ QueuesSound /\ HasRoom(s) /\ ClearBits(AllocDesc(s), s) # {}
      BY DEF IInv, CanAlloc
<1>2. AllocDesc(s) \in Desc
      BY <1>1, AllocSource
<1>3. FirstClear(AllocDesc(s), s) \in BlockBits(s)
      BY <1>1, FirstClearIsClear
<1> QED BY <1>2, <1>3 DEF AllocBlock

\* free_mem_blk of a block that is out takes back that block and no other.
LEMMA FreeHeldBlock ==
    ASSUME IInv, NEW h \in held
    PROVE  /\ HeldAfterFree(h.adr) = held \ {h}
           /\ h.adr \in Nat /\ ~InBlock(h.adr, Reserved)
           /\ \E s \in Slab : BlkSize[s] = h.size /\ CanFree(s, h.adr)
<1>1. ASSUME NEW g \in held
      PROVE  g.adr \in Nat /\ g.size \in Nat /\ g.size > 1
      BY <1>1, HeldIsBlock, BlocksAreGood
<1>2. NoOverlap /\ ReservedNeverHandedOut /\ HeldCanBeFreed
      BY NoOverlapFromInv, ReservedFromInv, FreeableFromInv
<1>3. InBlock(h.adr, h)
      BY <1>1 DEF InBlock
<1>4. ASSUME NEW g \in held, g # h PROVE ~InBlock(h.adr, g)
  <2>1. Disjoint(g, h)
        BY <1>2, <1>4 DEF NoOverlap
  <2> QED BY <2>1, <1>1 DEF InBlock, Disjoint
<1>5. HeldAfterFree(h.adr) = held \ {h}
      BY <1>3, <1>4 DEF HeldAfterFree
<1>6. ~InBlock(h.adr, Reserved)
  <2>1. Disjoint(h, Reserved)
        BY <1>2 DEF ReservedNeverHandedOut
  <2>2. Reserved.adr \in Nat /\ Reserved.size \in Nat
    <3>1. 0 \in Desc /\ 1 \in Slab /\ 0 \in BlockBits(1)
          BY Constants DEF BlockBits
    <3> QED BY <3>1, BlocksAreGood DEF Reserved
  <2> QED BY <2>1, <2>2, <1>1 DEF InBlock, Disjoint
<1> QED BY <1>1, <1>2, <1>5, <1>6 DEF HeldCanBeFreed

-----------------------------------------------------------------------------
(* The steps                                                               *)

\* Until it runs, and once it has died, the kernel has no pools.
LEMMA NoPoolsBeforeRun ==
    ASSUME PoolInv, cpu # "run"
    PROVE  pools = <<>> /\ pages = {} /\ held = {} /\ cache = NULL
<1>1. PoolsGood(pools, pages, held) /\ Books(pools, cache, count, wild) /\ held = {}
      BY InvIff DEF PoolInv, IInv, BootUntouched
<1>2. DOMAIN pools = {}
      BY <1>1 DEF PoolsGood
<1>3. pools \in Seq(PoolHead)
      BY <1>1 DEF PoolsGood
<1>4. pools = <<>>
      BY <1>2, <1>3, LenProperties, EmptySeq
<1> QED BY <1>1, <1>2, <1>4 DEF PoolsGood, Books

\* What the pools lie on does not change when blocks of others come and go.
LEMMA OtherBlocks ==
    ASSUME NEW w, NEW pg, NEW hd, PoolsGood(w, pg, hd), NEW ht,
           \A i \in DOMAIN w : BlockOf(w[i]) \in ht
    PROVE  PoolsGood(w, pg, ht)
  BY DEF PoolsGood

\* A step that leaves the pool alone.
LEMMA BlkStepInv ==
    ASSUME PoolInv, IInv', NeverDies', UNCHANGED poolVars,
           \A i \in DOMAIN pools : BlockOf(pools[i]) \in held'
    PROVE  PoolInv'
<1>1. PoolsGood(pools, pages, held) /\ Books(pools, cache, count, wild)
      BY InvIff
<1>2. PoolsGood(pools, pages, held')
      BY <1>1, OtherBlocks
<1>3. PoolsGood(pools', pages', held') /\ Books(pools', cache', count', wild')
      BY <1>1, <1>2 DEF poolVars
<1> QED BY <1>3, InvIffNext

\* A running kernel goes on running.
LEMMA StillRuns ==
    ASSUME cpu = "run", cpu' = cpu
    PROVE  NeverDies'
  BY DEF NeverDies

\* pool_head_is_ok holds of the pool the search for a page ends at.
LEMMA FoundForAlloc ==
    ASSUME PoolInv, NEW size, FindForAlloc(size) # 0
    PROVE  FindForAlloc(size) \in DOMAIN pools /\ PoolOk(pools[FindForAlloc(size)], size)
<1> DEFINE ok == {i \in DOMAIN pools : PoolOk(pools[i], size)}
<1>1. PoolsGood(pools, pages, held)
      BY InvIff
<1>2. \A i, j \in CachePos : i = j
      BY <1>1 DEF PoolsGood, CachePos
<1>3. FindForAlloc(size) = IF CachePos \cap ok # {} THEN CHOOSE i \in CachePos : TRUE
                           ELSE IF ok # {} THEN CHOOSE i \in ok : \A j \in ok : i <= j
                           ELSE 0
      BY DEF FindForAlloc
<1>4. ok \in SUBSET Nat
  <2>1. DOMAIN pools = 1 .. Len(pools)
        BY <1>1, LenProperties DEF PoolsGood
  <2> QED BY <2>1
<1>5. FindForAlloc(size) \in ok
  <2> HIDE DEF ok
  <2>1. CASE CachePos \cap ok # {}
    <3>1. (CHOOSE i \in CachePos : TRUE) \in CachePos
          BY <2>1
    <3> QED BY <2>1, <3>1, <1>2, <1>3
  <2>2. CASE CachePos \cap ok = {}
    <3>1. ok # {}
          BY <2>2, <1>3
    <3>2. \E i \in ok : \A j \in ok : i <= j
          BY <3>1, <1>4, LeastNat
    <3>3. (CHOOSE i \in ok : \A j \in ok : i <= j) \in ok
          BY <3>2
    <3> QED BY <2>2, <3>1, <3>3, <1>3
  <2> QED BY <2>1, <2>2
<1> QED BY <1>5

\* deleted_pool_head_isok holds of the pool the search for a page's owner ends at.
LEMMA FoundForFree ==
    ASSUME PoolInv, NEW a, NEW size, FindForFree(a, size) # 0
    PROVE  /\ FindForFree(a, size) \in DOMAIN pools
           /\ DeleteOk(pools[FindForFree(a, size)], a, size)
<1>1. PoolsGood(pools, pages, held)
      BY InvIff
<1>2. \A i, j \in CachePos : i = j
      BY <1>1 DEF PoolsGood, CachePos
<1>3. CachePos \subseteq DOMAIN pools
      BY DEF CachePos
<1>4. CASE \E i \in CachePos : DeleteOk(pools[i], a, size)
  <2>1. PICK i \in CachePos : DeleteOk(pools[i], a, size)
        BY <1>4
  <2>2. (CHOOSE j \in CachePos : TRUE) = i
        BY <2>1, <1>2
  <2>3. FindForFree(a, size) = i
        BY <2>2, <1>4 DEF FindForFree
  <2> QED BY <2>1, <2>3, <1>3
<1>5. CASE ~ \E i \in CachePos : DeleteOk(pools[i], a, size)
  <2>1. FindForFree(a, size) = 1 /\ pools # <<>> /\ DeleteOk(pools[1], a, size)
        BY <1>5 DEF FindForFree
  <2>2. pools \in Seq(PoolHead)
        BY <1>1 DEF PoolsGood
  <2>3. 1 \in DOMAIN pools
        BY <2>1, <2>2, LenProperties, EmptySeq
  <2> QED BY <2>1, <2>3
<1> QED BY <1>4, <1>5

\* A step hands out one page of size bytes.
PageOut(size) == \E g : g \notin pages /\ pages' = pages \cup {g} /\ g.size = size

\* kmem_pool_alloc_page from a pool there is.
LEMMA OldPageStep ==
    ASSUME PoolInv, Running, NEW size, AllocOldPage(size), UNCHANGED kmem
    PROVE  /\ PoolInv'
           /\ PageOut(size) /\ Direct' = Direct
           /\ UNCHANGED vars
<1> DEFINE i == FindForAlloc(size)
           p == pools[i]
           m == p.next_map
<1>1. i # 0 /\ pages' = pages \cup {TakenPage(p, size)}
      /\ pools' = [pools EXCEPT ![i] = Take(@)] /\ cache' = p.start
      /\ UNCHANGED <<count, wild, cpu, blkVars>>
      BY DEF AllocOldPage
<1>2. i \in DOMAIN pools /\ PoolOk(p, size)
      BY <1>1, FoundForAlloc
<1> HIDE DEF i
<1>3. HasPage(p) /\ p.size = size
      BY <1>2 DEF PoolOk
<1>4. IInv /\ PoolsGood(pools, pages, held) /\ Books(pools, cache, count, wild)
      BY InvIff
<1>5. IInv'
  <2>1. UNCHANGED vars
        BY <1>1 DEF blkVars, vars
  <2> QED BY <1>4, <2>1, NextInv
<1>6. Spread(held)
      BY <1>4, HeldSpread
<1>7. Shaped(p)
      BY <1>2, <1>4 DEF PoolsGood
<1>8. PICK c : Accounted(p, c, pages)
      BY <1>2, <1>4 DEF PoolsGood
<1> DEFINE t == Take(p)
<1>9. /\ Shaped(t) /\ m \in 1 .. p.objs
      /\ t.start = p.start /\ t.end = p.end /\ t.size = p.size /\ t.objs = p.objs
      /\ t.afindx = p.afindx + 1
      BY <1>3, <1>7, TakeFields
<1>10. t.afindx # 0
  <2>1. p.afindx \in Nat
        BY <1>7, HeadFields DEF Shaped
  <2> QED BY <2>1, <1>9
<1>11. TakenPage(p, size) = PageOf(p, m)
      BY <1>3 DEF TakenPage, PageOf
<1>12. \E d : Accounted(t, d, pages')
      BY <1>1, <1>3, <1>7, <1>8, <1>11, TakeChain
<1>13. pools' = [pools EXCEPT ![i] = t]
      BY <1>1
<1> HIDE DEF t
<1>14. PoolsGood(pools', pages', held)
  <2> HIDE DEF m
  <2>1. pages' = pages \cup {PageOf(pools[i], m)}
        BY <1>1, <1>11
  <2>2. PoolsGood([pools EXCEPT ![i] = t], pages', held)
        BY <2>1, <1>2, <1>4, <1>6, <1>9, <1>10, <1>12, GoodReplace
  <2> QED BY <2>2, <1>13
<1>15. held' = held
      BY <1>1 DEF blkVars
<1>16. pools \in Seq(PoolHead) /\ pools' \in Seq(PoolHead)
      BY <1>4, <1>14 DEF PoolsGood
<1>17. /\ DOMAIN pools' = DOMAIN pools /\ Len(pools') = Len(pools)
       /\ \A j \in DOMAIN pools : pools'[j].start = pools[j].start
                                  /\ BlockOf(pools'[j]) = BlockOf(pools[j])
  <2>1. /\ DOMAIN pools' = DOMAIN pools /\ pools'[i] = t
        /\ \A j \in DOMAIN pools : j # i => pools'[j] = pools[j]
        BY <1>2, <1>13
  <2>2. Len(pools') = Len(pools)
        BY <2>1, <1>16, LenProperties
  <2>3. BlockOf(t) = BlockOf(p)
        BY <1>9, SameObjects
  <2> QED BY <2>1, <2>2, <2>3, <1>9
<1>18. Books(pools', cache', count', wild')
  <2>1. p.start \in Nat
        BY <1>7, BlockIsWide
  <2> QED BY <2>1, <1>1, <1>2, <1>4, <1>17 DEF Books
<1>19. NeverDies'
      BY <1>1, StillRuns DEF Running
<1>20. PoolInv'
      BY <1>5, <1>14, <1>15, <1>18, <1>19, InvIffNext
<1>21. PageOf(p, m) \notin pages
  <2>1. p.objs - p.afindx \in Nat /\ p.objs - p.afindx # 0 /\ DOMAIN c = 1 .. (p.objs - p.afindx)
        /\ m = c[1]
    <3>1. p.objs \in Nat /\ p.afindx \in Nat /\ p.afindx < p.objs
          BY <1>3, <1>7, HeadFields DEF Shaped, HasPage
    <3>2. p.objs - p.afindx # 0
          BY <3>1
    <3> QED BY <3>2, <1>7, <1>8, ChainFacts
  <2>2. ~ \A k \in DOMAIN c : c[k] # m
    <3>1. 1 \in DOMAIN c
          BY <2>1
    <3> QED BY <2>1, <3>1
  <2> QED BY <2>2, <1>8, <1>9 DEF Accounted
<1>22. Direct' = Direct
  <2>1. PoolBlocks' = PoolBlocks
        BY <1>17 DEF PoolBlocks
  <2> QED BY <2>1, <1>15 DEF Direct
<1>23. PageOut(size)
  <2>1. PageOf(p, m).size = size
        BY <1>3 DEF PageOf
  <2> QED BY <2>1, <1>1, <1>11, <1>21 DEF PageOut
<1>24. UNCHANGED vars
      BY <1>1 DEF blkVars, vars
<1> QED BY <1>20, <1>22, <1>23, <1>24

\* new_page_mpool takes a pool's block from a slab there is.
LEMMA SlabOfPool ==
    ASSUME NEW size \in PageSizes, PoolSlab(size) # 0
    PROVE  PoolSlab(size) \in Slab /\ size \in Nat /\ size > 0
<1> DEFINE nr == size \div Page
           fit == {k \in DOMAIN PoolTable : nr <= PoolTable[k].max}
           k == CHOOSE k \in fit : \A l \in fit : k <= l
<1>1. ~(nr < 1) /\ fit # {} /\ PoolSlab(size) = PoolTable[k].slab
      BY DEF PoolSlab
<1>2. size \in Nat /\ size > 0
  <2>1. size \in Nat
        BY PageAssumption
  <2>2. ASSUME size = 0 PROVE nr < 1
    <3>1. Page \in Nat /\ Page > 0
          BY PageIsNat
    <3>2. 0 \div Page = 0
          BY <3>1
    <3> QED BY <2>2, <3>2
  <2> QED BY <2>1, <2>2, <1>1
<1>3. PoolTable \in Seq([max : Nat, slab : Slab])
      BY PageAssumption
<1>4. DOMAIN PoolTable = 1 .. Len(PoolTable)
      BY <1>3, LenProperties
<1>5. fit \in SUBSET Nat
      BY <1>4
<1>6. \E x \in fit : \A l \in fit : x <= l
  <2> HIDE DEF fit
  <2> QED BY <1>1, <1>5, LeastNat
<1>7. k \in fit
  <2> HIDE DEF fit
  <2> QED BY <1>6
<1>8. PoolTable[k] \in [max : Nat, slab : Slab]
  <2>1. k \in 1 .. Len(PoolTable)
        BY <1>4, <1>7
  <2> HIDE DEF k
  <2> QED BY <2>1, <1>3, ElementOfSeq
<1>9. PoolTable[k].slab \in Slab
  <2> HIDE DEF k
  <2> QED BY <1>8
<1> QED BY <1>1, <1>2, <1>9

\* kmem_pool_alloc_page from a new pool.
LEMMA NewPageStep ==
    ASSUME PoolInv, Running, NEW size \in PageSizes, AllocNewPage(size), UNCHANGED kmem
    PROVE  /\ PoolInv'
           /\ PageOut(size) \/ UNCHANGED pages
           /\ Direct' = Direct
           /\ UNCHANGED <<kmem, cpu>> /\ \E s \in Slab : AllocBlk(s)
<1> DEFINE s == PoolSlab(size)
           b == AllocBlock(s)
           p == NewPool(b, size)
           t == IF HasPage(p) THEN Take(p) ELSE p
<1>1. s # 0 /\ CanAlloc(s) /\ AllocBlk(s) /\ UNCHANGED <<cache, wild>>
      BY DEF AllocNewPage, CanGrow
<1>2. s \in Slab /\ size \in Nat /\ size > 0
      BY <1>1, SlabOfPool
<1> HIDE DEF s
<1>3. IInv /\ PoolsGood(pools, pages, held) /\ Books(pools, cache, count, wild) /\ cpu = "run"
      BY InvIff DEF Running
<1>4. /\ b = [adr |-> b.adr, size |-> b.size] /\ GoodPoolBlock(b)
      /\ b.adr \in Nat /\ b.adr # 0 /\ b.size \in Nat /\ b.size >= 2 * Page
  <2>1. PICK d \in Desc, c \in BlockBits(s) : b = BlockAt(d, s, c)
        BY <1>1, <1>2, <1>3, NextBlock
  <2> HIDE DEF b
  <2> QED BY <2>1, <1>2, BlocksAreGood
<1>5. /\ pools' = Append(pools, t)
      /\ pages' = IF HasPage(p) THEN pages \cup {TakenPage(p, size)} ELSE pages
      /\ count' = count + 1 /\ cpu' = cpu
      BY <1>4 DEF AllocNewPage, s
<1>6. IInv' /\ b \notin held /\ held' = held \cup {b}
      BY <1>1, <1>2, <1>3, <1>5, AllocStep
<1> DEFINE a == b.adr
           z == b.size
           r == NewPool([adr |-> a, size |-> z], size)
<1>7. /\ Shaped(p) /\ p.start = b.adr /\ p.size = size /\ p.afindx = 0 /\ BlockOf(p) = b
      /\ p.objs # 0 => HasPage(p)
      /\ \A pg : (\A m \in 1 .. p.objs : PageOf(p, m) \notin pg) => \E c : Accounted(p, c, pg)
  <2>1. a \in Nat /\ a # 0 /\ z \in Nat /\ z >= 2 * Page /\ p = r /\ b = [adr |-> a, size |-> z]
        BY <1>4
  <2> HIDE DEF b, a, z, p
  <2>2. /\ Shaped(r) /\ r.start = a /\ r.size = size /\ r.afindx = 0
        /\ BlockOf(r) = [adr |-> a, size |-> z]
        /\ r.objs <= z /\ (r.objs # 0 => HasPage(r))
        /\ \A pg : (\A m \in 1 .. r.objs : PageOf(r, m) \notin pg)
                     => \E c : Accounted(r, c, pg)
        BY <2>1, <1>2, NewPoolFields, Zenon
  <2> HIDE DEF r
  <2>3. r.start = b.adr
        BY <2>2 DEF a
  <2> QED BY <2>1, <2>2, <2>3
<1> HIDE DEF p, b
<1>8. Spread(held')
      BY <1>6, HeldSpreadNext
<1>9. \A m \in 1 .. p.objs : PageOf(p, m) \notin pages
  <2> SUFFICES ASSUME NEW m \in 1 .. p.objs, NEW i \in DOMAIN pools,
                      NEW k \in 1 .. pools[i].objs, PageOf(p, m) = PageOf(pools[i], k)
               PROVE  FALSE
      BY <1>3 DEF PoolsGood
  <2>1. BlockOf(pools[i]) \in held /\ Shaped(pools[i])
        BY <1>3 DEF PoolsGood
  <2>2. Disjoint(BlockOf(p), BlockOf(pools[i]))
        BY <2>1, <1>6, <1>7, <1>8 DEF Spread
  <2> QED BY <2>1, <2>2, <1>7, PagesOfTwoPools
<1>10. PICK c : Accounted(p, c, pages)
      BY <1>7, <1>9
<1>11. /\ Shaped(t) /\ BlockOf(t) = b /\ (t.afindx = 0 => t.objs = 0)
       /\ t.start = p.start
       /\ pages' = pages \/ \E m \in 1 .. t.objs : pages' = pages \cup {PageOf(t, m)}
       /\ \E d : Accounted(t, d, pages')
       /\ PageOut(size) \/ UNCHANGED pages
  <2>1. CASE HasPage(p)
    <3> DEFINE m == p.next_map
               u == Take(p)
    <3>1. /\ Shaped(u) /\ m \in 1 .. p.objs /\ u.start = p.start /\ u.end = p.end
          /\ u.size = p.size /\ u.objs = p.objs /\ u.afindx = p.afindx + 1
          BY <2>1, <1>7, TakeFields
    <3>2. BlockOf(u) = b /\ PageOf(u, m) = PageOf(p, m)
          BY <3>1, <1>7, SameObjects
    <3>3. TakenPage(p, size) = PageOf(p, m) /\ PageOf(p, m).size = size
          BY <1>7 DEF TakenPage, PageOf
    <3>4. pages' = pages \cup {PageOf(p, m)}
          BY <2>1, <3>3, <1>5
    <3>5. \E d : Accounted(u, d, pages')
          BY <2>1, <3>4, <1>7, <1>10, TakeChain
    <3>6. PageOut(size)
          BY <3>1, <3>3, <3>4, <1>9 DEF PageOut
    <3>7. u = t
          BY <2>1
    <3> HIDE DEF u, t, m
    <3>8. u.afindx # 0 /\ m \in 1 .. u.objs /\ pages' = pages \cup {PageOf(u, m)}
          BY <3>1, <3>2, <3>4, <1>7
    <3> QED BY <3>1, <3>2, <3>5, <3>6, <3>7, <3>8
  <2>2. CASE ~HasPage(p)
    <3>1. t = p /\ pages' = pages
          BY <2>2, <1>5
    <3> HIDE DEF t
    <3> QED BY <3>1, <2>2, <1>7, <1>10
  <2> QED BY <2>1, <2>2
<1> HIDE DEF t
<1>12. PoolsGood(pools', pages', held')
  <2>1. PoolsGood(Append(pools, t), pages', held')
        BY <1>3, <1>6, <1>8, <1>11, GoodAppend
  <2> QED BY <2>1, <1>5
<1>13. pools \in Seq(PoolHead) /\ t \in PoolHead
      BY <1>3, <1>11 DEF PoolsGood, Shaped
<1>14. /\ Len(pools') = Len(pools) + 1 /\ Len(pools) \in Nat
       /\ DOMAIN pools' = 1 .. (Len(pools) + 1) /\ DOMAIN pools = 1 .. Len(pools)
       /\ \A i \in DOMAIN pools : pools'[i] = pools[i]
       /\ pools'[Len(pools) + 1] = t
  <2>1. pools' \in Seq(PoolHead)
        BY <1>12 DEF PoolsGood
  <2> QED BY <2>1, <1>5, <1>13, LenProperties, AppendProperties
<1>15. Books(pools', cache', count', wild')
  <2>1. DOMAIN pools \subseteq DOMAIN pools'
        BY <1>14
  <2> QED BY <2>1, <1>1, <1>3, <1>5, <1>14 DEF Books
<1>16. NeverDies'
      BY <1>3, <1>5, StillRuns
<1>17. PoolInv'
      BY <1>6, <1>12, <1>15, <1>16, InvIffNext
<1>18. PoolBlocks' = PoolBlocks \cup {b}
  <2>1. PoolBlocks' = {BlockOf(pools'[i]) : i \in DOMAIN pools'}
        BY DEF PoolBlocks
  <2>2. \A i \in DOMAIN pools' : i \in DOMAIN pools \/ i = Len(pools) + 1
        BY <1>14
  <2>3. Len(pools) + 1 \in DOMAIN pools' /\ DOMAIN pools \subseteq DOMAIN pools'
        BY <1>14
  <2> QED BY <2>1, <2>2, <2>3, <1>11, <1>14 DEF PoolBlocks
<1>19. Direct' = Direct
  <2>1. PoolBlocks \subseteq held
        BY <1>3 DEF PoolsGood, PoolBlocks
  <2> QED BY <2>1, <1>6, <1>18 DEF Direct
<1> QED BY <1>1, <1>2, <1>5, <1>11, <1>17, <1>19

\* A pool has no more objects than Objects counts.
LEMMA ObjectsAreListed ==
    ASSUME PoolInv, NEW i \in DOMAIN pools, NEW m \in 1 .. pools[i].objs
    PROVE  PageOf(pools[i], m) \in Objects
<1> DEFINE p == pools[i]
<1>1. IInv /\ Shaped(p) /\ BlockOf(p) \in held
      BY InvIff DEF PoolsGood
<1>2. PICK d \in Desc, s \in Slab : \E b \in BlockBits(s) : BlockOf(p) = BlockAt(d, s, b)
      BY <1>1, HeldIsBlock
<1>3. PICK b \in BlockBits(s) : BlockOf(p) = BlockAt(d, s, b)
      BY <1>2
<1>4. BlockOf(p).size \in Nat /\ BlockOf(p).size <= MapOne /\ MapOne \in Nat
      BY <1>3, BlocksAreGood, Constants
<1>5. p.objs \in Nat /\ p.size \in Nat /\ p.size > 0 /\ Page \in Nat
      BY <1>1, HeadFields, PageIsNat DEF Shaped
<1>6. Page + p.objs * p.size <= BlockOf(p).size
      BY <1>1 DEF Shaped
<1> HIDE DEF p
<1>7. p.objs <= p.objs * p.size /\ p.objs * p.size \in Nat
  <2>1. \A x, y \in Nat : y > 0 => x <= x * y /\ x * y \in Nat
        OBVIOUS
  <2> QED BY <2>1, <1>5
<1>8. p.objs <= MapOne
  <2> DEFINE all == p.objs * p.size
  <2>1. Page + all <= BlockOf(p).size /\ all \in Nat /\ p.objs <= all
        BY <1>6, <1>7
  <2> HIDE DEF all
  <2> QED BY <2>1, <1>4, <1>5
<1>9. m \in 1 .. MapOne
      BY <1>4, <1>5, <1>8 DEF p
<1> QED BY <1>9 DEF Objects

\* The object a call of kmem_pool_free_page frees is the caller's.
LEMMA FreedPage ==
    ASSUME PoolInv, NEW a, NEW size,
           \/ [adr |-> a, size |-> size] \in pages
           \/ [adr |-> a, size |-> size] \notin Objects,
           FindForFree(a, size) # 0,
           NEW m \in FreeableMaps(pools[FindForFree(a, size)], a)
    PROVE  LET p == pools[FindForFree(a, size)]
           IN  /\ FindForFree(a, size) \in DOMAIN pools
               /\ m \in 1 .. p.objs /\ p.afindx # 0
               /\ [adr |-> a, size |-> size] = PageOf(p, m)
               /\ [adr |-> a, size |-> size] \in pages
<1> DEFINE i == FindForFree(a, size)
           p == pools[i]
           g == [adr |-> a, size |-> size]
<1>1. i \in DOMAIN pools /\ DeleteOk(p, a, size)
      BY FoundForFree
<1>2. m \in 1 .. p.objs /\ PageOf(p, m).adr = a
      BY DEF FreeableMaps, MapsOf
<1>3. p.size = size /\ p.afindx # 0
      BY <1>1 DEF DeleteOk
<1>4. PageOf(p, m) = g
      BY <1>2, <1>3 DEF PageOf
<1>5. g \in pages
  <2>1. PageOf(p, m) \in Objects
        BY <1>1, <1>2, ObjectsAreListed
  <2> QED BY <2>1, <1>4
<1> QED BY <1>1, <1>2, <1>3, <1>4, <1>5

\* kmem_pool_free_page of a page that is not the last one out of its pool.
LEMMA KeepPoolStep ==
    ASSUME PoolInv, NEW i \in DOMAIN pools, NEW m \in 1 .. pools[i].objs,
           PageOf(pools[i], m) \in pages, pools[i].afindx # 0,
           Give(pools[i], m).afindx > 0,
           pages' = pages \ {PageOf(pools[i], m)},
           pools' = [pools EXCEPT ![i] = Give(pools[i], m)],
           UNCHANGED <<count, cache, cpu, kmem, blkVars, wild>>
    PROVE  PoolInv' /\ Direct' = Direct /\ UNCHANGED vars
<1> DEFINE p == pools[i]
           t == Give(p, m)
<1>1. IInv /\ NeverDies /\ PoolsGood(pools, pages, held) /\ Books(pools, cache, count, wild)
      BY InvIff
<1>2. UNCHANGED vars
      BY DEF blkVars, vars
<1>3. IInv' /\ held' = held
      BY <1>1, <1>2, NextInv DEF vars
<1>4. NeverDies'
      BY <1>1, <1>2 DEF vars, NeverDies, KernelFits
<1>5. Shaped(p) /\ Spread(held)
      BY <1>1, HeldSpread DEF PoolsGood
<1>6. PICK c : Accounted(p, c, pages)
      BY <1>1 DEF PoolsGood
<1>7. /\ Shaped(t) /\ t.start = p.start /\ t.end = p.end /\ t.size = p.size
      /\ t.objs = p.objs
      BY <1>5, GiveFields
<1>8. \E d : Accounted(t, d, pages')
      BY <1>5, <1>6, GiveChain
<1> HIDE DEF t
<1>9. t.afindx # 0
  <2>1. t.afindx > 0
        BY DEF t
  <2> QED BY <2>1
<1>10. PoolsGood([pools EXCEPT ![i] = t], pages', held)
      BY <1>1, <1>5, <1>7, <1>8, <1>9, GoodReplace
<1>11. PoolsGood(pools', pages', held')
      BY <1>3, <1>10 DEF t
<1>12. pools \in Seq(PoolHead) /\ pools' \in Seq(PoolHead)
      BY <1>1, <1>11 DEF PoolsGood
<1>13. /\ DOMAIN pools' = DOMAIN pools /\ Len(pools') = Len(pools)
       /\ \A j \in DOMAIN pools : pools'[j].start = pools[j].start
                                  /\ BlockOf(pools'[j]) = BlockOf(pools[j])
  <2>1. /\ DOMAIN pools' = DOMAIN pools /\ pools'[i] = t
        /\ \A j \in DOMAIN pools : j # i => pools'[j] = pools[j]
        BY DEF t
  <2>2. Len(pools') = Len(pools)
        BY <2>1, <1>12, LenProperties
  <2>3. BlockOf(t) = BlockOf(p)
        BY <1>7, SameObjects
  <2> QED BY <2>1, <2>2, <2>3, <1>7
<1>14. Books(pools', cache', count', wild')
      BY <1>1, <1>13 DEF Books
<1>15. PoolInv'
      BY <1>3, <1>4, <1>11, <1>14, InvIffNext
<1>16. Direct' = Direct
      BY <1>3, <1>13 DEF Direct, PoolBlocks
<1> QED BY <1>2, <1>15, <1>16

\* list_del keeps all the other entries of a list.
LEMMA RemoveAtKeepsOthers ==
    ASSUME NEW S, NEW w \in Seq(S), NEW i \in DOMAIN w, NEW v, v = RemoveAt(w, i)
    PROVE  /\ v \in Seq(S) /\ Len(v) = Len(w) - 1
           /\ \A k \in DOMAIN v : \E j \in DOMAIN w : j # i /\ v[k] = w[j]
           /\ \A j \in DOMAIN w : j # i => \E k \in DOMAIN v : v[k] = w[j]
<1>1. Len(w) \in Nat /\ DOMAIN w = 1 .. Len(w) /\ i \in 1 .. Len(w)
      BY LenProperties
<1>2. /\ v \in Seq(S) /\ Len(v) = Len(w) - 1
      /\ \A k \in 1 .. (Len(w) - 1) : v[k] = w[IF k < i THEN k ELSE k + 1]
      BY RemoveAtEntries
<1>3. DOMAIN v = 1 .. (Len(w) - 1)
      BY <1>2, LenProperties
<1>4. ASSUME NEW k \in DOMAIN v PROVE \E j \in DOMAIN w : j # i /\ v[k] = w[j]
  <2> DEFINE j == IF k < i THEN k ELSE k + 1
  <2>1. j \in DOMAIN w /\ j # i
        BY <1>1, <1>3
  <2>2. v[k] = w[j]
        BY <1>2, <1>3
  <2> QED BY <2>1, <2>2
<1>5. ASSUME NEW j \in DOMAIN w, j # i PROVE \E k \in DOMAIN v : v[k] = w[j]
  <2> DEFINE k == IF j < i THEN j ELSE j - 1
  <2>1. k \in DOMAIN v /\ j = IF k < i THEN k ELSE k + 1
        BY <1>1, <1>3, <1>5
  <2>2. v[k] = w[j]
        BY <2>1, <1>2, <1>3
  <2> QED BY <2>1, <2>2
<1> QED BY <1>2, <1>4, <1>5

\* kmem_pool_free_page of the last page out of its pool: del_page_mpool takes the pool off
\* the list and gives its block back.
LEMMA DeletePoolStep ==
    ASSUME PoolInv, Running, NEW i \in DOMAIN pools, NEW m \in 1 .. pools[i].objs,
           PageOf(pools[i], m) \in pages, pools[i].afindx # 0,
           ~(Give(pools[i], m).afindx > 0),
           pages' = pages \ {PageOf(pools[i], m)},
           DelPageMpool(i), UNCHANGED <<kmem, wild>>
    PROVE  /\ PoolInv' /\ Direct' = Direct /\ UNCHANGED <<kmem, cpu>>
           /\ \E s \in Slab : BlkSize[s] = BlockOf(pools[i]).size
                              /\ FreeBlk(s, BlockOf(pools[i]).adr)
<1> DEFINE p == pools[i]
           t == Give(p, m)
           b == BlockOf(p)
           freeing == {s \in Slab : BlkSize[s] = b.size /\ CanFree(s, b.adr)}
<1>1. /\ IInv /\ PoolsGood(pools, pages, held) /\ Books(pools, cache, count, wild)
      /\ cpu = "run"
      BY InvIff DEF Running
<1>2. Shaped(p) /\ b \in held /\ Spread(held)
      BY <1>1, HeldSpread DEF PoolsGood
<1>3. PICK c : Accounted(p, c, pages)
      BY <1>1 DEF PoolsGood
<1>4. /\ HeldAfterFree(b.adr) = held \ {b}
      /\ \E s \in Slab : BlkSize[s] = b.size /\ CanFree(s, b.adr)
      BY <1>1, <1>2, FreeHeldBlock
<1>5. freeing # {}
      BY <1>4
<1>6. /\ pools \in Seq(PoolHead) /\ Len(pools) \in Nat /\ DOMAIN pools = 1 .. Len(pools)
      /\ count = Len(pools) /\ ~(count < 1)
      BY <1>1, LenProperties DEF PoolsGood, Books
<1>7. /\ pools' = RemoveAt(pools, i) /\ count' = count - 1
      /\ cache' = (IF cache = p.start THEN NULL ELSE cache)
      /\ (\E s \in freeing : FreeBlk(s, b.adr)) /\ UNCHANGED cpu
      BY <1>5, <1>6 DEF DelPageMpool
<1>8. PICK s \in Slab : BlkSize[s] = b.size /\ FreeBlk(s, b.adr)
      BY <1>7
<1>9. held' = held \ {b}
      BY <1>4, <1>8 DEF FreeBlk
<1>10. IInv'
      BY <1>1, <1>2, <1>4, <1>7, <1>8, FreeHeldBlock, FreeStep
<1>11. /\ Shaped(t) /\ t.start = p.start /\ t.end = p.end /\ t.size = p.size
       /\ t.objs = p.objs
      BY <1>2, GiveFields
<1>12. PICK d : Accounted(t, d, pages')
      BY <1>2, <1>3, GiveChain
<1> HIDE DEF freeing, t, b
<1>13. t.afindx \in 0 .. t.objs /\ t.objs \in Nat /\ t.afindx = 0
  <2>1. t.afindx \in 0 .. t.objs /\ t.objs \in Nat /\ t.afindx \in Nat
        BY <1>11, HeadFields DEF Shaped
  <2>2. ~(t.afindx > 0)
        BY DEF t
  <2> QED BY <2>1, <2>2
<1>14. \A k \in 1 .. p.objs : PageOf(p, k) \notin pages'
  <2>1. \A k \in 1 .. t.objs : PageOf(t, k) \notin pages'
        BY <1>12, <1>13, CountIsRight
  <2>2. \A k : PageOf(t, k) = PageOf(p, k)
        BY <1>11, SameObjects
  <2> QED BY <2>1, <2>2, <1>11
<1>15. PoolsGood(pools', pages', held')
  <2>1. PoolsGood(RemoveAt(pools, i), pages', held \ {BlockOf(pools[i])})
        BY <1>1, <1>2, <1>14, GoodRemove
  <2> QED BY <2>1, <1>7, <1>9 DEF b
<1>16. /\ Len(pools') = Len(pools) - 1
       /\ \A k \in DOMAIN pools' : \E j \in DOMAIN pools : j # i /\ pools'[k] = pools[j]
       /\ \A j \in DOMAIN pools : j # i => \E k \in DOMAIN pools' : pools'[k] = pools[j]
  <2>1. pools \in Seq(PoolHead) /\ pools' = RemoveAt(pools, i)
        BY <1>6, <1>7
  <2> QED BY <2>1, RemoveAtKeepsOthers, SMT
<1>17. Books(pools', cache', count', wild')
  <2>1. count' = Len(pools')
        BY <1>6, <1>7, <1>16
  <2>2. cache' \in Nat /\ wild' \in BOOLEAN
        BY <1>1, <1>7 DEF Books, NULL
  <2>3. ASSUME cache' # NULL PROVE \E k \in DOMAIN pools' : pools'[k].start = cache'
    <3>1. cache' = cache /\ cache # p.start
          BY <2>3, <1>7
    <3>2. PICK j \in DOMAIN pools : pools[j].start = cache
          BY <2>3, <3>1, <1>1 DEF Books
    <3>3. j # i
          BY <3>1, <3>2
    <3> QED BY <3>1, <3>2, <3>3, <1>16
  <2> QED BY <2>1, <2>2, <2>3 DEF Books
<1>18. PoolInv'
  <2>1. NeverDies'
        BY <1>1, <1>7, StillRuns
  <2> QED BY <2>1, <1>10, <1>15, <1>17, InvIffNext
<1>19. Direct' = Direct
  <2>1. \A j \in DOMAIN pools : j # i => BlockOf(pools[j]) # b
        BY <1>1, <1>2, BlocksOfPools DEF b
  <2>2. PoolBlocks' = PoolBlocks \ {b}
    <3>1. PoolBlocks' = {BlockOf(pools'[k]) : k \in DOMAIN pools'}
          BY DEF PoolBlocks
    <3>2. ASSUME NEW x \in PoolBlocks' PROVE x \in PoolBlocks \ {b}
          BY <3>1, <3>2, <2>1, <1>16 DEF PoolBlocks
    <3>3. ASSUME NEW x \in PoolBlocks, x # b PROVE x \in PoolBlocks'
      <4>1. PICK j \in DOMAIN pools : x = BlockOf(pools[j])
            BY DEF PoolBlocks
      <4>2. j # i
            BY <3>3, <4>1 DEF b
      <4> QED BY <3>1, <4>1, <4>2, <1>16
    <3> QED BY <3>2, <3>3
  <2>3. b \in PoolBlocks
        BY DEF b, PoolBlocks
  <2> QED BY <2>2, <2>3, <1>9 DEF Direct
<1> QED BY <1>7, <1>8, <1>18, <1>19 DEF b

\* What a step may do to the memory that is out of callers' reach or in their hands: a page
\* is handed out or comes back, or a block is, or nothing of the kind.
StoreMove ==
    \/ pages' = pages /\ Direct' = Direct
    \/ Direct' = Direct /\ \E size \in PageSizes : PageOut(size)
    \/ Direct' = Direct /\ \E g \in pages : pages' = pages \ {g}
    \/ pages' = pages /\ \E b \in held' : b \notin held /\ Direct' = Direct \cup {b}
    \/ pages' = pages /\ \E h \in Direct : Direct' = Direct \ {h}

\* What every step of the composition is shown to do.
GoodStep == PoolInv' /\ StoreMove /\ [Next]_vars

\* A call that changes nothing the invariant speaks of but for the walk gone wild.
LEMMA IdleStep ==
    ASSUME PoolInv, UNCHANGED <<vars, pools, cache, count, pages>>, wild' \in BOOLEAN
    PROVE  GoodStep
<1>1. IInv /\ NeverDies /\ PoolsGood(pools, pages, held) /\ Books(pools, cache, count, wild)
      BY InvIff
<1>2. IInv' /\ held' = held
      BY <1>1, NextInv DEF vars
<1>3. NeverDies'
      BY <1>1 DEF vars, NeverDies, KernelFits
<1>4. PoolsGood(pools', pages', held') /\ Books(pools', cache', count', wild')
      BY <1>1, <1>2 DEF Books
<1>5. Direct' = Direct
      BY <1>2 DEF Direct, PoolBlocks
<1>6. PoolInv'
      BY <1>2, <1>3, <1>4, InvIffNext
<1> QED BY <1>5, <1>6 DEF GoodStep, StoreMove

\* init_kernel_mem comes before there are any pools.
LEMMA BootCallStep ==
    ASSUME PoolInv, InitKernelMem, UNCHANGED poolVars
    PROVE  GoodStep
<1>1. IInv /\ cpu = "boot"
      BY InvIff DEF InitKernelMem
<1>2. IInv'
      BY <1>1, BootStep
<1>3. NeverDies'
      BY DEF InitKernelMem, NeverDies, KernelFits
<1>4. pools = <<>> /\ held' = held
      BY <1>1, NoPoolsBeforeRun DEF InitKernelMem
<1>5. PoolInv'
      BY <1>2, <1>3, <1>4, BlkStepInv
<1>6. Direct' = Direct /\ pages' = pages
      BY <1>4 DEF Direct, PoolBlocks, poolVars
<1> QED BY <1>5, <1>6 DEF GoodStep, StoreMove, Next

\* A block of a slab may be asked for by any caller.
LEMMA AllocIsACall ==
    ASSUME cpu = "run", NEW s \in Slab, AllocBlk(s), UNCHANGED <<kmem, cpu>>
    PROVE  Next
<1>1. AllocMemBlk(BlkSize[s]) /\ BlkSize[s] \in Sizes
      BY CallerAssumption DEF AllocMemBlk
<1> QED BY <1>1 DEF Next

\* Any caller may give back a block that is out.
LEMMA FreeIsACall ==
    ASSUME IInv, NEW h \in held, NEW s \in Slab, BlkSize[s] = h.size, FreeBlk(s, h.adr),
           UNCHANGED <<kmem, cpu>>
    PROVE  Next
<1>1. PICK d \in Desc, t \in Slab : \E b \in BlockBits(t) : h = BlockAt(d, t, b)
      BY HeldIsBlock
<1>2. h.adr \in Addrs /\ h.size \in Sizes
      BY <1>1, CallerAssumption
<1>3. h.adr \in FreeAddrs
      BY <1>2, FreeHeldBlock DEF FreeAddrs
<1>4. cpu = "run"
      BY HeldIsBlock
<1>5. FreeMemBlk(h.adr, h.size)
      BY <1>4 DEF FreeMemBlk
<1> QED BY <1>2, <1>3, <1>5 DEF Next

\* kmem_pool_alloc_page
LEMMA AllocCallStep ==
    ASSUME PoolInv, NEW size \in PageSizes, KmemPoolAllocPage(size)
    PROVE  GoodStep
<1>1. Running /\ UNCHANGED kmem
      BY DEF KmemPoolAllocPage
<1>2. CASE AllocOldPage(size)
  <2>1. PoolInv' /\ PageOut(size) /\ Direct' = Direct /\ UNCHANGED vars
        BY <1>1, <1>2, OldPageStep
  <2> QED BY <2>1 DEF GoodStep, StoreMove
<1>3. CASE AllocNewPage(size)
  <2>1. /\ PoolInv' /\ Direct' = Direct
        /\ PageOut(size) \/ UNCHANGED pages
        /\ UNCHANGED <<kmem, cpu>> /\ \E s \in Slab : AllocBlk(s)
        BY <1>1, <1>3, NewPageStep
  <2>2. PICK s \in Slab : AllocBlk(s)
        BY <2>1
  <2>3. Next
        BY <2>1, <2>2, <1>1, AllocIsACall DEF Running
  <2> QED BY <2>1, <2>3 DEF GoodStep, StoreMove
<1>4. CASE AllocNoPage(size)
  <2>1. UNCHANGED <<vars, pools, cache, count, pages>> /\ wild' = wild
        BY <1>1, <1>4 DEF AllocNoPage, vars, poolVars, blkVars
  <2>2. wild' \in BOOLEAN
        BY <2>1 DEF PoolInv, PoolTypeOK
  <2> QED BY <2>1, <2>2, IdleStep
<1> QED BY <1>2, <1>3, <1>4 DEF KmemPoolAllocPage

\* kmem_pool_free_page of a page its caller owns, or of one no pool ever had.
LEMMA FreeCallStep ==
    ASSUME PoolInv, NEW a, NEW size, FreeCall(a, size),
           \/ [adr |-> a, size |-> size] \in pages
           \/ [adr |-> a, size |-> size] \notin Objects
    PROVE  GoodStep
<1>1. CASE KmemPoolFreePage(a, size)
  <2> DEFINE i == FindForFree(a, size)
             p == pools[i]
  <2>1. /\ Running /\ i # 0 /\ kmem' = kmem
        /\ \E m \in FreeableMaps(p, a) :
             /\ pages' = pages \ {[adr |-> a, size |-> size]}
             /\ IF Give(p, m).afindx > 0
                THEN /\ pools' = [pools EXCEPT ![i] = Give(p, m)]
                     /\ UNCHANGED <<count, cache, cpu, blkVars>>
                ELSE DelPageMpool(i)
             /\ UNCHANGED wild
        BY <1>1 DEF KmemPoolFreePage, FreeFoundPage
  <2>2. PICK m \in FreeableMaps(p, a) :
             /\ pages' = pages \ {[adr |-> a, size |-> size]}
             /\ IF Give(p, m).afindx > 0
                THEN /\ pools' = [pools EXCEPT ![i] = Give(p, m)]
                     /\ UNCHANGED <<count, cache, cpu, blkVars>>
                ELSE DelPageMpool(i)
             /\ UNCHANGED wild
        BY <2>1
  <2>3. /\ i \in DOMAIN pools /\ m \in 1 .. p.objs /\ p.afindx # 0
        /\ [adr |-> a, size |-> size] = PageOf(p, m)
        /\ [adr |-> a, size |-> size] \in pages
        BY <2>1, FreedPage
  <2> HIDE DEF i
  <2>4. pages' = pages \ {PageOf(p, m)} /\ PageOf(p, m) \in pages
        BY <2>2, <2>3
  <2>5. CASE Give(p, m).afindx > 0
    <3>1. PoolInv' /\ Direct' = Direct /\ UNCHANGED vars
          BY <2>1, <2>2, <2>3, <2>4, <2>5, KeepPoolStep
    <3> QED BY <3>1, <2>4 DEF GoodStep, StoreMove
  <2>6. CASE ~(Give(p, m).afindx > 0)
    <3>1. DelPageMpool(i) /\ UNCHANGED <<kmem, wild>>
          BY <2>1, <2>2, <2>6
    <3>2. /\ PoolInv' /\ Direct' = Direct /\ UNCHANGED <<kmem, cpu>>
          /\ \E s \in Slab : BlkSize[s] = BlockOf(p).size /\ FreeBlk(s, BlockOf(p).adr)
          BY <3>1, <2>1, <2>3, <2>4, <2>6, DeletePoolStep
    <3>3. PICK s \in Slab : BlkSize[s] = BlockOf(p).size /\ FreeBlk(s, BlockOf(p).adr)
          BY <3>2
    <3>4. IInv /\ BlockOf(p) \in held
          BY <2>3, InvIff DEF PoolsGood
    <3>5. Next
          BY <3>2, <3>3, <3>4, FreeIsACall
    <3> QED BY <3>2, <3>5, <2>4 DEF GoodStep, StoreMove
  <2> QED BY <2>5, <2>6
<1>2. CASE KmemPoolFreePageFalse(a, size)
  <2>1. UNCHANGED <<vars, pools, cache, count, pages>> /\ wild' = wild
        BY <1>2 DEF KmemPoolFreePageFalse, allVars, poolVars
  <2>2. wild' \in BOOLEAN
        BY <2>1 DEF PoolInv, PoolTypeOK
  <2> QED BY <2>1, <2>2, IdleStep
<1>3. CASE KmemPoolFreePageWild(a, size)
  <2>1. UNCHANGED <<vars, pools, cache, count, pages>> /\ wild' = TRUE
        BY <1>3 DEF KmemPoolFreePageWild
  <2> QED BY <2>1, IdleStep
<1> QED BY <1>1, <1>2, <1>3 DEF FreeCall

\* alloc_mem_blk and free_mem_blk called by others than the pool.
LEMMA BlockCallStep ==
    ASSUME PoolInv, BlockCall
    PROVE  GoodStep
<1>1. /\ IInv /\ PoolsGood(pools, pages, held) /\ PoolBlocks \subseteq held
      /\ UNCHANGED poolVars
      BY InvIff DEF PoolInv, PoolsSound, BlockCall
<1>2. PoolBlocks' = PoolBlocks /\ pages' = pages /\ wild' = wild /\ wild \in BOOLEAN
      BY <1>1 DEF PoolBlocks, poolVars, PoolInv, PoolTypeOK
<1>3. ASSUME NEW size \in Sizes, AllocMemBlk(size) PROVE GoodStep
  <2>1. PICK s \in Slab : AllocBlk(s)
        BY <1>3 DEF AllocMemBlk
  <2>2. cpu = "run" /\ UNCHANGED <<kmem, cpu>>
        BY <1>3 DEF AllocMemBlk
  <2> DEFINE b == AllocBlock(s)
  <2>3. IInv' /\ b \notin held /\ held' = held \cup {b}
        BY <1>1, <2>1, <2>2, AllocStep
  <2>4. Next
        BY <2>1, <2>2, AllocIsACall
  <2> HIDE DEF b
  <2>5. PoolInv'
    <3>1. \A i \in DOMAIN pools : BlockOf(pools[i]) \in held'
          BY <1>1, <2>3 DEF PoolsGood
    <3> QED BY <3>1, <1>1, <2>2, <2>3, StillRuns, BlkStepInv
  <2>6. Direct' = Direct \cup {b} /\ b \in held'
        BY <1>1, <1>2, <2>3 DEF Direct
  <2> QED BY <1>2, <2>3, <2>4, <2>5, <2>6 DEF GoodStep, StoreMove
<1>4. ASSUME NEW h \in Direct, FreeMemBlk(h.adr, h.size) PROVE GoodStep
  <2>1. PICK s \in Slab : BlkSize[s] = h.size /\ FreeBlk(s, h.adr)
        BY <1>4 DEF FreeMemBlk
  <2>2. cpu = "run" /\ UNCHANGED <<kmem, cpu>> /\ h \in held /\ h \notin PoolBlocks
        BY <1>4 DEF FreeMemBlk, Direct
  <2>3. /\ HeldAfterFree(h.adr) = held \ {h} /\ h.adr \in Nat
        /\ ~InBlock(h.adr, Reserved)
        BY <1>1, <2>2, FreeHeldBlock
  <2>4. IInv' /\ held' = held \ {h}
        BY <1>1, <2>1, <2>2, <2>3, FreeStep DEF FreeBlk
  <2>5. Next
        BY <1>1, <2>1, <2>2, FreeIsACall
  <2>6. PoolInv'
    <3>1. \A i \in DOMAIN pools : BlockOf(pools[i]) \in held'
          BY <1>1, <2>2, <2>4 DEF PoolsGood, PoolBlocks
    <3> QED BY <3>1, <1>1, <2>2, <2>4, StillRuns, BlkStepInv
  <2>7. Direct' = Direct \ {h}
        BY <1>2, <2>2, <2>4 DEF Direct
  <2> QED BY <1>2, <2>5, <2>6, <2>7 DEF GoodStep, StoreMove
<1>5. ASSUME NEW size \in Sizes, AllocMemBlkNull(size) PROVE GoodStep
  <2>1. UNCHANGED <<vars, pools, cache, count, pages>>
        BY <1>1, <1>5 DEF AllocMemBlkNull, poolVars
  <2> QED BY <2>1, <1>2, IdleStep
<1> QED BY <1>3, <1>4, <1>5 DEF BlockCall

LEMMA PoolStep ==
    ASSUME PoolInv, [PoolNext]_allVars
    PROVE  GoodStep
<1>1. wild \in BOOLEAN
      BY DEF PoolInv, PoolTypeOK
<1>2. CASE UNCHANGED allVars
  <2>1. UNCHANGED <<vars, pools, cache, count, pages>> /\ wild' = wild
        BY <1>2 DEF allVars, poolVars
  <2> QED BY <2>1, <1>1, IdleStep
<1>3. CASE InitKernelMem /\ UNCHANGED poolVars
      BY <1>3, BootCallStep
<1>4. ASSUME NEW size \in PageSizes, KmemPoolAllocPage(size) PROVE GoodStep
      BY <1>4, AllocCallStep
<1>5. ASSUME NEW pg \in pages \cup {w \in WildFrees : w \notin Objects},
             FreeCall(pg.adr, pg.size)
      PROVE  GoodStep
  <2>1. pg \in [adr : Nat, size : Nat]
        BY PageAssumption DEF PoolInv, PoolTypeOK
  <2>2. [adr |-> pg.adr, size |-> pg.size] = pg
        BY <2>1
  <2>3. pg \in pages \/ pg \notin Objects
        OBVIOUS
  <2> QED BY <1>5, <2>2, <2>3, FreeCallStep
<1>6. CASE BlockCall
      BY <1>6, BlockCallStep
<1>7. CASE Stopped
      BY <1>2, <1>7 DEF Stopped
<1> QED BY <1>2, <1>3, <1>4, <1>5, <1>6, <1>7 DEF PoolNext

\* The inductive invariant of the composition holds of every reachable state.
THEOREM PoolInvariant == PoolSpec => []PoolInv
<1>1. PoolInit => PoolInv
  <2> SUFFICES ASSUME PoolInit PROVE PoolInv
      OBVIOUS
  <2>1. /\ Init /\ pools = <<>> /\ cache = 0 /\ count = 0 /\ wild = FALSE /\ pages = {}
        BY DEF PoolInit, NULL
  <2>2. IInv
        BY <2>1, InitInv
  <2>3. NeverDies
        BY <2>1 DEF Init, NeverDies
  <2>4. pools \in Seq(PoolHead) /\ DOMAIN pools = {} /\ Len(pools) = 0
        BY <2>1, EmptySeq
  <2>5. PoolsGood(pools, pages, held)
        BY <2>1, <2>4 DEF PoolsGood
  <2>6. Books(pools, cache, count, wild)
        BY <2>1, <2>4 DEF Books, NULL
  <2> QED BY <2>2, <2>3, <2>5, <2>6, InvIff
<1>2. PoolInv /\ [PoolNext]_allVars => PoolInv'
      BY PoolStep DEF GoodStep
<1> QED BY <1>1, <1>2, PTL DEF PoolSpec

\* Every variable of the pool keeps its type, and every link of a pool's maps points to a map
\* of that pool or nowhere (struct mem_pool_head, struct mem_pool_map).
THEOREM PoolTypeCorrect == PoolSpec => []PoolTypeOK
  BY PoolInvariant, PTL DEF PoolInv

\* Whatever pages come and go, the free chain of every pool runs once through exactly the
\* objects nobody owns (page_new_on_mplhead, delete_page_on_mplhead).
THEOREM ChainsAlwaysSound == PoolSpec => []ChainsSound
  BY PoolInvariant, PTL DEF PoolInv

\* The list of pools, its counter and cache, the blocks of the pools and the pages callers
\* own always agree (new_page_mpool, del_page_mpool).
THEOREM PoolsAlwaysSound == PoolSpec => []PoolsSound
  BY PoolInvariant, PTL DEF PoolInv

\* No call reaches one of the sys_die of mem_pool.c: free_mem_blk takes back every block
\* del_page_mpool gives it, and every block is fit for page_mpool_init.
THEOREM PoolNeverDies == PoolSpec => []NeverDies
  BY PoolInvariant, PTL DEF PoolInv

\* The blocks the pool asks for and gives back are calls any caller may make.
THEOREM PoolIsACaller == PoolSpec => UsesBlocksLikeAnyCaller
<1>1. PoolInit => Init
      BY DEF PoolInit
<1>2. PoolInv /\ [PoolNext]_allVars => [Next]_vars
      BY PoolStep DEF GoodStep
<1> QED BY <1>1, <1>2, PoolInvariant, PTL DEF PoolSpec, UsesBlocksLikeAnyCaller, Spec

-----------------------------------------------------------------------------
(* What follows from the invariant                                         *)

\* A page of a pool in one block shares no byte with what lies in no byte of that block.
LEMMA PageAwayFrom ==
    ASSUME NEW p, Shaped(p), NEW m \in 1 .. p.objs, NEW h, h.adr \in Nat, h.size \in Nat,
           Disjoint(BlockOf(p), h) \/ Disjoint(h, BlockOf(p))
    PROVE  Disjoint(PageOf(p, m), h)
<1>1. /\ PageOf(p, m).adr \in Nat /\ PageOf(p, m).size = p.size
      /\ p.start + Page <= PageOf(p, m).adr /\ PageOf(p, m).adr + p.size <= p.end + 1
      BY PageInBlock DEF Shaped
<1>2. p.start \in Nat /\ p.end \in Nat /\ p.size \in Nat /\ Page \in Nat
      BY HeadFields, PageIsNat DEF Shaped
<1>3. BlockOf(p).adr = p.start /\ BlockOf(p).size = p.end - p.start + 1
      BY DEF BlockOf
<1>4. p.end + 1 <= h.adr \/ h.adr + h.size <= p.start
      BY <1>2, <1>3 DEF Disjoint
<1> QED BY <1>1, <1>2, <1>4 DEF Disjoint

LEMMA DisjointFromInv == PoolInv => PagesDisjoint
<1> SUFFICES ASSUME PoolInv PROVE PagesDisjoint
    OBVIOUS
<1>1. IInv /\ PoolsGood(pools, pages, held) /\ Spread(held)
      BY InvIff, HeldSpread
<1>2. ASSUME NEW g \in pages
      PROVE  \E i \in DOMAIN pools : \E m \in 1 .. pools[i].objs : g = PageOf(pools[i], m)
      BY <1>1 DEF PoolsGood
<1>3. ASSUME NEW g \in pages, NEW h \in pages, g # h PROVE Disjoint(g, h)
  <2>1. PICK i \in DOMAIN pools : \E m \in 1 .. pools[i].objs : g = PageOf(pools[i], m)
        BY <1>2
  <2>2. PICK m \in 1 .. pools[i].objs : g = PageOf(pools[i], m)
        BY <2>1
  <2>3. PICK j \in DOMAIN pools : \E k \in 1 .. pools[j].objs : h = PageOf(pools[j], k)
        BY <1>2
  <2>4. PICK k \in 1 .. pools[j].objs : h = PageOf(pools[j], k)
        BY <2>3
  <2>5. Shaped(pools[i]) /\ Shaped(pools[j])
        BY <1>1 DEF PoolsGood
  <2>6. CASE i = j
    <3>1. pools[i] \in PoolHead /\ m # k
          BY <2>2, <2>4, <2>5, <2>6, <1>3 DEF Shaped
    <3> QED BY <3>1, <2>2, <2>4, <2>6, PagesApart
  <2>7. CASE i # j
    <3>1. Disjoint(BlockOf(pools[i]), BlockOf(pools[j]))
          BY <2>7, <1>1, BlocksOfPools
    <3> QED BY <3>1, <2>2, <2>4, <2>5, PagesOfTwoPools
  <2> QED BY <2>6, <2>7
<1>4. ASSUME NEW g \in pages, NEW h \in Direct PROVE Disjoint(g, h)
  <2>1. PICK i \in DOMAIN pools : \E m \in 1 .. pools[i].objs : g = PageOf(pools[i], m)
        BY <1>2
  <2>2. PICK m \in 1 .. pools[i].objs : g = PageOf(pools[i], m)
        BY <2>1
  <2>3. Shaped(pools[i]) /\ BlockOf(pools[i]) \in held /\ h \in held /\ h # BlockOf(pools[i])
        BY <1>1 DEF PoolsGood, Direct, PoolBlocks
  <2>4. Disjoint(h, BlockOf(pools[i]))
        BY <2>3, <1>1 DEF Spread
  <2>5. h.adr \in Nat /\ h.size \in Nat
        BY <2>3, <1>1, HeldIsBlock, BlocksAreGood
  <2> QED BY <2>2, <2>3, <2>4, <2>5, PageAwayFrom
<1>5. ASSUME NEW g \in pages, NEW j \in DOMAIN pools
      PROVE  Disjoint(g, [adr |-> pools[j].start, size |-> Page])
  <2>1. PICK i \in DOMAIN pools : \E m \in 1 .. pools[i].objs : g = PageOf(pools[i], m)
        BY <1>2
  <2>2. PICK m \in 1 .. pools[i].objs : g = PageOf(pools[i], m)
        BY <2>1
  <2> DEFINE h == [adr |-> pools[j].start, size |-> Page]
  <2>3. Shaped(pools[i]) /\ Shaped(pools[j])
        BY <1>1 DEF PoolsGood
  <2>4. /\ pools[j].start \in Nat /\ pools[j].end \in Nat /\ Page \in Nat
        /\ pools[j].objs \in Nat /\ pools[j].size \in Nat
        BY <2>3, HeadFields, PageIsNat DEF Shaped
  <2>5. h.adr \in Nat /\ h.size \in Nat /\ h.adr = pools[j].start /\ h.size = Page
        BY <2>4
  <2> HIDE DEF h
  <2>6. CASE i = j
    <3>1. pools[j].start + Page <= g.adr /\ g.adr \in Nat
          BY <2>2, <2>3, <2>6, PageInBlock DEF Shaped
    <3>2. h.adr + h.size <= g.adr
          BY <2>5, <3>1
    <3> QED BY <3>2 DEF Disjoint, h
  <2>7. CASE i # j
    <3>1. Disjoint(BlockOf(pools[i]), BlockOf(pools[j]))
          BY <2>7, <1>1, BlocksOfPools
    <3>2. /\ BlockOf(pools[j]).adr = pools[j].start
          /\ BlockOf(pools[j]).size \in Nat
          /\ BlockOf(pools[i]).adr \in Nat /\ BlockOf(pools[i]).size \in Nat
          BY <2>3, BlockIsWide
    <3>3. Page <= BlockOf(pools[j]).size
      <4> DEFINE all == pools[j].objs * pools[j].size
      <4>1. Page + all <= BlockOf(pools[j]).size
            BY <2>3 DEF Shaped
      <4>2. all \in Nat
            BY <2>4
      <4> HIDE DEF all
      <4> QED BY <4>1, <4>2, <3>2, <2>4
    <3>4. Disjoint(BlockOf(pools[i]), h)
          BY <3>1, <3>2, <3>3, <2>4, <2>5 DEF Disjoint
    <3>5. Disjoint(PageOf(pools[i], m), h)
          BY <3>4, <2>3, <2>5, PageAwayFrom
    <3> QED BY <3>5, <2>2 DEF h
  <2> QED BY <2>6, <2>7
<1> QED BY <1>3, <1>4, <1>5 DEF PagesDisjoint

\* No two pages that are out share a byte, nor does one with the maps of a pool or with a
\* block somebody else owns (page_mpool_init, kmem_pool_alloc_page).
THEOREM PagesNeverOverlap == PoolSpec => []PagesDisjoint
  BY PoolInvariant, DisjointFromInv, PTL

LEMMA ReturnedFromInv == PoolInv => IdlePoolsReturned
<1> SUFFICES ASSUME PoolInv PROVE IdlePoolsReturned
    OBVIOUS
<1>1. IInv /\ PoolsGood(pools, pages, held) /\ NoneIdle
      BY InvIff DEF PoolInv
<1>2. ASSUME Running, pages = {}, Direct = {}, \A i \in DOMAIN pools : pools[i].objs # 0
      PROVE  ToSet(q[<<"empty", Top>>]) = Desc \ {0}
  <2>1. ASSUME NEW i \in DOMAIN pools PROVE FALSE
    <3>1. Shaped(pools[i])
          BY <1>1 DEF PoolsGood
    <3>2. PICK c : Accounted(pools[i], c, pages)
          BY <1>1 DEF PoolsGood
    <3>3. pools[i].objs \in Nat /\ pools[i].afindx \in 0 .. pools[i].objs
          BY <3>1, HeadFields DEF Shaped
    <3>4. pools[i].afindx = 0
          BY <1>2, <3>2, <3>3, CountIsRight
    <3> QED BY <3>4, <1>1, <1>2 DEF NoneIdle
  <2>2. held = {}
        BY <2>1, <1>2 DEF Direct, PoolBlocks
  <2>3. AllFreeIsWhole
        BY <1>1, WholeFromInv
  <2> QED BY <2>2, <2>3, <1>2 DEF AllFreeIsWhole, Running
<1> QED BY <1>1, <1>2 DEF IdlePoolsReturned

\* The free that empties a pool gives its block back: when nobody owns anything, and no pool
\* without room for an object was made, all the memory is whole (del_page_mpool).
THEOREM IdlePoolsAlwaysReturned == PoolSpec => []IdlePoolsReturned
  BY PoolInvariant, ReturnedFromInv, PTL

LEMMA FreedFromInv == PoolInv => FoundPageIsFreed
<1> SUFFICES ASSUME PoolInv, NEW pg \in pages, FindForFree(pg.adr, pg.size) # 0
             PROVE  FreeableMaps(pools[FindForFree(pg.adr, pg.size)], pg.adr) # {}
    BY DEF FoundPageIsFreed
<1> DEFINE i == FindForFree(pg.adr, pg.size)
           p == pools[i]
<1>1. IInv /\ PoolsGood(pools, pages, held) /\ Spread(held)
      BY InvIff, HeldSpread
<1>2. i \in DOMAIN pools /\ DeleteOk(p, pg.adr, pg.size)
      BY FoundForFree
<1> HIDE DEF i
<1>3. PICK j \in DOMAIN pools : \E k \in 1 .. pools[j].objs : pg = PageOf(pools[j], k)
      BY <1>1 DEF PoolsGood
<1>4. PICK k \in 1 .. pools[j].objs : pg = PageOf(pools[j], k)
      BY <1>3
<1>5. Shaped(p) /\ Shaped(pools[j])
      BY <1>1, <1>2 DEF PoolsGood
<1>6. i = j
  <2> SUFFICES ASSUME i # j PROVE FALSE
      OBVIOUS
  <2>1. Disjoint(BlockOf(pools[j]), BlockOf(p))
        BY <1>1, <1>2, BlocksOfPools
  <2>2. /\ BlockOf(p).adr = p.start /\ p.start \in Nat
        /\ BlockOf(p).size = p.end - p.start + 1 /\ BlockOf(p).size \in Nat
        BY <1>5, BlockIsWide
  <2>3. Disjoint(pg, BlockOf(p))
        BY <2>1, <2>2, <1>4, <1>5, PageAwayFrom
  <2>4. pg.adr \in Nat /\ pg.size \in Nat /\ pg.size > 0
        BY <1>4, <1>5, PageInBlock, HeadFields DEF Shaped
  <2>5. p.end \in Nat /\ Page \in Nat
        BY <1>5, HeadFields, PageIsNat DEF Shaped
  <2>6. pg.adr >= p.start + Page /\ pg.adr + pg.size - 1 <= p.end
        BY <1>2 DEF DeleteOk
  <2>7. pg.adr + pg.size <= p.start \/ p.start + (p.end - p.start + 1) <= pg.adr
        BY <2>2, <2>3 DEF Disjoint
  <2> HIDE DEF p
  <2> QED BY <2>2, <2>4, <2>5, <2>6, <2>7
<1>7. k \in MapsOf(p, pg.adr)
      BY <1>4, <1>6 DEF MapsOf
<1>8. p.afindx >= 1
  <2>1. p.afindx \in Nat /\ p.afindx # 0
        BY <1>2, <1>5, HeadFields DEF Shaped, DeleteOk
  <2> QED BY <2>1
<1>9. p.next[k] = NULL
  <2>1. PICK c : Accounted(p, c, pages)
        BY <1>1, <1>2 DEF PoolsGood
  <2> QED BY <2>1, <1>4, <1>5, <1>6, OutIsOffChain
<1>10. k \in FreeableMaps(p, pg.adr)
      BY <1>7, <1>8, <1>9 DEF FreeableMaps
<1> QED BY <1>10 DEF i

\* Once its pool is found, the free of a page somebody owns is not refused
\* (kmem_pool_free_page, delete_page_on_mplhead).
THEOREM FoundPagesAreFreed == PoolSpec => []FoundPageIsFreed
  BY PoolInvariant, FreedFromInv, PTL

\* Where a page or a block lies, and how big callers may want it.
LEMMA MemoryOfBlocks ==
    ASSUME IInv, NEW h \in held
    PROVE  /\ h \in UserMemory
           /\ h.adr \in Nat /\ h.size \in Nat /\ h.size > 0
<1>1. PICK d \in Desc, s \in Slab : \E b \in BlockBits(s) : h = BlockAt(d, s, b)
      BY HeldIsBlock
<1>2. PICK b \in BlockBits(s) : h = BlockAt(d, s, b)
      BY <1>1
<1>3. /\ h = [adr |-> h.adr, size |-> h.size]
      /\ h.adr \in Nat /\ h.adr >= SpaceStart
      /\ h.size \in Nat /\ h.size > 1
      /\ h.adr + h.size <= SpaceStart + NDesc * MapOne
      BY <1>2, BlocksAreGood
<1>4. SpaceStart \in Nat /\ NDesc * MapOne \in Nat
  <2>1. SpaceStart \in Nat /\ NDesc \in Nat /\ MapOne \in Nat
        BY Constants
  <2> QED BY <2>1
<1>5. h.size \in Sizes
      BY <1>2, CallerAssumption DEF BlockAt
<1>6. h.adr \in SpaceStart .. (SpaceStart + NDesc * MapOne)
  <2> DEFINE top == SpaceStart + NDesc * MapOne
  <2>1. top \in Nat /\ h.adr + h.size <= top
        BY <1>3, <1>4
  <2> HIDE DEF top
  <2>2. h.adr \in SpaceStart .. top
        BY <2>1, <1>3, <1>4
  <2> QED BY <2>2 DEF top
<1>7. h.size \in PageSizes \cup Sizes
      BY <1>5
<1>8. [adr |-> h.adr, size |-> h.size] \in UserMemory
      BY <1>6, <1>7 DEF UserMemory
<1> QED BY <1>3, <1>8

LEMMA MemoryOfPages ==
    ASSUME PoolInv, NEW g \in pages
    PROVE  /\ g.adr \in SpaceStart .. (SpaceStart + NDesc * MapOne)
           /\ g = [adr |-> g.adr, size |-> g.size]
           /\ g.adr \in Nat /\ g.size \in Nat /\ g.size > 0
<1>1. IInv /\ PoolsGood(pools, pages, held)
      BY InvIff
<1>2. PICK i \in DOMAIN pools : \E m \in 1 .. pools[i].objs : g = PageOf(pools[i], m)
      BY <1>1 DEF PoolsGood
<1>3. PICK m \in 1 .. pools[i].objs : g = PageOf(pools[i], m)
      BY <1>2
<1> DEFINE p == pools[i]
           top == SpaceStart + NDesc * MapOne
<1>4. Shaped(p) /\ BlockOf(p) \in held
      BY <1>1 DEF PoolsGood
<1>5. /\ g.adr \in Nat /\ g.size = p.size
      /\ p.start + Page <= g.adr /\ g.adr + p.size <= p.end + 1
      BY <1>3, <1>4, PageInBlock DEF Shaped
<1>6. /\ p.start \in Nat /\ p.end \in Nat /\ p.size \in Nat /\ p.size > 0 /\ Page \in Nat
      BY <1>4, HeadFields, PageIsNat DEF Shaped
<1>7. PICK d \in Desc, s \in Slab : \E b \in BlockBits(s) : BlockOf(p) = BlockAt(d, s, b)
      BY <1>1, <1>4, HeldIsBlock
<1>8. PICK b \in BlockBits(s) : BlockOf(p) = BlockAt(d, s, b)
      BY <1>7
<1>9. BlockOf(p).adr >= SpaceStart /\ BlockOf(p).adr + BlockOf(p).size <= top
      BY <1>8, BlocksAreGood
<1>10. BlockOf(p).adr = p.start /\ BlockOf(p).size = p.end - p.start + 1
      BY DEF BlockOf
<1>11. SpaceStart \in Nat /\ NDesc \in Nat /\ MapOne \in Nat
      BY Constants
<1>12. top \in Nat
  <2>1. NDesc * MapOne \in Nat
        BY <1>11
  <2> QED BY <2>1, <1>11
<1> HIDE DEF p, top
<1>13. p.start >= SpaceStart /\ p.end + 1 <= top
      BY <1>6, <1>9, <1>10, <1>12
<1>14. g.adr \in SpaceStart .. top
      BY <1>5, <1>6, <1>11, <1>12, <1>13
<1>15. g = [adr |-> g.adr, size |-> g.size]
      BY <1>3 DEF PageOf
<1> QED BY <1>5, <1>6, <1>14, <1>15 DEF top

\* All that is handed out, directly or as a page, lies in SDRAM and apart.
MemoryRight ==
    /\ PagesDisjoint /\ NoOverlap
    /\ \A h \in held : h \in UserMemory /\ h.adr \in Nat /\ h.size \in Nat /\ h.size > 0
    /\ \A g \in pages : /\ g.adr \in SpaceStart .. (SpaceStart + NDesc * MapOne)
                        /\ g = [adr |-> g.adr, size |-> g.size]
                        /\ g.adr \in Nat /\ g.size \in Nat /\ g.size > 0

LEMMA MemoryFromInv == PoolInv => MemoryRight
<1> SUFFICES ASSUME PoolInv PROVE MemoryRight
    OBVIOUS
<1>1. IInv
      BY DEF PoolInv
<1> QED BY <1>1, DisjointFromInv, NoOverlapFromInv, MemoryOfBlocks, MemoryOfPages
        DEF MemoryRight

\* A step of the composition hands out one piece of memory disjoint from all that is out,
\* takes one back, or changes nothing.
LEMMA StepIsPageStoreStep ==
    PoolInv /\ [PoolNext]_allVars => [PageStore!Next]_(pages \cup Direct)
<1>1. PoolInv' => MemoryRight'
      BY MemoryFromInv, PTL
<1> SUFFICES ASSUME PoolInv, [PoolNext]_allVars
             PROVE  PageStore!Next \/ (pages \cup Direct)' = pages \cup Direct
    OBVIOUS
<1>2. GoodStep /\ MemoryRight /\ MemoryRight'
      BY <1>1, PoolStep, MemoryFromInv DEF GoodStep
<1>3. CASE pages' = pages /\ Direct' = Direct
      BY <1>3
<1>4. ASSUME Direct' = Direct, NEW size \in PageSizes, PageOut(size)
      PROVE  PageStore!Next
  <2>1. PICK g : g \notin pages /\ pages' = pages \cup {g} /\ g.size = size
        BY <1>4 DEF PageOut
  <2>2. g \in pages'
        BY <2>1
  <2>3. /\ g.adr \in SpaceStart .. (SpaceStart + NDesc * MapOne)
        /\ g = [adr |-> g.adr, size |-> g.size]
        BY <2>2, <1>2 DEF MemoryRight
  <2>4. [adr |-> g.adr, size |-> g.size] \in UserMemory
        BY <2>1, <2>3 DEF UserMemory
  <2>5. \A h \in pages \cup Direct : Disjoint(g, h)
    <3>1. \A h \in pages : Disjoint(g, h)
          BY <2>1, <2>2, <1>2 DEF MemoryRight, PagesDisjoint
    <3>2. \A h \in Direct : Disjoint(g, h)
          BY <2>2, <1>2, <1>4 DEF MemoryRight, PagesDisjoint
    <3> QED BY <3>1, <3>2
  <2>6. (pages \cup Direct)' = (pages \cup Direct) \cup {g}
        BY <2>1, <1>4
  <2>7. PageStore!Get
        BY <2>3, <2>4, <2>5, <2>6 DEF PageStore!Get, PageStore!Disjoint, Disjoint
  <2> QED BY <2>7 DEF PageStore!Next
<1>5. ASSUME pages' = pages, NEW b \in held', b \notin held, Direct' = Direct \cup {b}
      PROVE  PageStore!Next
  <2>1. b \in UserMemory /\ b \in Direct' /\ b.adr \in Nat /\ b.size \in Nat
        BY <1>2, <1>5 DEF MemoryRight
  <2>2. ASSUME NEW h \in pages PROVE Disjoint(b, h)
    <3>1. Disjoint(h, b)
          BY <2>1, <1>2, <1>5 DEF MemoryRight, PagesDisjoint
    <3> QED BY <3>1 DEF Disjoint
  <2>3. ASSUME NEW h \in Direct PROVE Disjoint(b, h)
    <3>1. h \in held' /\ h # b
          BY <1>5 DEF Direct
    <3> QED BY <3>1, <1>2, <1>5 DEF MemoryRight, NoOverlap
  <2>4. (pages \cup Direct)' = (pages \cup Direct) \cup {b}
        BY <1>5
  <2>5. PageStore!Get
        BY <2>1, <2>2, <2>3, <2>4 DEF PageStore!Get, PageStore!Disjoint, Disjoint
  <2> QED BY <2>5 DEF PageStore!Next
<1>6. \A g \in pages, h \in Direct : g # h
  <2> SUFFICES ASSUME NEW g \in pages, g \in Direct PROVE FALSE
      OBVIOUS
  <2>1. Disjoint(g, g) /\ g.adr \in Nat /\ g.size \in Nat /\ g.size > 0
        BY <1>2 DEF MemoryRight, PagesDisjoint
  <2> QED BY <2>1 DEF Disjoint
<1>7. ASSUME Direct' = Direct, NEW g \in pages, pages' = pages \ {g}
      PROVE  PageStore!Next
  <2>1. (pages \cup Direct)' = (pages \cup Direct) \ {g}
        BY <1>6, <1>7
  <2> QED BY <2>1 DEF PageStore!Next, PageStore!Release
<1>8. ASSUME pages' = pages, NEW h \in Direct, Direct' = Direct \ {h}
      PROVE  PageStore!Next
  <2>1. (pages \cup Direct)' = (pages \cup Direct) \ {h}
        BY <1>6, <1>8
  <2> QED BY <2>1 DEF PageStore!Next, PageStore!Release
<1> QED BY <1>2, <1>3, <1>4, <1>5, <1>7, <1>8 DEF GoodStep, StoreMove

\* Pages and blocks together are one store: whatever the pools and the allocator under them
\* do, callers see disjoint pieces of SDRAM going out and coming back one by one.
THEOREM PageStoreImplemented == PoolSpec => ImplementsPageStore
<1>1. PoolInit => PageStore!Init
      BY DEF PoolInit, Init, Direct, PageStore!Init
<1>2. PoolInv /\ [PoolNext]_allVars => [PageStore!Next]_(pages \cup Direct)
      BY StepIsPageStoreStep
<1> QED BY <1>1, <1>2, PoolInvariant, PTL DEF PoolSpec, ImplementsPageStore, PageStore!Spec
=============================================================================
