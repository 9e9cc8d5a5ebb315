------------------------------ MODULE PagePool ------------------------------
(***************************************************************************)
(* The page pool of src/kernel/mem_pool.c ("kmem_pool") on top of the      *)
(* block allocator of BlkMem.  A pool is one block: its first page holds   *)
(* the mem_pool_head and one mem_pool_map per object, the rest is cut into *)
(* objects of one size.  The free maps of a pool are chained from next_map *)
(* through their next pointers; a map that is handed out has next = NULL.  *)
(*                                                                         *)
(* One action is one call of kmem_pool_alloc_page or kmem_pool_free_page:  *)
(* both run with IRQ and FIQ masked on the only core, so that they exclude *)
(* each other although they take different locks.                          *)
(***************************************************************************)
EXTENDS BlkMem

CONSTANTS
    Page,       \* PAGE_SIZE
    PoolTable,  \* the tests of new_page_mpool in their order: [max, slab]
    PageSizes,  \* sizes callers ask pages of
    WildFrees   \* addresses and sizes callers free that were never handed out

ASSUME PageAssumption ==
    /\ Page \in Nat /\ Page > 0
    /\ PoolTable \in Seq([max : Nat, slab : Slab])
    /\ PageSizes \subseteq Nat
    /\ WildFrees \subseteq [adr : Nat, size : Nat]

(* The SDRAM space and every block are whole numbers of pages (mm.h:28-47, *)
(* global.c:10), and a block is two pages at least.                        *)
ASSUME PageGeometryAssumption ==
    /\ SpaceStart % Page = 0
    /\ \A s \in Slab : BlkSize[s] % Page = 0 /\ BlkSize[s] >= 2 * Page

(* The pool is one of the callers of BlkMem: those may ask for a block of  *)
(* any slab and give back any block there is.                              *)
ASSUME CallerAssumption ==
    /\ \A s \in Slab : BlkSize[s] \in Sizes
    /\ \A d \in Desc, s \in Slab : \A b \in BlockBits(s) : BlockAt(d, s, b).adr \in Addrs

NULL == 0

VARIABLES
    pools,  \* page_pool_head: the list of pools, oldest first
    cache,  \* page_pool_cache: the start of a pool, or NULL
    count,  \* page_pool_count
    wild,   \* a list walk has followed a NULL pointer: nothing is known any more
    pages   \* ghost: the pages callers own

blkVars  == <<q, map, acsz, held>>
poolVars == <<pools, cache, count, wild, pages>>
allVars  == <<vars, poolVars>>

Running == cpu = "run" /\ ~wild

-----------------------------------------------------------------------------
(* Pools.  Maps are numbered from 1, so that 0 is the NULL pointer.        *)

\* mutants: the objects start with the block; they are one page apart
PageFromStart(p, m) == [adr |-> p.start + (m - 1) * p.size, size |-> p.size]
PageStride(p, m) == [adr |-> p.start + Page + (m - 1) * Page, size |-> p.size]

\* The m-th object of pool p.
PageOf(p, m) == [adr |-> p.start + Page + (m - 1) * p.size, size |-> p.size]

\* page_mpool_init on a block: as many objects as fit after the first page,
\* chained in order.
NewPool(b, size) ==
    LET objs == (b.size - Page) \div size
    IN  [start    |-> b.adr,
         end      |-> b.adr + b.size - 1,
         size     |-> size,
         objs     |-> objs,
         afindx   |-> 0,
         next_map |-> IF objs > 0 THEN 1 ELSE NULL,
         next     |-> [m \in 1 .. objs |-> IF m < objs THEN m + 1 ELSE NULL]]

\* mutant: end is not the last byte but one past it
BlockShort(p) == [adr |-> p.start, size |-> p.end - p.start]

\* The block a pool lives in.
BlockOf(p) == [adr |-> p.start, size |-> p.end - p.start + 1]

PoolBlocks == {BlockOf(pools[i]) : i \in DOMAIN pools}

\* The position on the list of the cached pool: a set of at most one element.
CachePos == {i \in DOMAIN pools : pools[i].start = cache}

\* page_new_on_mplhead: the map at the front of the chain is cut off and taken.
HasPage(p) == p.afindx < p.objs /\ p.next_map # NULL

\* mutant: the map taken keeps its link
TakeLinked(p) == [p EXCEPT !.next_map = p.next[p.next_map], !.afindx = @ + 1]

Take(p) ==
    [p EXCEPT !.next_map = p.next[p.next_map],
              !.next[p.next_map] = NULL,
              !.afindx = @ + 1]

\* What a caller that asked for size bytes is given.
TakenPage(p, size) == [adr |-> PageOf(p, p.next_map).adr, size |-> size]

\* mutant: the map freed is cut off the rest of the chain
GiveCut(p, m) == [p EXCEPT !.next_map = m, !.afindx = @ - 1]

\* delete_page_on_mplhead: map m goes to the front of the free chain.
Give(p, m) ==
    [p EXCEPT !.next[m] = p.next_map, !.next_map = m, !.afindx = @ - 1]

-----------------------------------------------------------------------------
(* kmem_pool_alloc_page                                                    *)

\* pool_head_is_ok
PoolOk(p, size) == HasPage(p) /\ p.size = size

\* find_pool_head_by_size: the cached pool, else the first on the list that will
\* do; 0 if there is none.
FindForAlloc(size) ==
    LET ok == {i \in DOMAIN pools : PoolOk(pools[i], size)}
    IN  IF CachePos \cap ok # {} THEN CHOOSE i \in CachePos : TRUE
        ELSE IF ok # {} THEN CHOOSE i \in ok : \A j \in ok : i <= j
        ELSE 0

\* new_page_mpool: the slab the block of a new pool is taken from; 0 if none.
PoolSlab(size) ==
    LET nr == size \div Page
        fit == {k \in DOMAIN PoolTable : nr <= PoolTable[k].max}
    IN  IF nr < 1 \/ fit = {} THEN 0
        ELSE PoolTable[CHOOSE k \in fit : \A l \in fit : k <= l].slab

CanGrow(size) == PoolSlab(size) # 0 /\ CanAlloc(PoolSlab(size))

\* The checks of page_mpool_init.
GoodPoolBlock(b) == b.adr % Page = 0 /\ b.size - 1 >= 2 * Page - 1

AllocOldPage(size) ==
    LET i == FindForAlloc(size)
    IN  /\ i # 0
        /\ pages' = pages \cup {TakenPage(pools[i], size)}
        /\ pools' = [pools EXCEPT ![i] = Take(@)]
        /\ cache' = pools[i].start
        /\ UNCHANGED <<count, wild, cpu, blkVars>>

AllocNewPage(size) ==
    LET s == PoolSlab(size)
        p == NewPool(AllocBlock(s), size)
    IN  /\ FindForAlloc(size) = 0 /\ CanGrow(size)
        /\ AllocBlk(s)
        /\ IF GoodPoolBlock(AllocBlock(s))
           THEN /\ pools' = Append(pools, IF HasPage(p) THEN Take(p) ELSE p)
                /\ pages' = IF HasPage(p) THEN pages \cup {TakenPage(p, size)} ELSE pages
                /\ count' = count + 1
                /\ UNCHANGED cpu
           ELSE cpu' = "die" /\ UNCHANGED <<pools, pages, count>>
        /\ UNCHANGED <<cache, wild>>

AllocNoPage(size) ==
    /\ FindForAlloc(size) = 0 /\ ~CanGrow(size)
    /\ UNCHANGED <<poolVars, cpu, blkVars>>

KmemPoolAllocPage(size) ==
    /\ Running
    /\ AllocOldPage(size) \/ AllocNewPage(size) \/ AllocNoPage(size)
    /\ UNCHANGED kmem

-----------------------------------------------------------------------------
(* kmem_pool_free_page                                                     *)

\* deleted_pool_head_isok
DeleteOk(p, a, size) ==
    /\ p.size = size /\ p.afindx # 0
    /\ a >= p.start + Page /\ a + size - 1 <= p.end

\* find_deleted_pool_head: the cached pool or the first of the list; 0 for NULL.
FindForFree(a, size) ==
    IF \E i \in CachePos : DeleteOk(pools[i], a, size) THEN CHOOSE i \in CachePos : TRUE
    ELSE IF pools # <<>> /\ DeleteOk(pools[1], a, size) THEN 1
    ELSE 0

\* The walk keeps the result in its cursor: past a first pool that does not match
\* it goes on from NULL.
WalkGoesWild(a, size) == FindForFree(a, size) = 0 /\ pools # <<>>

\* The map of address a in pool p, if it has one that looks handed out.
MapsOf(p, a) == {m \in 1 .. p.objs : PageOf(p, m).adr = a}
FreeableMaps(p, a) == {m \in MapsOf(p, a) : p.afindx >= 1 /\ p.next[m] = NULL}

\* mutant: the cache keeps pointing to the pool
DelKeepsCache(i) ==
    /\ pools' = RemoveAt(pools, i)
    /\ count' = count - 1
    /\ cache' = cache
    /\ \E s \in Slab : BlkSize[s] = BlockOf(pools[i]).size /\ FreeBlk(s, pools[i].start)
    /\ UNCHANGED cpu

\* del_page_mpool of the i-th pool, all of whose objects are free.
DelPageMpool(i) ==
    LET b == BlockOf(pools[i])
        freeing == {s \in Slab : BlkSize[s] = b.size /\ CanFree(s, b.adr)}
    IN  /\ pools' = RemoveAt(pools, i)
        /\ IF count < 1 THEN cpu' = "die" /\ UNCHANGED <<count, cache, blkVars>>
           ELSE /\ count' = count - 1
                /\ cache' = IF cache = pools[i].start THEN NULL ELSE cache
                /\ IF freeing = {} THEN cpu' = "die" /\ UNCHANGED blkVars
                   ELSE (\E s \in freeing : FreeBlk(s, b.adr)) /\ UNCHANGED cpu

\* mutant: a pool that is free again is kept
FreeKeepsPool(i, a, size) ==
    \E m \in FreeableMaps(pools[i], a) :
        /\ pages' = pages \ {[adr |-> a, size |-> size]}
        /\ pools' = [pools EXCEPT ![i] = Give(@, m)]
        /\ UNCHANGED <<count, cache, cpu, blkVars, wild>>

FreeFoundPage(i, a, size) ==
    \E m \in FreeableMaps(pools[i], a) :
        LET p == Give(pools[i], m)
        IN  /\ pages' = pages \ {[adr |-> a, size |-> size]}
            /\ IF p.afindx > 0
               THEN /\ pools' = [pools EXCEPT ![i] = p]
                    /\ UNCHANGED <<count, cache, cpu, blkVars>>
               ELSE DelPageMpool(i)
            /\ UNCHANGED wild

KmemPoolFreePage(a, size) ==
    LET i == FindForFree(a, size)
    IN  /\ Running
        /\ i # 0
        /\ FreeFoundPage(i, a, size)
        /\ UNCHANGED kmem

\* kmem_pool_free_page returns FALSE.
KmemPoolFreePageFalse(a, size) ==
    LET i == FindForFree(a, size)
    IN  /\ Running
        /\ IF i = 0 THEN pools = <<>> ELSE FreeableMaps(pools[i], a) = {}
        /\ UNCHANGED allVars

KmemPoolFreePageWild(a, size) ==
    /\ Running
    /\ WalkGoesWild(a, size)
    /\ wild' = TRUE
    /\ UNCHANGED <<vars, pools, cache, count, pages>>

-----------------------------------------------------------------------------
(* The callers                                                             *)

Objects == {PageOf(pools[i], m) : i \in DOMAIN pools, m \in 1 .. MapOne}

\* The blocks callers of alloc_mem_blk own.
Direct == held \ PoolBlocks

\* kmem_pool_init
PoolInit ==
    /\ Init
    /\ pools = <<>> /\ cache = NULL /\ count = 0
    /\ wild = FALSE
    /\ pages = {}

\* sys_die, or a walk through NULL: no later state is modelled.
Stopped == (cpu = "die" \/ wild) /\ UNCHANGED allVars

FreeCall(a, size) ==
    \/ KmemPoolFreePage(a, size) \/ KmemPoolFreePageFalse(a, size)
    \/ KmemPoolFreePageWild(a, size)

BlockCall ==
    /\ ~wild
    /\ \/ \E size \in Sizes : AllocMemBlk(size) \/ AllocMemBlkNull(size)
       \/ \E h \in Direct : FreeMemBlk(h.adr, h.size)
    /\ UNCHANGED poolVars

\* Callers free the pages they own, and what no pool ever handed out.
PoolNext ==
    \/ InitKernelMem /\ UNCHANGED poolVars
    \/ Stopped
    \/ \E size \in PageSizes : KmemPoolAllocPage(size)
    \/ \E pg \in pages \cup {w \in WildFrees : w \notin Objects} : FreeCall(pg.adr, pg.size)
    \/ BlockCall

PoolSpec == PoolInit /\ [][PoolNext]_allVars

\* As PoolSpec, but callers may also free a page they do not own (any more).
CarelessNext == PoolNext \/ \E pg \in Objects : FreeCall(pg.adr, pg.size)

CarelessSpec == PoolInit /\ [][CarelessNext]_allVars

-----------------------------------------------------------------------------
(* Properties                                                              *)

\* mem_pool_head: the fields the calls read, the maps' next pointers among them.
PoolHead ==
    [start : Nat \ {NULL}, end : Nat, size : Nat \ {0}, objs : Nat, afindx : Nat,
     next_map : Nat, next : Seq(Nat)]

\* Every variable of the pool has its type, every pointer to a map is one of the pool's.
PoolTypeOK ==
    /\ pools \in Seq(PoolHead)
    /\ \A i \in DOMAIN pools :
          LET p == pools[i]
          IN  /\ p.afindx \in 0 .. p.objs
              /\ p.next_map \in 0 .. p.objs
              /\ p.next \in [1 .. p.objs -> 0 .. p.objs]
    /\ cache \in Nat /\ count \in Nat /\ wild \in BOOLEAN
    /\ pages \subseteq [adr : Nat, size : Nat]

\* c lists the free maps of p in the order the pointers link them; all the other
\* maps point nowhere.
IsChain(p, c) ==
    LET n == p.objs - p.afindx
        links == [i \in 1 .. (n + 1) |-> IF i = n + 1 THEN NULL ELSE c[i]]
    IN  /\ \A i, j \in 1 .. n : c[i] = c[j] => i = j
        /\ p.next_map = links[1]
        /\ \A i \in 1 .. n : p.next[c[i]] = links[i + 1]
        /\ \A m \in 1 .. p.objs : (\A i \in 1 .. n : c[i] # m) => p.next[m] = NULL

\* The free chain of every pool runs once through exactly the objects nobody
\* owns: no object is lost from the chain, or on it while it is out, and afindx
\* counts those that are out (page_new_on_mplhead, delete_page_on_mplhead).
ChainsSound ==
    \A i \in DOMAIN pools :
        LET p == pools[i]
        IN  \E c \in [1 .. (p.objs - p.afindx) -> 1 .. p.objs] :
                /\ IsChain(p, c)
                /\ \A m \in 1 .. p.objs :
                      PageOf(p, m) \in pages <=> \A k \in DOMAIN c : c[k] # m

\* The list, the counter, the cache, the block allocator and the callers agree: every
\* pool on the list lives, its maps and objects included, in a block of its own that is
\* still out; the cache points to one of them; every page that is out is the object of
\* one, so that no pool goes before its pages (page_mpool_init, del_page_mpool).
PoolsSound ==
    /\ count = Len(pools)
    /\ \A i, j \in DOMAIN pools : pools[i].start = pools[j].start => i = j
    /\ PoolBlocks \subseteq held
    /\ cache # NULL => CachePos # {}
    /\ \A i \in DOMAIN pools : Page + pools[i].objs * pools[i].size <= BlockOf(pools[i]).size
    /\ \A g \in pages : \E i \in DOMAIN pools : \E m \in 1 .. pools[i].objs :
          g = PageOf(pools[i], m)

\* A page that is out shares no byte with another page, with the maps in the
\* first page of a pool, or with a block handed out directly.
PagesDisjoint ==
    /\ \A g, h \in pages : g # h => Disjoint(g, h)
    /\ \A g \in pages, h \in Direct : Disjoint(g, h)
    /\ \A g \in pages, i \in DOMAIN pools :
          Disjoint(g, [adr |-> pools[i].start, size |-> Page])

\* The only pools without a page out are those that never had room for one.
NoneIdle == \A i \in DOMAIN pools : pools[i].afindx = 0 => pools[i].objs = 0

\* A pool is given back by the free that empties it: the only pools without a page
\* out are those that never had room for one, and when nothing is out and there are
\* none of those, all the memory is in whole descriptors again.
IdlePoolsReturned ==
    /\ NoneIdle
    /\ Running /\ pages = {} /\ Direct = {} =>
          \/ \E i \in DOMAIN pools : pools[i].objs = 0
          \/ ToSet(q[<<"empty", Top>>]) = Desc \ {0}

\* None of the sys_die of mem_pool.c is ever reached: a pool's block is always
\* fit to hold it, and always accepted back by free_mem_blk.
NeverDies == KernelFits => cpu # "die"

\* The inductive invariant: the block allocator's, and what every call on the pool needs
\* of the state before it.
PoolInv ==
    IInv /\ PoolTypeOK /\ ChainsSound /\ PoolsSound /\ NoneIdle /\ NeverDies

\* The free of a page somebody owns is never refused once its pool is found.
FoundPageIsFreed ==
    Running =>
        \A pg \in pages :
            LET i == FindForFree(pg.adr, pg.size)
            IN  i # 0 => FreeableMaps(pools[i], pg.adr) # {}

\* The pool uses the block allocator as any caller may: all that holds of BlkMem
\* holds of the composition.
UsesBlocksLikeAnyCaller == Spec

\* Pages and direct blocks together are one store of disjoint blocks.
UserMemory == [adr : SpaceStart .. (SpaceStart + NDesc * MapOne), size : PageSizes \cup Sizes]

PageStore == INSTANCE BlockStore WITH Block <- UserMemory, held <- pages \cup Direct

ImplementsPageStore == PageStore!Spec

\* mem_pool.c:496-499: a page that was handed out can be freed.
\* It does not hold when its pool is neither cached nor the first of the list.
HeldPageCanBeFreed ==
    Running => \A pg \in pages : ~WalkGoesWild(pg.adr, pg.size)

\* mem_pool.c:268: every free map has a next pointer, so that the free of a page
\* that is already free is refused.  It does not hold of the last map of the chain.
OnlyOwnedPagesAreFreed ==
    [][\A pg \in Objects : KmemPoolFreePage(pg.adr, pg.size) => pg \in pages]_allVars
=============================================================================
