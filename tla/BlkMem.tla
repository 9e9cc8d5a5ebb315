------------------------------- MODULE BlkMem -------------------------------
(***************************************************************************)
(* The block allocator of src/hal/mm.c ("phy_mem").  SDRAM is cut into     *)
(* descriptors (mem_desc) of MapOne bytes; a descriptor in use is divided  *)
(* into equal blocks of one slab's size and keeps a bitmap of the blocks   *)
(* handed out.  Every slab keeps three queues of descriptors: full,        *)
(* partial and empty.                                                      *)
(*                                                                         *)
(* One action is one call: alloc_mem_blk and free_mem_blk run under        *)
(* phyp->lock with IRQ and FIQ masked.  Callers are unconstrained but for  *)
(* one thing: they do not free the block the kernel keeps for itself.      *)
(***************************************************************************)
EXTENDS Integers, Sequences, FiniteSets, SequencesExt

CONSTANTS
    NSlab,      \* BLKSZ_HEAD_MAX
    BlkSize,    \* BLK128KB_SIZE .. BLK4MB_SIZE, by slab
    Bitl,       \* BLK128KB_BITL .. BLK4MB_BITL, by slab: blocks per descriptor
    MapBits,    \* width of mem_desc.map_count
    MapOne,     \* MAPONE_SIZE
    SpaceStart, \* addr_start of the SDRAM space
    NDesc,      \* descriptors the space is cut into
    Kernels,    \* images [start, end] the linker may produce (kmem_start, kmem_end)
    Sizes,      \* sizes callers pass
    Addrs       \* addresses callers free

Slab == 1 .. NSlab
Top  == NSlab           \* slabs[BLKSZ_HEAD_MAX - 1]
Desc == 0 .. (NDesc - 1)

(* mm.h:28-47.  The SDRAM space of global.c:10 is a whole number of        *)
(* descriptors, so the last one is not cut short.                          *)
ASSUME GeometryAssumption ==
    /\ NSlab \in Nat /\ NSlab > 1
    /\ BlkSize \in [Slab -> Nat] /\ Bitl \in [Slab -> Nat]
    /\ MapOne \in Nat /\ MapBits \in Nat
    /\ \A s \in Slab : /\ BlkSize[s] > 1
                       /\ Bitl[s] > 0 /\ Bitl[s] <= MapBits
                       /\ Bitl[s] * BlkSize[s] = MapOne
    /\ \A s, t \in Slab : BlkSize[s] = BlkSize[t] => s = t
    /\ Bitl[1] > 1 /\ Bitl[Top] = 1

ASSUME SpaceAssumption ==
    /\ SpaceStart \in Nat /\ SpaceStart > 0
    /\ NDesc \in Nat /\ NDesc > 0

ASSUME InputAssumption ==
    /\ Kernels \subseteq [start : Nat, end : Nat]
    /\ Sizes \subseteq Nat /\ Addrs \subseteq Nat

Kinds == {"full", "partial", "empty"}
Lists == Kinds \X Slab

VARIABLES
    q,      \* q[<<kind, s>>]: full_list, partial_list or empty_list of slab s
    map,    \* map_count of each descriptor, as the set of its 1 bits
    acsz,   \* the MAPF_ACSZ_* field of mem_desc.flag, as a slab
    kmem,   \* kmem_start and kmem_end
    cpu,    \* "boot" until init_mm is done, then "run"; "die" in sys_die
    held    \* ghost: the blocks the callers own

vars == <<q, map, acsz, kmem, cpu, held>>

-----------------------------------------------------------------------------
(* Geometry                                                                *)

DescStart(d) == SpaceStart + d * MapOne
DescEnd(d)   == DescStart(d) + MapOne - 1        \* end_addr is the last byte

BlockBits(s) == 0 .. (Bitl[s] - 1)               \* BLKxxx_MASK
BlockAt(d, s, b) == [adr |-> DescStart(d) + BlkSize[s] * b, size |-> BlkSize[s]]

\* The block init_kernel_mem keeps back for the kernel.
Reserved == BlockAt(0, 1, 0)

InBlock(a, h) == h.adr <= a /\ a < h.adr + h.size

\* list_move_tail of the i-th entry of list k to list l.
MoveTail(k, i, l) ==
    LET d == q[k][i]
        u == [q EXCEPT ![k] = RemoveAt(q[k], i)]
    IN  [u EXCEPT ![l] = Append(u[l], d)]

-----------------------------------------------------------------------------
(* alloc_mem_blk                                                           *)

\* find_slab_by_size: there is a descriptor to take a block of slab s from.
HasRoom(s) ==
    \/ q[<<"empty", s>>] # <<>> \/ q[<<"partial", s>>] # <<>>
    \/ q[<<"empty", Top>>] # <<>>

\* find_slab_by_size: the slab whose lists are used.
AllocSlab(s) ==
    IF q[<<"empty", s>>] # <<>> \/ q[<<"partial", s>>] # <<>> THEN s ELSE Top

\* find_desc_in_slab: the list whose first descriptor is used.
AllocList(s) ==
    LET t == AllocSlab(s)
    IN  IF q[<<"partial", t>>] # <<>> THEN <<"partial", t>> ELSE <<"empty", t>>

AllocDesc(s) == Head(q[AllocList(s)])

ClearBits(d, s) == {b \in BlockBits(s) : b \notin map[d]}

\* The scan over the bits of map_count stops at the lowest clear one.
FirstClear(d, s) ==
    CHOOSE b \in ClearBits(d, s) : \A c \in ClearBits(d, s) : b <= c

\* The block a successful call returns.
AllocBlock(s) == BlockAt(AllocDesc(s), s, FirstClear(AllocDesc(s), s))

CanAlloc(s) ==
    /\ HasRoom(s)
    /\ ClearBits(AllocDesc(s), s) # {}
    /\ AllocBlock(s).adr < DescEnd(AllocDesc(s))

NeverFull(m, s) == <<"partial", s>>             \* mutant: the mask is never met

\* The queue a descriptor of slab s with bitmap m is moved to.
QueueAfterAlloc(m, s) ==
    IF BlockBits(s) \subseteq m THEN <<"full", s>> ELSE <<"partial", s>>

\* alloc_blk_on_desc
AllocBlk(s) ==
    LET d == AllocDesc(s)
        m == map[d] \cup {FirstClear(d, s)}
    IN  /\ CanAlloc(s)
        /\ map'  = [map EXCEPT ![d] = m]
        /\ acsz' = [acsz EXCEPT ![d] = s]
        /\ q'    = MoveTail(AllocList(s), 1, QueueAfterAlloc(m, s))
        /\ held' = held \cup {AllocBlock(s)}

-----------------------------------------------------------------------------
(* free_mem_blk                                                            *)

\* The entries of list k whose memory holds address a.
FoundIn(k, a) ==
    {i \in DOMAIN q[k] : DescStart(q[k][i]) <= a /\ a < DescEnd(q[k][i])}

PartialListOnly(s, a) == <<"partial", s>>       \* mutant: the full list is skipped

\* find_desc_for_free: the full list is searched before the partial list.
FreeList(s, a) ==
    IF FoundIn(<<"full", s>>, a) # {} THEN <<"full", s>> ELSE <<"partial", s>>

FreePos(s, a) ==
    CHOOSE i \in FoundIn(FreeList(s, a), a) :
        \A j \in FoundIn(FreeList(s, a), a) : i <= j

FreeDesc(s, a) == q[FreeList(s, a)][FreePos(s, a)]

\* mutant: an address inside a block is rounded up
FreeBitRoundedUp(s, a) ==
    (a - DescStart(FreeDesc(s, a)) + BlkSize[s] - 1) \div BlkSize[s]

FreeBit(s, a) == (a - DescStart(FreeDesc(s, a))) \div BlkSize[s]

CanFree(s, a) ==
    /\ a # 0
    /\ FoundIn(FreeList(s, a), a) # {}
    /\ FreeBit(s, a) < MapBits
    /\ FreeBit(s, a) \in map[FreeDesc(s, a)]

\* The address a caller gives back stands for the block it lies in.
HeldAfterFree(a) == {h \in held : ~InBlock(a, h)}

\* mutants: the mask of the next slab; the bitmap is not looked at again
NextSlabMask(m, s) == m \cap (0 .. (Bitl[IF s = Top THEN s ELSE s + 1] - 1)) = {}
NeverWhole(m, s) == FALSE

\* No block of a descriptor of slab s with bitmap m is taken.
WholeFree(m, s) == m \cap BlockBits(s) = {}

\* __free_blk_in_slab: a descriptor leaves its queue only when it is all free.
FreeBlk(s, a) ==
    LET d == FreeDesc(s, a)
        m == map[d] \ {FreeBit(s, a)}
    IN  /\ CanFree(s, a)
        /\ map'  = [map EXCEPT ![d] = m]
        /\ IF WholeFree(m, s)
           THEN /\ acsz' = [acsz EXCEPT ![d] = Top]
                /\ q' = MoveTail(FreeList(s, a), FreePos(s, a), <<"empty", Top>>)
           ELSE UNCHANGED <<acsz, q>>
        /\ held' = HeldAfterFree(a)

-----------------------------------------------------------------------------
(* init_mm and the calls                                                   *)

\* mutant: the loop runs one descriptor too far
OneTooMany ==
    [k \in Lists |-> IF k = <<"empty", Top>> THEN [i \in 1 .. NDesc |-> i] ELSE <<>>]

\* mem_list_init: every descriptor but the first is on the top empty list.
BootLists ==
    [k \in Lists |->
        IF k = <<"empty", Top>> THEN [i \in 1 .. (NDesc - 1) |-> i] ELSE <<>>]

\* The state after init_phy_mem.
Init ==
    /\ kmem \in Kernels
    /\ cpu = "boot"
    /\ q = BootLists
    /\ map = [d \in Desc |-> {}]
    /\ acsz = [d \in Desc |-> Top]
    /\ held = {}

\* The check of init_kernel_mem.
KernelFits ==
    /\ kmem.end - kmem.start <= BlkSize[1]
    /\ kmem.start >= DescStart(0)

\* mutant: map_count is not set for the kernel's block
ReserveForgotten ==
    /\ cpu = "boot"
    /\ cpu'  = "run"
    /\ acsz' = [acsz EXCEPT ![0] = 1]
    /\ q'    = [q EXCEPT ![<<"partial", 1>>] = Append(@, 0)]
    /\ UNCHANGED <<map, kmem, held>>

\* init_kernel_mem: the first block of the first descriptor is the kernel's.
InitKernelMem ==
    /\ cpu = "boot"
    /\ IF KernelFits
       THEN /\ cpu'  = "run"
            /\ map'  = [map EXCEPT ![0] = {0}]
            /\ acsz' = [acsz EXCEPT ![0] = 1]
            /\ q'    = [q EXCEPT ![<<"partial", 1>>] = Append(@, 0)]
       ELSE cpu' = "die" /\ UNCHANGED <<map, acsz, q>>
    /\ UNCHANGED <<kmem, held>>

\* sys_die never returns.
SysDie == cpu = "die" /\ UNCHANGED vars

AllocMemBlk(size) ==
    /\ cpu = "run"
    /\ \E s \in Slab : BlkSize[s] = size /\ AllocBlk(s)
    /\ UNCHANGED <<kmem, cpu>>

\* alloc_mem_blk returns NULL: no slab of that size, or no free block.
AllocMemBlkNull(size) ==
    /\ cpu = "run"
    /\ ~ \E s \in Slab : BlkSize[s] = size /\ CanAlloc(s)
    /\ UNCHANGED vars

FreeMemBlk(a, size) ==
    /\ cpu = "run"
    /\ \E s \in Slab : BlkSize[s] = size /\ FreeBlk(s, a)
    /\ UNCHANGED <<kmem, cpu>>

\* free_mem_blk returns FALSE.
FreeMemBlkFalse(a, size) ==
    /\ cpu = "run"
    /\ ~ \E s \in Slab : BlkSize[s] = size /\ CanFree(s, a)
    /\ UNCHANGED vars

\* Callers never free the kernel's own block.
FreeAddrs == {a \in Addrs : ~InBlock(a, Reserved)}

Next ==
    \/ InitKernelMem
    \/ SysDie
    \/ \E size \in Sizes : AllocMemBlk(size) \/ AllocMemBlkNull(size)
    \/ \E a \in FreeAddrs, size \in Sizes : FreeMemBlk(a, size) \/ FreeMemBlkFalse(a, size)

Spec == Init /\ [][Next]_vars

-----------------------------------------------------------------------------
(* Properties                                                              *)

\* Every variable has its type; bitmaps stay within the 32 bits of map_count.
TypeOK ==
    /\ q \in [Lists -> Seq(Desc)]
    /\ map \in [Desc -> SUBSET (0 .. (MapBits - 1))]
    /\ acsz \in [Desc -> Slab]
    /\ kmem \in Kernels
    /\ cpu \in {"boot", "run", "die"}
    /\ held \subseteq [adr : Nat, size : Nat]

\* No descriptor is twice on a queue or on two queues (list_move_tail).
EachOnOneQueue ==
    \A k, l \in Lists :
        \A i \in DOMAIN q[k], j \in DOMAIN q[l] : q[k][i] = q[l][j] => k = l /\ i = j

\* Once booted, no descriptor is lost: each is on some queue.
NoneLost ==
    cpu = "run" => \A d \in Desc : \E k \in Lists : \E i \in DOMAIN q[k] : q[k][i] = d

\* What the queue of a descriptor says of its bitmap and of its flag.
Fits(k, d) ==
    /\ acsz[d] = k[2]
    /\ map[d] \subseteq BlockBits(k[2])
    /\ k[1] = "empty" => k[2] = Top /\ map[d] = {}
    /\ k[1] = "full" => map[d] # {}
    /\ k[1] = "partial" => map[d] # {} /\ map[d] # BlockBits(k[2])

\* Every queue holds what it is meant to hold, as far as the code keeps it so:
\* a full list may hold descriptors with free blocks (see FullListHasNoFreeBlock).
QueuesFit ==
    \A k \in Lists : \A i \in DOMAIN q[k] : Fits(k, q[k][i])

QueuesSound == EachOnOneQueue /\ NoneLost /\ QueuesFit

\* The kernel's own block stays taken whatever callers allocate and free.
ReserveKept == cpu = "run" => 0 \in map[0] /\ acsz[0] = 1

\* The block under bit b of descriptor d, and all the blocks taken from d.
Used(d, b) == BlockAt(d, acsz[d], b)
Taken(d) == {Used(d, b) : b \in map[d]}

\* The bitmaps and flags account for exactly the blocks the callers own, and the
\* kernel's: no block is leaked, none is forgotten while it is owned.
LedgerMatchesMaps ==
    cpu = "run" =>
        held = (UNION {Taken(d) : d \in Desc}) \ {Reserved}

Disjoint(g, h) == g.adr + g.size <= h.adr \/ h.adr + h.size <= g.adr

\* Two blocks that are out at the same time never share a byte.
NoOverlap == \A g, h \in held : g # h => Disjoint(g, h)

\* No block that is out touches the block kept for the kernel.
ReservedNeverHandedOut == \A h \in held : Disjoint(h, Reserved)

\* A block that is out can be freed by its address and size, whatever happened
\* to its descriptor's queues since it was handed out.
HeldCanBeFreed ==
    \A h \in held : \E s \in Slab : BlkSize[s] = h.size /\ CanFree(s, h.adr)

\* When everything has been given back every descriptor but the kernel's is one
\* whole free piece again, so that the largest block can be had from it.
AllFreeIsWhole ==
    cpu = "run" /\ held = {} => ToSet(q[<<"empty", Top>>]) = Desc \ {0}

\* Until init_mm is done, and for ever when it dies, nothing has been handed out.
BootUntouched ==
    cpu # "run" =>
        /\ q = BootLists
        /\ map = [d \in Desc |-> {}] /\ acsz = [d \in Desc |-> Top]
        /\ held = {}

\* The inductive invariant: the facts every step needs of the state before it.
IInv == TypeOK /\ QueuesSound /\ ReserveKept /\ LedgerMatchesMaps /\ BootUntouched

\* The allocator implements BlockStore over the naturally aligned blocks of the
\* space other than those that touch the kernel's: in particular one call never
\* returns more than one block and never takes a block back from another caller.
UserBlock ==
    {h \in {BlockAt(d, s, b) : d \in Desc, s \in Slab, b \in 0 .. (MapBits - 1)} :
        /\ h.adr + h.size <= SpaceStart + NDesc * MapOne
        /\ Disjoint(h, Reserved)}

Store == INSTANCE BlockStore WITH Block <- UserBlock

ImplementsBlockStore == Store!Spec

\* mm.c:199-200 and mm.h:86: a full list holds only descriptors without a free block.
\* It does not hold: __free_blk_in_slab leaves a descriptor there until it is all free.
FullListHasNoFreeBlock ==
    \A s \in Slab : \A i \in DOMAIN q[<<"full", s>>] :
        BlockBits(s) \subseteq map[q[<<"full", s>>][i]]

\* mm.c:118: the block kept back is the one the kernel image lies in.
\* It does not hold for an image that starts beyond the first block.
KernelImageNeverHandedOut ==
    \A h \in held : h.adr + h.size <= kmem.start \/ kmem.end <= h.adr
=============================================================================
