----------------------------- MODULE MCPagePool -----------------------------
(* Small instance of PagePool: pages of 2 bytes, blocks of 4 and 8 pages,  *)
(* two descriptors of one large block each.                                *)
EXTENDS PagePool

MCBlkSize == <<8, 16>>
MCBitl    == <<2, 1>>
MCKernels == {[start |-> SpaceStart, end |-> SpaceStart + 2]}
MCAddrs   == {SpaceStart + 8 * i : i \in 0 .. 3}

\* The shape of new_page_mpool: a small block for small pages, a large one for
\* the next size, and a small one again for the largest.
MCPoolTable ==
    <<[max |-> 1, slab |-> 1], [max |-> 2, slab |-> 2], [max |-> 3, slab |-> 1]>>

\* Less than a page, one page, one and a half, two, three, three and a half (for
\* which a pool has no room), and too many.
MCPageSizes == {1, 2, 3, 4, 6, 7, 8}

\* An address in a pool's first page, one within an object, and NULL.
MCWildFrees == {[adr |-> a, size |-> 2] : a \in {0, SpaceStart + MapOne, SpaceStart + MapOne + 3}}
=============================================================================
