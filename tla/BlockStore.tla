----------------------------- MODULE BlockStore -----------------------------
(***************************************************************************)
(* What a block allocator promises its callers, whatever lists and bitmaps *)
(* it keeps: every block it hands out is one of the blocks it manages and  *)
(* is disjoint from every block that is still out; a block comes back only *)
(* if it is out.  BlkMem (src/hal/mm.c) is shown to implement this.        *)
(***************************************************************************)
EXTENDS Integers, FiniteSets

CONSTANT Block          \* the blocks that may ever be handed out: records [adr, size]

VARIABLE held           \* the blocks that are out

\* The addresses of a block.
Extent(b) == b.adr .. (b.adr + b.size - 1)

Disjoint(b, c) == b.adr + b.size <= c.adr \/ c.adr + c.size <= b.adr

Init == held = {}

Get ==
    \E b \in Block :
        /\ \A h \in held : Disjoint(b, h)
        /\ held' = held \cup {b}

Release == \E b \in held : held' = held \ {b}

Next == Get \/ Release

Spec == Init /\ [][Next]_held
=============================================================================
