----------------------------- MODULE MCBlkLists -----------------------------
(* The block allocator of MCBlkMem, or calls on two lists over four        *)
(* entries, such as its queues are made of; a behaviour is one of the two. *)
EXTENDS MCBlkMem, DList

CONSTANTS h1, h2, e1, e2, e3, e4

MCHead == {h1, h2}
MCNode == {e1, e2, e3, e4}

VARIABLE
    machine     \* "blocks" or "lists"

blkListsVars == <<vars, listVars, machine>>

\* For the lists one kernel is enough.
BlkListsInit ==
    /\ Init /\ ListInit
    /\ machine \in {"blocks", "lists"} /\ (machine = "lists" => KernelFits)

BlkListsNext ==
    \/ machine = "blocks" /\ Next /\ UNCHANGED <<listVars, machine>>
    \/ machine = "lists" /\ ListNext /\ UNCHANGED <<vars, machine>>

BlkListsSpec == BlkListsInit /\ [][BlkListsNext]_blkListsVars
=============================================================================
