------------------------------- MODULE DList -------------------------------
(***************************************************************************)
(* The circular doubly linked lists of src/include/types/list.h, at the    *)
(* level of their pointers.  A list_head is either the head of a list or   *)
(* the link inside an entry.  The ghost variable lists says, as sequences, *)
(* what the calls made so far mean; the invariant is that the pointers     *)
(* say the same.                                                           *)
(*                                                                         *)
(* The kernel calls these functions with interrupts masked and a lock held *)
(* or before it has any concurrency, so one action is one call.            *)
(***************************************************************************)
EXTENDS Integers, Sequences, FiniteSets, FiniteSetsExt, SequencesExt

CONSTANTS
    Heads,  \* heads of lists
    Nodes   \* links of entries

ASSUME ElemAssumption == Heads \cap Nodes = {}

\* They lie in memory, so that there are finitely many.
ASSUME FiniteAssumption == IsFiniteSet(Heads \cup Nodes)

Elem == Heads \cup Nodes

VARIABLES
    ptr,    \* ptr.next[e], ptr.prev[e]
    lists   \* ghost: the entries of each list, in order

listVars == <<ptr, lists>>

-----------------------------------------------------------------------------
(* The functions of list.h, on a state p of the pointers                   *)

\* INIT_LIST_HEAD
Single(p, e) == [next |-> [p.next EXCEPT ![e] = e], prev |-> [p.prev EXCEPT ![e] = e]]

\* mutant: the successor's back pointer is not set
InsertForward(p, e, b, a) ==
    [next |-> [p.next EXCEPT ![e] = a, ![b] = e], prev |-> [p.prev EXCEPT ![e] = b]]

\* __list_add(entry, prev, next): the stores in their order.
Insert(p, e, b, a) ==
    [next |-> [p.next EXCEPT ![e] = a, ![b] = e],
     prev |-> [p.prev EXCEPT ![a] = e, ![e] = b]]

AddFront(p, e, h) == Insert(p, e, h, p.next[h])     \* list_add
AddTail(p, e, h)  == Insert(p, e, p.prev[h], h)     \* list_add_tail

\* __list_del(prev, next) and list_del: the entry keeps its own pointers.
Unlink(p, e) ==
    [next |-> [p.next EXCEPT ![p.prev[e]] = p.next[e]],
     prev |-> [p.prev EXCEPT ![p.next[e]] = p.prev[e]]]

UnlinkInit(p, e) == Single(Unlink(p, e), e)         \* list_del_init

\* mutant: the place to insert at is read before the entry is unlinked
MoveStale(p, e, h) == Insert(Unlink(p, e), e, p.prev[h], h)

ToTail(p, e, h) == AddTail(Unlink(p, e), e, h)    \* list_move_tail

ListEmpty(p, h) == p.next[h] = h                    \* list_empty

\* list_for_each_entry: the links visited after h until the walk is back at h; a
\* walk that never comes back visits more links than there are.
Walk(p, h) ==
    LET most == Cardinality(Elem)
        at[n \in 0 .. most] == IF n = 0 THEN p.next[h] ELSE p.next[at[n - 1]]
        ends == {n \in 0 .. most : at[n] = h}
    IN  IF ends = {} THEN [i \in 1 .. (most + 1) |-> at[i - 1]]
        ELSE [i \in 1 .. Min(ends) |-> at[i - 1]]

-----------------------------------------------------------------------------
(* The calls                                                               *)

On(e) == \E h \in Heads : \E i \in DOMAIN lists[h] : lists[h][i] = e

\* Every list_head is initialised before it is used.
ListInit ==
    /\ ptr = [next |-> [e \in Elem |-> e], prev |-> [e \in Elem |-> e]]
    /\ lists = [h \in Heads |-> <<>>]

\* Only entries that are on no list are added ...
ListAdd(e, h) ==
    /\ ~On(e)
    /\ ptr' = AddFront(ptr, e, h)
    /\ lists' = [lists EXCEPT ![h] = <<e>> \o @]

ListAddTail(e, h) ==
    /\ ~On(e)
    /\ ptr' = AddTail(ptr, e, h)
    /\ lists' = [lists EXCEPT ![h] = Append(@, e)]

\* ... and only entries that are on one are removed or moved.
ListDel(g, i) ==
    /\ ptr' = Unlink(ptr, lists[g][i])
    /\ lists' = [lists EXCEPT ![g] = RemoveAt(@, i)]

ListDelInit(g, i) ==
    /\ ptr' = UnlinkInit(ptr, lists[g][i])
    /\ lists' = [lists EXCEPT ![g] = RemoveAt(@, i)]

ListMoveTail(g, i, h) ==
    LET removed == [lists EXCEPT ![g] = RemoveAt(@, i)]
    IN  /\ ptr' = ToTail(ptr, lists[g][i], h)
        /\ lists' = [removed EXCEPT ![h] = Append(@, lists[g][i])]

ListNext ==
    \/ \E e \in Nodes, h \in Heads : ListAdd(e, h) \/ ListAddTail(e, h)
    \/ \E g \in Heads : \E i \in DOMAIN lists[g] :
          \/ ListDel(g, i) \/ ListDelInit(g, i)
          \/ \E h \in Heads : ListMoveTail(g, i, h)

ListSpec == ListInit /\ [][ListNext]_listVars

-----------------------------------------------------------------------------
(* Properties                                                              *)

ListTypeOK ==
    /\ ptr \in [next : [Elem -> Elem], prev : [Elem -> Elem]]
    /\ lists \in [Heads -> Seq(Nodes)]

\* The i-th link of the ring of head h, which the head itself closes.
Link(L, h, i) == IF i \in DOMAIN L[h] THEN L[h][i] ELSE h

\* No entry is twice on a list or on two lists.
Apart(L) ==
    \A g, h \in Heads : \A i \in DOMAIN L[g], j \in DOMAIN L[h] :
        L[g][i] = L[h][j] => g = h /\ i = j

\* Followed forwards and backwards, the pointers go once round every list.
Rings(p, L) ==
    \A h \in Heads : \A i \in 0 .. Len(L[h]) :
        /\ p.next[Link(L, h, i)] = Link(L, h, i + 1)
        /\ p.prev[Link(L, h, i + 1)] = Link(L, h, i)

\* The pointers are exactly the lists the calls meant to build, whatever entry is
\* removed, moved or added, at either end or in the middle, and whatever stale
\* pointers it brings along.
Represents == Apart(lists) /\ Rings(ptr, lists)

\* What the rest of the kernel reads off the pointers is what the lists hold: the
\* emptiness test, and the entries list_for_each_entry visits, in their order.  The test
\* is the one its callers in mm.c rely on: list_empty is true of a list without
\* entries, as its name and code say (list.h:132-135), where list.h:129 has it the other
\* way round.
ReadersSeeTheLists ==
    \A h \in Heads :
        /\ ListEmpty(ptr, h) <=> lists[h] = <<>>
        /\ Walk(ptr, h) = lists[h]
=============================================================================
