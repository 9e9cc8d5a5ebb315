------------------------------ MODULE SpinLock ------------------------------
(***************************************************************************)
(* The spin locks of src/include/types/spinlock_t.h, instruction by        *)
(* instruction, as the memory managers use them: every call takes one or   *)
(* two locks with spin_lock_irqsave, the second inside the first, and      *)
(* gives them back with spin_unlock_irqrestore.                            *)
(*                                                                         *)
(* A core runs a task; when its interrupts are not masked it may be        *)
(* interrupted by a handler that makes the same calls and then returns.    *)
(* The repository's own handlers do nothing yet.                           *)
(***************************************************************************)
EXTENDS Integers, Sequences, FiniteSets

CONSTANTS
    Core,   \* CPUCORE_MAX of them
    Lock,   \* kmem_pool.page_lock, kmem_pool.lock, phy_mem.lock
    Calls   \* the locks a call takes, outermost first

Ctx  == Core \X {"task", "irq"}
None == "none"

\* A call takes each of its locks once.
ASSUME CallsAssumption ==
    /\ Calls \subseteq Seq(Lock) \ {<<>>}
    /\ \A s \in Calls : \A i, j \in 1 .. Len(s) : s[i] = s[j] => i = j
    /\ None \notin Lock

VARIABLES
    lock,       \* spinlock_t.lock: 0 or 1
    monitor,    \* the lock a core's ldrex has marked, or None
    masked,     \* the I and F bits of a core's CPSR
    pc,         \* next instruction of a context; "off": no interrupt is handled
    call,       \* the locks the call of a context takes
    depth,      \* how many of them it has begun to take
    flag,       \* the CPSR it saved for each (cpuflg_t)
    entry       \* ghost: the mask its call was entered with

vars == <<lock, monitor, masked, pc, call, depth, flag, entry>>

Task(c) == <<c, "task">>
Irq(c)  == <<c, "irq">>
CoreOf(x) == x[1]

\* A handler runs before the task it interrupted.
Active(x) == x[2] = "irq" \/ pc[Irq(CoreOf(x))] = "off"

\* x executes the instruction at label a and goes on at label b.
At(x, a) == Active(x) /\ pc[x] = a
Go(x, b) == pc' = [pc EXCEPT ![x] = b]

\* The lock x is taking or giving back, and the locks it has.
Current(x) == call[x][depth[x]]
Owned(x) ==
    {call[x][k] : k \in {j \in 1 .. depth[x] : j < depth[x] \/ pc[x] \in {"crit", "str"}}}

\* A store to lock l takes the mark off it on every other core.
Unmark(l, c) ==
    monitor' = [d \in Core |-> IF d # c /\ monitor[d] = l THEN None ELSE monitor[d]]

-----------------------------------------------------------------------------
(* spin_lock_irqsave                                                       *)

\* init.S enters with interrupts masked; every lock is spin_lock_init'ed.
Init ==
    /\ lock = [l \in Lock |-> 0]
    /\ monitor = [c \in Core |-> None]
    /\ masked = [c \in Core |-> TRUE]
    /\ pc = [x \in Ctx |-> IF x[2] = "task" THEN "idle" ELSE "off"]
    /\ call = [x \in Ctx |-> <<>>]
    /\ depth = [x \in Ctx |-> 0]
    /\ flag = [x \in Ctx |-> <<>>]
    /\ entry = [x \in Ctx |-> TRUE]

Begin(x, s) ==
    /\ At(x, "idle") /\ Go(x, "mrs")
    /\ call' = [call EXCEPT ![x] = s]
    /\ depth' = [depth EXCEPT ![x] = 1]
    /\ entry' = [entry EXCEPT ![x] = masked[CoreOf(x)]]
    /\ UNCHANGED <<lock, monitor, masked, flag>>

\* mutant: one saved CPSR for all the locks of a call
MrsShared(x) ==
    /\ At(x, "mrs") /\ Go(x, "msr")
    /\ flag' = [flag EXCEPT ![x] = [k \in 1 .. depth[x] |-> masked[CoreOf(x)]]]
    /\ UNCHANGED <<lock, monitor, masked, call, depth, entry>>

Mrs(x) ==
    /\ At(x, "mrs") /\ Go(x, "msr")
    /\ flag' = [flag EXCEPT ![x] = Append(@, masked[CoreOf(x)])]
    /\ UNCHANGED <<lock, monitor, masked, call, depth, entry>>

\* mutant: plain spin_lock, which leaves the interrupts as they are
MsrMissing(x) ==
    /\ At(x, "msr") /\ Go(x, "ldrex")
    /\ UNCHANGED <<lock, monitor, masked, call, depth, flag, entry>>

Msr(x) ==
    /\ At(x, "msr") /\ Go(x, "ldrex")
    /\ masked' = [masked EXCEPT ![CoreOf(x)] = TRUE]
    /\ UNCHANGED <<lock, monitor, call, depth, flag, entry>>

\* ldrex, teq: a lock that is taken is read again.
Ldrex(x) ==
    /\ At(x, "ldrex")
    /\ Go(x, IF lock[Current(x)] = 0 THEN "strex" ELSE "ldrex")
    /\ monitor' = [monitor EXCEPT ![CoreOf(x)] = Current(x)]
    /\ UNCHANGED <<lock, masked, call, depth, flag, entry>>

\* mutant: the result of strex is not tested
StrexUntested(x) ==
    /\ At(x, "strex") /\ Go(x, "crit")
    /\ lock' = [lock EXCEPT ![Current(x)] = 1]
    /\ UNCHANGED <<monitor, masked, call, depth, flag, entry>>

\* strexeq, teqeq, bne
Strex(x) ==
    LET c == CoreOf(x)
    IN  /\ At(x, "strex")
        /\ IF monitor[c] = Current(x)
           THEN /\ lock' = [lock EXCEPT ![Current(x)] = 1]
                /\ monitor' = [d \in Core |->
                      IF d = c \/ monitor[d] = Current(x) THEN None ELSE monitor[d]]
                /\ Go(x, "crit")
           ELSE /\ monitor' = [monitor EXCEPT ![c] = None]
                /\ Go(x, "ldrex")
                /\ UNCHANGED lock
        /\ UNCHANGED <<masked, call, depth, flag, entry>>

-----------------------------------------------------------------------------
(* The critical section and spin_unlock_irqrestore                         *)

\* The call takes its next lock, if it has one and needs it, ...
Nest(x) ==
    /\ At(x, "crit") /\ depth[x] < Len(call[x]) /\ Go(x, "mrs")
    /\ depth' = [depth EXCEPT ![x] = @ + 1]
    /\ UNCHANGED <<lock, monitor, masked, call, flag, entry>>

\* ... or leaves the critical section.
Leave(x) ==
    /\ At(x, "crit") /\ Go(x, "str")
    /\ UNCHANGED <<lock, monitor, masked, call, depth, flag, entry>>

\* mutant: the lock given back is always the outermost
StrOutermost(x) ==
    /\ At(x, "str") /\ Go(x, "restore")
    /\ lock' = [lock EXCEPT ![call[x][1]] = 0]
    /\ Unmark(call[x][1], CoreOf(x))
    /\ UNCHANGED <<masked, call, depth, flag, entry>>

Str(x) ==
    /\ At(x, "str") /\ Go(x, "restore")
    /\ lock' = [lock EXCEPT ![Current(x)] = 0]
    /\ Unmark(Current(x), CoreOf(x))
    /\ UNCHANGED <<masked, call, depth, flag, entry>>

\* msr cpsr restores what was saved for this lock; a call takes each of its locks
\* once, so that the section around it ends next.
Restore(x) ==
    /\ At(x, "restore") /\ Go(x, IF depth[x] = 1 THEN "idle" ELSE "str")
    /\ masked' = [masked EXCEPT ![CoreOf(x)] = flag[x][depth[x]]]
    /\ flag' = [flag EXCEPT ![x] = SubSeq(@, 1, Len(@) - 1)]
    /\ depth' = [depth EXCEPT ![x] = @ - 1]
    /\ UNCHANGED <<lock, monitor, call, entry>>

-----------------------------------------------------------------------------
(* The core                                                                *)

\* Between calls a task may mask and unmask interrupts (cpsid i, cpsie i).
SetMask(c) ==
    /\ At(Task(c), "idle")
    /\ masked' = [masked EXCEPT ![c] = ~@]
    /\ UNCHANGED <<lock, monitor, pc, call, depth, flag, entry>>

\* The core enters a handler masked; the mark of ldrex may or may not survive.
TakeIrq(c) ==
    /\ ~masked[c] /\ pc[Irq(c)] = "off"
    /\ Go(Irq(c), "idle")
    /\ masked' = [masked EXCEPT ![c] = TRUE]
    /\ monitor' \in {monitor, [monitor EXCEPT ![c] = None]}
    /\ UNCHANGED <<lock, call, depth, flag, entry>>

\* The return restores the CPSR of the task, which was not masked.
ReturnIrq(c) ==
    /\ At(Irq(c), "idle")
    /\ Go(Irq(c), "off")
    /\ masked' = [masked EXCEPT ![c] = FALSE]
    /\ UNCHANGED <<lock, monitor, call, depth, flag, entry>>

\* The instructions of a call in progress.
Run(x) ==
    \/ Mrs(x) \/ Msr(x) \/ Ldrex(x) \/ Strex(x)
    \/ Nest(x) \/ Leave(x) \/ Str(x) \/ Restore(x)

Next ==
    \/ \E x \in Ctx : Run(x) \/ (\E s \in Calls : Begin(x, s))
    \/ \E c \in Core : SetMask(c) \/ TakeIrq(c) \/ ReturnIrq(c)

Spec == Init /\ [][Next]_vars

\* Cores do not stop in the middle of a call, and the critical sections end.
FairSpec == Spec /\ \A x \in Ctx : WF_vars(Run(x)) /\ WF_vars(Leave(x))

-----------------------------------------------------------------------------
(* Properties                                                              *)

TypeOK ==
    /\ lock \in [Lock -> {0, 1}]
    /\ monitor \in [Core -> Lock \cup {None}]
    /\ masked \in [Core -> BOOLEAN]
    /\ pc \in [Ctx -> {"off", "idle", "mrs", "msr", "ldrex", "strex", "crit", "str", "restore"}]
    /\ call \in [Ctx -> Calls \cup {<<>>}]
    /\ depth \in [Ctx -> Nat] /\ \A x \in Ctx : depth[x] <= Len(call[x])
    /\ flag \in [Ctx -> Seq(BOOLEAN)]
    /\ entry \in [Ctx -> BOOLEAN]

\* A lock has one owner at most, on whatever cores and in whatever handlers the
\* callers run, and is marked taken exactly while it has one.
LocksExclude ==
    /\ \A x, y \in Ctx : x # y => Owned(x) \cap Owned(y) = {}
    /\ \A l \in Lock : lock[l] = 1 <=> \E x \in Ctx : l \in Owned(x)

\* While a core owns a lock its interrupts are masked, so that no handler ever waits
\* for a lock of the task it has interrupted.
OwnersAreMasked == \A x \in Ctx : Owned(x) # {} => masked[CoreOf(x)] /\ Active(x)

\* A call leaves the mask as it found it, however its locks nest and wherever it has
\* been interrupted: interrupts are neither lost for good nor let in too early.
MaskRestored ==
    [][\A x \in Ctx : pc[x] = "restore" /\ pc'[x] = "idle" =>
          masked'[CoreOf(x)] = entry[x]]_vars

\* Cores and handlers that make the calls for ever do not lock each other out: if a
\* call waits for a lock, some call gets one or gives one back.
SomeoneGoesOn ==
    (\E x \in Ctx : pc[x] = "ldrex") ~> (\E x \in Ctx : pc[x] \in {"crit", "restore"})
=============================================================================
