--------------------------- MODULE SpinLockProofs ---------------------------
(***************************************************************************)
(* The locks exclude, their owners run masked, and the mask comes back,    *)
(* for any number of cores and locks and any nesting: proofs about         *)
(* SpinLock.                                                               *)
(***************************************************************************)
EXTENDS SpinLock, SequenceTheorems, TLAPS

-----------------------------------------------------------------------------
(* The inductive invariant                                                 *)

Labels == {"off", "idle", "mrs", "msr", "ldrex", "strex", "crit", "str", "restore"}

\* x has masked its core: it is behind msr of its first lock.
Covered(x) == pc[x] \in {"ldrex", "strex", "crit", "str", "restore"} \/ depth[x] > 1

\* How far x is in its call.
Progress(x) ==
    /\ pc[x] = "off" => x[2] = "irq"
    /\ pc[x] \in {"off", "idle"} <=> depth[x] = 0
    /\ Len(flag[x]) = IF pc[x] = "mrs" THEN depth[x] - 1 ELSE depth[x]

\* What x has saved: the mask its call was entered with, and then that of a core that is
\* masked.
Saved(x) ==
    /\ \A k \in 2 .. Len(flag[x]) : flag[x][k] = TRUE
    /\ Len(flag[x]) >= 1 => flag[x][1] = entry[x]
    /\ pc[x] = "mrs" /\ depth[x] = 1 => entry[x] = IF Active(x) THEN masked[CoreOf(x)] ELSE FALSE

\* Behind its msr a context is not interrupted, and a handler never.
Masked(x) ==
    /\ Covered(x) => masked[CoreOf(x)] = TRUE /\ Active(x)
    /\ x[2] = "irq" => /\ pc[x] # "off" => masked[CoreOf(x)] = TRUE
                       /\ Len(flag[x]) >= 1 => flag[x][1] = TRUE

\* A mark that strex still finds is on a lock that is free.
Marked(x) == pc[x] = "strex" /\ monitor[CoreOf(x)] = Current(x) => lock[Current(x)] = 0

CtxOK(x) == Progress(x) /\ Saved(x) /\ Masked(x) /\ Marked(x)

IInv == TypeOK /\ (\A x \in Ctx : CtxOK(x)) /\ LocksExclude

-----------------------------------------------------------------------------
(* Contexts                                                                *)

LEMMA CtxFacts ==
    ASSUME NEW x \in Ctx
    PROVE  /\ CoreOf(x) \in Core /\ x = <<CoreOf(x), x[2]>> /\ x[2] \in {"task", "irq"}
           /\ x[2] = "irq" => x = Irq(CoreOf(x))
           /\ x[2] = "task" => x = Task(CoreOf(x))
BY DEF Ctx, CoreOf, Irq, Task

LEMMA CoreFacts ==
    ASSUME NEW c \in Core
    PROVE  /\ Irq(c) \in Ctx /\ CoreOf(Irq(c)) = c /\ Irq(c)[2] = "irq"
           /\ Task(c) \in Ctx /\ CoreOf(Task(c)) = c /\ Task(c)[2] = "task"
BY DEF Ctx, CoreOf, Irq, Task

\* Of two contexts of a core one runs: the other has not masked it, and is no handler
\* in the middle of its work.
LEMMA OneRuns ==
    ASSUME NEW x \in Ctx, NEW y \in Ctx, x # y, CoreOf(x) = CoreOf(y), Active(x),
           pc[x] # "off", CtxOK(y)
    PROVE  /\ ~Covered(y) /\ (y[2] = "irq" => pc[y] = "off")
           /\ y[2] = "task" => x = Irq(CoreOf(y)) /\ ~Active(y)
<1>1. CASE x[2] = "irq"
  <2>1. y[2] = "task" /\ x = Irq(CoreOf(y)) BY <1>1, CtxFacts
  <2>2. ~Active(y) BY <2>1 DEF Active
  <2> QED BY <2>1, <2>2 DEF CtxOK, Masked
<1>2. CASE x[2] # "irq"
  <2>1. y[2] = "irq" /\ y = Irq(CoreOf(x)) BY <1>2, CtxFacts
  <2>2. pc[y] = "off" BY <1>2, <2>1 DEF Active
  <2>3. depth[y] = 0 BY <2>2 DEF CtxOK, Progress
  <2>4. ~Covered(y) BY <2>2, <2>3 DEF Covered
  <2> QED BY <2>1, <2>2, <2>4
<1> QED BY <1>1, <1>2

\* The locks x may be working on.
LEMMA LockOf ==
    ASSUME TypeOK, NEW x \in Ctx, depth[x] >= 1
    PROVE  /\ depth[x] \in 1 .. Len(call[x]) /\ call[x] \in Calls /\ call[x] \in Seq(Lock)
           /\ Current(x) \in Lock /\ Current(x) # None
           /\ \A k \in 1 .. Len(call[x]) : call[x][k] \in Lock
           /\ \A i, j \in 1 .. Len(call[x]) : call[x][i] = call[x][j] => i = j
<1>1. call[x] \in Calls \cup {<<>>} /\ depth[x] \in Nat /\ depth[x] <= Len(call[x]) BY DEF TypeOK
<1>2. call[x] # <<>> BY <1>1
<1>3. call[x] \in Calls /\ call[x] \in Seq(Lock) BY <1>1, <1>2, CallsAssumption
<1>4. Len(call[x]) \in Nat /\ \A k \in 1 .. Len(call[x]) : call[x][k] \in Lock BY <1>3, LenProperties, ElementOfSeq
<1>5. depth[x] \in 1 .. Len(call[x]) BY <1>1, <1>4
<1> QED BY <1>3, <1>4, <1>5, CallsAssumption DEF Current

-----------------------------------------------------------------------------
(* The other contexts                                                      *)

\* A step of x in its call: it goes on at b, touches the mask of its own core only, and
\* what it does to the monitors of other cores and to the locks leaves no mark on a lock
\* that has been taken.
Steps(x, b) ==
    /\ pc[x] # "off" /\ b # "off" /\ Active(x) /\ pc' = [pc EXCEPT ![x] = b]
    /\ \A y \in Ctx : y # x => /\ call'[y] = call[y] /\ depth'[y] = depth[y]
                               /\ flag'[y] = flag[y] /\ entry'[y] = entry[y]
    /\ \A c \in Core : c # CoreOf(x) => masked'[c] = masked[c]
    /\ \A c \in Core : \A l \in Lock : c # CoreOf(x) /\ monitor'[c] = l =>
           monitor[c] = l /\ (lock[l] = 0 => lock'[l] = 0)

\* Nobody but x begins or ends to be interrupted.
LEMMA ActiveStays ==
    ASSUME TypeOK, NEW x \in Ctx, NEW b, Steps(x, b), NEW y \in Ctx
    PROVE  /\ Active(y)' = Active(y)
           /\ y # x => pc'[y] = pc[y]
           /\ pc'[x] = b
<1>1. pc'[x] = b /\ \A z \in Ctx : z # x => pc'[z] = pc[z] BY DEF Steps, TypeOK
<1>2. CASE y[2] = "irq" BY <1>1, <1>2 DEF Active
<1>3. CASE y[2] # "irq"
  <2>1. Irq(CoreOf(y)) \in Ctx BY CtxFacts, CoreFacts
  <2>2. pc'[Irq(CoreOf(y))] = "off" <=> pc[Irq(CoreOf(y))] = "off" BY <1>1, <2>1 DEF Steps
  <2>3. Active(y)' = Active(y) BY <1>3, <2>2 DEF Active
  <2> QED BY <1>1, <2>3
<1> QED BY <1>1, <1>2, <1>3

LEMMA OthersStay ==
    ASSUME TypeOK, \A z \in Ctx : CtxOK(z), NEW x \in Ctx, NEW b, Steps(x, b),
           NEW y \in Ctx, y # x
    PROVE  CtxOK(y)' /\ Owned(y)' = Owned(y)
<1>1. /\ pc'[y] = pc[y] /\ call'[y] = call[y] /\ depth'[y] = depth[y]
      /\ flag'[y] = flag[y] /\ entry'[y] = entry[y] /\ Active(y)' = Active(y)
  BY ActiveStays DEF Steps
<1>2. Owned(y)' = Owned(y) BY <1>1 DEF Owned
<1>3. Progress(y)' BY <1>1 DEF CtxOK, Progress
<1>4. CtxOK(y) /\ CoreOf(x) \in Core /\ CoreOf(y) \in Core BY CtxFacts
<1>5. CASE CoreOf(y) = CoreOf(x)
  <2>1. /\ ~Covered(y) /\ (y[2] = "irq" => pc[y] = "off")
        /\ y[2] = "task" => ~Active(y)
    BY <1>4, <1>5, OneRuns DEF Steps
  <2>2. Saved(y)'
    <3>1. pc[y] = "mrs" => y[2] = "task" BY <2>1, CtxFacts
    <3>2. pc[y] = "mrs" /\ depth[y] = 1 => entry[y] = FALSE BY <1>4, <2>1, <3>1 DEF CtxOK, Saved
    <3>3. pc[y] = "mrs" /\ depth[y] = 1 => ~Active(y)' BY <1>1, <2>1, <3>1
    <3> QED BY <1>1, <1>4, <3>2, <3>3 DEF CtxOK, Saved
  <2>3. Covered(y)' = Covered(y) BY <1>1 DEF Covered
  <2>4. Masked(y)' BY <1>1, <1>4, <2>1, <2>3 DEF CtxOK, Masked
  <2>5. Marked(y)' BY <1>1, <2>1 DEF Marked, Covered
  <2> QED BY <1>2, <1>3, <2>2, <2>4, <2>5 DEF CtxOK
<1>6. CASE CoreOf(y) # CoreOf(x)
  <2>1. masked'[CoreOf(y)] = masked[CoreOf(y)] BY <1>4, <1>6 DEF Steps
  <2>2. Saved(y)' BY <1>1, <1>4, <2>1 DEF CtxOK, Saved, CoreOf
  <2>3. Covered(y)' = Covered(y) BY <1>1 DEF Covered
  <2>4. Masked(y)' BY <1>1, <1>4, <2>1, <2>3 DEF CtxOK, Masked, CoreOf
  <2>5. Marked(y)'
    <3> SUFFICES ASSUME pc'[y] = "strex", monitor'[CoreOf(y)] = Current(y)' PROVE lock'[Current(y)'] = 0
      BY DEF Marked, CoreOf
    <3>1. pc[y] = "strex" /\ Current(y)' = Current(y) BY <1>1 DEF Current
    <3>2. depth[y] >= 1 BY <1>4, <3>1 DEF CtxOK, Progress, TypeOK
    <3>3. Current(y) \in Lock BY <3>2, LockOf
    <3>4. monitor[CoreOf(y)] = Current(y) /\ (lock[Current(y)] = 0 => lock'[Current(y)] = 0)
      BY <1>4, <1>6, <3>1, <3>3 DEF Steps
    <3> QED BY <1>4, <3>1, <3>4 DEF CtxOK, Marked
  <2> QED BY <1>2, <1>3, <2>2, <2>4, <2>5 DEF CtxOK
<1> QED BY <1>5, <1>6

-----------------------------------------------------------------------------
(* Owners                                                                  *)

LEMMA OwnersStay ==
    ASSUME LocksExclude, \A y \in Ctx : Owned(y)' = Owned(y), lock' = lock
    PROVE  LocksExclude'
BY DEF LocksExclude

LEMMA OneMore ==
    ASSUME LocksExclude, TypeOK, NEW x \in Ctx, NEW l \in Lock, lock[l] = 0,
           lock' = [lock EXCEPT ![l] = 1], Owned(x)' = Owned(x) \cup {l},
           \A y \in Ctx : y # x => Owned(y)' = Owned(y)
    PROVE  LocksExclude'
<1>1. \A y \in Ctx : l \notin Owned(y) BY DEF LocksExclude
<1>2. ASSUME NEW y \in Ctx, NEW z \in Ctx, y # z PROVE Owned(y)' \cap Owned(z)' = {}
  <2>1. Owned(y) \cap Owned(z) = {} BY <1>2 DEF LocksExclude
  <2>2. /\ Owned(y)' \subseteq Owned(y) \cup {l} /\ Owned(z)' \subseteq Owned(z) \cup {l}
        /\ l \in Owned(y)' => y = x
        /\ l \in Owned(z)' => z = x
    BY <1>1
  <2> QED BY <1>1, <1>2, <2>1, <2>2
<1>3. ASSUME NEW m \in Lock PROVE lock'[m] = 1 <=> \E y \in Ctx : m \in Owned(y)'
  <2>1. CASE m = l
    <3>1. lock'[m] = 1 BY <2>1 DEF TypeOK
    <3>2. m \in Owned(x)' BY <2>1
    <3> QED BY <3>1, <3>2
  <2>2. CASE m # l
    <3>1. lock'[m] = lock[m] BY <2>2 DEF TypeOK
    <3>2. \A y \in Ctx : m \in Owned(y)' <=> m \in Owned(y) BY <2>2
    <3> QED BY <3>1, <3>2 DEF LocksExclude
  <2> QED BY <2>1, <2>2
<1> QED BY <1>2, <1>3 DEF LocksExclude

LEMMA OneLess ==
    ASSUME LocksExclude, TypeOK, NEW x \in Ctx, NEW l \in Lock, l \in Owned(x),
           lock' = [lock EXCEPT ![l] = 0], Owned(x)' = Owned(x) \ {l},
           \A y \in Ctx : y # x => Owned(y)' = Owned(y)
    PROVE  LocksExclude'
<1>1. \A y \in Ctx : y # x => l \notin Owned(y) BY DEF LocksExclude
<1>2. \A y \in Ctx : Owned(y)' = Owned(y) \ {l} BY <1>1
<1>3. ASSUME NEW y \in Ctx, NEW z \in Ctx, y # z PROVE Owned(y)' \cap Owned(z)' = {}
  <2>1. Owned(y) \cap Owned(z) = {} BY <1>3 DEF LocksExclude
  <2> QED BY <1>2, <2>1
<1>4. ASSUME NEW m \in Lock PROVE lock'[m] = 1 <=> \E y \in Ctx : m \in Owned(y)'
  <2>1. CASE m = l
    <3>1. lock'[m] = 0 BY <2>1 DEF TypeOK
    <3> QED BY <1>2, <2>1, <3>1
  <2>2. CASE m # l
    <3>1. lock'[m] = lock[m] BY <2>2 DEF TypeOK
    <3>2. \A y \in Ctx : m \in Owned(y)' <=> m \in Owned(y) BY <1>2, <2>2
    <3> QED BY <3>1, <3>2 DEF LocksExclude
  <2> QED BY <2>1, <2>2
<1> QED BY <1>3, <1>4 DEF LocksExclude

\* What a context owns, by where it is.
LEMMA OwnedIs ==
    ASSUME NEW x \in Ctx
    PROVE  Owned(x) = {call[x][k] : k \in {j \in 1 .. depth[x] : j < depth[x] \/ pc[x] \in {"crit", "str"}}}
BY DEF Owned

-----------------------------------------------------------------------------
(* The steps of a call                                                     *)

LEMMA BeginStep ==
    ASSUME IInv, NEW x \in Ctx, NEW s \in Calls, Begin(x, s)
    PROVE  IInv'
<1>1. /\ Active(x) /\ pc[x] = "idle" /\ pc' = [pc EXCEPT ![x] = "mrs"]
      /\ call' = [call EXCEPT ![x] = s] /\ depth' = [depth EXCEPT ![x] = 1]
      /\ entry' = [entry EXCEPT ![x] = masked[CoreOf(x)]]
      /\ UNCHANGED <<lock, monitor, masked, flag>>
  BY DEF Begin, At, Go
<1>2. TypeOK /\ CtxOK(x) /\ CoreOf(x) \in Core BY CtxFacts DEF IInv
<1>3. Steps(x, "mrs") BY <1>1, <1>2 DEF Steps, TypeOK
<1>4. Len(s) \in Nat /\ Len(s) >= 1
  <2>1. s \in Seq(Lock) /\ s # <<>> BY CallsAssumption
  <2> QED BY <2>1, LenProperties, EmptySeq
<1>5. TypeOK'
  <2>1. /\ pc' \in [Ctx -> Labels] /\ call' \in [Ctx -> Calls \cup {<<>>}]
        /\ depth' \in [Ctx -> Nat] /\ entry' \in [Ctx -> BOOLEAN]
    BY <1>1, <1>2 DEF TypeOK, Labels
  <2>2. \A y \in Ctx : depth'[y] <= Len(call'[y]) BY <1>1, <1>2, <1>4 DEF TypeOK
  <2> QED BY <1>1, <1>2, <2>1, <2>2 DEF TypeOK, Labels
<1>6. CtxOK(x)'
  <2>1. pc'[x] = "mrs" /\ depth'[x] = 1 /\ entry'[x] = masked[CoreOf(x)] /\ flag'[x] = flag[x]
        /\ Active(x)' /\ depth[x] = 0 /\ Len(flag[x]) = 0
    BY <1>1, <1>2, <1>3, ActiveStays DEF TypeOK, CtxOK, Progress
  <2>2. Progress(x)' BY <2>1 DEF Progress
  <2>3. Saved(x)' BY <1>1, <2>1 DEF Saved, CoreOf
  <2>4. Masked(x)' BY <1>1, <1>2, <2>1 DEF Masked, Covered, CtxOK, CoreOf
  <2>5. Marked(x)' BY <2>1 DEF Marked
  <2> QED BY <2>2, <2>3, <2>4, <2>5 DEF CtxOK
<1>7. Owned(x) = {} /\ Owned(x)' = {}
  <2>1. depth[x] = 0 /\ pc[x] = "idle" BY <1>1, <1>2 DEF CtxOK, Progress
  <2>2. depth'[x] = 1 /\ pc'[x] = "mrs" BY <1>1, <1>2 DEF TypeOK
  <2> QED BY <2>1, <2>2 DEF Owned
<1>8. \A y \in Ctx : CtxOK(y)' /\ Owned(y)' = Owned(y) BY <1>3, <1>6, <1>7, OthersStay DEF IInv
<1> QED BY <1>1, <1>5, <1>8, OwnersStay DEF IInv

LEMMA MrsStep ==
    ASSUME IInv, NEW x \in Ctx, Mrs(x)
    PROVE  IInv'
<1>1. /\ Active(x) /\ pc[x] = "mrs" /\ pc' = [pc EXCEPT ![x] = "msr"]
      /\ flag' = [flag EXCEPT ![x] = Append(flag[x], masked[CoreOf(x)])]
      /\ UNCHANGED <<lock, monitor, masked, call, depth, entry>>
  BY DEF Mrs, At, Go
<1>2. TypeOK /\ CtxOK(x) /\ CoreOf(x) \in Core BY CtxFacts DEF IInv
<1>3. Steps(x, "msr") BY <1>1, <1>2 DEF Steps, TypeOK
<1>4. /\ flag[x] \in Seq(BOOLEAN) /\ masked[CoreOf(x)] \in BOOLEAN /\ depth[x] \in Nat
      /\ Len(flag[x]) = depth[x] - 1 /\ depth[x] >= 1
  BY <1>1, <1>2 DEF TypeOK, CtxOK, Progress
<1>5. /\ flag'[x] \in Seq(BOOLEAN) /\ Len(flag'[x]) = depth[x]
      /\ \A k \in 1 .. Len(flag[x]) : flag'[x][k] = flag[x][k]
      /\ flag'[x][depth[x]] = masked[CoreOf(x)]
  <2>1. flag'[x] = Append(flag[x], masked[CoreOf(x)]) BY <1>1, <1>2 DEF TypeOK
  <2>2. /\ flag'[x] \in Seq(BOOLEAN) /\ Len(flag'[x]) = Len(flag[x]) + 1
        /\ \A k \in 1 .. Len(flag[x]) : flag'[x][k] = flag[x][k]
        /\ flag'[x][Len(flag[x]) + 1] = masked[CoreOf(x)]
    BY <1>4, <2>1, AppendProperties
  <2>3. Len(flag[x]) + 1 = depth[x] BY <1>4
  <2> QED BY <2>2, <2>3
<1>6. TypeOK'
  <2>1. pc' \in [Ctx -> Labels] /\ flag' \in [Ctx -> Seq(BOOLEAN)]
    BY <1>1, <1>2, <1>5 DEF TypeOK, Labels
  <2> QED BY <1>1, <1>2, <2>1 DEF TypeOK, Labels
<1>7. CtxOK(x)'
  <2>1. /\ pc'[x] = "msr" /\ depth'[x] = depth[x] /\ entry'[x] = entry[x]
        /\ Active(x)' = Active(x) /\ masked'[CoreOf(x)] = masked[CoreOf(x)]
    BY <1>1, <1>3, <1>2, ActiveStays
  <2>2. Progress(x)' BY <1>1, <1>2, <1>4, <1>5, <2>1 DEF CtxOK, Progress
  <2>3. ASSUME depth[x] = 1 PROVE Saved(x)' /\ Masked(x)'
    <3>1. flag'[x][1] = entry[x] /\ Len(flag'[x]) = 1
      BY <1>1, <1>2, <1>5, <2>3 DEF CtxOK, Saved
    <3>2. Saved(x)' BY <2>1, <3>1 DEF Saved
    <3>3. Masked(x)'
      <4>1. ~Covered(x)' BY <2>1, <2>3 DEF Covered
      <4>2. x[2] = "irq" => masked[CoreOf(x)] = TRUE BY <1>1, <1>2 DEF CtxOK, Masked
      <4>3. x[2] = "irq" => flag'[x][1] = TRUE BY <1>5, <2>3, <4>2
      <4> QED BY <2>1, <4>1, <4>2, <4>3 DEF Masked, CoreOf
    <3> QED BY <3>2, <3>3
  <2>4. ASSUME depth[x] # 1 PROVE Saved(x)' /\ Masked(x)'
    <3>1. depth[x] > 1 /\ Covered(x) BY <1>4, <2>4 DEF Covered
    <3>2. masked[CoreOf(x)] = TRUE /\ Active(x) BY <1>2, <3>1 DEF CtxOK, Masked
    <3>3. \A k \in 2 .. Len(flag'[x]) : flag'[x][k] = TRUE
      <4>1. \A k \in 2 .. Len(flag[x]) : flag[x][k] = TRUE BY <1>2 DEF CtxOK, Saved
      <4> QED BY <1>4, <1>5, <3>2, <4>1
    <3>4. flag'[x][1] = flag[x][1] /\ Len(flag[x]) >= 1 BY <1>4, <1>5, <3>1
    <3>5. Saved(x)' BY <1>2, <2>1, <3>3, <3>4 DEF CtxOK, Saved
    <3>6. Masked(x)' BY <1>1, <1>2, <2>1, <3>1, <3>2, <3>4 DEF CtxOK, Masked, CoreOf
    <3> QED BY <3>5, <3>6
  <2>5. Marked(x)' BY <2>1 DEF Marked
  <2> QED BY <2>2, <2>3, <2>4, <2>5 DEF CtxOK
<1>8. Owned(x)' = Owned(x)
  <2>1. pc'[x] = "msr" BY <1>1, <1>2 DEF TypeOK
  <2> QED BY <1>1, <2>1 DEF Owned
<1>9. \A y \in Ctx : CtxOK(y)' /\ Owned(y)' = Owned(y) BY <1>3, <1>7, <1>8, OthersStay DEF IInv
<1> QED BY <1>1, <1>6, <1>9, OwnersStay DEF IInv

LEMMA MsrStep ==
    ASSUME IInv, NEW x \in Ctx, Msr(x)
    PROVE  IInv'
<1>1. /\ Active(x) /\ pc[x] = "msr" /\ pc' = [pc EXCEPT ![x] = "ldrex"]
      /\ masked' = [masked EXCEPT ![CoreOf(x)] = TRUE]
      /\ UNCHANGED <<lock, monitor, call, depth, flag, entry>>
  BY DEF Msr, At, Go
<1>2. TypeOK /\ CtxOK(x) /\ CoreOf(x) \in Core BY CtxFacts DEF IInv
<1>3. Steps(x, "ldrex") BY <1>1, <1>2 DEF Steps, TypeOK
<1>4. TypeOK'
  <2>1. pc' \in [Ctx -> Labels] /\ masked' \in [Core -> BOOLEAN] BY <1>1, <1>2 DEF TypeOK, Labels
  <2> QED BY <1>1, <1>2, <2>1 DEF TypeOK, Labels
<1>5. pc'[x] = "ldrex" /\ Active(x)' /\ masked'[CoreOf(x)] = TRUE
  BY <1>1, <1>2, <1>3, ActiveStays DEF TypeOK
<1>6. CtxOK(x)'
  <2>1. Progress(x)' BY <1>1, <1>2, <1>5 DEF CtxOK, Progress
  <2>2. Saved(x)' BY <1>1, <1>2, <1>5 DEF CtxOK, Saved
  <2>3. Masked(x)' BY <1>1, <1>2, <1>5 DEF CtxOK, Masked, CoreOf
  <2>4. Marked(x)' BY <1>5 DEF Marked
  <2> QED BY <2>1, <2>2, <2>3, <2>4 DEF CtxOK
<1>7. Owned(x)' = Owned(x) BY <1>1, <1>5 DEF Owned
<1>8. \A y \in Ctx : CtxOK(y)' /\ Owned(y)' = Owned(y) BY <1>3, <1>6, <1>7, <1>2, OthersStay DEF IInv
<1> QED BY <1>1, <1>4, <1>8, OwnersStay DEF IInv

LEMMA LdrexStep ==
    ASSUME IInv, NEW x \in Ctx, Ldrex(x)
    PROVE  IInv'
<1> DEFINE b == IF lock[Current(x)] = 0 THEN "strex" ELSE "ldrex"
<1>1. /\ Active(x) /\ pc[x] = "ldrex" /\ pc' = [pc EXCEPT ![x] = b]
      /\ monitor' = [monitor EXCEPT ![CoreOf(x)] = Current(x)]
      /\ UNCHANGED <<lock, masked, call, depth, flag, entry>>
  BY DEF Ldrex, At, Go
<1>2. TypeOK /\ CtxOK(x) /\ CoreOf(x) \in Core BY CtxFacts DEF IInv
<1>3. Steps(x, b) BY <1>1, <1>2 DEF Steps, TypeOK
<1>4. depth[x] >= 1 BY <1>1, <1>2 DEF CtxOK, Progress, TypeOK
<1>5. Current(x) \in Lock BY <1>2, <1>4, LockOf
<1>6. TypeOK'
  <2>1. pc' \in [Ctx -> Labels] /\ monitor' \in [Core -> Lock \cup {None}]
    BY <1>1, <1>2, <1>5 DEF TypeOK, Labels
  <2> QED BY <1>1, <1>2, <2>1 DEF TypeOK, Labels
<1>7. pc'[x] = b /\ Active(x)' /\ masked[CoreOf(x)] = TRUE
  BY <1>1, <1>2, <1>3, ActiveStays DEF CtxOK, Masked, Covered
<1>8. CtxOK(x)'
  <2>1. Progress(x)' BY <1>1, <1>2, <1>7 DEF CtxOK, Progress
  <2>2. Saved(x)' BY <1>1, <1>2, <1>7 DEF CtxOK, Saved
  <2>3. Masked(x)' BY <1>1, <1>2, <1>7 DEF CtxOK, Masked, CoreOf
  <2>4. Marked(x)' BY <1>1, <1>7 DEF Marked, Current
  <2> QED BY <2>1, <2>2, <2>3, <2>4 DEF CtxOK
<1>9. Owned(x)' = Owned(x) BY <1>1, <1>7 DEF Owned
<1>10. \A y \in Ctx : CtxOK(y)' /\ Owned(y)' = Owned(y) BY <1>3, <1>8, <1>9, <1>2, OthersStay DEF IInv
<1> QED BY <1>1, <1>6, <1>10, OwnersStay DEF IInv

LEMMA StrexStep ==
    ASSUME IInv, NEW x \in Ctx, Strex(x)
    PROVE  IInv'
<1> DEFINE c == CoreOf(x)
           l == Current(x)
<1>1. /\ Active(x) /\ pc[x] = "strex" /\ UNCHANGED <<masked, call, depth, flag, entry>>
  BY DEF Strex, At
<1>2. TypeOK /\ CtxOK(x) /\ c \in Core BY CtxFacts DEF IInv
<1>3. depth[x] >= 1 /\ depth[x] \in Nat BY <1>1, <1>2 DEF CtxOK, Progress, TypeOK
<1>4. l \in Lock /\ l # None BY <1>2, <1>3, LockOf
<1>5. masked[c] = TRUE BY <1>1, <1>2 DEF CtxOK, Masked, Covered
<1>6. CASE monitor[c] = l
  <2>1. /\ lock' = [lock EXCEPT ![l] = 1] /\ pc' = [pc EXCEPT ![x] = "crit"]
        /\ monitor' = [d \in Core |-> IF d = c \/ monitor[d] = l THEN None ELSE monitor[d]]
    BY <1>6 DEF Strex, Go
  <2>2. Steps(x, "crit")
    <3>1. \A d \in Core : \A m \in Lock : d # c /\ monitor'[d] = m =>
              monitor[d] = m /\ (lock[m] = 0 => lock'[m] = 0)
      BY <1>2, <1>4, <2>1, CallsAssumption DEF TypeOK
    <3> QED BY <1>1, <2>1, <3>1 DEF Steps
  <2>3. TypeOK'
    <3>1. /\ pc' \in [Ctx -> Labels] /\ monitor' \in [Core -> Lock \cup {None}]
          /\ lock' \in [Lock -> {0, 1}]
      BY <1>2, <2>1 DEF TypeOK, Labels
    <3> QED BY <1>1, <1>2, <3>1 DEF TypeOK, Labels
  <2>4. pc'[x] = "crit" /\ Active(x)' BY <1>1, <1>2, <2>2, ActiveStays
  <2>5. CtxOK(x)'
    <3>1. Progress(x)' BY <1>1, <1>2, <2>4 DEF CtxOK, Progress
    <3>2. Saved(x)' BY <1>1, <1>2, <2>4 DEF CtxOK, Saved
    <3>3. Masked(x)' BY <1>1, <1>2, <1>5, <2>4 DEF CtxOK, Masked, CoreOf
    <3>4. Marked(x)' BY <2>4 DEF Marked
    <3> QED BY <3>1, <3>2, <3>3, <3>4 DEF CtxOK
  <2>6. lock[l] = 0 BY <1>1, <1>2, <1>6 DEF CtxOK, Marked
  <2>7. Owned(x)' = Owned(x) \cup {l}
    <3>1. Owned(x) = {call[x][k] : k \in 1 .. (depth[x] - 1)} BY <1>1, <1>3 DEF Owned
    <3>2. Owned(x)' = {call[x][k] : k \in 1 .. depth[x]} BY <1>1, <1>3, <2>4 DEF Owned
    <3>3. 1 .. depth[x] = (1 .. (depth[x] - 1)) \cup {depth[x]} BY <1>3
    <3> QED BY <3>1, <3>2, <3>3 DEF Current
  <2>8. \A y \in Ctx : y # x => CtxOK(y)' /\ Owned(y)' = Owned(y) BY <1>2, <2>2, OthersStay DEF IInv
  <2>9. LocksExclude' BY <1>2, <1>4, <2>1, <2>6, <2>7, <2>8, OneMore DEF IInv
  <2> QED BY <2>3, <2>5, <2>8, <2>9 DEF IInv
<1>7. CASE monitor[c] # l
  <2>1. monitor' = [monitor EXCEPT ![c] = None] /\ pc' = [pc EXCEPT ![x] = "ldrex"] /\ lock' = lock
    BY <1>7 DEF Strex, Go
  <2>2. Steps(x, "ldrex") BY <1>1, <1>2, <2>1 DEF Steps, TypeOK
  <2>3. TypeOK'
    <3>1. pc' \in [Ctx -> Labels] /\ monitor' \in [Core -> Lock \cup {None}]
      BY <1>2, <2>1 DEF TypeOK, Labels
    <3> QED BY <1>1, <1>2, <2>1, <3>1 DEF TypeOK, Labels
  <2>4. pc'[x] = "ldrex" /\ Active(x)' BY <1>1, <1>2, <2>2, ActiveStays
  <2>5. CtxOK(x)'
    <3>1. Progress(x)' BY <1>1, <1>2, <2>4 DEF CtxOK, Progress
    <3>2. Saved(x)' BY <1>1, <1>2, <2>4 DEF CtxOK, Saved
    <3>3. Masked(x)' BY <1>1, <1>2, <1>5, <2>4 DEF CtxOK, Masked, CoreOf
    <3>4. Marked(x)' BY <2>4 DEF Marked
    <3> QED BY <3>1, <3>2, <3>3, <3>4 DEF CtxOK
  <2>6. Owned(x)' = Owned(x) BY <1>1, <2>4 DEF Owned
  <2>7. \A y \in Ctx : CtxOK(y)' /\ Owned(y)' = Owned(y) BY <1>2, <2>2, <2>5, <2>6, OthersStay DEF IInv
  <2> QED BY <2>1, <2>3, <2>7, OwnersStay DEF IInv
<1> QED BY <1>6, <1>7

LEMMA NestStep ==
    ASSUME IInv, NEW x \in Ctx, Nest(x)
    PROVE  IInv'
<1>1. /\ Active(x) /\ pc[x] = "crit" /\ pc' = [pc EXCEPT ![x] = "mrs"]
      /\ depth[x] < Len(call[x]) /\ depth' = [depth EXCEPT ![x] = @ + 1]
      /\ UNCHANGED <<lock, monitor, masked, call, flag, entry>>
  BY DEF Nest, At, Go
<1>2. TypeOK /\ CtxOK(x) /\ CoreOf(x) \in Core BY CtxFacts DEF IInv
<1>3. Steps(x, "mrs") BY <1>1, <1>2 DEF Steps, TypeOK
<1>4. depth[x] >= 1 /\ depth[x] \in Nat BY <1>1, <1>2 DEF CtxOK, Progress, TypeOK
<1>5. Len(call[x]) \in Nat BY <1>2, <1>4, LockOf, LenProperties
<1>6. TypeOK'
  <2>1. pc' \in [Ctx -> Labels] /\ depth' \in [Ctx -> Nat] BY <1>1, <1>2 DEF TypeOK, Labels
  <2>2. \A y \in Ctx : depth'[y] <= Len(call'[y]) BY <1>1, <1>2, <1>4, <1>5 DEF TypeOK
  <2> QED BY <1>1, <1>2, <2>1, <2>2 DEF TypeOK, Labels
<1>7. /\ pc'[x] = "mrs" /\ Active(x)' /\ depth'[x] = depth[x] + 1 /\ masked[CoreOf(x)] = TRUE
  BY <1>1, <1>2, <1>3, ActiveStays DEF TypeOK, CtxOK, Masked, Covered
<1>8. CtxOK(x)'
  <2>1. Progress(x)' BY <1>1, <1>2, <1>4, <1>7 DEF CtxOK, Progress
  <2>2. Saved(x)' BY <1>1, <1>2, <1>4, <1>7 DEF CtxOK, Saved
  <2>3. Masked(x)' BY <1>1, <1>2, <1>7 DEF CtxOK, Masked, CoreOf
  <2>4. Marked(x)' BY <1>7 DEF Marked
  <2> QED BY <2>1, <2>2, <2>3, <2>4 DEF CtxOK
<1>9. Owned(x)' = Owned(x)
  <2>1. Owned(x) = {call[x][k] : k \in 1 .. depth[x]} BY <1>1, <1>4 DEF Owned
  <2>2. Owned(x)' = {call[x][k] : k \in 1 .. depth[x]}
    <3>1. {j \in 1 .. (depth[x] + 1) : j < depth[x] + 1} = 1 .. depth[x] BY <1>4
    <3> QED BY <1>1, <1>7, <3>1 DEF Owned
  <2> QED BY <2>1, <2>2
<1>10. \A y \in Ctx : CtxOK(y)' /\ Owned(y)' = Owned(y) BY <1>2, <1>3, <1>8, <1>9, OthersStay DEF IInv
<1> QED BY <1>1, <1>6, <1>10, OwnersStay DEF IInv

LEMMA LeaveStep ==
    ASSUME IInv, NEW x \in Ctx, Leave(x)
    PROVE  IInv'
<1>1. /\ Active(x) /\ pc[x] = "crit" /\ pc' = [pc EXCEPT ![x] = "str"]
      /\ UNCHANGED <<lock, monitor, masked, call, depth, flag, entry>>
  BY DEF Leave, At, Go
<1>2. TypeOK /\ CtxOK(x) /\ CoreOf(x) \in Core BY CtxFacts DEF IInv
<1>3. Steps(x, "str") BY <1>1, <1>2 DEF Steps, TypeOK
<1>4. TypeOK'
  <2>1. pc' \in [Ctx -> Labels] BY <1>1, <1>2 DEF TypeOK, Labels
  <2> QED BY <1>1, <1>2, <2>1 DEF TypeOK, Labels
<1>5. pc'[x] = "str" /\ Active(x)' /\ masked[CoreOf(x)] = TRUE
  BY <1>1, <1>2, <1>3, ActiveStays DEF CtxOK, Masked, Covered
<1>6. CtxOK(x)'
  <2>1. Progress(x)' BY <1>1, <1>2, <1>5 DEF CtxOK, Progress
  <2>2. Saved(x)' BY <1>1, <1>2, <1>5 DEF CtxOK, Saved
  <2>3. Masked(x)' BY <1>1, <1>2, <1>5 DEF CtxOK, Masked, CoreOf
  <2>4. Marked(x)' BY <1>5 DEF Marked
  <2> QED BY <2>1, <2>2, <2>3, <2>4 DEF CtxOK
<1>7. Owned(x)' = Owned(x) BY <1>1, <1>5 DEF Owned
<1>8. \A y \in Ctx : CtxOK(y)' /\ Owned(y)' = Owned(y) BY <1>2, <1>3, <1>6, <1>7, OthersStay DEF IInv
<1> QED BY <1>1, <1>4, <1>8, OwnersStay DEF IInv

LEMMA StrStep ==
    ASSUME IInv, NEW x \in Ctx, Str(x)
    PROVE  IInv'
<1> DEFINE l == Current(x)
<1>1. /\ Active(x) /\ pc[x] = "str" /\ pc' = [pc EXCEPT ![x] = "restore"]
      /\ lock' = [lock EXCEPT ![l] = 0]
      /\ monitor' = [d \in Core |-> IF d # CoreOf(x) /\ monitor[d] = l THEN None ELSE monitor[d]]
      /\ UNCHANGED <<masked, call, depth, flag, entry>>
  BY DEF Str, At, Go, Unmark
<1>2. TypeOK /\ CtxOK(x) /\ CoreOf(x) \in Core BY CtxFacts DEF IInv
<1>3. depth[x] >= 1 /\ depth[x] \in Nat BY <1>1, <1>2 DEF CtxOK, Progress, TypeOK
<1>4. /\ l \in Lock /\ l # None /\ depth[x] \in 1 .. Len(call[x])
      /\ \A i, j \in 1 .. Len(call[x]) : call[x][i] = call[x][j] => i = j
  BY <1>2, <1>3, LockOf
<1>5. Steps(x, "restore")
  <2>1. \A d \in Core : \A m \in Lock : d # CoreOf(x) /\ monitor'[d] = m =>
            monitor[d] = m /\ (lock[m] = 0 => lock'[m] = 0)
    BY <1>1, <1>2, <1>4, CallsAssumption DEF TypeOK
  <2> QED BY <1>1, <2>1 DEF Steps
<1>6. TypeOK'
  <2>1. /\ pc' \in [Ctx -> Labels] /\ monitor' \in [Core -> Lock \cup {None}]
        /\ lock' \in [Lock -> {0, 1}]
    BY <1>1, <1>2, <1>4 DEF TypeOK, Labels
  <2> QED BY <1>1, <1>2, <2>1 DEF TypeOK, Labels
<1>7. pc'[x] = "restore" /\ Active(x)' /\ masked[CoreOf(x)] = TRUE
  BY <1>1, <1>2, <1>5, ActiveStays DEF CtxOK, Masked, Covered
<1>8. CtxOK(x)'
  <2>1. Progress(x)' BY <1>1, <1>2, <1>7 DEF CtxOK, Progress
  <2>2. Saved(x)' BY <1>1, <1>2, <1>7 DEF CtxOK, Saved
  <2>3. Masked(x)' BY <1>1, <1>2, <1>7 DEF CtxOK, Masked, CoreOf
  <2>4. Marked(x)' BY <1>7 DEF Marked
  <2> QED BY <2>1, <2>2, <2>3, <2>4 DEF CtxOK
<1>9. Owned(x) = {call[x][k] : k \in 1 .. depth[x]} BY <1>1, <1>3 DEF Owned
<1>10. Owned(x)' = {call[x][k] : k \in 1 .. (depth[x] - 1)}
  <2>1. {j \in 1 .. depth[x] : j < depth[x]} = 1 .. (depth[x] - 1) BY <1>3
  <2> QED BY <1>1, <1>7, <2>1 DEF Owned
<1>11. Owned(x)' = Owned(x) \ {l} /\ l \in Owned(x)
  <2>1. /\ 1 .. depth[x] = (1 .. (depth[x] - 1)) \cup {depth[x]}
        /\ depth[x] \notin 1 .. (depth[x] - 1) /\ depth[x] \in 1 .. depth[x]
    BY <1>3
  <2>2. 1 .. depth[x] \subseteq 1 .. Len(call[x])
    <3>1. call[x] \in Seq(Lock) /\ Len(call[x]) \in Nat BY <1>2, <1>3, LockOf, LenProperties
    <3> QED BY <1>3, <1>4, <3>1
  <2>3. \A k \in 1 .. (depth[x] - 1) : call[x][k] # l BY <1>4, <2>1, <2>2 DEF Current
  <2> QED BY <1>9, <1>10, <2>1, <2>3 DEF Current
<1>12. \A y \in Ctx : y # x => CtxOK(y)' /\ Owned(y)' = Owned(y) BY <1>2, <1>5, OthersStay DEF IInv
<1>13. LocksExclude' BY <1>1, <1>2, <1>4, <1>11, <1>12, OneLess DEF IInv
<1> QED BY <1>6, <1>8, <1>12, <1>13 DEF IInv

LEMMA RestoreStep ==
    ASSUME IInv, NEW x \in Ctx, Restore(x)
    PROVE  IInv' /\ (depth[x] = 1 => masked'[CoreOf(x)] = entry[x])
<1> DEFINE b == IF depth[x] = 1 THEN "idle" ELSE "str"
           n == depth[x]
<1>1. /\ Active(x) /\ pc[x] = "restore" /\ pc' = [pc EXCEPT ![x] = b]
      /\ masked' = [masked EXCEPT ![CoreOf(x)] = flag[x][n]]
      /\ flag' = [flag EXCEPT ![x] = SubSeq(flag[x], 1, Len(flag[x]) - 1)]
      /\ depth' = [depth EXCEPT ![x] = depth[x] - 1]
      /\ UNCHANGED <<lock, monitor, call, entry>>
  BY DEF Restore, At, Go
<1>2. TypeOK /\ CtxOK(x) /\ CoreOf(x) \in Core BY CtxFacts DEF IInv
<1>3. n >= 1 /\ n \in Nat /\ flag[x] \in Seq(BOOLEAN) /\ Len(flag[x]) = n
  BY <1>1, <1>2 DEF CtxOK, Progress, TypeOK
<1>4. Steps(x, b) BY <1>1, <1>2 DEF Steps, TypeOK
<1>5. flag[x][n] \in BOOLEAN BY <1>3, ElementOfSeq
<1>6. /\ flag'[x] \in Seq(BOOLEAN) /\ Len(flag'[x]) = n - 1
      /\ \A k \in 1 .. (n - 1) : flag'[x][k] = flag[x][k]
  <2>1. flag'[x] = SubSeq(flag[x], 1, n - 1) BY <1>1, <1>2, <1>3 DEF TypeOK
  <2>2. 1 \in 1 .. (Len(flag[x]) + 1) /\ n - 1 \in 0 .. Len(flag[x]) BY <1>3
  <2>3. SubSeq(flag[x], 1, n - 1) \in Seq(BOOLEAN) BY <1>3, <2>2, SubSeqProperties
  <2>4. /\ Len(SubSeq(flag[x], 1, n - 1)) = n - 1
        /\ \A k \in 1 .. (n - 1) : SubSeq(flag[x], 1, n - 1)[k] = flag[x][k]
    BY <1>3, <2>2, SubSeqProperties
  <2> QED BY <2>1, <2>3, <2>4
<1>7. n = 1 => flag[x][n] = entry[x] BY <1>2, <1>3 DEF CtxOK, Saved
<1>8. n > 1 => flag[x][n] = TRUE BY <1>2, <1>3 DEF CtxOK, Saved
<1>9. masked'[CoreOf(x)] = flag[x][n] BY <1>1, <1>2 DEF TypeOK
<1>10. TypeOK'
  <2>1. /\ pc' \in [Ctx -> Labels] /\ masked' \in [Core -> BOOLEAN]
        /\ flag' \in [Ctx -> Seq(BOOLEAN)]
    BY <1>1, <1>2, <1>5, <1>6 DEF TypeOK, Labels
  <2>2. n - 1 \in Nat /\ n - 1 <= Len(call[x])
    <3>1. Len(call[x]) \in Nat BY <1>2, <1>3, LockOf, LenProperties
    <3> QED BY <1>2, <1>3, <3>1 DEF TypeOK
  <2>3. depth' \in [Ctx -> Nat] BY <1>1, <1>2, <2>2 DEF TypeOK
  <2>4. \A y \in Ctx : depth'[y] <= Len(call'[y]) BY <1>1, <1>2, <2>2 DEF TypeOK
  <2> QED BY <1>1, <1>2, <2>1, <2>3, <2>4 DEF TypeOK, Labels
<1>11. pc'[x] = b /\ Active(x)' /\ depth'[x] = n - 1 /\ entry'[x] = entry[x]
  BY <1>1, <1>2, <1>4, ActiveStays DEF TypeOK
<1>12. CtxOK(x)'
  <2>1. Progress(x)' BY <1>3, <1>6, <1>11 DEF Progress
  <2>2. Saved(x)'
    <3>1. \A k \in 2 .. Len(flag'[x]) : flag'[x][k] = TRUE
      <4>1. \A k \in 2 .. n : flag[x][k] = TRUE BY <1>2, <1>3 DEF CtxOK, Saved
      <4>2. \A k \in 2 .. (n - 1) : k \in 2 .. n /\ k \in 1 .. (n - 1) BY <1>3
      <4> QED BY <1>6, <4>1, <4>2
    <3>2. Len(flag'[x]) >= 1 => flag'[x][1] = entry[x] BY <1>2, <1>3, <1>6 DEF CtxOK, Saved
    <3> QED BY <1>11, <3>1, <3>2 DEF Saved
  <2>3. Masked(x)'
    <3>1. Covered(x)' => n > 1 BY <1>3, <1>11 DEF Covered
    <3>2. x[2] = "irq" => flag[x][1] = TRUE BY <1>2, <1>3 DEF CtxOK, Masked
    <3>3. x[2] = "irq" => masked'[CoreOf(x)] = TRUE BY <1>3, <1>8, <1>9, <3>2
    <3>4. Len(flag'[x]) >= 1 /\ x[2] = "irq" => flag'[x][1] = TRUE BY <1>3, <1>6, <3>2
    <3> QED BY <1>8, <1>9, <1>11, <3>1, <3>3, <3>4 DEF Masked, CoreOf
  <2>4. Marked(x)' BY <1>11 DEF Marked
  <2> QED BY <2>1, <2>2, <2>3, <2>4 DEF CtxOK
<1>13. Owned(x)' = Owned(x)
  <2>1. Owned(x) = {call[x][k] : k \in 1 .. (n - 1)}
    <3>1. {j \in 1 .. n : j < n} = 1 .. (n - 1) BY <1>3
    <3> QED BY <1>1, <3>1 DEF Owned
  <2>2. Owned(x)' = {call[x][k] : k \in 1 .. (n - 1)}
    <3>1. CASE n = 1
      <4>1. 1 .. (n - 1) = {} BY <3>1
      <4> QED BY <1>1, <1>11, <4>1 DEF Owned
    <3>2. CASE n # 1 BY <1>1, <1>11, <3>2 DEF Owned
    <3> QED BY <3>1, <3>2
  <2> QED BY <2>1, <2>2
<1>14. \A y \in Ctx : CtxOK(y)' /\ Owned(y)' = Owned(y) BY <1>2, <1>4, <1>12, <1>13, OthersStay DEF IInv
<1>15. IInv' BY <1>1, <1>10, <1>14, OwnersStay DEF IInv
<1> QED BY <1>7, <1>9, <1>15

-----------------------------------------------------------------------------
(* The steps of a core                                                     *)

\* A core changes its mask, its mark, and whether its handler runs.  Its contexts have no
\* locks; a task that is about to save the mask has been interrupted, or will be.
CoreSteps(c) ==
    /\ UNCHANGED <<lock, call, depth, flag, entry>>
    /\ \A d \in Core : d # c => masked'[d] = masked[d] /\ monitor'[d] = monitor[d]
    /\ ~Covered(Task(c)) /\ ~Covered(Irq(c))
    /\ \A y \in Ctx : CoreOf(y) # c => pc'[y] = pc[y]
    /\ pc'[Task(c)] = pc[Task(c)]
    /\ pc[Irq(c)] \in {"off", "idle"} /\ pc'[Irq(c)] \in {"off", "idle"}
    /\ pc'[Irq(c)] = "idle" => masked'[c] = TRUE
    /\ pc[Task(c)] = "mrs" => /\ pc[Irq(c)] = "off" => masked[c] = FALSE
                              /\ pc'[Irq(c)] = "off" => masked'[c] = FALSE

LEMMA CoreStep ==
    ASSUME IInv, NEW c \in Core, CoreSteps(c), TypeOK'
    PROVE  IInv'
<1>1. TypeOK /\ \A y \in Ctx : CtxOK(y) BY DEF IInv
<1>2. ASSUME NEW y \in Ctx PROVE CtxOK(y)' /\ Owned(y)' = Owned(y)
  <2>1. /\ call'[y] = call[y] /\ depth'[y] = depth[y] /\ flag'[y] = flag[y] /\ entry'[y] = entry[y]
        /\ CtxOK(y) /\ CoreOf(y) \in Core /\ lock' = lock
    BY <1>1, CtxFacts DEF CoreSteps
  <2>2. CASE CoreOf(y) # c
    <3>1. pc'[y] = pc[y] /\ masked'[CoreOf(y)] = masked[CoreOf(y)] /\ monitor'[CoreOf(y)] = monitor[CoreOf(y)]
      BY <2>1, <2>2 DEF CoreSteps
    <3>2. pc'[Irq(CoreOf(y))] = pc[Irq(CoreOf(y))] BY <2>1, <2>2, CoreFacts DEF CoreSteps
    <3>3. Active(y)' = Active(y) BY <3>2 DEF Active, CoreOf, Irq
    <3>4. Progress(y)' BY <2>1, <3>1 DEF CtxOK, Progress
    <3>5. Saved(y)' BY <2>1, <3>1, <3>3 DEF CtxOK, Saved, CoreOf
    <3>6. Masked(y)' BY <2>1, <3>1, <3>3 DEF CtxOK, Masked, Covered, CoreOf
    <3>7. Marked(y)' BY <2>1, <3>1 DEF CtxOK, Marked, Current, CoreOf
    <3>8. Owned(y)' = Owned(y) BY <2>1, <3>1 DEF Owned
    <3> QED BY <3>4, <3>5, <3>6, <3>7, <3>8 DEF CtxOK
  <2>3. CASE y = Task(c)
    <3>1. pc'[y] = pc[y] /\ ~Covered(y) /\ y[2] = "task" /\ CoreOf(y) = c BY <2>3, CoreFacts DEF CoreSteps
    <3>2. ~Covered(y)' BY <2>1, <3>1 DEF Covered
    <3>3. Active(y)' <=> pc'[Irq(c)] = "off" BY <3>1 DEF Active, CoreOf
    <3>4. Progress(y)' BY <2>1, <3>1 DEF CtxOK, Progress
    <3>5. Saved(y)'
      <4>1. Active(y) <=> pc[Irq(c)] = "off" BY <3>1 DEF Active
      <4>2. pc[y] = "mrs" /\ depth[y] = 1 => entry[y] = FALSE
        BY <2>1, <2>3, <3>1, <4>1, ZenonT(40) DEF CtxOK, Saved, CoreSteps
      <4>3. pc[y] = "mrs" /\ Active(y)' => masked'[c] = FALSE BY <2>3, <3>3 DEF CoreSteps
      <4> QED BY <2>1, <3>1, <4>2, <4>3 DEF CtxOK, Saved, CoreOf
    <3>6. Masked(y)' BY <3>1, <3>2 DEF Masked
    <3>7. Marked(y)' BY <3>2 DEF Marked, Covered
    <3>8. Owned(y)' = Owned(y) BY <2>1, <3>1 DEF Owned
    <3> QED BY <3>4, <3>5, <3>6, <3>7, <3>8 DEF CtxOK
  <2>4. CASE y = Irq(c)
    <3>1. /\ pc[y] \in {"off", "idle"} /\ pc'[y] \in {"off", "idle"} /\ y[2] = "irq" /\ CoreOf(y) = c
          /\ (pc'[y] = "idle" => masked'[c] = TRUE)
      BY <2>4, CoreFacts DEF CoreSteps
    <3>2. depth[y] = 0 /\ Len(flag[y]) = 0 BY <2>1, <3>1 DEF CtxOK, Progress
    <3>3. Progress(y)' BY <2>1, <3>1, <3>2 DEF Progress
    <3>4. Saved(y)' BY <2>1, <3>1, <3>2 DEF Saved
    <3>5. Masked(y)' BY <2>1, <3>1, <3>2 DEF Masked, Covered, CoreOf
    <3>6. Marked(y)' BY <3>1 DEF Marked
    <3>7. Owned(y)' = Owned(y) BY <2>1, <3>1, <3>2 DEF Owned
    <3> QED BY <3>3, <3>4, <3>5, <3>6, <3>7 DEF CtxOK
  <2> QED BY <2>2, <2>3, <2>4, CtxFacts
<1>3. LocksExclude' BY <1>2, OwnersStay DEF IInv, CoreSteps
<1> QED BY <1>2, <1>3 DEF IInv

LEMMA SetMaskStep ==
    ASSUME IInv, NEW c \in Core, SetMask(c)
    PROVE  IInv'
<1>1. /\ Active(Task(c)) /\ pc[Task(c)] = "idle" /\ masked' = [masked EXCEPT ![c] = ~masked[c]]
      /\ UNCHANGED <<lock, monitor, pc, call, depth, flag, entry>>
  BY DEF SetMask, At
<1>2. TypeOK /\ CtxOK(Task(c)) /\ CtxOK(Irq(c)) BY CoreFacts DEF IInv
<1>3. pc[Irq(c)] = "off" BY <1>1, CoreFacts DEF Active
<1>4. depth[Task(c)] = 0 /\ depth[Irq(c)] = 0 BY <1>1, <1>2, <1>3 DEF CtxOK, Progress
<1>5. ~Covered(Task(c)) /\ ~Covered(Irq(c)) BY <1>1, <1>3, <1>4 DEF Covered
<1>6. TypeOK'
  <2>1. masked' \in [Core -> BOOLEAN] BY <1>1, <1>2 DEF TypeOK
  <2> QED BY <1>1, <1>2, <2>1 DEF TypeOK
<1>7. CoreSteps(c) BY <1>1, <1>2, <1>3, <1>5 DEF CoreSteps, TypeOK
<1> QED BY <1>6, <1>7, CoreStep

LEMMA TakeIrqStep ==
    ASSUME IInv, NEW c \in Core, TakeIrq(c)
    PROVE  IInv'
<1>1. /\ ~masked[c] /\ pc[Irq(c)] = "off" /\ pc' = [pc EXCEPT ![Irq(c)] = "idle"]
      /\ masked' = [masked EXCEPT ![c] = TRUE]
      /\ monitor' \in {monitor, [monitor EXCEPT ![c] = None]}
      /\ UNCHANGED <<lock, call, depth, flag, entry>>
  BY DEF TakeIrq, Go
<1>2. /\ TypeOK /\ CtxOK(Task(c)) /\ CtxOK(Irq(c)) /\ CoreOf(Task(c)) = c /\ CoreOf(Irq(c)) = c
      /\ Irq(c) \in Ctx /\ Task(c) \in Ctx /\ Task(c) # Irq(c)
  BY CoreFacts DEF IInv
<1>3. masked[c] = FALSE BY <1>1, <1>2 DEF TypeOK
<1>4. ~Covered(Task(c)) /\ ~Covered(Irq(c)) BY <1>2, <1>3 DEF CtxOK, Masked
<1>5. pc'[Irq(c)] = "idle" /\ masked'[c] = TRUE BY <1>1, <1>2 DEF TypeOK
<1>6. \A y \in Ctx : y # Irq(c) => pc'[y] = pc[y] BY <1>1, <1>2 DEF TypeOK
<1>7. \A d \in Core : d # c => masked'[d] = masked[d] /\ monitor'[d] = monitor[d]
  BY <1>1, <1>2 DEF TypeOK
<1>8. TypeOK'
  <2>1. pc' \in [Ctx -> Labels] BY <1>1, <1>2 DEF TypeOK, Labels
  <2>2. masked' \in [Core -> BOOLEAN] BY <1>1, <1>2 DEF TypeOK
  <2>3. monitor' \in [Core -> Lock \cup {None}] BY <1>1, <1>2 DEF TypeOK
  <2> QED BY <1>1, <1>2, <2>1, <2>2, <2>3 DEF TypeOK, Labels
<1>9. CoreSteps(c) BY <1>1, <1>2, <1>3, <1>4, <1>5, <1>6, <1>7 DEF CoreSteps
<1> QED BY <1>8, <1>9, CoreStep

LEMMA ReturnIrqStep ==
    ASSUME IInv, NEW c \in Core, ReturnIrq(c)
    PROVE  IInv'
<1>1. /\ pc[Irq(c)] = "idle" /\ pc' = [pc EXCEPT ![Irq(c)] = "off"]
      /\ masked' = [masked EXCEPT ![c] = FALSE]
      /\ UNCHANGED <<lock, monitor, call, depth, flag, entry>>
  BY DEF ReturnIrq, At, Go
<1>2. /\ TypeOK /\ CtxOK(Task(c)) /\ CtxOK(Irq(c)) /\ CoreOf(Task(c)) = c /\ CoreOf(Irq(c)) = c
      /\ Irq(c) \in Ctx /\ Task(c) \in Ctx /\ Task(c) # Irq(c) /\ Task(c)[2] = "task"
  BY CoreFacts DEF IInv
<1>3. depth[Irq(c)] = 0 /\ ~Covered(Irq(c)) BY <1>1, <1>2 DEF CtxOK, Progress, Covered
<1>4. ~Active(Task(c)) BY <1>1, <1>2 DEF Active
<1>5. ~Covered(Task(c)) BY <1>2, <1>4 DEF CtxOK, Masked
<1>6. pc'[Irq(c)] = "off" /\ masked'[c] = FALSE BY <1>1, <1>2 DEF TypeOK
<1>7. \A y \in Ctx : y # Irq(c) => pc'[y] = pc[y] BY <1>1, <1>2 DEF TypeOK
<1>8. \A d \in Core : d # c => masked'[d] = masked[d] BY <1>1, <1>2 DEF TypeOK
<1>9. TypeOK'
  <2>1. pc' \in [Ctx -> Labels] BY <1>1, <1>2 DEF TypeOK, Labels
  <2>2. masked' \in [Core -> BOOLEAN] BY <1>1, <1>2 DEF TypeOK
  <2> QED BY <1>1, <1>2, <2>1, <2>2 DEF TypeOK, Labels
<1>10. CoreSteps(c) BY <1>1, <1>2, <1>3, <1>5, <1>6, <1>7, <1>8 DEF CoreSteps
<1> QED BY <1>9, <1>10, CoreStep

-----------------------------------------------------------------------------
(* The theorems                                                            *)

LEMMA InitIInv == Init => IInv
<1> SUFFICES ASSUME Init PROVE IInv OBVIOUS
<1>1. <<>> \in Seq(BOOLEAN) /\ Len(<<>>) = 0 BY EmptySeq
<1>2. /\ \A x \in Ctx : /\ pc[x] = (IF x[2] = "task" THEN "idle" ELSE "off") /\ call[x] = <<>>
                        /\ depth[x] = 0 /\ flag[x] = <<>> /\ entry[x] = TRUE
      /\ \A c \in Core : masked[c] = TRUE
  BY DEF Init
<1>3. TypeOK BY <1>1, <1>2 DEF Init, TypeOK
<1>4. ASSUME NEW x \in Ctx PROVE CtxOK(x)
  <2>1. CoreOf(x) \in Core /\ x[2] \in {"task", "irq"} BY CtxFacts
  <2>2. Progress(x) BY <1>1, <1>2, <2>1 DEF Progress
  <2>3. Saved(x)
    <3>1. Len(flag[x]) = 0 /\ pc[x] \in {"idle", "off"} BY <1>1, <1>2
    <3>2. \A k \in 2 .. Len(flag[x]) : flag[x][k] = TRUE BY <3>1
    <3>3. ~(Len(flag[x]) >= 1) /\ pc[x] # "mrs" BY <3>1
    <3> QED BY <3>2, <3>3, Zenon DEF Saved
  <2>4. Masked(x) BY <1>1, <1>2, <2>1 DEF Masked, Covered
  <2>5. Marked(x) BY <1>2 DEF Marked
  <2> QED BY <2>2, <2>3, <2>4, <2>5 DEF CtxOK
<1>5. LocksExclude
  <2>1. \A x \in Ctx : Owned(x) = {} BY <1>2 DEF Owned
  <2> QED BY <2>1 DEF LocksExclude, Init
<1> QED BY <1>3, <1>4, <1>5 DEF IInv

LEMMA StepIInv == IInv /\ [Next]_vars => IInv'
<1> SUFFICES ASSUME IInv, [Next]_vars PROVE IInv' OBVIOUS
<1>1. CASE UNCHANGED vars
  <2>1. UNCHANGED <<lock, monitor, masked, pc, call, depth, flag, entry>> BY <1>1 DEF vars
  <2>2. TypeOK' BY <2>1 DEF IInv, TypeOK
  <2>3. \A x \in Ctx : Owned(x)' = Owned(x) BY <2>1 DEF Owned
  <2>4. LocksExclude' BY <2>1, <2>3 DEF IInv, LocksExclude
  <2>5. ASSUME NEW x \in Ctx PROVE CtxOK(x)'
    <3>1. Progress(x)' BY <2>1 DEF IInv, CtxOK, Progress
    <3>2. Active(x)' = Active(x) /\ Covered(x)' = Covered(x) /\ Current(x)' = Current(x)
      BY <2>1 DEF Active, Covered, Current, Irq, CoreOf
    <3>3. Saved(x)' BY <2>1, <3>2 DEF IInv, CtxOK, Saved, CoreOf
    <3>4. Masked(x)' BY <2>1, <3>2 DEF IInv, CtxOK, Masked, CoreOf
    <3>5. Marked(x)' BY <2>1, <3>2 DEF IInv, CtxOK, Marked, CoreOf
    <3> QED BY <3>1, <3>3, <3>4, <3>5 DEF CtxOK
  <2> QED BY <2>2, <2>4, <2>5 DEF IInv
<1>2. ASSUME NEW x \in Ctx, Run(x) PROVE IInv'
  BY <1>2, MrsStep, MsrStep, LdrexStep, StrexStep, NestStep, LeaveStep, StrStep, RestoreStep DEF Run
<1>3. ASSUME NEW x \in Ctx, NEW s \in Calls, Begin(x, s) PROVE IInv' BY <1>3, BeginStep
<1>4. ASSUME NEW c \in Core, SetMask(c) \/ TakeIrq(c) \/ ReturnIrq(c) PROVE IInv'
  BY <1>4, SetMaskStep, TakeIrqStep, ReturnIrqStep
<1> QED BY <1>1, <1>2, <1>3, <1>4 DEF Next

\* The inductive invariant holds, for any number of cores, locks and nested calls.
THEOREM Invariant == Spec => []IInv
BY InitIInv, StepIInv, PTL DEF Spec

\* Lock words, saved masks and nesting depths stay within their types (spinlock_t.h).
THEOREM TypeCorrect == Spec => []TypeOK
<1>1. IInv => TypeOK BY DEF IInv
<1> QED BY <1>1, Invariant, PTL

\* Whatever cores and handlers take the locks, a lock has one owner at most, and is
\* marked taken exactly while it has one (spinlock_t.h:23-48).
THEOREM LocksAlwaysExclude == Spec => []LocksExclude
<1>1. IInv => LocksExclude BY DEF IInv
<1> QED BY <1>1, Invariant, PTL

\* An owner's core is masked, so that no handler can wait for its locks
\* (spinlock_t.h:72-95).
THEOREM OwnersAlwaysMasked == Spec => []OwnersAreMasked
<1>1. IInv => OwnersAreMasked
  <2> SUFFICES ASSUME IInv, NEW x \in Ctx, Owned(x) # {} PROVE masked[CoreOf(x)] /\ Active(x)
    BY DEF OwnersAreMasked
  <2>1. TypeOK /\ CtxOK(x) /\ depth[x] \in Nat BY DEF IInv, TypeOK
  <2>2. PICK j \in 1 .. depth[x] : j < depth[x] \/ pc[x] \in {"crit", "str"} BY DEF Owned
  <2>3. Covered(x) BY <2>1, <2>2 DEF Covered
  <2> QED BY <2>1, <2>3 DEF CtxOK, Masked
<1> QED BY <1>1, Invariant, PTL

\* A call gives back the mask it found, however deep its locks nest (spinlock_t.h:87-95).
THEOREM MaskAlwaysRestored == Spec => MaskRestored
<1>1. IInv /\ [Next]_vars =>
        [\A x \in Ctx : pc[x] = "restore" /\ pc'[x] = "idle" => masked'[CoreOf(x)] = entry[x]]_vars
  <2> SUFFICES ASSUME IInv, Next, NEW x \in Ctx, pc[x] = "restore", pc'[x] = "idle"
               PROVE  masked'[CoreOf(x)] = entry[x]
    OBVIOUS
  <2>1. pc \in [Ctx -> Labels] BY DEF IInv, TypeOK, Labels
  <2>2. CASE Restore(x)
    <3>1. depth[x] = 1 BY <2>1, <2>2 DEF Restore, Go
    <3> QED BY <2>2, <3>1, RestoreStep
  <2>3. CASE ~Restore(x)
    <3>1. ASSUME NEW y \in Ctx, Run(y) \/ (\E s \in Calls : Begin(y, s)) PROVE FALSE
      <4>1. CASE y = x
        BY <2>3, <3>1, <4>1 DEF Run, Begin, Mrs, Msr, Ldrex, Strex, Nest, Leave, Str, At
      <4>2. CASE y # x
        <5>1. pc'[x] = pc[x]
          BY <2>1, <3>1, <4>2 DEF Run, Begin, Mrs, Msr, Ldrex, Strex, Nest, Leave, Str, Restore, Go
        <5> QED BY <5>1
      <4> QED BY <4>1, <4>2
    <3>2. ASSUME NEW c \in Core, SetMask(c) \/ TakeIrq(c) \/ ReturnIrq(c) PROVE FALSE
      <4>1. Irq(c) # x BY <3>2, CoreFacts DEF IInv, CtxOK, SetMask, TakeIrq, ReturnIrq, At, Active
      <4>2. pc'[x] = pc[x] BY <2>1, <3>2, <4>1 DEF SetMask, TakeIrq, ReturnIrq, Go
      <4> QED BY <4>2
    <3> QED BY <3>1, <3>2 DEF Next
  <2> QED BY <2>2, <2>3
<1> QED BY <1>1, Invariant, PTL DEF Spec, MaskRestored
=============================================================================
