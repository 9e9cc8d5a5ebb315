--------------------------------- MODULE Mem ---------------------------------
(***************************************************************************)
(* The functions of src/lib/string.c that write: memset, bcopy, memcpy,    *)
(* memmove, strcpy, strncpy, strcat and strncat, on one memory whose areas *)
(* may overlap.                                                            *)
(*                                                                         *)
(* A behaviour is one call; one action is one turn of a loop, which moves  *)
(* one byte.  All of them return their destination.                        *)
(***************************************************************************)
EXTENDS Integers

CONSTANTS
    Size,       \* bytes of memory, at the addresses 0 .. Size - 1
    Byte,       \* what a byte can be
    NUL,        \* the byte that ends a string
    Memories,   \* the contents of memory that are tried
    MemCalls    \* the calls made: [f, d, s, n, c] for destination, source, count, byte

Addr    == 0 .. (Size - 1)
Blocks  == {"memset", "bcopy", "memcpy", "memmove"}
Strs    == {"strcpy", "strncpy", "strcat", "strncat"}

ASSUME MemAssumption ==
    /\ Size \in Nat /\ NUL \in Byte
    /\ Memories \subseteq [Addr -> Byte]
    /\ MemCalls \subseteq [f : Blocks \cup Strs, d : Nat, s : Nat, n : Nat, c : Byte]

VARIABLES
    mem,
    at,         \* "call", a loop, or "back"
    op,         \* the call
    dst, src,   \* the pointers
    left,       \* count
    was         \* ghost: the memory when the call was made

memVars == <<mem, at, op, dst, src, left, was>>

-----------------------------------------------------------------------------
(* The calls a caller may make                                             *)

\* The string at s of memory m has l characters.
IsString(m, s, l) ==
    /\ s + l < Size /\ m[s + l] = NUL
    /\ \A k \in 0 .. (l - 1) : m[s + k] # NUL

\* k bytes can be read at s and written at e, lowest first, without a byte being
\* overwritten before it has been read.
Forwards(e, s, k) == e + k <= Size /\ s + k <= Size /\ (e <= s \/ s + k <= e)

Min2(x, y) == IF x <= y THEN x ELSE y

(* Memory areas lie in memory; strings are terminated, and are not copied  *)
(* over their own end.  Areas of memory may overlap as they like.          *)
LegalBlock(m, c) == c.d + c.n <= Size /\ (c.f = "memset" \/ c.s + c.n <= Size)

LegalString(m, c) ==
    \E l \in Addr : IsString(m, c.s, l) /\
        \/ c.f = "strcpy"  /\ Forwards(c.d, c.s, l + 1)
        \/ c.f = "strncpy" /\ Forwards(c.d, c.s, Min2(l + 1, c.n))
        \/ \E t \in Addr : IsString(m, c.d, t) /\
              \/ c.f = "strcat"  /\ Forwards(c.d + t, c.s, l + 1)
              \/ c.f = "strncat" /\ Forwards(c.d + t, c.s, Min2(l + 1, c.n)) /\ c.d + t + Min2(l, c.n) < Size

Legal(m, c) == IF c.f \in Blocks THEN LegalBlock(m, c) ELSE LegalString(m, c)

MemInit ==
    /\ op \in MemCalls /\ mem \in Memories /\ Legal(mem, op)
    /\ was = mem /\ at = "call"
    /\ dst = op.d /\ src = op.s /\ left = op.n

-----------------------------------------------------------------------------
(* The loops                                                               *)

Return == at' = "back" /\ UNCHANGED <<mem, op, dst, src, left, was>>

\* mutant: memmove copies from the top when it need not, and from the bottom when it must
EnterMoveSwapped ==
    /\ at = "call" /\ op.f = "memmove"
    /\ IF op.d > op.s
       THEN at' = "up" /\ UNCHANGED <<dst, src>>
       ELSE at' = "down" /\ dst' = op.d + op.n /\ src' = op.s + op.n
    /\ UNCHANGED <<mem, op, left, was>>

\* memmove copies from the end when the destination is above the source.
EnterMove ==
    /\ at = "call" /\ op.f = "memmove"
    /\ IF op.d <= op.s
       THEN at' = "up" /\ UNCHANGED <<dst, src>>
       ELSE at' = "down" /\ dst' = op.d + op.n /\ src' = op.s + op.n
    /\ UNCHANGED <<mem, op, left, was>>

Enter ==
    /\ at = "call" /\ op.f # "memmove"
    /\ at' = CASE op.f \in {"memcpy", "bcopy"} -> "up"
               [] op.f = "memset"              -> "fill"
               [] op.f = "strcpy"              -> "copy"
               [] op.f = "strncpy"             -> "copyn"
               [] op.f = "strcat"              -> "seek"
               [] op.f = "strncat"             -> IF left = 0 THEN "back" ELSE "seek"
    /\ UNCHANGED <<mem, op, dst, src, left, was>>

\* *tmp++ = *s++
CopyUp ==
    /\ at = "up"
    /\ IF left = 0 THEN Return
       ELSE /\ mem' = [mem EXCEPT ![dst] = mem[src]]
            /\ dst' = dst + 1 /\ src' = src + 1 /\ left' = left - 1
            /\ UNCHANGED <<at, op, was>>

\* *--tmp = *--s
CopyDown ==
    /\ at = "down"
    /\ IF left = 0 THEN Return
       ELSE /\ mem' = [mem EXCEPT ![dst - 1] = mem[src - 1]]
            /\ dst' = dst - 1 /\ src' = src - 1 /\ left' = left - 1
            /\ UNCHANGED <<at, op, was>>

Fill ==
    /\ at = "fill"
    /\ IF left = 0 THEN Return
       ELSE /\ mem' = [mem EXCEPT ![dst] = op.c]
            /\ dst' = dst + 1 /\ left' = left - 1
            /\ UNCHANGED <<at, op, src, was>>

\* mutant: the pointer stays where it is
SeekStuck ==
    /\ at = "seek"
    /\ IF mem[dst] # NUL THEN UNCHANGED <<dst, at>>
       ELSE at' = (IF op.f = "strcat" THEN "copy" ELSE "append") /\ UNCHANGED dst
    /\ UNCHANGED <<mem, op, src, left, was>>

\* while (*dest) dest++;
Seek ==
    /\ at = "seek"
    /\ IF mem[dst] # NUL THEN dst' = dst + 1 /\ UNCHANGED at
       ELSE at' = (IF op.f = "strcat" THEN "copy" ELSE "append") /\ UNCHANGED dst
    /\ UNCHANGED <<mem, op, src, left, was>>

\* while ((*dest++ = *src++) != '\0')
CopyString ==
    /\ at = "copy"
    /\ mem' = [mem EXCEPT ![dst] = mem[src]]
    /\ dst' = dst + 1 /\ src' = src + 1
    /\ at' = IF mem[src] = NUL THEN "back" ELSE at
    /\ UNCHANGED <<op, left, was>>

\* strncpy: while (count-- && (*dest++ = *src++) != '\0')
CopyAtMost ==
    /\ at = "copyn"
    /\ IF left = 0 THEN Return
       ELSE /\ mem' = [mem EXCEPT ![dst] = mem[src]]
            /\ dst' = dst + 1 /\ src' = src + 1 /\ left' = left - 1
            /\ at' = IF mem[src] = NUL THEN "back" ELSE at
            /\ UNCHANGED <<op, was>>

\* mutant: the string is not ended when the count is
AppendUnended ==
    /\ at = "append"
    /\ mem' = [mem EXCEPT ![dst] = mem[src]]
    /\ dst' = dst + 1 /\ src' = src + 1
    /\ left' = IF mem[src] = NUL THEN left ELSE left - 1
    /\ at' = IF mem[src] = NUL \/ left' = 0 THEN "back" ELSE at
    /\ UNCHANGED <<op, was>>

\* strncat: the loop that ends the string itself when the count has come to 0.
AppendString ==
    LET copied == [mem EXCEPT ![dst] = mem[src]]
    IN  /\ at = "append"
        /\ dst' = dst + 1 /\ src' = src + 1
        /\ left' = IF mem[src] = NUL THEN left ELSE left - 1
        /\ at' = IF mem[src] = NUL \/ left' = 0 THEN "back" ELSE at
        /\ mem' = IF mem[src] # NUL /\ left' = 0 THEN [copied EXCEPT ![dst + 1] = NUL] ELSE copied
        /\ UNCHANGED <<op, was>>

MemNext ==
    \/ Enter \/ EnterMove \/ CopyUp \/ CopyDown \/ Fill
    \/ Seek \/ CopyString \/ CopyAtMost \/ AppendString

MemSpec == MemInit /\ [][MemNext]_memVars

-----------------------------------------------------------------------------
(* Properties                                                              *)

\* Memory m after k bytes have been moved from s to d at once.
Moved(m, d, s, k) == [a \in Addr |-> IF d <= a /\ a < d + k THEN m[s + (a - d)] ELSE m[a]]

\* The one case left to the caller: bcopy and memcpy upwards into their own source.
Clobbers == op.f \in {"bcopy", "memcpy"} /\ ~Forwards(op.d, op.s, op.n)

\* What memory must be when a call on areas returns.
Wanted ==
    IF op.f = "memset"
    THEN [a \in Addr |-> IF op.d <= a /\ a < op.d + op.n THEN op.c ELSE was[a]]
    ELSE Moved(was, op.d, op.s, op.n)

\* memset, bcopy, memcpy and memmove leave in the destination what the source held, or
\* the byte given - memmove however the areas overlap (string.c:403), the others as
\* long as they do not run over their own source.  No step of any of them writes
\* outside the destination.
BlocksRight ==
    op.f \in Blocks =>
        /\ at = "back" /\ ~Clobbers => mem = Wanted
        /\ \A a \in Addr : mem[a] # was[a] => op.d <= a /\ a < op.d + op.n

\* The string functions copy up to and with the NUL, or the count, and change nothing
\* else: strncpy leaves a string that is cut without an end and pads nothing
\* (string.c:62-64), strncat always ends it (string.c:103).
StringsRight ==
    at = "back" /\ op.f \in Strs =>
        \E l, t \in 0 .. Size :
            LET e == op.d + t
                k == Min2(l, op.n)
            IN  /\ IsString(was, op.s, l)
                /\ CASE op.f = "strcpy"  -> mem = Moved(was, op.d, op.s, l + 1)
                     [] op.f = "strncpy" -> mem = Moved(was, op.d, op.s, Min2(l + 1, op.n))
                     [] op.f = "strcat"  -> IsString(was, op.d, t) /\ mem = Moved(was, e, op.s, l + 1)
                     [] op.f = "strncat" -> /\ IsString(was, op.d, t)
                                            /\ mem = IF op.n = 0 THEN was
                                                     ELSE [Moved(was, e, op.s, k) EXCEPT ![e + k] = NUL]

\* The variables are of their types, and the call is one a caller may make.
MemTypeOK ==
    /\ mem \in [Addr -> Byte] /\ was \in [Addr -> Byte]
    /\ op \in MemCalls /\ Legal(was, op)
    /\ at \in {"call", "up", "down", "fill", "seek", "copy", "copyn", "append", "back"}
    /\ dst \in 0 .. Size /\ src \in Nat /\ left \in 0 .. op.n
=============================================================================
