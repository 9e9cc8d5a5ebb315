# A verification of lmosem

lmosem is a small kernel for a single-core ARM board (i.MX6ULL). At this commit it
boots, sets up a console, a timer, a memory manager of blocks and one of pages, and
stops: there are no processes and the interrupt handlers are empty. What it has of an
operating system is its memory management, the locks and lists that is built on, and the
arithmetic and delays everything else uses. Those are modelled here in TLA+, checked
with TLC and, where it matters most, proved with TLAPS.

Paths in this document and in `PROJECT.json` are those of the repository, under `src/`.

## 1. The system

| component | code | state | operations | used by |
|---|---|---|---|---|
| block allocator | `hal/mm.c`, `hal/mm.h` | descriptors of 4 MB (bitmap, flag), three queues for each of six block sizes, a lock | `init_mm`, `alloc_mem_blk`, `free_mem_blk` | page pool, `init_hal` |
| page pool | `kernel/mem_pool.c`, `kernel/mem_pool.h` | list of pools, a cache of one pool, a counter; in every pool a free chain and a count; two locks | `kmem_pool_init`, `kmem_pool_alloc_page`, `kmem_pool_free_page` | `init_kernel` |
| linked lists | `types/list.h` | two pointers per entry | add, add at the tail, delete, move to the tail, walk | both memory managers |
| spin locks | `types/spinlock_t.h` | a word per lock, a saved CPSR per call, the exclusive monitor and mask of a core | lock/unlock, with and without saving the mask | both memory managers |
| delays | `hal/imx6ull/delay.c` | a hardware counter, locals | `delay_init`, `udelay`, `mdelay` | start-up, LED |
| 32-bit division | `hal/lib/*.S` | registers | `__udivsi3`, `__umodsi3`, `__divsi3`, `__modsi3` | every `/` and `%` |
| 64-bit division | `lib/div64.c`, `div64.h` | locals | `do_div` | number formatting |
| strings | `lib/string.c` | memory; `___strtok`, the place `strtok` has come to | `memset`, `bcopy`, `memcpy`, `memmove`, `memcmp`, `memscan`, `memchr`, `str*` | everything |
| formatting | `lib/vsprintf.c`, `lib/ctype.c` | the caller's buffer, locals | `vsnprintf`, `vscnprintf`, `vsprintf`, `simple_strto*`, `vsscanf` | console |
| console | `lib/printf.c`, `hal/imx6ull/uart.c` | two static buffers, the FIFOs of the UART | `printf`, `scanf`, `putc`, `getc`, `puts` | tests, `sys_die` |
| machine description | `hal/mach.c`, `hal/global.c` | tables | `init_mach` | block allocator |
| start-up, vectors, clocks, LED | `hal/imx6ull/*.S`, `platform.c`, `hal_init.c`, `clk.c`, `led.c` | hardware registers | run once | - |

How they meet: `init.S` masks interrupts and calls `hal_start`, which runs `init_hal`
(clocks, LED, timer, vectors, UART, machine description, `init_mm`, interrupt table) and
then `init_kernel` (page pool). A page call takes its lock, works on the pool list and
may call the block allocator, which takes `phy_mem.lock` inside. All list work is done
by `list.h`. An inconsistency the code detects ends in `sys_die`, which prints and never
returns.

### What is hard about it

* Long runs of legal calls: descriptors wander between eighteen queues, the free chains
  of the pools are reordered by every free, pools come and go under a cached pointer.
  The repository's own tests allocate and free in one order and one size at a time.
* Two books of account that must agree: bitmap and flag with the queue in the block
  allocator; chain, counter, list and cache with the block below in the page pool.
* Boundaries: sizes that do not divide the block, pools without room for an object, the
  last block, exhaustion in the middle of a call.
* Locks: they nest, save the mask, and are taken with `ldrex`/`strex`, while a handler
  may interrupt at any instruction where the mask lets it.
* Arithmetic at the edge of the word: a counter that wraps, divisors shifted up to the
  highest bit, a division loop that tests bits below the lowest.
* The end of a buffer: `vsprintf` passes half the address space as its size, so that the
  end wraps on this board; the writers stop at different places; `memmove` and `memcpy`
  meet areas that overlap; `strtok` keeps its place between calls.
* The UART: characters leave and keys arrive at their own pace, while `putc` and `getc`
  look at a status register. `printf` and `scanf` each have one buffer for everybody.
* Nothing is persisted and there are no messages, so crashes, loss and reordering of
  messages do not arise.

The hazards are listed with their lines in `PROJECT.json`, with the properties that
would show them going wrong.

## 2. The modules

| module | models | a step is |
|---|---|---|
| `BlockStore` | what an allocator of disjoint blocks promises | one block out or back |
| `BlkMem` | `hal/mm.c` | one call |
| `PagePool` (extends `BlkMem`) | `kernel/mem_pool.c` on top of `hal/mm.c` | one call, of pages or of blocks |
| `DList` | `types/list.h` | one call |
| `SpinLock` | `types/spinlock_t.h` and its nested use | one instruction, of one core |
| `Delay` | `udelay`, `mdelay` | one reading of the counter |
| `ArmDiv` | `hal/lib/*.S` | one turn of a loop |
| `Div64` | `do_div`, `__div64_32` | one turn of a loop |
| `Mem` | the functions of `lib/string.c` that write | one turn of a loop |
| `Strings` (extends `Mem`) | those that compare and search; `strtok`, `strsep` | one call |
| `Format` | `vsnprintf`, `number`, `put_dec`, as operators | - |
| `Scan` (extends `Format`) | `vsscanf`, `simple_strtoul` and its kin, as operators | - |
| `Formatting` (extends `Scan`) | `vsnprintf`, `vscnprintf`, `vsprintf`, then `vsscanf` on the text | one turn of the loop over the format |
| `Console` (extends `Scan`) | `printf`, `scanf`, `puts`, `putc`, `getc`, the UART | one character, or one wait |
| `SeqLemmas`, `BlkMemProofs`, `PagePoolProofs`, `DListProofs`, `SpinLockProofs`, `HalProofs`, `LibraryProofs`, `ConsoleProofs` | - | the theorems and their proofs |
| `MC...` | - | small instances |

**BlkMem.** `q` is the array of slabs: one sequence of descriptors for each of
`full_list`, `partial_list`, `empty_list` of each slab. `map` is `map_count` as the set
of its 1 bits, `acsz` the `MAPF_ACSZ_*` field of the flag. `held` is a ghost: the blocks
callers own. A descriptor is found for an allocation as the code finds it (partial lists
of the slab, then empty ones, then larger slabs), the first clear bit is set, and the
descriptor moves as `alloc_blk_on_desc` moves it. A free looks through partial and full
lists of the slab the size belongs to, clears one bit, and moves the descriptor to the
top slab's empty list only when all bits are clear. Every error return has an action.
`SysDie` is the state `sys_die` leaves: it goes nowhere.

**PagePool.** A pool is a record of the fields of `mem_pool_head` and the array of
`next` pointers of its maps. `pages` is a ghost: the pages callers own. The first pool
that fits is found through the cache or by walking the list; a new pool takes its block
from `BlkMem`'s own operators, with every failure in between. `wild` becomes true
when `find_deleted_pool_head` follows a NULL pointer; no later state is modelled.
Callers may also call the block allocator directly. `CarelessSpec` adds callers that
free what they do not own.

**DList.** `ptr` holds the pointers, and a deleted entry keeps its stale ones. `lists`
is a ghost: the sequences the calls mean.

**SpinLock.** Every instruction of `spin_lock_irqsave` and `spin_unlock_irqrestore` that
touches shared state is a step of a context, which is the task or the handler of a core.
A handler may start at any step at which the mask of its core is clear, and makes the
calls the task makes. A `strex` fails when the mark has gone: by a store of another core
or, as the architecture allows, by taking an interrupt. The board has one core
(`CPUCORE_MAX`); the run has two, for which `ldrex` and `strex` are written.

**Delay.** Before every reading the counter advances by 0 to `Lag`. `usdelay`, the counter
and the sum are words of one width (`Period` is 2^32). `elapsed` is a ghost, and because a
delay that the sum steps over may go on for ever, it stops at `MaxElapsed`, two periods, far
behind any time a delay may take. `Fits` says of a delay that its last reading cannot carry
the sum past the width.

**ArmDiv.** A register is a word of `W` bits, as a number; `curbit`, of which only one bit
is ever set, is modelled by the place of that bit, and `overdone` by the set of the places
of its bits. `__LINUX_ARM_ARCH__` is defined nowhere in the build, so the branches without
`clz` are modelled, with `ARM_DIV2_ORDER` as it takes the order of a power of two apart.

**Div64.** `Word` stands for 2^32, so that sums of 64 bits wrap at `Word * Word`.

**Mem, Strings.** Memory is a function of addresses, and areas and strings lie in it
anywhere, over one another too. A legal call stays in memory, gives strings that end, and
does not copy a string over its own end; nothing is asked of the areas of `memcpy`,
`bcopy` and `memmove`, and `BlocksRight` says which of them then keep their promise.
`was` is a ghost: the memory when the call was made. The functions that only read are
operators on two loops, `Up` and `Down`, recursive functions that go on until they stop;
`Read` calls one. `Capitals` are the letters `_ctype` marks with `_U`, those of ISO 8859-1
from 192 on among them; the reference of `strnicmp` goes by the small letters instead
(`SmallOf`). `strtok` and `strsep` are called until they give NULL, with delimiters
that lie apart from the string; `toks` is a ghost: the tokens they gave. Bytes are 0 to
255 at most (`StringsAssumption`): plain `char` is unsigned on ARM.

**Format, Scan.** A format is a sequence of items, a character or a directive: flags,
width, precision, qualifier, conversion, and the argument it takes, as the pattern of its
bits. How the text of a directive is taken apart, and how `va_arg` finds the argument, is
left out; all that is then done with them is there: truncation to the type, sign, digits
by `put_dec_trunc`'s multiplications and shifts, prefix, padding, and what of it is
stored where. `Runaway` marks the numbers for which the loop of `number` never ends.
`Scan` keeps the place in the string between items as `vsscanf` does.

**Formatting.** One call formats into a buffer at an address of a small address space
(`Top`), so that ends wrap, and `str` with them: behind the last address comes 0. Then
`vsscanf` reads the text with the matching format. `text` is a ghost: what was to be written.

**Console.** The processor is in one call at a time. `Put` is enabled when the transmit
FIFO is empty (TXDC), `Get` when the receive FIFO is not (RDR); `Transmit` and `Type` may
come between any two of its steps. `wild` is the state after a line that is longer than
`InBufSize`: what it overwrites is not modelled. `said`, `typed` and `lines` are ghosts: what
the terminal ought to get, the keys that came into the FIFO, and the lines read with the
number of keys that had come up to their ends.

**MCLibrary** composes the library: `Div64`, `Strings`, `Formatting` and `Console`. A
behaviour is a call of one of the first three, or calls of the console. **MCBlkLists** does
the same for `BlkMem` and `DList`, **MCHal** for `ArmDiv` and `Delay`.

### Atomicity

`alloc_mem_blk`, `free_mem_blk`, `kmem_pool_alloc_page` and `kmem_pool_free_page` run
from beginning to end with interrupts masked on the only core. That is why one step is
one call in `BlkMem` and `PagePool`; that the mask is set before the lock is taken,
stays through nested locks, and comes back afterwards is not assumed but checked, in
`SpinLock` (`OwnersAreMasked`, `MaskRestored`).

## 3. The runs

| run | question | instance |
|---|---|---|
| `blk_mem` | Is the block allocator correct for every order of calls? Do the pointers always form the lists meant? | 3 slabs, 3 descriptors, all addresses and sizes, legal or not, two kernels; 2 lists, 4 entries |
| `blk_full_list` | Is every descriptor on a full list full? **No** | as above |
| `blk_kernel_image` | Is the kernel's image kept back? **No** | image in the third descriptor |
| `page_pool` | Is the page pool correct for every order of calls of its owners? | 2 descriptors of 2 blocks of 4 pages, 7 page sizes |
| `page_pool_walk` | Can every page that is out be freed? **No** | as above |
| `page_pool_careless` | Is a page freed only while it is out? **No** | as above, careless callers |
| `locks` | Do the locks exclude, nest, and keep the mask? | 2 cores, task and handler each, 3 locks |
| `hal` | Do the 32-bit divisions give what C says and lose no bit, are delays neither early nor late, and do all of them end that fit? | all pairs of 7-bit words; period 12, lag 3, all delays |
| `arm_umod` | Does umod's repair leave alone what was right? **No** | all pairs of 7-bit words |
| `long_delay` | Are delays of any length on time? **No** | as `hal` |
| `library` | Do the 64-bit division and the strings give what C says, and the formats but for the departures listed? Does every character of the console come and go once and in order, and does every call return? | see below; FIFOs of 2, 3 calls, 4 keys |
| `buffer_top` | Is what does not fit the buffer always cut off? **No** | a buffer that ends at the last address |

### Why the bounds are enough

* `blk_mem`: three slabs give a smallest, a middle and a largest size, so a descriptor
  can be split, be passed over because it belongs to another slab, and become whole
  again; three descriptors let one be full, one partial and one empty next to the
  kernel's. The bitmap of 4 bits replaces that of 32. Blocks are 2 bytes and more, so
  that addresses inside a block exist and are tried. The proofs then remove the bounds.
* `page_pool`: a block of 8 bytes is 4 pages of 2 bytes, so a pool has 3 objects of one
  page, one of two or of three, and none of three and a half. The pool table keeps the
  shape of `new_page_mpool`: small, larger, and small blocks again. Memory runs out, in
  direct calls and in the middle of page calls.
* `blk_mem`, lists: an entry can be first, last, in the middle and alone on either list while
  another is moved; the proof covers every number.
* `locks`: two cores and a handler on each are four contexts, two to contend and one
  on each to interrupt the other; the nesting is two deep, as deep as the code goes.
* `hal`, `long_delay`: delays are all words, 0 to 11: those up to 9 fit, the last of them
  with room for exactly one reading of 3, and the sum can step over 10 and 11. The counter
  wraps inside delays at every phase. What is said of delays that fit is proved for every
  period; the others may be late by any time, or never end.
* `hal`, divisions (`W` = 7, all pairs of words): the loop that goes down makes up to two
  turns, ended at each of its four tests, by zero and by the lowest bit; the shift by
  four and the shift by one are both used, and stop for either reason. The
  least number and zero are included, and powers of two on both sides of the test for 4
  that ends `ARM_DIV2_ORDER`. The proof covers every width up to 32.
* `library`, 64-bit division (`Word` = 16, all dividends of 8 bits by all divisors of 4):
  both branches of the first reduction, and the divisor shifted up to the last bit. The
  proof covers every width.
* `library`, strings: a memory of 8 bytes, five places of which may or may not end a
  string; every source and destination from 0 to 4 with every count to 4, so that areas
  overlap in either direction by any amount. The bytes differ, so that a byte that has
  gone astray is seen. For the searches, all strings to 4 letters against all to 2 of
  three, and strings of delimiters, letters and both; for `strnicmp` also letters from
  beyond ASCII in either case and the signs 215 and 247. The proofs cover all memories.
* `library`, formats: shorts of 8 bits, ints of 16, long longs of 24 and addresses of 7.
  A single directive with all 32 sets of flags, widths below and above the text, no
  precision, 0 and 3, and the numbers at both ends of each type; some 10000
  numbers that bring every digit and carry of `put_dec_trunc`, and its second chunk; five formats
  of several directives in buffers of every size to 16, larger than memory, negative, and
  in the upper half of the address space, where `vsprintf`'s end wraps; buffers at and over
  the end of memory and at its beginning, and texts that run through the last address.
  `buffer_top` has the last of these only: 8 characters up to the last address.
* `library`, console: every text is longer than the transmit FIFO of 2, so that a `putc` that
  does not wait loses characters; a receive FIFO of 2 and four keys lose keys; a line of 3
  fits `InBufSize` and one of 4 does not; three calls put output and input next to each other
  in every order. The keys are a digit, both ends of a line and a NUL, at which `vsscanf`
  ends the line.

### Fairness

Safety properties are checked without fairness. The liveness properties assume

* `SomeoneGoesOn`: a core that has begun a call executes its instructions, and the
  critical sections end (they are loops over finite lists). Nothing is assumed of
  `strex` but that it fails only when the mark is gone.
* `HalReturns`, which speaks of delays that fit and is `EveryDelayEnds` and
  `DivisionsReturn`: the core goes on executing the loop it is in (`WF` of `Delay`'s `Step` and of `ArmDiv`'s `Next`) and the counter
  goes on counting. A reading may find the counter unchanged, but the fairness of reading
  together with the finite lag means it advances in the end.
* `AllReturn`: the processor executes the loop it is in (`WF` of `Loops`).
* `CallsEnd` of the console: the processor goes on with the call it is in and the UART
  sends what is in its FIFO. Nobody has to type: a `scanf` ends once the end of a line is
  in the FIFO, and not otherwise.

`CHECK_DEADLOCK FALSE` is set for `library`, `hal`, `arm_umod`, `long_delay` and
`buffer_top`, where a division or a call of the library ends the behaviour with its return,
and calls and keys of the console come to an end.

## 4. What the checks show

**Block allocator.** The queues always describe the bitmaps (as far as the code means
them to, see below), the blocks out are exactly those marked, no two overlap, the
kernel's own is never handed out, a block that is out can be freed whatever happened to
its descriptor, and when all are back all memory but the kernel's descriptor is in
blocks of 4 MB again. It implements `BlockStore`.

**Page pool.** Every free chain runs once through exactly the free objects; list,
counter, cache and blocks agree; pages, pool headers and direct blocks never overlap; a
pool goes back with its last page; none of the `sys_die` calls is reached; and pages and
blocks together implement `BlockStore`. `UsesBlocksLikeAnyCaller` says that the
composition is a behaviour of `BlkMem`, so what is proved of the blocks holds below the
pages too.

**Strings.** `memmove` is right however its areas overlap, `memcpy` and `bcopy` unless
they run upwards into their own source; no function writes outside its destination; the
string functions copy up to the NUL or the count, in the way each has; searches and
comparisons give the first, last or differing place; the tokens are the pieces of the
string and stay where they were given out.

**Formatting.** A directive gives what ISO C99 says of it, for every flag it is combined
with, but for the departures listed below, and there it gives what is said there. Of a text
that does not run through the last address nothing is written outside the buffer, whatever
its size, unless it lies at address 0, and what is kept ends in a NUL; the return value is
that of the comments as far as an int holds it. What is printed can be read back.

**Console.** No character is lost or sent twice, the carriage returns come where they
should, no key is lost between calls, and every call ends.

**Lists, locks, delays, divisions** do what they should, but for the following.

### Findings

| run | where | what |
|---|---|---|
| `blk_full_list` | `hal/mm.c:384` | A full descriptor one of whose blocks is freed stays on the full list, where no allocation looks, until all of it is free. In the first descriptor, which is never all free, the loss is for good. |
| `blk_kernel_image` | `hal/mm.c:122` | The 128 KB kept back lie at 0x80000000, the image at 0x87800000: its memory is handed out. |
| `page_pool_walk` | `kernel/mem_pool.c:320` | The walk that looks for the pool of a page overwrites its cursor with NULL when the first pool does not match. |
| `page_pool_careless` | `kernel/mem_pool.c:269` | The last page of a free chain looks like one that is out: freeing it again is accepted. |
| `arm_umod` | `hal/lib/_umodsi3.S:68` | When nothing remains after the first turn and the divisor is in the highest two places, a right subtraction is undone: 0xA0000000 % 1 gives 0x20000000. The compiler's own `%` goes through `__aeabi_uidivmod` and is not affected. |
| `long_delay` | `hal/imx6ull/delay.c:99` | The sum of the readings is 32 bits wide. It can step over a delay that is closer to 2^32 than a reading is long, wrap and start again; `delay.c:80` allows delays up to 0xFFFFFFFF. |
| `buffer_top` | `lib/vsprintf.c:403` | `str` is not bound while it goes on behind the buffer. A text that runs through the last address goes on at address 0, up to the buffer, where `vsprintf.c:356-358` says that it is cut off. |

Observed while modelling, not shown by a run:

* `kmem_pool_free_page` takes `kmem_pool.lock` and `kmem_pool_alloc_page` takes
  `kmem_pool.page_lock`, which `mem_pool.h:54` says protects the page pool. On one core
  the mask hides it.
* `list.h:129` says that `list_empty` returns true if the list contains one or more elements.
  It is the other way round: the code (`list.h:134`) returns true of a list without any, and
  that is what all its callers in `mm.c` rely on. `ReadersSeeTheLists` states it so.
* `list.h:90-91` says that `list_del` resets the pointers to and from the element. It resets
  those to it; the element keeps its own. `Represents` shows that nothing later depends on
  them.
* `uart.c:203` says that after a `/n` an additional `/t` is sent. The code (`uart.c:204-205`)
  sends `\r`, a carriage return, which is what a terminal needs; `ScreenRight` states it so.
* Where `vsnprintf` departs from ISO C99, which `vsprintf.c:354` names (`Departs`, with
  what it gives instead in `AsHere`):
  * `SMALL` and `SPECIAL` are the same bit and `LARGE` is never looked at
    (`vsprintf.c:129-137`): `%x` gives capital letters, `%#X` small ones after a small `0x`;
  * `#` puts its prefix before zero as well: `%#x` of 0 is `0x0`, `%#o` of 0 is `00`;
  * zero with precision 0 has a digit: `%.0d` of 0 is `0`;
  * `#` puts a zero before an octal number even if the precision has put one there: `%#.3o`
    of 7 is `0007`;
  * precision does not switch off the flag `0`: `%06.3d` of 7 is `000007`;
  * `%zd` prints and reads a number without a sign.

  `%p`, which C leaves open, is a number in base 16 in capital letters, with as many zeros as
  it may have digits. In all else `FormatsRight` is C's.
* A length above `INT_MAX` comes back negative, as an `int`.
* In base 8 or 16 a `long long` with its highest bit set is shifted arithmetically and
  never comes to 0: `number` does not return and fills its stack (`vsprintf.c:299`).
* `vscnprintf` with a size of 0 returns -1. With a buffer that would reach beyond the last
  address it returns at most its size less one, not what `vsnprintf` had room for.
* `vsnprintf(NULL, 0, ...)`, which elsewhere asks for the length, writes: `end` and
  `buf - 1` both wrap, so that `end < buf - 1` (`vsprintf.c:393`) does not hold and the
  text goes to address 0. No caller in the repository does it.
* `strcmp` and `strncmp` keep the difference of two characters in a signed char: for
  characters from 128 on its sign may be wrong. `ReadersRight` asks for the sign below 128,
  and of all characters that 0 means alike (`TellsApart`).
* A key that sends carriage return and line feed ends two lines, the second one empty.
* `scanf` does not know the size of its buffer, and `printf` trusts its callers; that
  its texts fit is an assumption (part of `ConsoleAssumption`).
* In `__div64_32` the test of the sign never ends the loop: after the first reduction
  the shifted divisor reaches what remains before it reaches bit 63.

## 5. What is proved

| theorem | of | for every |
|---|---|---|
| `TypeCorrect`, `QueuesAlwaysSound`, `LedgerAlwaysExact`, `BlocksNeverOverlap`, `ReservedIsSafe`, `BlocksCanBeFreed`, `FreedMemoryIsWhole` | `BlkMem` | number and size of slabs, descriptors, kernels |
| `Implementation` | `BlkMem` implements `BlockStore` | as above |
| `PoolTypeCorrect`, `ChainsAlwaysSound`, `PoolsAlwaysSound`, `PagesNeverOverlap`, `IdlePoolsAlwaysReturned`, `PoolNeverDies`, `FoundPagesAreFreed` | `PagePool` on `BlkMem` | as above, and page size, table of pools, sizes asked for |
| `PoolIsACaller`, `PageStoreImplemented` | `PagePool` implements `BlkMem`'s specification, and `BlockStore` | as above |
| `ListsRepresented`, `ReadersAlwaysRight`, `PointersTyped` | `DList` | finite set of heads and entries |
| `DelaysNeverEarly`, `DelaysOnTime` | `Delay` | period, lag, delay that fits |
| `QuotientAlwaysRight`, `RemainderAlwaysRight`, `NothingEverShiftedOut` | `ArmDiv` | width from 4 to 32, pair of words |
| `DivisionInvariant`, `DivisionTypeCorrect`, `LoopsLoseNothing`, `DivisionsRight` | `Div64` | width, dividend, divisor |
| `TypeCorrect`, `LocksAlwaysExclude`, `OwnersAlwaysMasked`, `MaskAlwaysRestored` | `SpinLock` | set of cores and locks, nesting |
| `BlocksAreRight`, `StringsAreRight` | `Mem` | size and contents of memory, call |
| `ReadersAreRight`, `TokensAreRight` | `Strings` | size and contents of memory, call |
| `DecimalRight`, `TmpRight` | `Format` | number below 100000; number, base 8, 10, 16 |
| `BufferAlwaysKept`, `FormatsAreRight` | `Formatting` | format, arguments, buffer, size, widths of the types |
| `ScreenIsRight`, `KeysAreRead` | `Console` | depth of the FIFOs, size of the line buffer, texts, keys, number of calls |

**BlkMem.** The assumptions are those of `mm.h:21-47`: the sizes differ, the blocks of
each slab fill a descriptor, the largest block is a whole descriptor, the bitmap has
room for the smallest, and memory does not start at 0 (the code takes address 0 for
failure). The inductive invariant `IInv` is `TypeOK`, `QueuesSound`, `ReserveKept`,
`LedgerMatchesMaps` and `BootUntouched`. `QueuesSound` alone is not inductive:
`init_kernel_mem` takes the first descriptor from the top empty list and is right only
because nothing has moved before (`BootUntouched`), and a free must not clear the
kernel's bit (`ReserveKept`). That blocks do not overlap follows from the ledger and the
arithmetic of descriptors and blocks, and so do the other theorems; a step of the
allocator is a step of `BlockStore` because the bit an allocation sets was clear, hence
its block disjoint from all that are out. `SeqLemmas` holds what unlinking and appending
do to a queue, and the facts about powers of two and about joined sequences that the
proofs of the library and the console need.

**PagePool.** Two assumptions come on top of those of `BlkMem`. `PageGeometryAssumption`:
the SDRAM space starts on a page and every block is whole pages, two at least
(`mm.h:28-47`, `global.c:10`); without it `page_mpool_init` would die on a block it is
given. `CallerAssumption`: the sizes and addresses `BlkMem` is checked with include those
of real blocks, since the pool is one of its callers. Nothing is assumed of the sizes pages are asked
for, of the table of pools, or of what is freed that was never handed out.

The inductive invariant `PoolInv` is `IInv` of the allocator below, `PoolTypeOK`,
`ChainsSound`, `PoolsSound`, `NoneIdle` and `NeverDies`.
None of the parts is inductive alone. A free is right only because the object found is
its caller's: pools live in disjoint blocks that are all out (`PoolsSound`), each block
holds its maps and all its objects, so the address belongs to one object of one pool
and `ChainsSound` says that it is not on the chain. That `del_page_mpool` runs when the
last page comes back needs that `afindx` counts the pages out; it follows from the chain
by counting (`CountIsRight`: a chain of `objs` maps without repetition has them all). That
`free_mem_blk` then accepts the block is a theorem about the allocator
(`HeldCanBeFreed`), and that it takes back no other block is its `NoOverlap`. So
`PoolsSound` depends on the allocator's invariant and the allocator's callers on the
pool's, and the two are proved together.

The proofs argue about a single pool first (`Shaped`, `Accounted`: what `Take` and `Give`
do to a chain), then about the list as a value (`PoolsGood`: a pool replaced, removed,
appended), then about the calls. `GoodStep` collects what each of them is shown to do:
keep `PoolInv`, be a step of `BlkMem` or none, and hand out or take back one page or
block at most. From this `PoolIsACaller` and `PageStoreImplemented` follow, in which what is
handed out is disjoint from all that is out because `PagesDisjoint` holds after the step.

**DList.** `Represents` is inductive by itself: the pointers form the rings the ghost
sequences describe. Each operation is a lemma on pointers and sequences; removing an
entry and adding one are the only two that have to be argued about rings, all others
are made of them. `ReadersSeeTheLists` speaks of the walk, a recursive function: that it
is defined, and that it visits the places of the ring in order, is shown by the first step
at which it would not be (`LeastNat`), and that it comes back before it has visited more links
than there are by counting the entries. It needs that there are finitely many
(`FiniteAssumption`).

**Delay.** The assumptions (`TimerAssumption`): a reading takes less than a period, arguments
are words. `NeverEarly` holds of every delay, `OnTime` of those that fit. `DelayInv` adds that,
of a delay that fits, in the loop the counted time is the time passed, or one less
once the counter has wrapped, and that in the second case the counter stands below the
time passed - so it cannot wrap again before the delay is over. `NeverEarly` and `OnTime`
say nothing of the counter and are not inductive.

**ArmDiv.** `WordAssumption` bounds the width: four bits are shifted at a time, and
`ARM_DIV2_ORDER` is written for 32 at most. Neither result can be argued from itself,
because the last turn tests, and subtracts for, bits below the lowest. The inductive
invariant `IInv` says what is true between turns: going up, that nothing has been
divided yet and no bit of the divisor has been lost (`NothingShiftedOut`, which follows
from the bounds 2^(W-4) and 2^(W-1)); going down, that what is left of the dividend is its
remainder by the divisor as it stood one place higher, and `result` the quotient by it
(`GoingDown`; `ModDownBy4` says the same of `imod`, whose `order` runs three places
behind). A test halves the divisor of that remainder (`HalfDivisor`, `TestAbove`); a turn
is four tests, of which those below place 0 change neither the result (`TestBelow`) nor,
in `imod`, are made. In `umod` they are made: `Rotated` shows that for a loop that
ends below the highest two places exactly the subtractions below place 0 have their bit in the
top three places of `overdone`, and `Repaired` that adding them again gives the remainder. The
theorem about `umod` therefore has the restriction that the finding `arm_umod` shows
is needed for. That a power of two doubles with its exponent is not something the provers
know and cannot be shown by induction here: `TwoExp` has it from the number of subsets of
a set, `TwoSum` from the least exponent for which it would fail.

**Div64.** `IInv` adds to `NothingLost` that the weight of the shifted divisor came from
1 by doubling. The ghost sequence `weights` holds the weights it has had, so that the
proof that halving is exact needs no induction over powers of two.

**SpinLock.** The assumption is that a call takes a lock at most once. `IInv` adds, of
every context: how far it is and how many masks it has saved (`Progress`); that the first
of them is the mask it was entered with and the others are set (`Saved`); that from
`msr` on its core is masked and runs nobody else (`Masked`); and that a mark `strex` still
finds is on a lock that is free (`Marked`), without which two owners could pass `strex` -
`LocksExclude` says nothing of the time between `ldrex` and `strex`. `MaskRestored` is an
action property; it follows from `Saved`.

**Mem.** The assumptions are the types. `MemInv` says of every loop how far it is: the
bytes counted so far have been moved, and each came from where nothing had been
overwritten. That is why the direction matters: upwards the bytes written lie below those
to be read, or beyond the last of them; downwards above. Of the string functions it adds
where the string ended when the call was made, and that this end has not been written
over before it is read.

**Strings.** What a loop returns is a recursive function of where it starts and of the
places where it stops. That there is such a function (`RisingExists`, `FallingExists`),
and that it gives the first such place (`UpStopsAt`, `DownStopsAt`), follows from the
least place from which it would not (`LeastNat`); everything else is about which places
those are. The functions that compare share one argument (`AlikeUpTo`: how far two
strings are alike), and so do those that look for characters of a set (`SearchIs`).
`TokensRight` needs `Splits`: only delimiters before what is left have been overwritten,
every token given out ends before what is left, what is left begins where a token may,
and every token not given out begins there or behind. Without the last, a call could skip
one; without the second, the NUL written by a later call could end an earlier token.

**Format, Formatting.** `put_dec_trunc` divides by ten with multiplications and shifts
that are exact only for small numbers. `DecimalRight` shows that none of the sums it
carries from digit to digit leaves that range, that the five digits make up the number,
and that the tests that end it early leave out the leading zeros and nothing else.
`TmpRight` says what the digits of a number are by the numbers they begin (`Digital`):
each is base times the next and the digit, none is 0 before the last. The loops are
recursive functions; that they are, and that each turn adds digits above the rest, is
shown by the least number for which it would fail (`ChainExists`, `PutDecRight`).

`BufferKept` speaks of what has been kept when the call returns, of a text that lies within
memory: one whose buffer is not at address 0 and that ends before the last address
(`WithinMemory`). A text that runs through the last address goes on at address 0, outside
its buffer; that is the finding of `buffer_top`, and nothing is proved of it but that a size
that is refused writes nothing. The inductive invariant `FormInv` adds where `str` is
(`FormTypeOK`: the length of the text behind the buffer, modulo the size of memory), that
the text written so far lies in memory as far as before the last address of the buffer
(`Filled`) - not up to it, since `ADDCH` in `number` stops one character earlier than the
other writers do -, and that nothing is written for a size that is refused (`Refused`). What
makes a step right is that `str` after an item is that of the whole text (`GoingOn`), that
`end` is the buffer's last address for every buffer but one at address 0, and every size
(`EndIs`), with `end = buf - 1` for a size of 0, that as long as the text lies within memory
an item is written where it belongs (`WrittenIs`), and that what an item adds is text,
whatever it is (`PieceText`). `RequestsAssumption` says of a call that its buffer and size
are words, that its items have arguments of their kind - for `%p`, `%zd` and the like one
that fits an int, as pointers and sizes of this machine do -, that widths, precisions and
strings are no longer than an int counts, and that no type is wider than a `long long`. The
provers do not know that a literal is a string, so the characters the code writes itself are
named (`Chars`).

`FormatsRight` compares the code with a reference that goes by lengths, not by `number`'s
loops: the digits are what repeated division leaves, and sign, prefix, zeros and blanks are
put around them (`Field`). It says so twice: `InC` is what C says of the directive, `AsHere`
what is known of this code where it departs from C, in the cases `Departs` lists; that there
are no others is what the theorem shows, since outside of them the reference is `InC`.
`FormatInv` adds to `FormInv` that the text so far is what is wanted of the items that had
their turn (`AsWanted`), and the work is to show it of one item (`PieceRight`). For a number
(`NumberRight`) that is `NumberHere`, which has `number` agree with `AsHere` for every
directive, and `ThereAsInC`, which has `AsHere` agree with `InC` wherever `Departs` finds
nothing. The first has four parts. `number` takes an argument cut to its type and, if it is
signed, sign-extended; what it takes the digits of is the magnitude of what the argument
means (`SignedWord`, `MeantIs`). The digits it takes are the digits wanted, since both
satisfy `Digital` and only one sequence does (`DigitsUnique`), and they are looked up in the
table they ought to be (`TablesAgree`), letter case included. The zeros and blanks `number`
writes in up to five loops, with the width counted down before and between them, are as many
as the reference has in two (`Layout`), and stand in the same order (`Regrouped`). The texts
of the items are joined by a fold; that it works item by item is `FlattenAppend`. Nothing is
said of a call in which `number` never returns (see the observations).

**Console.** The assumptions (`ConsoleAssumption`): the transmit FIFO holds something, and texts
and keys are characters. `ConsoleInv` is `ConsoleTypes`, `SaidIsSent` and `KeysKept`.
`ScreenRight` says only that what the terminal has got begins what it ought to get, which no
step can be argued from. `SaidIsSent` says what is missing: `Due`, the rest of the text, the
character in `putc`, and the carriage return that follows it. A step then moves characters
from `Due` to the FIFO and from there to the screen. It needs that `WithReturns`, a fold,
works character by character from either end (`ReturnsAppend`, from `FlattenAppend`, and
`ReturnsFirst`). Of the keys,
`KeysKept` adds to `KeysRead` that the lines end where keys have come, so that what comes
later leaves them as they are, that the line in the buffer holds no end, and that what
waits for a key or prints belongs to a call of its kind.

Left to TLC: all liveness (`SomeoneGoesOn`, `HalReturns`, `AllReturn`, `CallsEnd`), because
the prover has no rule for fairness and `ENABLED`; and `ReadBack`, which relates `vsscanf` to
every format at once and depends on what scanning a text finds, a recursion over that text.

## 6. What is not modelled

* Start-up, clocks, LED, interrupt table: straight-line code that runs once. Its order is
  in `Init` and `InitKernelMem`.
* What runs once of the UART: initialisation, pins, baud rate, reset; these functions
  write its registers.
* How formats are taken apart character by character, and `va_arg`, which steps through
  the stack by the size of each type and does not align 64-bit arguments.
* `printf` inside a handler. Both would use `g_pcOutBuf`; the handlers are empty at this
  commit and `irq` leads to none of this code.
* Vendor headers (register definitions).
* `spin_lock_irq` and `spin_unlock_irq`: their mnemonics (`cpsrd`, `cpsre`) do not
  exist; nothing uses them.
* `testpgmpool`, `cmp_adrsz`, `testpagemgr`, `test_blkmm`: tests that are commented out
  of the start-up.
* The contents of memory. A pool's header and maps live in the block they describe; the
  model keeps them apart and checks that no page touches them (`PagesDisjoint`).

## 7. The plan

Done, in this order: `BlkMem` with its abstract specification and proofs; `PagePool`
composed with it, with proofs; `DList` with proofs; `SpinLock` with proofs; `Delay` with
proofs; `ArmDiv` with proofs; `Div64` with proofs; `Mem` and `Strings` with proofs; `Format`, `Scan` and
`Formatting`, the first and the last with proofs; `Console` with proofs.

What would come next:

1. A page pool whose calls are made of steps, on two cores, with the two locks as the
   code takes them.
