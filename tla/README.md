# A verification of cs_app

The repository holds the lab solutions and exercises of a systems course. Most
of it is handouts, inputs and programs of a few lines. This directory verifies
the programs of which the correctness rests on the order of events or on a
long-lived data structure: the caching web proxy (`proxylab-handout`), the shell
(`shlab-handout`), the allocator (`malloclab-handout`), the cache simulator
(`cachelab-handout`), the concurrent programs of chapter 12 (`src/ch12`) and the
Y86-64 processors of chapter 4 (`ch4sim`).
TLA+ modules model them, TLC checks the models on small instances, and TLAPS
proves for every instance the safety of the proxy's connection buffer, cache and
thread pool, of the shell's job list and signal masks, and of the locks, the
select servers and the timed reads of chapter 12, that the allocator keeps its
heap and what the program wrote intact, that the cache simulator is a least
recently used cache, and which processors execute which programs as the
instruction set says.

## 1. Inventory

### The proxy (`proxylab-handout`)

| Part | State | Operations | Hard because |
|---|---|---|---|
| Connection buffer, `sbuf.c` | ring `buf[n]`, `front`, `rear`, semaphores `mutex`, `slots`, `items` | `sbuf_insert`, `sbuf_remove`, `sbuf_empty`, `sbuf_full` | main inserts, up to 16 workers remove, nothing but semaphores orders them |
| Object cache, `cache.c` | `entries[n_entries]`, `total_size`, touch counts; lock `readcnt`, `mutex`, `w` | `read_cache_entry`, `write_cache_entry`, eviction, `free_cache` | readers run together, touch counts are written by a reader, evicted entries are freed |
| Thread pool, `tpool.c` | `tids`, `n_threads`, `n_busy`, `busy_mtx` | init, expand, shrink, close, `notify_busy/free`, `exhausted`, `chilling` | workers are cancelled while they run; the SIGINT handler closes the pool from inside main |
| Main and `doit`, `proxy.c` | sockets | accept loop, `conn_thread`, `doit`, `sigint_handler` | composes the three above |
| Parsing, `parse.c` | none | request line, headers, response | string scanning; end of file in `handle_response` |
| Wrappers, `csapp.c` | none | `P`, `V`, robust I/O | handout |

main accepts a connection, asks the pool whether to grow or shrink, and puts the
descriptor into the buffer. A worker takes it out, tells the pool it is busy,
serves it from the cache or from the origin server, stores the response in the
cache, and tells the pool it is free. Buffer, cache and busy counter are shared
memory guarded by semaphores; SIGINT runs `close_thread_pool` and `free_cache`
on top of whatever main was doing.

What makes them correct. Buffer: no connection is lost, duplicated or
overwritten, and no thread sleeps while what it waits for is there. Cache: a
writer is alone, a reader's entry is not freed under it, the size stays within
`MAX_CACHE_SIZE`, eviction takes the coldest entry and ends, every call returns.
Pool: no work is lost when a worker is cancelled, the busy counter is the number
of busy workers, shutting down ends.

### The shell (`shlab-handout/tsh.c`)

| Part | State | Operations | Hard because |
|---|---|---|---|
| Job list | `jobs[MAXJOBS]` (pid, jid, state), `nextjid` | `addjob`, `deletejob`, `clearjob`, `maxjid`, `getjobpid`, `getjobjid` | handlers change it under main's feet; job IDs wrap |
| Evaluation | the command being run | `eval`, `do_bgfg`, `waitfg`, `quit` | between any two steps a handler may run |
| Handlers | signal mask, pending signals | SIGCHLD reaps, SIGINT and SIGTSTP forward | they interrupt one another; signals do not queue; masks are saved and restored |
| Children | run, stopped, zombie; process group | exit, stop, `setpgid` | their changes reach the shell late and merged |

What makes it correct: the job list is the list of the shell's children; no
child is reaped before it is on the list; at most one job is in the foreground;
ctrl-c and ctrl-z reach that job and nothing else; every child that ends is
reaped; the shell comes back from waiting; no signal stays blocked.

### The allocator (`malloclab-handout/mm.c`)

| Part | State | Operations | Hard because |
|---|---|---|---|
| Heap | blocks with header and footer (size, allocated bit), prologue and epilogue, from `mem_sbrk` | `mm_init`, `extend_heap`, `place`, `coalesce` | every word can be header, footer, link or data, by what was called before |
| Free lists | 16 heads in the heap, `pred` and `succ` in the free blocks | insertion by address, removal, best fit in a class, then the next class | a block's class changes when it is split or merged |
| Entry points | none besides | `mm_malloc`, `mm_free`, `mm_realloc` | realloc grows into, or shrinks beside, its right neighbour, or moves |

One thread, no callbacks. What makes it correct: blocks tile the heap and do not
overlap, a free block is in exactly the list of its class, the program's bytes
survive every call on another block and realloc's move.

### Chapter 12 (`src/ch12`)

| Part | State | Operations | Hard because |
|---|---|---|---|
| Readers-writers locks, `p1219.c`, `p1220.c`, `p1221.c` | semaphores and counters | `reader`, `writer`, for ever | reader preference, N places, writer preference: three protocols of nested semaphores |
| Select servers, `pool.c` with `p1223.c` (echo) and `p1236.c` (tiny) | `pool`: descriptor sets, `clientfd`, `maxi`, `maxfd`, `nready`, read buffers | accept, `add_client`, `check_clients` | slots are used again, ready counts go stale in the loop, one slow client holds all |
| Reads with a timeout, `p1231.c`, `p1232.c`, `p1233.c` | a signal; select; two threads, a mutex and a flag | `tfgets` | the line and the timeout arrive together |
| Other servers, `p1222`, `p1234`, `p1235`, `p1237`, `p1238` | a pool like the proxy's | accept and serve | as in the proxy |

### The Y86-64 processors (`ch4sim`)

| Part | State | Operations | Hard because |
|---|---|---|---|
| Instruction set, `misc/isa.c` | memory, registers, condition codes, PC | `step_state` | the reference of the others |
| Pipeline, `pipe/psim.c` with one of the `pipe-*.hcl` | the same, and the pipe registers F, D, E, M, W | one cycle: five stages, stall and bubble control, forwarding | five instructions at once, of which some must never have been |
| SEQ and SEQ+, `seq/ssim.c` with `seq-std.hcl`, `seq-full.hcl`, `seq+-std.hcl` | the same, and the updates of the last instruction | one instruction | SEQ+ computes the PC at the beginning of the next cycle |

The simulators compare themselves with `step_state` when run with `-t`: a
processor is correct if it leaves the state the instruction set gives, and if it
never stalls for ever. `pipe-full.hcl` and the versions nobypass, nt, btfnt, lf
and 1w are the exercises' solutions.

### The cache simulator (`cachelab-handout/csim.c`)

One program, one thread: `initCache`, then `touchCache` for each line of a trace.
Its state is an array of sets of E lines (valid, tag, last_touch), the counter
that stamps them, and the totals of hits, misses and evictions. It is correct if
it hits, misses and evicts as a least recently used cache does; stamps are
`unsigned`, and so finite.

### The rest

Transposition (`trans.c`), the chapter 2 to 9 exercises, the
chapter 11 servers, the assembler and the HCL translator of `ch4sim` with their
generated scanners and parsers, the bit puzzles and the bomb and attack labs are
not: they are sequential index arithmetic, text processing, I/O, or inputs for
given binaries. `PROJECT.json` lists every part.

## 2. Plan

The order follows how much of a program's correctness rests on the part.

| Step | Modules | Composes | Abstract specification | State |
|---|---|---|---|---|
| 1 | `BoundedFifo`, `Sbuf` | | a bounded first-in first-out queue, implemented by `Sbuf` | checked, proved |
| 2 | `Cache` | | the readers-writers lock of step 5, implemented by the lock of `Cache` | checked, safety and refinement proved |
| 3 | `JobList`, `Tsh` | `Tsh` extends `JobList` | | checked, safety proved |
| 4 | `ThreadPool` | the queue `Sbuf` implements, main, workers, SIGINT | | checked, safety proved |
| 5 | `RWLock`, `ReadersWriters` | | one readers-writers lock, implemented by p1219, p1220, p1221 and by `Cache` | checked, safety and refinement proved |
| 6 | `Allocator`, `Mm` | `mm.c` and its driver | a program's disjoint blocks and their contents, implemented by `Mm` | checked, safety and refinement proved |
| 7 | `SelectPool`, `TimedRead` | servers, clients and the kernel's socket buffers | | checked, safety proved |
| 8 | `Y86`, `Isa`, `Pipe`, `Seq`, `Processors` | `Processors`: `Pipe` and `Seq` | the instruction set, implemented by every processor | checked, safety and refinement proved |
| 9 | the cache with cancelled workers | `Cache`, `ThreadPool` | | to do |
| 10 | `Lru`, `Csim` | | a least recently used cache, implemented by the stamps of `Csim` | checked, proved |
| 11 | control flow of `parse.c` | | | to do |

Every safety property a run shows to hold is a theorem too (section 5).

## 3. The modules

**`Sbuf`** (proxylab-handout/sbuf.c, the same as ch12/sbuf.c). One action per
`P`, per `V` and per access to the ring; `pc[t]` says where thread `t` is.
`++rear` and the store into `buf[rear % n]` are two steps, so the mutex is what
keeps them together, not the model. main's only entry is `InsertCall`; consumers
call `sbuf_remove` for ever, as `conn_thread` does. Semaphores are counters with
no queue: POSIX promises no order among waiters. `front` and `rear` grow without
bound in the model and are `int` in the code.

**`BoundedFifo`** is what sbuf.h promises. `Sbuf` implements it under a
refinement mapping in which an item is in the queue from its store to its load.

**`Cache`** (cache.c). The readers-writers lock with preference for readers, one
action per semaphore operation; the search with its touch is one action, because
of the readers only one may touch; the copy of the data is a later action, so
that an eviction between the two would be seen. Entries keep their index: a
freed slot stays `Null` unless it is the last, as in the code. Data is its size.

**`RWLock`** is what every readers-writers lock of the repository promises:
readers together, a writer alone. `Cache` and `ReadersWriters` implement it, with
the threads between the lock and the unlock as the ones inside.

**`ThreadPool`** (tpool.c, proxy.c). main's loop with the resizing of the pool,
the workers with `pthread_cancel`, and `sigint_handler` on top of main. A worker
acts on a cancellation when it calls, or sleeps in, a cancellation point; a
request that arrives while it is past the test waits for the next one (`asked`,
then `due`). Between `sbuf_remove`'s lock and its last `V` there is none, which
is what shrink_thread_pool counts on. The ring is the queue of `BoundedFifo`, with the
semaphores kept, since cancelling a worker disturbs them. `doit` is one opaque
step that may never come or may end the process (the wrappers of csapp.c call
`exit`). Cancelling a thread ID that does not exist (SIGINT in the middle of a
resize) is undefined: the process may end or go on.

**`JobList`** and **`Tsh`** (tsh.c). Handlers are frames on a stack: a frame may
be pushed between any two steps of main or of a handler that the mask allows,
and returning restores the mask of before. `addjob` and `clearjob` are two steps
each, since a handler may see the slot in between. Pending signals are a set.
The kernel side (fork, waitpid, kill, process groups, stop reports) is modelled
from how tsh.c uses it. A job is one process. Command lines are already parsed.
Who sits at the shell is one of `Users`: which commands they type, how many
children they start and how many keys they press (`User` is what they can be,
and `TshAssumption` that they are).

**`ReadersWriters`** (p1219.c, p1220.c, p1221.c). Each `reader` and `writer` is a
table of instructions, one per semaphore operation and per access to a counter
(an increment, and the test of a counter with the `P` or `V` it decides), and
`pc[t]` the next one. Which of the three programs runs is chosen at first.

**`SelectPool`** (pool.c, p1223.c, p1236.c, rio.c). The loop of main, step by
step: select, accept and `add_client`, then `check_clients` slot by slot, so that
the clients and the kernel act in between. A client connects, sends, reads, shuts
down, or is gone with or without what it had sent; what it sends is counted, in
bytes for the echo server and in lines for tiny, of which a request has three
(request line, header, empty line). One `read` of p1223.c takes at most
`RIO_BUFSIZE` bytes into a copy of the client's `rio_t`; what the copy took and
did not hand out is gone (`lost`), and with more than `MAXLINE` bytes behind the
first the last one is written behind `buf`, which is undefined behaviour. A read
that fails leaves -1 for a length, with which `Rio_writen` ends the server. A
write puts into the connection what it has room for (`Room`) and then waits for
the client to read; to a client that is gone it succeeds, or SIGPIPE or
`Rio_writen` ends the server. Reads of p1236.c block inside the loop.

**`TimedRead`** (p1231.c, p1232.c, p1233.c). The user types a part of a line, a
line or end of file at any moment; a clock may strike once. In p1231 a child
sends SIGABRT, whose handler jumps into `tfgets`: after `tfgets` has returned
that is undefined. In p1233 the reader and the sleeper lock a mutex, set
`finished` and cancel one another; the sleeper may cancel before the reader's
thread ID is there.

**`MCChapter12`** puts the three systems side by side; a behaviour runs one of
them and leaves the others as they are.

**`Mm`** (mm.c), word by word: `mem` is the array of words `mem_sbrk` has handed
out, with headers, footers, links and data where the code puts them. The unit is
the word of four bytes, so `WSIZE` is 1 and `DSIZE` 2. Each of `mm_malloc`,
`mm_free` and `mm_realloc` is one action, as there is one thread; what they call
are operators from heap to heap. The program is eval_mm_valid of mdriver.c: it
fills what it gets with a pattern of the block's index, and checks nothing else.
`Scrubbed` sets the words no later call can read to one value, so that heaps
that differ in garbage only are one state. `exit(1)` of a failing `extend_heap`
ends the behaviour; when a malloc returns NULL the driver stops, and the model
goes on, which is more than the code does.

**`Allocator`** is what the program is promised: its blocks are aligned,
disjoint, and hold what it wrote. `Mm` implements it.

**`Csim`** (csim.c). One action is one line of the trace with its `touchCache`: the
search, the choice of the line to fill (the first free one, or the lowest stamp)
and the totals. `int` and `unsigned` have `IntBits` bits. **`Lru`** keeps the tags
of a set in order of use, without stamps; `Csim` implements it, with the lines
of a set sorted by stamp. The address of the last line read is part of what is
compared: without it any hit would do.

**`MCTraces`** runs `Mm` or `Csim`.

**`Y86`** (misc/isa.c) is `step_state` with words of `Width` bits. Code and data
are apart, and the unit of addresses is an instruction for code and a word for
data: a program that writes its own code, or jumps into the middle of an
instruction, is outside the model. C's `&` and `^` are defined by the bits of the
two words. **`Isa`** runs `step_state`.

**`Pipe`** (psim.c and the HCL). One action is one cycle: the stages' signals are
operators with the names of the HCL file, computed from the pipe registers, which
are then all replaced at once. What a version changes of pipe-std.hcl is a
disjunct that names the version. `Architectural` maps a pipeline to the state of
the instruction set: that of what has been written back, with the PC of the oldest
instruction still inside. **`Seq`** (ssim.c and the HCL) is one instruction per
step; it writes at the beginning of a step what the step before computed.
**`Processors`** runs one program on one processor per behaviour, any program that
yas can assemble (`Assembled`, `Loaded`); `Sound` says which of them the pipeline
gets right: on pipe-nobypass all, on the versions that forward those whose
addresses have a base register (`Based`). **`MCProcessors`** picks small ones.

**`MCProxy`** runs `Sbuf` or `Cache`.

**`Counting`** has the lemmas the proofs share: on cardinalities, on least and
greatest numbers, and on sums. **`Sums`** defines the sum of the first n values of
a function, for `total_size` of the cache.

Operators named `Bug...` are faults a maintainer could introduce: each stands
beside the action it would replace and is used by no specification. Putting one
in place of its action makes the property it belongs to fail (`PROJECT.json`,
`mutants`).

## 4. The runs

Runs that hold:

| Run | Instance | Shows |
|---|---|---|
| `MCProxy` | buffer: 2 producers, 2 consumers, a poller, N = 2, 4 inserts and queries; cache: 3 workers, 2 keys, sizes 1, 2, 4, capacity 3, objects of at most 2, 4 calls | `RingSafe` (exclusion, credits, no overrun), `NoLostWakeup`, `ImplementsFifo`, `InsertReturns`, `EveryItemTaken`; `LockSafe` (exclusion, counters, one toucher), `SizeExact`, `CopySafe`, `EvictFinds`, `ImplementsLock`, `CallsReturn` |
| `MCTsh` | 3 children, 2 slots, one key, commands by process ID; or one child, two keys, every command but quit | `JobsMatchChildren`, `ReapsKnownJob`, `WaitsUnmasked`, `OneForeground`, `LoneReaped`, `EndNoticed` |
| `MCThreadPool_resize` | pool of 1 to 2, ring of 2, 5 connections, SIGINT | `PoolSafe`, `LocksHaveOwners`, `NeverUndercounts`, `OneOwner`, `JoinReturns` |
| `MCChapter12` | locks: 3 readers, 2 writers, N = 2; servers: 3 clients, descriptors 4 and 5 for them, MAXLINE 1, RIO_BUFSIZE 3, connections with room for 1 byte, answers of 2, 3 bytes or 4 lines sent; timed reads | `RWSafe`, `ImplementsLock`, `WritersFirst`, `LocksLive`, `WritersGetIn`; `SelectSafe`, `EveryoneServed`; `TimedSafe`, `TimedLive` |
| `MCTraces` | 3 pointers, sizes of 0, 2, 4, 8 and 12 words, 6 lists, chunks of 8, a heap of 34 words; the cache simulator with 2 sets of 3 lines, 5 addresses, traces of 5 lines | `HeapSafe` (tiling, free lists), `NoWaste`, `OnlyShrinkLeavesPairs`, `ImplementsAllocator`; `ImplementsLru` |
| `MCProcessors` | every program of 3 instructions out of 17 and a `subq` or a `ret`, on 6 pipelines (those of them that forward without the 2 instructions that have no base register) and 3 sequential processors, words of 4 bits, 2 registers, 2 words of data | `IsaCheck`, `AllImplementIsa`, `NeverStuck` |

Runs that show a property violated by what the code does:

| Run | Property | What happens |
|---|---|---|
| `MCTsh_twofg` | `OneForeground` | `fg %1` calls `waitfg(pid)` with the 0 that `strtol` made of `%1` (tsh.c:379). The shell prompts while the job is in the foreground, and a second one can be started. |
| `MCTsh_ghost` | `KeysGoToJobs` | `fg` has looked its job up by process ID when SIGCHLD comes: the handler reaps the job and clears its slot. `do_bgfg` goes on with its pointer: it blocks SIGCHLD, sends SIGCONT, unblocks, and writes FG into the empty slot (tsh.c:378). The next ctrl-c finds a foreground job with process ID 0 and is sent to process group 0, the shell's own. |
| `MCTsh_reap` | `ZombiesReaped` | Two children end while SIGCHLD is blocked: one signal, one `waitpid` (tsh.c:485). The second stays a zombie. |
| `MCThreadPool_items` | `ItemsCounted` | A worker that has done `P(items)` and waits for the mutex dies there (tpool.c:61): `items` stays one too low, and a connection waits in the ring until another one comes, when the same is true of that one. |
| `MCProcessors_1w` | `IsaCheck` | In pipe-1w.hcl whatever is fetched behind a `popq` becomes IPOP2 (pipe-1w.hcl:196) and the PC is held at that instruction, not at the `popq`; and `set_cc` includes IPOPQ (pipe-1w.hcl:282). The popped word goes to the register of the next instruction, and the condition codes change. psim built from this file shows the same. |
| `MCProcessors_nobase` | `IsaCheck` | `mrmovq 1,%rax` twice: the second, in decode, has RNONE for a base and the first, in execute, RNONE for a destination. `d_srcB == e_dstE` (pipe-full.hcl:229, and alike in the other four versions that forward), so the address becomes 1 + 1. psim built from the five files reports "ISA Check Fails" for such a program, and "ISA Check Succeeds" with pipe-nobypass. |

**Bounds.** Two threads per role meet in every order a pairwise property can
tell apart; the third cache worker gives the semaphores a choice, and lets a
reader come while another reads and a third waits to write. A ring of two is
full, half full and empty, and four inserts go round it twice. In the cache,
capacity 3 with sizes 1 and 2 needs up to two evictions for one write, leaves
freed slots in the middle of the array, and size 4 is over `MAX_OBJECT_SIZE`;
four calls are two writes that evict, beside a reader that has touched. A pool of 1 and 2
expands, is refused at the limit, shrinks and is refused at 1; five connections
suffice for a worker to be cancelled in each place with the ring full. That the
pool never has more than two sizes is made up for by the proofs, which are for
every size. In the shell, three children over two slots fill the list and let a
slot be used again; one key at any moment interrupts every step and nests with
SIGCHLD, and the two keys of the lone child's user nest all three handlers. That
every ended child is reaped holds for one child at a time only: with two it does
not (`MCTsh_reap`), which is why `LoneReaped` speaks of a lone one.
`OneForeground` in `MCTsh` is for several jobs by process ID, where the code
keeps it. `KeysGoToJobs` excepts keys that interrupt the SIGCHLD handler inside
`clearjob`, after `pid = 0` and before `state = UNDEF` (tsh.c:555): they go to
process group 0 too, and their trace would hide the longer one of `MCTsh_ghost`.

In chapter 12, three readers and two writers put every kind of thread in front
of, inside and behind every semaphore, and N = 2 lets two writers of p1220 race
for places. Three clients with room for two make the server run out of
descriptors and use a slot again below `maxi`; MAXLINE is 1 and `RIO_BUFSIZE` 3,
so that three bytes overrun the echo buffer and lose one, two are an overrun
without loss, and one is neither; a connection with room for one byte makes every longer answer
block half way; and four lines are a request and the beginning of
another. In `mm`, 34 words are a first chunk, its extension and a refusal; the
blocks of 4, 6, 10 and 14 words that the sizes need are in two classes, of 16
to 31 bytes and above, so that a best fit has a choice in one list and goes on to
the next; one is larger than a chunk, and they leave remainders on both sides of
the smallest block; three pointers let a block be
freed between two free ones. The number of calls is not bounded. Of the five
addresses of the cache simulator four share a set of three lines: five lines of
a trace fill it, use one of them again and evict. In the
processors, four instructions fill the stages behind one another with every
combination of load, use, `ret`, jump, push and pop; both registers start at 1
so that loads and stores hit the data and run off it; `rsp` is `popq`'s and
`subq`'s operand too. `iaddq` is in the programs of pipe-full and seq-full only,
which implement it. `MaxSteps` is the length of the reference run: no program of
the instance that stops takes longer.

**Deadlock** is not checked. Calls, connections, keys, children, input and
instructions are bounded, so every instance comes to rest. In `ThreadPool` there
are also real ends: every process exits, a `doit` may never return, and SIGINT
may find main holding the buffer's mutex or `busy_mtx`, which its handler, or a
worker it joins, then waits for without end. What must not get stuck is stated
as liveness instead (`CallsReturn`, `LocksLive`, `NeverStuck`, `JoinReturns`...).

**Fairness.** `Sbuf` and `Cache`: weak fairness for each thread inside a call,
nothing for starting a call. Semaphores are not first-come first-served, so a
thread may wait as long as others keep taking what it waits for, but the number
of calls is finite here. `Tsh`: weak fairness for the shell and for a child's
`setpgid`; strong fairness for the delivery of SIGCHLD, because the kernel
delivers a pending signal before the `sigprocmask` that unblocks it returns,
however often it is blocked again. Children and users owe nothing. `ThreadPool`:
weak fairness for main and for each worker outside `doit`; a `doit` may last for
ever, unless cancelled. `JoinReturns` therefore shows that a worker is never
beyond the reach of a cancel. It excuses an interruption by SIGINT, after which
main's join is not resumed, and shows the same of the handler's own joins.
Chapter 12: weak fairness for every thread, for the server and for the clock;
clients and the user owe nothing. One client can hold the server: in the write to
it if it does not read, in p1236 also in the middle of its request (`HeldUp`).
`EveryoneServed` therefore assumes that the server is again and again held by
nobody, and excuses a client that is gone and a server that has ended.
`WritersGetIn` begins when a writer of p1221 waits for `w` and so has announced
itself by taking `r`; one that waits for `r` itself may be overtaken by readers
for ever, since a semaphore promises no order among those who wait. `TimedLive` excepts what the code does not bound: the second wait of
p1232, for the rest of a line. `Pipe`: weak fairness of the clock.

Facts the models show besides, for which there is no run of their own:

- `nextjid` goes back to 1 without a look at the list (tsh.c:594): a job that
  lives long enough shares its ID with a newer one, and `getjobjid` finds the
  first of the two.
- Readers are preferred in the cache and in p1219: overlapping readers keep a
  writer out for ever. In the model the number of the cache's calls ends that;
  the locks' liveness is therefore that somebody gets in, and for writers only in
  p1221, once they have announced themselves. Two workers that miss the same key
  write it twice.
- A worker cancelled in `doit` leaves `n_busy` too high for good: `chilling`
  never says yes again, and `exhausted` compares with `==` and may be passed.
- A realloc that shrinks in place leaves its remainder unmerged beside a free
  neighbour (mm.c:583), which the heap checker would call a block that "escaped
  coalescing" (mm.c:192). It is the only source of such pairs
  (`OnlyShrinkLeavesPairs`), and harmless to the tiling and the lists.
- p1231 and p1233 may run into undefined behaviour: SIGABRT after `tfgets` has
  returned jumps into a dead frame, and a sleeper that wakes before there is a
  reader cancels thread -1. The model marks both and goes no further.
- `ImplementsLru` is for addresses of which an `int` keeps the tag, and for traces
  that end before `COUNTER` wraps (`CsimAssumption`). After 2^32 touches the line
  used last has the lowest stamp; and with one line to a set, a line stamped
  UINT_MAX is not found, and csim.c:142 reads through NULL.
- p1236 at end of file in the middle of the headers reads the same empty line
  for ever.
- p1223 writes one byte behind its buffer when more than MAXLINE bytes are waiting
  (p1223.c:54); a connection that breaks before it is read from takes the server
  along (p1223.c:50, 60); and in both servers a client that does not read stops the
  service of all.

## 5. The proofs

All theorems are for every value of the constants, under the assumption the
module names, which says no more than what the code is compiled with or called
with:

- `SbufAssumption`, `CacheAssumption`, `RWAssumption`, `SelectAssumption`:
  finitely many threads or clients; a ring, and in p1220 a number of places, of at
  least one; more descriptors than stdin, stdout, stderr and the listening one, and
  `RIO_BUFSIZE` above `MAXLINE` (8192 and 1024);
- `MmAssumption`: sizes are whole words; the number of lists is even and not 0
  and a chunk is even and no smaller than a block, so that blocks stay aligned
  (mm.c has 16 lists and 1024 words); and `mem_sbrk` has room for what `mm_init`
  asks of it before it extends the heap;
- `PoolAssumption`: doubling and halving `N_THREADS` meets 1 and `MAX_THREADS`
  exactly. tpool.c compares with `==` only, so without it the pool outgrows
  `tids`; 4 and 16 satisfy it;
- `JobListAssumption`, `TshAssumption`: there is a job slot, and users type the
  shell's commands, start finitely many children and press finitely many keys;
- `CsimAssumption`: an `int` keeps the tag of every address of the trace, and the
  trace ends before `COUNTER` wraps. Beyond that the simulator is no such cache
  (section 4).

- **`SbufProofs`**: `TypeCorrect`, `MutualExclusion`, `CreditsConserved`,
  `RingBounded`, together `RingIsSafe`; `WakeupsKept`, `FifoImplemented`. Types
  and exclusion come first. `CreditInv` is inductive relative to them: each step
  moves one thread between the sets it counts. `NoOverrun` and `NoLostWakeup`
  are arithmetic consequences of it. The refinement needs both: at most one
  thread moves the ring (exclusion), and the slot a producer writes holds no
  unread item (credits).
- **`CacheProofs`**, the lock: `WriterExcludesAll`, `LockCounts`,
  `SingleToucher`, together `LockIsSafe`; `CacheImplementsLock`. `RWExclusion`
  alone is not inductive: it is the values of `mutex`, `readcnt` and `w`, and the
  fact that a first reader waiting for `w` is alone in the entry section, that
  keep a writer out. `OneToucher` also needs that readers still outside have no
  touch flag (`NoTouchYet`). The refinement follows step by step: the steps that
  enter or leave are those of the abstract lock because of the exclusion in the
  state they lead to, and the others leave the sets of those inside alone.
- **`CacheProofs`**, the entries: `SizeIsExact`, `CopiesAreSafe`, `EvictionFinds`.
  The invariant `StoreIInv` says of a writer in the middle
  of its work what `SizeExact` says of a cache at rest: `Exact` has `total_size` as
  the sum of the entries' sizes, less the object a writer has stored and not yet
  counted, and `Sized` that what a writer brings is no larger than an object may
  be. It relies on the lock's invariant in every step: an entry a reader has found
  stays because nobody who could evict it is inside. `EvictionFinds` then follows
  from the sum: with nothing cached it is 0, and any object fits.
- **`ThreadPoolProofs`**: `PoolTyped` and `PoolKnown`, together `PoolIsSafe`;
  `LocksOwned`, `BusyCounted`, `ConnectionsOwned`, from one invariant `IInv`. Its
  parts: types; the equations of slots, items, mutex, `busy_mtx` and `n_busy`
  with the numbers of workers at each place, as inequalities where a cancelled
  worker takes its count along; which threads exist at each moment of a resize;
  and that connections are numbered in order of arrival, so a new one is
  nobody's. The equations of the two locks hold outside the SIGINT handler only,
  which may have interrupted main with a lock in its hands; inside it the
  inequalities are left.
- **`TshProofs`**: `TshIInvHolds`, and from it `ListMatches`, `ReapedIsKnown`,
  `MaskIsRestored`; `OneIsForemost`. `TshIInv` has four parts besides the types.
  `MaskInv`: the mask is what main, or the handler on top, should have made of the
  mask it found, every frame of the stack saved the mask of the frame below it
  (`Masks`), and a handler runs with the signals of all the handlers below it and
  of main blocked (`Nested`). So no two SIGCHLD handlers run at once, and none
  while main blocks SIGCHLD, which is what the other parts rest on. `Listed`:
  `JobsMatchChildren` with the two moments in which it does not hold put in,
  between fork and `addjob` and between `waitpid` and `deletejob`. `HandlersKnow`
  and `MainKnows`: the process and the slot a handler, or main, is working on are
  still those it looked up, whatever ran in between. A user of two programs who types
  `fg %1` breaks `OneForeground` (`MCTsh_twofg`), so `OneIsForemost` assumes of each
  user that they name no job by its job ID or run at most one program; `MCTsh` has
  a user of either kind. Its invariant says that the job in the foreground is the one main is starting,
  continuing or waiting for (`FgKnown`).
- **`Chapter12Proofs`**, the locks: `LocksAreSafe`, `WritersComeFirst`,
  `LocksImplementLock`. Each protocol has its equations between semaphores,
  counters and the numbers of threads between two instructions; p1220's N places
  need that only one writer at a time collects them. That readers and writers
  exclude one another, and that in p1221 a waiting writer keeps `r` taken, is arithmetic
  on these.
- **`Chapter12Proofs`**, the select servers: `SelectIsSafe`. Beyond `SelectSafe` the
  invariant needs that every connection has a descriptor of its own and none
  before accept (`Distinct`), that between select and accept `nready` counts
  the listening descriptor too (`AcceptAccounted`), and that the client the server
  is writing to is still in its slot (`WritesToSlot`). There are more slots than
  descriptors, so `add_client` always finds one, and the exit at its end is never
  taken.
- **`Chapter12Proofs`**, the timed reads: `TimedReadSafe`. Its invariant says where
  the two threads of p1233 and main may be at the same time (`Created`,
  `BothEnded`), that the mutex is taken exactly between a lock and its unlock
  (`MutexHeld`), that nobody is cancelled before `finished` is set, and never both
  (`FirstCancels`), and what is there only because the time is up (`LateIsWhy`).
- **`MmProofs`**: `MmHeapSafe`, `MmNoWaste`, `MmImplements`, `MmOnlyShrink`, all from
  `MmIInvHolds`. `MmIInv` says that there are an end of the heap and sizes of the
  blocks before it such that the blocks tile it, header and footer of every block
  agree and the epilogue is where the heap ends, every free list holds the free
  blocks of its class, linked both ways in the order of their addresses, and the
  blocks the program holds are those marked in use, each with the room `Adjusted`
  gives it. `HeapSafe` is less: it asks of the heap what following headers and links
  finds, and says nothing of the driver's trace. A call is followed operator by operator:
  a lemma for the list insertion and removal each, for merging with a neighbour
  (`Merged`, `Coalesced`), for `place` and its splitting (`SplitPlaces`), the
  best fit (`FitFound`) and `extend_heap` (`Extended`), then for the calls
  themselves (`Malloced`, `Freed`, `Realloced`). Each says how the tiling changes and
  that no other block in use has a word changed, from which the refinement
  follows. Following a list or the headers is a function of the number of steps
  taken; that it meets every block is proved by looking at the least step, or the
  least block, for which it would fail (`VisitsInOrder`, `VisitsAll`).
  `MmOnlyShrink` counts the heap's *seams*, the addresses at which one free block
  ends and another begins, of which there are as many as `FreePairs`
  (`PairsAreSeams`): merging, placing and extending make none, and the splitting in
  `mm_realloc` at most one, behind what is split off (`ReallocSeams`).
- **`CacheProofs`**, the cache simulator: `SimulatorIsLru`, from `CsimIInvHolds`: the stamps of the valid
  lines of a set are different and none is above `COUNTER`. Then the number of
  lines touched later is a one-to-one numbering of the valid lines, which is the
  order in which `Lru` keeps their tags; a line that gets the next stamp goes to
  the front and those that were before it move down by one. A hit, a miss that
  fills a free line and a miss that replaces the last one are three cases of that
  one lemma (`AgesAfterUse`). The search for the lowest stamp finds the last line,
  and never nothing.
- **`ProcessorProofs`**: `SequentialImplements`, and under the hypothesis `Sound`
  `ProcessorsImplement` and `IsaChecked`. The invariant of the
  pipelines, `PipeIInv`, is about the state of the instruction set that
  `Architectural` finds in a pipeline. Unless something has failed in
  memory or write back, decode and execute hold what the program has at their
  addresses (`InDecode`, `InExecute`); the operands in execute are what the
  registers will contain once all older instructions are written back
  (`OperandsRight`), which is what forwarding, or with nobypass waiting, is for,
  save the operand that pipe-lf takes from memory one stage later, and with
  nobypass 0 where there is no base register; and the
  instructions inside follow one another as predicted, with a gap behind a `ret`
  and none of them left when the jump in memory turns out to be mispredicted
  (`Flow`). What has failed can be told from the program (`InMemory`,
  `InWriteBack`). Then execute computes what `step_state` does (`Executes`), and
  the cycle in which an instruction passes from execute to memory is its step;
  any other cycle changes nothing that the programmer sees: a bubble arrives in
  memory, or a failure is on its way out (`CycleStep`). For the sequential
  processors the invariant is that what they hold are words; each cycle is one
  step (`SeqStepIs`). `IsaChecked` adds that what the programmer sees is one of
  the states of the reference run (`OnRun`), and that a run which has stopped
  stays as it is (`RunStops`).
- **`Counting`**: what adding, removing or moving one element does to a
  cardinality, that a set of numbers has a least element and a finite one a
  greatest, and what changing one number does to a sum.

TLC has checked the strengthened invariants before they were proved, but for
`MmIInv`, which asks whether there are suitable sizes: what it is proved for,
`HeapSafe`, `NoWaste`, `OnlyShrinkLeavesPairs` and `ImplementsAllocator`, TLC
has checked.

Only model-checked:

- all liveness, `NeverStuck` included: the provers do not reason about fairness
  and `ENABLED`.

What the theorems assume beyond the assumptions on constants: `OneIsForemost` the
user described above; `ProcessorsImplement` and `IsaChecked` that the pipeline is
not pipe-1w, which `MCProcessors_1w` shows to go wrong, and that each address of
the program has a base register unless it is pipe-nobypass, as
`MCProcessors_nobase` shows to be needed (`Sound`); `IsaChecked` also that the
program ends within `MaxSteps` instructions (`RunEnds`), psim's limit `-l`, for a
comparison with a run that was cut off says nothing. `Y86Assumption` has code and
data no larger than words can address, with the address behind the last
instruction a word too; `PipeAssumption` says that `MaxSteps` is a number.

## 6. Not modelled

- What the cache's locks look like after a worker is cancelled inside it
  (cache.c prints, and `printf` is a cancellation point): step 9 of the plan.
- A second SIGINT, which the kernel would give to a worker and which would run
  the handler on that thread; the lock inside `printf`; failures of
  `pthread_create` and of the semaphore calls.
- `free_cache`, called with no worker left; the bytes of requests and responses;
  parse.c, and that `doit` goes on after `clienterror` with what was not parsed
  (proxy.c:103).
- In the shell: `parseline`, `jobs`, output, SIGQUIT, end of file on input, jobs
  of several processes, signals other processes send to the shell.
- Overflow of `front` and `rear` after 2^31 connections, and of touch counts.
- In the allocator: `mm_realloc` of a null pointer (mm.c:564 reads the header
  before it looks at the pointer), sizes that are not whole words, `checkheap`'s
  printing. The driver aborts when a malloc returns NULL; the model goes on.
- In chapter 12: p1222, whose mutex is never initialised; the cgi programs of
  p1236, which serve_dynamic forks twice (p1236.c:300, 305), its SIGCHLD handler,
  which may interrupt `Select` and so end the server, its error pages, a request
  that is not a GET, and the exits of `getnameinfo` and `serve_static`; the servers that start a process or a thread per
  connection; what a program does after the undefined behaviour above.
- In the processors: bytes and the encoding of instructions (a fetch near the
  end of memory, invalid register numbers), programs that write their own code, the limit `-l`, performance counters,
  `pipe-broken.hcl` and the display. `IsaCheck` excepts a push, pop or call with
  a bad stack address: `step_state` has moved `%rsp` by then, a pipeline stops
  before. 17 shapes of instructions stand for all: one of each `icode` or more, with the
  registers in the places where they can meet.
- Everything `PROJECT.json` lists as `not_modelled`, with its reason.
