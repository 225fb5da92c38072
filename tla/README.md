# A TLA+ model of VSOP

VSOP is a small multiprocessor kernel for the IA-32 with message streams
between user programs. This directory holds TLA+ modules translated from its
source, the TLC configurations that check them on small instances, and TLAPS
proofs of the results that hold for every instance. `PROJECT.json` is the
machine-readable index: components, runs, mutants, the map from definitions to
source lines, findings, hazards and theorems.

    tlc -workers 2 -config MCStream.cfg MCStream     # one run
    tlapm StreamProofs.tla                           # one module's proofs

## 1. The system

### Components, state, operations, and what makes them correct

| Component (source) | State | Operations | Correct when |
|---|---|---|---|
| Streams (`stream.c`) | ring buffer: `read` (slot consumed last), `write` (slot filled next), `buf` | `stream_write`, `stream_read`, `*_length`, `*_event`, PEEK | one reader and one writer, without a lock, exchange bytes as through a queue; blocked calls complete |
| Spin locks and lists (`locks.c`, `list.c`) | `size`, `lock`, `head`, `tail`, a chain of spare elements | `section_enter/leave`, `list_push`, `list_pop` | a FIFO queue; elements neither lost nor shared |
| Physical pages (`palloc.c`, `memory.c`, `mboot.c`) | bitmap with a guard word, lock | filling at boot, `mem_phys_alloc` | no page handed out twice; none that a module or the kernel occupies |
| Kernel heap (`kmalloc.c`, `memory.c`) | node array, free lists by size, end of heap | `kmalloc`, `kfree`, `kbrk` | blocks never overlap, nothing is lost, buddies merge |
| Scheduler (`scheduler.c`, `thread.c`, `timer.c`, `syscall.c`) | per CPU: queue, current and next thread, load; per thread: event, wait time | `sched_tick`, `sched_yield`, `sched_thread_wait`, `sched_thread_sleep`, SELECT's loop, `sched_thread_ready` | a thread is in one place; calls return when done; runnable threads run |
| CPU boot (`kmain.c`, `cpu.c`) | `maximum_cpu`, `awoken_cpu`, `started` | `cpu_find`, `cpu_wake_all`, `hello_world`, `cpu_sync`, loading modules | nobody passes the barrier early; everybody passes it |
| Processes and connections (`process.c`, `syscall.c`, `stream.c`, `drivers.c`, `elf.c`) | process table with names, descriptor tables, IRQ handlers | REGISTER, CONNECT, SELECT, READ, WRITE, PEEK, HANDLE, `driver_irq_notify` | a descriptor leads to the process asked for; no connection is overlooked |
| Address spaces and ELF sections (`paging.c`, `process.c`, `thread.c`, `elf.c`, `cpu.c`) | page directories and tables, `cr3` per CPU | `paging_map`, `page_dir_clone`, `page_dir_switch`, mmap, the section loop of `elf_load` | kernel memory is the same everywhere, user memory is complete and private |
| Consoles (`screen.c`, `srv_screen.c`, `srv_fullscreen.c`) | video memory, cursor | `screen_putstr`, `screen_clear`, scrolling, `screen_display` | the screen shows the end of the text, or the last picture; the shared cursor recovers |
| Formatting (`util.c`, `libc/utils.c`) | the caller's buffer, `int2str`'s 32 bytes | `kprintf`, `int2str` | the text is what the format stands for |
| Command line (`mboot.c`, `util.c`) | `maximum_cpu`, the page at 0x70000 | `mboot_parse_cmdline`, `cmdline_find`, `ksubstr` | `max_cpu=` is found where it is, in the string that lies there |
| User programs (`userspace/`) | token ring, drivers, the snake | sequences of system calls; the game's loop | the token goes round; the snake stays in one piece |
| Interrupt dispatch (`interrupts.c`, `isr.s`, `drivers.c`) | handlers, task priority, requests and services of the local APIC, IF, kernel stacks | entry, `irq_handler` with EOI, nesting, yielding, switching, return | nobody's frames are overwritten; each interrupt is acknowledged once; nesting is bounded |
| Time (`timer.c`, `cpu.c`) | ticks, the clock chip's registers | `timer_init`, `_tick`, `timer_active_wait`, sleeping, conversions | the clock never stops; waits end, and not early |
| Descriptor tables (`gdt.c`, `isr_impl.c`, `isr_list.h`) | GDT, TSSs, IDT, task registers | `gdt_init`, `isr_init`, `tss_flush`, `tss_set_stack` | the processor finds what was meant |

### How they interact

The boot CPU runs `kmain`: it fills the page map from the boot information,
wakes the other CPUs, waits for them in `cpu_sync`, loads every module with
`elf_load` (which creates a process, a page directory and a thread) and gives
the thread to the least loaded CPU's queue. From then on each CPU is driven by
its local timer, which enters `sched_tick`; the real-time clock interrupts only
CPU 0 and advances the time. Programs enter the kernel through one system-call
vector with interrupts enabled, so a call may be preempted anywhere. A program
that has to wait sets `thread->event` and yields; its thread stays in the queue
and `sched_tick` polls the event. Processes share nothing but streams: CONNECT
makes two of them and writes them into the descriptor tables of both processes.
Device interrupts become messages in a driver's stream; when that is full, the
thread that the interrupt has hit waits for room.

### What is hard about it

* Almost nothing is locked. Streams, descriptor tables and process names are
  accessed from several CPUs with plain loads and stores; only the lists, the
  page map, the heap and the boot barrier have spin locks.
* Kernel code is preemptible in the middle of system calls, and what a tick
  changes (`thread->event`) is read before and after it.
* Which interrupts a CPU takes depends on the path by which a thread got the
  CPU back (`cli` in `scheduler_switch`, task priority in `sched_yield`).
* Waiting is polling, so progress depends on queue order and on the clock.
* Locks are taken inside locks, by code that interrupts a holder of the inner
  one on the same CPU.
* Interrupts are acknowledged before they are handled, so that only the task
  priority limits nesting, and the code changes it in the middle of handlers.
* Resources are finite and mostly never given back (pages, list elements,
  nodes, descriptors).

`PROJECT.json` lists these hazards one by one with their lines.

## 2. The modules

| Module | Stands for | Properties it states |
|---|---|---|
| `ByteChannel` | abstract: what a stream promises, a FIFO channel of bytes | (specification) |
| `Stream` | `stream.c`, one access to shared memory per step | `IInv` (`Inv`), `PeekSafe`, `ImplementsChannel`, `CallsComplete` |
| `ThreadQueue` | abstract: what a list promises its CPUs, a queue of threads | (specification) |
| `SpinList` | `list.c` and `locks.c`, one pointer or counter update per step | `MutualExclusion`, `ListSound` (`ElementsAccounted`, `SizeExact`, `NoLeak`), `IsQueue`, `LockReleased` |
| `PhysAlloc` | `palloc.c` and the part of booting that fills it | `PagesSound` (`GrantedOnce`), `PagesConserved`, `FailsOnlyWhenEmpty`, `LockReleased` |
| `Kmalloc` | `kmalloc.c` with `kbrk` | `HeapSound` (`NodesAccounted`, `ListsOrdered`, `HeapTiled`, `FullyMerged`), `GrowsWhenFull` |
| `HeapLock` | composes the queues, their elements, the locks of `list.c` and `memory.c`, ticks, the loader and system calls | `ElementsSuffice`, `DeadlockOnlyWhileShort`, `SpinningEnds` |
| `Scheduler` | `scheduler.c`, the waiting system calls, the two timers | `ThreadsSound` (`OnePlace`, `LoadBalanced`), `ReturnsWhenDone`, `RunnableRuns`, `EventsEndWaits`, `NoNullCall` |
| `Interrupts` | `isr.s`, `irq_handler`, the local APIC, the exchange of kernel stacks, on one CPU | `StacksSound` (`UserModeSound`, `Suspended`, `HaltedOpen`), `EoiSound`, `NestingBounded` |
| `Timer` | `timer.c`, the clock chip, and the waits of `cpu_wake_all` | `TimesRight` (`ClockRuns`, `SleepRight`, `UptimeRight`), `WaitsEnd` |
| `Descriptors` | `gdt.c`, `idt_set`, `isr_init`, with real addresses | `TablesRight` (`SegmentsFlat`, `OwnTss`, `CanStart`, `GatesRight`) |
| `Boot` | `kmain.c`, `cpu.c` | `BarrierSound` (`BarrierHolds`), `SpreadOverAll`, `AllCome` |
| `Ipc` | processes, descriptor tables, the system calls on them, driver interrupts | `TablesSound` (`NoGap`, `OneReaderOneWriter`), `Circulates`, `InterruptTaken`, `ConnectedToTarget` |
| `Userspace` | the programs that `Ipc` executes; composes `Ipc` with them | |
| `Names` | the byte-wise race of `proc_register` and `proc_get_by_name` | `LookupsRight` (`NeverMissed`, `SettledLookup`) |
| `Paging` | `paging.c` with `mboot_parse_cmdline`, `elf_load`, `cpu_wake_all`, heap growth, mmap and switching | `KernelEverywhere`, `OwnMemory` (`FindsOwn`, `UserTablesPrivate`) |
| `Console` | the kernel's console, the screen driver's and the full-screen driver's | `ShowsText` (`ServerShowsText`, `KernelShowsText`, `ShowsPicture`) |
| `ConsoleRace` | the kernel's cursor under several CPUs, access by access | `CursorRecovers` |
| `Format` | `kprintf`, `int2str` | `BufferRight` (`DigitsFit`, `PrintsText`, `StaysInside`) |
| `Cmdline` | `mboot_parse_cmdline`, `cmdline_find`, `ksubstr` | `FindsWord` (`ReadsPage`, `FirstOccurrence`, `NoFalseFind`) |
| `Snake` | the loop of `snake.c` | `SnakeSound` (`Connected`, `NeverTurnsBack`) |

A module has one type invariant, `TypeOK`; where a property is a conjunction
of the parts in brackets, `TypeOK` is another part of it. `MC*` modules give the
constants their values. `Waiting` (of `HeapLock` and `Timer`) and `Parts` (of
`Interrupts`, `Names`, `Cmdline`, `Descriptors`, `Console`, `ConsoleRace` and
`Snake`) each put modules that share no state into one specification: a behaviour
is one of one of them, and the others stay as they began. Their properties have
the names of the modules'; `LookupsRight` of `Parts` also includes `FindsWord` of
`Cmdline`, and `TimesRight` of `Waiting` includes `ClockRuns`. `MCParts` adds
`Kmalloc` and `Format` to `Parts`; its `StringsRight` is `BufferRight`. A step of
theirs changes nothing that `Parts` has, so that `AllSpec`, which TLC checks,
implies `PartSpec`, about which the theorems are. `*Proofs` modules hold the
theorems.

### State and actions

**Stream.** `wpc` and `rpc` are the places of the writing and the reading thread
in their calls. `WriteCheck`, `WriteStore`, `WriteAdvance` are the test for room,
the store into the slot and the update of `write`; `ReadCheck`, `ReadClaim`,
`ReadFetch` the test, the update of `read` and the fetch of the byte, in the
order of the code (the index moves *before* the byte is fetched). `WriteResume`
and `ReadResume` are the return from `sched_thread_wait`, when the event function
is true. The abstract channel's content is what lies between the indices plus the
byte the reader has claimed and not fetched.

**SpinList.** `section_enter` is the compare-and-swap, `section_spin` a failed
one. `list_pop`'s first look at `size` happens outside the lock (`StartPop`).
A push takes effect in the abstract queue when `size` is stored, because that is
when an unlocked look can see it. `list_elem_new` without a spare element waits for
`heap_lock`, which others take and leave as they like (`kmalloc_elsewhere`).

**PhysAlloc.** `BootRegion` ... `BootModule` are the loops of `mem_init` and
`mboot_parse` in the order of the code, `BootApics` the allocation of a page
table in between. `Enter`, `Scan`, `Exhausted`, `Reserve`, `Leave` are
`mem_phys_alloc`.

**Kmalloc.** A call is one action, since both run under one lock; inside, the
mutual recursion of `list_put` and `list_clean` is kept as recursive operators on
the allocator's record.

**Scheduler.** `at[c]` is a CPU's place in `sched_tick` (put the current thread
back, pick, ask `sched_can_run`, switch), `pc[t]` a thread's place in its system
call, `mask[t]` which interrupts are accepted while it runs. Reading
`thread->event` for the test and for the call are two steps. A thread that writes
(`SysWrite`, `stream_write`; `to` is whose stream) waits while there is no room, a
stream holding one byte here. The state `"lost"`
is the call of address 0.

**Boot.** `pc[c]` runs through `kmain` or `hello_world`. `++awoken_cpu` is a load
and a store, inside the lock of `cpu_sync`.

**Ipc.** `elf_load` creates the next process; each process executes its program
one system call after the other. CONNECT and HANDLE go through `iostream_attach`
in steps: look for a free slot, fill `input`, fill `output`. A stream carries
messages; that it does so in order is `Stream`'s result. An interrupt hits a thread,
of any process or the idle one. With room in the driver's stream nobody notices
(`driver_irq_notify`); if it is full that thread is held up (`NotifyWaits`, `held`)
until there is room (`NotifyResumes`). If it was just about to wait in a READ or
WRITE of its own, that call may go on to wait with the driver's stream, which the
handler has left in `thread->descr` (`descr`, `StaleEvent`).

**Names.** One step per byte that `kstrncpy` stores or `kstrcmp` reads, and the
byte on which `kstrcmp`'s loop ends is read twice.

**Paging.** Directories are functions from the few indices in use to page tables;
`paging_map` edits through entry 1023 of the directory in use, which
`page_dir_clone` redirects for a while (`CloneOpen`, `CloneCopy`, `CloneClose`).
Other CPUs run, allocate and map in between. A page table has `ENTRIES` entries;
`mboot_parse_cmdline` puts the command line's page at entry `CMDLINE` (0x70) of the
one that maps both the low memory and the kernel, `cpu_wake_all` page 0 at entry 1:
these two are `Lost`. `proc_section` is the loop of
`elf_load` over a module's section table: a name that occurs twice counts the
last time, `.bss` fills in the fields of `.data`, and a section that is missing
maps page 0 to itself.

**Interrupts.** `stack[t]` are the frames on thread t's kernel stack; each has its
vector, the priority and the flags of what it interrupted, and the place of its
handler (`entry`, `handler`, `yield`, `tick`, `return`, `halt`). `isr_common`
pushes one, on the stack the TSS names if it comes from user mode, `irq_handler`
sets the priority, acknowledges and enables interrupts, `isr_exit` restores. The
APIC (`Request`, `Interrupt`) offers the highest request above the priority and
above what is in service. `SpuriousYield` is the race of a delivery with the
write to the priority register. `Boot` is `kmain` from `interrupts_init` to
`sched_start_timer`, with interrupts enabled in its middle.

**HeapLock.** `at[c]` is the place of CPU c's kernel code, a tick or (on CPU 0,
before its timer starts) the loader; `pc[t]` that of a thread in `kmalloc` or
waiting. A push takes the list's lock, then a spare element or, with the lock
still held, the heap's lock for a new one. Sections that wait for nothing inside
are one step. `Deadlocked` follows the chain of who waits for whom.

**Timer.** The chip has an index port, registers and an interrupt line that stays
up until C is read; the I/O APIC takes rising edges. `_tick` is three steps on
top of whatever CPU 0 does; `timer_init`, `shutdown_code` (from `cpu_wake_all`)
and `timer_active_wait` are the boot CPU, `sleep` is one thread that sleeps.

**Descriptors.** Numbers are the real ones, in halves of 16 bits. `gdt_set` and
`idt_set` take them apart, `Base`, `Limit` and `GatesRight` put them together as
the processor does; `tss_flush` includes the processor's busy bit.

**ConsoleRace.** `reg` is what a CPU has read of the cursor and not written back;
the steps are the loads and stores of `screen_putchar` and `mv_cur`.

**Console, Format, Cmdline, Snake.** One action per character, item, position or
round; each is compared with an independent definition (the picture of the text
on a page without end, the concatenation of the items, the first occurrence).
`Format`'s numbers are 32-bit ones, in halves, since TLC's own end at 2^31;
`Overflow` is a digit behind the end of `int2str`'s buffer, `PrintNothing` a
conversion that `kprintf` does not know. `Cmdline` has a command line anywhere in
its page, behind a `front`: `Map` reads from the start of the page, as the code
does, and only if `mboot->flags` is not 0.

## 3. Runs

| Run | Instance | Shows |
|---|---|---|
| `stream` | 4 slots, bytes {0,1}, calls of 1 to 3 bytes | no byte lost, repeated, reordered or overwritten; PEEK is a lower bound; calls complete |
| `spin_list` | 2 CPUs, 3 threads, and others in the heap | the list is a queue and leaks nothing; its lock is given back, unless the heap's is not |
| `phys_alloc` | 3 CPUs, 8 pages, many boot informations | pages are granted once and only usable ones |
| `scheduler` | 2 CPUs, 3 threads, one of which never calls | one place; no early return; balance |
| `scheduler_live` | CPU 0 alone | threads run, sleepers wake, select returns |
| `scheduler_null` (violation) | CPU 0 alone | finding 1 |
| `boot` | 4 CPUs with ids out of order, max_cpu 1, 3, 4, 8 | the barrier |
| `ipc` | the token ring with the screen driver, the game with keyboard and full-screen drivers, or the streamers with the screen driver, each beside `srv_loop`; streams of 3 messages; 2 threads in handlers that wait | tables sound even when attaching collides; programs end or go round their loops, and drivers make room for interrupts, unless one that waits has hit a program that matters to them |
| `ipc_connect` (violation) | the ring | finding 2 |
| `paging` | 3 processes, 3 CPUs, page tables of 4 entries, a heap of 4 pages, three kinds of section tables | kernel everywhere, user memory complete and private |
| `waiting` | `HeapLock`: 2 CPUs with 2 threads each, one of each makes calls. `Timer`: a counter of 3 bits | who can wait for whom; clock and sleeps |
| `parts` | see below | the parts that keep to themselves |

`parts` checks the modules that share nothing with the others, one of them in
each behaviour:

* `Names`: 3 processes with names that share a beginning;
* `Kmalloc`: 4 pages of 2 units, sizes 1, 2, 3, blocks up to 4;
* `Interrupts`: 2 threads and the idle thread, the keyboard, the clock and the
  tick, faults, stacks of 5 frames, and one wait in a driver's handler;
* `Descriptors`: 3 of 4 CPUs, three places of the TSSs;
* `ConsoleRace`: 2 CPUs, 3 by 2 cells, a cursor that counts to 7;
* `Console`: 3 by 2 cells, all texts of up to 8 characters, all pictures;
* `Format`: all formats of two items with numbers at the limits of the bases, of 31
  bits and of 32 bits;
* `Cmdline`: a word of 3 characters in all lines of up to 5 over 4 characters, at
  the start of a page or behind other text or zeros;
* `Snake`: 3 to 6 segments on 4 by 3 cells.

### Why the bounds are enough

* `stream`: 4 slots hold two bytes, so the buffer is empty, partly filled and
  full, the indices wrap at every alignment, and a call of three bytes has to
  block in its middle. Every larger size is covered by the proofs.
* `spin_list`: two CPUs give every race of the lock and the unlocked look; three
  threads make the list empty, of one element (head = tail) and longer.
* `phys_alloc`: words of two bits make the scan cross words and meet the guard;
  the memory maps have regions on and off page boundaries, overlapping, with
  holes, and modules that begin or end inside a page.
* `scheduler`: two CPUs and three threads give a CPU with a thread and one with
  two; lengths of 1 tick and 2 bytes make a call block more than once.
* `boot`: four CPUs out of order, with a limit below, at and above their number.
* `ipc`, `ipc_connect`: three processes are the smallest in which two of them connect to the
  same third one while it is itself connecting; the fourth has no connections, so
  that an interrupt may hit somebody whom nobody waits for. With two threads in
  handlers a driver and its client can both be there; a third one would wait for
  the same stream. A stream holds the lines that
  the streamers print in all their rounds (5 of 32 bytes in 1022, here 3 in 3)
  but not the packets of a round, as in the code; 3 rounds, like 5, leave the
  screen driver with half of what it reads.
* `paging`: three processes on three CPUs, so that one is loaded while two run, four
  entries, so that two pages of low memory are not lost,
  and a heap that grows before, during and after cloning.
* `waiting`: two threads on a CPU are the fewest with which a list lacks an
  element while a tick needs one, and CPU 0 differs from the other. A counter
  of 3 bits comes round under sleeps; minus three and minus one are 5 and 7.
* `parts`: two names that differ in the last character are what the race of
  copying and comparing needs; three list sizes are needed for a split of a split
  and a merge of a merge; a call, the spurious vector, the tick and a device are
  all that can nest, and the fifth frame shows that they are; 8 characters fill 6
  cells and scroll; with two CPUs the cursor already gets as far as its byte goes;
  two items show whether the second starts where the first ended; five characters
  hold the word behind a part of itself; the snake can meet itself and reaches
  its limit.

`CHECK_DEADLOCK FALSE` is used where the system really stops: CPUs that spin for
ever after memory is exhausted (`phys_alloc`), the idle loops (`boot`), processes
that wait for ever after a lost connection or after the last round (`ipc`), CPUs
that wait for each other while modules are loaded (`waiting`), and, in `parts`, a
single call that has ended, a text of the bounded length and a stack of the
bounded depth.

### Fairness

* `Stream`: weak fairness of each thread's steps inside a call (the scheduler
  runs it, see `RunnableRuns`), and of calling `read` again, as the servers'
  loops do. Nobody has to write.
* `SpinList`, `PhysAlloc`: weak fairness of steps inside calls; CPUs keep
  executing. Nothing is assumed about who wins the compare-and-swap, and nothing
  is claimed about it. The heap's other users need not leave it: `LockReleased` of
  `SpinList` excepts a holder that finds the heap's lock taken again and again.
* `Scheduler`: weak fairness of the steps of `sched_tick`; strong fairness of the
  two timer interrupts, because the interrupt controllers hold a request until
  the CPU accepts it, so one that is acceptable again and again is delivered;
  strong fairness of a thread's steps inside the kernel, because a time slice is
  much longer than a few instructions. The run has `srv_loop` on CPU 0, as in
  `userspace/modfile`: a thread that yields gives the CPU to the next one with
  interrupts off, and only returning to user mode switches them on again, so that
  progress of the clock rests on some thread of CPU 0 reaching user mode.
* `Boot`: weak fairness of every CPU that runs.
* `Ipc`: weak fairness of loading and of every process. Interrupts need not come.
* `HeapLock` (`LocksFair` in `Waiting`): weak fairness of a CPU's kernel code and of its
  timer, strong fairness of a thread's `kmalloc`, which gets a slice again and
  again. So `SpinningEnds` says of every lock that it does not stay taken (unless
  there is a deadlock), and that somebody gets it in two cases: a thread in
  `kmalloc`, by the strong fairness, and a tick at its own queue's lock, for which
  only the loader competes, and it pushes a bounded number of times. That a CPU
  which spins for the heap's lock wins it is not claimed.
* `Timer` (`ClockFair` in `Waiting`): the chip keeps its period and interrupts are taken
  (weak); CPU 0's own code runs between interrupts, and the scheduler asks for a
  sleeper's event again and again (strong: a clock faster than an instruction
  could starve them, and it is not).

## 4. Proofs

All are for every value of the constants that satisfies the module's ASSUME.

**StreamProofs.** `IInv` is `TypeOK /\ Inv`. `Inv` says that between its check
and its use of a slot the writer still has room and the reader still has a byte,
and that `read # write`. The size of the buffer enters only as a number of at
least 2. `IndicesApart` is what makes it inductive: with equal
indices the length formulas would call a buffer both full and empty. The two key
lemmas, `AdvanceWrite` and `AdvanceRead`, say that advancing one index lowers that
side's length by one and raises the other's. From it follow
`ChecksStayValid` and, with a strengthening for the reader's knowledge,
`PeekIsSafe`. `StreamIsChannel` is the refinement: `WriteAdvance` appends a byte
(`AdvancePuts`), `ReadFetch` takes the first (`FetchGets`), all other steps leave
the content as it is (`StoreKeeps`, `ClaimKeeps`).

**SpinListProofs.** `SpinLockExcludes`: the lock word is 1 exactly when somebody
is in the section, and at most one CPU is. For the list, `Links` relates pointers
to a sequence, and `ChainIs` shows that following the pointers finds exactly that
sequence (by looking at the first place where it would not, since induction is not
available). `Sound(L, F)` is the invariant: L is the list, F the free chain, every
element is in one of them or in the hands of the one CPU in the section
(`Places`); the size is behind by one while an element is being moved (`Counts`);
what that CPU knows of its element (`Knows`); and every thread is queued once or
with one CPU (`Owned`). `ListStaysSound` follows, with a pigeonhole (`RoomForOne`)
for the bound on the number of elements. `ListIsQueue` is the refinement of
`ThreadQueue`: each step lemma also says what the step does to the queue of L, and
`PushSize`, `PopUnlink` and the unlocked look at the size are the only ones that
the abstract queue sees.

**PhysAllocProofs.** `IInv` adds to `PagesSound` and `FailsOnlyWhenEmpty` that
the lock excludes, that nobody allocates before the map is complete, that what a
scan found is still free when it is reserved, and that pages allocated while
booting are not free. The lemmas before it are about the correspondence of pages
and (word, bit) and about ranges with wrapping addresses. `NoPageLeaks` is the
other direction. `CInv` adds `Progress`: which pages are free after so many
regions and modules. `RegionExact` and `ModuleExact` show that the rounding and
wrapping arithmetic of the code computes exactly the pages that lie inside a
region, or touch a module; `CpuMoves` that a step of a CPU moves one page from
the map to its hands, or none.

**BootProofs.** A counting argument: `awoken_cpu` is the number of CPUs that have
stored it, these are among the CPUs in use, `maximum_cpu` is the number of those;
when the numbers are equal so are the sets. It gives `BarrierIsSafe` (with the
types: no overshoot) and `ModulesSpread`, which is about the CPUs that
`scheduler_find` chooses among; how it chooses is in `Scheduler` (`LoadBalanced`). The module has two more parts, about
`Waiting`.

For `HeapLock`, `LocksInv` says who holds which lock at which place (`ListLocks`,
`HeapLocked`), that a thread belongs to one CPU and makes no call before it was
given to it (`Owners`), and that the elements of a list are the spare ones and those
of the queued threads, never more than the CPU has threads (`ElementsCounted`).
`ElementsAlwaysSuffice` is read off it. `DeadlocksOnlyWhileShort` is about a chain
of waiting that is followed as many steps as there are CPUs and threads. If no CPU
is short of an element, a tick that holds a list waits for nobody, so that every
chain ends: `HeapEnds` and `CpuEnds` do it place by place, `ChainsEnd` adds that a
few steps are enough from anywhere, `ChainExists` gives the function that the
chain is (by a smallest counterexample, `Smallest`, instead of induction), and
`Rounds` puts them together.

For `Timer`, `ClockInv` says what the chip's registers hold at each place of the
boot CPU's code, that the line is only up when its interrupt is pending or being
handled, that between the two port writes of `cpu_wake_all` only the two registers
that do no harm can be selected, and how the counter stands to a sleep's start
(`Slept`). The conversions are arithmetic: `FieldsRight` and `UptimesRight`.

**SchedulerProofs.** A CPU has at most one thread in its hands: the current one,
or between picking and switching the next one (`Hand`). `Placed` says, of queues
and hands, that every thread made so far is in exactly one place of one of them;
three lemmas about sequences (`HandToQueue`, `NewToQueue`, `QueueToHand`) show
that it survives the three kinds of moves, whoever makes them, and each action is
one of the moves or none. `PlaceInv` adds that a CPU's idle thread is its own and
that `load` counts its threads; `PlacedOnce` turns it into the counting of
`OnePlace`. For `CallsReturnDone`, `CallInv` says which event belongs to which
place in a system call, and that only a write that is not done has a `to`, so that
a tick that clears the event has found it true.

**PartsProofs.** For `Interrupts`, `IInv` describes each kernel stack by its neighbouring
frames (`Good`, with `Adj`): a frame interrupted a place where its vector was
accepted, and saved the priority that place ran at (`Prio`). It has to speak of
all frames, because a return makes an older one the top. With `TopOK` (what the
top frame says of the registers), `Acknowledged` (a vector is in service exactly
between delivery and EOI) and `Suspended` (what a thread that lost the CPU left on
its stack), it is inductive for any number of threads, depth and waits.
`NestingIsBounded` follows from priorities that ascend along a stack without a
driver's wait (`NestingOrder`).

The other parts of `Parts` have an inductive invariant each:

* `NamesInv`: how much of each name is copied, and what comparing has shown so far
  (`Compared`): the bytes before the current one agree, as far as the names that
  were complete when the lookup began are concerned. `SameName` turns bytes that
  agree up to the 0 into equal names.
* `LineInv` and `SearchInv`: what is searched is the start of the page up to the
  first 0 (`MapReads`), which is the whole command line behind its front if there is
  none in the front. The word occurs at no position before the current one, and its
  first characters are here (`Searched`). `OccursByBytes` and `TruncatedByBytes`
  relate what `ksubstr` reads to `SubSeq`.
* `TablesInv`: which stage of booting the tables are in, and what each entry was
  packed from. `FlatEntry`, `TssFits` and `Quotient` put the halves, bytes and
  nibbles together again; that the limit of a TSS covers it, although it is the
  next one's address cut to 20 bits, is `TssFits`.
* `RaceInv`: the cursor is beyond the right margin only while somebody who read it
  there is about to move it.
* `SnakeInv`: the head is one step from its neck, in the direction of the last
  round; `Turn` and `TwoSteps` are the arithmetic on the torus: two steps never
  lead back unless they are opposite, on any screen of the sizes assumed.
* `ConsoleInv`: the reference places the text by a function that is recursive over
  it. No induction is needed, because the invariant says that there is a function
  p that places the text as far as it goes (`Placed`; `PlacedAfter` extends it by
  one character, `PlaceIs` shows that it is the reference's). `Downwards` says that
  rows only grow, which makes scrolling (`ScrollShown`) and storing a character
  (`StoreShown`) show the same as the longer text. The kernel's cursor is one row
  behind when a line is full, since it wraps one character late (`KernelAt`).

**PagingProofs.** `Mem` and `Struct` say which tables exist and that two
directories share a table only at the places where they should (`Same`). The
lemma `Maps` is the full meaning of `paging_map` - what is mapped afterwards, in
every directory, and what stays - under the condition `MayMap`; each caller is
shown to satisfy it (`UserMap`, `KernelMap`, `WindowMap`, `LowMap`, `HeapMap`).
`Control` is where the loader and the CPUs are, `Contents` what is mapped by then.
`OneSection` is one round of the section loop. `Private` says that a directory
that has just been cloned and the ones before it have no user table in common.

**IpcProofs.** `TablesSound` is about single slots; its induction needs to know
how every entry came about. `Placed` says which call of which process made the
stream in a slot, and that this call is far enough (`Past`); `HalfFilled`, that a
slot with an input and no output is being filled by somebody right now; `DataOK`,
that nothing is sent to a process before its side of a connection is complete, so
that SELECT never answers a slot without an output; `JobOK` and `VarOK`, what a
call that is attaching, and a program's variables, refer to; `HeldOK`, that threads
in handlers wait for streams that exist. `Room` is a
pigeonhole: inputs in one table come from different calls, so that the scan finds
a slot. That attachments may collide (finding 2) is part of the model, and the
theorem holds with it.

### Only model-checked

* Everything about liveness (`CallsComplete`, `LockReleased`, `RunnableRuns`,
  `EventsEndWaits`, `AllCome`, `Circulates`, `InterruptTaken`, `SpinningEnds`,
  `WaitsEnd`): it rests on fairness, which the proof system does not handle.
* `HeapSound` and `GrowsWhenFull`: `Kmalloc` is mutually recursive as the code is,
  and what its operators compute would need induction over lists and powers of two.
* `StringsRight`: `int2str` against numerals of any length is a sum of powers, and
  the text of a format is a fold over its items: both are induction over data.

All other properties of the passing runs are theorems.

## 5. Findings

1. **The event pointer is read twice** (`scheduler.c:229`). The test
   `thread->event && ...` can be followed by a tick that clears it, and then
   address 0 is called. It depends on the compiler loading the pointer twice,
   which it does in this build (no optimisation is set in the makefiles).
2. **Two attachments may take the same slot** (`stream.c:88`). CONNECT then
   answers a descriptor whose other end does not exist, or whose two streams
   belong to different peers. `NoGap` and `OneReaderOneWriter` hold nevertheless,
   so that the damage is limited to the colliding connections.

More behaviours are part of the models, and the properties are stated around
them:

* After the last page, `mem_phys_alloc` returns 0xDEADC0DE as an address and
  keeps its lock, at the place of the comment `/*PANIC!*/` (`palloc.c:52`; action
  `Exhausted`).
* `kstrcmp` may take one name for another while it is being copied, because it
  reads the byte on which it ends a second time (`util.c:69`; `SettledLookup`
  speaks of lookups after that).
* While CPUs are being given their second and later threads, a tick that needs a
  list element, a thread that it interrupted inside `kmalloc`, and the loader can
  wait for each other for ever (`list.c:26`). `DeadlockOnlyWhileShort` says that
  this is the only time.
* A driver's handler that finds its stream full makes the thread wait that the
  interrupt has hit (`drivers.c:23`). If that is the driver, it waits for itself to
  read; if it is the snake while the keyboard driver waits to write to it, both wait
  for ever (`Spared` in `Circulates` and `InterruptTaken`). And the handler leaves
  its own stream in `thread->descr`: a READ or WRITE that was about to wait may then
  wait for the driver's stream, and a sleep, whose event the handler clears, ends
  early. Device interrupts go to CPU 0 only, so only its threads can be hit; and the
  keyboard controller sends no further key before the last one was fetched from its
  port, so that the 1022 bytes of the stream fill up only with a device that does not
  wait for its driver.
* Such a handler calls `sched_yield`,
  which lowers the task priority below its own: from then on ticks nest inside
  it, and `NestingBounded` is about behaviours without such a wait.
* The shutdown code that `cpu_wake_all` writes to the clock chip is lost if the
  clock interrupts between the two port writes (`cpu.c:141`); nothing else is
  changed by it.
* A sleep that would end with the last value of the tick counter never ends
  (`timer.c:106`); `WaitsEnd` makes that exception.
* Two CPUs that print at once can push the kernel's cursor below the screen, as
  far as a byte goes, until somebody scrolls (`screen.c:123`), so that characters
  are stored behind the video memory's visible part.
* The page at 0x1000 is lost to the warm reset vector, since paging cuts 0x467 to
  a page (`cpu.c:144`), and the one at 0x70000 to the command line's page
  (`mboot.c:79`): both also where the kernel is mapped, and in every directory.
* The address of the command line is cut to a page too (`mboot.c:79`, `paging.c:9`),
  and the string is read from the start of that page: `max_cpu=` is searched in the
  command line only if it begins a page or follows text without a 0 (`ReadsPage`).
  The test before it, `flags && 0x04`, is true for any flag (`mboot.c:77`).
* `%b` of a number from 2^31 on has 32 digits and a terminator for a buffer of 32
  bytes (`util.c:5`); no call in the repository uses `%b`. `DigitsFit` says that there
  is no other such case.
* A CPU may spin for the heap's lock while it holds a list's (`list.c:26`), and
  everybody else who needs that list then spins as long (`LockReleased`).
* `ksubstr` accepts when either string ends (`util.c:86`): a command line that ends
  with a beginning of `max_cpu=` sets the number of CPUs from a byte behind its end;
  `NoFalseFind` makes that exception.
* A section `.bss` takes the place of `.data` (`elf.c:37`); with the linker's
  layout both share a page, and the mapping is the same.
* The screen driver waits for 64 bytes, the streamers send 32 (`srv_screen.c:133`):
  after an odd number of rounds it waits for ever, and with more rounds than a
  stream holds lines all three would.

## 6. Assumptions and what is left out

* `Ipc` treats REGISTER as one step (`Names` has its bytes) and assumes of the
  programs that all attachments together fit into one table, that they are made
  before a program's loop, that nobody connects to itself, and that a descriptor
  is assigned before it is used; the token program reports every 2 rounds and not every 4096.
  `Circulates` and `InterruptTaken` are stated for behaviours without the
  collisions of finding 2, and of programs that are connected with no program that
  is held up in a driver's handler: those that are may wait for ever (section 5).
* `PhysAlloc` assumes what the code assumes of the boot loader: regions below
  4 GB that contain a page boundary, and a first free page that is not in a
  module.
* `Boot` assumes an MP table that lists each processor once, the boot CPU first
  with id 0, and processors that answer.
* `Kmalloc` assumes requests that fit the largest list, and enough nodes.
* `Paging` leaves out access rights and the TLB; the heap stays within its first
  page table (4 MB): a second one would be missing in directories cloned before
  (`paging.c:86`); a section is one page, the first, which is all that the code
  maps. Modules have a `.text`, no name twice, and a `.bss` only on the page of its
  `.data`, as the linker script lays them out.
* `Interrupts` has one CPU and one device with a driver; the events of threads
  are in `Scheduler`. `HeapLock` gives every thread one allocating call.
* `Descriptors` assumes CPU ids below `MAX_CPU`, and that the TSSs do not begin a
  megabyte.
* `Console` assumes at least two columns (the code has 80): with a single one the
  kernel's late wrap would take its cursor below the row behind the screen. Names,
  command lines and the word looked for contain no 0, and the word is not empty.
* `Cmdline` assumes that the string is complete in its page, and `Format` that a
  format does not end with `%` and that `%c` does not print a 0, as no caller's does.
* `Names` has names shorter than `PROC_MAX_NAME_LEN`; `UptimeRight` is checked below
  2^31 ticks, and proved without a limit (the code's product with 1000 is of a
  remainder below 1024, so that it does not overflow).
* `KernelShowsText` is stated for texts whose lines fit: the kernel's console
  wraps one character late.
* Priorities are always 0 in this code, and one queue per CPU is modelled.
* Not modelled: the search for the MP table and the 16-bit start-up code
  (memory layout and machine modes), the values of APIC and PIC registers other
  than vectors and priorities, debugging output and dumps, colours, functions
  without callers (`list_prealloc`, `list_print`, `truncate`, `message.c`), and
  programs without interaction (`ping`) or that no longer compile
  (`pong`, `srv_keyboard2`).

## 7. Plan

Order of the work: streams, lists and pages first, since everything rests on
them; then the scheduler and booting, connections and programs, memory, the
helpers; then interrupts, time, the descriptor tables, the locks inside locks,
the races on the console and the layout of modules; then the proofs, of every safety
property that is within the prover's reach (section 4). These are done. What is left:

1. The heap beyond its first page table (a table added after a directory was
   cloned is missing in it), and descriptor tables that get full.
2. The events of threads under a driver's handler that waits, by composing
   `Interrupts` with `Scheduler`: `Ipc` has the stale descriptor, and not the sleep
   that ends early.
