----------------------------- MODULE PhysAlloc -----------------------------
(***************************************************************************)
(* The physical page allocator (src/kernel/palloc.c): a bitmap of free     *)
(* pages, BITS pages to a word, with a guard word behind the last one.  It *)
(* is filled at boot by one CPU from the memory map and the module list of *)
(* the boot loader (memory.c mem_init, mboot.c mboot_parse), in the order  *)
(* of the code; from then on every CPU allocates from it under a spin lock *)
(* and no page ever comes back.                                            *)
(*                                                                         *)
(* A word is the set of its one-bits, an address a number of bytes below   *)
(* MEMORY (2^32 in the code), where uint32 arithmetic wraps.               *)
(***************************************************************************)
EXTENDS Integers, Sequences

CONSTANTS Cpu, BITS, ENTRIES, PAGE_SIZE,
          FixedPages,  \* page 0, the kernel image, the local and the IO APIC
          BootInfos,   \* what the boot loader may report (struct mboot)
          DEADC0DE     \* what a failed allocation returns

PAGES == BITS * ENTRIES
MEMORY == PAGE_SIZE * PAGES
Page == 0..(PAGES - 1)
Bit == 0..(BITS - 1)
Word == 0..ENTRIES

\* Page b of word w.
PageOf(w, b) == BITS * w + b

VARIABLES memory_map, lock,
          info, boot, step,   \* struct mboot, the phase of booting and the
                              \* position in the list it is going through
          early,              \* pages allocated while booting
          pc, word, bit, got  \* per CPU: its place in mem_phys_alloc, its
                              \* locals, the results of its calls

bootvars == <<info, boot, step, early>>
cpuvars == <<pc, word, bit, got>>
vars == <<memory_map, lock, bootvars, cpuvars>>

FreePages == {p \in Page : (p % BITS) \in memory_map[p \div BITS]}
-----------------------------------------------------------------------------
page_count(bytes) == (bytes + PAGE_SIZE - 1) \div PAGE_SIZE
page_align(addr) == (addr \div PAGE_SIZE) * PAGE_SIZE

\* Forms that a plausible slip would give the definitions below.
module_counts_from_start(m) ==
    [addr |-> page_align(m.start), pages |-> page_count((m.end - m.start) % MEMORY)]

\* mem_init: the pages of an available region, the first address rounded up,
\* the end rounded down.
region_pages(r) ==
    LET addr == page_align((r.base + PAGE_SIZE - 1) % MEMORY)
        end  == page_align((r.base + r.length) % MEMORY)
    IN  [addr |-> addr, pages |-> ((end - addr) % MEMORY) \div PAGE_SIZE]

\* mboot_parse: the pages of a module.
module_pages(m) ==
    [addr  |-> page_align(m.start),
     pages |-> page_count((m.end - page_align(m.start)) % MEMORY)]

\* The pages that mem_phys_free_range and mem_phys_reserve_range go through.
PageSet(x) ==
    {((x.addr + PAGE_SIZE * k) % MEMORY) \div PAGE_SIZE : k \in 0..(x.pages - 1)}

mem_phys_free_range(map, pages) ==
    [w \in Word |-> map[w] \cup {b \in Bit : PageOf(w, b) \in pages}]

mem_phys_reserve_range(map, pages) ==
    [w \in Word |-> {b \in map[w] : PageOf(w, b) \notin pages}]
-----------------------------------------------------------------------------
(* What the memory map means, stated without the code's arithmetic.        *)

Covers(lo, hi, p) == lo <= p * PAGE_SIZE /\ (p + 1) * PAGE_SIZE <= hi
Touches(lo, hi, p) == lo < (p + 1) * PAGE_SIZE /\ p * PAGE_SIZE < hi

InModules(i, p) ==
    \/ p = i.self \div PAGE_SIZE
    \/ \E k \in 1..Len(i.modules) :
         \/ p = i.modules[k].at \div PAGE_SIZE
         \/ Touches(i.modules[k].start, i.modules[k].end, p)

\* The pages that lie in an available region, and those nobody else uses.
Available(i) ==
    {p \in Page : \E k \in 1..Len(i.mmap) :
        /\ i.mmap[k].type = 1
        /\ Covers(i.mmap[k].base, i.mmap[k].base + i.mmap[k].length, p)}

Usable(i) == {p \in Available(i) \ FixedPages : ~InModules(i, p)}

\* The code trusts the boot loader in three ways: a region ends below 2^32 and
\* holds a page boundary (otherwise end - addr is negative and wraps), and the
\* first page that is free when mem_init maps the APICs is none that mboot_parse
\* reserves afterwards.
BootInfoOK(i) ==
    /\ i.mmap \in Seq([base : Nat, length : Nat, type : Nat])
    /\ \A k \in 1..Len(i.mmap) :
         /\ i.mmap[k].base + i.mmap[k].length < MEMORY
         /\ \E p \in Page : /\ i.mmap[k].base <= p * PAGE_SIZE
                            /\ p * PAGE_SIZE <= i.mmap[k].base + i.mmap[k].length
    /\ i.self \in 0..(MEMORY - 1)
    /\ i.modules \in Seq([start : Nat, end : Nat, at : 0..(MEMORY - 1)])
    /\ \A k \in 1..Len(i.modules) :
         i.modules[k].start < i.modules[k].end /\ i.modules[k].end < MEMORY
    /\ \E p \in Available(i) \ FixedPages :
         /\ \A q \in Available(i) \ FixedPages : p <= q
         /\ ~InModules(i, p)

ASSUME PhysAllocAssumption ==
    /\ BITS \in Nat \ {0} /\ ENTRIES \in Nat \ {0} /\ PAGE_SIZE \in Nat \ {0}
    /\ FixedPages \subseteq Page
    /\ \A i \in BootInfos : BootInfoOK(i)
    /\ DEADC0DE \notin Page
-----------------------------------------------------------------------------
(* Booting: mboot_parse on the first CPU                                   *)

\* The map is in the zeroed data segment; mem_phys_init sets the guard.
Init ==
    /\ memory_map = [w \in Word |-> IF w = ENTRIES THEN Bit ELSE {}]
    /\ lock = 0
    /\ info \in BootInfos
    /\ boot = "regions" /\ step = 1
    /\ early = {}
    /\ pc = [c \in Cpu |-> "idle"]
    /\ word = [c \in Cpu |-> 0]
    /\ bit = [c \in Cpu |-> 0]
    /\ got = [c \in Cpu |-> {}]

\* One turn of the loop over the memory map in mem_init.
BootRegion ==
    /\ boot = "regions"
    /\ step <= Len(info.mmap)
    /\ memory_map' = IF info.mmap[step].type = 1
                       THEN mem_phys_free_range(memory_map, PageSet(region_pages(info.mmap[step])))
                       ELSE memory_map
    /\ step' = step + 1
    /\ UNCHANGED <<lock, info, boot, early, cpuvars>>

\* The fixed reservations that follow the loop.
BootFixed ==
    /\ boot = "regions"
    /\ step > Len(info.mmap)
    /\ memory_map' = mem_phys_reserve_range(memory_map, FixedPages)
    /\ boot' = "apics"
    /\ UNCHANGED <<lock, info, step, early, cpuvars>>

\* The end of mem_init: mapping the APICs allocates a page table, before the
\* pages of the boot information and the modules are reserved.
BootApics ==
    /\ boot = "apics"
    /\ \E p \in FreePages :
         /\ \A q \in FreePages : p <= q
         /\ memory_map' = mem_phys_reserve_range(memory_map, {p})
         /\ early' = early \cup {p}
    /\ boot' = "self"
    /\ UNCHANGED <<lock, info, step, cpuvars>>

\* mboot_parse after mem_init: the page of the boot information itself, then
\* module by module.
BootSelf ==
    /\ boot = "self"
    /\ memory_map' = mem_phys_reserve_range(memory_map, {info.self \div PAGE_SIZE})
    /\ boot' = "modules" /\ step' = 1
    /\ UNCHANGED <<lock, info, early, cpuvars>>

BootModule ==
    /\ boot = "modules"
    /\ step <= Len(info.modules)
    /\ memory_map' = mem_phys_reserve_range(memory_map,
                       PageSet(module_pages(info.modules[step]))
                         \cup {info.modules[step].at \div PAGE_SIZE})
    /\ step' = step + 1
    /\ UNCHANGED <<lock, info, boot, early, cpuvars>>

BootDone ==
    /\ boot = "modules"
    /\ step > Len(info.modules)
    /\ boot' = "up"
    /\ UNCHANGED <<memory_map, lock, info, step, early, cpuvars>>

Boot == BootRegion \/ BootFixed \/ BootApics \/ BootSelf \/ BootModule \/ BootDone
-----------------------------------------------------------------------------
(* mem_phys_alloc, on any CPU                                              *)

StartAlloc(c) ==
    /\ boot = "up"
    /\ pc[c] = "idle"
    /\ pc' = [pc EXCEPT ![c] = "enter"]
    /\ UNCHANGED <<memory_map, lock, bootvars, word, bit, got>>

enter_ignores_lock(c) ==
    /\ pc[c] = "enter"
    /\ lock' = 1
    /\ pc' = [pc EXCEPT ![c] = "scan"]
    /\ UNCHANGED <<memory_map, bootvars, word, bit, got>>

\* section_enter: the compare-and-swap succeeds only on a free lock.
Enter(c) ==
    /\ pc[c] = "enter"
    /\ lock = 0
    /\ lock' = 1
    /\ pc' = [pc EXCEPT ![c] = "scan"]
    /\ UNCHANGED <<memory_map, bootvars, word, bit, got>>

\* The first word that is not zero, the guard at the latest.
FirstWord(w) ==
    /\ memory_map[w] # {}
    /\ \A v \in 0..(w - 1) : memory_map[v] = {}

exhausted_one_early(c) ==
    /\ pc[c] = "scan"
    /\ \A v \in 0..(ENTRIES - 2) : memory_map[v] = {}
    /\ got' = [got EXCEPT ![c] = @ \cup {DEADC0DE}]
    /\ pc' = [pc EXCEPT ![c] = "idle"]
    /\ UNCHANGED <<memory_map, lock, bootvars, word, bit>>

\* The scan stops at the guard word: the call returns, the lock stays taken.
Exhausted(c) ==
    /\ pc[c] = "scan"
    /\ FirstWord(ENTRIES)
    /\ got' = [got EXCEPT ![c] = @ \cup {DEADC0DE}]
    /\ pc' = [pc EXCEPT ![c] = "idle"]
    /\ UNCHANGED <<memory_map, lock, bootvars, word, bit>>

\* The scan finds the lowest free page.
Scan(c) ==
    /\ pc[c] = "scan"
    /\ \E w \in 0..(ENTRIES - 1) :
         /\ FirstWord(w)
         /\ \E b \in memory_map[w] :
              /\ \A d \in memory_map[w] : b <= d
              /\ word' = [word EXCEPT ![c] = w]
              /\ bit' = [bit EXCEPT ![c] = b]
    /\ pc' = [pc EXCEPT ![c] = "reserve"]
    /\ UNCHANGED <<memory_map, lock, bootvars, got>>

\* mem_phys_reserve(addr)
Reserve(c) ==
    /\ pc[c] = "reserve"
    /\ memory_map' = [memory_map EXCEPT ![word[c]] = @ \ {bit[c]}]
    /\ pc' = [pc EXCEPT ![c] = "leave"]
    /\ UNCHANGED <<lock, bootvars, word, bit, got>>

leave_keeps_lock(c) ==
    /\ pc[c] = "leave"
    /\ got' = [got EXCEPT ![c] = @ \cup {PageOf(word[c], bit[c])}]
    /\ pc' = [pc EXCEPT ![c] = "idle"]
    /\ UNCHANGED <<memory_map, lock, bootvars, word, bit>>

\* section_leave, and the page goes to the caller.
Leave(c) ==
    /\ pc[c] = "leave"
    /\ lock' = 0
    /\ got' = [got EXCEPT ![c] = @ \cup {PageOf(word[c], bit[c])}]
    /\ pc' = [pc EXCEPT ![c] = "idle"]
    /\ UNCHANGED <<memory_map, bootvars, word, bit>>

Locked(c) == Exhausted(c) \/ Scan(c) \/ Reserve(c) \/ Leave(c)

Next == Boot \/ \E c \in Cpu : StartAlloc(c) \/ Enter(c) \/ Locked(c)

Spec == Init /\ [][Next]_vars

\* A CPU that is in the locked section keeps executing, and so does the boot.
FairSpec == Spec /\ WF_vars(Boot) /\ \A c \in Cpu : WF_vars(Locked(c))
-----------------------------------------------------------------------------
\* Type correctness, and the guard word stays in place.
TypeOK ==
    /\ memory_map \in [Word -> SUBSET Bit]
    /\ memory_map[ENTRIES] = Bit
    /\ lock \in {0, 1}
    /\ info \in BootInfos
    /\ boot \in {"regions", "apics", "self", "modules", "up"}
    /\ step \in Nat \ {0}
    /\ early \subseteq Page
    /\ pc \in [Cpu -> {"idle", "enter", "scan", "reserve", "leave"}]
    /\ word \in [Cpu -> 0..(ENTRIES - 1)]
    /\ bit \in [Cpu -> Bit]
    /\ got \in [Cpu -> SUBSET (Page \cup {DEADC0DE})]

\* The page a CPU has taken out of the map and not yet returned.
InHand(c) == IF pc[c] = "leave" THEN {PageOf(word[c], bit[c])} ELSE {}

Granted(c) == (got[c] \cup InHand(c)) \ {DEADC0DE}

\* No page is handed out twice, to two CPUs or while the map still calls it
\* free, although the scan and the reservation are separate steps.
GrantedOnce ==
    /\ \A c \in Cpu : Granted(c) \cap (FreePages \cup early) = {}
    /\ \A c \in Cpu : InHand(c) \cap got[c] = {}
    /\ \A c, d \in Cpu : c # d => Granted(c) \cap Granted(d) = {}

\* The bitmap with its guard word, and the pages given out (palloc.c).
PagesSound == TypeOK /\ GrantedOnce

\* Once the system is up the free and the granted pages are exactly the pages
\* of available memory that neither the kernel nor the APICs, the boot
\* information or a module occupy: none leaks and none is taken from them.
PagesConserved ==
    boot = "up" =>
      FreePages \cup early \cup UNION {Granted(c) : c \in Cpu} = Usable(info)

\* An allocation fails only when every page is gone.
FailsOnlyWhenEmpty == (\E c \in Cpu : DEADC0DE \in got[c]) => FreePages = {}

\* The lock is given back as long as there is memory.
LockReleased == (lock = 1) ~> (lock = 0 \/ FreePages = {})
=============================================================================
