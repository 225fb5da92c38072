------------------------------- MODULE Paging -------------------------------
(***************************************************************************)
(* Address spaces: src/kernel/paging.c, the mappings that elf_load (elf.c) *)
(* with proc_create (process.c), thread_create (thread.c), kbrk (memory.c) *)
(* and SYSCALL_MMAP make with it, and the switching of page directories.   *)
(*                                                                         *)
(* The boot CPU loads the processes one after the other while the other    *)
(* CPUs already run those that are loaded.  Every directory is a copy of   *)
(* the kernel's and shares the page tables that the kernel had at that     *)
(* moment; the kernel heap grows in whatever directory is in use when      *)
(* memory is needed.                                                       *)
(*                                                                         *)
(* A directory entry is named after what lies there; the last one, 1023,   *)
(* points to the directory through which paging_map edits (self).  Flags   *)
(* other than PAGE_PRESENT are left out.                                   *)
(***************************************************************************)
EXTENDS Integers, Sequences, FiniteSets, FiniteSetsExt

CONSTANTS NPROC,   \* processes to load
          NCPU,    \* CPUs; 1 is the boot CPU
          ENTRIES, \* entries of a page table, 1024
          CMDLINE, \* the one of address 0x70000 in its table, 0x70
          HEAP,    \* bound: pages of the kernel heap, those of one page table at
                   \* most; a second table would be missing in older directories
          Modules  \* the section tables of the programs there are: for each
                   \* section its name, its page, and its page in the file

\* A program has text, and at most one section of each name that elf_load knows.
\* Each fits into a page, and sections that share a page lie together in the
\* file too.  The variables without a value (.bss) come last and share the page
\* of those that have one: elf_load has them replace .data, and would leave that
\* one out if it had another page.
ASSUME PagingAssumption ==
    /\ NPROC \in Nat \ {0} /\ NCPU \in Nat \ {0}
    /\ ENTRIES \in Nat /\ CMDLINE \in 2..(ENTRIES - 1) /\ HEAP \in 1..ENTRIES
    /\ Modules \subseteq Seq([name : {".text", ".data", ".bss", ".rodata"}, page : 0..1, file : Nat])
    /\ \A m \in Modules :
         /\ \E i \in 1..Len(m) : m[i].name = ".text"
         /\ \A i, j \in 1..Len(m) :
              /\ m[i].name = m[j].name => i = j
              /\ m[i].page = m[j].page <=> m[i].file = m[j].file
              /\ m[i].name = ".data" /\ m[j].name = ".bss" => i < j /\ m[i].page = m[j].page

Proc == 1..NPROC
Cpu == 1..NCPU
Boot == 1
kpage_dir == 0
kpage_table == 0
Dir == {kpage_dir} \cup Proc      \* the directory of process p is named p

NoTable == -1
None == <<"none">>

\* 0, 768, 0xC3000000, 0xcccc0000 and 0xdddd0000, 0x08048000, 0xa00000, 0xA0000000
KernelIndex == {"low", "kernel", "heap", "windows"}
UserIndex == {"program", "stack", "video"}
Index == KernelIndex \cup UserIndex

Entry == 0..(ENTRIES - 1)

VARIABLES mm,      \* directories, their entry 1023, page tables, next free frame
          cr3,     \* the directory each CPU uses
          heap,    \* pages of the kernel heap
          loader,  \* where the boot CPU is in elf_load
          proc,    \* the process it is loading
          module,  \* the section table of each process
          ready,   \* the processes that sched_thread_ready was called for
          running  \* what each CPU runs; kpage_dir for the idle thread

vars == <<mm, cr3, heap, loader, proc, module, ready, running>>

Blank == [e \in Entry |-> None]

\* entry.s: one table, found at 0 and at 768, maps the first 4 MB.
Init ==
    /\ mm = [dir |-> [d \in {kpage_dir} |-> [i \in Index |->
                        IF i \in {"low", "kernel"} THEN kpage_table ELSE NoTable]],
             self |-> [d \in {kpage_dir} |-> kpage_dir],
             table |-> [t \in {kpage_table} |-> [e \in Entry |-> <<"image", e>>]],
             next |-> 1]
    /\ cr3 = [c \in Cpu |-> kpage_dir]
    /\ heap = 0
    /\ loader = "cmdline" /\ proc = 0
    /\ module = [p \in Proc |-> <<>>]
    /\ ready = {}
    /\ running = [c \in Cpu |-> kpage_dir]
-----------------------------------------------------------------------------
\* paging_map with directory d in use: the directory is edited through its own
\* last entry, and a missing page table is made.  A page table is a fresh frame
\* (module PhysAlloc).
paging_map(m, d, index, entry, frame) ==
    LET edited == m.self[m.self[d]]
        new == m.dir[edited][index] = NoTable
        t == IF new THEN m.next ELSE m.dir[m.self[d]][index]
        old == IF new THEN Blank ELSE m.table[t]
    IN  [dir |-> [m.dir EXCEPT ![edited][index] = t],
         self |-> m.self,
         table |-> [u \in DOMAIN m.table \cup {t} |->
                      IF u = t THEN [old EXCEPT ![entry] = frame] ELSE m.table[u]],
         next |-> IF new THEN m.next + 1 ELSE m.next]

\* The page that directory d maps at an address, as the processor finds it.
Translate(d, index, entry) ==
    IF mm.dir[d][index] = NoTable THEN None ELSE mm.table[mm.dir[d][index]][entry]

\* paging_is_mapped
paging_is_mapped(d, index, entry) == Translate(d, index, entry) # None

\* kbrk for one page, called by kmalloc under its lock, in the directory that
\* the CPU is using.
kbrk(c) ==
    /\ heap < HEAP
    /\ mm' = IF paging_is_mapped(cr3[c], "heap", heap) THEN mm
             ELSE paging_map(mm, cr3[c], "heap", heap, <<"heap", heap>>)
    /\ heap' = heap + 1

\* A kmalloc that finds enough memory in the heap needs no page.
kmalloc(c) == kbrk(c) \/ (heap > 0 /\ UNCHANGED <<mm, heap>>)
-----------------------------------------------------------------------------
(* Loading a process: elf_load on the boot CPU, in steps that other CPUs   *)
(* see                                                                     *)

At(from, to) == loader = from /\ loader' = to

\* mboot_parse_cmdline, unless the boot loader left the flags 0: the command
\* line's page is mapped at 0x70000 for good, into the table that maps the first
\* megabytes and the kernel.
mboot_parse_cmdline ==
    /\ At("cmdline", "kernel")
    /\ \/ UNCHANGED mm
       \/ mm' = paging_map(mm, cr3[Boot], "low", CMDLINE, <<"cmdline">>)
    /\ UNCHANGED <<cr3, heap, proc, module, ready, running>>

\* proc_create_kernel_proc, before there is any other directory
proc_create_kernel_proc ==
    /\ At("kernel", "wake")
    /\ kmalloc(Boot)
    /\ UNCHANGED <<cr3, proc, module, ready, running>>

\* cpu_wake_all maps the warm reset vector of the BIOS, at 0x467, to 0x1000: a
\* page has no such address, so that page 1 becomes page 0.  (The trampoline
\* is mapped where it is anyway.)
cpu_wake_all ==
    /\ At("wake", "clone")
    /\ mm' = paging_map(mm, cr3[Boot], "low", 1, <<"image", 0>>)
    /\ proc' = 1
    /\ UNCHANGED <<cr3, heap, module, ready, running>>

\* elf_load gets the next module.  page_dir_clone: the new directory is a fresh
\* frame; both directories are mapped, each in a window of its own.
CloneOpen ==
    /\ At("clone", "copy")
    /\ \E m \in Modules : module' = [module EXCEPT ![proc] = m]
    /\ LET old == paging_map(mm, cr3[Boot], "windows", 0, <<"dir", kpage_dir>>)
       IN  mm' = paging_map(old, cr3[Boot], "windows", 1, <<"dir", proc>>)
    /\ UNCHANGED <<cr3, heap, proc, ready, running>>

copy_lower_half ==
    /\ At("copy", "close")
    /\ mm' = [mm EXCEPT !.dir = [d \in DOMAIN @ \cup {proc} |->
                                   IF d = proc THEN [@[kpage_dir] EXCEPT !["heap"] = NoTable] ELSE @[d]],
                        !.self = [d \in DOMAIN @ \cup {proc} |-> IF d = proc THEN proc ELSE @[d]]]
    /\ UNCHANGED <<cr3, heap, proc, module, ready, running>>

\* ... entries 0 to 1022 are copied, the last one is the directory itself.
CloneCopy ==
    /\ At("copy", "close")
    /\ mm' = [mm EXCEPT !.dir = [d \in DOMAIN @ \cup {proc} |->
                                   IF d = proc THEN @[kpage_dir] ELSE @[d]],
                        !.self = [d \in DOMAIN @ \cup {proc} |-> IF d = proc THEN proc ELSE @[d]]]
    /\ UNCHANGED <<cr3, heap, proc, module, ready, running>>

CloneClose ==
    /\ At("close", "process")
    /\ LET old == paging_map(mm, cr3[Boot], "windows", 0, None)
       IN  mm' = paging_map(old, cr3[Boot], "windows", 1, None)
    /\ UNCHANGED <<cr3, heap, proc, module, ready, running>>

\* page_dir_switch
page_dir_switch(c, d) == cr3' = [cr3 EXCEPT ![c] = d]

\* proc_create goes on: struct process, then the new directory is used.
NewProcess ==
    /\ At("process", "sections")
    /\ kmalloc(Boot)
    /\ page_dir_switch(Boot, proc)
    /\ UNCHANGED <<proc, module, ready, running>>

\* elf_load's loop: the last section of the module with one of the names; the
\* structure it fills in was all zeros, page 0 of the memory at address 0.
proc_section(names) ==
    LET there == {i \in 1..Len(module[proc]) : module[proc][i].name \in names}
        s == module[proc][Max(there)]
    IN  IF there = {} THEN [index |-> "low", page |-> 0, frame |-> <<"image", 0>>]
        ELSE [index |-> "program", page |-> s.page, frame |-> <<"file", proc, s.file>>]

section_of_data == proc_section({".data"})

\* A section called .bss is taken for the data, and bss itself stays empty.
text == proc_section({".text"})
data == proc_section({".data", ".bss"})
bss == proc_section({})
rodata == proc_section({".rodata"})

\* The first page of a section.
MapSection(m, s) == paging_map(m, cr3[Boot], s.index, s.page, s.frame)

\* proc_create maps each of them.
Sections ==
    /\ At("sections", "thread")
    /\ mm' = MapSection(MapSection(MapSection(MapSection(mm, text), data), bss), rodata)
    /\ page_dir_switch(Boot, kpage_dir)
    /\ UNCHANGED <<heap, proc, module, ready, running>>

\* thread_create: struct thread and kernel stack, then the new directory again
NewThread ==
    /\ At("thread", "stack")
    /\ kmalloc(Boot)
    /\ page_dir_switch(Boot, proc)
    /\ UNCHANGED <<proc, module, ready, running>>

Stack ==
    /\ At("stack", "ready")
    /\ mm' = paging_map(mm, cr3[Boot], "stack", 0, <<"stack", proc>>)
    /\ page_dir_switch(Boot, kpage_dir)
    /\ UNCHANGED <<heap, proc, module, ready, running>>

\* sched_thread_ready; the next module, or the end of kmain.
Loaded ==
    /\ loader = "ready"
    /\ ready' = ready \cup {proc}
    /\ IF proc < NPROC THEN loader' = "clone" /\ proc' = proc + 1
                       ELSE loader' = "done" /\ UNCHANGED proc
    /\ UNCHANGED <<mm, cr3, heap, module, running>>

Load == \/ mboot_parse_cmdline \/ proc_create_kernel_proc \/ cpu_wake_all
        \/ CloneOpen \/ CloneCopy \/ CloneClose \/ NewProcess \/ Sections \/ NewThread \/ Stack \/ Loaded
-----------------------------------------------------------------------------
(* What runs on the CPUs                                                   *)

\* scheduler_switch: to a thread that no CPU runs, or to the idle thread; cr3
\* changes when the thread's directory is another one.
scheduler_switch(c, p) ==
    /\ c = Boot => loader = "done"
    /\ p \in ready \cup {kpage_dir} /\ p # running[c]
    /\ p # kpage_dir => \A b \in Cpu : running[b] # p
    /\ running' = [running EXCEPT ![c] = p]
    /\ page_dir_switch(c, p)
    /\ UNCHANGED <<mm, heap, loader, proc, module, ready>>

\* A system call that allocates, stream_new for example.
Allocate(c) ==
    /\ running[c] # kpage_dir
    /\ kbrk(c)
    /\ UNCHANGED <<cr3, loader, proc, module, ready, running>>

\* SYSCALL_MMAP, as the screen drivers use it.
SysMmap(c) ==
    /\ running[c] # kpage_dir
    /\ mm' = paging_map(mm, cr3[c], "video", 0, <<"video">>)
    /\ UNCHANGED <<cr3, heap, loader, proc, module, ready, running>>

Next ==
    \/ Load
    \/ \E c \in Cpu : \/ \E p \in Dir : scheduler_switch(c, p)
                      \/ Allocate(c) \/ SysMmap(c)

Spec == Init /\ [][Next]_vars
-----------------------------------------------------------------------------
\* Type correctness: every directory refers to tables that exist.
TypeOK ==
    /\ heap \in 0..HEAP /\ proc \in 0..NPROC /\ ready \subseteq Proc
    /\ DOMAIN mm.self = DOMAIN mm.dir /\ DOMAIN mm.dir \subseteq Dir
    /\ \A d \in DOMAIN mm.dir : \A i \in Index : mm.dir[d][i] \in DOMAIN mm.table \cup {NoTable}
    /\ DOMAIN mm.table = 0..(mm.next - 1)
    /\ cr3 \in [Cpu -> DOMAIN mm.dir] /\ running \in [Cpu -> ready \cup {kpage_dir}]

Lost == {1, CMDLINE}

\* Whatever directory a CPU uses, all of the kernel heap is there, and at the
\* same frames, no matter which directory was in use when the heap grew: the
\* scheduler's lists, the streams and the kernel stacks are reached from every
\* process.  (As long as the heap fits into its first page table.)  So is the
\* kernel, and the first megabytes at their own addresses, where the processor
\* finds the GDT and the IDT, although elf_load maps into them.  Two pages are
\* lost, in every directory and at both places: page 1 to cpu_wake_all and page
\* 0x70 to mboot_parse_cmdline.
KernelEverywhere ==
    \A c \in Cpu :
      /\ \A e \in 0..(heap - 1) : Translate(cr3[c], "heap", e) = <<"heap", e>>
      /\ \A e \in Entry \ Lost : /\ Translate(cr3[c], "low", e) = <<"image", e>>
                                 /\ Translate(cr3[c], "kernel", e) = <<"image", e>>

\* A process that runs finds every section of its own module, and its stack,
\* although the same addresses were mapped for every process, through the same
\* windows, and whichever sections the module has or lacks.
FindsOwn ==
    \A c \in Cpu : \A p \in Proc :
      running[c] = p =>
        /\ \A i \in 1..Len(module[p]) :
             Translate(cr3[c], "program", module[p][i].page) = <<"file", p, module[p][i].file>>
        /\ Translate(cr3[c], "stack", 0) = <<"stack", p>>

\* Two directories share no page table for user addresses, and the kernel's
\* directory has none: a later mapping of one process (mmap) does not appear in
\* another one, nor in the directories cloned afterwards.
UserTablesPrivate ==
    \A d1, d2 \in DOMAIN mm.dir : \A i, j \in UserIndex :
      /\ mm.dir[kpage_dir][i] = NoTable
      /\ mm.dir[d1][i] # NoTable /\ <<d1, i>> # <<d2, j>> => mm.dir[d1][i] # mm.dir[d2][j]

\* The address spaces of the processes: complete, and nobody else's.
OwnMemory == TypeOK /\ FindsOwn /\ UserTablesPrivate
=============================================================================
