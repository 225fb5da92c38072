---------------------------- MODULE Descriptors ----------------------------
(***************************************************************************)
(* The tables the processor reads: segments and TSSs (src/kernel/gdt.c),   *)
(* gates (idt_set in interrupts.c, isr_impl.c with isr_list.h).  The code  *)
(* packs addresses and limits into scattered fields; Base, Limit and Gate  *)
(* put them together again the way the processor does, and the property is *)
(* about what comes out when a CPU, after its ltr, is interrupted.         *)
(*                                                                         *)
(* A 32-bit number is a pair of 16-bit halves.  The tables are found at    *)
(* their physical address, which module Paging is about.                   *)
(***************************************************************************)
EXTENDS Integers, Sequences

CONSTANTS MAX_CPU,
          CPU_IDS,    \* the APIC ids of the CPUs that start
          TssPlaces   \* where the linker may have put the array of TSSs

sizeof_tss == 104
sizeof_entry == 8
GDT_ENTRIES == 5 + MAX_CPU
VECTORS == 0..240                   \* isr_list.h

W16 == 65536                        \* 2^16
Number(hi, lo) == [hi |-> hi, lo |-> lo]
Plus(a, n) == Number((a.hi + (a.lo + n) \div W16) % W16, (a.lo + n) % W16)
Zero == Number(0, 0)
Ones == Number(W16 - 1, W16 - 1)    \* 0xFFFFFFFF

\* cpuid() is an index of tss, and the TSSs do not lie at the very beginning of
\* a megabyte (the kernel starts at one, with its code): see Limit.
DescriptorsAssumption ==
    /\ MAX_CPU \in Nat \ {0} /\ CPU_IDS \subseteq 0..(MAX_CPU - 1)
    /\ TssPlaces \subseteq [hi : 0..(W16 - 1), lo : 0..(W16 - 1)]
    /\ \A p \in TssPlaces : (p.hi % 16) * W16 + p.lo \in 1..(16 * W16 - MAX_CPU * sizeof_tss - 1)

VARIABLES place,         \* the address of tss
          gdt, gdtr_size,
          tss,
          idt_entries,
          tr             \* the task register of each CPU, 0 before its ltr

vars == <<place, gdt, gdtr_size, tss, idt_entries, tr>>

\* Where the linker put the code for vector v.
isr(v) == Plus(Number(49168, 0), 12 * v)     \* from 0xC0100000 on

NoEntry == [base_low |-> 0, base_middle |-> 0, base_high |-> 0,
            size_low |-> 0, granularity |-> 0, access |-> 0]

Init ==
    /\ place \in TssPlaces
    /\ gdt = [i \in 0..(GDT_ENTRIES - 1) |-> NoEntry] /\ gdtr_size = 0
    /\ tss = [c \in 0..(MAX_CPU - 1) |-> [esp0 |-> "none", ss0 |-> 0]]
    /\ idt_entries = <<>>
    /\ tr = [c \in CPU_IDS |-> 0]
-----------------------------------------------------------------------------
entry_without_high_byte(base, limit, access, gran) ==
    [base_low |-> base.lo, base_middle |-> base.hi % 256, base_high |-> 0,
     size_low |-> limit.lo, granularity |-> (limit.hi % 16) + (gran \div 16) * 16, access |-> access]

\* gdt_set
gdt_set(base, limit, access, gran) ==
    [base_low |-> base.lo, base_middle |-> base.hi % 256, base_high |-> base.hi \div 256,
     size_low |-> limit.lo, granularity |-> (limit.hi % 16) + (gran \div 16) * 16, access |-> access]

\* tss_init: the limit passed is the address of the next TSS.
tss_init(id) == gdt_set(Plus(place, id * sizeof_tss), Plus(place, (id + 1) * sizeof_tss), 233, 0)

\* gdt_init: null, code and data of the kernel, of the programs, the TSSs.
gdt_init ==
    /\ gdtr_size = 0
    /\ gdtr_size' = GDT_ENTRIES * sizeof_entry
    /\ gdt' = [i \in DOMAIN gdt |->
                 CASE i = 0 -> gdt_set(Zero, Zero, 0, 0)
                   [] i = 1 -> gdt_set(Zero, Ones, 154, 207)
                   [] i = 2 -> gdt_set(Zero, Ones, 146, 207)
                   [] i = 3 -> gdt_set(Zero, Ones, 250, 207)
                   [] i = 4 -> gdt_set(Zero, Ones, 242, 207)
                   [] OTHER -> tss_init(i - 5)]
    /\ tss' = [c \in DOMAIN tss |-> [esp0 |-> "0xDEADC0DE", ss0 |-> 16]]
    /\ UNCHANGED <<place, idt_entries, tr>>

\* idt_set
idt_set(base, flags) ==
    [base_low |-> base.lo, base_high |-> base.hi, selector |-> 8, flags |-> flags + 96]

\* idt_init with isr_init
isr_init ==
    /\ gdtr_size > 0 /\ idt_entries = <<>>
    /\ idt_entries' = [v \in VECTORS |-> idt_set(isr(v), 142)]
    /\ UNCHANGED <<place, gdt, gdtr_size, tss, tr>>

\* tss_set_stack
tss_set_stack(c, stack) == tss' = [tss EXCEPT ![c].esp0 = stack]

\* tss_flush, with the processor's part: an entry that is busy is refused, and
\* the one that is loaded becomes busy (the second bit of its type).
tss_flush(c) ==
    LET selector == (c + 5) * 8 + 3
    IN  /\ gdt[selector \div 8].access = 233
        /\ gdt' = [gdt EXCEPT ![selector \div 8].access = @ + 2]
        /\ tr' = [tr EXCEPT ![c] = selector]

interrupts_start(c) ==
    /\ idt_entries # <<>> /\ tr[c] = 0
    /\ tss_set_stack(c, "page")
    /\ tss_flush(c)
    /\ UNCHANGED <<place, gdtr_size, idt_entries>>

\* scheduler_switch on CPU c
SetStack(c) ==
    /\ tr[c] # 0
    /\ tss_set_stack(c, "kernel_stack")
    /\ UNCHANGED <<place, gdt, gdtr_size, idt_entries, tr>>

Next == gdt_init \/ isr_init \/ \E c \in CPU_IDS : interrupts_start(c) \/ SetStack(c)

Spec == Init /\ [][Next]_vars
-----------------------------------------------------------------------------
(* What the processor makes of the tables                                  *)

Base(e) == Number(e.base_high * 256 + e.base_middle, e.base_low)

\* 20 bits, in bytes or in pages.
Limit(e) == (e.granularity % 16) * W16 + e.size_low
InPages(e) == e.granularity >= 128

\* A selector finds a descriptor inside the table.
Finds(selector) == selector \div 8 \in DOMAIN gdt /\ (selector \div 8) * 8 + 7 <= gdtr_size

\* All 4 GB, with the given kind and privilege.
Flat(selector, access) ==
    /\ Finds(selector)
    /\ LET e == gdt[selector \div 8]
       IN  Base(e) = Zero /\ InPages(e) /\ Limit(e) = 16 * W16 - 1 /\ e.access = access

\* The selectors that entry.s, isr.s and regs_init load are those of segments
\* that cover everything, of the privilege they are used with.
SegmentsFlat == gdtr_size > 0 => Flat(8, 154) /\ Flat(16, 146) /\ Flat(27, 250) /\ Flat(35, 242)

\* A CPU that was interrupted in user mode takes its stack from its own TSS, all
\* of which is inside the limit, although the limit is an address cut off to 20
\* bits, and never from another CPU's; the segment of that stack is the kernel's.
OwnTss ==
    \A c \in CPU_IDS : tr[c] # 0 =>
      /\ Finds(tr[c])
      /\ LET e == gdt[tr[c] \div 8]
         IN  /\ Base(e) = Plus(place, c * sizeof_tss)
             /\ Limit(e) >= sizeof_tss - 1 \/ InPages(e)
             /\ e.access % 16 = 11
      /\ tss[c].esp0 \in {"page", "kernel_stack"} /\ Flat(tss[c].ss0, 146)
      /\ \A d \in CPU_IDS \ {c} : tr[d] # tr[c]

\* A CPU that has not started yet finds its TSS available.
CanStart == gdtr_size > 0 => \A c \in CPU_IDS : tr[c] = 0 => gdt[c + 5].access % 16 = 9

\* Every vector leads to its own code in the kernel's segment, through a gate
\* that turns interrupts off, from user mode too.
GatesRight ==
    idt_entries # <<>> => \A v \in VECTORS :
      LET g == idt_entries[v]
      IN  Number(g.base_high, g.base_low) = isr(v) /\ g.selector = 8 /\ g.flags = 238

\* The tables at once.
TablesRight == SegmentsFlat /\ OwnTss /\ CanStart /\ GatesRight
=============================================================================
