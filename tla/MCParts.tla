------------------------------ MODULE MCParts ------------------------------
(***************************************************************************)
(* Two more parts beside those of module Parts, the kernel heap (Kmalloc)  *)
(* and the formatting of text (Format), and the values of the constants.   *)
(*                                                                         *)
(* Names: three processes; two names differ in the last character, like    *)
(* token1 and token2, and nobody registers the last of the names looked    *)
(* up.                                                                     *)
(* Kmalloc: pages of two units and lists of blocks of one, two and four: a *)
(* request of three needs two adjacent pages, and two free blocks of four  *)
(* are not merged.  Eight nodes are more than a heap of four pages uses.   *)
(* Interrupts: two threads and the idle thread, stacks of five frames (one *)
(* more than NestingBounded allows), and one wait in a driver's handler.   *)
(* Descriptors: three of four CPUs start, and the array of TSSs lies at    *)
(* the beginning, in the middle and at the end of 64 KB.                   *)
(* Console: two lines of three characters, and texts long enough to fill   *)
(* them and to scroll.  ConsoleRace: two CPUs on such a screen.            *)
(* Format: all formats of up to two items, with numbers of one digit and   *)
(* of many, at the limits of the bases and of 32 bits.                     *)
(* Cmdline: a word of three different characters (max_cpu= has eight), and *)
(* all command lines of up to five characters over those and one more, at  *)
(* the start of a page or behind other bytes, with a 0 among them or not.  *)
(* Snake: four by three cells, on which the snake grows from three to six  *)
(* segments and can meet itself.                                           *)
(***************************************************************************)
EXTENDS Parts

MCNames == <<<<5, 1>>, <<5, 2>>, <<7>>>>
MCWanted == {<<5, 1>>, <<5, 2>>, <<7>>, <<6>>}
MCPlaces == {[hi |-> 49168, lo |-> 32], [hi |-> 49170, lo |-> 4096], [hi |-> 49171, lo |-> 65504]}
MCWord == <<1, 2, 3>>
MCCmdlines == UNION {[1..l -> 1..4] : l \in 0..5}
MCFronts == {<<>>, <<4>>, <<1, 2>>, <<1, 2, 3, 4>>, <<1, 0>>, <<0, 4, 1>>}

VARIABLES other,    \* the one of the two that runs, if part is "none"
          alloc, heap, stats, allocated,
          format, item, args, out, str, n, base, digits, fpc

K == INSTANCE Kmalloc WITH ALOCATORS <- 4, NODES <- 8, PAGE_LIST <- 2, HEAP <- 16,
                           Sizes <- {1, 2, 3}, MaxPages <- 4

\* Up to 2^32 - 1, with 2^31 and an address of the kernel.
Numbers == {<<0, k>> : k \in {0, 1, 9, 10, 15, 16, 255, 1000}}
             \cup {<<32767, 65535>>, <<32768, 0>>, <<49168, 32>>, <<65535, 65535>>}
Items == [kind : {"i", "x", "b"}, arg : Numbers]
            \cup [kind : {"char", "c"}, arg : {65}]
            \cup [kind : {"unknown"}, arg : {<<0, 1>>}]
            \cup [kind : {"s"}, arg : {<<>>, <<66>>, <<67, 68>>}]
TwoItems == {<<>>} \cup {<<a>> : a \in Items} \cup {<<a, b>> : a, b \in Items}

F == INSTANCE Format WITH Formats <- TwoItems, BUFSIZE <- 32,
                          c <- item, stack <- args, buf <- digits, pc <- fpc

ASSUME K!KmallocAssumption

heap_vars == <<alloc, heap, stats, allocated>>
format_vars == <<format, item, args, out, str, n, base, digits, fpc>>
AllVars == <<PartVars, other, heap_vars, format_vars>>

AllInit ==
    /\ PartInit
    /\ other \in {"none", "kmalloc", "format"}
    /\ (part = "none") # (other = "none")
    /\ format \in IF other = "format" THEN TwoItems ELSE {<<>>}
    /\ K!Init
    /\ F!Init

\* Steps of module Parts, and steps that it does not see.
AllNext ==
    \/ PartNext /\ UNCHANGED <<other, heap_vars, format_vars>>
    \/ other = "kmalloc" /\ K!Next /\ UNCHANGED <<PartVars, other, format_vars>>
    \/ other = "format" /\ F!Next /\ UNCHANGED <<PartVars, other, heap_vars>>

AllSpec == AllInit /\ [][AllNext]_AllVars

\* The kernel heap stays in order (kmalloc.c).
HeapSound == other = "kmalloc" => K!HeapSound

\* The kernel heap takes no page that it does not need (kmalloc.c).
GrowsWhenFull == K!GrowsWhenFull

\* kprintf's buffer holds the text that its format stands for, and int2str's
\* own buffer is large enough for every number but those from 2^31 on in binary
\* (util.c).
StringsRight == other = "format" => F!BufferRight
=============================================================================
