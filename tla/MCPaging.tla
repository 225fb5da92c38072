------------------------------ MODULE MCPaging ------------------------------
(* Three processes on three CPUs, and a heap that fills its page table of    *)
(* four entries.  One program has all sections, as the linker lays them out, one has variables *)
(* without a value only, and one has none.                                  *)
EXTENDS Paging

Section(name, page, file) == [name |-> name, page |-> page, file |-> file]

Programs == {<<Section(".text", 0, 0), Section(".rodata", 0, 0), Section(".data", 1, 2), Section(".bss", 1, 2)>>,
             <<Section(".text", 0, 0), Section(".bss", 1, 1)>>,
             <<Section(".rodata", 1, 1), Section(".text", 0, 0)>>}
=============================================================================
