------------------------------ MODULE Kmalloc ------------------------------
(***************************************************************************)
(* The kernel heap: the buddy allocator of src/kernel/kmalloc.c behind     *)
(* kmalloc and kfree, growing page by page with kbrk (memory.c).  Free     *)
(* blocks are described by nodes of a fixed array; list l holds, sorted by *)
(* address, the free blocks of one size, and list 0 the unused nodes.      *)
(* Freeing a block merges it with its buddy as far up as possible, by the  *)
(* mutual recursion of list_put and list_clean, which changes a list while *)
(* an outer call is walking a lower one.                                   *)
(*                                                                         *)
(* Sizes and addresses are counted in units of the smallest block, 16      *)
(* bytes (list_size(1)).  Both calls run under one spin lock, so each is   *)
(* one step.  0 is the null node and the null address.                     *)
(***************************************************************************)
EXTENDS Integers, Sequences, FiniteSets, FiniteSetsExt, Functions

CONSTANTS ALOCATORS,  \* number of lists (16)
          NODES,      \* number of nodes
          PAGE_LIST,  \* the list of the blocks of one page (9)
          HEAP,       \* where the heap starts (0xC3000000)
          Sizes,      \* the sizes asked for
          MaxPages    \* bound: pages the heap may grow to

list_size(list) == 2^(list - 1)

PAGE == list_size(PAGE_LIST)
Lists == 1..(ALOCATORS - 1)
Node == 0..(NODES - 1)

\* A request fits the largest list (mem_alloc grows the heap for ever if not),
\* and the heap starts at an address that is aligned for the largest block.
KmallocAssumption ==
    /\ ALOCATORS \in Nat /\ PAGE_LIST \in Lists /\ NODES \in Nat
    /\ Sizes \subseteq 1..list_size(ALOCATORS - 1)
    /\ HEAP \in Nat \ {0} /\ HEAP % list_size(ALOCATORS - 1) = 0
    /\ MaxPages \in Nat

VARIABLES alloc,     \* struct mem_allocator: heads, and addr and next of nodes
          heap,      \* the end of the heap
          stats,     \* bytes in use
          allocated  \* the blocks the callers have, with the sizes they asked for

vars == <<alloc, heap, stats, allocated>>

\* mem_allocator_init
mem_allocator_init ==
    [heads |-> [l \in 0..(ALOCATORS - 1) |-> IF l = 0 THEN 1 ELSE 0],
     addr  |-> [n \in Node |-> 0],
     next  |-> [n \in Node |-> IF n = NODES - 1 THEN 0 ELSE n + 1]]

Init ==
    /\ alloc = mem_allocator_init
    /\ heap = HEAP
    /\ stats = 0
    /\ allocated = {}
-----------------------------------------------------------------------------
(* The functions of kmalloc.c; a is the allocator before, the result (or   *)
(* its field alloc) the allocator after the call.                          *)

node_new(a, address) ==
    LET res == a.heads[0]
    IN  [node  |-> res,
         alloc |-> [a EXCEPT !.heads[0] = a.next[res],
                             !.addr[res] = address,
                             !.next[res] = 0]]

node_free(a, node) ==
    [a EXCEPT !.next[node] = a.heads[0], !.addr[node] = 0, !.heads[0] = node]

\* The test of list_clean: cur is the lower half of a pair and next its buddy.
Buddies(a, list, cur, next) ==
    /\ next # 0
    /\ a.addr[cur] % list_size(list + 1) = 0
    /\ a.addr[cur] + list_size(list) = a.addr[next]

RECURSIVE list_put(_, _, _), list_clean(_, _, _, _), insert(_, _, _, _, _)

insert_at_head(a, list, node, prev, cur) ==
    [a EXCEPT !.next[node] = a.heads[list], !.heads[list] = node]

\* The loop of list_put, from cur on, and the linking of the new node after it.
insert(a, list, node, prev, cur) ==
    IF cur # 0 /\ a.addr[node] > a.addr[cur]
      THEN insert(a, list, node, cur, a.next[cur])
      ELSE IF prev # 0 THEN [a EXCEPT !.next[node] = cur, !.next[prev] = node]
                       ELSE [a EXCEPT !.next[node] = cur, !.heads[list] = node]

list_put(a, list, node) ==
    LET b == insert(a, list, node, 0, a.heads[list])
    IN  IF list < ALOCATORS - 1 THEN list_clean(b, list, 0, b.heads[list]) ELSE b

\* The loop of list_clean, from cur on.
list_clean(a, list, prev, cur) ==
    LET next == a.next[cur]
    IN  IF cur = 0 THEN a
        ELSE IF Buddies(a, list, cur, next)
          THEN LET unlinked == IF prev # 0
                                 THEN [a EXCEPT !.next[prev] = a.next[next]]
                                 ELSE [a EXCEPT !.heads[list] = a.next[next]]
                   merged == list_put(unlinked, list + 1, cur)
               IN  list_clean(node_free(merged, next), list, prev, merged.next[next])
          ELSE list_clean(a, list, cur, next)

\* The upper half of the block of list + 1 at address.
upper_half(address, list) == address + list_size(list + 1) \div 2

get_without_split(a, list) ==
    LET elem == a.heads[list]
    IN  IF elem = 0 THEN [addr |-> 0, alloc |-> a]
        ELSE [addr |-> a.addr[elem],
              alloc |-> node_free([a EXCEPT !.heads[list] = a.next[elem]], elem)]

RECURSIVE list_get(_, _)

\* Take a block of list, splitting a larger one if necessary; address 0: none.
list_get(a, list) ==
    IF list >= ALOCATORS THEN [addr |-> 0, alloc |-> a]
    ELSE IF a.heads[list] # 0
      THEN LET elem == a.heads[list]
           IN  [addr  |-> a.addr[elem],
                alloc |-> node_free([a EXCEPT !.heads[list] = a.next[elem]], elem)]
      ELSE LET up == list_get(a, list + 1)
               new == node_new(up.alloc, upper_half(up.addr, list))
           IN  IF up.addr = 0 THEN up
               ELSE [addr |-> up.addr, alloc |-> list_put(new.alloc, list, new.node)]

\* The list of the smallest blocks that hold size.
class(size) == CHOOSE l \in Lists : /\ size <= list_size(l)
                                    /\ \A m \in 1..(l - 1) : size > list_size(m)

Limit == HEAP + MaxPages * PAGE

RECURSIVE mem_alloc(_, _, _)

\* Retry with one page more until the request can be met, or past the bound.
mem_alloc(a, brk, size) ==
    LET got == list_get(a, class(size))
        new == node_new(got.alloc, brk)
    IN  IF got.addr # 0 \/ brk > Limit
          THEN [addr |-> got.addr, alloc |-> got.alloc, heap |-> brk]
          ELSE mem_alloc(list_put(new.alloc, PAGE_LIST, new.node), brk + PAGE, size)

mem_free(a, address, size) ==
    LET new == node_new(a, address)
    IN  list_put(new.alloc, class(size), new.node)
-----------------------------------------------------------------------------
kmalloc(size) ==
    LET r == mem_alloc(alloc, heap, size)
    IN  /\ r.heap <= Limit
        /\ alloc' = r.alloc
        /\ heap' = r.heap
        /\ stats' = stats + size
        /\ allocated' = allocated \cup {[addr |-> r.addr, size |-> size]}

kfree(b) ==
    /\ alloc' = mem_free(alloc, b.addr, b.size)
    /\ stats' = stats - b.size
    /\ allocated' = allocated \ {b}
    /\ UNCHANGED heap

Next == (\E size \in Sizes : kmalloc(size)) \/ (\E b \in allocated : kfree(b))

Spec == Init /\ [][Next]_vars
-----------------------------------------------------------------------------
RECURSIVE Walk(_, _)

\* The nodes from node on, at most k of them (a cycle would be longer).
Walk(node, k) == IF node = 0 \/ k = 0 THEN <<>> ELSE <<node>> \o Walk(alloc.next[node], k - 1)

\* The nodes of a list.
Chain(list) == Walk(alloc.heads[list], NODES)

Block(address, size) == address..(address + size - 1)

FreeBlocks == UNION {{[addr |-> alloc.addr[Chain(l)[i]], list |-> l] :
                        i \in 1..Len(Chain(l))} : l \in Lists}

\* Type correctness; addresses are inside the heap, and the count of bytes in
\* use (mem_stats), which kfree decreases by what its caller says, neither
\* underflows nor exceeds the heap.
TypeOK ==
    /\ alloc.heads \in [0..(ALOCATORS - 1) -> Node]
    /\ alloc.addr \in [Node -> {0} \cup HEAP..(heap - 1)]
    /\ alloc.next \in [Node -> Node]
    /\ heap \in HEAP..Limit
    /\ stats \in 0..(heap - HEAP)

\* Every node but the null node is in exactly one list: none leaks from the
\* fixed array, and no block is described twice.
NodesAccounted ==
    LET chains == [l \in 0..(ALOCATORS - 1) |-> Chain(l)]
    IN  /\ UNION {Range(chains[l]) : l \in DOMAIN chains} = Node \ {0}
        /\ MapThenSumSet(LAMBDA l : Len(chains[l]), DOMAIN chains) = NODES - 1

\* The memory of the callers is inside the heap, no two callers share a byte,
\* no free block overlaps memory in use, and no byte is lost: the free blocks
\* and the blocks in use add up to the heap.
HeapTiled ==
    LET free == {Block(b.addr, list_size(b.list)) : b \in FreeBlocks}
        used == {Block(b.addr, b.size) : b \in allocated}
    IN  /\ \A x, y \in free \cup used : x # y => x \cap y = {}
        /\ UNION (free \cup used) \subseteq HEAP..(heap - 1)
        /\ Cardinality(used) = Cardinality(allocated)
        /\ MapThenSumSet(LAMBDA b : list_size(b.list), FreeBlocks)
             + MapThenSumSet(LAMBDA b : list_size(class(b.size)), allocated) = heap - HEAP

\* The lists stay sorted and their blocks aligned to their size, although
\* list_put inserts into a list that a caller further out is cleaning.
ListsOrdered ==
    \A l \in Lists : \A i \in 1..Len(Chain(l)) :
      /\ alloc.addr[Chain(l)[i]] % list_size(l) = 0
      /\ i > 1 => alloc.addr[Chain(l)[i - 1]] < alloc.addr[Chain(l)[i]]

\* Merging is complete: no two buddies are ever both free, except in the last
\* list, which has no larger one to merge into.
FullyMerged ==
    \A b, c \in FreeBlocks :
      b.list = c.list /\ b.list < ALOCATORS - 1 =>
        ~(b.addr % list_size(b.list + 1) = 0 /\ c.addr = b.addr + list_size(b.list))

\* The allocator's own data and the memory it manages, after every call.
HeapSound == TypeOK /\ NodesAccounted /\ ListsOrdered /\ HeapTiled /\ FullyMerged

\* The heap grows only when no free block could have served the request.
GrowsWhenFull ==
    [][heap' # heap => \A n \in allocated' \ allocated :
                          \A b \in FreeBlocks : b.list < class(n.size)]_vars
=============================================================================
