---------------------------- MODULE PagingProofs ----------------------------
(***************************************************************************)
(* Proofs about module Paging: whatever the number of processes and CPUs,  *)
(* the sections of the programs, and the size of the heap as long as one   *)
(* page table holds it.                                                    *)
(***************************************************************************)
EXTENDS Paging, TLAPS

\* What a page table entry may hold.
Frame == {None, <<"video">>, <<"cmdline">>}
           \cup ({"image", "heap", "dir", "stack"} \X Nat)
           \cup ({"file"} \X Nat \X Nat)

\* Memory m with the directories D: each is found through its own last entry,
\* and refers to page tables that exist.
Mem(m, D) ==
    /\ m = [dir |-> m.dir, self |-> m.self, table |-> m.table, next |-> m.next]
    /\ m.dir \in [D -> [Index -> Int]]
    /\ m.self = [d \in D |-> d]
    /\ m.next \in Nat \ {0}
    /\ m.table \in [0..(m.next - 1) -> [Entry -> Frame]]
    /\ \A d \in D : \A i \in Index : m.dir[d][i] \in 0..(m.next - 1) \cup {NoTable}

\* Index i of directory d and index j of directory e have the same page table:
\* the kernel's are shared, and its image is found at two addresses.
Same(d, i, e, j) ==
    \/ i = j /\ (d = e \/ i \in KernelIndex)
    \/ i \in {"low", "kernel"} /\ j \in {"low", "kernel"}

\* No page tables are shared but those, and the kernel's directory has none for
\* user addresses.
Struct(m, D) ==
    /\ Mem(m, D)
    /\ kpage_dir \in D
    /\ \A i \in UserIndex : m.dir[kpage_dir][i] = NoTable
    /\ \A d, e \in D : \A i, j \in Index :
         /\ Same(d, i, e, j) => m.dir[d][i] = m.dir[e][j]
         /\ m.dir[d][i] = m.dir[e][j] /\ m.dir[d][i] # NoTable => Same(d, i, e, j)

\* Translate in memory m.
Tr(m, d, i, e) == IF m.dir[d][i] = NoTable THEN None ELSE m.table[m.dir[d][i]][e]

\* The page table is there, or it is the kernel's and nobody can have a copy of
\* the directory without it, or it belongs to one process.
MayMap(m, D, d, i) ==
    /\ d \in D /\ i \in Index
    /\ i \in UserIndex => d # kpage_dir
    /\ i \in KernelIndex => \/ m.dir[kpage_dir][i] # NoTable
                            \/ D = {kpage_dir} /\ i \in {"heap", "windows"}
-----------------------------------------------------------------------------
LEMMA Constants ==
    /\ NPROC \in Nat \ {0} /\ NCPU \in Nat \ {0} /\ HEAP \in Nat \ {0}
    /\ 0 \in Entry /\ 1 \in Entry /\ CMDLINE \in Entry /\ 0 \notin Lost /\ \A h \in Nat : h < HEAP => h \in Entry
    /\ Boot \in Cpu /\ Dir = 0..NPROC
    /\ kpage_dir = 0 /\ kpage_table = 0 /\ NoTable = -1
    /\ Entry \subseteq Nat
  BY PagingAssumption DEF Entry, Lost, Boot, Cpu, Dir, kpage_dir, kpage_table, Proc, NoTable

LEMMA Indices ==
    /\ Index = {"low", "kernel", "heap", "windows", "program", "stack", "video"}
    /\ KernelIndex = {"low", "kernel", "heap", "windows"}
    /\ UserIndex = {"program", "stack", "video"}
  BY DEF Index, KernelIndex, UserIndex

\* Equal addresses are translated in the same way.
LEMMA SameTr ==
    ASSUME NEW m, NEW D, Struct(m, D), NEW d \in D, NEW b \in D, NEW i \in Index, NEW j \in Index,
           Same(d, i, b, j), NEW e
    PROVE  Tr(m, d, i, e) = Tr(m, b, j, e)
  BY DEF Struct, Tr

\* What paging_map does to the directories and to the tables.
LEMMA MapEffect ==
    ASSUME NEW m, NEW D, Mem(m, D), NEW d \in D, NEW i \in Index, NEW e \in Entry, NEW f \in Frame
    PROVE  LET m2 == paging_map(m, d, i, e, f)
               t == IF m.dir[d][i] = NoTable THEN m.next ELSE m.dir[d][i]
           IN  /\ Mem(m2, D)
               /\ m2.dir = [m.dir EXCEPT ![d][i] = t]
               /\ m2.next = IF m.dir[d][i] = NoTable THEN m.next + 1 ELSE m.next
               /\ \A u \in 0..(m.next - 1) : u # t => m2.table[u] = m.table[u]
               /\ m2.table[t] = [IF m.dir[d][i] = NoTable THEN Blank ELSE m.table[t] EXCEPT ![e] = f]
  <1> DEFINE fresh == m.dir[d][i] = NoTable
             tab == IF fresh THEN m.next ELSE m.dir[d][i]
             prev == IF fresh THEN Blank ELSE m.table[tab]
             dir2 == [m.dir EXCEPT ![d][i] = tab]
             next2 == IF fresh THEN m.next + 1 ELSE m.next
             table2 == [u \in DOMAIN m.table \cup {tab} |->
                          IF u = tab THEN [prev EXCEPT ![e] = f] ELSE m.table[u]]
             m2 == [dir |-> dir2, self |-> m.self, table |-> table2, next |-> next2]
  <1>1. m.self[d] = d /\ m.self[m.self[d]] = d
    BY DEF Mem
  <1>2. paging_map(m, d, i, e, f) = m2
    <2> DEFINE x == m.self[m.self[d]]
               y == m.self[d]
               n == m.dir[x][i] = NoTable
               v == IF n THEN m.next ELSE m.dir[y][i]
               o == IF n THEN Blank ELSE m.table[v]
               dir3 == [m.dir EXCEPT ![x][i] = v]
               table3 == [u \in DOMAIN m.table \cup {v} |->
                            IF u = v THEN [o EXCEPT ![e] = f] ELSE m.table[u]]
               next3 == IF n THEN m.next + 1 ELSE m.next
    <2>1. paging_map(m, d, i, e, f) = [dir |-> dir3, self |-> m.self, table |-> table3, next |-> next3]
      BY DEF paging_map
    <2>2. x = d /\ y = d
      BY <1>1
    <2> HIDE DEF x, y
    <2>3. n <=> fresh
      BY <2>2
    <2>4. v = tab
      BY <2>2, <2>3
    <2>5. o = prev
      BY <2>3, <2>4
    <2>6. next3 = next2
      BY <2>3
    <2> HIDE DEF n, v, o, tab, prev, fresh
    <2>7. dir3 = dir2 /\ table3 = table2
      BY <2>2, <2>4, <2>5
    <2> QED
      BY <2>1, <2>6, <2>7 DEF n, fresh
  <1>3. tab \in 0..(next2 - 1) /\ next2 \in Nat \ {0} /\ 0..(next2 - 1) = 0..(m.next - 1) \cup {tab}
    BY Constants DEF Mem
  <1>4. dir2 \in [D -> [Index -> Int]] /\ dir2[d][i] = tab
        /\ \A b \in D : \A j \in Index : dir2[b][j] \in {m.dir[b][j], tab}
    BY <1>3 DEF Mem
  <1>5. [prev EXCEPT ![e] = f] \in [Entry -> Frame]
    <2>1. Blank \in [Entry -> Frame]
      BY DEF Blank, Frame
    <2>2. prev \in [Entry -> Frame]
      BY <2>1, Constants DEF Mem
    <2> QED
      BY <2>2
  <1>6. table2 \in [0..(next2 - 1) -> [Entry -> Frame]]
    BY <1>3, <1>5 DEF Mem
  <1>7. \A b \in D : \A j \in Index : dir2[b][j] \in 0..(next2 - 1) \cup {NoTable}
    BY <1>3, <1>4 DEF Mem
  <1>8. \A u \in 0..(m.next - 1) : u # tab => table2[u] = m.table[u]
    BY DEF Mem
  <1>9. table2[tab] = [prev EXCEPT ![e] = f]
    OBVIOUS
  <1> HIDE DEF dir2, next2, table2
  <1>10. Mem(m2, D)
    BY <1>3, <1>4, <1>6, <1>7 DEF Mem
  <1> QED
    <2>1. m2.dir = dir2 /\ m2.next = next2 /\ m2.table = table2
      OBVIOUS
    <2> HIDE DEF m2
    <2>2. /\ Mem(m2, D) /\ m2.dir = dir2 /\ m2.next = next2
          /\ \A u \in 0..(m.next - 1) : u # tab => m2.table[u] = m.table[u]
          /\ m2.table[tab] = [prev EXCEPT ![e] = f]
      BY <2>1, <1>8, <1>9, <1>10
    <2> QED
      BY <2>2, <1>2 DEF dir2, next2

LEMMA SameProps ==
    ASSUME NEW d, NEW i \in Index, NEW b, NEW j \in Index
    PROVE  Same(d, i, d, i) /\ (Same(d, i, b, j) => Same(b, j, d, i))
  BY DEF Same

\* What paging_map means: the page is found at the address, in every directory
\* that shares the table, and nothing else changes.
LEMMA Maps ==
    ASSUME NEW m, NEW D, Struct(m, D), NEW d, NEW i, MayMap(m, D, d, i),
           NEW e \in Entry, NEW f \in Frame
    PROVE  LET m2 == paging_map(m, d, i, e, f)
           IN  /\ Struct(m2, D)
               /\ m2.dir[d][i] # NoTable
               /\ \A b \in D : \A j \in Index : m.dir[b][j] # NoTable => m2.dir[b][j] # NoTable
               /\ \A b \in D : \A j \in Index : \A x \in Entry :
                    Tr(m2, b, j, x) = IF Same(d, i, b, j) /\ x = e THEN f ELSE Tr(m, b, j, x)
  <1> DEFINE m2 == paging_map(m, d, i, e, f)
             tab == IF m.dir[d][i] = NoTable THEN m.next ELSE m.dir[d][i]
  <1>1. d \in D /\ i \in Index /\ Mem(m, D)
    BY DEF MayMap, Struct
  <1>2. /\ Mem(m2, D)
        /\ m2.dir = [m.dir EXCEPT ![d][i] = tab]
        /\ m2.next = IF m.dir[d][i] = NoTable THEN m.next + 1 ELSE m.next
        /\ \A u \in 0..(m.next - 1) : u # tab => m2.table[u] = m.table[u]
        /\ m2.table[tab] = [IF m.dir[d][i] = NoTable THEN Blank ELSE m.table[tab] EXCEPT ![e] = f]
    BY <1>1, MapEffect
  <1> HIDE DEF m2
  <1>3. /\ m2.dir[d][i] = tab
        /\ \A b \in D : \A j \in Index : b # d \/ j # i => m2.dir[b][j] = m.dir[b][j]
    BY <1>1, <1>2 DEF Mem
  <1>4. tab # NoTable
    BY <1>1, Constants DEF Mem
  <1>5. \A b \in D : \A j \in Index : m.dir[b][j] \in 0..(m.next - 1) \cup {NoTable}
    BY <1>1 DEF Mem
  <1>6. CASE m.dir[d][i] = NoTable
    <2>1. ASSUME NEW b \in D, NEW j \in Index, Same(d, i, b, j) PROVE b = d /\ j = i
      <3>1. CASE i \in UserIndex
        BY <3>1, <2>1, Indices DEF Same
      <3>2. CASE i \in KernelIndex
        <4>1. Same(d, i, kpage_dir, i)
          BY <3>2 DEF Same
        <4>2. m.dir[kpage_dir][i] = NoTable
          BY <4>1, <1>1, <1>6 DEF Struct
        <4>3. D = {kpage_dir} /\ i \in {"heap", "windows"}
          BY <3>2, <4>2 DEF MayMap
        <4> QED
          BY <4>3, <2>1, <1>1, Indices DEF Same
      <3> QED
        BY <3>1, <3>2, <1>1 DEF Index
    <2>2. tab = m.next /\ m.next \in Nat /\ m.next \notin 0..(m.next - 1) \cup {NoTable}
      BY <1>6, <1>1, Constants DEF Mem
    <2>3. \A k \in UserIndex : m2.dir[kpage_dir][k] = NoTable
      <3> SUFFICES ASSUME NEW k \in UserIndex PROVE m2.dir[kpage_dir][k] = NoTable
        OBVIOUS
      <3>1. kpage_dir \in D /\ k \in Index /\ m.dir[kpage_dir][k] = NoTable
        BY DEF Struct, Index
      <3>2. ~(d = kpage_dir /\ i = k)
        BY DEF MayMap
      <3> QED
        BY <3>1, <3>2, <1>3
    <2>4. ASSUME NEW b \in D, NEW c \in D, NEW j \in Index, NEW k \in Index
          PROVE  /\ Same(b, j, c, k) => m2.dir[b][j] = m2.dir[c][k]
                 /\ m2.dir[b][j] = m2.dir[c][k] /\ m2.dir[b][j] # NoTable => Same(b, j, c, k)
      <3>1. CASE b = d /\ j = i
        <4>1. CASE c = d /\ k = i
          BY <3>1, <4>1, SameProps
        <4>2. CASE ~(c = d /\ k = i)
          <5>1. ~Same(b, j, c, k)
            BY <3>1, <4>2, <2>1
          <5>2. m2.dir[b][j] = m.next /\ m2.dir[c][k] = m.dir[c][k]
            BY <3>1, <4>2, <1>3, <2>2
          <5> QED
            BY <5>1, <5>2, <2>2, <1>5
        <4> QED
          BY <4>1, <4>2
      <3>2. CASE ~(b = d /\ j = i) /\ c = d /\ k = i
        <4>1. ~Same(b, j, c, k)
          BY <3>2, <2>1, SameProps
        <4>2. m2.dir[c][k] = m.next /\ m2.dir[b][j] = m.dir[b][j]
          BY <3>2, <1>3, <2>2
        <4> QED
          BY <4>1, <4>2, <2>2, <1>5
      <3>3. CASE ~(b = d /\ j = i) /\ ~(c = d /\ k = i)
        <4>1. m2.dir[b][j] = m.dir[b][j] /\ m2.dir[c][k] = m.dir[c][k]
          BY <3>3, <1>3
        <4> QED
          BY <4>1 DEF Struct
      <3> QED
        BY <3>1, <3>2, <3>3
    <2>5. Struct(m2, D)
      BY <1>2, <2>3, <2>4 DEF Struct
    <2>6. \A b \in D : \A j \in Index : m.dir[b][j] # NoTable => m2.dir[b][j] # NoTable
      BY <1>3, <1>4
    <2>7. ASSUME NEW b \in D, NEW j \in Index, NEW x \in Entry
          PROVE  Tr(m2, b, j, x) = IF Same(d, i, b, j) /\ x = e THEN f ELSE Tr(m, b, j, x)
      <3>1. CASE b = d /\ j = i
        <4>1. m2.table[tab] = [Blank EXCEPT ![e] = f]
          BY <1>2, <1>6
        <4>2. m2.table[tab][x] = IF x = e THEN f ELSE None
          BY <4>1 DEF Blank
        <4>3. Tr(m2, b, j, x) = m2.table[tab][x] /\ Tr(m, b, j, x) = None
          BY <3>1, <1>3, <1>4, <1>6 DEF Tr
        <4>4. Same(d, i, b, j)
          BY <3>1, SameProps
        <4> QED
          BY <4>2, <4>3, <4>4
      <3>2. CASE ~(b = d /\ j = i)
        <4>1. ~Same(d, i, b, j)
          BY <3>2, <2>1
        <4>2. m2.dir[b][j] = m.dir[b][j]
          BY <3>2, <1>3
        <4>3. m.dir[b][j] # NoTable => m2.table[m.dir[b][j]] = m.table[m.dir[b][j]]
          BY <1>2, <1>5, <2>2
        <4> QED
          BY <4>1, <4>2, <4>3 DEF Tr
      <3> QED
        BY <3>1, <3>2
    <2> QED
      BY <1>3, <1>4, <2>5, <2>6, <2>7 DEF m2
  <1>7. CASE m.dir[d][i] # NoTable
    <2>1. tab = m.dir[d][i] /\ \A b \in D : \A j \in Index : m2.dir[b][j] = m.dir[b][j]
      BY <1>3, <1>7
    <2>2. Struct(m2, D)
      <3>1. \A k \in UserIndex : m2.dir[kpage_dir][k] = NoTable
        BY <2>1 DEF Struct, Index
      <3>2. \A b, c \in D : \A j, k \in Index :
              /\ Same(b, j, c, k) => m2.dir[b][j] = m2.dir[c][k]
              /\ m2.dir[b][j] = m2.dir[c][k] /\ m2.dir[b][j] # NoTable => Same(b, j, c, k)
        BY <2>1 DEF Struct
      <3> QED
        BY <3>1, <3>2, <1>2 DEF Struct
    <2>3. ASSUME NEW b \in D, NEW j \in Index, NEW x \in Entry
          PROVE  Tr(m2, b, j, x) = IF Same(d, i, b, j) /\ x = e THEN f ELSE Tr(m, b, j, x)
      <3>1. CASE Same(d, i, b, j)
        <4>1. m.dir[b][j] = tab
          BY <3>1, <2>1, <1>1 DEF Struct
        <4>2. m2.table[tab] = [m.table[tab] EXCEPT ![e] = f] /\ m.table[tab] \in [Entry -> Frame]
          BY <1>2, <1>7, <1>5, <2>1, <1>1 DEF Mem
        <4>3. m2.table[tab][x] = IF x = e THEN f ELSE m.table[tab][x]
          BY <4>2
        <4> QED
          BY <3>1, <4>1, <4>3, <2>1, <1>4 DEF Tr
      <3>2. CASE ~Same(d, i, b, j)
        <4>1. m.dir[b][j] # NoTable => m.dir[b][j] # tab
          BY <3>2, <2>1, <1>1, SameProps DEF Struct
        <4>2. m.dir[b][j] # NoTable => m2.table[m.dir[b][j]] = m.table[m.dir[b][j]]
          BY <4>1, <1>2, <1>5
        <4> QED
          BY <3>2, <4>2, <2>1 DEF Tr
      <3> QED
        BY <3>1, <3>2
    <2> QED
      BY <1>3, <1>4, <2>1, <2>2, <2>3 DEF m2
  <1> QED
    BY <1>6, <1>7
-----------------------------------------------------------------------------
(* The inductive invariant                                                 *)

\* The kernel's part of memory m, with directories D and a heap of h pages.
Kernel(m, D, h) ==
    /\ Struct(m, D)
    /\ \A e \in Entry \ Lost : Tr(m, kpage_dir, "low", e) = <<"image", e>>
    /\ \A e \in Entry : /\ Tr(m, kpage_dir, "heap", e) \in {None, <<"heap", e>>}
                        /\ e < h => Tr(m, kpage_dir, "heap", e) = <<"heap", e>>

HasProgram(m, p, sections) ==
    \A i \in 1..Len(sections) :
      Tr(m, p, "program", sections[i].page) = <<"file", p, sections[i].file>>

HasStack(m, p) == Tr(m, p, "stack", 0) = <<"stack", p>>

Loading == {"cmdline", "kernel", "wake", "clone", "copy", "close", "process", "sections", "thread", "stack", "ready"}

Cloned == loader \notin {"cmdline", "kernel", "wake", "clone", "copy"}

\* The directories there are.
Dirs == {kpage_dir} \cup 1..(IF Cloned THEN proc ELSE proc - 1)

\* Processes are loaded one after the other, by the boot CPU, which runs none of
\* them until it is done.
Control ==
    /\ loader \in Loading \cup {"done"}
    /\ IF loader \in {"cmdline", "kernel", "wake"} THEN proc = 0 ELSE proc \in Proc
    /\ ready = IF loader = "done" THEN 1..proc ELSE 1..(proc - 1)
    /\ running \in [Cpu -> ready \cup {kpage_dir}]
    /\ loader # "done" => running[Boot] = kpage_dir
    /\ cr3 = [c \in Cpu |-> IF c = Boot /\ loader \in {"sections", "stack"} THEN proc ELSE running[c]]
    /\ heap \in 0..HEAP /\ (loader \notin {"cmdline", "kernel"} => heap > 0)
    /\ module \in [Proc -> Modules \cup {<<>>}]
    /\ loader \notin {"cmdline", "kernel", "wake", "clone"} => module[proc] \in Modules

Contents ==
    /\ Kernel(mm, Dirs, heap)
    /\ loader = "copy" \/ Dirs # {kpage_dir} => mm.dir[kpage_dir]["windows"] # NoTable
    /\ \A p \in Proc : p \in ready \/ (p = proc /\ loader \in {"thread", "stack", "ready"}) =>
                      HasProgram(mm, p, module[p])
    /\ \A p \in Proc : p \in ready \/ (p = proc /\ loader = "ready") => HasStack(mm, p)

IInv == Control /\ Contents
-----------------------------------------------------------------------------
(* Mapping                                                                 *)

LEMMA FrameFacts ==
    /\ \A e \in Nat : <<"image", e>> \in Frame /\ <<"image", e>> # None
    /\ \A e \in Nat : <<"heap", e>> \in Frame /\ <<"heap", e>> # None
    /\ \A e \in Nat : <<"dir", e>> \in Frame /\ <<"stack", e>> \in Frame
    /\ \A p, e \in Nat : <<"file", p, e>> \in Frame
    /\ None \in Frame /\ <<"video">> \in Frame /\ <<"cmdline">> \in Frame
  BY DEF Frame, None

\* The user addresses of all processes are mapped as before.
SameUser(m, n, D) ==
    \A b \in D \ {kpage_dir} : \A j \in UserIndex : \A x \in Entry : Tr(n, b, j, x) = Tr(m, b, j, x)

\* The kernel's page tables are there once they hold something.
LEMMA TablesThere ==
    ASSUME NEW m, NEW D, NEW h \in Nat, Kernel(m, D, h)
    PROVE  m.dir[kpage_dir]["low"] # NoTable /\ (h > 0 => m.dir[kpage_dir]["heap"] # NoTable)
  <1>1. Tr(m, kpage_dir, "low", 0) # None
    BY Constants, FrameFacts DEF Kernel
  <1>2. h > 0 => Tr(m, kpage_dir, "heap", 0) # None
    BY Constants, FrameFacts DEF Kernel
  <1> QED
    BY <1>1, <1>2 DEF Tr

\* A page at a user address of process d: nobody else sees it.
LEMMA UserMap ==
    ASSUME NEW m, NEW D, NEW h \in Nat, Kernel(m, D, h), NEW d \in D \ {kpage_dir},
           NEW i \in UserIndex, NEW e \in Entry, NEW f \in Frame
    PROVE  LET n == paging_map(m, d, i, e, f)
           IN  /\ Kernel(n, D, h)
               /\ m.dir[kpage_dir]["windows"] # NoTable => n.dir[kpage_dir]["windows"] # NoTable
               /\ \A b \in D \ {kpage_dir} : \A j \in UserIndex : \A x \in Entry :
                    Tr(n, b, j, x) = IF b = d /\ j = i /\ x = e THEN f ELSE Tr(m, b, j, x)
  <1> DEFINE n == paging_map(m, d, i, e, f)
  <1>1. Struct(m, D) /\ MayMap(m, D, d, i) /\ kpage_dir \in D
    BY Indices DEF Kernel, MayMap, Struct
  <1>2. /\ Struct(n, D)
        /\ \A b \in D : \A j \in Index : m.dir[b][j] # NoTable => n.dir[b][j] # NoTable
        /\ \A b \in D : \A j \in Index : \A x \in Entry :
             Tr(n, b, j, x) = IF Same(d, i, b, j) /\ x = e THEN f ELSE Tr(m, b, j, x)
    BY <1>1, Maps
  <1> HIDE DEF n
  <1>3. \A b \in D : \A j \in KernelIndex : ~Same(d, i, b, j)
    BY Indices DEF Same
  <1>4. \A b \in D : \A j \in UserIndex : Same(d, i, b, j) <=> b = d /\ j = i
    BY Indices DEF Same
  <1>5. \A j \in KernelIndex : \A x \in Entry : Tr(n, kpage_dir, j, x) = Tr(m, kpage_dir, j, x)
    BY <1>1, <1>2, <1>3 DEF Index
  <1>6. Kernel(n, D, h)
    BY <1>2, <1>5, Indices DEF Kernel
  <1>7. m.dir[kpage_dir]["windows"] # NoTable => n.dir[kpage_dir]["windows"] # NoTable
    BY <1>1, <1>2, Indices
  <1>8. \A b \in D \ {kpage_dir} : \A j \in UserIndex : \A x \in Entry :
          Tr(n, b, j, x) = IF b = d /\ j = i /\ x = e THEN f ELSE Tr(m, b, j, x)
    BY <1>2, <1>4 DEF Index
  <1> QED
    BY <1>6, <1>7, <1>8 DEF n

\* A page at a kernel address: user addresses are not concerned.
LEMMA KernelMap ==
    ASSUME NEW m, NEW D, Struct(m, D), NEW d \in D, NEW i \in KernelIndex, NEW e \in Entry,
           NEW f \in Frame, MayMap(m, D, d, i)
    PROVE  LET n == paging_map(m, d, i, e, f)
           IN  /\ Struct(n, D) /\ SameUser(m, n, D) /\ n.dir[kpage_dir][i] # NoTable
               /\ \A j \in KernelIndex : m.dir[kpage_dir][j] # NoTable => n.dir[kpage_dir][j] # NoTable
               /\ \A j \in KernelIndex : \A x \in Entry :
                    Tr(n, kpage_dir, j, x) =
                      IF (j = i \/ {i, j} \subseteq {"low", "kernel"}) /\ x = e THEN f
                      ELSE Tr(m, kpage_dir, j, x)
  <1> DEFINE n == paging_map(m, d, i, e, f)
  <1>0. kpage_dir \in D /\ i \in Index
    BY DEF Struct, Index
  <1>2. /\ Struct(n, D)
        /\ n.dir[d][i] # NoTable
        /\ \A b \in D : \A j \in Index : m.dir[b][j] # NoTable => n.dir[b][j] # NoTable
        /\ \A b \in D : \A j \in Index : \A x \in Entry :
             Tr(n, b, j, x) = IF Same(d, i, b, j) /\ x = e THEN f ELSE Tr(m, b, j, x)
    BY Maps
  <1> HIDE DEF n
  <1>3. \A b \in D : \A j \in UserIndex : ~Same(d, i, b, j)
    BY Indices DEF Same
  <1>4. \A j \in KernelIndex : Same(d, i, kpage_dir, j) <=> (j = i \/ {i, j} \subseteq {"low", "kernel"})
    BY Indices DEF Same
  <1>5. SameUser(m, n, D)
    BY <1>2, <1>3 DEF SameUser, Index
  <1>6. n.dir[kpage_dir][i] # NoTable
    <2>1. Same(d, i, kpage_dir, i)
      BY DEF Same
    <2> QED
      BY <2>1, <1>0, <1>2 DEF Struct
  <1>7. \A j \in KernelIndex : m.dir[kpage_dir][j] # NoTable => n.dir[kpage_dir][j] # NoTable
    BY <1>0, <1>2 DEF Index
  <1>8. \A j \in KernelIndex : \A x \in Entry :
          Tr(n, kpage_dir, j, x) =
            IF (j = i \/ {i, j} \subseteq {"low", "kernel"}) /\ x = e THEN f ELSE Tr(m, kpage_dir, j, x)
    BY <1>0, <1>2, <1>4 DEF Index
  <1> QED
    BY <1>2, <1>5, <1>6, <1>7, <1>8 DEF n

\* page_dir_clone's windows.
LEMMA WindowMap ==
    ASSUME NEW m, NEW D, NEW h \in Nat, Kernel(m, D, h), NEW d \in D, NEW e \in Entry, NEW f \in Frame,
           m.dir[kpage_dir]["windows"] # NoTable \/ D = {kpage_dir}
    PROVE  LET n == paging_map(m, d, "windows", e, f)
           IN  Kernel(n, D, h) /\ SameUser(m, n, D) /\ n.dir[kpage_dir]["windows"] # NoTable
  <1>1. Struct(m, D) /\ MayMap(m, D, d, "windows") /\ "windows" \in KernelIndex
    BY Indices DEF Kernel, MayMap, Struct
  <1> DEFINE n == paging_map(m, d, "windows", e, f)
  <1>2. /\ Struct(n, D) /\ SameUser(m, n, D) /\ n.dir[kpage_dir]["windows"] # NoTable
        /\ \A j \in KernelIndex : \A x \in Entry :
             Tr(n, kpage_dir, j, x) =
               IF (j = "windows" \/ {"windows", j} \subseteq {"low", "kernel"}) /\ x = e THEN f
               ELSE Tr(m, kpage_dir, j, x)
    BY <1>1, KernelMap
  <1> HIDE DEF n
  <1>3. \A j \in {"low", "heap"} : \A x \in Entry : Tr(n, kpage_dir, j, x) = Tr(m, kpage_dir, j, x)
    BY <1>2, Indices
  <1>4. Kernel(n, D, h)
    BY <1>2, <1>3 DEF Kernel
  <1> QED
    BY <1>2, <1>4 DEF n

\* Page 0 of the first megabytes where it is, or one of the pages that are lost.
LEMMA LowMap ==
    ASSUME NEW m, NEW D, NEW h \in Nat, Kernel(m, D, h), NEW d \in D,
           NEW e \in Entry, NEW f \in Frame, e \in Lost \/ f = <<"image", e>>
    PROVE  LET n == paging_map(m, d, "low", e, f)
           IN  /\ Kernel(n, D, h) /\ SameUser(m, n, D)
               /\ m.dir[kpage_dir]["windows"] # NoTable => n.dir[kpage_dir]["windows"] # NoTable
  <1> DEFINE n == paging_map(m, d, "low", e, f)
  <1>1. Struct(m, D) /\ MayMap(m, D, d, "low") /\ "low" \in KernelIndex
    <2>1. Struct(m, D) /\ kpage_dir \in D
      BY DEF Kernel, Struct
    <2>2. m.dir[kpage_dir]["low"] # NoTable
      BY TablesThere
    <2>3. "low" \in KernelIndex /\ "low" \in Index /\ "low" \notin UserIndex
      BY Indices
    <2> QED
      BY <2>1, <2>2, <2>3 DEF MayMap
  <1>2. /\ Struct(n, D) /\ SameUser(m, n, D)
        /\ \A j \in KernelIndex : m.dir[kpage_dir][j] # NoTable => n.dir[kpage_dir][j] # NoTable
        /\ \A j \in KernelIndex : \A x \in Entry :
             Tr(n, kpage_dir, j, x) =
               IF (j = "low" \/ {"low", j} \subseteq {"low", "kernel"}) /\ x = e THEN f
               ELSE Tr(m, kpage_dir, j, x)
    BY <1>1, KernelMap
  <1> HIDE DEF n
  <1>3. \A x \in Entry : Tr(n, kpage_dir, "heap", x) = Tr(m, kpage_dir, "heap", x)
    BY <1>2, Indices
  <1>4. \A x \in Entry \ Lost : Tr(n, kpage_dir, "low", x) = <<"image", x>>
    <2> SUFFICES ASSUME NEW x \in Entry \ Lost PROVE Tr(n, kpage_dir, "low", x) = <<"image", x>>
      OBVIOUS
    <2>1. Tr(n, kpage_dir, "low", x) = IF x = e THEN f ELSE Tr(m, kpage_dir, "low", x)
      BY <1>2, Indices
    <2>2. Tr(m, kpage_dir, "low", x) = <<"image", x>>
      BY DEF Kernel
    <2> QED
      BY <2>1, <2>2
  <1>5. Kernel(n, D, h)
    BY <1>2, <1>3, <1>4 DEF Kernel
  <1> QED
    BY <1>2, <1>5, Indices DEF n

\* What Kernel says of a page of the heap.
LEMMA HeapPage ==
    ASSUME NEW m, NEW D, NEW h, Kernel(m, D, h), NEW x \in Entry
    PROVE  /\ Tr(m, kpage_dir, "heap", x) \in {None, <<"heap", x>>}
           /\ x < h => Tr(m, kpage_dir, "heap", x) = <<"heap", x>>
  <1>1. \A e \in Entry : /\ Tr(m, kpage_dir, "heap", e) \in {None, <<"heap", e>>}
                         /\ e < h => Tr(m, kpage_dir, "heap", e) = <<"heap", e>>
    BY ZenonT(20) DEF Kernel
  <1> QED
    BY <1>1, ZenonT(20)

\* The heap grows by a page, which every directory has.
LEMMA HeapMap ==
    ASSUME NEW m, NEW D, NEW h \in Nat, h < HEAP, Kernel(m, D, h), NEW d \in D, h > 0 \/ D = {kpage_dir}
    PROVE  LET n == paging_map(m, d, "heap", h, <<"heap", h>>)
           IN  /\ Kernel(n, D, h + 1) /\ SameUser(m, n, D)
               /\ m.dir[kpage_dir]["windows"] # NoTable => n.dir[kpage_dir]["windows"] # NoTable
  <1> DEFINE f == <<"heap", h>>
             n == paging_map(m, d, "heap", h, f)
  <1>1. Struct(m, D) /\ MayMap(m, D, d, "heap") /\ "heap" \in KernelIndex /\ f \in Frame /\ h \in Entry
    <2>1. Struct(m, D) /\ kpage_dir \in D
      BY DEF Kernel, Struct
    <2>2. h > 0 => m.dir[kpage_dir]["heap"] # NoTable
      BY TablesThere
    <2>3. "heap" \in KernelIndex /\ "heap" \in Index /\ "heap" \notin UserIndex
      BY Indices
    <2>4. f \in Frame /\ h \in Entry
      BY FrameFacts, Constants
    <2> QED
      BY <2>1, <2>2, <2>3, <2>4 DEF MayMap
  <1>f. f = <<"heap", h>>
    OBVIOUS
  <1> HIDE DEF f
  <1>2. /\ Struct(n, D) /\ SameUser(m, n, D)
        /\ \A j \in KernelIndex : m.dir[kpage_dir][j] # NoTable => n.dir[kpage_dir][j] # NoTable
        /\ \A j \in KernelIndex : \A x \in Entry :
             Tr(n, kpage_dir, j, x) =
               IF (j = "heap" \/ {"heap", j} \subseteq {"low", "kernel"}) /\ x = h THEN f
               ELSE Tr(m, kpage_dir, j, x)
    BY <1>1, KernelMap
  <1> HIDE DEF n
  <1>3. \A x \in Entry : /\ Tr(n, kpage_dir, "low", x) = Tr(m, kpage_dir, "low", x)
                         /\ Tr(n, kpage_dir, "heap", x) = IF x = h THEN f ELSE Tr(m, kpage_dir, "heap", x)
    BY <1>2, Indices
  <1>4. \A x \in Entry : /\ Tr(n, kpage_dir, "heap", x) \in {None, <<"heap", x>>}
                         /\ x < h + 1 => Tr(n, kpage_dir, "heap", x) = <<"heap", x>>
    <2> SUFFICES ASSUME NEW x \in Entry
                 PROVE  /\ Tr(n, kpage_dir, "heap", x) \in {None, <<"heap", x>>}
                        /\ x < h + 1 => Tr(n, kpage_dir, "heap", x) = <<"heap", x>>
      OBVIOUS
    <2>1. x \in Nat /\ (x < h + 1 => x = h \/ x < h)
      BY Constants
    <2>2. Tr(m, kpage_dir, "heap", x) \in {None, <<"heap", x>>}
          /\ (x < h => Tr(m, kpage_dir, "heap", x) = <<"heap", x>>)
      BY HeapPage
    <2>3. CASE x = h
      BY <2>3, <1>3, <1>f
    <2>4. CASE x # h
      BY <2>4, <2>1, <2>2, <1>3
    <2> QED
      BY <2>3, <2>4
  <1>5. Kernel(n, D, h + 1)
    BY <1>2, <1>3, <1>4 DEF Kernel
  <1> QED
    BY <1>2, <1>5, Indices DEF n, f

\* A page of the heap that is there already was mapped for the heap.
LEMMA HeapThere ==
    ASSUME NEW m, NEW D, NEW h \in Nat, h < HEAP, Kernel(m, D, h), NEW d \in D, Tr(m, d, "heap", h) # None
    PROVE  Kernel(m, D, h + 1)
  <1>1. h \in Entry /\ Struct(m, D) /\ kpage_dir \in D /\ "heap" \in Index
    BY Constants, Indices DEF Kernel, Struct
  <1>2. Same(d, "heap", kpage_dir, "heap")
    BY Indices DEF Same
  <1>3. Tr(m, d, "heap", h) = Tr(m, kpage_dir, "heap", h)
    BY <1>1, <1>2, SameTr
  <1>4. Tr(m, kpage_dir, "heap", h) = <<"heap", h>>
    BY <1>1, <1>3, HeapPage
  <1>5. \A x \in Entry : x < h + 1 => Tr(m, kpage_dir, "heap", x) = <<"heap", x>>
    <2> SUFFICES ASSUME NEW x \in Entry, x < h + 1 PROVE Tr(m, kpage_dir, "heap", x) = <<"heap", x>>
      OBVIOUS
    <2>1. x = h \/ x < h
      BY Constants
    <2> QED
      BY <2>1, <1>4, HeapPage
  <1> QED
    BY <1>5 DEF Kernel

\* The section table of a program.
LEMMA ModuleFacts ==
    ASSUME NEW s \in Modules
    PROVE  /\ Len(s) \in Nat
           /\ \A i \in 1..Len(s) : /\ s[i].name \in {".text", ".data", ".bss", ".rodata"}
                                    /\ s[i].page \in 0..1 /\ s[i].file \in Nat
           /\ \E i \in 1..Len(s) : s[i].name = ".text"
           /\ \A i, j \in 1..Len(s) :
                /\ s[i].name = s[j].name => i = j
                /\ s[i].page = s[j].page <=> s[i].file = s[j].file
                /\ s[i].name = ".data" /\ s[j].name = ".bss" => i < j /\ s[i].page = s[j].page
  <1> DEFINE Section == [name : {".text", ".data", ".bss", ".rodata"}, page : 0..1, file : Nat]
  <1>1. s \in Seq(Section)
    BY PagingAssumption
  <1>2. \A x \in Section : /\ x.name \in {".text", ".data", ".bss", ".rodata"}
                           /\ x.page \in 0..1 /\ x.file \in Nat
    OBVIOUS
  <1> HIDE DEF Section
  <1>3. Len(s) \in Nat /\ \A i \in 1..Len(s) : s[i] \in Section
    BY <1>1
  <1> QED
    BY <1>2, <1>3, PagingAssumption

\* What a process has is kept when user addresses are mapped as before.
LEMMA Keeps ==
    ASSUME NEW m, NEW n, NEW D, SameUser(m, n, D), NEW p \in D \ {kpage_dir}, NEW s \in Modules \cup {<<>>}
    PROVE  (HasProgram(m, p, s) => HasProgram(n, p, s)) /\ (HasStack(m, p) => HasStack(n, p))
  <1>1. \A i \in 1..Len(s) : s[i].page \in Entry
    <2> SUFFICES ASSUME NEW i \in 1..Len(s) PROVE s[i].page \in Entry
      OBVIOUS
    <2>1. s \in Modules
      OBVIOUS
    <2>2. s[i].page \in 0..1
      BY <2>1, ModuleFacts
    <2> QED
      BY <2>2, Constants
  <1>2. "program" \in UserIndex /\ "stack" \in UserIndex /\ 0 \in Entry
    BY Indices, Constants
  <1>3. HasProgram(m, p, s) => HasProgram(n, p, s)
    BY <1>1, <1>2 DEF SameUser, HasProgram
  <1>4. HasStack(m, p) => HasStack(n, p)
    BY <1>2 DEF SameUser, HasStack
  <1> QED
    BY <1>3, <1>4
-----------------------------------------------------------------------------
(* The steps                                                               *)

LEMMA Facts ==
    ASSUME Control
    PROVE  /\ proc \in 0..NPROC /\ Dirs \subseteq Dir /\ kpage_dir \in Dirs
           /\ heap \in Nat /\ (heap > 0 \/ Dirs = {kpage_dir})
           /\ \A c \in Cpu : cr3[c] \in Dirs
           /\ ready \subseteq Dirs \ {kpage_dir}
           /\ loader \in {"thread", "stack", "ready"} => proc \in Dirs \ {kpage_dir}
  <1>1. proc \in 0..NPROC /\ kpage_dir \in Dirs /\ heap \in Nat
    BY Constants DEF Control, Proc, Dirs
  <1>2. Dirs \subseteq Dir
    BY <1>1, Constants DEF Dirs
  <1>3. heap > 0 \/ Dirs = {kpage_dir}
    <2>1. loader \in {"cmdline", "kernel"} => Dirs = {kpage_dir}
      BY Constants DEF Control, Dirs, Cloned
    <2> QED
      BY <2>1 DEF Control
  <1>4. ready \subseteq Dirs \ {kpage_dir}
    BY <1>1, Constants DEF Control, Dirs, Cloned
  <1>5. loader \in {"thread", "stack", "ready", "sections"} => proc \in Dirs \ {kpage_dir}
    BY <1>1, Constants DEF Control, Dirs, Cloned, Proc
  <1>6. \A c \in Cpu : cr3[c] \in Dirs
    BY <1>1, <1>4, <1>5 DEF Control
  <1> QED
    BY <1>1, <1>2, <1>3, <1>4, <1>5, <1>6

\* kbrk, in whatever directory it is called.
LEMMA Grows ==
    ASSUME IInv, NEW c \in Cpu, kmalloc(c)
    PROVE  /\ heap' \in 0..HEAP /\ heap' > 0
           /\ Kernel(mm', Dirs, heap') /\ SameUser(mm, mm', Dirs)
           /\ mm.dir[kpage_dir]["windows"] # NoTable => mm'.dir[kpage_dir]["windows"] # NoTable
  <1>1. /\ heap \in Nat /\ heap \in 0..HEAP /\ (heap > 0 \/ Dirs = {kpage_dir}) /\ cr3[c] \in Dirs
        /\ Kernel(mm, Dirs, heap)
    BY Facts DEF IInv, Contents, Control
  <1>2. SameUser(mm, mm, Dirs)
    BY DEF SameUser
  <1>3. CASE heap > 0 /\ UNCHANGED <<mm, heap>>
    BY <1>1, <1>2, <1>3
  <1>4. CASE kbrk(c)
    <2>1. heap < HEAP /\ heap' = heap + 1 /\ heap' \in 0..HEAP /\ heap' > 0
      BY <1>1, <1>4, Constants DEF kbrk
    <2>2. CASE Tr(mm, cr3[c], "heap", heap) # None
      <3>1. mm' = mm
        BY <2>2, <1>4 DEF kbrk, paging_is_mapped, Translate, Tr
      <3>2. Kernel(mm, Dirs, heap + 1)
        BY <2>1, <2>2, <1>1, HeapThere
      <3> QED
        BY <3>1, <3>2, <2>1, <1>2
    <2>3. CASE Tr(mm, cr3[c], "heap", heap) = None
      <3>1. mm' = paging_map(mm, cr3[c], "heap", heap, <<"heap", heap>>)
        BY <2>3, <1>4 DEF kbrk, paging_is_mapped, Translate, Tr
      <3> DEFINE n == paging_map(mm, cr3[c], "heap", heap, <<"heap", heap>>)
      <3>2. /\ Kernel(n, Dirs, heap + 1) /\ SameUser(mm, n, Dirs)
            /\ mm.dir[kpage_dir]["windows"] # NoTable => n.dir[kpage_dir]["windows"] # NoTable
        BY <2>1, <1>1, HeapMap
      <3> HIDE DEF n
      <3> QED
        BY <3>1, <3>2, <2>1 DEF n
    <2> QED
      BY <2>2, <2>3
  <1> QED
    BY <1>3, <1>4 DEF kmalloc

\* The boot CPU goes through elf_load with the directory of the process in use
\* while its sections and its stack are mapped; the others use that of what
\* they run.
LEMMA ControlStep ==
    ASSUME Control, Next, \A c \in Cpu : kmalloc(c) => heap' \in 0..HEAP /\ heap' > 0
    PROVE  Control'
  <1>0. /\ proc \in 0..NPROC /\ Boot \in Cpu /\ kpage_dir = 0 /\ NPROC \in Nat \ {0}
        /\ running \in [Cpu -> ready \cup {kpage_dir}] /\ cr3 \in [Cpu -> Dirs]
        /\ Proc = 1..NPROC
    BY Facts, Constants DEF Control, Proc
  <1>c. CASE mboot_parse_cmdline
    BY <1>0, <1>c DEF Control, mboot_parse_cmdline, At, Loading
  <1>1. CASE proc_create_kernel_proc
    BY <1>0, <1>1 DEF Control, proc_create_kernel_proc, At, Loading
  <1>2. CASE cpu_wake_all
    BY <1>0, <1>2 DEF Control, cpu_wake_all, At, Loading
  <1>3. CASE CloneOpen
    <2>1. module' \in [Proc -> Modules \cup {<<>>}] /\ module'[proc] \in Modules
      BY <1>3 DEF Control, CloneOpen, At
    <2> QED
      BY <1>0, <1>3, <2>1 DEF Control, CloneOpen, At, Loading
  <1>4. CASE CloneCopy
    BY <1>0, <1>4 DEF Control, CloneCopy, At, Loading
  <1>5. CASE CloneClose
    BY <1>0, <1>5 DEF Control, CloneClose, At, Loading
  <1>6. CASE NewProcess
    BY <1>0, <1>6 DEF Control, NewProcess, At, Loading, page_dir_switch
  <1>7. CASE Sections
    BY <1>0, <1>7 DEF Control, Sections, At, Loading, page_dir_switch
  <1>8. CASE NewThread
    BY <1>0, <1>8 DEF Control, NewThread, At, Loading, page_dir_switch
  <1>9. CASE Stack
    BY <1>0, <1>9 DEF Control, Stack, At, Loading, page_dir_switch
  <1>10. CASE Loaded
    BY <1>0, <1>10 DEF Control, Loaded, Loading
  <1>11. ASSUME NEW c \in Cpu, NEW p \in Dir, scheduler_switch(c, p) PROVE Control'
    BY <1>0, <1>11 DEF Control, scheduler_switch, Loading, page_dir_switch
  <1>12. ASSUME NEW c \in Cpu, Allocate(c) PROVE Control'
    BY <1>0, <1>12 DEF Control, Allocate, Loading, kmalloc
  <1>13. ASSUME NEW c \in Cpu, SysMmap(c) PROVE Control'
    BY <1>0, <1>13 DEF Control, SysMmap, Loading
  <1> QED
    BY <1>c, <1>1, <1>2, <1>3, <1>4, <1>5, <1>6, <1>7, <1>8, <1>9, <1>10, <1>11, <1>12, <1>13
       DEF Next, Load

\* A step that only maps kernel addresses, and finishes nothing.
LEMMA Settled ==
    ASSUME IInv, Control', Dirs' = Dirs, Kernel(mm', Dirs, heap'), SameUser(mm, mm', Dirs),
           loader' = "copy" \/ Dirs # {kpage_dir} => mm'.dir[kpage_dir]["windows"] # NoTable,
           \A p \in Proc :
             /\ p \in ready' \/ (p = proc' /\ loader' \in {"thread", "stack", "ready"}) =>
                  /\ p \in ready \/ (p = proc /\ loader \in {"thread", "stack", "ready"})
                  /\ module'[p] = module[p]
             /\ p \in ready' \/ (p = proc' /\ loader' = "ready") =>
                  p \in ready \/ (p = proc /\ loader = "ready")
    PROVE  Contents'
  <1>1. \A p \in Proc : p \in ready \/ (p = proc /\ loader \in {"thread", "stack", "ready"}) =>
                       p \in Dirs \ {kpage_dir} /\ module[p] \in Modules \cup {<<>>}
    BY Facts DEF IInv, Control
  <1>2. ASSUME NEW p \in Proc, p \in ready' \/ (p = proc' /\ loader' \in {"thread", "stack", "ready"})
        PROVE  HasProgram(mm', p, module'[p])
    <2>1. HasProgram(mm, p, module[p]) /\ module'[p] = module[p]
      BY <1>2 DEF IInv, Contents
    <2> QED
      BY <1>1, <1>2, <2>1, Keeps
  <1>3. ASSUME NEW p \in Proc, p \in ready' \/ (p = proc' /\ loader' = "ready")
        PROVE  HasStack(mm', p)
    <2>1. HasStack(mm, p)
      BY <1>3 DEF IInv, Contents
    <2>2. p \in Dirs \ {kpage_dir} /\ module[p] \in Modules \cup {<<>>}
      BY <1>3, <1>1
    <2> QED
      BY <2>1, <2>2, Keeps
  <1>4. Kernel(mm', Dirs', heap')
    OBVIOUS
  <1> QED
    BY <1>2, <1>3, <1>4 DEF Contents

\* Memory m with a copy p of the kernel's directory.
CopyOf(m, p) == [m EXCEPT !.dir = [d \in DOMAIN @ \cup {p} |-> IF d = p THEN @[kpage_dir] ELSE @[d]],
                          !.self = [d \in DOMAIN @ \cup {p} |-> IF d = p THEN p ELSE @[d]]]

\* page_dir_clone: the new directory p has the kernel's tables and no others.
LEMMA Copy ==
    ASSUME NEW m, NEW D, NEW h, Kernel(m, D, h), NEW p, p \notin D
    PROVE  LET n == CopyOf(m, p)
           IN  /\ Kernel(n, D \cup {p}, h) /\ SameUser(m, n, D)
               /\ n.dir[kpage_dir] = m.dir[kpage_dir]
  <1> DEFINE E == D \cup {p}
             dir2 == [d \in E |-> IF d = p THEN m.dir[kpage_dir] ELSE m.dir[d]]
             self2 == [d \in E |-> d]
             n == [dir |-> dir2, self |-> self2, table |-> m.table, next |-> m.next]
             like(d) == IF d = p THEN kpage_dir ELSE d
  <1>1. Mem(m, D) /\ Struct(m, D) /\ kpage_dir \in D /\ p # kpage_dir
    BY DEF Kernel, Struct
  <1>2. DOMAIN m.dir = D /\ DOMAIN m.self = D /\ \A d \in D : m.self[d] = d
    BY <1>1 DEF Mem
  <1>3. CopyOf(m, p) = n
    <2>1. m = [dir |-> m.dir, self |-> m.self, table |-> m.table, next |-> m.next]
      BY <1>1 DEF Mem
    <2>2. dir2 = [d \in DOMAIN m.dir \cup {p} |-> IF d = p THEN m.dir[kpage_dir] ELSE m.dir[d]]
      BY <1>2
    <2>3. self2 = [d \in DOMAIN m.self \cup {p} |-> IF d = p THEN p ELSE m.self[d]]
      BY <1>2
    <2> HIDE DEF dir2, self2
    <2>4. [m EXCEPT !.dir = dir2] = [dir |-> dir2, self |-> m.self, table |-> m.table, next |-> m.next]
      BY <2>1
    <2> DEFINE o == [dir |-> dir2, self |-> m.self, table |-> m.table, next |-> m.next]
    <2>5. [o EXCEPT !.self = self2] = n
      OBVIOUS
    <2> QED
      <3> HIDE DEF n, o
      <3>1. [m EXCEPT !.dir = dir2] = o
        BY <2>4 DEF o
      <3> QED
        BY <2>2, <2>3, <2>5, <3>1, Zenon DEF CopyOf
  <1>4. n.dir = dir2 /\ n.self = self2 /\ n.table = m.table /\ n.next = m.next
    OBVIOUS
  <1>5. \A d \in E : like(d) \in D /\ dir2[d] = m.dir[like(d)]
    BY <1>1
  <1>6. dir2 \in [E -> [Index -> Int]]
    BY <1>1 DEF Mem
  <1>7. \A d \in E : \A i \in Index : dir2[d][i] \in 0..(m.next - 1) \cup {NoTable}
    BY <1>1, <1>5 DEF Mem
  <1>n. n = [dir |-> n.dir, self |-> n.self, table |-> n.table, next |-> n.next]
    OBVIOUS
  <1>s. self2 = [d \in E |-> d]
    OBVIOUS
  <1> HIDE DEF n, dir2, self2
  <1>8. Mem(n, E)
    BY <1>n, <1>s, <1>1, <1>4, <1>6, <1>7 DEF Mem
  <1>9. \A i \in UserIndex : n.dir[kpage_dir][i] = NoTable
    BY <1>1, <1>4, <1>5 DEF Struct
  <1>10. ASSUME NEW d \in E, NEW b \in E, NEW i \in Index, NEW j \in Index
         PROVE  /\ Same(d, i, b, j) => n.dir[d][i] = n.dir[b][j]
                /\ n.dir[d][i] = n.dir[b][j] /\ n.dir[d][i] # NoTable => Same(d, i, b, j)
    <2>1. /\ like(d) \in D /\ like(b) \in D
          /\ n.dir[d][i] = m.dir[like(d)][i] /\ n.dir[b][j] = m.dir[like(b)][j]
      BY <1>4, <1>5
    <2>2. Same(d, i, b, j) => Same(like(d), i, like(b), j)
      BY DEF Same
    <2>3. /\ Same(like(d), i, like(b), j) => m.dir[like(d)][i] = m.dir[like(b)][j]
          /\ m.dir[like(d)][i] = m.dir[like(b)][j] /\ m.dir[like(d)][i] # NoTable =>
               Same(like(d), i, like(b), j)
      BY <2>1, <1>1 DEF Struct
    <2>4. ASSUME Same(like(d), i, like(b), j), m.dir[like(d)][i] # NoTable PROVE Same(d, i, b, j)
      <3>1. CASE i \in KernelIndex
        BY <2>4, <3>1 DEF Same
      <3>2. CASE i \in UserIndex
        <4>1. like(d) # kpage_dir
          BY <2>4, <3>2, <1>1 DEF Struct
        <4>2. i = j /\ like(d) = like(b)
          BY <2>4, <3>2, Indices DEF Same
        <4> QED
          BY <4>1, <4>2 DEF Same
      <3> QED
        BY <3>1, <3>2 DEF Index
    <2> QED
      BY <2>1, <2>2, <2>3, <2>4
  <1>11. Struct(n, E)
    BY <1>1, <1>8, <1>9, <1>10 DEF Struct
  <1>12. \A d \in D : \A i, x : Tr(n, d, i, x) = Tr(m, d, i, x)
    <2>1. \A d \in D : n.dir[d] = m.dir[d]
      BY <1>4, <1>5
    <2> QED
      BY <2>1, <1>4 DEF Tr
  <1>13. Kernel(n, E, h)
    BY <1>1, <1>11, <1>12 DEF Kernel
  <1>14. SameUser(m, n, D)
    BY <1>12 DEF SameUser
  <1>15. n.dir[kpage_dir] = m.dir[kpage_dir]
    BY <1>1, <1>4, <1>5
  <1> QED
    BY <1>3, <1>13, <1>14, <1>15

\* A section of the program that is being loaded has been mapped.
Finds(m, i) == Tr(m, proc, "program", module[proc][i].page) = <<"file", proc, module[proc][i].file>>

\* elf_load and proc_create: the sections with one of the names are mapped, and
\* those that were mapped before still are.
LEMMA OneSection ==
    ASSUME Control, loader = "sections", NEW m, NEW h \in Nat, Kernel(m, Dirs, h),
           NEW names \in {{".text"}, {".data", ".bss"}, {}, {".rodata"}}
    PROVE  LET n == MapSection(m, proc_section(names))
           IN  /\ Kernel(n, Dirs, h) /\ SameUser(m, n, Dirs \ {proc})
               /\ m.dir[kpage_dir]["windows"] # NoTable => n.dir[kpage_dir]["windows"] # NoTable
               /\ \A i \in 1..Len(module[proc]) :
                    Finds(m, i) \/ module[proc][i].name \in names => Finds(n, i)
  <1> DEFINE s == module[proc]
             there == {i \in 1..Len(s) : s[i].name \in names}
             k == Max(there)
  <1>1. /\ s \in Modules /\ cr3[Boot] = proc /\ proc \in Dirs \ {kpage_dir} /\ proc \in Nat
    BY Constants DEF Control, Dirs, Cloned, Proc
  <1>2. proc_section(names) =
          IF there = {} THEN [index |-> "low", page |-> 0, frame |-> <<"image", 0>>]
          ELSE [index |-> "program", page |-> s[k].page, frame |-> <<"file", proc, s[k].file>>]
    BY DEF proc_section
  <1>3. /\ Len(s) \in Nat
        /\ \A i \in 1..Len(s) : s[i].page \in 0..1 /\ s[i].file \in Nat
        /\ \A i, j \in 1..Len(s) :
             /\ s[i].name = s[j].name => i = j
             /\ s[i].page = s[j].page <=> s[i].file = s[j].file
             /\ s[i].name = ".data" /\ s[j].name = ".bss" => i < j /\ s[i].page = s[j].page
    BY <1>1, ModuleFacts
  <1>4. CASE there = {}
    <2> DEFINE n == paging_map(m, proc, "low", 0, <<"image", 0>>)
    <2>1. MapSection(m, proc_section(names)) = n
      BY <1>1, <1>2, <1>4 DEF MapSection
    <2>2. /\ Kernel(n, Dirs, h) /\ SameUser(m, n, Dirs)
          /\ m.dir[kpage_dir]["windows"] # NoTable => n.dir[kpage_dir]["windows"] # NoTable
      BY <1>1, LowMap, Constants, FrameFacts
    <2> HIDE DEF n
    <2>3. SameUser(m, n, Dirs \ {proc})
      BY <2>2 DEF SameUser
    <2>4. \A x \in Entry : Tr(n, proc, "program", x) = Tr(m, proc, "program", x)
      BY <1>1, <2>2, Indices DEF SameUser
    <2>5. \A i \in 1..Len(s) : s[i].page \in Entry
      BY <1>3, Constants
    <2>6. \A i \in 1..Len(s) : Finds(m, i) => Finds(n, i)
      BY <2>4, <2>5 DEF Finds
    <2>7. \A i \in 1..Len(s) : s[i].name \notin names
      BY <1>4
    <2> QED
      BY <2>1, <2>2, <2>3, <2>6, <2>7
  <1>5. CASE there # {}
    <2>1. \E a \in there : \A y \in there : a >= y /\ s[y].page = s[a].page
      <3>1. CASE names \in {{".text"}, {".rodata"}}
        <4>1. PICK a \in there : TRUE
          BY <1>5
        <4>2. \A y \in there : y = a
          BY <3>1, <1>3
        <4> QED
          BY <4>1, <4>2, <1>3
      <3>2. CASE names = {".data", ".bss"}
        <4>1. CASE \E a \in there : s[a].name = ".bss"
          <5>1. PICK a \in there : s[a].name = ".bss"
            BY <4>1
          <5>2. \A y \in there : s[y].name = ".data" \/ y = a
            BY <3>2, <5>1, <1>3
          <5> QED
            BY <5>1, <5>2, <1>3
        <4>2. CASE \A a \in there : s[a].name = ".data"
          <5>1. PICK a \in there : TRUE
            BY <1>5
          <5>2. \A y \in there : y = a
            BY <4>2, <1>3
          <5> QED
            BY <5>1, <5>2, <1>3
        <4> QED
          BY <3>2, <4>1, <4>2
      <3>3. names # {}
        BY <1>5
      <3> QED
        BY <3>1, <3>2, <3>3
    <2>2. k \in there /\ \A y \in there : s[y].page = s[k].page
      <3>1. PICK a \in there : \A y \in there : a >= y /\ s[y].page = s[a].page
        BY <2>1
      <3>2. there \subseteq Nat
        BY <1>3
      <3>3. k = CHOOSE x \in there : \A y \in there : x >= y
        BY DEF Max
      <3> HIDE DEF there, k
      <3>4. k \in there /\ \A y \in there : k >= y
        BY <3>1, <3>3
      <3>5. k = a
        BY <3>1, <3>2, <3>4
      <3> QED
        BY <3>1, <3>4, <3>5
    <2> DEFINE e == s[k].page
               f == <<"file", proc, s[k].file>>
               n == paging_map(m, proc, "program", e, f)
    <2>3. MapSection(m, proc_section(names)) = n
      BY <1>1, <1>2, <1>5 DEF MapSection
    <2>4. k \in 1..Len(s)
      BY <2>2
    <2>5. e \in Entry /\ f \in Frame /\ "program" \in UserIndex
      <3>1. s[k].page \in 0..1 /\ s[k].file \in Nat
        BY <2>4, <1>3
      <3> HIDE DEF k, s
      <3> QED
        BY <3>1, <1>1, Constants, FrameFacts, Indices
    <2> HIDE DEF k, there
    <2>6. /\ Kernel(n, Dirs, h)
          /\ m.dir[kpage_dir]["windows"] # NoTable => n.dir[kpage_dir]["windows"] # NoTable
          /\ \A b \in Dirs \ {kpage_dir} : \A j \in UserIndex : \A x \in Entry :
               Tr(n, b, j, x) = IF b = proc /\ j = "program" /\ x = e THEN f ELSE Tr(m, b, j, x)
      <3> HIDE DEF e, f
      <3> QED
        BY <2>5, <1>1, UserMap
    <2> HIDE DEF n
    <2>7. SameUser(m, n, Dirs \ {proc})
      BY <2>6 DEF SameUser
    <2>8. ASSUME NEW i \in 1..Len(s), Finds(m, i) \/ s[i].name \in names PROVE Finds(n, i)
      <3>1. s[i].page \in Entry
        BY <1>3, Constants
      <3>2. Tr(n, proc, "program", s[i].page) =
              IF s[i].page = e THEN f ELSE Tr(m, proc, "program", s[i].page)
        BY <3>1, <2>5, <2>6, <1>1
      <3>3. CASE s[i].page = e
        <4>1. s[i].file = s[k].file
          BY <3>3, <2>4, <1>3
        <4> QED
          BY <4>1, <3>2, <3>3 DEF Finds
      <3>4. CASE s[i].page # e
        <4>1. s[i].name \notin names
          BY <3>4, <2>2 DEF there
        <4> QED
          BY <4>1, <3>2, <3>4, <2>8 DEF Finds
      <3> QED
        BY <3>3, <3>4
    <2> QED
      BY <2>3, <2>6, <2>7, <2>8
  <1> QED
    BY <1>4, <1>5

\* The directories change with page_dir_clone only.
LEMMA DirsStep ==
    ASSUME Control, Next
    PROVE  Dirs' = IF CloneCopy THEN Dirs \cup {proc} ELSE Dirs
  <1>0. proc \in 0..NPROC /\ kpage_dir = 0 /\ NPROC \in Nat
    BY Facts, Constants
  <1>1. CASE CloneCopy
    BY <1>0, <1>1 DEF CloneCopy, At, Dirs, Cloned, Control, Proc
  <1>2. CASE ~CloneCopy
    <2> SUFFICES Dirs' = Dirs
      BY <1>2
    <2>0. CASE mboot_parse_cmdline
      BY <1>0, <2>0 DEF mboot_parse_cmdline, At, Dirs, Cloned
    <2>1. CASE proc_create_kernel_proc \/ cpu_wake_all \/ CloneOpen \/ CloneClose
      BY <1>0, <2>1 DEF proc_create_kernel_proc, cpu_wake_all, CloneOpen, CloneClose, At, Dirs, Cloned, Control
    <2>2. CASE NewProcess \/ Sections \/ NewThread \/ Stack
      BY <1>0, <2>2 DEF NewProcess, Sections, NewThread, Stack, At, Dirs, Cloned, Control
    <2>3. CASE Loaded
      BY <1>0, <2>3 DEF Loaded, Dirs, Cloned, Control
    <2>4. ASSUME NEW c \in Cpu, NEW p \in Dir, scheduler_switch(c, p) PROVE Dirs' = Dirs
      BY <2>4 DEF scheduler_switch, Dirs, Cloned
    <2>5. ASSUME NEW c \in Cpu, Allocate(c) \/ SysMmap(c) PROVE Dirs' = Dirs
      BY <2>5 DEF Allocate, SysMmap, Dirs, Cloned
    <2> QED
      BY <1>2, <2>0, <2>1, <2>2, <2>3, <2>4, <2>5 DEF Next, Load
  <1> QED
    BY <1>1, <1>2

\* The heap grows: before there are processes, for one that is loaded, or for
\* a system call.
LEMMA HeapSteps ==
    ASSUME IInv, Next, Control',
           \/ proc_create_kernel_proc \/ NewProcess \/ NewThread \/ \E c \in Cpu : Allocate(c)
    PROVE  Contents'
  <1>1. \E c \in Cpu : kmalloc(c)
    BY Constants DEF proc_create_kernel_proc, NewProcess, NewThread, Allocate, kmalloc
  <1>2. /\ Kernel(mm', Dirs, heap') /\ SameUser(mm, mm', Dirs)
        /\ mm.dir[kpage_dir]["windows"] # NoTable => mm'.dir[kpage_dir]["windows"] # NoTable
    BY <1>1, Grows
  <1>3. ~CloneCopy /\ (loader' = "copy" => loader = "copy") /\ UNCHANGED <<proc, module, ready>>
    BY DEF proc_create_kernel_proc, NewProcess, NewThread, Allocate, CloneCopy, At
  <1>4. Dirs' = Dirs
    BY <1>3, DirsStep DEF IInv
  <1>5. loader' = "copy" \/ Dirs # {kpage_dir} => mm'.dir[kpage_dir]["windows"] # NoTable
    BY <1>2, <1>3 DEF IInv, Contents
  <1>6. loader' \in {"thread", "stack", "ready"} => loader \in {"thread", "stack", "ready"}
    BY DEF proc_create_kernel_proc, NewProcess, NewThread, Allocate, At
  <1>7. loader' = "ready" => loader = "ready"
    BY DEF proc_create_kernel_proc, NewProcess, NewThread, Allocate, At
  <1> QED
    BY <1>2, <1>3, <1>4, <1>5, <1>6, <1>7, Settled

\* mboot_parse_cmdline, cpu_wake_all, and page_dir_clone's windows: kernel
\* addresses.
LEMMA KernelSteps ==
    ASSUME IInv, Next, Control', mboot_parse_cmdline \/ cpu_wake_all \/ CloneOpen \/ CloneClose
    PROVE  Contents'
  <1>0. /\ Kernel(mm, Dirs, heap) /\ heap \in Nat /\ cr3[Boot] \in Dirs /\ proc \in Nat
        /\ 0 \in Entry /\ 1 \in Entry /\ kpage_dir = 0
        /\ loader = "copy" \/ Dirs # {kpage_dir} => mm.dir[kpage_dir]["windows"] # NoTable
    BY Facts, Constants DEF IInv, Contents
  <1>1. ~CloneCopy
    BY DEF mboot_parse_cmdline, cpu_wake_all, CloneOpen, CloneClose, CloneCopy, At
  <1>2. Dirs' = Dirs
    BY <1>1, DirsStep DEF IInv
  <1>3. heap' = heap /\ ready' = ready
    BY DEF mboot_parse_cmdline, cpu_wake_all, CloneOpen, CloneClose
  <1>4. loader' \notin {"thread", "stack", "ready"}
    BY DEF mboot_parse_cmdline, cpu_wake_all, CloneOpen, CloneClose, At
  <1>5. \A p \in ready : module'[p] = module[p]
    <2>1. \A p \in ready : p \in Proc /\ p # proc
      BY <1>0, Facts, Constants DEF IInv, Control, Proc, mboot_parse_cmdline, cpu_wake_all, CloneOpen,
                                    CloneClose, At
    <2> QED
      BY <2>1 DEF IInv, Control, mboot_parse_cmdline, cpu_wake_all, CloneOpen, CloneClose
  <1>6. ASSUME NEW e \in Lost, NEW f \in Frame, loader' # "copy",
               mm' = paging_map(mm, cr3[Boot], "low", e, f)
        PROVE  Contents'
    <2> DEFINE n == paging_map(mm, cr3[Boot], "low", e, f)
    <2>1. mm' = n /\ loader' # "copy" /\ e \in Entry
      BY <1>6, Constants DEF Lost
    <2>2. /\ Kernel(n, Dirs, heap) /\ SameUser(mm, n, Dirs)
          /\ mm.dir[kpage_dir]["windows"] # NoTable => n.dir[kpage_dir]["windows"] # NoTable
      BY <1>0, <1>6, <2>1, LowMap
    <2> HIDE DEF n
    <2>3. loader' = "copy" \/ Dirs # {kpage_dir} => mm'.dir[kpage_dir]["windows"] # NoTable
      BY <1>0, <2>1, <2>2
    <2> QED
      BY <1>2, <1>3, <1>4, <1>5, <2>1, <2>2, <2>3, Settled
  <1>7. ASSUME NEW f \in Frame, NEW g \in Frame,
               mm' = paging_map(paging_map(mm, cr3[Boot], "windows", 0, f), cr3[Boot], "windows", 1, g)
        PROVE  Contents'
    <2> DEFINE m == paging_map(mm, cr3[Boot], "windows", 0, f)
               n == paging_map(m, cr3[Boot], "windows", 1, g)
    <2>1. Kernel(m, Dirs, heap) /\ SameUser(mm, m, Dirs) /\ m.dir[kpage_dir]["windows"] # NoTable
      BY <1>0, WindowMap
    <2> HIDE DEF m
    <2>2. Kernel(n, Dirs, heap) /\ SameUser(m, n, Dirs) /\ n.dir[kpage_dir]["windows"] # NoTable
      BY <1>0, <2>1, WindowMap
    <2>3. mm' = n
      BY <1>7 DEF m
    <2> HIDE DEF n
    <2>4. SameUser(mm, mm', Dirs)
      BY <2>1, <2>2, <2>3 DEF SameUser
    <2> QED
      BY <1>2, <1>3, <1>4, <1>5, <2>2, <2>3, <2>4, Settled
  <1>8. CASE CloneOpen
    <2>1. <<"dir", kpage_dir>> \in Frame /\ <<"dir", proc>> \in Frame
      BY <1>0, FrameFacts
    <2> QED
      BY <1>7, <1>8, <2>1 DEF CloneOpen
  <1>9. CASE CloneClose
    BY <1>7, <1>9, FrameFacts DEF CloneClose
  <1>10. CASE mm' = mm /\ loader' # "copy"
    <2>1. SameUser(mm, mm', Dirs)
      BY <1>10 DEF SameUser
    <2>2. loader' = "copy" \/ Dirs # {kpage_dir} => mm'.dir[kpage_dir]["windows"] # NoTable
      BY <1>0, <1>10
    <2> QED
      BY <1>0, <1>2, <1>3, <1>4, <1>5, <1>10, <2>1, <2>2, Settled
  <1>11. CASE mboot_parse_cmdline
    <2>1. /\ loader' # "copy"
          /\ mm' = mm \/ mm' = paging_map(mm, cr3[Boot], "low", CMDLINE, <<"cmdline">>)
      BY <1>11 DEF mboot_parse_cmdline, At
    <2> QED
      BY <1>6, <1>10, <2>1, FrameFacts DEF Lost
  <1>12. CASE cpu_wake_all
    <2>1. loader' # "copy" /\ mm' = paging_map(mm, cr3[Boot], "low", 1, <<"image", 0>>)
      BY <1>12 DEF cpu_wake_all, At
    <2> QED
      BY <1>6, <2>1, FrameFacts DEF Lost
  <1> QED
    BY <1>8, <1>9, <1>11, <1>12

\* The new directory.
LEMMA CopyStep ==
    ASSUME IInv, Next, Control', CloneCopy
    PROVE  Contents'
  <1>0. /\ Kernel(mm, Dirs, heap) /\ proc \in Nat /\ proc \notin Dirs
        /\ mm.dir[kpage_dir]["windows"] # NoTable
    <2>1. loader = "copy"
      BY DEF CloneCopy, At
    <2>2. Kernel(mm, Dirs, heap) /\ mm.dir[kpage_dir]["windows"] # NoTable
      BY <2>1 DEF IInv, Contents
    <2>3. proc \in 1..NPROC
      BY <2>1 DEF IInv, Control, Proc
    <2>4. Dirs = {0} \cup 1..(proc - 1)
      BY <2>1, Constants DEF Dirs, Cloned
    <2> QED
      BY <2>2, <2>3, <2>4, Constants
  <1>1. Dirs' = Dirs \cup {proc}
    BY DirsStep DEF IInv
  <1>2. /\ heap' = heap /\ ready' = ready /\ module' = module
        /\ loader' \notin {"copy", "thread", "stack", "ready"}
    BY DEF CloneCopy, At
  <1>3. /\ Kernel(mm', Dirs \cup {proc}, heap) /\ SameUser(mm, mm', Dirs)
        /\ mm'.dir[kpage_dir] = mm.dir[kpage_dir]
    <2>1. mm' = CopyOf(mm, proc)
      BY Zenon DEF CloneCopy, CopyOf
    <2> QED
      BY <1>0, <2>1, Copy
  <1>4. \A p \in Proc : p \in ready => /\ HasProgram(mm', p, module'[p])
                                        /\ HasStack(mm', p)
    <2> SUFFICES ASSUME NEW p \in Proc, p \in ready
                 PROVE  HasProgram(mm', p, module[p]) /\ HasStack(mm', p)
      BY <1>2
    <2>1. p \in Dirs \ {kpage_dir} /\ module[p] \in Modules \cup {<<>>}
      BY Facts DEF IInv, Control
    <2>2. HasProgram(mm, p, module[p]) /\ HasStack(mm, p)
      BY DEF IInv, Contents
    <2> QED
      BY <1>3, <2>1, <2>2, Keeps
  <1> QED
    BY <1>0, <1>1, <1>2, <1>3, <1>4 DEF Contents

\* A step that maps user addresses of process d, which others do not see.
LEMMA Private ==
    ASSUME IInv, Control', Dirs' = Dirs, NEW d \in Dirs \ {kpage_dir},
           Kernel(mm', Dirs, heap'), SameUser(mm, mm', Dirs \ {d}),
           mm.dir[kpage_dir]["windows"] # NoTable => mm'.dir[kpage_dir]["windows"] # NoTable,
           UNCHANGED <<ready, module, proc>>, loader' # "copy" \/ loader' = loader,
           loader' \in {"thread", "stack", "ready"} => loader \in {"thread", "stack", "ready"} \/ d = proc,
           loader' = "ready" => loader = "ready" \/ d = proc,
           d \in ready \/ (d = proc /\ loader' \in {"thread", "stack", "ready"}) => HasProgram(mm', d, module[d]),
           d \in ready \/ (d = proc /\ loader' = "ready") => HasStack(mm', d)
    PROVE  Contents'
  <1>1. \A p \in Proc : p \in ready \/ (p = proc /\ loader \in {"thread", "stack", "ready"}) =>
                       p \in Dirs \ {kpage_dir} /\ module[p] \in Modules \cup {<<>>}
    BY Facts DEF IInv, Control
  <1>2. ASSUME NEW p \in Proc, p \in ready \/ (p = proc /\ loader' \in {"thread", "stack", "ready"})
        PROVE  HasProgram(mm', p, module[p])
    <2>1. CASE p = d
      BY <2>1, <1>2
    <2>2. CASE p # d
      <3>1. p \in ready \/ (p = proc /\ loader \in {"thread", "stack", "ready"})
        BY <1>2, <2>2
      <3>2. HasProgram(mm, p, module[p])
        BY <3>1 DEF IInv, Contents
      <3>3. p \in (Dirs \ {d}) \ {kpage_dir} /\ module[p] \in Modules \cup {<<>>}
        BY <1>1, <3>1, <2>2
      <3> QED
        BY <3>2, <3>3, Keeps
    <2> QED
      BY <2>1, <2>2
  <1>3. ASSUME NEW p \in Proc, p \in ready \/ (p = proc /\ loader' = "ready")
        PROVE  HasStack(mm', p)
    <2>1. CASE p = d
      BY <2>1, <1>3
    <2>2. CASE p # d
      <3>1. p \in ready \/ (p = proc /\ loader = "ready")
        BY <1>3, <2>2
      <3>2. HasStack(mm, p)
        BY <3>1 DEF IInv, Contents
      <3>3. p \in (Dirs \ {d}) \ {kpage_dir} /\ module[p] \in Modules \cup {<<>>}
        BY <1>1, <3>1, <2>2
      <3> QED
        BY <3>2, <3>3, Keeps
    <2> QED
      BY <2>1, <2>2
  <1>4. loader' = "copy" \/ Dirs # {kpage_dir} => mm'.dir[kpage_dir]["windows"] # NoTable
    BY DEF IInv, Contents
  <1>5. Kernel(mm', Dirs', heap')
    OBVIOUS
  <1> QED
    BY <1>2, <1>3, <1>4, <1>5 DEF Contents

\* proc_create maps the sections into the new directory.
LEMMA SectionsStep ==
    ASSUME IInv, Next, Control', Sections
    PROVE  Contents'
  <1> DEFINE s == module[proc]
             m1 == MapSection(mm, text)
             m2 == MapSection(m1, data)
             m3 == MapSection(m2, bss)
             m4 == MapSection(m3, rodata)
             W(m) == m.dir[kpage_dir]["windows"] # NoTable
  <1>0. /\ Control /\ loader = "sections" /\ Kernel(mm, Dirs, heap) /\ heap \in Nat
        /\ s \in Modules /\ proc \in Dirs \ {kpage_dir}
    BY Facts, Constants DEF IInv, Contents, Sections, At, Control, Dirs, Cloned, Proc
  <1>1. /\ Kernel(m1, Dirs, heap) /\ SameUser(mm, m1, Dirs \ {proc}) /\ (W(mm) => W(m1))
        /\ \A i \in 1..Len(s) : s[i].name = ".text" => Finds(m1, i)
    BY <1>0, OneSection DEF text
  <1> HIDE DEF m1
  <1>2. /\ Kernel(m2, Dirs, heap) /\ SameUser(m1, m2, Dirs \ {proc}) /\ (W(m1) => W(m2))
        /\ \A i \in 1..Len(s) : Finds(m1, i) \/ s[i].name \in {".data", ".bss"} => Finds(m2, i)
    BY <1>0, <1>1, OneSection DEF data
  <1> HIDE DEF m2
  <1>3. /\ Kernel(m3, Dirs, heap) /\ SameUser(m2, m3, Dirs \ {proc}) /\ (W(m2) => W(m3))
        /\ \A i \in 1..Len(s) : Finds(m2, i) => Finds(m3, i)
    BY <1>0, <1>2, OneSection DEF bss
  <1> HIDE DEF m3
  <1>4. /\ Kernel(m4, Dirs, heap) /\ SameUser(m3, m4, Dirs \ {proc}) /\ (W(m3) => W(m4))
        /\ \A i \in 1..Len(s) : Finds(m3, i) \/ s[i].name = ".rodata" => Finds(m4, i)
    BY <1>0, <1>3, OneSection DEF rodata
  <1>5. mm' = m4
    BY DEF Sections, m1, m2, m3
  <1> HIDE DEF m4
  <1>6. SameUser(mm, mm', Dirs \ {proc}) /\ (W(mm) => W(mm'))
    BY <1>1, <1>2, <1>3, <1>4, <1>5 DEF SameUser
  <1>7. \A i \in 1..Len(s) : s[i].name \in {".text", ".data", ".bss", ".rodata"}
    BY <1>0, ModuleFacts
  <1>8. HasProgram(mm', proc, s)
    BY <1>1, <1>2, <1>3, <1>4, <1>5, <1>7 DEF HasProgram, Finds
  <1>9. UNCHANGED <<ready, module, proc, heap>> /\ loader' = "thread"
    BY DEF Sections, At
  <1>10. ~CloneCopy
    BY <1>9 DEF CloneCopy, At
  <1>11. Dirs' = Dirs
    BY <1>10, DirsStep DEF IInv
  <1>12. proc \notin ready
    BY <1>0 DEF Control, Proc
  <1> QED
    BY <1>0, <1>4, <1>5, <1>6, <1>8, <1>9, <1>11, <1>12, Private

\* thread_create maps the stack.
LEMMA StackStep ==
    ASSUME IInv, Next, Control', Stack
    PROVE  Contents'
  <1> DEFINE f == <<"stack", proc>>
             n == paging_map(mm, proc, "stack", 0, f)
  <1>0. /\ Control /\ loader = "stack" /\ Kernel(mm, Dirs, heap) /\ heap \in Nat /\ proc \in Nat
        /\ module[proc] \in Modules /\ proc \in Dirs \ {kpage_dir} /\ cr3[Boot] = proc
        /\ HasProgram(mm, proc, module[proc])
    BY Facts, Constants DEF IInv, Contents, Stack, At, Control, Proc
  <1>1. f \in Frame /\ 0 \in Entry /\ "stack" \in UserIndex /\ "program" \in UserIndex
    BY <1>0, FrameFacts, Constants, Indices
  <1>f. f = <<"stack", proc>>
    OBVIOUS
  <1> HIDE DEF f
  <1>2. /\ Kernel(n, Dirs, heap)
        /\ mm.dir[kpage_dir]["windows"] # NoTable => n.dir[kpage_dir]["windows"] # NoTable
        /\ \A b \in Dirs \ {kpage_dir} : \A j \in UserIndex : \A x \in Entry :
             Tr(n, b, j, x) = IF b = proc /\ j = "stack" /\ x = 0 THEN f ELSE Tr(mm, b, j, x)
    BY <1>0, <1>1, UserMap
  <1>3. mm' = n /\ UNCHANGED <<ready, module, proc, heap>> /\ loader' = "ready"
    BY <1>0, <1>f DEF Stack, At
  <1> HIDE DEF n
  <1>4. SameUser(mm, mm', Dirs \ {proc})
    BY <1>2, <1>3 DEF SameUser
  <1>5. HasStack(mm', proc)
    BY <1>0, <1>1, <1>2, <1>3, <1>f DEF HasStack
  <1>6. HasProgram(mm', proc, module[proc])
    <2>1. \A i \in 1..Len(module[proc]) : module[proc][i].page \in Entry
      BY <1>0, ModuleFacts, Constants
    <2>2. \A x \in Entry : Tr(mm', proc, "program", x) = Tr(mm, proc, "program", x)
      BY <1>0, <1>1, <1>2, <1>3
    <2> QED
      BY <1>0, <2>1, <2>2 DEF HasProgram
  <1>7. ~CloneCopy
    BY <1>3 DEF CloneCopy, At
  <1>8. Dirs' = Dirs
    BY <1>7, DirsStep DEF IInv
  <1> QED
    BY <1>0, <1>2, <1>3, <1>4, <1>5, <1>6, <1>8, Private

\* SYSCALL_MMAP maps into the directory of the process that runs.
LEMMA MmapStep ==
    ASSUME IInv, Next, Control', NEW c \in Cpu, SysMmap(c)
    PROVE  Contents'
  <1> DEFINE d == cr3[c]
             n == paging_map(mm, d, "video", 0, <<"video">>)
  <1>0. /\ Control /\ Kernel(mm, Dirs, heap) /\ heap \in Nat /\ Boot \in Cpu
        /\ <<"video">> \in Frame /\ 0 \in Entry /\ {"video", "program", "stack"} \subseteq UserIndex
    BY Facts, Constants, FrameFacts, Indices DEF IInv, Contents
  <1>1. d = running[c] /\ d \in ready /\ d \in Proc /\ d \in Dirs \ {kpage_dir}
    <2>1. running[c] # kpage_dir
      BY DEF SysMmap
    <2>2. running[c] \in ready /\ ready \subseteq Dirs \ {kpage_dir} /\ Dirs \subseteq Dir
      BY <2>1, Facts DEF IInv, Control
    <2>3. c # Boot \/ loader = "done"
      BY <2>1 DEF IInv, Control
    <2>4. cr3[c] = running[c]
      BY <2>3 DEF IInv, Control
    <2> QED
      BY <2>2, <2>4 DEF Dir
  <1>2. /\ Kernel(n, Dirs, heap)
        /\ mm.dir[kpage_dir]["windows"] # NoTable => n.dir[kpage_dir]["windows"] # NoTable
        /\ \A b \in Dirs \ {kpage_dir} : \A j \in UserIndex : \A x \in Entry :
             Tr(n, b, j, x) = IF b = d /\ j = "video" /\ x = 0 THEN <<"video">> ELSE Tr(mm, b, j, x)
    <2> HIDE DEF d
    <2> QED
      BY <1>0, <1>1, UserMap
  <1>3. mm' = n /\ UNCHANGED <<ready, module, proc, heap, loader>>
    BY DEF SysMmap
  <1> HIDE DEF n, d
  <1>4. SameUser(mm, mm', Dirs \ {d})
    BY <1>2, <1>3 DEF SameUser
  <1>5. \A x \in Entry : /\ Tr(mm', d, "program", x) = Tr(mm, d, "program", x)
                         /\ Tr(mm', d, "stack", x) = Tr(mm, d, "stack", x)
    BY <1>0, <1>1, <1>2, <1>3
  <1>6. HasStack(mm', d)
    BY <1>0, <1>1, <1>5 DEF IInv, Contents, HasStack
  <1>7. HasProgram(mm', d, module[d])
    <2>1. module[d] \in Modules \cup {<<>>} /\ HasProgram(mm, d, module[d])
      BY <1>1 DEF IInv, Control, Contents
    <2>2. CASE module[d] = <<>>
      BY <2>2 DEF HasProgram
    <2>3. CASE module[d] \in Modules
      <3>1. \A i \in 1..Len(module[d]) : module[d][i].page \in Entry
        BY <2>3, ModuleFacts, Constants
      <3> QED
        BY <2>1, <3>1, <1>5 DEF HasProgram
    <2> QED
      BY <2>1, <2>2, <2>3
  <1>8. ~CloneCopy
    BY <1>3 DEF CloneCopy, At
  <1>9. Dirs' = Dirs
    BY <1>8, DirsStep DEF IInv
  <1> QED
    BY <1>0, <1>1, <1>2, <1>3, <1>4, <1>6, <1>7, <1>9, Private

\* Steps that map nothing: the process is ready, or another one runs.
LEMMA QuietSteps ==
    ASSUME IInv, Next, Control', Loaded \/ \E c \in Cpu : \E p \in Dir : scheduler_switch(c, p)
    PROVE  Contents'
  <1>0. SameUser(mm, mm, Dirs)
    BY DEF SameUser
  <1>1. UNCHANGED <<mm, heap, module>> /\ Kernel(mm, Dirs, heap)
    BY DEF Loaded, scheduler_switch, IInv, Contents
  <1>2. loader' = "copy" => loader = "copy"
    BY DEF Loaded, scheduler_switch
  <1>3. ~CloneCopy
    BY DEF Loaded, scheduler_switch, CloneCopy, At
  <1>4. Dirs' = Dirs
    BY <1>3, DirsStep DEF IInv
  <1>5. loader' = "copy" \/ Dirs # {kpage_dir} => mm'.dir[kpage_dir]["windows"] # NoTable
    BY <1>1, <1>2 DEF IInv, Contents
  <1>6. \A p \in Proc :
          /\ p \in ready' \/ (p = proc' /\ loader' \in {"thread", "stack", "ready"}) =>
               /\ p \in ready \/ (p = proc /\ loader \in {"thread", "stack", "ready"})
               /\ module'[p] = module[p]
          /\ p \in ready' \/ (p = proc' /\ loader' = "ready") => p \in ready \/ (p = proc /\ loader = "ready")
    <2>1. CASE Loaded
      BY <2>1, <1>1 DEF Loaded
    <2>2. ASSUME NEW c \in Cpu, NEW q \in Dir, scheduler_switch(c, q)
          PROVE  UNCHANGED <<ready, proc, loader, module>>
      BY <2>2 DEF scheduler_switch
    <2> QED
      BY <2>1, <2>2
  <1> QED
    BY <1>0, <1>1, <1>4, <1>5, <1>6, Settled
-----------------------------------------------------------------------------
LEMMA Starts == Init => IInv
  <1> SUFFICES ASSUME Init PROVE IInv
    OBVIOUS
  <1> DEFINE dir0 == [d \in {kpage_dir} |-> [i \in Index |->
                        IF i \in {"low", "kernel"} THEN kpage_table ELSE NoTable]]
             self0 == [d \in {kpage_dir} |-> kpage_dir]
             image == [e \in Entry |-> <<"image", e>>]
             table0 == [t \in {kpage_table} |-> image]
  <1>1. Control
    BY Constants DEF Init, Control, Loading, Proc
  <1>2. Dirs = {kpage_dir} /\ heap = 0 /\ ready = {} /\ proc = 0 /\ loader = "cmdline"
    BY Constants DEF Init, Dirs, Cloned
  <1>3. mm = [dir |-> dir0, self |-> self0, table |-> table0, next |-> 1]
    BY DEF Init
  <1>4. mm.dir = dir0 /\ mm.self = self0 /\ mm.table = table0 /\ mm.next = 1
    BY <1>3
  <1>5. image \in [Entry -> Frame]
    BY Constants, FrameFacts
  <1>6. table0 \in [0..0 -> [Entry -> Frame]] /\ dir0 \in [{kpage_dir} -> [Index -> Int]]
    <2>1. kpage_table = 0 /\ 0..0 = {0} /\ NoTable \in Int /\ kpage_table \in Int
      BY Constants
    <2>2. dir0 \in [{kpage_dir} -> [Index -> Int]]
      BY <2>1
    <2> HIDE DEF image, dir0
    <2>3. table0 \in [0..0 -> [Entry -> Frame]]
      BY <2>1, <1>5
    <2> QED
      BY <2>2, <2>3
  <1>7. \A i \in Index : dir0[kpage_dir][i] = IF i \in {"low", "kernel"} THEN 0 ELSE -1
    BY Constants
  <1>i. \A e \in Entry : table0[0][e] = <<"image", e>>
    BY Constants
  <1>m. mm = [dir |-> mm.dir, self |-> mm.self, table |-> mm.table, next |-> mm.next]
    BY <1>3
  <1>s. self0 = [d \in {kpage_dir} |-> d]
    OBVIOUS
  <1> HIDE DEF dir0, table0, image, self0
  <1>8. Mem(mm, {kpage_dir})
    BY <1>4, <1>6, <1>7, <1>m, <1>s, Constants DEF Mem
  <1>9. Struct(mm, {kpage_dir})
    <2>1. \A i \in UserIndex : mm.dir[kpage_dir][i] = NoTable
      BY <1>4, <1>7, Indices, Constants
    <2>2. \A d, b \in {kpage_dir} : \A i, j \in Index :
            /\ Same(d, i, b, j) => mm.dir[d][i] = mm.dir[b][j]
            /\ mm.dir[d][i] = mm.dir[b][j] /\ mm.dir[d][i] # NoTable => Same(d, i, b, j)
      BY <1>4, <1>7, Constants DEF Same
    <2> QED
      BY <1>8, <2>1, <2>2 DEF Struct
  <1>10. Kernel(mm, {kpage_dir}, 0)
    <2>1. \A e \in Entry : Tr(mm, kpage_dir, "low", e) = <<"image", e>> /\ Tr(mm, kpage_dir, "heap", e) = None
      <3>1. "low" \in Index /\ "heap" \in Index
        BY Indices
      <3>2. mm.dir[kpage_dir]["low"] = 0 /\ mm.dir[kpage_dir]["heap"] = -1
        BY <3>1, <1>4, <1>7
      <3>3. \A e : Tr(mm, kpage_dir, "heap", e) = None
        BY <3>2, Constants DEF Tr
      <3>4. \A e : Tr(mm, kpage_dir, "low", e) = mm.table[0][e]
        BY <3>2, Constants DEF Tr
      <3> QED
        BY <3>3, <3>4, <1>4, <1>i
    <2>2. \A e \in Entry : ~(e < 0)
      BY Constants
    <2> QED
      BY <1>9, <2>1, <2>2 DEF Kernel
  <1>11. Contents
    BY <1>2, <1>10, Constants DEF Contents, Proc
  <1> QED
    BY <1>1, <1>11 DEF IInv

LEMMA Inductive == IInv /\ [Next]_vars => IInv'
  <1> SUFFICES ASSUME IInv, [Next]_vars PROVE IInv'
    OBVIOUS
  <1>1. CASE UNCHANGED vars
    BY <1>1 DEF vars, IInv, Control, Contents, Dirs, Cloned
  <1>2. CASE Next
    <2>1. \A c \in Cpu : kmalloc(c) => heap' \in 0..HEAP /\ heap' > 0
      BY Grows
    <2>2. Control'
      BY <1>2, <2>1, ControlStep DEF IInv
    <2>3. CASE proc_create_kernel_proc \/ NewProcess \/ NewThread \/ \E c \in Cpu : Allocate(c)
      BY <1>2, <2>2, <2>3, HeapSteps DEF IInv
    <2>4. CASE mboot_parse_cmdline \/ cpu_wake_all \/ CloneOpen \/ CloneClose
      BY <1>2, <2>2, <2>4, KernelSteps DEF IInv
    <2>5. CASE CloneCopy
      BY <1>2, <2>2, <2>5, CopyStep DEF IInv
    <2>6. CASE Sections
      BY <1>2, <2>2, <2>6, SectionsStep DEF IInv
    <2>7. CASE Stack
      BY <1>2, <2>2, <2>7, StackStep DEF IInv
    <2>8. CASE \E c \in Cpu : SysMmap(c)
      BY <1>2, <2>2, <2>8, MmapStep DEF IInv
    <2>9. CASE Loaded \/ \E c \in Cpu : \E p \in Dir : scheduler_switch(c, p)
      BY <1>2, <2>2, <2>9, QuietSteps DEF IInv
    <2> QED
      BY <1>2, <2>3, <2>4, <2>5, <2>6, <2>7, <2>8, <2>9 DEF Next, Load
  <1> QED
    BY <1>1, <1>2

LEMMA Invariant == Spec => []IInv
  BY Starts, Inductive, PTL DEF Spec

LEMMA ImpliesKernelEverywhere ==
    ASSUME IInv
    PROVE  KernelEverywhere
  <1>0. /\ Kernel(mm, Dirs, heap) /\ Struct(mm, Dirs) /\ kpage_dir \in Dirs /\ heap \in 0..HEAP
        /\ heap \in Nat /\ {"low", "kernel", "heap"} \subseteq Index /\ HEAP \in Nat
    BY Facts, Indices, Constants DEF IInv, Contents, Control, Kernel
  <1> SUFFICES ASSUME NEW c \in Cpu
               PROVE  /\ \A e \in 0..(heap - 1) : Translate(cr3[c], "heap", e) = <<"heap", e>>
                      /\ \A e \in Entry \ Lost : /\ Translate(cr3[c], "low", e) = <<"image", e>>
                                                 /\ Translate(cr3[c], "kernel", e) = <<"image", e>>
    BY DEF KernelEverywhere
  <1> DEFINE d == cr3[c]
  <1>1. d \in Dirs
    BY Facts DEF IInv
  <1>2. \A i, e : Translate(d, i, e) = Tr(mm, d, i, e)
    BY DEF Translate, Tr
  <1> HIDE DEF d
  <1>3. /\ Same(d, "heap", kpage_dir, "heap") /\ Same(d, "low", kpage_dir, "low")
        /\ Same(d, "kernel", kpage_dir, "low")
    BY Indices DEF Same
  <1>4. \A e : /\ Tr(mm, d, "heap", e) = Tr(mm, kpage_dir, "heap", e)
               /\ Tr(mm, d, "low", e) = Tr(mm, kpage_dir, "low", e)
               /\ Tr(mm, d, "kernel", e) = Tr(mm, kpage_dir, "low", e)
    BY <1>0, <1>1, <1>3, SameTr
  <1>5. \A e \in 0..(heap - 1) : Tr(mm, kpage_dir, "heap", e) = <<"heap", e>>
    <2> SUFFICES ASSUME NEW e \in 0..(heap - 1) PROVE Tr(mm, kpage_dir, "heap", e) = <<"heap", e>>
      OBVIOUS
    <2>1. e \in Nat /\ e < heap /\ e < HEAP
      BY <1>0
    <2>2. e \in Entry
      BY <2>1, Constants
    <2> QED
      BY <1>0, <2>1, <2>2, HeapPage
  <1>6. \A e \in Entry \ Lost : Tr(mm, kpage_dir, "low", e) = <<"image", e>>
    BY <1>0 DEF Kernel
  <1>7. /\ \A e \in 0..(heap - 1) : Translate(d, "heap", e) = <<"heap", e>>
        /\ \A e \in Entry \ Lost : /\ Translate(d, "low", e) = <<"image", e>>
                                   /\ Translate(d, "kernel", e) = <<"image", e>>
    BY <1>2, <1>4, <1>5, <1>6
  <1> QED
    BY <1>7 DEF d

LEMMA ImpliesOwnMemory ==
    ASSUME IInv
    PROVE  OwnMemory
  <1>0. /\ Kernel(mm, Dirs, heap) /\ Struct(mm, Dirs) /\ Mem(mm, Dirs) /\ kpage_dir \in Dirs
        /\ Dirs \subseteq Dir /\ DOMAIN mm.dir = Dirs /\ DOMAIN mm.self = Dirs
        /\ DOMAIN mm.table = 0..(mm.next - 1)
    BY Facts DEF IInv, Contents, Control, Kernel, Struct, Mem
  <1>1. TypeOK
    <2>1. heap \in 0..HEAP /\ proc \in 0..NPROC /\ ready \subseteq Proc
      BY Facts DEF IInv, Control, Dir
    <2>2. \A d \in DOMAIN mm.dir : \A i \in Index : mm.dir[d][i] \in DOMAIN mm.table \cup {NoTable}
      BY <1>0 DEF Mem
    <2>3. cr3 \in [Cpu -> DOMAIN mm.dir] /\ running \in [Cpu -> ready \cup {kpage_dir}]
      BY <1>0, Facts DEF IInv, Control
    <2> QED
      BY <1>0, <2>1, <2>2, <2>3 DEF TypeOK
  <1>2. FindsOwn
    <2> SUFFICES ASSUME NEW c \in Cpu, NEW p \in Proc, running[c] = p
                 PROVE  /\ \A i \in 1..Len(module[p]) :
                             Translate(cr3[c], "program", module[p][i].page) = <<"file", p, module[p][i].file>>
                        /\ Translate(cr3[c], "stack", 0) = <<"stack", p>>
      BY DEF FindsOwn
    <2>1. p # kpage_dir
      BY Constants DEF Proc
    <2>2. p \in ready /\ cr3[c] = p
      <3>1. c # Boot \/ loader = "done"
        BY <2>1 DEF IInv, Control
      <3> QED
        BY <2>1, <3>1 DEF IInv, Control
    <2>3. HasProgram(mm, p, module[p]) /\ HasStack(mm, p)
      BY <2>2 DEF IInv, Contents
    <2>4. \A i, e : Translate(cr3[c], i, e) = Tr(mm, p, i, e)
      BY <2>2 DEF Translate, Tr
    <2> QED
      BY <2>3, <2>4 DEF HasProgram, HasStack
  <1>3. UserTablesPrivate
    <2> SUFFICES ASSUME NEW d \in Dirs, NEW b \in Dirs, NEW i \in UserIndex, NEW j \in UserIndex
                 PROVE  /\ mm.dir[kpage_dir][i] = NoTable
                        /\ mm.dir[d][i] # NoTable /\ <<d, i>> # <<b, j>> => mm.dir[d][i] # mm.dir[b][j]
      BY <1>0 DEF UserTablesPrivate
    <2>1. mm.dir[kpage_dir][i] = NoTable
      BY <1>0 DEF Struct
    <2>2. Same(d, i, b, j) => d = b /\ i = j
      BY Indices DEF Same
    <2>3. mm.dir[d][i] = mm.dir[b][j] /\ mm.dir[d][i] # NoTable => Same(d, i, b, j)
      BY <1>0 DEF Struct, Index
    <2> QED
      BY <2>1, <2>2, <2>3
  <1> QED
    BY <1>1, <1>2, <1>3 DEF OwnMemory

\* Whichever directory kbrk finds in use when the heap grows, every CPU reaches
\* all of the kernel's heap, its image and the first megabytes through the
\* directory it uses, except for pages 1 and 0x70, for any number of processes,
\* CPUs and programs and any heap that fits into one page table: page_dir_clone
\* copies a directory that has the page tables of all of them.
THEOREM KernelIsEverywhere == Spec => []KernelEverywhere
  BY Invariant, ImpliesKernelEverywhere, PTL

\* Every process that runs finds the sections that elf_load read and the stack
\* that thread_create mapped, through page tables that no other directory has:
\* proc_create, thread_create and SYSCALL_MMAP map into the directory in use,
\* which is the process's own whenever they do.
THEOREM MemoryIsOwn == Spec => []OwnMemory
  BY Invariant, ImpliesOwnMemory, PTL
=============================================================================
