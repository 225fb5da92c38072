--------------------------- MODULE PhysAllocProofs ---------------------------
(***************************************************************************)
(* Proofs about module PhysAlloc, for every number of CPUs and pages and   *)
(* every boot information: type correctness, mutual exclusion of the       *)
(* locked section, no page handed out twice, failure only when empty.      *)
(***************************************************************************)
EXTENDS PhysAlloc, SequenceTheorems, TLAPS

\* Page numbers and (word, bit) pairs correspond one to one.
LEMMA DivMod ==
    ASSUME NEW n \in Nat \ {0}, NEW w \in Nat, NEW b \in 0..(n - 1)
    PROVE  (n * w + b) % n = b /\ (n * w + b) \div n = w
  BY Z3

\* A page number is made of a word number and a bit number.
LEMMA Split ==
    ASSUME NEW n \in Nat \ {0}, NEW p \in Nat
    PROVE  p = n * (p \div n) + (p % n) /\ p % n \in 0..(n - 1) /\ p \div n \in Nat
  BY Z3

\* A word and a bit of the map give a page that is in the map.
LEMMA Below ==
    ASSUME NEW n \in Nat \ {0}, NEW m \in Nat \ {0}, NEW w \in 0..(m - 1), NEW b \in 0..(n - 1)
    PROVE  n * w + b \in 0..(n * m - 1)
  <1>1. n * w <= n * (m - 1)
    BY Z3
  <1>2. n * (m - 1) = n * m - n /\ n * w \in Nat /\ n * m \in Nat
    BY Z3
  <1> QED
    BY <1>1, <1>2

\* The page that mem_phys_alloc computes from word and bit lies in the map, and
\* its word and bit are those.
LEMMA PageOfFacts ==
    ASSUME NEW w \in 0..(ENTRIES - 1), NEW b \in Bit
    PROVE  /\ PageOf(w, b) \in Page
           /\ PageOf(w, b) % BITS = b
           /\ PageOf(w, b) \div BITS = w
  BY PhysAllocAssumption, DivMod, Below DEF PageOf, Page, PAGES, Bit

\* Every page is the one that belongs to its word and bit.
LEMMA PageSplit ==
    ASSUME NEW p \in Page
    PROVE  /\ p = PageOf(p \div BITS, p % BITS)
           /\ p % BITS \in Bit
  BY PhysAllocAssumption, Split DEF PageOf, Page, PAGES, Bit

\* A page's word is one of the words in front of the guard.
LEMMA WordOfPage ==
    ASSUME NEW p \in Page
    PROVE  p \div BITS \in 0..(ENTRIES - 1) /\ p \div BITS \in Word
  <1>1. BITS \in Nat \ {0} /\ ENTRIES \in Nat \ {0} /\ p \in Nat /\ p < BITS * ENTRIES
    BY PhysAllocAssumption, Z3 DEF Page, PAGES
  <1> DEFINE q == p \div BITS
             r == p % BITS
  <1>0. p = BITS * q + r /\ r \in 0..(BITS - 1) /\ q \in Nat
    BY <1>1, Split
  <1>2. q \in Nat /\ BITS * q <= p
    <2> HIDE DEF q, r
    <2> QED
      BY <1>0, <1>1, Z3
  <1>3. q < ENTRIES
    <2> HIDE DEF q
    <2> QED
      BY <1>1, <1>2, Z3
  <1> QED
    BY <1>1, <1>2, <1>3 DEF Word

\* An address that wraps around at the end of memory lies in one of its pages.
LEMMA WrappedBelow ==
    ASSUME NEW n \in Nat \ {0}, NEW m \in Nat \ {0}, NEW a \in Int
    PROVE  (a % (n * m)) \div n \in 0..(m - 1)
  <1> DEFINE x == n * m
  <1>1. x \in Nat \ {0}
    BY Z3
  <1>2. a % x \in 0..(x - 1)
    <2> HIDE DEF x
    <2> QED
      BY <1>1
  <1> DEFINE y == a % x
             q == y \div n
  <1>3. y \in Nat /\ y < n * m
    BY <1>2
  <1>4. q \in Nat /\ n * q <= y
    <2> HIDE DEF y
    <2> QED
      BY <1>3, Split, Z3
  <1>5. n * q < n * m
    <2> HIDE DEF y, q
    <2> QED
      BY <1>3, <1>4, Z3
  <1>6. q < m
    <2> HIDE DEF q
    <2> QED
      BY <1>4, <1>5, Z3
  <1> QED
    BY <1>4, <1>6

\* The address ranges wrap around at the end of memory and stay in the map.
LEMMA RangeInPages ==
    ASSUME NEW x, x.addr \in Int, x.pages \in Int
    PROVE  PageSet(x) \subseteq Page
  <1>1. ASSUME NEW k \in 0..(x.pages - 1)
        PROVE  ((x.addr + PAGE_SIZE * k) % MEMORY) \div PAGE_SIZE \in Page
    <2>1. PAGES \in Nat \ {0} /\ PAGE_SIZE \in Nat \ {0}
      BY PhysAllocAssumption, Z3 DEF PAGES
    <2>2. x.addr + PAGE_SIZE * k \in Int
      BY <2>1
    <2> QED
      BY <2>1, <2>2, WrappedBelow DEF MEMORY, Page
  <1> QED
    BY <1>1 DEF PageSet

\* A 32-bit address lies in a page of the map.
LEMMA AddressInPages ==
    ASSUME NEW a \in 0..(MEMORY - 1)
    PROVE  a \div PAGE_SIZE \in Page
  <1>1. PAGES \in Nat \ {0} /\ PAGE_SIZE \in Nat \ {0} /\ MEMORY \in Nat \ {0}
    BY PhysAllocAssumption, Z3 DEF PAGES, MEMORY
  <1>2. a % MEMORY = a
    BY <1>1, Z3
  <1>3. (a % MEMORY) \div PAGE_SIZE \in 0..(PAGES - 1)
    BY <1>1, WrappedBelow DEF MEMORY
  <1> QED
    BY <1>2, <1>3 DEF Page

\* page_align and page_count are defined for the arguments they get.
LEMMA AlignInt ==
    ASSUME NEW a \in Int
    PROVE  /\ page_align(a) \in Int /\ page_align(a % MEMORY) \in Int
           /\ (a % MEMORY) \div PAGE_SIZE \in Int
           /\ page_count(a % MEMORY) \in Int
  <1>1. PAGES \in Nat \ {0} /\ PAGE_SIZE \in Nat \ {0}
    BY PhysAllocAssumption, Z3 DEF PAGES
  <1>2. MEMORY \in Nat \ {0}
    BY <1>1, Z3 DEF MEMORY
  <1>3. a % MEMORY \in Int
    BY <1>2
  <1>4. \A x \in Int : x \div PAGE_SIZE \in Int
    BY <1>1
  <1>5. \A x \in Int : page_align(x) \in Int /\ page_count(x) \in Int
    BY <1>1, <1>4 DEF page_align, page_count
  <1> QED
    BY <1>3, <1>4, <1>5

\* What mem_init frees for a memory region are pages of the map.
LEMMA RegionRange ==
    ASSUME NEW r \in [base : Nat, length : Nat, type : Nat]
    PROVE  PageSet(region_pages(r)) \subseteq Page
  <1> DEFINE addr == page_align((r.base + PAGE_SIZE - 1) % MEMORY)
             end == page_align((r.base + r.length) % MEMORY)
  <1>1. PAGE_SIZE \in Nat
    BY PhysAllocAssumption
  <1>2. addr \in Int /\ end \in Int
    BY <1>1, AlignInt
  <1>3. ((end - addr) % MEMORY) \div PAGE_SIZE \in Int
    <2> HIDE DEF addr, end
    <2> QED
      BY <1>2, AlignInt
  <1>4. region_pages(r).addr = addr
        /\ region_pages(r).pages = ((end - addr) % MEMORY) \div PAGE_SIZE
    BY DEF region_pages
  <1> QED
    BY <1>2, <1>3, <1>4, RangeInPages

\* What mboot_parse reserves for a module are pages of the map.
LEMMA ModuleRange ==
    ASSUME NEW m \in [start : Nat, end : Nat, at : 0..(MEMORY - 1)]
    PROVE  PageSet(module_pages(m)) \subseteq Page
  <1>1. page_align(m.start) \in Int
    BY AlignInt
  <1>2. page_count((m.end - page_align(m.start)) % MEMORY) \in Int
    BY <1>1, AlignInt
  <1>3. module_pages(m).addr = page_align(m.start)
        /\ module_pages(m).pages = page_count((m.end - page_align(m.start)) % MEMORY)
    BY DEF module_pages
  <1> QED
    BY <1>1, <1>2, <1>3, RangeInPages
-----------------------------------------------------------------------------
InSection(c) == pc[c] \in {"scan", "reserve", "leave"}

\* Only one CPU is in the locked section, and the lock is taken then.
Mutex ==
    /\ \A c, d \in Cpu : InSection(c) /\ InSection(d) => c = d
    /\ \A c \in Cpu : InSection(c) => lock = 1

\* Nobody allocates before the map is complete.
BootFirst == boot # "up" => \A c \in Cpu : pc[c] = "idle" /\ got[c] = {}

\* What the scan found is still free when it is reserved.
ScanValid == \A c \in Cpu : pc[c] = "reserve" => bit[c] \in memory_map[word[c]]

EarlyTaken ==
    /\ early \cap FreePages = {}
    /\ boot \in {"regions", "apics"} => early = {}

IInv == /\ TypeOK /\ Mutex /\ BootFirst /\ ScanValid /\ EarlyTaken
        /\ GrantedOnce /\ FailsOnlyWhenEmpty

\* The invariant holds after mem_phys_init, when all pages are reserved.
LEMMA InitIInv == Init => IInv
  BY PhysAllocAssumption
  DEF Init, IInv, TypeOK, Mutex, InSection, BootFirst, ScanValid, EarlyTaken, GrantedOnce,
      FailsOnlyWhenEmpty, Granted, InHand, Word, Bit, Page

\* Booting changes the map and nothing the CPUs hold, since they hold nothing.
LEMMA BootIInv == IInv /\ Boot => IInv'
  <1> SUFFICES ASSUME IInv, Boot PROVE IInv'
    OBVIOUS
  <1>1. /\ UNCHANGED <<lock, info, pc, word, bit, got>>
        /\ boot # "up"
    BY DEF Boot, BootRegion, BootFixed, BootApics, BootSelf, BootModule, BootDone, cpuvars, IInv, TypeOK
  <1>2. \A c \in Cpu : pc[c] = "idle" /\ got[c] = {}
    BY <1>1 DEF IInv, BootFirst
  <1>3. ASSUME NEW m \in [Word -> SUBSET Bit], m[ENTRIES] = Bit, NEW S
        PROVE  /\ mem_phys_free_range(m, S) \in [Word -> SUBSET Bit]
               /\ mem_phys_free_range(m, S)[ENTRIES] = Bit
    BY <1>3, PhysAllocAssumption DEF mem_phys_free_range, Word
  <1>4. ASSUME NEW m \in [Word -> SUBSET Bit], m[ENTRIES] = Bit, NEW S \in SUBSET Page
        PROVE  /\ mem_phys_reserve_range(m, S) \in [Word -> SUBSET Bit]
               /\ mem_phys_reserve_range(m, S)[ENTRIES] = Bit
    <2>1. \A b \in Bit : PageOf(ENTRIES, b) \notin S
      BY PhysAllocAssumption, Z3 DEF PageOf, Page, PAGES, Bit
    <2> QED
      BY <1>4, <2>1, PhysAllocAssumption DEF mem_phys_reserve_range, Word
  <1>5. ASSUME NEW S \in SUBSET Page, memory_map' = mem_phys_reserve_range(memory_map, S)
        PROVE  FreePages' = FreePages \ S
    <2>1. \A p \in Page : (p % BITS) \in memory_map'[p \div BITS]
                            <=> (p % BITS) \in memory_map[p \div BITS] /\ p \notin S
      <3> TAKE p \in Page
      <3>1. p = PageOf(p \div BITS, p % BITS) /\ p \div BITS \in Word
        BY PageSplit, WordOfPage
      <3> QED
        BY <1>5, <3>1 DEF mem_phys_reserve_range
    <2> QED
      BY <2>1 DEF FreePages
  <1>6. /\ memory_map \in [Word -> SUBSET Bit] /\ memory_map[ENTRIES] = Bit
        /\ info \in BootInfos /\ BootInfoOK(info)
        /\ early \subseteq Page /\ step \in Nat \ {0}
    BY PhysAllocAssumption DEF IInv, TypeOK
  <1> DEFINE Kept == /\ memory_map' \in [Word -> SUBSET Bit] /\ memory_map'[ENTRIES] = Bit
                     /\ boot' \in {"regions", "apics", "self", "modules", "up"}
                     /\ step' \in Nat \ {0} /\ early' \subseteq Page
                     /\ EarlyTaken'
  <1>7. ASSUME BootRegion PROVE Kept
    <2>1. early = {}
      BY <1>7 DEF BootRegion, IInv, EarlyTaken
    <2> QED
      BY <1>3, <1>6, <1>7, <2>1 DEF BootRegion, EarlyTaken
  <1>8. ASSUME BootFixed PROVE Kept
    <2>1. FixedPages \in SUBSET Page
      BY PhysAllocAssumption
    <2>2. early = {}
      BY <1>8 DEF BootFixed, IInv, EarlyTaken
    <2> QED
      BY <1>4, <1>6, <1>8, <2>1, <2>2 DEF BootFixed, EarlyTaken
  <1>9. ASSUME BootApics PROVE Kept
    <2>1. PICK p \in FreePages : /\ memory_map' = mem_phys_reserve_range(memory_map, {p})
                                 /\ early' = early \cup {p}
      BY <1>9 DEF BootApics
    <2>2. {p} \in SUBSET Page
      BY DEF FreePages
    <2>3. FreePages' = FreePages \ {p}
      BY <1>5, <2>1, <2>2
    <2>4. early = {}
      BY <1>9 DEF BootApics, IInv, EarlyTaken
    <2>5. boot' = "self" /\ step' = step
      BY <1>9 DEF BootApics
    <2>6. memory_map' \in [Word -> SUBSET Bit] /\ memory_map'[ENTRIES] = Bit
      BY <1>4, <1>6, <2>1, <2>2
    <2> QED
      BY <1>6, <2>1, <2>2, <2>3, <2>4, <2>5, <2>6 DEF EarlyTaken
  <1>10. ASSUME BootSelf PROVE Kept
    <2>1. {info.self \div PAGE_SIZE} \in SUBSET Page
      BY <1>6, AddressInPages DEF BootInfoOK
    <2>2. FreePages' = FreePages \ {info.self \div PAGE_SIZE}
      BY <1>5, <1>10, <2>1 DEF BootSelf
    <2> QED
      BY <1>4, <1>6, <1>10, <2>1, <2>2 DEF BootSelf, EarlyTaken, IInv
  <1>11. ASSUME BootModule PROVE Kept
    <2> DEFINE m == info.modules[step]
               S == PageSet(module_pages(m)) \cup {m.at \div PAGE_SIZE}
    <2>1. m \in [start : Nat, end : Nat, at : 0..(MEMORY - 1)]
      <3>1. step \in 1..Len(info.modules)
        BY <1>6, <1>11 DEF BootModule, BootInfoOK
      <3>2. info.modules \in Seq([start : Nat, end : Nat, at : 0..(MEMORY - 1)])
        BY <1>6 DEF BootInfoOK
      <3> QED
        BY <3>1, <3>2, ElementOfSeq
    <2>2. S \in SUBSET Page
      <3> HIDE DEF m
      <3>1. m.at \in 0..(MEMORY - 1)
        BY <2>1
      <3> QED
        BY <2>1, <3>1, ModuleRange, AddressInPages
    <2>3. memory_map' = mem_phys_reserve_range(memory_map, S) /\ UNCHANGED <<boot, early>>
          /\ step' = step + 1 /\ boot = "modules"
      BY <1>11 DEF BootModule
    <2> HIDE DEF S
    <2>4. FreePages' = FreePages \ S
      BY <1>5, <2>2, <2>3
    <2> QED
      BY <1>4, <1>6, <2>2, <2>3, <2>4 DEF EarlyTaken, IInv
  <1>12. ASSUME BootDone PROVE Kept
    BY <1>6, <1>12 DEF BootDone, EarlyTaken, FreePages, IInv
  <1>13. Kept
    BY <1>7, <1>8, <1>9, <1>10, <1>11, <1>12 DEF Boot
  <1>14. TypeOK'
    BY <1>1, <1>13 DEF IInv, TypeOK
  <1>15. Mutex' /\ BootFirst' /\ ScanValid'
    BY <1>1, <1>2, <1>13 DEF Mutex, InSection, BootFirst, ScanValid
  <1>16. GrantedOnce' /\ FailsOnlyWhenEmpty'
    BY <1>1, <1>2 DEF GrantedOnce, FailsOnlyWhenEmpty, Granted, InHand
  <1> QED
    BY <1>13, <1>14, <1>15, <1>16 DEF IInv

\* One step of one CPU in mem_phys_alloc keeps the invariant.
LEMMA CpuIInv ==
    ASSUME IInv, NEW c \in Cpu, StartAlloc(c) \/ Enter(c) \/ Locked(c)
    PROVE  IInv'
  <1>0. /\ memory_map \in [Word -> SUBSET Bit] /\ memory_map[ENTRIES] = Bit
        /\ pc \in [Cpu -> {"idle", "enter", "scan", "reserve", "leave"}]
        /\ word \in [Cpu -> 0..(ENTRIES - 1)] /\ bit \in [Cpu -> Bit]
        /\ got \in [Cpu -> SUBSET (Page \cup {DEADC0DE})]
        /\ ENTRIES \in Nat \ {0} /\ DEADC0DE \notin Page
    BY PhysAllocAssumption DEF IInv, TypeOK
  <1> USE DEF bootvars
  <1>1. CASE StartAlloc(c)
    <2>1. FreePages' = FreePages
      BY <1>1 DEF StartAlloc, FreePages
    <2>2. \A d \in Cpu : Granted(d)' = Granted(d) /\ InHand(d)' = InHand(d)
      BY <1>0, <1>1 DEF StartAlloc, Granted, InHand
    <2>3. TypeOK' /\ Mutex' /\ BootFirst' /\ ScanValid' /\ EarlyTaken'
      BY <1>0, <1>1, <2>1
      DEF StartAlloc, IInv, TypeOK, Mutex, InSection, BootFirst, ScanValid, EarlyTaken
    <2>4. GrantedOnce' /\ FailsOnlyWhenEmpty'
      BY <1>1, <2>1, <2>2 DEF StartAlloc, IInv, GrantedOnce, FailsOnlyWhenEmpty
    <2> QED
      BY <2>3, <2>4 DEF IInv
  <1>2. CASE Enter(c)
    <2>1. FreePages' = FreePages
      BY <1>2 DEF Enter, FreePages
    <2>2. \A d \in Cpu : Granted(d)' = Granted(d) /\ InHand(d)' = InHand(d)
      BY <1>0, <1>2 DEF Enter, Granted, InHand
    <2>3. TypeOK' /\ Mutex' /\ BootFirst' /\ ScanValid' /\ EarlyTaken'
      BY <1>0, <1>2, <2>1
      DEF Enter, IInv, TypeOK, Mutex, InSection, BootFirst, ScanValid, EarlyTaken
    <2>4. GrantedOnce' /\ FailsOnlyWhenEmpty'
      BY <1>2, <2>1, <2>2 DEF Enter, IInv, GrantedOnce, FailsOnlyWhenEmpty
    <2> QED
      BY <2>3, <2>4 DEF IInv
  <1>3. CASE Exhausted(c)
    <2>1. FreePages' = FreePages /\ FreePages = {}
      <3>1. \A w \in 0..(ENTRIES - 1) : memory_map[w] = {}
        BY <1>3 DEF Exhausted, FirstWord
      <3> QED
        BY <1>3, <3>1, WordOfPage DEF Exhausted, FreePages
    <2>2. \A d \in Cpu : Granted(d)' = Granted(d) /\ InHand(d)' = InHand(d)
      BY <1>0, <1>3 DEF Exhausted, Granted, InHand
    <2>3. TypeOK' /\ Mutex' /\ BootFirst' /\ ScanValid' /\ EarlyTaken'
      BY <1>0, <1>3, <2>1
      DEF Exhausted, IInv, TypeOK, Mutex, InSection, BootFirst, ScanValid, EarlyTaken
    <2>4. \A d \in Cpu : InHand(d)' \cap got'[d] = {}
      <3>1. ASSUME NEW d \in Cpu PROVE InHand(d) \cap {DEADC0DE} = {}
        BY <1>0, PageOfFacts DEF InHand
      <3> QED
        BY <1>0, <1>3, <2>2, <3>1 DEF Exhausted, IInv, GrantedOnce
    <2>5. GrantedOnce' /\ FailsOnlyWhenEmpty'
      BY <1>3, <2>1, <2>2, <2>4 DEF Exhausted, IInv, GrantedOnce, FailsOnlyWhenEmpty
    <2> QED
      BY <2>3, <2>5 DEF IInv
  <1>4. CASE Scan(c)
    <2>1. FreePages' = FreePages
      BY <1>4 DEF Scan, FreePages
    <2>2. PICK w \in 0..(ENTRIES - 1) : \E b \in memory_map[w] :
            word' = [word EXCEPT ![c] = w] /\ bit' = [bit EXCEPT ![c] = b]
      BY <1>4 DEF Scan
    <2>. PICK b \in memory_map[w] :
            word' = [word EXCEPT ![c] = w] /\ bit' = [bit EXCEPT ![c] = b]
      BY <2>2
    <2>3. b \in Bit /\ w \in Word
      BY <1>0 DEF Word
    <2>4. \A d \in Cpu : Granted(d)' = Granted(d) /\ InHand(d)' = InHand(d)
      BY <1>0, <1>4, <2>2 DEF Scan, Granted, InHand
    <2>5. TypeOK' /\ Mutex' /\ BootFirst' /\ ScanValid' /\ EarlyTaken'
      BY <1>0, <1>4, <2>1, <2>2, <2>3
      DEF Scan, IInv, TypeOK, Mutex, InSection, BootFirst, ScanValid, EarlyTaken
    <2>6. GrantedOnce' /\ FailsOnlyWhenEmpty'
      BY <1>4, <2>1, <2>4 DEF Scan, IInv, GrantedOnce, FailsOnlyWhenEmpty
    <2> QED
      BY <2>5, <2>6 DEF IInv
  <1>5. CASE Reserve(c)
    <2> DEFINE page == PageOf(word[c], bit[c])
    <2>1. /\ bit[c] \in memory_map[word[c]] /\ word[c] \in Word
          /\ memory_map' = [memory_map EXCEPT ![word[c]] = @ \ {bit[c]}]
          /\ word[c] # ENTRIES
      BY <1>0, <1>5 DEF Reserve, IInv, ScanValid, Word
    <2>2. page \in Page /\ page % BITS = bit[c] /\ page \div BITS = word[c]
      BY <1>0, PageOfFacts
    <2>3. FreePages' = FreePages \ {page} /\ page \in FreePages
      <3>1. page \in FreePages
        BY <2>1, <2>2 DEF FreePages
      <3>2. ASSUME NEW p \in Page
            PROVE  (p % BITS) \in memory_map'[p \div BITS]
                     <=> (p % BITS) \in memory_map[p \div BITS] /\ p # page
        <4>1. p = PageOf(p \div BITS, p % BITS) /\ p \div BITS \in Word
          BY PageSplit, WordOfPage
        <4> QED
          BY <1>0, <2>1, <2>2, <4>1
      <3> HIDE DEF page
      <3> QED
        BY <3>1, <3>2 DEF FreePages
    <2>4. \A d \in Cpu : d # c => Granted(d)' = Granted(d) /\ InHand(d)' = InHand(d)
      BY <1>0, <1>5 DEF Reserve, Granted, InHand
    <2>5. InHand(c)' = {page} /\ InHand(c) = {} /\ UNCHANGED <<got, early, boot>>
      BY <1>0, <1>5 DEF Reserve, InHand
    <2> HIDE DEF page
    <2>6. Granted(c)' = Granted(c) \cup {page}
      BY <1>0, <2>2, <2>5 DEF Granted
    <2>7. TypeOK' /\ Mutex' /\ BootFirst'
      BY <1>0, <1>5, <2>1 DEF Reserve, IInv, TypeOK, Mutex, InSection, BootFirst
    <2>8. ScanValid'
      BY <1>0, <1>5 DEF Reserve, IInv, ScanValid, Mutex, InSection
    <2>9. EarlyTaken' /\ FailsOnlyWhenEmpty'
      BY <2>3, <2>5 DEF IInv, EarlyTaken, FailsOnlyWhenEmpty
    <2>10. page \notin early /\ page \notin got[c] /\ \A d \in Cpu : page \notin Granted(d)
      BY <1>0, <2>2, <2>3 DEF IInv, EarlyTaken, GrantedOnce, Granted
    <2>11. GrantedOnce'
      BY <2>3, <2>4, <2>5, <2>6, <2>10 DEF IInv, GrantedOnce
    <2> QED
      BY <2>7, <2>8, <2>9, <2>11 DEF IInv
  <1>6. CASE Leave(c)
    <2> DEFINE page == PageOf(word[c], bit[c])
    <2>1. FreePages' = FreePages
      BY <1>6 DEF Leave, FreePages
    <2>2. page \in Page
      BY <1>0, PageOfFacts
    <2>3. InHand(c) = {page} /\ InHand(c)' = {} /\ got'[c] = got[c] \cup {page}
      BY <1>0, <1>6 DEF Leave, InHand
    <2>4. \A d \in Cpu : d # c => got'[d] = got[d] /\ InHand(d)' = InHand(d)
      BY <1>0, <1>6 DEF Leave, InHand
    <2> HIDE DEF page
    <2>5. \A d \in Cpu : Granted(d)' = Granted(d)
      BY <2>3, <2>4 DEF Granted
    <2>6. TypeOK' /\ Mutex' /\ BootFirst' /\ ScanValid' /\ EarlyTaken'
      BY <1>0, <1>6, <2>1, <2>2
      DEF Leave, IInv, TypeOK, Mutex, InSection, BootFirst, ScanValid, EarlyTaken, page
    <2>7. GrantedOnce'
      BY <1>6, <2>1, <2>3, <2>4, <2>5 DEF Leave, IInv, GrantedOnce
    <2>8. FailsOnlyWhenEmpty'
      BY <1>0, <2>1, <2>2, <2>3, <2>4 DEF IInv, FailsOnlyWhenEmpty
    <2> QED
      BY <2>6, <2>7, <2>8 DEF IInv
  <1> QED
    BY <1>1, <1>2, <1>3, <1>4, <1>5, <1>6 DEF Locked

\* Every step of booting and of the CPUs keeps the invariant.
LEMMA StepIInv == IInv /\ [Next]_vars => IInv'
  <1> SUFFICES ASSUME IInv, [Next]_vars PROVE IInv'
    OBVIOUS
  <1>1. CASE Boot
    BY <1>1, BootIInv
  <1>2. ASSUME NEW c \in Cpu, StartAlloc(c) \/ Enter(c) \/ Locked(c) PROVE IInv'
    BY <1>2, CpuIInv
  <1>3. CASE UNCHANGED vars
    BY <1>3
    DEF vars, bootvars, cpuvars, IInv, TypeOK, Mutex, InSection, BootFirst, ScanValid,
        EarlyTaken, GrantedOnce, FailsOnlyWhenEmpty, Granted, InHand, FreePages
  <1> QED
    BY <1>1, <1>2, <1>3 DEF Next

\* mem_phys_alloc never hands out a page twice, however many CPUs call it, and
\* the guard word that ends its scan is never cleared.
THEOREM NoPageTwice == Spec => []PagesSound
  <1>1. IInv => PagesSound
    BY DEF IInv, PagesSound
  <1> QED
    BY <1>1, InitIInv, StepIInv, PTL DEF Spec

\* mem_phys_alloc returns 0xDEADC0DE only when no page is left.
THEOREM FailureMeansEmpty == Spec => []FailsOnlyWhenEmpty
  <1>1. IInv => FailsOnlyWhenEmpty
    BY DEF IInv
  <1> QED
    BY <1>1, InitIInv, StepIInv, PTL DEF Spec
-----------------------------------------------------------------------------
(* What the page arithmetic of the boot computes                           *)

\* Multiplication is monotone.
LEMMA Times ==
    ASSUME NEW n \in Nat \ {0}, NEW a \in Int, NEW b \in Int
    PROVE  /\ n * a \in Int /\ n * (b + 1) = n * b + n /\ n * (a + b) = n * a + n * b
           /\ a <= b <=> n * a <= n * b
           /\ a < b <=> n * a < n * b
  <1>1. n * a \in Int /\ n * (b + 1) = n * b + n /\ n * (a + b) = n * a + n * b
    BY Z3
  <1>2. a <= b => n * a <= n * b
    BY Z3
  <1>3. a < b => n * a < n * b
    BY Z3
  <1>4. n * b \in Int
    BY Z3
  <1> QED
    BY <1>1, <1>2, <1>3, <1>4

\* Rounding down and up to a multiple.
LEMMA Rounding ==
    ASSUME NEW n \in Nat \ {0}, NEW x \in Nat, NEW p \in Nat
    PROVE  /\ p <= x \div n <=> n * p <= x
           /\ (x + n - 1) \div n <= p <=> x <= n * p
           /\ x \div n \in Nat /\ (x + n - 1) \div n \in Nat
  <1>1. ASSUME NEW y \in Nat
        PROVE  y \div n \in Nat /\ (p <= y \div n <=> n * p <= y)
    <2> DEFINE q == y \div n
               r == y % n
    <2>1. y = n * q + r /\ r \in 0..(n - 1) /\ q \in Nat
      BY Split
    <2> HIDE DEF q, r
    <2>2. n * (q + 1) = n * q + n /\ n * q \in Int /\ n * p \in Int
      BY <2>1, Times
    <2>3. p <= q => n * p <= n * q
      BY <2>1, Times
    <2>4. q + 1 <= p => n * (q + 1) <= n * p
      BY <2>1, Times
    <2>5. p <= q <=> n * p <= y
      BY <2>1, <2>2, <2>3, <2>4
    <2> QED
      BY <2>1, <2>5 DEF q
  <1> DEFINE z == x + n - 1
  <1>2. z \in Nat
    OBVIOUS
  <1>3. z \div n \in Nat
    BY <1>1, <1>2
  <1>4. z \div n <= p <=> x <= n * p
    <2> DEFINE q == z \div n
               r == z % n
    <2>1. z = n * q + r /\ r \in 0..(n - 1) /\ q \in Nat
      BY <1>2, Split
    <2> HIDE DEF q, r
    <2>2. n * (p + 1) = n * p + n /\ n * q \in Int /\ n * p \in Int
      BY <2>1, Times
    <2>3. q <= p => n * q <= n * p
      BY <2>1, Times
    <2>4. p + 1 <= q => n * (p + 1) <= n * q
      BY <2>1, Times
    <2>5. q <= p <=> x <= n * p
      BY <2>1, <2>2, <2>3, <2>4
    <2> QED
      BY <2>5 DEF q
  <1> QED
    BY <1>1, <1>3, <1>4

LEMMA Memory ==
    /\ PAGE_SIZE \in Nat \ {0} /\ PAGES \in Nat \ {0} /\ MEMORY \in Nat \ {0}
    /\ MEMORY = PAGE_SIZE * PAGES
  BY PhysAllocAssumption, Z3 DEF PAGES, MEMORY

LEMMA NoWrap ==
    ASSUME NEW x \in Nat, x < MEMORY
    PROVE  x % MEMORY = x
  BY Memory, Z3

\* The pages from a to the one before e, by their addresses.
LEMMA PageRange ==
    ASSUME NEW a \in Nat, NEW e \in Nat, a <= e, PAGE_SIZE * e <= MEMORY, NEW x,
           x.addr = PAGE_SIZE * a, x.pages = e - a
    PROVE  PageSet(x) = {p \in Page : a <= p /\ p < e}
  <1>0. e <= PAGES
    BY Memory, Times
  <1>1. ASSUME NEW k \in 0..(e - a - 1)
        PROVE  ((PAGE_SIZE * a + PAGE_SIZE * k) % MEMORY) \div PAGE_SIZE = a + k
    <2>1. k \in Nat /\ a + k < e /\ a + k \in Nat
      OBVIOUS
    <2>2. PAGE_SIZE * a + PAGE_SIZE * k = PAGE_SIZE * (a + k) /\ PAGE_SIZE * (a + k) < PAGE_SIZE * e
      BY <2>1, Memory, Times
    <2>3. PAGE_SIZE * (a + k) \in Nat /\ PAGE_SIZE * e \in Nat
      BY <2>1, Memory, Z3
    <2> DEFINE y == PAGE_SIZE * (a + k)
    <2>4. y \in Nat /\ y < MEMORY
      BY <2>2, <2>3, Memory
    <2>5. y % MEMORY = y
      BY <2>4, NoWrap
    <2>6. (PAGE_SIZE * (a + k) + 0) \div PAGE_SIZE = a + k
      BY <2>1, Memory, DivMod
    <2>7. y \div PAGE_SIZE = a + k
      BY <2>6, <2>4
    <2> QED
      BY <2>2, <2>5, <2>7
  <1>2. PageSet(x) = {a + k : k \in 0..(e - a - 1)}
    BY <1>1 DEF PageSet
  <1>3. {a + k : k \in 0..(e - a - 1)} = {p \in Page : a <= p /\ p < e}
    <2>1. ASSUME NEW p \in Page, a <= p, p < e PROVE p \in {a + k : k \in 0..(e - a - 1)}
      <3>1. p - a \in 0..(e - a - 1) /\ p = a + (p - a)
        BY <2>1 DEF Page
      <3> QED
        BY <3>1
    <2>2. ASSUME NEW k \in 0..(e - a - 1) PROVE a + k \in Page /\ a <= a + k /\ a + k < e
      BY <1>0, Memory DEF Page
    <2> QED
      BY <2>1, <2>2
  <1> QED
    BY <1>2, <1>3

\* mem_init frees the pages that lie in the region as a whole.
LEMMA RegionExact ==
    ASSUME NEW r, r.base \in Nat, r.length \in Nat, r.base + r.length < MEMORY,
           \E p \in Page : r.base <= p * PAGE_SIZE /\ p * PAGE_SIZE <= r.base + r.length
    PROVE  PageSet(region_pages(r)) = {p \in Page : Covers(r.base, r.base + r.length, p)}
  <1> DEFINE lo == r.base
             hi == r.base + r.length
             a == (lo + PAGE_SIZE - 1) \div PAGE_SIZE
             e == hi \div PAGE_SIZE
  <1>0. lo \in Nat /\ hi \in Nat /\ hi < MEMORY
    OBVIOUS
  <1> HIDE DEF lo, hi
  <1>1. PICK b \in Page : lo <= PAGE_SIZE * b /\ PAGE_SIZE * b <= hi
    <2>1. \A p \in Page : p * PAGE_SIZE = PAGE_SIZE * p
      BY Memory, Z3 DEF Page
    <2> QED
      BY <2>1 DEF lo, hi
  <1>2. b \in Nat /\ b < PAGES
    BY Memory DEF Page
  <1>3. /\ a \in Nat /\ e \in Nat
        /\ \A p \in Nat : (p <= e <=> PAGE_SIZE * p <= hi) /\ (a <= p <=> lo <= PAGE_SIZE * p)
    BY <1>0, Memory, Rounding
  <1>4. a <= b /\ b <= e
    BY <1>1, <1>2, <1>3
  <1>5. PAGE_SIZE * a \in Nat /\ PAGE_SIZE * e \in Nat /\ PAGE_SIZE * b \in Nat
    <2> HIDE DEF a, e
    <2> QED
      BY <1>2, <1>3, Memory, Z3
  <1>6. PAGE_SIZE * e <= hi
    BY <1>3
  <1>7. lo + PAGE_SIZE - 1 < MEMORY
    <2>1. PAGE_SIZE * (b + 1) = PAGE_SIZE * b + PAGE_SIZE /\ PAGE_SIZE * (b + 1) <= PAGE_SIZE * PAGES
      BY <1>2, Memory, Times
    <2> QED
      BY <1>0, <1>1, <1>5, <2>1, Memory
  <1>8. (lo + PAGE_SIZE - 1) % MEMORY = lo + PAGE_SIZE - 1 /\ hi % MEMORY = hi
    <2>1. lo + PAGE_SIZE - 1 \in Nat
      BY <1>0, Memory
    <2> QED
      BY <1>0, <1>7, <2>1, NoWrap
  <1>9. /\ region_pages(r).addr = a * PAGE_SIZE
        /\ region_pages(r).pages = ((e * PAGE_SIZE - a * PAGE_SIZE) % MEMORY) \div PAGE_SIZE
    BY <1>8 DEF region_pages, page_align, lo, hi
  <1>10. a * PAGE_SIZE = PAGE_SIZE * a /\ e * PAGE_SIZE = PAGE_SIZE * e
    <2> HIDE DEF a, e
    <2> QED
      BY <1>3, Memory, Z3
  <1>11. region_pages(r).pages = e - a
    <2> HIDE DEF a, e
    <2>1. e - a \in Nat
      BY <1>2, <1>3, <1>4
    <2>2. PAGE_SIZE * e - PAGE_SIZE * a = PAGE_SIZE * (e - a) /\ PAGE_SIZE * (e - a) \in Nat
      BY <1>3, <2>1, Memory, Z3
    <2>3. PAGE_SIZE * (e - a) < MEMORY
      BY <1>0, <1>5, <1>6, <2>2, Memory
    <2>4. PAGE_SIZE * (e - a) % MEMORY = PAGE_SIZE * (e - a)
      BY <2>2, <2>3, NoWrap
    <2>5. (PAGE_SIZE * (e - a) + 0) \div PAGE_SIZE = e - a
      BY <2>1, Memory, DivMod
    <2>6. PAGE_SIZE * (e - a) + 0 = PAGE_SIZE * (e - a)
      BY <2>2
    <2> QED
      BY <1>9, <1>10, <2>2, <2>4, <2>5, <2>6
  <1>12. PageSet(region_pages(r)) = {p \in Page : a <= p /\ p < e}
    <2> DEFINE x == region_pages(r)
    <2>1. x.addr = PAGE_SIZE * a /\ x.pages = e - a
      BY <1>9, <1>10, <1>11
    <2>2. a <= e /\ PAGE_SIZE * e <= MEMORY
      <3> HIDE DEF a, e
      <3> QED
        BY <1>0, <1>2, <1>3, <1>4, <1>5, <1>6, Memory
    <2> HIDE DEF a, e, x
    <2>3. PageSet(x) = {p \in Page : a <= p /\ p < e}
      BY <1>3, <2>1, <2>2, PageRange
    <2> QED
      BY <2>3 DEF x
  <1>13. ASSUME NEW p \in Page PROVE Covers(lo, hi, p) <=> a <= p /\ p < e
    <2> HIDE DEF a, e
    <2>1. p \in Nat /\ p + 1 \in Nat
      BY DEF Page
    <2>2. p * PAGE_SIZE = PAGE_SIZE * p /\ (p + 1) * PAGE_SIZE = PAGE_SIZE * (p + 1)
      BY <2>1, Memory, Z3
    <2>3. p < e <=> p + 1 <= e
      BY <1>3, <2>1
    <2> QED
      BY <1>3, <2>1, <2>2, <2>3 DEF Covers
  <1> QED
    BY <1>12, <1>13 DEF lo, hi

\* mboot_parse reserves the pages that the module touches.
LEMMA ModuleExact ==
    ASSUME NEW m, m.start \in Nat, m.end \in Nat, m.start < m.end, m.end < MEMORY
    PROVE  PageSet(module_pages(m)) = {p \in Page : Touches(m.start, m.end, p)}
  <1> DEFINE lo == m.start
             hi == m.end
             a == lo \div PAGE_SIZE
             e == (hi + PAGE_SIZE - 1) \div PAGE_SIZE
  <1>0. lo \in Nat /\ hi \in Nat /\ hi < MEMORY /\ lo < hi
    OBVIOUS
  <1> HIDE DEF lo, hi
  <1>1. /\ a \in Nat /\ e \in Nat
        /\ \A p \in Nat : (p <= a <=> PAGE_SIZE * p <= lo) /\ (e <= p <=> hi <= PAGE_SIZE * p)
    BY <1>0, Memory, Rounding
  <1>2. PAGE_SIZE * a \in Nat /\ PAGE_SIZE * e \in Nat /\ PAGE_SIZE * a <= lo
    <2>1. PAGE_SIZE * a <= lo
      BY <1>1
    <2> HIDE DEF a, e
    <2> QED
      BY <1>1, <2>1, Memory, Z3
  <1>3. a < e
    <2> HIDE DEF a, e
    <2> SUFFICES ASSUME e <= a PROVE FALSE
      BY <1>1
    <2>1. hi <= PAGE_SIZE * a
      BY <1>1
    <2> QED
      BY <1>0, <1>2, <2>1
  <1>4. e <= PAGES /\ PAGE_SIZE * e <= MEMORY
    <2>1. e <= PAGES
      BY <1>0, <1>1, Memory
    <2> HIDE DEF e
    <2> QED
      BY <1>1, <2>1, Memory, Times
  <1>5. page_align(lo) = PAGE_SIZE * a
    <2>1. page_align(lo) = a * PAGE_SIZE
      BY DEF page_align
    <2> HIDE DEF a
    <2> QED
      BY <1>1, <2>1, Memory, Z3
  <1>6. (hi - page_align(lo)) % MEMORY = hi - PAGE_SIZE * a
    <2> DEFINE y == PAGE_SIZE * a
    <2>1. y \in Nat /\ y <= lo
      BY <1>2
    <2>2. page_align(lo) = y
      BY <1>5
    <2> HIDE DEF y
    <2>3. hi - y \in Nat /\ hi - y < MEMORY
      BY <1>0, <2>1, Memory
    <2>4. (hi - y) % MEMORY = hi - y
      BY <2>3, NoWrap
    <2> QED
      BY <2>2, <2>4 DEF y
  <1>7. page_count(hi - PAGE_SIZE * a) = e - a
    <2> DEFINE z == hi + PAGE_SIZE - 1
               r == z % PAGE_SIZE
    <2>1. z \in Nat
      BY <1>0, Memory
    <2>2. z = PAGE_SIZE * e + r /\ r \in 0..(PAGE_SIZE - 1)
      BY <2>1, Memory, Split
    <2> HIDE DEF a, e, r
    <2>3. PAGE_SIZE * (e - a) = PAGE_SIZE * e - PAGE_SIZE * a /\ e - a \in Nat
      BY <1>1, <1>3, Memory, Z3
    <2>4. hi - PAGE_SIZE * a + PAGE_SIZE - 1 = PAGE_SIZE * (e - a) + r
      BY <1>0, <1>2, <2>2, <2>3, Memory
    <2>5. (PAGE_SIZE * (e - a) + r) \div PAGE_SIZE = e - a
      BY <2>2, <2>3, Memory, DivMod
    <2> QED
      BY <2>4, <2>5 DEF page_count
  <1>8. PageSet(module_pages(m)) = {p \in Page : a <= p /\ p < e}
    <2> DEFINE x == module_pages(m)
    <2>1. x.addr = PAGE_SIZE * a /\ x.pages = e - a
      BY <1>5, <1>6, <1>7 DEF module_pages, lo, hi
    <2>2. a <= e
      <3> HIDE DEF a, e
      <3> QED
        BY <1>1, <1>3
    <2> HIDE DEF a, e, x
    <2>3. PageSet(x) = {p \in Page : a <= p /\ p < e}
      BY <1>1, <1>4, <2>1, <2>2, PageRange
    <2> QED
      BY <2>3 DEF x
  <1>9. ASSUME NEW p \in Page PROVE Touches(lo, hi, p) <=> a <= p /\ p < e
    <2> HIDE DEF a, e
    <2>1. p \in Nat /\ p + 1 \in Nat
      BY DEF Page
    <2>2. p * PAGE_SIZE = PAGE_SIZE * p /\ (p + 1) * PAGE_SIZE = PAGE_SIZE * (p + 1)
      BY <2>1, Memory, Z3
    <2>3. PAGE_SIZE * p \in Int /\ PAGE_SIZE * (p + 1) \in Int
      BY <2>1, Memory, Z3
    <2>4. p + 1 <= a <=> PAGE_SIZE * (p + 1) <= lo
      BY <1>1, <2>1
    <2>5. e <= p <=> hi <= PAGE_SIZE * p
      BY <1>1, <2>1
    <2> QED
      BY <1>0, <1>1, <2>1, <2>2, <2>3, <2>4, <2>5 DEF Touches
  <1> QED
    BY <1>8, <1>9 DEF lo, hi
-----------------------------------------------------------------------------
(* No page leaks                                                           *)

\* The pages of the boot information and of the first n modules.
Loaded(n) ==
    {p \in Page : \/ p = info.self \div PAGE_SIZE
                  \/ \E k \in 1..n : \/ p = info.modules[k].at \div PAGE_SIZE
                                     \/ Touches(info.modules[k].start, info.modules[k].end, p)}

\* The pages of the first n regions.
Freed(n) ==
    {p \in Page : \E k \in 1..n :
       /\ info.mmap[k].type = 1
       /\ Covers(info.mmap[k].base, info.mmap[k].base + info.mmap[k].length, p)}

\* How far the boot has brought the map.
Progress ==
    /\ boot = "regions" => step <= Len(info.mmap) + 1 /\ FreePages = Freed(step - 1)
    /\ boot = "apics" => FreePages = Available(info) \ FixedPages
    /\ boot = "self" => FreePages \cup early = Available(info) \ FixedPages
    /\ boot = "modules" =>
         /\ step <= Len(info.modules) + 1
         /\ FreePages \cup early = (Available(info) \ FixedPages) \ Loaded(step - 1)
    /\ \A p \in early : ~InModules(info, p)

CInv == IInv /\ Progress /\ PagesConserved

\* Reserving takes pages out of the free ones, freeing adds them.
LEMMA ReserveFree ==
    ASSUME IInv, NEW S, S \subseteq Page
    PROVE  /\ memory_map' = mem_phys_reserve_range(memory_map, S) => FreePages' = FreePages \ S
           /\ memory_map' = mem_phys_free_range(memory_map, S) => FreePages' = FreePages \cup S
  <1>1. ASSUME NEW p \in Page
        PROVE  p = PageOf(p \div BITS, p % BITS) /\ p \div BITS \in Word /\ p % BITS \in Bit
    BY PageSplit, WordOfPage
  <1>2. ASSUME memory_map' = mem_phys_reserve_range(memory_map, S)
        PROVE  FreePages' = FreePages \ S
    <2>1. \A p \in Page : (p % BITS) \in memory_map'[p \div BITS]
                            <=> (p % BITS) \in memory_map[p \div BITS] /\ p \notin S
      BY <1>1, <1>2 DEF mem_phys_reserve_range
    <2> QED
      BY <2>1 DEF FreePages
  <1>3. ASSUME memory_map' = mem_phys_free_range(memory_map, S)
        PROVE  FreePages' = FreePages \cup S
    <2>1. \A p \in Page : (p % BITS) \in memory_map'[p \div BITS]
                            <=> (p % BITS) \in memory_map[p \div BITS] \/ p \in S
      BY <1>1, <1>3 DEF mem_phys_free_range
    <2> QED
      BY <2>1 DEF FreePages
  <1> QED
    BY <1>2, <1>3

\* The boot information, element by element.
LEMMA InfoFacts ==
    ASSUME IInv
    PROVE  /\ BootInfoOK(info) /\ Len(info.mmap) \in Nat /\ Len(info.modules) \in Nat
           /\ \A k \in 1..Len(info.mmap) :
                info.mmap[k].base \in Nat /\ info.mmap[k].length \in Nat
           /\ \A k \in 1..Len(info.modules) :
                /\ info.modules[k].start \in Nat /\ info.modules[k].end \in Nat
                /\ info.modules[k].at \in 0..(MEMORY - 1)
  <1>1. BootInfoOK(info)
    BY PhysAllocAssumption DEF IInv, TypeOK
  <1>2. /\ info.mmap \in Seq([base : Nat, length : Nat, type : Nat])
        /\ info.modules \in Seq([start : Nat, end : Nat, at : 0..(MEMORY - 1)])
    BY <1>1 DEF BootInfoOK
  <1>3. \A k \in 1..Len(info.mmap) : info.mmap[k] \in [base : Nat, length : Nat, type : Nat]
    BY <1>2, ElementOfSeq
  <1>4. \A k \in 1..Len(info.modules) :
          info.modules[k] \in [start : Nat, end : Nat, at : 0..(MEMORY - 1)]
    BY <1>2, ElementOfSeq
  <1>5. Len(info.mmap) \in Nat /\ Len(info.modules) \in Nat
    BY <1>2
  <1> QED
    BY <1>1, <1>3, <1>4, <1>5

LEMMA ConservedRegion ==
    ASSUME CInv, BootRegion
    PROVE  Progress'
  <1> DEFINE r == info.mmap[step]
             S == {p \in Page : Covers(r.base, r.base + r.length, p)}
  <1>1. /\ boot = "regions" /\ step <= Len(info.mmap) /\ step' = step + 1
        /\ UNCHANGED <<info, boot, early>> /\ step \in Nat \ {0}
        /\ memory_map' = IF r.type = 1 THEN mem_phys_free_range(memory_map, PageSet(region_pages(r)))
                                       ELSE memory_map
    BY DEF BootRegion, CInv, IInv, TypeOK
  <1>2. IInv /\ Len(info.mmap) \in Nat
    BY InfoFacts DEF CInv
  <1>3. step \in 1..Len(info.mmap) /\ BootInfoOK(info) /\ r.base \in Nat /\ r.length \in Nat
    BY <1>1, <1>2, InfoFacts
  <1>4. PageSet(region_pages(r)) = S
    <2>1. /\ r.base + r.length < MEMORY
          /\ \E p \in Page : r.base <= p * PAGE_SIZE /\ p * PAGE_SIZE <= r.base + r.length
      BY <1>3 DEF BootInfoOK
    <2> HIDE DEF r
    <2> QED
      BY <1>3, <2>1, RegionExact
  <1>5. FreePages' = IF r.type = 1 THEN FreePages \cup S ELSE FreePages
    <2>1. CASE r.type = 1
      <3>1. S \subseteq Page /\ memory_map' = mem_phys_free_range(memory_map, S)
        BY <1>1, <1>4, <2>1
      <3> HIDE DEF S
      <3> QED
        BY <1>2, <2>1, <3>1, ReserveFree
    <2>2. CASE r.type # 1
      BY <1>1, <2>2 DEF FreePages
    <2> QED
      BY <2>1, <2>2
  <1>6. Freed(step - 1)' = Freed(step)
    BY <1>1 DEF Freed
  <1>7. Freed(step) = IF r.type = 1 THEN Freed(step - 1) \cup S ELSE Freed(step - 1)
    <2>1. \A k : k \in 1..step <=> k \in 1..(step - 1) \/ k = step
      BY <1>1
    <2> QED
      BY <2>1 DEF Freed
  <1>8. FreePages = Freed(step - 1) /\ \A p \in early : ~InModules(info, p)
    BY <1>1 DEF CInv, Progress
  <1>9. FreePages' = Freed(step - 1)'
    <2> HIDE DEF r, S
    <2> QED
      BY <1>5, <1>6, <1>7, <1>8
  <1>10. step' <= Len(info.mmap)' + 1
    BY <1>1, <1>2
  <1> QED
    BY <1>1, <1>8, <1>9, <1>10 DEF Progress

LEMMA ConservedFixed ==
    ASSUME CInv, BootFixed
    PROVE  Progress'
  <1>1. /\ boot = "regions" /\ step > Len(info.mmap) /\ boot' = "apics"
        /\ UNCHANGED <<info, step, early>> /\ step \in Nat \ {0}
        /\ memory_map' = mem_phys_reserve_range(memory_map, FixedPages)
    BY DEF BootFixed, CInv, IInv, TypeOK
  <1>2. IInv /\ Len(info.mmap) \in Nat
    BY InfoFacts DEF CInv
  <1>3. /\ step <= Len(info.mmap) + 1 /\ FreePages = Freed(step - 1)
        /\ \A p \in early : ~InModules(info, p)
    BY <1>1 DEF CInv, Progress
  <1>4. step - 1 = Len(info.mmap)
    BY <1>1, <1>2, <1>3
  <1>5. FreePages = Available(info)
    BY <1>3, <1>4 DEF Freed, Available
  <1>6. FreePages' = FreePages \ FixedPages
    BY <1>1, <1>2, ReserveFree, PhysAllocAssumption
  <1> QED
    BY <1>1, <1>3, <1>5, <1>6 DEF Progress

\* The page table of the APICs does not lie in a module.
LEMMA ConservedApics ==
    ASSUME CInv, BootApics
    PROVE  Progress'
  <1>1. PICK p \in FreePages :
          /\ \A q \in FreePages : p <= q
          /\ memory_map' = mem_phys_reserve_range(memory_map, {p})
          /\ early' = early \cup {p}
    BY DEF BootApics
  <1>2. boot = "apics" /\ boot' = "self" /\ UNCHANGED <<info, step>>
    BY DEF BootApics
  <1>3. /\ FreePages = Available(info) \ FixedPages /\ IInv
        /\ \A q \in early : ~InModules(info, q)
    BY <1>2 DEF CInv, Progress
  <1>4. PICK q \in FreePages : (\A s \in FreePages : q <= s) /\ ~InModules(info, q)
    BY <1>3, InfoFacts DEF BootInfoOK
  <1>5. p = q
    <2>1. p \in Nat /\ q \in Nat
      BY DEF FreePages, Page
    <2> QED
      BY <1>1, <1>4, <2>1
  <1>6. FreePages' = FreePages \ {p}
    <2>1. {p} \subseteq Page
      BY DEF FreePages
    <2> QED
      BY <1>1, <1>3, <2>1, ReserveFree
  <1>7. early = {}
    BY <1>2, <1>3 DEF IInv, EarlyTaken
  <1> QED
    BY <1>1, <1>2, <1>3, <1>4, <1>5, <1>6, <1>7 DEF Progress

LEMMA ConservedSelf ==
    ASSUME CInv, BootSelf
    PROVE  Progress'
  <1> DEFINE s == info.self \div PAGE_SIZE
  <1>1. /\ boot = "self" /\ boot' = "modules" /\ step' = 1 /\ UNCHANGED <<info, early>>
        /\ memory_map' = mem_phys_reserve_range(memory_map, {s})
    BY DEF BootSelf
  <1>2. IInv /\ Len(info.modules) \in Nat /\ BootInfoOK(info)
    BY InfoFacts DEF CInv
  <1>3. /\ FreePages \cup early = Available(info) \ FixedPages
        /\ \A q \in early : ~InModules(info, q)
    BY <1>1 DEF CInv, Progress
  <1>4. s \in Page
    BY <1>2, AddressInPages DEF BootInfoOK
  <1>5. s \notin early
    BY <1>3 DEF InModules
  <1>6. Loaded(step - 1)' = {s}
    <2>1. step' - 1 = 0 /\ info' = info
      BY <1>1
    <2>2. \A k : k \notin 1..0
      OBVIOUS
    <2> QED
      BY <1>4, <2>1, <2>2 DEF Loaded
  <1> HIDE DEF s
  <1>7. FreePages' = FreePages \ {s}
    BY <1>1, <1>2, <1>4, ReserveFree
  <1>8. FreePages' \cup early' = (Available(info) \ FixedPages) \ {s}
    BY <1>1, <1>3, <1>5, <1>7
  <1>9. step' <= Len(info.modules)' + 1
    BY <1>1, <1>2
  <1> QED
    BY <1>1, <1>3, <1>6, <1>8, <1>9 DEF Progress

LEMMA ConservedModule ==
    ASSUME CInv, BootModule
    PROVE  Progress'
  <1> DEFINE m == info.modules[step]
             S == {p \in Page : Touches(m.start, m.end, p)} \cup {m.at \div PAGE_SIZE}
  <1>1. /\ boot = "modules" /\ step <= Len(info.modules) /\ step' = step + 1
        /\ UNCHANGED <<info, boot, early>> /\ step \in Nat \ {0}
        /\ memory_map' = mem_phys_reserve_range(memory_map,
                           PageSet(module_pages(m)) \cup {m.at \div PAGE_SIZE})
    BY DEF BootModule, CInv, IInv, TypeOK
  <1>2. IInv /\ Len(info.modules) \in Nat
    BY InfoFacts DEF CInv
  <1>3. /\ step \in 1..Len(info.modules) /\ BootInfoOK(info)
        /\ m.start \in Nat /\ m.end \in Nat /\ m.at \in 0..(MEMORY - 1)
    BY <1>1, <1>2, InfoFacts
  <1>4. PageSet(module_pages(m)) = {p \in Page : Touches(m.start, m.end, p)}
    <2>1. m.start < m.end /\ m.end < MEMORY
      BY <1>3 DEF BootInfoOK
    <2> HIDE DEF m
    <2> QED
      BY <1>3, <2>1, ModuleExact
  <1>5. S \subseteq Page /\ memory_map' = mem_phys_reserve_range(memory_map, S)
    BY <1>1, <1>3, <1>4, AddressInPages
  <1>6. FreePages' = FreePages \ S
    <2> HIDE DEF S
    <2> QED
      BY <1>2, <1>5, ReserveFree
  <1>7. Loaded(step - 1)' = Loaded(step)
    BY <1>1 DEF Loaded
  <1>8. Loaded(step) = Loaded(step - 1) \cup S
    <2>1. \A k : k \in 1..step <=> k \in 1..(step - 1) \/ k = step
      BY <1>1
    <2> QED
      BY <1>5, <2>1 DEF Loaded
  <1>9. /\ FreePages \cup early = (Available(info) \ FixedPages) \ Loaded(step - 1)
        /\ \A q \in early : ~InModules(info, q)
    BY <1>1 DEF CInv, Progress
  <1>10. early \cap S = {}
    BY <1>3, <1>9 DEF InModules
  <1>11. Available(info)' = Available(info)
    BY <1>1 DEF Available
  <1>12. FreePages' \cup early' = (Available(info)' \ FixedPages) \ Loaded(step - 1)'
    <2> HIDE DEF S
    <2> QED
      BY <1>1, <1>6, <1>7, <1>8, <1>9, <1>10, <1>11
  <1>13. step' <= Len(info.modules)' + 1
    BY <1>1, <1>2
  <1> QED
    BY <1>1, <1>9, <1>12, <1>13 DEF Progress

LEMMA ConservedDone ==
    ASSUME CInv, BootDone
    PROVE  Progress' /\ PagesConserved'
  <1>1. /\ boot = "modules" /\ step > Len(info.modules) /\ boot' = "up" /\ step \in Nat \ {0}
        /\ UNCHANGED <<memory_map, info, step, early, pc, word, bit, got>>
    BY DEF BootDone, CInv, IInv, TypeOK, cpuvars
  <1>2. IInv /\ Len(info.modules) \in Nat
    BY InfoFacts DEF CInv
  <1>3. /\ step <= Len(info.modules) + 1
        /\ FreePages \cup early = (Available(info) \ FixedPages) \ Loaded(step - 1)
        /\ \A q \in early : ~InModules(info, q)
    BY <1>1 DEF CInv, Progress
  <1>4. step - 1 = Len(info.modules)
    BY <1>1, <1>2, <1>3
  <1>5. \A p \in Page : p \in Loaded(step - 1) <=> InModules(info, p)
    BY <1>4 DEF Loaded, InModules
  <1>6. FreePages \cup early = Usable(info)
    BY <1>3, <1>5 DEF Usable, Available
  <1>7. \A c \in Cpu : Granted(c)' = {}
    <2>1. \A c \in Cpu : pc[c] = "idle" /\ got[c] = {}
      BY <1>1, <1>2 DEF IInv, BootFirst
    <2> QED
      BY <1>1, <2>1 DEF Granted, InHand
  <1>8. FreePages' = FreePages /\ Usable(info)' = Usable(info)
    BY <1>1 DEF FreePages, Usable, Available, InModules
  <1>9. PagesConserved'
    <2>1. UNION {Granted(c)' : c \in Cpu} = {}
      BY <1>7
    <2> QED
      BY <1>1, <1>6, <1>8, <2>1 DEF PagesConserved
  <1>10. Progress'
    BY <1>1, <1>3 DEF Progress
  <1> QED
    BY <1>9, <1>10

\* A step of a CPU moves a page from the map into its hands, or no page at all.
LEMMA CpuMoves ==
    ASSUME IInv, NEW c \in Cpu, StartAlloc(c) \/ Enter(c) \/ Locked(c)
    PROVE  /\ UNCHANGED bootvars
           /\ \A d \in Cpu : d # c => Granted(d)' = Granted(d)
           /\ \/ FreePages' = FreePages /\ Granted(c)' = Granted(c)
              \/ \E p \in FreePages : FreePages' = FreePages \ {p} /\ Granted(c)' = Granted(c) \cup {p}
  <1>0. /\ memory_map \in [Word -> SUBSET Bit]
        /\ pc \in [Cpu -> {"idle", "enter", "scan", "reserve", "leave"}]
        /\ word \in [Cpu -> 0..(ENTRIES - 1)] /\ bit \in [Cpu -> Bit]
        /\ got \in [Cpu -> SUBSET (Page \cup {DEADC0DE})] /\ DEADC0DE \notin Page
    BY PhysAllocAssumption DEF IInv, TypeOK
  <1>1. UNCHANGED bootvars
    BY DEF Locked, StartAlloc, Enter, Exhausted, Scan, Reserve, Leave
  <1>2. CASE StartAlloc(c) \/ Enter(c) \/ Exhausted(c)
    BY <1>0, <1>1, <1>2 DEF StartAlloc, Enter, Exhausted, FreePages, Granted, InHand
  <1>3. CASE Scan(c)
    <2>1. PICK w \in 0..(ENTRIES - 1), b \in Bit :
            word' = [word EXCEPT ![c] = w] /\ bit' = [bit EXCEPT ![c] = b]
      <3>1. PICK w \in 0..(ENTRIES - 1) : \E b \in memory_map[w] :
              word' = [word EXCEPT ![c] = w] /\ bit' = [bit EXCEPT ![c] = b]
        BY <1>3 DEF Scan
      <3>2. memory_map[w] \subseteq Bit
        BY <1>0, PhysAllocAssumption DEF Word
      <3> QED
        BY <3>1, <3>2
    <2>2. \A d \in Cpu : Granted(d)' = Granted(d)
      BY <1>0, <1>3, <2>1 DEF Scan, Granted, InHand
    <2> QED
      BY <1>1, <1>3, <2>2 DEF Scan, FreePages
  <1>4. CASE Reserve(c)
    <2> DEFINE page == PageOf(word[c], bit[c])
    <2>1. /\ bit[c] \in memory_map[word[c]] /\ word[c] \in Word
          /\ memory_map' = [memory_map EXCEPT ![word[c]] = @ \ {bit[c]}]
      BY <1>0, <1>4, PhysAllocAssumption DEF Reserve, IInv, ScanValid, Word
    <2>2. page \in Page /\ page % BITS = bit[c] /\ page \div BITS = word[c]
      BY <1>0, PageOfFacts
    <2>3. page \in FreePages
      BY <2>1, <2>2 DEF FreePages
    <2>4. ASSUME NEW p \in Page
          PROVE  (p % BITS) \in memory_map'[p \div BITS]
                   <=> (p % BITS) \in memory_map[p \div BITS] /\ p # page
      <3>1. p = PageOf(p \div BITS, p % BITS) /\ p \div BITS \in Word
        BY PageSplit, WordOfPage
      <3> QED
        BY <1>0, <2>1, <2>2, <3>1
    <2>5. \A d \in Cpu : d # c => Granted(d)' = Granted(d)
      BY <1>0, <1>4 DEF Reserve, Granted, InHand
    <2>6. InHand(c)' = {page} /\ InHand(c) = {} /\ got' = got
      BY <1>0, <1>4 DEF Reserve, InHand
    <2> HIDE DEF page
    <2>7. FreePages' = FreePages \ {page}
      BY <2>3, <2>4 DEF FreePages
    <2>8. Granted(c)' = Granted(c) \cup {page}
      BY <1>0, <2>2, <2>6 DEF Granted
    <2> QED
      BY <1>1, <2>3, <2>5, <2>7, <2>8
  <1>5. CASE Leave(c)
    BY <1>0, <1>1, <1>5 DEF Leave, FreePages, Granted, InHand
  <1> QED
    BY <1>2, <1>3, <1>4, <1>5 DEF Locked

LEMMA ConservedCpu ==
    ASSUME CInv, NEW c \in Cpu, StartAlloc(c) \/ Enter(c) \/ Locked(c)
    PROVE  Progress' /\ PagesConserved'
  <1>1. IInv /\ Progress /\ PagesConserved
    BY DEF CInv
  <1>2. /\ UNCHANGED bootvars
        /\ \A d \in Cpu : d # c => Granted(d)' = Granted(d)
        /\ \/ FreePages' = FreePages /\ Granted(c)' = Granted(c)
           \/ \E p \in FreePages : FreePages' = FreePages \ {p} /\ Granted(c)' = Granted(c) \cup {p}
    BY <1>1, CpuMoves
  <1>3. boot = "up"
    BY <1>1 DEF IInv, BootFirst, StartAlloc, Enter, Locked, Exhausted, Scan, Reserve, Leave
  <1>4. UNCHANGED <<info, boot, step, early>>
    BY <1>2 DEF bootvars
  <1>5. Progress'
    BY <1>1, <1>3, <1>4 DEF Progress
  <1>6. Usable(info)' = Usable(info)
    BY <1>4 DEF Usable, Available, InModules
  <1>7. FreePages' \cup UNION {Granted(d)' : d \in Cpu} = FreePages \cup UNION {Granted(d) : d \in Cpu}
    BY <1>2
  <1>8. PagesConserved'
    BY <1>1, <1>3, <1>4, <1>6, <1>7 DEF PagesConserved
  <1> QED
    BY <1>5, <1>8

LEMMA ConservedInit == Init => CInv
  <1> SUFFICES ASSUME Init PROVE CInv
    OBVIOUS
  <1>1. IInv
    BY InitIInv
  <1>2. boot = "regions" /\ step = 1 /\ early = {}
    BY DEF Init
  <1>3. FreePages = {}
    <2>1. \A w \in 0..(ENTRIES - 1) : memory_map[w] = {}
      BY PhysAllocAssumption DEF Init, Word
    <2> QED
      BY <2>1, WordOfPage DEF FreePages
  <1>4. Freed(step - 1) = {}
    BY <1>2 DEF Freed
  <1>5. step <= Len(info.mmap) + 1
    BY <1>1, <1>2, InfoFacts
  <1> QED
    BY <1>1, <1>2, <1>3, <1>4, <1>5 DEF CInv, Progress, PagesConserved

LEMMA ConservedStep == CInv /\ [Next]_vars => CInv'
  <1> SUFFICES ASSUME CInv, [Next]_vars PROVE CInv'
    OBVIOUS
  <1>1. IInv'
    BY StepIInv DEF CInv
  <1>2. CASE Boot
    <2>1. CASE BootDone
      BY <1>1, <2>1, ConservedDone DEF CInv
    <2>2. CASE ~BootDone
      <3>1. Progress'
        BY <1>2, <2>2, ConservedRegion, ConservedFixed, ConservedApics, ConservedSelf, ConservedModule
        DEF Boot
      <3>2. boot' # "up"
        BY <1>2, <2>2 DEF Boot, BootRegion, BootFixed, BootApics, BootSelf, BootModule
      <3> QED
        BY <1>1, <3>1, <3>2 DEF CInv, PagesConserved
    <2> QED
      BY <2>1, <2>2
  <1>3. ASSUME NEW c \in Cpu, StartAlloc(c) \/ Enter(c) \/ Locked(c) PROVE CInv'
    BY <1>1, <1>3, ConservedCpu DEF CInv
  <1>4. CASE UNCHANGED vars
    <2>1. UNCHANGED <<memory_map, info, boot, step, early, pc, word, bit, got>>
      BY <1>4 DEF vars, bootvars, cpuvars
    <2>2. Progress'
      BY <2>1 DEF CInv, Progress, FreePages, Freed, Available, Loaded, InModules
    <2>3. PagesConserved'
      BY <2>1 DEF CInv, PagesConserved, FreePages, Granted, InHand, Usable, Available, InModules
    <2> QED
      BY <1>1, <2>2, <2>3 DEF CInv
  <1> QED
    BY <1>2, <1>3, <1>4 DEF Next

\* The rounding and the 32-bit arithmetic of mem_init and mboot_parse hand the
\* allocator exactly the pages of available memory that nobody else occupies, for
\* whatever the boot loader may report (BootInfoOK), and none leaks afterwards.
THEOREM NoPageLeaks == Spec => []PagesConserved
  <1>1. CInv => PagesConserved
    BY DEF CInv
  <1> QED
    BY <1>1, ConservedInit, ConservedStep, PTL DEF Spec
=============================================================================
