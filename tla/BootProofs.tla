----------------------------- MODULE BootProofs -----------------------------
(***************************************************************************)
(* Proofs about booting and about what the kernel waits for.               *)
(*                                                                         *)
(* Boot, for every MP table and command line: nobody passes the barrier    *)
(* before all have come, and the count never overshoots the number         *)
(* cpu_sync waits for.  The argument counts: awoken_cpu is the number of   *)
(* CPUs that have stored it, these are some of the CPUs in use, and        *)
(* maximum_cpu is how many CPUs are in use; when the two numbers are equal *)
(* the two sets are.                                                       *)
(*                                                                         *)
(* HeapLock, for any numbers of CPUs, threads and calls: list elements     *)
(* suffice after the loading of modules (LocksInv counts them), and a      *)
(* round of CPUs and threads that wait for each other needs a CPU that     *)
(* lacks one (ChainsEnd, Rounds).                                          *)
(*                                                                         *)
(* Timer, for any width of the counter: the chip's line, sleeps and the    *)
(* conversion of uptimes (ClockInv).                                       *)
(***************************************************************************)
EXTENDS Boot, Waiting, FiniteSetTheorems, FunctionTheorems, NaturalsInduction,
        WellFoundedInduction, TLAPS

Types ==
    /\ maximum_cpu \in Nat \ {0}
    /\ cpu \in Nat \ {0}
    /\ awoken_cpu \in Nat
    /\ lock \in {0, 1}
    /\ started \in [Cpu -> BOOLEAN]
    /\ pc \in [Cpu -> {"off", "find", "init", "wake", "hello", "enter", "load", "store",
                       "leave", "spin", "modules", "timer", "idle_loop"}]
    /\ tmp \in [Cpu -> Nat]
    /\ targets \subseteq Cpu

Section == {c \in Cpu : pc[c] \in {"load", "store", "leave"}}

\* One CPU at a time is in the locked section, and what it has loaded is current.
Locking ==
    /\ \A c, d \in Section : c = d
    /\ Section # {} => lock = 1
    /\ \A c \in Cpu : pc[c] = "store" => tmp[c] = awoken_cpu

\* CPUs are woken in the order of the table, once each, after scheduling_init.
Waking ==
    /\ \A i \in 1..Len(Entries) : i > cpu => pc[Entries[i]] = "off"
    /\ pc[BSP] # "find" => maximum_cpu <= Len(Entries)
    /\ pc[BSP] \in {"find", "init"} => cpu = 1
    /\ pc[BSP] # "off"
    /\ \A c \in Cpu : pc[c] # "off" => c \in Used
    /\ \A c \in Cpu : started[c] => pc[c] # "off"

\* A CPU is ready before it comes to the barrier.
Ready ==
    /\ \A c \in Cpu : pc[c] \in {"enter", "load", "store"} \/ c \in Counted => started[c]
    /\ pc[BSP] = "wake" => started[BSP]

Count == awoken_cpu = Cardinality(Counted)

Open == Passed # {} => Used \subseteq Counted

IInv == Types /\ Locking /\ Waking /\ Ready /\ Count /\ Open /\ SpreadOverAll
-----------------------------------------------------------------------------
\* The boot CPU and every table entry are CPUs.
LEMMA EntryFacts ==
    /\ Len(Entries) \in Nat \ {0}
    /\ BSP \in Cpu
    /\ \A i \in 1..Len(Entries) : Entries[i] \in Cpu
    /\ \A c \in Cpu : \E i \in 1..Len(Entries) : c = Entries[i]
    /\ BSP = Entries[1]
  BY BootAssumption DEF Cpu, BSP

\* The first n entries of the table are n different CPUs.
LEMMA EntriesCounted ==
    ASSUME NEW n \in Nat, n <= Len(Entries)
    PROVE  LET S == {Entries[i] : i \in 1..n}
           IN  IsFiniteSet(S) /\ Cardinality(S) = n
  <1> DEFINE S == {Entries[i] : i \in 1..n}
             f == [i \in 1..n |-> Entries[i]]
  <1>1. f \in Surjection(1..n, S)
    BY DEF Surjection
  <1>2. f \in Injection(1..n, S)
    <2>1. f \in [1..n -> S]
      OBVIOUS
    <2>2. n \in Nat /\ Len(Entries) \in Nat /\ 1..n \subseteq 1..Len(Entries)
      BY EntryFacts
    <2>3. ASSUME NEW a \in 1..n, NEW b \in 1..n, f[a] = f[b] PROVE a = b
      <3>1. a \in 1..Len(Entries) /\ b \in 1..Len(Entries) /\ Entries[a] = Entries[b]
        BY <2>2, <2>3
      <3> HIDE DEF f
      <3> QED
        BY <3>1, BootAssumption
    <2> QED
      BY <2>1, <2>3 DEF Injection, IsInjective
  <1>3. IsFiniteSet(1..n) /\ Cardinality(1..n) = n
    BY FS_Interval
  <1> QED
    BY <1>1, <1>2, <1>3, FS_Surjection

\* There are finitely many CPUs, and maximum_cpu of them are used once cpu_find
\* has limited it.
LEMMA UsedCounted ==
    ASSUME Types
    PROVE  /\ IsFiniteSet(Cpu)
           /\ Used \subseteq Cpu
           /\ maximum_cpu <= Len(Entries) => Cardinality(Used) = maximum_cpu
  <1>1. Cpu = {Entries[i] : i \in 1..Len(Entries)}
    BY DEF Cpu
  <1>2. IsFiniteSet(Cpu)
    BY <1>1, EntriesCounted, EntryFacts
  <1>3. ASSUME maximum_cpu <= Len(Entries) PROVE Used = {Entries[i] : i \in 1..maximum_cpu}
    BY <1>3, EntryFacts, SMTT(30) DEF Used, Types
  <1> QED
    BY <1>2, <1>3, EntriesCounted DEF Used, Cpu, Types

\* The invariant holds when kmain begins.
LEMMA InitIInv == Init => IInv
  <1> SUFFICES ASSUME Init PROVE IInv
    OBVIOUS
  <1>1. Types /\ Locking
    BY BootAssumption, EntryFacts DEF Init, Types, Locking, Section
  <1>2. \A i \in 1..Len(Entries) : i > cpu => pc[Entries[i]] = "off"
    BY BootAssumption, EntryFacts DEF Init
  <1>3. BSP \in Used
    BY BootAssumption, EntryFacts, <1>1 DEF Used, Types
  <1>4. Waking
    BY <1>2, <1>3, EntryFacts DEF Init, Waking
  <1>5. Counted = {} /\ Passed = {}
    BY DEF Init, Counted, Passed
  <1> QED
    BY <1>1, <1>4, <1>5, FS_EmptySet, EntryFacts DEF Init, IInv, Ready, Count, Open, SpreadOverAll

\* The boot CPU's steps before the barrier, and the others' way to it.
LEMMA StepBefore ==
    ASSUME IInv, NEW c \in Cpu,
           cpu_find \/ scheduling_init \/ cpu_wake \/ WakeupDone \/ hello_world(c)
    PROVE  IInv'
  <1> USE EntryFacts DEF IInv, Goto
  <1>1. CASE cpu_find
    <2>1. Types' /\ Locking'
      BY <1>1 DEF cpu_find, Types, Locking, Section
    <2>2. \A d \in Cpu : d # BSP => pc[d] = "off"
      BY <1>1 DEF cpu_find, Waking
    <2>3. BSP \in Used'
      BY <2>1 DEF Used, Types
    <2>4. Waking'
      <3>1. pc' = [pc EXCEPT ![BSP] = "init"] /\ UNCHANGED <<cpu, started>> /\ cpu = 1
        BY <1>1 DEF cpu_find, Waking
      <3>2. pc'[BSP] = "init" /\ \A d \in Cpu : d # BSP => pc'[d] = "off"
        BY <2>2, <3>1 DEF Types
      <3>3. \A i \in 1..Len(Entries) : i > 1 => Entries[i] # BSP
        BY BootAssumption
      <3>4. \A i \in 1..Len(Entries) : i > cpu' => pc'[Entries[i]] = "off"
        BY <3>1, <3>2, <3>3
      <3>5. maximum_cpu' <= Len(Entries)
        BY <1>1 DEF cpu_find, Types
      <3>6. \A d \in Cpu : started[d] => d = BSP
        BY <2>2 DEF Waking
      <3> QED
        BY <2>3, <3>1, <3>2, <3>4, <3>5, <3>6 DEF Waking
    <2>5. Counted' = Counted /\ Passed = {} /\ Passed' = {}
      BY <1>1, <2>2, ZenonT(60) DEF cpu_find, Counted, Passed, Types
    <2> QED
      BY <1>1, <2>1, <2>4, <2>5 DEF cpu_find, Ready, Count, Open, SpreadOverAll, Types
  <1>2. CASE scheduling_init
    <2>1. Types' /\ Locking'
      BY <1>2 DEF scheduling_init, Types, Locking, Section
    <2>2. \A d \in Cpu : d # BSP => pc[d] = "off"
      BY <1>2 DEF scheduling_init, Waking
    <2>4. Waking'
      BY <1>2, <2>2 DEF scheduling_init, Waking, Types, Used
    <2>5. Counted' = {} /\ Counted = {} /\ Passed' = {}
      BY <1>2, <2>2 DEF scheduling_init, Counted, Passed, Types
    <2>6. Ready'
      BY <1>2, <2>2, <2>5 DEF scheduling_init, Ready, Types
    <2>7. Count' /\ Open'
      BY <1>2, <2>5 DEF scheduling_init, Count, Open
    <2>8. SpreadOverAll'
      BY <1>2 DEF scheduling_init, SpreadOverAll, Types
    <2> QED
      BY <2>1, <2>4, <2>6, <2>7, <2>8
  <1>3. CASE cpu_wake
    <2> DEFINE d == Entries[cpu + 1]
    <2>0. cpu + 1 \in 1..Len(Entries) /\ d \in Cpu /\ d \in Used /\ pc[d] = "off" /\ d # BSP
      <3>1. cpu \in Nat /\ cpu + 1 \in 1..Len(Entries) /\ cpu + 1 > cpu /\ pc[BSP] = "wake"
        BY <1>3 DEF cpu_wake, Waking, Types
      <3>2. d \in Cpu /\ pc[d] = "off" /\ d # BSP
        BY <3>1 DEF Waking
      <3>3. d \in Used
        <4>1. cpu + 1 <= maximum_cpu
          BY <1>3, <3>1 DEF cpu_wake, Types
        <4> QED
          BY <3>1, <4>1 DEF Used
      <3> QED
        BY <3>1, <3>2, <3>3
    <2> HIDE DEF d
    <2>00. /\ pc' = [pc EXCEPT ![d] = "hello"] /\ pc[BSP] = "wake"
           /\ cpu' = cpu + 1
           /\ UNCHANGED <<maximum_cpu, awoken_cpu, lock, started, tmp, targets>>
      BY <1>3 DEF cpu_wake, d
    <2>1. Types' /\ Locking'
      BY <2>0, <2>00 DEF Types, Locking, Section
    <2>2. \A i \in 1..Len(Entries) : i > cpu + 1 => pc'[Entries[i]] = "off"
      <3>1. ASSUME NEW i \in 1..Len(Entries), i > cpu + 1 PROVE pc'[Entries[i]] = "off"
        <4>1. Entries[i] # d
          <5>1. i # cpu + 1
            BY <3>1 DEF Types
          <5> QED
            BY <5>1, <2>0, BootAssumption DEF d
        <4>2. pc[Entries[i]] = "off" /\ Entries[i] \in Cpu
          BY <3>1 DEF Waking, Types
        <4> QED
          BY <4>1, <4>2, <2>00 DEF Types
      <3> QED
        BY <3>1
    <2>3. Used' = Used
      BY <2>00 DEF Used
    <2>a. \A e \in Cpu : pc'[e] = IF e = d THEN "hello" ELSE pc[e]
      BY <2>00, <2>0 DEF Types
    <2>b. pc'[BSP] = "wake"
      BY <2>0, <2>00, <2>a
    <2>c. \A e \in Cpu : pc'[e] # "off" => e \in Used'
      BY <2>0, <2>3, <2>a DEF Waking
    <2>d. \A e \in Cpu : started'[e] => pc'[e] # "off"
      BY <2>00, <2>a DEF Waking
    <2>4. Waking'
      BY <2>00, <2>2, <2>b, <2>c, <2>d DEF Waking
    <2>5. Counted' = Counted /\ Passed' = Passed
      BY <2>0, <2>00 DEF Counted, Passed, Types
    <2>6. Ready'
      BY <2>0, <2>00, <2>5 DEF Ready, Types
    <2>7. Count' /\ Open'
      BY <2>00, <2>5 DEF Count, Open, Used
    <2>8. SpreadOverAll'
      BY <2>0, <2>00 DEF SpreadOverAll, Types, Used
    <2> QED
      BY <2>1, <2>4, <2>6, <2>7, <2>8
  <1>4. CASE WakeupDone
    <2>1. Types' /\ Locking'
      BY <1>4 DEF WakeupDone, Types, Locking, Section
    <2>4. Waking'
      BY <1>4 DEF WakeupDone, Waking, Types, Used
    <2>5. Counted' = Counted /\ Passed' = Passed
      BY <1>4 DEF WakeupDone, Counted, Passed, Types
    <2>6. Ready'
      BY <1>4, <2>5 DEF WakeupDone, Ready, Types
    <2>7. Count' /\ Open'
      BY <1>4, <2>5 DEF WakeupDone, Count, Open, Used
    <2>8. SpreadOverAll'
      BY <1>4 DEF WakeupDone, SpreadOverAll, Types, Used
    <2> QED
      BY <2>1, <2>4, <2>6, <2>7, <2>8
  <1>5. CASE hello_world(c)
    <2>1. Types' /\ Locking'
      BY <1>5 DEF hello_world, Types, Locking, Section
    <2>3. pc' = [pc EXCEPT ![c] = "enter"] /\ pc[c] = "hello" /\ Used' = Used
          /\ UNCHANGED <<maximum_cpu, cpu>> /\ started' = [started EXCEPT ![c] = TRUE]
      BY <1>5 DEF hello_world, Used
    <2>4. Waking'
      BY <2>3 DEF Waking, Types
    <2>5. Counted' = Counted /\ Passed' = Passed
      BY <1>5 DEF hello_world, Counted, Passed, Types
    <2>6. Ready'
      BY <1>5, <2>5 DEF hello_world, Ready, Types
    <2>7. Count' /\ Open'
      BY <1>5, <2>5 DEF hello_world, Count, Open, Used
    <2>8. SpreadOverAll'
      BY <1>5 DEF hello_world, SpreadOverAll, Types, Used
    <2> QED
      BY <2>1, <2>4, <2>6, <2>7, <2>8
  <1> QED
    BY <1>1, <1>2, <1>3, <1>4, <1>5

\* The steps of cpu_sync.
LEMMA StepSync ==
    ASSUME IInv, NEW c \in Cpu,
           \/ section_enter(c) \/ LoadCount(c) \/ StoreCount(c)
           \/ section_leave(c) \/ PassBarrier(c)
    PROVE  IInv'
  <1> USE EntryFacts DEF IInv, Goto
  <1>0. UNCHANGED <<maximum_cpu, cpu, started, targets>> /\ Used' = Used
    BY DEF section_enter, LoadCount, StoreCount, section_leave, PassBarrier, Used
  <1>1. Types'
    <2>1. CASE section_enter(c)
      BY <2>1 DEF section_enter, Types
    <2>2. CASE LoadCount(c)
      BY <2>2 DEF LoadCount, Types
    <2>3. CASE StoreCount(c)
      BY <2>3 DEF StoreCount, Types
    <2>4. CASE section_leave(c)
      BY <2>4 DEF section_leave, Types
    <2>5. CASE PassBarrier(c)
      BY <2>5 DEF PassBarrier, Types
    <2> QED
      BY <2>1, <2>2, <2>3, <2>4, <2>5
  <1>2. Locking'
    <2>1. CASE section_enter(c)
      BY <2>1 DEF section_enter, Types, Locking, Section
    <2>2. CASE LoadCount(c)
      BY <2>2 DEF LoadCount, Types, Locking, Section
    <2>3. CASE StoreCount(c)
      BY <2>3 DEF StoreCount, Types, Locking, Section
    <2>4. CASE section_leave(c)
      BY <2>4 DEF section_leave, Types, Locking, Section
    <2>5. CASE PassBarrier(c)
      BY <2>5 DEF PassBarrier, Types, Locking, Section
    <2> QED
      BY <2>1, <2>2, <2>3, <2>4, <2>5
  <1>3. /\ \A d \in Cpu : d # c => pc'[d] = pc[d]
        /\ pc[c] \in {"enter", "load", "store", "leave", "spin"}
        /\ pc'[c] \in {"load", "store", "leave", "spin", "modules", "timer"}
        /\ c = BSP => pc'[c] # "timer"
    BY DEF section_enter, LoadCount, StoreCount, section_leave, PassBarrier, Types
  <1>4. Waking'
    BY <1>0, <1>3, SMTT(30) DEF Waking
  <1>5. Ready'
    BY <1>0, <1>3 DEF Ready, Counted, Passed
  <1>6. SpreadOverAll'
    BY <1>0, <1>3 DEF SpreadOverAll
  <1>7. Counted \subseteq Counted'
    BY <1>3 DEF Counted, Passed, section_enter, LoadCount, StoreCount, section_leave, PassBarrier, Types
  <1>8. Count'
    <2>1. CASE StoreCount(c)
      <3>1. c \notin Counted /\ Counted' = Counted \cup {c}
        BY <2>1 DEF StoreCount, Counted, Passed, Types
      <3>2. IsFiniteSet(Counted)
        BY UsedCounted, FS_Subset DEF Counted, Passed
      <3>3. awoken_cpu' = awoken_cpu + 1
        BY <2>1 DEF StoreCount, Locking
      <3> QED
        BY <3>1, <3>2, <3>3, FS_AddElement DEF Count
    <2>2. CASE ~StoreCount(c)
      <3>1. Counted' = Counted
        BY <2>2 DEF Counted, Passed, section_enter, LoadCount, section_leave, PassBarrier, Types
      <3> QED
        BY <2>2, <3>1 DEF Count, section_enter, LoadCount, section_leave, PassBarrier
    <2> QED
      BY <2>1, <2>2
  <1>9. Open'
    <2>1. CASE PassBarrier(c)
      <3>1. Counted \subseteq Used /\ maximum_cpu <= Len(Entries)
        <4>1. Counted \subseteq Used
          BY DEF Counted, Passed, Waking
        <4>2. c # BSP => pc[BSP] # "find"
          <5>1. PICK i \in 1..Len(Entries) : c = Entries[i]
            OBVIOUS
          <5> QED
            BY <2>1, <5>1 DEF PassBarrier, Waking
        <4> QED
          BY <2>1, <4>1, <4>2 DEF PassBarrier, Waking
      <3>2. Cardinality(Counted) = Cardinality(Used)
        BY <2>1, <3>1, UsedCounted DEF PassBarrier, Count
      <3>3. Counted = Used
        BY <3>1, <3>2, UsedCounted, FS_Subset
      <3> QED
        BY <1>0, <1>7, <3>3 DEF Open
    <2>2. CASE ~PassBarrier(c)
      <3>1. Passed' = Passed
        BY <2>2 DEF Passed, section_enter, LoadCount, StoreCount, section_leave, Types
      <3> QED
        BY <1>0, <1>7, <3>1 DEF Open
    <2> QED
      BY <2>1, <2>2
  <1> QED
    BY <1>1, <1>2, <1>4, <1>5, <1>6, <1>8, <1>9

\* The steps behind the barrier.
LEMMA StepAfter ==
    ASSUME IInv, NEW c \in Cpu, mboot_load_modules \/ sched_start_timer(c)
    PROVE  IInv'
  <1> USE EntryFacts DEF IInv, Goto
  <1>0. UNCHANGED <<maximum_cpu, cpu, started, awoken_cpu, lock, tmp>> /\ Used' = Used
    BY DEF mboot_load_modules, sched_start_timer, Used
  <1>a. PICK d \in Cpu, to \in {"timer", "idle_loop"} :
          pc' = [pc EXCEPT ![d] = to] /\ pc[d] \in {"modules", "timer"}
    BY DEF mboot_load_modules, sched_start_timer
  <1>b. targets' \subseteq Cpu
    BY DEF mboot_load_modules, sched_start_timer, Types
  <1>1. Types' /\ Locking'
    <2>1. Types'
      BY <1>0, <1>a, <1>b DEF Types
    <2>2. \A e \in Cpu : pc'[e] = IF e = d THEN to ELSE pc[e]
      BY <1>a DEF Types
    <2>3. Section' = Section
      BY <1>a, <2>2 DEF Section
    <2> QED
      BY <1>0, <1>a, <2>1, <2>2, <2>3 DEF Locking
  <1>2. Waking'
    BY <1>0 DEF mboot_load_modules, sched_start_timer, Types, Waking
  <1>3. Counted' = Counted /\ Passed' = Passed
    <2>1. \A e \in Cpu : pc'[e] = IF e = d THEN to ELSE pc[e]
      BY <1>a DEF Types
    <2> QED
      BY <1>a, <2>1 DEF Counted, Passed
  <1>4. Ready'
    BY <1>0, <1>3 DEF mboot_load_modules, sched_start_timer, Ready, Types
  <1>5. Count' /\ Open'
    BY <1>0, <1>3 DEF Count, Open
  <1>6. SpreadOverAll'
    <2>1. CASE mboot_load_modules
      <3>1. Used \subseteq Counted
        BY <2>1 DEF mboot_load_modules, Open, Passed
      <3>2. \A x \in Cpu : started[x] <=> x \in Used
        BY <3>1, UsedCounted DEF Ready, Waking
      <3>3. BSP \in Used
        BY DEF Waking
      <3>4. Used \subseteq Cpu
        BY UsedCounted
      <3>5. targets' = Used
        BY <2>1, <3>2, <3>3, <3>4 DEF mboot_load_modules
      <3> QED
        BY <1>0, <3>5 DEF SpreadOverAll
    <2>2. CASE sched_start_timer(c)
      BY <1>0, <2>2 DEF sched_start_timer, SpreadOverAll, Types
    <2> QED
      BY <2>1, <2>2
  <1> QED
    BY <1>1, <1>2, <1>4, <1>5, <1>6

\* The invariant is kept by every step.
LEMMA StepIInv == IInv /\ [Next]_vars => IInv'
  <1>1. ASSUME IInv, UNCHANGED vars PROVE IInv'
    BY <1>1 DEF vars, IInv, Types, Locking, Section, Waking, Ready, Count, Open,
                SpreadOverAll, Counted, Passed, Used
  <1>2. ASSUME IInv, NEW c \in Cpu, Step(c) PROVE IInv'
    BY <1>2, StepBefore, StepSync, StepAfter DEF Step
  <1> QED
    BY <1>1, <1>2 DEF Next

\* The invariant holds in every behaviour.
LEMMA InvariantHolds == Spec => []IInv
  BY InitIInv, StepIInv, PTL DEF Spec

\* The invariant implies the properties.
LEMMA InvariantEnough == IInv => TypeOK /\ BarrierHolds
  <1> SUFFICES ASSUME IInv PROVE TypeOK /\ BarrierHolds
    OBVIOUS
  <1>1. awoken_cpu <= maximum_cpu
    <2>1. Counted \subseteq Used /\ IsFiniteSet(Used) /\ Used \subseteq Cpu
      BY UsedCounted, FS_Subset DEF Counted, Passed, IInv, Waking
    <2>2. Cardinality(Counted) <= Cardinality(Used)
      BY <2>1, FS_Subset
    <2>3. CASE pc[BSP] = "find"
      <3>1. Counted = {}
        BY <2>3, EntryFacts DEF IInv, Waking, Counted, Passed
      <3> QED
        BY <3>1, FS_EmptySet DEF IInv, Count, Types
    <2>4. CASE pc[BSP] # "find"
      BY <2>2, <2>4, UsedCounted DEF IInv, Waking, Count
    <2> QED
      BY <2>3, <2>4
  <1>2. TypeOK
    BY <1>1 DEF IInv, Types, TypeOK
  <1>3. BarrierHolds
    BY UsedCounted DEF IInv, Open, Ready, BarrierHolds
  <1> QED
    BY <1>2, <1>3

\* cpu_sync is a barrier: whoever is past it, all CPUs in use have come to it,
\* and the count of awoken CPUs never overshoots the number waited for.
THEOREM BarrierIsSafe == Spec => []BarrierSound
  <1>1. IInv => BarrierSound
    BY InvariantEnough DEF BarrierSound
  <1> QED
    BY <1>1, InvariantHolds, PTL

\* mboot_load_modules lets scheduler_find choose among exactly the CPUs in use.
THEOREM ModulesSpread == Spec => []SpreadOverAll
  <1>1. IInv => SpreadOverAll
    BY DEF IInv
  <1> QED
    BY <1>1, InvariantHolds, PTL
-----------------------------------------------------------------------------
(* The locks that are taken inside one another (module HeapLock).           *)

\* What the constants of HeapLock satisfy.
LEMMA LockConstants ==
    /\ NCPU \in Nat \ {0} /\ MaxCalls \in Nat /\ Callers \subseteq Thread
    /\ Modules \in Seq(Thread) /\ Len(Modules) > 0
    /\ \A i, j \in 1..Len(Modules) : Modules[i] = Modules[j] => i = j
    /\ Thread = {Modules[i] : i \in 1..Len(Modules)}
    /\ Thread \cap Int = {}
  BY WaitingAssumption DEF H!HeapLockAssumption

\* The places inside list_push.
InPush == {"push", "elem", "new"}

\* CPU c's kernel code is its tick, not the loader.
Ticking(c) == ~(c = 0 /\ H!Loading)

\* CPU c's tick has a thread that is in no queue.
InHand(c) == Ticking(c) /\ at[c] \in InPush \cup {"can_run"}

\* The threads of CPU c that are in no queue: one or none.
Hand(c) == IF InHand(c) \/ (at[c] = "run" /\ current[c] # H!Nobody) THEN 1 ELSE 0

\* Thread t is in CPU c's queue.
Queued(c, t) == \E i \in 1..Len(queue[c]) : queue[c][i] = t

\* Thread t is CPU c's.
Has(c, t) == Queued(c, t) \/ current[c] = t \/ (InHand(c) /\ item[c] = t)

\* The loader has given t to a CPU.
Given(t) == \E i \in 1..H!Loaded : Modules[i] = t

\* Where the loader and the CPUs can be, and with which thread.
Places ==
    /\ H!Loading => at[0] \in {"load", "load_heap"} \cup InPush /\ current[0] = H!Nobody
    /\ ~H!Loading => at[0] \notin {"load", "load_heap"}
    /\ \A c \in H!Cpu \ {0} : at[c] \notin {"load", "load_heap"}
    /\ \A c \in H!Cpu : InHand(c) => item[c] \in Thread
    /\ H!Loading /\ at[0] \in InPush => item[0] = Modules[H!Loaded + 1]
    /\ H!Loaded <= Len(Modules)

\* A list's lock is held exactly by the CPU that is between its two ends.
ListLocks ==
    \A c, d \in H!Cpu : list[d] = c <=> at[c] \in {"elem", "new"} /\ H!Where(c) = d

\* So is the heap's, by a CPU or by a thread in kmalloc.
HeapLocked ==
    /\ \A c \in H!Cpu : heap = c <=> at[c] \in {"new", "load_heap"}
    /\ \A t \in Thread : heap = t <=> tpc[t] = "held"

\* An element is spare or carries a queued thread; a CPU never has more of them
\* than threads, and has one as soon as it has a thread.
ElementsCounted(c) ==
    /\ cells[c] = spare[c] + Len(queue[c])
    /\ load[c] = Len(queue[c]) + Hand(c)
    /\ cells[c] <= load[c]
    /\ load[c] > 0 => cells[c] > 0
    /\ current[c] # H!Nobody => load[c] > 0
    /\ at[c] = "new" => spare[H!Where(c)] = 0

\* CPU 0, which takes no ticks while it loads, has as many elements as threads.
Elements ==
    /\ \A c \in H!Cpu : ElementsCounted(c)
    /\ cells[0] = load[0]
    /\ H!Loading => spare[0] = 0

\* A thread belongs to one CPU, and makes no call before it was given to it.
Owners ==
    /\ \A c, d \in H!Cpu, t \in Thread : Has(c, t) /\ Has(d, t) => c = d
    /\ \A c \in H!Cpu, t \in Thread : Has(c, t) => Given(t)
    /\ \A t \in Thread : ~Given(t) \/ (H!Loading /\ Has(0, t)) => tpc[t] = "user"

\* The inductive invariant of module HeapLock.
LocksInv == H!TypeOK /\ Places /\ ListLocks /\ HeapLocked /\ Elements /\ Owners

\* Whom a waits for; the end of a chain of waiting stays its end.
Waits(a) == IF a = H!Nobody THEN H!Nobody ELSE H!WaitsFor(a)

\* A CPU other than 0 has two threads or more, and lacks an element.
Short == \E c \in H!Cpu \ {0} : H!Share(c) >= 2 /\ cells[c] < H!Share(c)

\* A set of numbers has a smallest one; it stands for induction.
LEMMA Smallest ==
    ASSUME NEW S, S \subseteq Nat, S # {}
    PROVE  \E x \in S : \A y \in S : x <= y
  <1> DEFINE R == OpToRel(<, Nat)
  <1>1. IsWellFoundedOn(R, Nat)
    BY NatLessThanWellFounded
  <1>2. \A x, y \in Nat : <<y, x>> \in R <=> y < x
    BY DEF OpToRel
  <1> HIDE DEF R
  <1>3. PICK x \in S : \A y \in S : ~(<<y, x>> \in R)
    BY <1>1, WFMin
  <1>4. \A y \in S : x <= y
    <2> SUFFICES ASSUME NEW y \in S PROVE x <= y
      OBVIOUS
    <2>1. x \in Nat /\ y \in Nat
      OBVIOUS
    <2>2. ~(y < x)
      BY <1>2, <1>3, <2>1, Zenon
    <2> QED
      BY <2>1, <2>2
  <1> QED
    BY <1>4

\* The running sums that Loaded is the last of.
IsSum(ld, n, s) == s = [c \in -1..n |-> IF c = -1 THEN 0 ELSE s[c - 1] + ld[c]]

SumOf(ld) == LET sum[c \in -1..(NCPU - 1)] == IF c = -1 THEN 0 ELSE sum[c - 1] + ld[c]
             IN  sum[NCPU - 1]

\* They exist for every number of CPUs.
LEMMA SumExists ==
    ASSUME NEW ld, NEW n \in Nat
    PROVE  \E s : IsSum(ld, n - 1, s)
  <1> DEFINE Bad == {m \in Nat : ~ \E s : IsSum(ld, m - 1, s)}
  <1> SUFFICES ASSUME Bad # {} PROVE FALSE
    OBVIOUS
  <1>1. PICK m \in Bad : \A y \in Bad : m <= y
    <2>1. Bad \subseteq Nat
      OBVIOUS
    <2> HIDE DEF Bad
    <2> QED
      BY <2>1, Smallest
  <1>2. m # 0
    <2> DEFINE s == [c \in -1..(0 - 1) |-> 0]
    <2>1. IsSum(ld, 0 - 1, s)
      BY DEF IsSum
    <2> QED
      BY <2>1
  <1>3. m \in Nat /\ m - 1 \in Nat /\ m - 1 \notin Bad
    BY <1>1, <1>2
  <1>4. PICK s : IsSum(ld, m - 1 - 1, s)
    BY <1>3
  <1> DEFINE r == [c \in -1..(m - 1) |-> IF c = m - 1 THEN s[m - 2] + ld[m - 1] ELSE s[c]]
  <1>5. \A c \in -1..(m - 1) : r[c] = IF c = -1 THEN 0 ELSE r[c - 1] + ld[c]
    <2> SUFFICES ASSUME NEW c \in -1..(m - 1)
                 PROVE  r[c] = IF c = -1 THEN 0 ELSE r[c - 1] + ld[c]
      OBVIOUS
    <2>1. \A x \in -1..(m - 2) : s[x] = IF x = -1 THEN 0 ELSE s[x - 1] + ld[x]
      BY <1>3, <1>4 DEF IsSum
    <2>2. CASE c = m - 1
      BY <1>3, <2>2
    <2>3. CASE c # m - 1
      <3>1. c \in -1..(m - 2) /\ (c # -1 => c - 1 \in -1..(m - 1) /\ c - 1 # m - 1)
        BY <1>3, <2>3
      <3> QED
        BY <2>1, <2>3, <3>1
    <2> QED
      BY <2>2, <2>3
  <1>6. IsSum(ld, m - 1, r)
    BY <1>5 DEF IsSum
  <1> QED
    BY <1>3, <1>6

\* Loaded is the last of the running sums.
LEMMA SumIs ==
    ASSUME NEW ld
    PROVE  \E s : IsSum(ld, NCPU - 1, s) /\ SumOf(ld) = s[NCPU - 1]
  <1>1. \E s : IsSum(ld, NCPU - 1, s)
    BY SumExists, LockConstants
  <1> DEFINE s == CHOOSE s : s = [c \in -1..(NCPU - 1) |-> IF c = -1 THEN 0 ELSE s[c - 1] + ld[c]]
  <1>2. IsSum(ld, NCPU - 1, s)
    BY <1>1 DEF IsSum
  <1>3. SumOf(ld) = s[NCPU - 1]
    BY DEF SumOf
  <1> QED
    BY <1>2, <1>3

\* One thread more for one CPU is one more in all.
LEMMA SumPlus ==
    ASSUME NEW ld \in [H!Cpu -> Nat], NEW d \in H!Cpu
    PROVE  SumOf(ld) \in Nat /\ SumOf([ld EXCEPT ![d] = @ + 1]) = SumOf(ld) + 1
  <1> DEFINE more == [ld EXCEPT ![d] = @ + 1]
  <1>0. NCPU \in Nat \ {0} /\ d \in 0..(NCPU - 1)
    BY LockConstants DEF H!Cpu
  <1>1. PICK s : IsSum(ld, NCPU - 1, s) /\ SumOf(ld) = s[NCPU - 1]
    BY SumIs
  <1>2. PICK r : IsSum(more, NCPU - 1, r) /\ SumOf(more) = r[NCPU - 1]
    BY SumIs
  <1>3. \A x \in -1..(NCPU - 1) : s[x] = IF x = -1 THEN 0 ELSE s[x - 1] + ld[x]
    BY <1>0, <1>1 DEF IsSum
  <1>4. \A x \in -1..(NCPU - 1) : r[x] = IF x = -1 THEN 0 ELSE r[x - 1] + more[x]
    BY <1>0, <1>2 DEF IsSum
  <1>5. \A x \in 0..(NCPU - 1) : ld[x] \in Nat /\ more[x] = ld[x] + (IF x = d THEN 1 ELSE 0)
    BY DEF H!Cpu
  <1> DEFINE Good(x) == s[x] \in Nat /\ r[x] = s[x] + (IF x >= d THEN 1 ELSE 0)
             Bad == {m \in Nat : m <= NCPU /\ ~Good(m - 1)}
  <1> HIDE DEF more
  <1>6. Bad = {}
    <2> SUFFICES ASSUME Bad # {} PROVE FALSE
      OBVIOUS
    <2>1. PICK m \in Bad : \A y \in Bad : m <= y
      <3>1. Bad \subseteq Nat
        OBVIOUS
      <3> HIDE DEF Bad
      <3> QED
        BY <3>1, Smallest
    <2>2. m # 0
      <3> SUFFICES ASSUME m = 0 PROVE FALSE
        OBVIOUS
      <3>1. s[-1] = 0 /\ r[-1] = 0 /\ ~(-1 >= d)
        BY <1>0, <1>3, <1>4
      <3>2. 0 - 1 = -1 /\ ~Good(0 - 1)
        BY <2>1
      <3> QED
        BY <3>1, <3>2
    <2>3. m \in Nat /\ m <= NCPU /\ m - 1 \in Nat /\ m - 1 \in 0..(NCPU - 1) /\ m - 1 # -1
      BY <1>0, <2>1, <2>2
    <2>4. Good(m - 1 - 1)
      <3>1. m - 1 \notin Bad /\ m - 1 <= NCPU
        <4> HIDE DEF Bad
        <4> QED
          BY <1>0, <2>1, <2>3
      <3> HIDE DEF Good
      <3> QED
        BY <2>3, <3>1
    <2>5. s[m - 1] = s[m - 1 - 1] + ld[m - 1] /\ r[m - 1] = r[m - 1 - 1] + more[m - 1]
      BY <1>0, <1>3, <1>4, <2>3
    <2>6. Good(m - 1)
      BY <1>0, <1>5, <2>3, <2>4, <2>5
    <2> QED
      BY <2>1, <2>6
  <1>7. NCPU \notin Bad
    BY <1>6
  <1>8. Good(NCPU - 1)
    BY <1>0, <1>7
  <1> QED
    BY <1>0, <1>1, <1>2, <1>8 DEF more

\* Nobody has a thread in the beginning.
LEMMA SumZero == SumOf([c \in H!Cpu |-> 0]) = 0
  <1> DEFINE ld == [c \in H!Cpu |-> 0]
  <1>0. NCPU \in Nat \ {0}
    BY LockConstants
  <1>1. PICK s : IsSum(ld, NCPU - 1, s) /\ SumOf(ld) = s[NCPU - 1]
    BY SumIs
  <1>2. \A x \in -1..(NCPU - 1) : s[x] = IF x = -1 THEN 0 ELSE s[x - 1] + 0
    BY <1>0, <1>1 DEF IsSum, H!Cpu
  <1> DEFINE Bad == {m \in Nat : m <= NCPU /\ s[m - 1] # 0}
  <1>3. Bad = {}
    <2> SUFFICES ASSUME Bad # {} PROVE FALSE
      OBVIOUS
    <2>1. PICK m \in Bad : \A y \in Bad : m <= y
      <3>1. Bad \subseteq Nat
        OBVIOUS
      <3> HIDE DEF Bad
      <3> QED
        BY <3>1, Smallest
    <2>2. m # 0
      <3>1. s[-1] = 0 /\ 0 - 1 = -1
        BY <1>0, <1>2
      <3> QED
        BY <2>1, <3>1
    <2>3. m \in Nat /\ m <= NCPU /\ m - 1 \in Nat /\ m - 1 \in -1..(NCPU - 1) /\ m - 1 # -1
      BY <1>0, <2>1, <2>2
    <2>4. s[m - 1 - 1] = 0
      <3>1. m - 1 \notin Bad /\ m - 1 <= NCPU
        <4> HIDE DEF Bad
        <4> QED
          BY <1>0, <2>1, <2>3
      <3> QED
        BY <2>3, <3>1
    <2>5. s[m - 1] = s[m - 1 - 1] + 0
      BY <1>2, <2>3
    <2>6. s[m - 1] # 0
      BY <2>1
    <2> QED
      BY <2>4, <2>5, <2>6
  <1>4. s[NCPU - 1] = 0
    <2>1. NCPU \notin Bad
      BY <1>3
    <2> QED
      BY <1>0, <2>1
  <1> QED
    BY <1>1, <1>4

\* The threads given so far.
LEMMA LoadedSum == H!Loaded = SumOf(load)
  BY DEF H!Loaded, SumOf

LEMMA LoadedSumNext == H!Loaded' = SumOf(load')
  BY DEF H!Loaded, SumOf

\* Numbers of CPUs, threads and Nobody are different things.
LEMMA Actors ==
    /\ NCPU \in Nat \ {0} /\ 0 \in H!Cpu /\ H!Cpu \subseteq Int
    /\ H!Nobody \notin H!Cpu /\ H!Nobody \notin Thread
    /\ \A t \in Thread : t \notin H!Cpu
    /\ \A c \in H!Cpu : c \notin Thread /\ c # H!Nobody
    /\ Len(Modules) \in Nat \ {0}
    /\ \A i \in 1..Len(Modules) : Modules[i] \in Thread
  BY LockConstants DEF H!Cpu, H!Nobody

\* A step that gives no thread to a CPU leaves Loading and Where alone.
LEMMA LoadSame ==
    ASSUME load' = load
    PROVE  H!Loaded' = H!Loaded /\ (H!Loading' <=> H!Loading)
  <1>1. H!Loaded' = H!Loaded
    BY LoadedSum, LoadedSumNext
  <1> QED
    BY <1>1 DEF H!Loading

LEMMA WhereSame ==
    ASSUME load' = load, target' = target
    PROVE  \A c \in H!Cpu : H!Where(c)' = H!Where(c) /\ (Ticking(c)' <=> Ticking(c))
  BY LoadSame DEF H!Where, Ticking

LEMMA WhereIn ==
    ASSUME H!TypeOK
    PROVE  /\ H!Loaded \in Nat
           /\ \A c \in H!Cpu : H!Where(c) \in H!Cpu /\ (Ticking(c) => H!Where(c) = c)
  <1>1. H!Loaded \in Nat
    BY LoadedSum, SumPlus, Actors DEF H!TypeOK
  <1> QED
    BY <1>1, Actors DEF H!TypeOK, H!Where, Ticking

\* The invariant holds before the first module is loaded.
LEMMA LocksInit == H!Init => LocksInv
  <1> SUFFICES ASSUME H!Init PROVE LocksInv
    OBVIOUS
  <1>1. H!Loaded = 0 /\ H!Loading
    BY LoadedSum, SumZero, Actors DEF H!Init, H!Loading
  <1>2. H!TypeOK
    BY Actors, LockConstants DEF H!Init, H!TypeOK
  <1>3. Places
    BY <1>1, Actors DEF H!Init, Places, InPush, InHand, Ticking
  <1>4. ListLocks /\ HeapLocked
    BY Actors DEF H!Init, ListLocks, HeapLocked
  <1>5. Elements
    BY <1>1, Actors DEF H!Init, Elements, Hand, InHand, Ticking, InPush
  <1>6. Owners
    BY <1>1, Actors DEF H!Init, Owners, Has, Queued, InHand, Ticking, InPush
  <1> QED
    BY <1>2, <1>3, <1>4, <1>5, <1>6 DEF LocksInv

\* What Append and Tail do to a queue.
LEMMA PushedQueue ==
    ASSUME NEW s \in Seq(Thread), NEW x \in Thread
    PROVE  /\ Append(s, x) \in Seq(Thread) /\ Len(Append(s, x)) = Len(s) + 1
           /\ \A t : (\E i \in 1..Len(Append(s, x)) : Append(s, x)[i] = t)
                       <=> t = x \/ \E i \in 1..Len(s) : s[i] = t
  <1> DEFINE r == Append(s, x)
  <1>1. Len(s) \in Nat /\ r \in Seq(Thread) /\ Len(r) = Len(s) + 1
    OBVIOUS
  <1>2. r[Len(s) + 1] = x /\ \A i \in 1..Len(s) : r[i] = s[i]
    OBVIOUS
  <1>3. \A i \in 1..Len(r) : i \in 1..Len(s) \/ i = Len(s) + 1
    BY <1>1
  <1>4. Len(s) + 1 \in 1..Len(r) /\ \A i \in 1..Len(s) : i \in 1..Len(r)
    BY <1>1
  <1> HIDE DEF r
  <1>5. \A t : (\E i \in 1..Len(r) : r[i] = t) <=> t = x \/ \E i \in 1..Len(s) : s[i] = t
    BY <1>2, <1>3, <1>4
  <1> QED
    BY <1>1, <1>5 DEF r

LEMMA PoppedQueue ==
    ASSUME NEW s \in Seq(Thread), s # <<>>
    PROVE  /\ Tail(s) \in Seq(Thread) /\ Len(s) \in Nat /\ Len(Tail(s)) = Len(s) - 1
           /\ Head(s) \in Thread
           /\ \A t : t = Head(s) \/ (\E i \in 1..Len(Tail(s)) : Tail(s)[i] = t)
                       => \E i \in 1..Len(s) : s[i] = t
  <1> DEFINE r == Tail(s)
  <1>1. Len(s) \in Nat /\ Len(s) # 0 /\ r \in Seq(Thread) /\ Len(r) = Len(s) - 1
    OBVIOUS
  <1>2. Head(s) = s[1] /\ s[1] \in Thread /\ \A i \in 1..Len(r) : r[i] = s[i + 1]
    OBVIOUS
  <1>3. 1 \in 1..Len(s) /\ \A i \in 1..Len(r) : i + 1 \in 1..Len(s)
    BY <1>1
  <1> HIDE DEF r
  <1>4. \A t : t = s[1] \/ (\E i \in 1..Len(r) : r[i] = t) => \E i \in 1..Len(s) : s[i] = t
    BY <1>2, <1>3
  <1> QED
    BY <1>1, <1>2, <1>4 DEF r

\* Threads stay where they are.
LEMMA OwnersKept ==
    ASSUME Owners, H!Loaded' = H!Loaded, H!Loading' <=> H!Loading,
           \A d \in H!Cpu, t \in Thread : Has(d, t)' => Has(d, t),
           \A t \in Thread : ~Given(t) \/ (H!Loading /\ Has(0, t)) => tpc'[t] = "user"
    PROVE  Owners'
  <1>1. \A t \in Thread : Given(t)' <=> Given(t)
    BY DEF Given
  <1> QED
    BY <1>1, Actors DEF Owners

LEMMA CountTypes ==
    ASSUME H!TypeOK, NEW d \in H!Cpu
    PROVE  /\ cells[d] \in Nat /\ spare[d] \in Nat /\ load[d] \in Nat
           /\ queue[d] \in Seq(Thread) /\ Len(queue[d]) \in Nat
           /\ Hand(d) \in {0, 1}
  BY DEF H!TypeOK, Hand

\* The elements of a CPU that the step does not concern.
LEMMA CountedSame ==
    ASSUME Elements, NEW d \in H!Cpu,
           cells'[d] = cells[d], spare'[d] = spare[d], queue'[d] = queue[d], load'[d] = load[d],
           Hand(d)' = Hand(d), current'[d] = current[d],
           at'[d] = "new" => spare'[H!Where(d)'] = 0
    PROVE  ElementsCounted(d)'
  BY DEF Elements, ElementsCounted

\* list_push takes the list's lock.
LEMMA PushEnterInv ==
    ASSUME LocksInv, NEW c \in H!Cpu, H!PushEnter(c)
    PROVE  LocksInv'
  <1> USE Actors
  <1>0. UNCHANGED <<heap, H!queues, current, item, load, target, tpc, calls>>
    BY DEF H!PushEnter
  <1>a. H!Loaded' = H!Loaded /\ (H!Loading' <=> H!Loading)
    BY <1>0, LoadSame
  <1>b. \A d \in H!Cpu : H!Where(d)' = H!Where(d) /\ (Ticking(d)' <=> Ticking(d))
    BY <1>0, WhereSame
  <1>c. H!Loaded \in Nat /\ \A d \in H!Cpu : H!Where(d) \in H!Cpu /\ (Ticking(d) => H!Where(d) = d)
    BY WhereIn DEF LocksInv
  <1>1. H!TypeOK'
    BY <1>0, <1>c DEF LocksInv, H!TypeOK, H!PushEnter, H!queues
  <1>2. Places'
    BY <1>0, <1>a, <1>b, ZenonT(60) DEF LocksInv, H!TypeOK, Places, H!PushEnter, InHand, InPush
  <1>3. ListLocks'
    <2>0. at[c] = "push" /\ list[H!Where(c)] = H!Nobody /\ H!Where(c) \in H!Cpu
      BY <1>c DEF H!PushEnter
    <2>1. \A d \in H!Cpu : at'[d] = IF d = c THEN "elem" ELSE at[d]
      BY DEF LocksInv, H!TypeOK, H!PushEnter
    <2>2. \A d \in H!Cpu : list'[d] = IF d = H!Where(c) THEN c ELSE list[d]
      BY DEF LocksInv, H!TypeOK, H!PushEnter
    <2> SUFFICES ASSUME NEW h \in H!Cpu, NEW d \in H!Cpu
                 PROVE  list'[d] = h <=> at'[h] \in {"elem", "new"} /\ H!Where(h)' = d
      BY DEF ListLocks
    <2>3. list[d] = h <=> at[h] \in {"elem", "new"} /\ H!Where(h) = d
      BY DEF LocksInv, ListLocks
    <2> QED
      BY <1>b, <2>0, <2>1, <2>2, <2>3
  <1>4. HeapLocked'
    BY <1>0, <1>b, <1>c DEF LocksInv, H!TypeOK, HeapLocked, H!PushEnter
  <1>5. Elements'
    BY <1>0, <1>a, <1>b, <1>c, ZenonT(60)
    DEF LocksInv, H!TypeOK, Elements, ElementsCounted, H!PushEnter, Hand,
       InHand, InPush, H!queues
  <1>6. Owners'
    <2>1. \A d \in H!Cpu : InHand(d)' <=> InHand(d)
      BY <1>b DEF LocksInv, H!TypeOK, H!PushEnter, InHand, InPush
    <2>2. \A d \in H!Cpu, t \in Thread : Has(d, t)' <=> Has(d, t)
      BY <1>0, <2>1 DEF Has, Queued, H!queues
    <2> QED
      BY <1>0, <1>a, <2>2, OwnersKept DEF LocksInv, Owners
  <1> QED
    BY <1>1, <1>2, <1>3, <1>4, <1>5, <1>6 DEF LocksInv

\* list_push finds no spare element and takes the heap's lock.
LEMMA PushAllocInv ==
    ASSUME LocksInv, NEW c \in H!Cpu, H!PushAlloc(c)
    PROVE  LocksInv'
  <1> USE Actors
  <1>0. UNCHANGED <<list, H!queues, current, item, load, target, tpc, calls>>
    BY DEF H!PushAlloc
  <1>a. H!Loaded' = H!Loaded /\ (H!Loading' <=> H!Loading)
    BY <1>0, LoadSame
  <1>b. \A d \in H!Cpu : H!Where(d)' = H!Where(d) /\ (Ticking(d)' <=> Ticking(d))
    BY <1>0, WhereSame
  <1>c. H!Loaded \in Nat /\ \A d \in H!Cpu : H!Where(d) \in H!Cpu /\ (Ticking(d) => H!Where(d) = d)
    BY WhereIn DEF LocksInv
  <1>d. at[c] = "elem" /\ heap = H!Nobody /\ heap' = c /\ spare[H!Where(c)] = 0
    BY DEF H!PushAlloc
  <1>e. \A d \in H!Cpu : at'[d] = IF d = c THEN "new" ELSE at[d]
    BY DEF LocksInv, H!TypeOK, H!PushAlloc
  <1>1. H!TypeOK'
    BY <1>0 DEF LocksInv, H!TypeOK, H!PushAlloc, H!queues
  <1>2. Places'
    BY <1>0, <1>a, <1>b, <1>d, <1>e DEF LocksInv, Places, InHand, InPush
  <1>3. ListLocks'
    <2> SUFFICES ASSUME NEW h \in H!Cpu, NEW d \in H!Cpu
                 PROVE  list'[d] = h <=> at'[h] \in {"elem", "new"} /\ H!Where(h)' = d
      BY DEF ListLocks
    <2>1. list[d] = h <=> at[h] \in {"elem", "new"} /\ H!Where(h) = d
      BY DEF LocksInv, ListLocks
    <2> QED
      BY <1>0, <1>b, <1>d, <1>e, <2>1
  <1>4. HeapLocked'
    BY <1>0, <1>d, <1>e DEF LocksInv, HeapLocked
  <1>5. Elements'
    <2>1. \A d \in H!Cpu : Hand(d)' = Hand(d)
      BY <1>0, <1>b, <1>d, <1>e DEF Hand, InHand, InPush
    <2>2. \A d \in H!Cpu : at'[d] = "new" => spare'[H!Where(d)'] = 0
      BY <1>0, <1>b, <1>d, <1>e DEF LocksInv, Elements, ElementsCounted, H!queues
    <2>3. \A d \in H!Cpu : ElementsCounted(d)'
      BY <1>0, <1>e, <2>1, <2>2 DEF LocksInv, Elements, ElementsCounted, H!queues
    <2> QED
      BY <1>0, <1>a, <2>3 DEF LocksInv, Elements, H!queues
  <1>6. Owners'
    <2>1. \A d \in H!Cpu : InHand(d)' <=> InHand(d)
      BY <1>b, <1>d, <1>e DEF InHand, InPush
    <2>2. \A d \in H!Cpu, t \in Thread : Has(d, t)' <=> Has(d, t)
      BY <1>0, <2>1 DEF Has, Queued, H!queues
    <2> QED
      BY <1>0, <1>a, <2>2, OwnersKept DEF LocksInv, Owners
  <1> QED
    BY <1>1, <1>2, <1>3, <1>4, <1>5, <1>6 DEF LocksInv

\* The loader allocates before it gives a thread to a CPU.
LEMMA LoadAllocInv ==
    ASSUME LocksInv, H!LoadAlloc
    PROVE  LocksInv'
  <1> USE Actors
  <1>0. UNCHANGED <<list, H!queues, current, item, load, target, tpc, calls>>
    BY DEF H!LoadAlloc
  <1>a. H!Loaded' = H!Loaded /\ (H!Loading' <=> H!Loading)
    BY <1>0, LoadSame
  <1>b. \A d \in H!Cpu : H!Where(d)' = H!Where(d) /\ (Ticking(d)' <=> Ticking(d))
    BY <1>0, WhereSame
  <1>c. H!Loaded \in Nat /\ \A d \in H!Cpu : H!Where(d) \in H!Cpu /\ (Ticking(d) => H!Where(d) = d)
    BY WhereIn DEF LocksInv
  <1>d. at[0] = "load" /\ heap = H!Nobody /\ heap' = 0
    BY DEF H!LoadAlloc
  <1>e. \A d \in H!Cpu : at'[d] = IF d = 0 THEN "load_heap" ELSE at[d]
    BY DEF LocksInv, H!TypeOK, H!LoadAlloc
  <1>1. H!TypeOK'
    BY <1>0 DEF LocksInv, H!TypeOK, H!LoadAlloc, H!queues
  <1>2. Places'
    BY <1>0, <1>a, <1>b, <1>d, <1>e DEF LocksInv, Places, InHand, InPush
  <1>3. ListLocks'
    <2> SUFFICES ASSUME NEW h \in H!Cpu, NEW d \in H!Cpu
                 PROVE  list'[d] = h <=> at'[h] \in {"elem", "new"} /\ H!Where(h)' = d
      BY DEF ListLocks
    <2>1. list[d] = h <=> at[h] \in {"elem", "new"} /\ H!Where(h) = d
      BY DEF LocksInv, ListLocks
    <2> QED
      BY <1>0, <1>b, <1>d, <1>e, <2>1
  <1>4. HeapLocked'
    BY <1>0, <1>d, <1>e DEF LocksInv, HeapLocked
  <1>5. Elements'
    <2>1. \A d \in H!Cpu : Hand(d)' = Hand(d)
      BY <1>0, <1>b, <1>d, <1>e DEF Hand, InHand, InPush
    <2>2. \A d \in H!Cpu : at'[d] = "new" => spare'[H!Where(d)'] = 0
      BY <1>0, <1>b, <1>d, <1>e DEF LocksInv, Elements, ElementsCounted, H!queues
    <2>3. \A d \in H!Cpu : ElementsCounted(d)'
      BY <1>0, <1>e, <2>1, <2>2 DEF LocksInv, Elements, ElementsCounted, H!queues
    <2> QED
      BY <1>0, <1>a, <2>3 DEF LocksInv, Elements, H!queues
  <1>6. Owners'
    <2>1. \A d \in H!Cpu : InHand(d)' <=> InHand(d)
      BY <1>b, <1>d, <1>e DEF InHand, InPush
    <2>2. \A d \in H!Cpu, t \in Thread : Has(d, t)' <=> Has(d, t)
      BY <1>0, <2>1 DEF Has, Queued, H!queues
    <2> QED
      BY <1>0, <1>a, <2>2, OwnersKept DEF LocksInv, Owners
  <1> QED
    BY <1>1, <1>2, <1>3, <1>4, <1>5, <1>6 DEF LocksInv

\* A tick finds its queue empty.
LEMMA PickIdleInv ==
    ASSUME LocksInv, NEW c \in H!Cpu, H!PickIdle(c)
    PROVE  LocksInv'
  <1> USE Actors
  <1>0. UNCHANGED <<H!locks, H!queues, item, load, target, tpc, calls>>
    BY DEF H!PickIdle
  <1>a. H!Loaded' = H!Loaded /\ (H!Loading' <=> H!Loading)
    BY <1>0, LoadSame
  <1>b. \A d \in H!Cpu : H!Where(d)' = H!Where(d) /\ (Ticking(d)' <=> Ticking(d))
    BY <1>0, WhereSame
  <1>c. H!Loaded \in Nat /\ \A d \in H!Cpu : H!Where(d) \in H!Cpu /\ (Ticking(d) => H!Where(d) = d)
    BY WhereIn DEF LocksInv
  <1>d. at[c] = "pick" /\ Ticking(c)
    BY DEF H!PickIdle, LocksInv, Places, InPush, Ticking
  <1>e. \A d \in H!Cpu : /\ at'[d] = IF d = c THEN "run" ELSE at[d]
                         /\ current'[d] = IF d = c THEN H!Nobody ELSE current[d]
    BY DEF LocksInv, H!TypeOK, H!PickIdle
  <1>1. H!TypeOK'
    BY <1>0 DEF LocksInv, H!TypeOK, H!PickIdle, H!queues, H!locks
  <1>2. Places'
    BY <1>0, <1>a, <1>b, <1>d, <1>e DEF LocksInv, Places, InHand, InPush, Ticking
  <1>3. ListLocks'
    <2> SUFFICES ASSUME NEW h \in H!Cpu, NEW d \in H!Cpu
                 PROVE  list'[d] = h <=> at'[h] \in {"elem", "new"} /\ H!Where(h)' = d
      BY DEF ListLocks
    <2>1. list[d] = h <=> at[h] \in {"elem", "new"} /\ H!Where(h) = d
      BY DEF LocksInv, ListLocks
    <2> QED
      BY <1>0, <1>b, <1>d, <1>e, <2>1 DEF H!locks
  <1>4. HeapLocked'
    BY <1>0, <1>d, <1>e DEF LocksInv, HeapLocked, H!locks
  <1>5. Elements'
    <2>1. \A d \in H!Cpu : Hand(d)' = Hand(d)
      BY <1>0, <1>b, <1>d, <1>e DEF Hand, InHand, InPush
    <2>2. \A d \in H!Cpu : at'[d] = "new" => spare'[H!Where(d)'] = 0
      BY <1>0, <1>b, <1>d, <1>e DEF LocksInv, Elements, ElementsCounted, H!queues
    <2>3. \A d \in H!Cpu : ElementsCounted(d)'
      BY <1>0, <1>e, <2>1, <2>2 DEF LocksInv, Elements, ElementsCounted, H!queues
    <2> QED
      BY <1>0, <1>a, <2>3 DEF LocksInv, Elements, H!queues
  <1>6. Owners'
    <2>1. \A d \in H!Cpu : InHand(d)' <=> InHand(d)
      BY <1>b, <1>d, <1>e DEF InHand, InPush
    <2>2. \A d \in H!Cpu, t \in Thread : Has(d, t)' => Has(d, t)
      BY <1>0, <1>e, <2>1 DEF Has, Queued, H!queues
    <2> QED
      BY <1>0, <1>a, <2>2, OwnersKept DEF LocksInv, Owners
  <1> QED
    BY <1>1, <1>2, <1>3, <1>4, <1>5, <1>6 DEF LocksInv

\* A tick takes the first thread; the element becomes spare.
LEMMA PickInv ==
    ASSUME LocksInv, NEW c \in H!Cpu, H!Pick(c)
    PROVE  LocksInv'
  <1> USE Actors
  <1>0. UNCHANGED <<H!locks, cells, current, load, target, tpc, calls>>
    BY DEF H!Pick
  <1>a. H!Loaded' = H!Loaded /\ (H!Loading' <=> H!Loading)
    BY <1>0, LoadSame
  <1>b. \A d \in H!Cpu : H!Where(d)' = H!Where(d) /\ (Ticking(d)' <=> Ticking(d))
    BY <1>0, WhereSame
  <1>c. H!Loaded \in Nat /\ \A d \in H!Cpu : H!Where(d) \in H!Cpu /\ (Ticking(d) => H!Where(d) = d)
    BY WhereIn DEF LocksInv
  <1>d. at[c] = "pick" /\ Ticking(c) /\ list[c] = H!Nobody
    BY DEF H!Pick, LocksInv, Places, InPush, Ticking
  <1>e. \A d \in H!Cpu : /\ at'[d] = IF d = c THEN "can_run" ELSE at[d]
                         /\ item'[d] = IF d = c THEN Head(queue[c]) ELSE item[d]
                         /\ queue'[d] = IF d = c THEN Tail(queue[c]) ELSE queue[d]
                         /\ spare'[d] = IF d = c THEN spare[c] + 1 ELSE spare[d]
    BY DEF LocksInv, H!TypeOK, H!Pick
  <1>f. queue[c] \in Seq(Thread) /\ queue[c] # <<>>
    BY DEF LocksInv, H!TypeOK, H!Pick
  <1>g. /\ Tail(queue[c]) \in Seq(Thread) /\ Head(queue[c]) \in Thread
        /\ Len(queue[c]) \in Nat /\ Len(Tail(queue[c])) = Len(queue[c]) - 1
        /\ \A t : t = Head(queue[c]) \/ (\E i \in 1..Len(Tail(queue[c])) : Tail(queue[c])[i] = t)
                       => \E i \in 1..Len(queue[c]) : queue[c][i] = t
    BY <1>f, PoppedQueue
  <1>1. H!TypeOK'
    <2>1. UNCHANGED <<heap, list>>
      BY <1>0 DEF H!locks
    <2>2. queue' \in [H!Cpu -> Seq(Thread)] /\ item' \in [H!Cpu -> Thread \cup {H!Nobody}]
      BY <1>g DEF LocksInv, H!TypeOK, H!Pick
    <2>3. spare' \in [H!Cpu -> Nat]
      <3>1. spare \in [H!Cpu -> Nat] /\ spare' = [spare EXCEPT ![c] = @ + 1]
        BY DEF LocksInv, H!TypeOK, H!Pick
      <3> QED
        BY <3>1
    <2>4. at' \in [H!Cpu -> {"load", "load_heap", "run", "push", "elem", "new", "pick", "can_run"}]
      BY DEF LocksInv, H!TypeOK, H!Pick
    <2> QED
      BY <1>0, <2>1, <2>2, <2>3, <2>4 DEF LocksInv, H!TypeOK
  <1>2. Places'
    BY <1>0, <1>a, <1>b, <1>d, <1>e, <1>g DEF LocksInv, Places, InHand, InPush, Ticking
  <1>3. ListLocks'
    <2> SUFFICES ASSUME NEW h \in H!Cpu, NEW d \in H!Cpu
                 PROVE  list'[d] = h <=> at'[h] \in {"elem", "new"} /\ H!Where(h)' = d
      BY DEF ListLocks
    <2>1. list[d] = h <=> at[h] \in {"elem", "new"} /\ H!Where(h) = d
      BY DEF LocksInv, ListLocks
    <2> QED
      BY <1>0, <1>b, <1>d, <1>e, <2>1 DEF H!locks
  <1>4. HeapLocked'
    BY <1>0, <1>d, <1>e DEF LocksInv, HeapLocked, H!locks
  <1>5. Elements'
    <2>1. ASSUME NEW d \in H!Cpu, at[d] = "new" PROVE H!Where(d) # c
      BY <1>c, <1>d, <2>1 DEF LocksInv, ListLocks
    <2>2. \A d \in H!Cpu : Hand(d)' = IF d = c THEN 1 ELSE Hand(d)
      BY <1>0, <1>b, <1>d, <1>e DEF Hand, InHand, InPush
    <2>3. Hand(c) = 0
      BY <1>d DEF Hand, InHand, InPush
    <2>4. c = 0 => ~H!Loading
      BY <1>d DEF Ticking
    <2>5. \A d \in H!Cpu : Len(queue'[d]) = IF d = c THEN Len(queue[d]) - 1 ELSE Len(queue[d])
      BY <1>e, <1>g
    <2>6. ASSUME NEW d \in H!Cpu, at'[d] = "new" PROVE spare'[H!Where(d)'] = 0
      <3>1. at[d] = "new" /\ H!Where(d) \in H!Cpu /\ H!Where(d)' = H!Where(d) /\ H!Where(d) # c
        BY <1>b, <1>c, <1>e, <2>1, <2>6
      <3> QED
        BY <1>e, <3>1 DEF LocksInv, Elements, ElementsCounted
    <2>7. ElementsCounted(c)'
      <3>1. ElementsCounted(c)
        BY DEF LocksInv, Elements
      <3>2. cells[c] \in Nat /\ spare[c] \in Nat /\ load[c] \in Nat /\ Len(queue[c]) \in Nat
        BY CountTypes DEF LocksInv
      <3>3. /\ cells'[c] = cells[c] /\ spare'[c] = spare[c] + 1 /\ load'[c] = load[c]
            /\ Len(queue'[c]) = Len(queue[c]) - 1 /\ Hand(c)' = 1 /\ Hand(c) = 0
            /\ at'[c] # "new" /\ current'[c] = current[c]
        BY <1>0, <1>e, <2>2, <2>3, <2>5
      <3> QED
        BY <3>1, <3>2, <3>3 DEF ElementsCounted
    <2>8. ASSUME NEW d \in H!Cpu, d # c PROVE ElementsCounted(d)'
      BY <1>0, <1>e, <2>2, <2>6, <2>8, CountedSame DEF LocksInv
    <2> QED
      BY <1>0, <1>a, <1>e, <2>4, <2>7, <2>8 DEF LocksInv, Elements
  <1>6. Owners'
    <2>1. \A d \in H!Cpu : d # c => (InHand(d)' <=> InHand(d))
      BY <1>b, <1>d, <1>e DEF InHand, InPush
    <2>2. ASSUME NEW d \in H!Cpu, NEW t \in Thread, Has(d, t)' PROVE Has(d, t)
      <3>1. CASE d # c
        BY <1>0, <1>e, <2>1, <2>2, <3>1 DEF Has, Queued
      <3>2. CASE d = c
        <4>1. current'[c] = current[c] /\ queue'[c] = Tail(queue[c]) /\ item'[c] = Head(queue[c])
          BY <1>0, <1>e
        <4>2. \/ current[c] = t \/ t = Head(queue[c])
              \/ \E i \in 1..Len(Tail(queue[c])) : Tail(queue[c])[i] = t
          BY <2>2, <3>2, <4>1 DEF Has, Queued
        <4> QED
          BY <1>g, <3>2, <4>2 DEF Has, Queued
      <3> QED
        BY <3>1, <3>2
    <2> QED
      BY <1>0, <1>a, <2>2, OwnersKept DEF LocksInv, Owners
  <1> QED
    BY <1>1, <1>2, <1>3, <1>4, <1>5, <1>6 DEF LocksInv

LEMMA CanRunInv ==
    ASSUME LocksInv, NEW c \in H!Cpu, H!CanRun(c)
    PROVE  LocksInv'
  <1> USE Actors
  <1>0. UNCHANGED <<H!locks, H!queues, item, load, target, tpc, calls>>
    BY DEF H!CanRun
  <1>a. H!Loaded' = H!Loaded /\ (H!Loading' <=> H!Loading)
    BY <1>0, LoadSame
  <1>b. \A d \in H!Cpu : H!Where(d)' = H!Where(d) /\ (Ticking(d)' <=> Ticking(d))
    BY <1>0, WhereSame
  <1>c. H!Loaded \in Nat /\ \A d \in H!Cpu : H!Where(d) \in H!Cpu /\ (Ticking(d) => H!Where(d) = d)
    BY WhereIn DEF LocksInv
  <1>d. at[c] = "can_run" /\ Ticking(c) /\ item[c] \in Thread
    BY DEF H!CanRun, LocksInv, Places, InPush, Ticking, InHand
  <1>e. \/ /\ \A d \in H!Cpu : at'[d] = IF d = c THEN "push" ELSE at[d]
           /\ current' = current
        \/ \A d \in H!Cpu : /\ at'[d] = IF d = c THEN "run" ELSE at[d]
                            /\ current'[d] = IF d = c THEN item[c] ELSE current[d]
    BY ZenonT(60) DEF LocksInv, H!TypeOK, H!CanRun
  <1>1. H!TypeOK'
    BY <1>0, <1>d, ZenonT(60) DEF LocksInv, H!TypeOK, H!CanRun, H!queues, H!locks
  <1>2. Places'
    BY <1>0, <1>a, <1>b, <1>d, <1>e DEF LocksInv, Places, InHand, InPush, Ticking
  <1>3. ListLocks'
    <2> SUFFICES ASSUME NEW h \in H!Cpu, NEW d \in H!Cpu
                 PROVE  list'[d] = h <=> at'[h] \in {"elem", "new"} /\ H!Where(h)' = d
      BY DEF ListLocks
    <2>1. list[d] = h <=> at[h] \in {"elem", "new"} /\ H!Where(h) = d
      BY DEF LocksInv, ListLocks
    <2> QED
      BY <1>0, <1>b, <1>d, <1>e, <2>1 DEF H!locks
  <1>4. HeapLocked'
    BY <1>0, <1>d, <1>e DEF LocksInv, HeapLocked, H!locks
  <1>5. Elements'
    <2>1. \A d \in H!Cpu : Hand(d)' = Hand(d)
      BY <1>0, <1>b, <1>d, <1>e DEF Hand, InHand, InPush
    <2>2. \A d \in H!Cpu : at'[d] = "new" => spare'[H!Where(d)'] = 0
      BY <1>0, <1>b, <1>d, <1>e DEF LocksInv, Elements, ElementsCounted, H!queues
    <2>3. load[c] > 0
      <3>1. Hand(c) = 1
        BY <1>d DEF Hand, InHand
      <3> QED
        BY <3>1, CountTypes DEF LocksInv, Elements, ElementsCounted
    <2>4. \A d \in H!Cpu : ElementsCounted(d)'
      BY <1>0, <1>e, <2>1, <2>2, <2>3 DEF LocksInv, Elements, ElementsCounted, H!queues
    <2> QED
      BY <1>0, <1>a, <2>4 DEF LocksInv, Elements, H!queues
  <1>6. Owners'
    <2>1. \A d \in H!Cpu : d # c => (InHand(d)' <=> InHand(d))
      BY <1>b, <1>d, <1>e DEF InHand, InPush
    <2>2. InHand(c)
      BY <1>d DEF InHand
    <2>3. \A d \in H!Cpu, t \in Thread : Has(d, t)' => Has(d, t)
      BY <1>0, <1>e, <2>1, <2>2 DEF Has, Queued, H!queues
    <2> QED
      BY <1>0, <1>a, <2>3, OwnersKept DEF LocksInv, Owners
  <1> QED
    BY <1>1, <1>2, <1>3, <1>4, <1>5, <1>6 DEF LocksInv

\* A tick begins on CPU c, on which a thread or the idle thread was running.
LEMMA EnterTickInv ==
    ASSUME LocksInv, NEW c \in H!Cpu, at[c] = "run", H!EnterTick(c),
           UNCHANGED <<H!locks, H!queues, current, load, target, calls>>,
           tpc' \in [Thread -> {"user", "want", "held", "wait"}],
           \A t \in Thread : tpc'[t] = "held" <=> tpc[t] = "held",
           \A t \in Thread : ~Given(t) \/ (H!Loading /\ Has(0, t)) => tpc'[t] = "user"
    PROVE  LocksInv'
  <1> USE Actors
  <1>0. UNCHANGED <<H!locks, H!queues, current, load, target, calls>>
    OBVIOUS
  <1>a. H!Loaded' = H!Loaded /\ (H!Loading' <=> H!Loading)
    BY <1>0, LoadSame
  <1>b. \A d \in H!Cpu : H!Where(d)' = H!Where(d) /\ (Ticking(d)' <=> Ticking(d))
    BY <1>0, WhereSame
  <1>c. H!Loaded \in Nat /\ \A d \in H!Cpu : H!Where(d) \in H!Cpu /\ (Ticking(d) => H!Where(d) = d)
    BY WhereIn DEF LocksInv
  <1>d. at[c] = "run" /\ Ticking(c)
    BY DEF LocksInv, Places, InPush, Ticking
  <1>e. \A d \in H!Cpu : /\ at'[d] = IF d = c THEN IF current[c] = H!Nobody THEN "pick" ELSE "push"
                                     ELSE at[d]
                         /\ item'[d] = IF d = c THEN current[c] ELSE item[d]
    BY DEF LocksInv, H!TypeOK, H!EnterTick
  <1>1. H!TypeOK'
    BY <1>0 DEF LocksInv, H!TypeOK, H!EnterTick, H!queues, H!locks
  <1>2. Places'
    <2>1. current[c] \in Thread \cup {H!Nobody}
      BY DEF LocksInv, H!TypeOK
    <2> QED
      BY <1>0, <1>a, <1>b, <1>d, <1>e, <2>1 DEF LocksInv, Places, InHand, InPush, Ticking
  <1>3. ListLocks'
    <2> SUFFICES ASSUME NEW h \in H!Cpu, NEW d \in H!Cpu
                 PROVE  list'[d] = h <=> at'[h] \in {"elem", "new"} /\ H!Where(h)' = d
      BY DEF ListLocks
    <2>1. list[d] = h <=> at[h] \in {"elem", "new"} /\ H!Where(h) = d
      BY DEF LocksInv, ListLocks
    <2> QED
      BY <1>0, <1>b, <1>d, <1>e, <2>1 DEF H!locks
  <1>4. HeapLocked'
    BY <1>0, <1>d, <1>e DEF LocksInv, HeapLocked, H!locks
  <1>5. Elements'
    <2>1. \A d \in H!Cpu : Hand(d)' = Hand(d)
      BY <1>0, <1>b, <1>d, <1>e DEF Hand, InHand, InPush
    <2>2. \A d \in H!Cpu : at'[d] = "new" => spare'[H!Where(d)'] = 0
      BY <1>0, <1>b, <1>d, <1>e DEF LocksInv, Elements, ElementsCounted, H!queues
    <2>3. \A d \in H!Cpu : ElementsCounted(d)'
      BY <1>0, <1>e, <2>1, <2>2 DEF LocksInv, Elements, ElementsCounted, H!queues
    <2> QED
      BY <1>0, <1>a, <2>3 DEF LocksInv, Elements, H!queues
  <1>6. Owners'
    <2>1. \A d \in H!Cpu : d # c => (InHand(d)' <=> InHand(d))
      BY <1>b, <1>d, <1>e DEF InHand, InPush
    <2>2. \A d \in H!Cpu, t \in Thread : Has(d, t)' => Has(d, t)
      BY <1>0, <1>e, <2>1 DEF Has, Queued, H!queues
    <2> QED
      BY <1>0, <1>a, <2>2, OwnersKept DEF LocksInv, Owners
  <1> QED
    BY <1>1, <1>2, <1>3, <1>4, <1>5, <1>6 DEF LocksInv

\* Steps of a thread that change its place and, perhaps, the heap's lock.
LEMMA ThreadInv ==
    ASSUME LocksInv, NEW t \in Thread, NEW c \in H!Cpu, at[c] = "run", current[c] = t,
           UNCHANGED <<list, H!queues, current, at, item, load, target>>,
           tpc' \in [Thread -> {"user", "want", "held", "wait"}],
           calls' \in [Thread -> 0..MaxCalls],
           \A s \in Thread : s # t => tpc'[s] = tpc[s],
           \/ heap' = heap /\ tpc[t] # "held" /\ tpc'[t] # "held"
           \/ heap = H!Nobody /\ heap' = t /\ tpc'[t] = "held"
           \/ tpc[t] = "held" /\ heap' = H!Nobody /\ tpc'[t] # "held"
    PROVE  LocksInv'
  <1> USE Actors
  <1>0. UNCHANGED <<list, H!queues, current, at, item, load, target>>
    OBVIOUS
  <1>a. H!Loaded' = H!Loaded /\ (H!Loading' <=> H!Loading)
    BY <1>0, LoadSame
  <1>b. \A d \in H!Cpu : H!Where(d)' = H!Where(d) /\ (Ticking(d)' <=> Ticking(d))
    BY <1>0, WhereSame
  <1>1. H!TypeOK'
    BY <1>0 DEF LocksInv, H!TypeOK, H!queues
  <1>2. Places'
    BY <1>0, <1>a, <1>b DEF LocksInv, Places, InHand
  <1>3. ListLocks'
    BY <1>0, <1>b DEF LocksInv, ListLocks
  <1>4. HeapLocked'
    <2>1. tpc[t] = "held" => heap = t
      BY DEF LocksInv, HeapLocked
    <2> QED
      BY <1>0, <2>1 DEF LocksInv, HeapLocked
  <1>5. Elements'
    <2>1. \A d \in H!Cpu : Hand(d)' = Hand(d)
      BY <1>0, <1>b DEF Hand, InHand
    <2>2. \A d \in H!Cpu : ElementsCounted(d)'
      BY <1>0, <1>b, <2>1 DEF LocksInv, Elements, ElementsCounted, H!queues
    <2> QED
      BY <1>0, <1>a, <2>2 DEF LocksInv, Elements, H!queues
  <1>6. Owners'
    <2>1. \A d \in H!Cpu, s \in Thread : Has(d, s)' <=> Has(d, s)
      BY <1>0, <1>b DEF Has, Queued, InHand, H!queues
    <2>2. Given(t) /\ ~(H!Loading /\ Has(0, t))
      <3>1. Has(c, t)
        BY DEF Has
      <3>2. c = 0 => ~H!Loading
        BY DEF LocksInv, Places, InPush
      <3> QED
        BY <3>1, <3>2 DEF LocksInv, Owners
    <2>3. \A s \in Thread : ~Given(s) \/ (H!Loading /\ Has(0, s)) => tpc'[s] = "user"
      BY <2>2 DEF LocksInv, Owners
    <2> QED
      BY <1>a, <2>1, <2>3, OwnersKept DEF LocksInv
  <1> QED
    BY <1>1, <1>2, <1>3, <1>4, <1>5, <1>6 DEF LocksInv

LEMMA WakeInv ==
    ASSUME LocksInv, NEW t \in Thread, H!Wake(t)
    PROVE  LocksInv'
  <1> USE Actors
  <1>0. UNCHANGED <<H!locks, H!queues, current, at, item, load, target, calls>>
    BY DEF H!Wake
  <1>a. H!Loaded' = H!Loaded /\ (H!Loading' <=> H!Loading)
    BY <1>0, LoadSame
  <1>b. \A d \in H!Cpu : H!Where(d)' = H!Where(d) /\ (Ticking(d)' <=> Ticking(d))
    BY <1>0, WhereSame
  <1>1. H!TypeOK'
    BY <1>0 DEF LocksInv, H!TypeOK, H!Wake, H!queues, H!locks
  <1>2. Places'
    BY <1>0, <1>a, <1>b DEF LocksInv, Places, InHand
  <1>3. ListLocks'
    BY <1>0, <1>b DEF LocksInv, ListLocks, H!locks
  <1>4. HeapLocked'
    BY <1>0 DEF LocksInv, H!TypeOK, HeapLocked, H!Wake, H!locks
  <1>5. Elements'
    <2>1. \A d \in H!Cpu : Hand(d)' = Hand(d)
      BY <1>0, <1>b DEF Hand, InHand
    <2>2. \A d \in H!Cpu : ElementsCounted(d)'
      BY <1>0, <1>b, <2>1 DEF LocksInv, Elements, ElementsCounted, H!queues
    <2> QED
      BY <1>0, <1>a, <2>2 DEF LocksInv, Elements, H!queues
  <1>6. Owners'
    <2>1. \A d \in H!Cpu, s \in Thread : Has(d, s)' <=> Has(d, s)
      BY <1>0, <1>b DEF Has, Queued, InHand, H!queues
    <2>2. \A s \in Thread : ~Given(s) \/ (H!Loading /\ Has(0, s)) => tpc'[s] = "user"
      BY DEF LocksInv, H!TypeOK, Owners, H!Wake
    <2> QED
      BY <1>a, <2>1, <2>2, OwnersKept DEF LocksInv
  <1> QED
    BY <1>1, <1>2, <1>3, <1>4, <1>5, <1>6 DEF LocksInv

\* scheduler_find: there is a first CPU with the lowest load.
LEMMA LowestLoad ==
    ASSUME NEW ld \in [H!Cpu -> Nat]
    PROVE  \E c \in H!Cpu : /\ \A d \in H!Cpu : ld[c] <= ld[d]
                            /\ \A d \in 0..(c - 1) : ld[c] < ld[d]
  <1> DEFINE Loads == {ld[c] : c \in H!Cpu}
  <1>1. Loads \subseteq Nat /\ Loads # {}
    BY Actors
  <1>2. PICK m \in Loads : \A y \in Loads : m <= y
    <2> HIDE DEF Loads
    <2> QED
      BY <1>1, Smallest
  <1> DEFINE Lows == {c \in H!Cpu : ld[c] = m}
  <1>3. Lows \subseteq Nat /\ Lows # {}
    BY <1>2 DEF H!Cpu
  <1>4. PICK c \in Lows : \A y \in Lows : c <= y
    <2> HIDE DEF Lows
    <2> QED
      BY <1>3, Smallest
  <1>5. c \in H!Cpu /\ \A d \in H!Cpu : ld[c] <= ld[d]
    BY <1>2, <1>4
  <1>6. ASSUME NEW d \in 0..(c - 1) PROVE ld[c] < ld[d]
    <2>1. d \in H!Cpu /\ d < c
      BY <1>4, Actors DEF H!Cpu
    <2>2. ld[d] \in Nat /\ ld[c] \in Nat /\ ld[c] <= ld[d] /\ ld[c] = m
      BY <1>4, <1>5, <2>1
    <2>3. ld[d] # m
      <3> SUFFICES ASSUME ld[d] = m PROVE FALSE
        OBVIOUS
      <3>1. d \in Lows
        BY <2>1
      <3>2. c <= d /\ c \in Int /\ d \in Int
        BY <1>4, <1>5, <2>1, <3>1, Actors
      <3> QED
        BY <2>1, <3>2
    <2> QED
      BY <2>2, <2>3
  <1> QED
    BY <1>5, <1>6

LEMMA LoadGiveInv ==
    ASSUME LocksInv, H!LoadGive
    PROVE  LocksInv'
  <1> USE Actors
  <1>0. UNCHANGED <<list, H!queues, current, load, tpc, calls>>
    BY DEF H!LoadGive
  <1>a. H!Loaded' = H!Loaded /\ (H!Loading' <=> H!Loading)
    BY <1>0, LoadSame
  <1>b. \A d \in H!Cpu : (Ticking(d)' <=> Ticking(d)) /\ (d # 0 => H!Where(d)' = H!Where(d))
    BY <1>a DEF Ticking, H!Where
  <1>c. H!Loaded \in Nat
    BY WhereIn DEF LocksInv
  <1>d. at[0] = "load_heap" /\ H!Loading /\ heap' = H!Nobody /\ ~Ticking(0)
    BY DEF LocksInv, Places, H!LoadGive, Ticking
  <1>e. \A d \in H!Cpu : /\ at'[d] = IF d = 0 THEN "push" ELSE at[d]
                         /\ item'[d] = IF d = 0 THEN Modules[H!Loaded + 1] ELSE item[d]
    BY DEF LocksInv, H!TypeOK, H!LoadGive
  <1>f. Modules[H!Loaded + 1] \in Thread
    <2>1. H!Loaded + 1 \in 1..Len(Modules)
      BY <1>c, <1>d DEF H!Loading
    <2> QED
      BY <2>1
  <1>g. target' \in H!Cpu
    <2>1. load \in [H!Cpu -> Nat]
      BY DEF LocksInv, H!TypeOK
    <2>2. \E c \in H!Cpu : (\A d \in H!Cpu : load[c] <= load[d])
            /\ \A d \in 0..(c - 1) : load[c] < load[d]
      BY <2>1, LowestLoad
    <2> QED
      BY <2>2 DEF H!LoadGive
  <1>1. H!TypeOK'
    BY <1>0, <1>f, <1>g DEF LocksInv, H!TypeOK, H!LoadGive, H!queues
  <1>2. Places'
    BY <1>0, <1>a, <1>b, <1>d, <1>e DEF LocksInv, Places, InHand, InPush, Ticking
  <1>3. ListLocks'
    <2> SUFFICES ASSUME NEW h \in H!Cpu, NEW d \in H!Cpu
                 PROVE  list'[d] = h <=> at'[h] \in {"elem", "new"} /\ H!Where(h)' = d
      BY DEF ListLocks
    <2>1. list[d] = h <=> at[h] \in {"elem", "new"} /\ H!Where(h) = d
      BY DEF LocksInv, ListLocks
    <2> QED
      BY <1>0, <1>b, <1>d, <1>e, <2>1
  <1>4. HeapLocked'
    <2>1. heap = 0
      BY <1>d DEF LocksInv, HeapLocked
    <2> QED
      BY <1>0, <1>d, <1>e, <2>1 DEF LocksInv, HeapLocked
  <1>5. Elements'
    <2>1. \A d \in H!Cpu : Hand(d)' = Hand(d)
      BY <1>0, <1>b, <1>d, <1>e DEF Hand, InHand, InPush
    <2>2. \A d \in H!Cpu : at'[d] = "new" => spare'[H!Where(d)'] = 0
      BY <1>0, <1>b, <1>d, <1>e DEF LocksInv, Elements, ElementsCounted, H!queues
    <2>3. \A d \in H!Cpu : ElementsCounted(d)'
      BY <1>0, <1>e, <2>1, <2>2 DEF LocksInv, Elements, ElementsCounted, H!queues
    <2> QED
      BY <1>0, <1>a, <2>3 DEF LocksInv, Elements, H!queues
  <1>6. Owners'
    <2>1. \A d \in H!Cpu : InHand(d)' <=> InHand(d)
      BY <1>b, <1>d, <1>e DEF InHand, InPush
    <2>2. \A d \in H!Cpu, t \in Thread : Has(d, t)' => Has(d, t)
      BY <1>0, <1>d, <1>e, <2>1 DEF Has, Queued, H!queues, InHand
    <2> QED
      BY <1>0, <1>a, <2>2, OwnersKept DEF LocksInv, Owners
  <1> QED
    BY <1>1, <1>2, <1>3, <1>4, <1>5, <1>6 DEF LocksInv

\* What the end of list_push does to the elements, with a spare element or with
\* a new one.
Takes(c) ==
    \/ /\ at[c] = "elem" /\ spare[H!Where(c)] > 0 /\ heap' = heap /\ cells' = cells
       /\ spare' = [spare EXCEPT ![H!Where(c)] = @ - 1]
    \/ /\ at[c] = "new" /\ heap' = H!Nobody /\ spare' = spare
       /\ cells' = [cells EXCEPT ![H!Where(c)] = @ + 1]

\* The types of what such a step changes, and whose lock it has been.
LEMMA TakesFacts ==
    ASSUME LocksInv, NEW c \in H!Cpu, Takes(c)
    PROVE  /\ at[c] \in {"elem", "new"} /\ list[H!Where(c)] = c /\ H!Where(c) \in H!Cpu
           /\ heap' \in H!Cpu \cup Thread \cup {H!Nobody}
           /\ spare' \in [H!Cpu -> Nat] /\ cells' \in [H!Cpu -> Nat]
           /\ \A d \in H!Cpu : d # H!Where(c) => spare'[d] = spare[d] /\ cells'[d] = cells[d]
           /\ cells'[H!Where(c)] - spare'[H!Where(c)] = cells[H!Where(c)] - spare[H!Where(c)] + 1
           /\ \A h \in H!Cpu \ {c} : at[h] \in {"elem", "new"} => H!Where(h) # H!Where(c)
           /\ \A h \in H!Cpu \ {c} : heap' = h <=> heap = h
           /\ heap' # c
           /\ \A t \in Thread : heap' = t <=> heap = t
  <1> USE Actors
  <1>1. H!Where(c) \in H!Cpu /\ at[c] \in {"elem", "new"} /\ list[H!Where(c)] = c
    BY WhereIn DEF LocksInv, Takes, ListLocks
  <1>2. \A h \in H!Cpu \ {c} : at[h] \in {"elem", "new"} => H!Where(h) # H!Where(c)
    BY <1>1 DEF LocksInv, ListLocks
  <1>3. spare \in [H!Cpu -> Nat] /\ cells \in [H!Cpu -> Nat]
    BY DEF LocksInv, H!TypeOK
  <1>4. /\ spare' \in [H!Cpu -> Nat] /\ cells' \in [H!Cpu -> Nat]
        /\ \A d \in H!Cpu : d # H!Where(c) => spare'[d] = spare[d] /\ cells'[d] = cells[d]
        /\ cells'[H!Where(c)] - spare'[H!Where(c)] = cells[H!Where(c)] - spare[H!Where(c)] + 1
    <2>1. PICK w \in H!Cpu : w = H!Where(c)
      BY <1>1
    <2>2. CASE at[c] = "elem"
      <3>1. spare[w] > 0 /\ cells' = cells /\ spare' = [spare EXCEPT ![w] = @ - 1]
        BY <2>1, <2>2 DEF Takes
      <3>2. \A d \in H!Cpu : spare'[d] = IF d = w THEN spare[d] - 1 ELSE spare[d]
        BY <1>3, <3>1
      <3>3. spare' \in [H!Cpu -> Nat]
        BY <1>3, <3>1
      <3> QED
        BY <1>3, <2>1, <3>1, <3>2, <3>3
    <2>3. CASE at[c] = "new"
      <3>1. spare' = spare /\ cells' = [cells EXCEPT ![w] = @ + 1]
        BY <2>1, <2>3 DEF Takes
      <3>2. \A d \in H!Cpu : cells'[d] = IF d = w THEN cells[d] + 1 ELSE cells[d]
        BY <1>3, <3>1
      <3>3. cells' \in [H!Cpu -> Nat]
        BY <1>3, <3>1
      <3> QED
        BY <1>3, <2>1, <3>1, <3>2, <3>3
    <2> QED
      BY <1>1, <2>2, <2>3
  <1>5. at[c] = "new" => heap = c
    BY DEF LocksInv, HeapLocked
  <1>6. at[c] = "elem" => heap # c
    BY DEF LocksInv, HeapLocked
  <1>7. heap \in H!Cpu \cup Thread \cup {H!Nobody}
    BY DEF LocksInv, H!TypeOK
  <1> QED
    BY <1>1, <1>2, <1>4, <1>5, <1>6, <1>7 DEF Takes

\* A tick has pushed the thread that was running, or could not run.
LEMMA TickLinkedInv ==
    ASSUME LocksInv, NEW c \in H!Cpu, Takes(c), H!Linked(c), Ticking(c)
    PROVE  LocksInv'
  <1> USE Actors
  <1>x. H!Where(c) = c /\ ~(c = 0 /\ H!Loading)
    BY WhereIn DEF LocksInv, Ticking
  <1>0. UNCHANGED <<current, item, load, target, tpc, calls>>
    BY <1>x DEF H!Linked
  <1>a. H!Loaded' = H!Loaded /\ (H!Loading' <=> H!Loading)
    BY <1>0, LoadSame
  <1>b. \A d \in H!Cpu : H!Where(d)' = H!Where(d) /\ (Ticking(d)' <=> Ticking(d))
    BY <1>0, WhereSame
  <1>c. \A d \in H!Cpu : H!Where(d) \in H!Cpu
    BY WhereIn DEF LocksInv
  <1>d. /\ at[c] \in {"elem", "new"} /\ list[c] = c
        /\ heap' \in H!Cpu \cup Thread \cup {H!Nobody}
        /\ spare' \in [H!Cpu -> Nat] /\ cells' \in [H!Cpu -> Nat]
        /\ \A d \in H!Cpu : d # c => spare'[d] = spare[d] /\ cells'[d] = cells[d]
        /\ cells'[c] - spare'[c] = cells[c] - spare[c] + 1
        /\ \A h \in H!Cpu \ {c} : at[h] \in {"elem", "new"} => H!Where(h) # c
        /\ \A h \in H!Cpu \ {c} : heap' = h <=> heap = h
        /\ heap' # c
        /\ \A t \in Thread : heap' = t <=> heap = t
    BY <1>x, TakesFacts
  <1>e. \A d \in H!Cpu : /\ at'[d] = IF d = c THEN "pick" ELSE at[d]
                         /\ list'[d] = IF d = c THEN H!Nobody ELSE list[d]
                         /\ queue'[d] = IF d = c THEN Append(queue[c], item[c]) ELSE queue[d]
    BY <1>x DEF LocksInv, H!TypeOK, H!Linked
  <1>f. queue[c] \in Seq(Thread) /\ item[c] \in Thread /\ InHand(c)
    BY <1>d DEF LocksInv, H!TypeOK, Places, InHand, InPush
  <1>g. /\ Append(queue[c], item[c]) \in Seq(Thread)
        /\ Len(Append(queue[c], item[c])) = Len(queue[c]) + 1
        /\ \A t : (\E i \in 1..Len(Append(queue[c], item[c])) : Append(queue[c], item[c])[i] = t)
                       <=> t = item[c] \/ \E i \in 1..Len(queue[c]) : queue[c][i] = t
    BY <1>f, PushedQueue, ZenonT(60)
  <1>1. H!TypeOK'
    <2>1. queue' \in [H!Cpu -> Seq(Thread)]
      BY <1>g, <1>x DEF LocksInv, H!TypeOK, H!Linked
    <2>2. list' \in [H!Cpu -> H!Cpu \cup {H!Nobody}]
      BY <1>x DEF LocksInv, H!TypeOK, H!Linked
    <2>3. at' \in [H!Cpu -> {"load", "load_heap", "run", "push", "elem", "new", "pick", "can_run"}]
      BY <1>x DEF LocksInv, H!TypeOK, H!Linked
    <2> QED
      BY <1>0, <1>d, <2>1, <2>2, <2>3 DEF LocksInv, H!TypeOK
  <1>2. Places'
    BY <1>0, <1>a, <1>b, <1>d, <1>e, <1>x DEF LocksInv, Places, InHand, InPush
  <1>3. ListLocks'
    <2> SUFFICES ASSUME NEW h \in H!Cpu, NEW d \in H!Cpu
                 PROVE  list'[d] = h <=> at'[h] \in {"elem", "new"} /\ H!Where(h)' = d
      BY DEF ListLocks
    <2>1. list[d] = h <=> at[h] \in {"elem", "new"} /\ H!Where(h) = d
      BY DEF LocksInv, ListLocks
    <2> QED
      BY <1>b, <1>d, <1>e, <1>x, <2>1
  <1>4. HeapLocked'
    BY <1>0, <1>d, <1>e DEF LocksInv, HeapLocked
  <1>5. Elements'
    <2>1. \A d \in H!Cpu : Hand(d)' = IF d = c THEN 0 ELSE Hand(d)
      BY <1>0, <1>b, <1>d, <1>e DEF Hand, InHand, InPush
    <2>2. Hand(c) = 1
      BY <1>f DEF Hand
    <2>3. ASSUME NEW d \in H!Cpu, at'[d] = "new" PROVE spare'[H!Where(d)'] = 0
      <3>1. at[d] = "new" /\ d # c /\ H!Where(d) # c /\ H!Where(d)' = H!Where(d) /\ H!Where(d) \in H!Cpu
        BY <1>b, <1>c, <1>d, <1>e, <2>3
      <3> QED
        BY <1>d, <3>1 DEF LocksInv, Elements, ElementsCounted
    <2>4. ElementsCounted(c) /\ (at[c] = "new" => spare[c] = 0) /\ cells[0] = load[0]
      BY <1>x DEF LocksInv, Elements, ElementsCounted
    <2>5. /\ cells[c] \in Nat /\ spare[c] \in Nat /\ load[c] \in Nat /\ Len(queue[c]) \in Nat
          /\ cells'[c] \in Nat /\ spare'[c] \in Nat
      BY <1>d, CountTypes DEF LocksInv
    <2>6. cells'[c] <= load[c] /\ cells'[c] > 0 /\ (c = 0 => cells'[c] = load[c])
      <3>1. \/ cells'[c] = cells[c] /\ spare[c] > 0
            \/ spare[c] = 0 /\ cells'[c] = cells[c] + 1
        BY <1>x, <2>4 DEF Takes, LocksInv, H!TypeOK
      <3> QED
        BY <2>2, <2>4, <2>5, <3>1 DEF ElementsCounted
    <2>7. ElementsCounted(c)'
      <3>1. load'[c] = load[c] /\ Len(queue'[c]) = Len(queue[c]) + 1 /\ Hand(c)' = 0
            /\ at'[c] # "new" /\ current'[c] = current[c]
        BY <1>0, <1>e, <1>g, <2>1
      <3> QED
        BY <1>d, <2>2, <2>4, <2>5, <2>6, <3>1, SMTT(30) DEF ElementsCounted
    <2>8. ASSUME NEW d \in H!Cpu, d # c PROVE ElementsCounted(d)'
      BY <1>0, <1>d, <1>e, <2>1, <2>3, <2>8, CountedSame DEF LocksInv
    <2> QED
      BY <1>0, <1>a, <1>d, <1>x, <2>4, <2>6, <2>7, <2>8 DEF LocksInv, Elements
  <1>6. Owners'
    <2>1. \A d \in H!Cpu : d # c => (InHand(d)' <=> InHand(d))
      BY <1>b, <1>e DEF InHand, InPush
    <2>2. ~InHand(c)'
      BY <1>e DEF InHand, InPush
    <2>3. ASSUME NEW d \in H!Cpu, NEW t \in Thread, Has(d, t)' PROVE Has(d, t)
      <3>1. CASE d # c
        BY <1>0, <1>e, <2>1, <2>3, <3>1 DEF Has, Queued
      <3>2. CASE d = c
        <4>1. current[c] = t \/ t = item[c] \/ \E i \in 1..Len(queue[c]) : queue[c][i] = t
          <5>1. current'[c] = t \/ \E i \in 1..Len(queue'[c]) : queue'[c][i] = t
            BY <2>2, <2>3, <3>2 DEF Has, Queued
          <5>2. current'[c] = current[c] /\ queue'[c] = Append(queue[c], item[c])
            BY <1>0, <1>e
          <5> HIDE <1>e
          <5> QED
            BY <1>g, <5>1, <5>2
        <4> QED
          BY <1>f, <3>2, <4>1 DEF Has, Queued
      <3> QED
        BY <3>1, <3>2
    <2> QED
      BY <1>0, <1>a, <2>3, OwnersKept DEF LocksInv, Owners
  <1> QED
    BY <1>1, <1>2, <1>3, <1>4, <1>5, <1>6 DEF LocksInv

\* The loader has pushed the next module's thread on its target's list.
LEMMA LoaderLinkedInv ==
    ASSUME LocksInv, Takes(0), H!Linked(0), H!Loading
    PROVE  LocksInv'
  <1> USE Actors
  <1>0. UNCHANGED <<current, item, target, tpc, calls>>
    BY DEF H!Linked
  <1>x. PICK w \in H!Cpu : w = target
    BY DEF LocksInv, H!TypeOK
  <1>w. H!Where(0) = w /\ ~Ticking(0)
    BY <1>x DEF H!Where, Ticking
  <1>d. /\ at[0] \in {"elem", "new"} /\ list[w] = 0
        /\ heap' \in H!Cpu \cup Thread \cup {H!Nobody}
        /\ spare' \in [H!Cpu -> Nat] /\ cells' \in [H!Cpu -> Nat]
        /\ \A d \in H!Cpu : d # w => spare'[d] = spare[d] /\ cells'[d] = cells[d]
        /\ cells'[w] - spare'[w] = cells[w] - spare[w] + 1
        /\ \A h \in H!Cpu \ {0} : at[h] \in {"elem", "new"} => H!Where(h) # w
        /\ \A h \in H!Cpu \ {0} : heap' = h <=> heap = h
        /\ heap' # 0
        /\ \A t \in Thread : heap' = t <=> heap = t
    BY <1>w, TakesFacts
  <1>l. load \in [H!Cpu -> Nat] /\ load' = [load EXCEPT ![w] = @ + 1]
    BY <1>w DEF LocksInv, H!TypeOK, H!Linked
  <1>c. H!Loaded \in Nat /\ H!Loaded' = H!Loaded + 1 /\ H!Loaded < Len(Modules)
    BY <1>l, SumPlus, LoadedSum, LoadedSumNext DEF H!Loading
  <1>e. \A d \in H!Cpu : /\ list'[d] = IF d = w THEN H!Nobody ELSE list[d]
                         /\ queue'[d] = IF d = w THEN Append(queue[w], item[0]) ELSE queue[d]
                         /\ load'[d] = IF d = w THEN load[d] + 1 ELSE load[d]
    BY <1>l, <1>w DEF LocksInv, H!TypeOK, H!Linked
  <1>h. /\ \A d \in H!Cpu \ {0} : at'[d] = at[d]
        /\ at'[0] = IF H!Loaded + 1 = Len(Modules) THEN "run" ELSE "load"
    BY <1>w DEF LocksInv, H!TypeOK, H!Linked
  <1>a. H!Loading' <=> at'[0] = "load"
    BY <1>c, <1>h DEF H!Loading
  <1>b. \A d \in H!Cpu \ {0} : H!Where(d)' = d /\ H!Where(d) = d /\ Ticking(d)' /\ Ticking(d)
    BY DEF H!Where, Ticking
  <1>f. queue[w] \in Seq(Thread) /\ item[0] \in Thread /\ item[0] = Modules[H!Loaded + 1] /\ ~InHand(0)
    <2>1. item[0] = Modules[H!Loaded + 1] /\ H!Loaded + 1 \in 1..Len(Modules)
      BY <1>c, <1>d DEF LocksInv, Places, InPush
    <2> QED
      BY <1>w, <2>1 DEF LocksInv, H!TypeOK, InHand
  <1>g. /\ Append(queue[w], item[0]) \in Seq(Thread)
        /\ Len(Append(queue[w], item[0])) = Len(queue[w]) + 1
        /\ \A t : (\E i \in 1..Len(Append(queue[w], item[0])) : Append(queue[w], item[0])[i] = t)
                       <=> t = item[0] \/ \E i \in 1..Len(queue[w]) : queue[w][i] = t
    <2>1. queue[w] \in Seq(Thread) /\ item[0] \in Thread
      BY <1>f
    <2> QED
      BY <2>1, PushedQueue, SMTT(30)
  <1>i. \A d \in H!Cpu : InHand(d)' <=> InHand(d)
    BY <1>a, <1>b, <1>f, <1>h DEF InHand, InPush
  <1>j. current[0] = H!Nobody
    BY DEF LocksInv, Places
  <1>1. H!TypeOK'
    <2>1. queue' \in [H!Cpu -> Seq(Thread)]
      BY <1>g, <1>w DEF LocksInv, H!TypeOK, H!Linked
    <2>2. list' \in [H!Cpu -> H!Cpu \cup {H!Nobody}]
      BY <1>w DEF LocksInv, H!TypeOK, H!Linked
    <2>3. at' \in [H!Cpu -> {"load", "load_heap", "run", "push", "elem", "new", "pick", "can_run"}]
      BY <1>w DEF LocksInv, H!TypeOK, H!Linked
    <2>4. load' \in [H!Cpu -> Nat]
      BY <1>l
    <2> QED
      BY <1>0, <1>d, <2>1, <2>2, <2>3, <2>4 DEF LocksInv, H!TypeOK
  <1>2. Places'
    <2>1. H!Loaded' <= Len(Modules)
      BY <1>c
    <2>2. \A d \in H!Cpu : InHand(d)' => item'[d] \in Thread
      BY <1>0, <1>i DEF LocksInv, Places
    <2> QED
      BY <1>0, <1>a, <1>h, <1>j, <2>1, <2>2 DEF LocksInv, Places, InPush
  <1>3. ListLocks'
    <2> SUFFICES ASSUME NEW h \in H!Cpu, NEW d \in H!Cpu
                 PROVE  list'[d] = h <=> at'[h] \in {"elem", "new"} /\ H!Where(h)' = d
      BY DEF ListLocks
    <2>1. list[d] = h <=> at[h] \in {"elem", "new"} /\ H!Where(h) = d
      BY DEF LocksInv, ListLocks
    <2>2. CASE h = 0
      BY <1>d, <1>e, <1>h, <1>w, <2>1, <2>2, SMTT(30)
    <2>3. CASE h # 0
      <3>1. at'[h] = at[h] /\ H!Where(h)' = h /\ H!Where(h) = h
        BY <1>b, <1>h, <2>3
      <3>2. CASE d = w
        <4>1. list'[d] = H!Nobody
          BY <1>e, <3>2
        <4>2. ~(at[h] \in {"elem", "new"} /\ H!Where(h) = w)
          BY <1>d, <2>3
        <4> QED
          BY <3>1, <3>2, <4>1, <4>2
      <3>3. CASE d # w
        <4>1. list'[d] = list[d]
          BY <1>e, <3>3
        <4> QED
          BY <2>1, <3>1, <4>1
      <3> QED
        BY <3>2, <3>3
    <2> QED
      BY <2>2, <2>3
  <1>4. HeapLocked'
    BY <1>0, <1>d, <1>h, SMTT(30) DEF LocksInv, HeapLocked
  <1>5. Elements'
    <2>1. \A d \in H!Cpu : Hand(d)' = Hand(d)
      <3>1. \A d \in H!Cpu : (at'[d] = "run" /\ current'[d] # H!Nobody) <=> (at[d] = "run"
              /\ current[d] # H!Nobody)
        BY <1>0, <1>d, <1>h, <1>j
      <3> QED
        BY <1>i, <3>1 DEF Hand
    <2>2. ASSUME NEW d \in H!Cpu, at'[d] = "new" PROVE spare'[H!Where(d)'] = 0
      <3>1. d # 0 /\ at[d] = "new" /\ H!Where(d) = d /\ H!Where(d)' = d /\ d # w
        BY <1>b, <1>d, <1>h, <2>2
      <3> QED
        BY <1>d, <3>1, SMTT(30) DEF LocksInv, Elements, ElementsCounted
    <2>3. ElementsCounted(w) /\ (at[0] = "new" => spare[w] = 0) /\ cells[0] = load[0] /\ spare[0] = 0
      BY <1>w DEF LocksInv, Elements, ElementsCounted
    <2>4. /\ cells[w] \in Nat /\ spare[w] \in Nat /\ load[w] \in Nat /\ Len(queue[w]) \in Nat
          /\ cells'[w] \in Nat /\ spare'[w] \in Nat /\ Hand(w) \in {0, 1}
      BY <1>d, CountTypes DEF LocksInv
    <2>5. \/ cells'[w] = cells[w] /\ spare[w] > 0 /\ spare'[w] = spare[w] - 1 /\ w # 0
          \/ spare[w] = 0 /\ cells'[w] = cells[w] + 1 /\ spare'[w] = 0
      <3>1. CASE at[0] = "elem"
        BY <1>w, <2>3, <3>1 DEF Takes, LocksInv, H!TypeOK
      <3>2. CASE at[0] = "new"
        BY <1>w, <2>3, <3>2 DEF Takes, LocksInv, H!TypeOK
      <3> QED
        BY <1>d, <3>1, <3>2
    <2>6. ElementsCounted(w)'
      <3>1. load'[w] = load[w] + 1 /\ Len(queue'[w]) = Len(queue[w]) + 1 /\ Hand(w)' = Hand(w)
            /\ current'[w] = current[w]
        BY <1>0, <1>e, <1>g, <2>1
      <3>2. at'[w] = "new" => spare'[H!Where(w)'] = 0
        BY <2>2
      <3>3. cells[w] = spare[w] + Len(queue[w]) /\ load[w] = Len(queue[w]) + Hand(w)
              /\ cells[w] <= load[w]
        BY <2>3 DEF ElementsCounted
      <3>4. cells'[w] = spare'[w] + Len(queue'[w]) /\ load'[w] = Len(queue'[w]) + Hand(w)'
        BY <2>4, <2>5, <3>1, <3>3
      <3>5. cells'[w] <= load'[w] /\ cells'[w] > 0 /\ load'[w] > 0
        BY <2>4, <2>5, <3>1, <3>3, SMTT(30)
      <3> QED
        BY <3>2, <3>4, <3>5 DEF ElementsCounted
    <2>7. ASSUME NEW d \in H!Cpu, d # w PROVE ElementsCounted(d)'
      BY <1>0, <1>d, <1>e, <2>1, <2>2, <2>7, CountedSame DEF LocksInv
    <2>8. cells'[0] = load'[0] /\ spare'[0] = 0
      <3>1. CASE w = 0
        BY <1>e, <2>3, <2>4, <2>5, <3>1
      <3>2. CASE w # 0
        BY <1>d, <1>e, <2>3, <3>2
      <3> QED
        BY <3>1, <3>2
    <2> QED
      BY <2>6, <2>7, <2>8 DEF Elements
  <1>6. Owners'
    <2>1. ASSUME NEW d \in H!Cpu, NEW t \in Thread, Has(d, t)'
          PROVE  Has(d, t) \/ (d = w /\ t = item[0])
      <3>1. CASE d # w
        BY <1>0, <1>e, <1>i, <2>1, <3>1 DEF Has, Queued
      <3>2. CASE d = w
        <4>1. current'[w] = t \/ (InHand(w)' /\ item'[w] = t)
                \/ \E i \in 1..Len(queue'[w]) : queue'[w][i] = t
          BY <2>1, <3>2 DEF Has, Queued
        <4>2. current'[w] = current[w] /\ item'[w] = item[w] /\ queue'[w] = Append(queue[w], item[0])
          BY <1>0, <1>e
        <4>3. current[w] = t \/ (InHand(w) /\ item[w] = t) \/ t = item[0]
                \/ \E i \in 1..Len(queue[w]) : queue[w][i] = t
          BY <1>g, <1>i, <4>1, <4>2
        <4> QED
          BY <3>2, <4>3 DEF Has, Queued
      <3> QED
        BY <3>1, <3>2
    <2>2. \A t \in Thread : Given(t)' <=> Given(t) \/ t = item[0]
      <3>1. \A i \in 1..(H!Loaded + 1) : i \in 1..H!Loaded \/ i = H!Loaded + 1
        BY <1>c
      <3>2. H!Loaded + 1 \in 1..(H!Loaded + 1) /\ \A i \in 1..H!Loaded : i \in 1..(H!Loaded + 1)
        BY <1>c
      <3> QED
        BY <1>c, <1>f, <3>1, <3>2 DEF Given
    <2>3. ~Given(item[0])
      <3>1. \A i \in 1..H!Loaded : i \in 1..Len(Modules) /\ i # H!Loaded + 1
              /\ H!Loaded + 1 \in 1..Len(Modules)
        BY <1>c
      <3>2. \A i, j \in 1..Len(Modules) : Modules[i] = Modules[j] => i = j
        BY LockConstants
      <3> QED
        BY <1>f, <3>1, <3>2 DEF Given
    <2>4. Owners
      BY DEF LocksInv
    <2>5. \A d \in H!Cpu : ~Has(d, item[0])
      BY <1>f, <2>3, <2>4 DEF Owners
    <2>6. \A d, h \in H!Cpu, t \in Thread : Has(d, t)' /\ Has(h, t)' => d = h
      BY <2>1, <2>4, <2>5 DEF Owners
    <2>7. \A d \in H!Cpu, t \in Thread : Has(d, t)' => Given(t)'
      BY <2>1, <2>2, <2>4 DEF Owners
    <2>8. \A t \in Thread : ~Given(t)' \/ (H!Loading' /\ Has(0, t)') => tpc'[t] = "user"
      <3>1. tpc' = tpc
        BY <1>0
      <3>2. \A t \in Thread : ~Given(t) \/ Has(0, t) => tpc[t] = "user"
        BY <2>4 DEF Owners
      <3> QED
        BY <2>1, <2>2, <2>3, <3>1, <3>2
    <2> QED
      BY <2>6, <2>7, <2>8 DEF Owners
  <1> QED
    BY <1>1, <1>2, <1>3, <1>4, <1>5, <1>6 DEF LocksInv

\* list_push links an element, old or new, and releases its lock.
LEMMA LinkedInv ==
    ASSUME LocksInv, NEW c \in H!Cpu, Takes(c), H!Linked(c)
    PROVE  LocksInv'
  <1>1. CASE Ticking(c)
    BY <1>1, TickLinkedInv
  <1>2. CASE ~Ticking(c)
    <2>1. c = 0 /\ H!Loading
      BY <1>2 DEF Ticking
    <2>2. Takes(0) /\ H!Linked(0)
      BY <2>1
    <2> QED
      BY <2>1, <2>2, LoaderLinkedInv
  <1> QED
    BY <1>1, <1>2

LEMMA KernelStepInv ==
    ASSUME LocksInv, NEW c \in H!Cpu, H!KernelStep(c)
    PROVE  LocksInv'
  <1>1. CASE H!PushEnter(c)
    BY <1>1, PushEnterInv
  <1>2. CASE H!PushSpare(c)
    <2>1. Takes(c) /\ H!Linked(c)
      BY <1>2 DEF H!PushSpare, Takes
    <2> QED
      BY <2>1, LinkedInv
  <1>3. CASE H!PushAlloc(c)
    BY <1>3, PushAllocInv
  <1>4. CASE H!PushNew(c)
    <2>1. Takes(c) /\ H!Linked(c)
      BY <1>4 DEF H!PushNew, Takes
    <2> QED
      BY <2>1, LinkedInv
  <1>5. CASE H!LoadAlloc
    BY <1>5, LoadAllocInv
  <1>6. CASE H!LoadGive
    BY <1>6, LoadGiveInv
  <1>7. CASE H!PickIdle(c)
    BY <1>7, PickIdleInv
  <1>8. CASE H!Pick(c)
    BY <1>8, PickInv
  <1>9. CASE H!CanRun(c)
    BY <1>9, CanRunInv
  <1> QED
    BY <1>1, <1>2, <1>3, <1>4, <1>5, <1>6, <1>7, <1>8, <1>9 DEF H!KernelStep

LEMMA TimerInterruptInv ==
    ASSUME LocksInv, NEW c \in H!Cpu, H!TimerInterrupt(c)
    PROVE  LocksInv'
  <1>1. at[c] = "run" /\ H!EnterTick(c) /\ UNCHANGED <<H!locks, H!queues, current, load, target, calls>>
    BY DEF H!TimerInterrupt
  <1>2. tpc' \in [Thread -> {"user", "want", "held", "wait"}]
          /\ \A t \in Thread : tpc'[t] = "held" <=> tpc[t] = "held"
    BY DEF H!TimerInterrupt, LocksInv, H!TypeOK
  <1>3. \A t \in Thread : ~Given(t) \/ (H!Loading /\ Has(0, t)) => tpc'[t] = "user"
    BY DEF H!TimerInterrupt, LocksInv, Owners
  <1> QED
    BY <1>1, <1>2, <1>3, EnterTickInv

LEMMA RunningThreadInv ==
    ASSUME LocksInv, NEW t \in Thread, H!Running(t), H!SysConnect(t) \/ H!kmalloc(t) \/ H!SysWait(t)
    PROVE  LocksInv'
  <1>0. PICK c \in H!Cpu : at[c] = "run" /\ current[c] = t
    BY DEF H!Running
  <1>a. tpc \in [Thread -> {"user", "want", "held", "wait"}] /\ calls \in [Thread -> 0..MaxCalls]
    BY DEF LocksInv, H!TypeOK
  <1>b. MaxCalls \in Nat
    BY LockConstants
  <1>1. CASE H!SysConnect(t)
    <2>1. /\ UNCHANGED <<list, H!queues, current, at, item, load, target>>
          /\ tpc' \in [Thread -> {"user", "want", "held", "wait"}]
          /\ \A s \in Thread : s # t => tpc'[s] = tpc[s]
          /\ heap' = heap /\ tpc[t] # "held" /\ tpc'[t] # "held"
      BY <1>1, <1>a DEF H!SysConnect, H!locks
    <2>2. calls' \in [Thread -> 0..MaxCalls]
      <3>1. calls[t] > 0 /\ calls' = [calls EXCEPT ![t] = @ - 1]
        BY <1>1 DEF H!SysConnect
      <3> QED
        BY <1>a, <1>b, <3>1
    <2> QED
      BY <1>0, <2>1, <2>2, ThreadInv
  <1>2. CASE H!kmalloc(t)
    <2>1. /\ UNCHANGED <<list, H!queues, current, at, item, load, target>>
          /\ tpc' \in [Thread -> {"user", "want", "held", "wait"}] /\ calls' \in [Thread -> 0..MaxCalls]
          /\ \A s \in Thread : s # t => tpc'[s] = tpc[s]
      BY <1>2, <1>a DEF H!kmalloc
    <2>2. \/ heap = H!Nobody /\ heap' = t /\ tpc'[t] = "held"
          \/ tpc[t] = "held" /\ heap' = H!Nobody /\ tpc'[t] # "held"
      BY <1>2, <1>a DEF H!kmalloc
    <2> QED
      BY <1>0, <2>1, <2>2, ThreadInv
  <1>3. CASE H!SysWait(t)
    <2>1. PICK d \in H!Cpu : current[d] = t /\ H!EnterTick(d)
      BY <1>3 DEF H!SysWait
    <2>2. d = c
      BY <1>0, <2>1 DEF LocksInv, Owners, Has
    <2>3. c = 0 => ~H!Loading
      BY <1>0 DEF LocksInv, Places, InPush
    <2>4. Given(t) /\ ~(H!Loading /\ Has(0, t))
      BY <1>0, <2>3, Actors DEF LocksInv, Owners, Has
    <2>5. /\ UNCHANGED <<H!locks, H!queues, current, load, target, calls>>
          /\ tpc' \in [Thread -> {"user", "want", "held", "wait"}]
          /\ \A s \in Thread : tpc'[s] = "held" <=> tpc[s] = "held"
      BY <1>3, <1>a DEF H!SysWait
    <2>6. \A s \in Thread : ~Given(s) \/ (H!Loading /\ Has(0, s)) => tpc'[s] = "user"
      <3>1. \A s \in Thread : s # t => tpc'[s] = tpc[s]
        BY <1>3, <1>a DEF H!SysWait
      <3> QED
        BY <2>4, <3>1 DEF LocksInv, Owners
    <2> QED
      BY <1>0, <2>1, <2>2, <2>5, <2>6, EnterTickInv
  <1> QED
    BY <1>1, <1>2, <1>3

LEMMA LocksUnchanged == LocksInv /\ UNCHANGED H!vars => LocksInv'
  <1> SUFFICES ASSUME LocksInv, UNCHANGED H!vars PROVE LocksInv'
    OBVIOUS
  <1>0. UNCHANGED <<heap, list, queue, spare, cells, current, at, item, load, target, tpc, calls>>
    BY DEF H!vars, H!locks, H!queues
  <1>1. H!Loaded' = H!Loaded /\ (H!Loading' <=> H!Loading)
    BY <1>0, LoadSame
  <1>2. \A d \in H!Cpu : H!Where(d)' = H!Where(d) /\ (Ticking(d)' <=> Ticking(d))
    BY <1>0, WhereSame
  <1>3. \A d \in H!Cpu : InHand(d)' <=> InHand(d)
    BY <1>0, <1>2 DEF InHand
  <1>4. H!TypeOK' /\ HeapLocked'
    BY <1>0 DEF LocksInv, H!TypeOK, HeapLocked
  <1>5. Places'
    BY <1>0, <1>1, <1>3 DEF LocksInv, Places
  <1>6. ListLocks'
    BY <1>0, <1>2 DEF LocksInv, ListLocks
  <1>7. Elements'
    <2>1. \A d \in H!Cpu : Hand(d)' = Hand(d)
      BY <1>0, <1>3 DEF Hand
    <2>2. \A d \in H!Cpu : ElementsCounted(d)'
      BY <1>0, <1>2, <2>1 DEF LocksInv, Elements, ElementsCounted
    <2> QED
      BY <1>0, <1>1, <2>2 DEF LocksInv, Elements
  <1>8. Owners'
    <2>1. \A d \in H!Cpu, t \in Thread : Has(d, t)' <=> Has(d, t)
      BY <1>0, <1>3 DEF Has, Queued
    <2> QED
      BY <1>0, <1>1, <2>1, OwnersKept DEF LocksInv, Owners
  <1> QED
    BY <1>4, <1>5, <1>6, <1>7, <1>8 DEF LocksInv

\* Every step preserves the invariant.
LEMMA LocksStep == LocksInv /\ [H!Next]_H!vars => LocksInv'
  <1> SUFFICES ASSUME LocksInv, H!Next PROVE LocksInv'
    BY LocksUnchanged
  <1>1. ASSUME NEW c \in H!Cpu, H!TimerInterrupt(c) \/ H!KernelStep(c) PROVE LocksInv'
    BY <1>1, TimerInterruptInv, KernelStepInv
  <1>2. ASSUME NEW t \in Thread, H!Wake(t) \/ H!Allocate(t) \/ H!Call(t) PROVE LocksInv'
    <2>1. CASE H!Wake(t)
      BY <2>1, WakeInv
    <2>2. CASE H!Allocate(t) \/ H!Call(t)
      BY <2>2, RunningThreadInv DEF H!Allocate, H!Call
    <2> QED
      BY <1>2, <2>1, <2>2
  <1> QED
    BY <1>1, <1>2 DEF H!Next

\* What the invariant says of the elements.
LEMMA ElementsEnough == LocksInv => H!ElementsSuffice
  <1> SUFFICES ASSUME LocksInv PROVE H!ElementsSuffice
    OBVIOUS
  <1>1. ASSUME NEW c \in H!Cpu
        PROVE  cells[c] <= H!Share(c) /\ (H!TickAllocates(c) => c # 0 /\ cells[c] < H!Share(c))
    <2>1. /\ cells[c] \in Nat /\ spare[c] \in Nat /\ load[c] \in Nat /\ Len(queue[c]) \in Nat
          /\ ElementsCounted(c)
      BY CountTypes DEF LocksInv, Elements
    <2>2. H!Share(c) \in Nat /\ load[c] <= H!Share(c)
      BY <2>1 DEF H!Share
    <2>3. ASSUME H!TickAllocates(c) PROVE Hand(c) = 1 /\ spare[c] = 0
      BY <2>3 DEF H!TickAllocates, Hand, InHand, Ticking, InPush
    <2>4. H!TickAllocates(c) => cells[c] < load[c]
      BY <2>1, <2>3 DEF ElementsCounted
    <2>5. cells[0] = load[0]
      BY DEF LocksInv, Elements
    <2> QED
      BY <2>1, <2>2, <2>4, <2>5 DEF ElementsCounted
  <1> QED
    BY <1>1 DEF H!ElementsSuffice, LocksInv

LEMMA WaitsNobody == Waits(H!Nobody) = H!Nobody
  BY DEF Waits

LEMMA WaitsCpu ==
    ASSUME NEW c \in H!Cpu
    PROVE  Waits(c) = H!Spins(c)
  BY Actors DEF Waits, H!WaitsFor

\* What a spinning CPU waits for: the heap's lock, or a list's.
LEMMA SpinsFor ==
    ASSUME LocksInv, NEW c \in H!Cpu
    PROVE  \/ H!Spins(c) = H!Nobody \/ H!Spins(c) = heap
           \/ \E d \in H!Cpu : list[d] = H!Spins(c) /\ H!Spins(c) \in H!Cpu
                             /\ at[H!Spins(c)] \in {"elem", "new"}
  <1>1. \A d \in H!Cpu : list[d] = H!Nobody \/ (list[d] \in H!Cpu /\ at[list[d]] \in {"elem", "new"})
    BY DEF LocksInv, H!TypeOK, ListLocks
  <1>2. H!Where(c) \in H!Cpu
    BY WhereIn DEF LocksInv
  <1>3. H!Spins(c) \in {H!Nobody, heap, list[c], list[H!Where(c)]}
    BY DEF H!Spins
  <1> QED
    BY <1>1, <1>2, <1>3

\* Whoever is in a locked section waits for the heap or for nobody.
LEMMA SectionSpins ==
    ASSUME NEW c \in H!Cpu, at[c] \in {"elem", "new", "load_heap"}
    PROVE  H!Spins(c) = H!Nobody \/ (H!Spins(c) = heap /\ at[c] = "elem" /\ spare[H!Where(c)] = 0)
  BY DEF H!Spins

\* A thread is counted on the CPU that has it.
LEMMA OnCpuCounts ==
    ASSUME LocksInv, NEW t \in Thread, NEW c \in H!OnCpu(t), tpc[t] # "user"
    PROVE  c \in H!Cpu /\ Ticking(c) /\ load[c] \in Nat /\ load[c] > 0
  <1>1. c \in H!Cpu
    BY DEF H!OnCpu
  <1>2. cells[c] \in Nat /\ spare[c] \in Nat /\ load[c] \in Nat /\ Len(queue[c]) \in Nat
          /\ ElementsCounted(c)
    BY <1>1, CountTypes DEF LocksInv, Elements
  <1>3. at[c] = "can_run" => Ticking(c)
    BY DEF LocksInv, Places, InPush, Ticking
  <1>4. Has(c, t)
    BY <1>3 DEF H!OnCpu, Has, Queued, InHand
  <1>5. Ticking(c)
    BY <1>1, <1>4 DEF LocksInv, Owners, Ticking
  <1>6. CASE current[c] = t
    BY <1>1, <1>2, <1>5, <1>6, Actors DEF ElementsCounted
  <1>7. CASE Queued(c, t)
    <2>1. Len(queue[c]) > 0
      BY <1>2, <1>7 DEF Queued
    <2>2. Hand(c) \in {0, 1}
      BY DEF Hand
    <2> QED
      BY <1>1, <1>2, <1>5, <2>1, <2>2 DEF ElementsCounted
  <1>8. CASE InHand(c)
    <2>1. Hand(c) = 1
      BY <1>8 DEF Hand
    <2> QED
      BY <1>1, <1>2, <1>5, <2>1 DEF ElementsCounted
  <1> QED
    BY <1>4, <1>6, <1>7, <1>8 DEF Has

\* The tick of a CPU with a thread that holds the heap's lock waits for nobody,
\* unless the CPU lacks an element.
LEMMA HeldSpins ==
    ASSUME LocksInv, ~Short, NEW t \in Thread, NEW c \in H!OnCpu(t), tpc[t] = "held"
    PROVE  H!Spins(c) = H!Nobody
  <1> USE Actors
  <1>1. c \in H!Cpu /\ Ticking(c) /\ load[c] \in Nat /\ load[c] > 0 /\ H!Where(c) = c
    BY OnCpuCounts, WhereIn DEF LocksInv
  <1>2. cells[c] \in Nat /\ spare[c] \in Nat /\ cells[c] <= load[c]
    BY <1>1, CountTypes DEF LocksInv, Elements, ElementsCounted
  <1>3. H!Share(c) \in Nat /\ load[c] <= H!Share(c)
    BY <1>1 DEF H!Share
  <1>4. ASSUME c # 0, cells[c] < H!Share(c), H!Share(c) >= 2 PROVE FALSE
    BY <1>1, <1>4 DEF Short
  <1>5. ASSUME list[c] # H!Nobody, at[c] \notin {"elem", "new"}
        PROVE  FALSE
    <2>1. PICK h \in H!Cpu : h = list[c]
      BY <1>1, <1>5 DEF LocksInv, H!TypeOK
    <2>2. at[h] \in {"elem", "new"} /\ H!Where(h) = c /\ h # c
      BY <1>1, <1>5, <2>1 DEF LocksInv, ListLocks
    <2>3. h = 0 /\ H!Loading /\ target = c /\ c # 0
      BY <2>2 DEF H!Where
    <2>4. H!Share(c) = load[c] + 1
      BY <2>2, <2>3 DEF H!Share
    <2> QED
      BY <1>1, <1>2, <1>3, <1>4, <2>3, <2>4
  <1>6. CASE at[c] \in {"push", "pick"}
    <2>1. H!Spins(c) \in {H!Nobody, list[c]}
      BY <1>1, <1>6 DEF H!Spins
    <2> QED
      BY <1>5, <1>6, <2>1
  <1>7. CASE at[c] \in {"elem", "new"}
    <2>1. SUFFICES ASSUME at[c] = "elem", spare[c] = 0 PROVE FALSE
      BY <1>1, <1>7, SectionSpins
    <2>2. H!TickAllocates(c)
      BY <1>1, <2>1 DEF H!TickAllocates, Ticking
    <2>3. c # 0 /\ cells[c] < H!Share(c)
      BY <1>1, <2>2, ElementsEnough DEF H!ElementsSuffice
    <2>4. cells[c] > 0
      BY <1>1 DEF LocksInv, Elements, ElementsCounted
    <2> QED
      BY <1>2, <1>3, <1>4, <2>3, <2>4
  <1>8. CASE at[c] \in {"run", "can_run", "load_heap"}
    BY <1>8 DEF H!Spins
  <1>9. at[c] # "load"
    BY <1>1 DEF LocksInv, Places, Ticking
  <1> QED
    BY <1>1, <1>6, <1>7, <1>8, <1>9 DEF LocksInv, H!TypeOK

\* Who holds the heap waits for nobody for long.
LEMMA HeapEnds ==
    ASSUME LocksInv, ~Short
    PROVE  Waits(Waits(heap)) = H!Nobody
  <1> USE Actors, WaitsNobody
  <1>1. CASE heap = H!Nobody
    BY <1>1
  <1>2. CASE heap \in H!Cpu
    <2>1. at[heap] \in {"new", "load_heap"}
      BY <1>2 DEF LocksInv, HeapLocked
    <2>2. H!Spins(heap) = H!Nobody
      BY <1>2, <2>1, SectionSpins
    <2> QED
      BY <1>2, <2>2, WaitsCpu
  <1>3. CASE heap \in Thread
    <2>1. PICK t \in Thread : t = heap
      BY <1>3
    <2>2. tpc[t] = "held"
      BY <2>1 DEF LocksInv, HeapLocked
    <2> DEFINE w == H!WaitsFor(t)
    <2>3. w = H!Nobody \/ w \in H!OnCpu(t)
      BY <2>1, <2>2 DEF H!WaitsFor
    <2>4. Waits(t) = w
      BY DEF Waits
    <2> HIDE DEF w
    <2>5. CASE w = H!Nobody
      BY <2>1, <2>4, <2>5
    <2>6. CASE w \in H!OnCpu(t)
      <3>1. w \in H!Cpu
        BY <2>6 DEF H!OnCpu
      <3> QED
        BY <2>1, <2>2, <2>4, <2>6, <3>1, HeldSpins, WaitsCpu
    <2> QED
      BY <2>3, <2>5, <2>6
  <1> QED
    BY <1>1, <1>2, <1>3 DEF LocksInv, H!TypeOK

\* Nor does a chain that starts at a CPU go on for ever.
LEMMA CpuEnds ==
    ASSUME LocksInv, ~Short, NEW c \in H!Cpu
    PROVE  Waits(Waits(Waits(Waits(c)))) = H!Nobody
  <1> USE Actors, WaitsNobody
  <1>1. Waits(c) = H!Spins(c) /\ Waits(Waits(heap)) = H!Nobody
    BY WaitsCpu, HeapEnds
  <1>2. CASE H!Spins(c) = H!Nobody
    BY <1>1, <1>2
  <1>3. CASE H!Spins(c) = heap
    BY <1>1, <1>3
  <1>4. CASE \E d \in H!Cpu : list[d] = H!Spins(c) /\ H!Spins(c) \in H!Cpu
               /\ at[H!Spins(c)] \in {"elem", "new"}
    <2>1. PICK h \in H!Cpu : h = H!Spins(c) /\ at[h] \in {"elem", "new"}
      BY <1>4
    <2>2. Waits(h) = H!Spins(h)
      BY WaitsCpu
    <2>3. H!Spins(h) = H!Nobody \/ H!Spins(h) = heap
      BY <2>1, SectionSpins
    <2> QED
      BY <1>1, <2>1, <2>2, <2>3
  <1> QED
    BY <1>2, <1>3, <1>4, SpinsFor

\* Chains of waiting are short, unless a CPU lacks an element.
LEMMA ChainsEnd ==
    ASSUME LocksInv, ~Short, NEW a \in H!Cpu \cup Thread
    PROVE  Waits(Waits(Waits(Waits(Waits(a))))) = H!Nobody
  <1> USE Actors, WaitsNobody
  <1>1. CASE a \in H!Cpu
    BY <1>1, CpuEnds
  <1>2. CASE a \in Thread
    <2> DEFINE w == H!WaitsFor(a)
    <2>1. w = H!Nobody \/ w = heap \/ w \in H!OnCpu(a)
      BY <1>2 DEF H!WaitsFor
    <2>2. Waits(a) = w
      BY <1>2 DEF Waits
    <2> HIDE DEF w
    <2>3. CASE w = H!Nobody
      BY <2>2, <2>3
    <2>4. CASE w = heap
      BY <2>2, <2>4, HeapEnds
    <2>5. CASE w \in H!OnCpu(a)
      <3>1. w \in H!Cpu
        BY <2>5 DEF H!OnCpu
      <3> QED
        BY <2>2, <3>1, CpuEnds
    <2> QED
      BY <2>1, <2>3, <2>4, <2>5
  <1> QED
    BY <1>1, <1>2

LEMMA WaitsIn ==
    ASSUME LocksInv, NEW a \in H!Cpu \cup Thread
    PROVE  Waits(a) \in H!Cpu \cup Thread \cup {H!Nobody}
  <1>1. CASE a \in H!Cpu
    <2>1. H!Spins(a) = H!Nobody \/ H!Spins(a) = heap \/ H!Spins(a) \in H!Cpu
      BY <1>1, SpinsFor
    <2> QED
      BY <1>1, <2>1, WaitsCpu DEF LocksInv, H!TypeOK
  <1>2. CASE a \in Thread
    <2>1. H!WaitsFor(a) = H!Nobody \/ H!WaitsFor(a) = heap \/ H!WaitsFor(a) \in H!OnCpu(a)
      BY <1>2, Actors DEF H!WaitsFor
    <2>2. H!OnCpu(a) \subseteq H!Cpu
      BY DEF H!OnCpu
    <2>3. Waits(a) = H!WaitsFor(a)
      BY <1>2, Actors DEF Waits
    <2> QED
      BY <2>1, <2>2, <2>3 DEF LocksInv, H!TypeOK
  <1> QED
    BY <1>1, <1>2

\* The first n steps of the chain of waiting from a on.
IsChain(a, n, f) ==
    f = [m \in 0..n |-> IF m = 0 THEN a ELSE IF f[m - 1] = H!Nobody THEN H!Nobody
      ELSE H!WaitsFor(f[m - 1])]

\* The chain of waiting is a function, of any length.
LEMMA ChainExists ==
    ASSUME NEW a, NEW n \in Nat
    PROVE  \E f : IsChain(a, n, f)
  <1> DEFINE Bad == {m \in Nat : ~ \E f : IsChain(a, m, f)}
  <1> SUFFICES ASSUME Bad # {} PROVE FALSE
    OBVIOUS
  <1>1. PICK m \in Bad : \A y \in Bad : m <= y
    <2>1. Bad \subseteq Nat
      OBVIOUS
    <2> HIDE DEF Bad
    <2> QED
      BY <2>1, Smallest
  <1>2. m # 0
    <2> DEFINE f == [x \in 0..0 |-> a]
    <2>1. IsChain(a, 0, f)
      BY DEF IsChain
    <2> QED
      BY <2>1
  <1>3. m \in Nat /\ m - 1 \in Nat /\ m - 1 \notin Bad
    BY <1>1, <1>2
  <1>4. PICK f : IsChain(a, m - 1, f)
    BY <1>3
  <1> DEFINE g == [x \in 0..m |-> IF x = m THEN IF f[m - 1] = H!Nobody THEN H!Nobody
               ELSE H!WaitsFor(f[m - 1])
                                  ELSE f[x]]
  <1>5. \A x \in 0..m : g[x] = IF x = 0 THEN a
                               ELSE IF g[x - 1] = H!Nobody THEN H!Nobody ELSE H!WaitsFor(g[x - 1])
    <2> SUFFICES ASSUME NEW x \in 0..m
                 PROVE  g[x] = IF x = 0 THEN a
                               ELSE IF g[x - 1] = H!Nobody THEN H!Nobody ELSE H!WaitsFor(g[x - 1])
      OBVIOUS
    <2>1. \A y \in 0..(m - 1) : f[y] = IF y = 0 THEN a
                               ELSE IF f[y - 1] = H!Nobody THEN H!Nobody ELSE H!WaitsFor(f[y - 1])
      BY <1>3, <1>4 DEF IsChain
    <2>2. CASE x = m
      <3>1. g[m] = (IF f[m - 1] = H!Nobody THEN H!Nobody ELSE H!WaitsFor(f[m - 1]))
              /\ g[m - 1] = f[m - 1]
        BY <1>3
      <3> QED
        BY <1>2, <2>2, <3>1
    <2>3. CASE x # m
      <3>1. x \in 0..(m - 1) /\ (x # 0 => x - 1 \in 0..m /\ x - 1 # m)
        BY <1>3, <2>3
      <3>2. g[x] = f[x] /\ (x # 0 => g[x - 1] = f[x - 1])
        BY <2>3, <3>1
      <3> HIDE DEF g
      <3> QED
        BY <2>1, <3>1, <3>2
    <2> QED
      BY <2>2, <2>3
  <1>6. IsChain(a, m, g)
    BY <1>5 DEF IsChain
  <1> QED
    BY <1>3, <1>6

\* There are at most as many actors as the chain of Deadlocked has steps.
LEMMA ActorsCounted ==
    LET All == H!Cpu \cup Thread
    IN  IsFiniteSet(All) /\ Cardinality(All) <= NCPU + Len(Modules)
  <1> DEFINE n == Len(Modules)
             f == [i \in 1..n |-> Modules[i]]
  <1>1. n \in Nat /\ NCPU \in Nat \ {0} /\ 0 \in Int /\ 1 \in Int /\ NCPU - 1 \in Int /\ n \in Int
    BY LockConstants
  <1>2. IsFiniteSet(H!Cpu) /\ Cardinality(H!Cpu) = NCPU
    <2>1. /\ IsFiniteSet(0..(NCPU - 1))
          /\ Cardinality(0..(NCPU - 1)) = IF 0 > NCPU - 1 THEN 0 ELSE NCPU - 1 - 0 + 1
      BY <1>1, FS_Interval, ZenonT(60)
    <2> QED
      BY <1>1, <2>1 DEF H!Cpu
  <1>3. IsFiniteSet(1..n) /\ Cardinality(1..n) = n
    <2>1. IsFiniteSet(1..n) /\ Cardinality(1..n) = IF 1 > n THEN 0 ELSE n - 1 + 1
      BY <1>1, FS_Interval, ZenonT(60)
    <2> HIDE DEF n
    <2> QED
      BY <1>1, <2>1
  <1>4. Thread = {Modules[i] : i \in 1..n}
    BY LockConstants
  <1>5. f \in Surjection(1..n, Thread)
    BY <1>4 DEF Surjection
  <1> HIDE DEF f
  <1>6. IsFiniteSet(Thread) /\ Cardinality(Thread) <= n
    BY <1>3, <1>5, FS_Surjection
  <1>7. IsFiniteSet(H!Cpu \cap Thread)
    BY <1>2, FS_Subset
  <1>8. Cardinality(H!Cpu \cap Thread) \in Nat /\ Cardinality(Thread) \in Nat
    BY <1>6, <1>7, FS_CardinalityType
  <1>9. IsFiniteSet(H!Cpu \cup Thread)
        /\ Cardinality(H!Cpu \cup Thread)
             = Cardinality(H!Cpu) + Cardinality(Thread) - Cardinality(H!Cpu \cap Thread)
    BY <1>2, <1>6, FS_Union
  <1> QED
    BY <1>1, <1>2, <1>6, <1>8, <1>9

\* A chain that has not ended has gone through actors only, each waiting for
\* the next.
LEMMA ChainGoes ==
    ASSUME LocksInv, NEW a \in H!Cpu \cup Thread, NEW N \in Nat, NEW f, IsChain(a, N, f),
             f[N] # H!Nobody
    PROVE  /\ f \in [0..N -> H!Cpu \cup Thread]
           /\ \A n \in 0..(N - 1) : f[n + 1] = Waits(f[n])
  <1>1. \A m \in 0..N : f[m] = IF m = 0 THEN a ELSE IF f[m - 1] = H!Nobody THEN H!Nobody
          ELSE H!WaitsFor(f[m - 1])
    BY DEF IsChain
  <1>2. \A n \in 0..(N - 1) : f[n + 1] = Waits(f[n])
    <2> SUFFICES ASSUME NEW n \in 0..(N - 1) PROVE f[n + 1] = Waits(f[n])
      OBVIOUS
    <2>1. n + 1 \in 0..N /\ n + 1 # 0 /\ (n + 1) - 1 = n
      OBVIOUS
    <2> QED
      BY <1>1, <2>1 DEF Waits
  <1>3. f[0] = a
    BY <1>1
  <1> DEFINE Ended == {m \in 0..N : f[N - m] = H!Nobody}
  <1>4. Ended = {}
    <2> SUFFICES ASSUME Ended # {} PROVE FALSE
      OBVIOUS
    <2>1. PICK m \in Ended : \A y \in Ended : m <= y
      <3>1. Ended \subseteq Nat
        OBVIOUS
      <3> HIDE DEF Ended
      <3> QED
        BY <3>1, Smallest
    <2>2. m \in 0..N /\ f[N - m] = H!Nobody /\ m # 0 /\ m \in Nat
      <3>1. N - 0 = N
        OBVIOUS
      <3> QED
        BY <2>1, <3>1
    <2>3. N - m \in 0..(N - 1) /\ N - (m - 1) = (N - m) + 1 /\ m - 1 \in 0..N
      BY <2>2
    <2>4. f[N - (m - 1)] = H!Nobody
      BY <1>2, <2>2, <2>3, WaitsNobody
    <2>5. m - 1 \in Ended
      BY <2>3, <2>4
    <2>6. ~(m <= m - 1)
      BY <2>2
    <2> HIDE DEF Ended
    <2> QED
      BY <2>1, <2>5, <2>6
  <1>5. \A n \in 0..N : f[n] # H!Nobody
    <2> SUFFICES ASSUME NEW n \in 0..N, f[n] = H!Nobody PROVE FALSE
      OBVIOUS
    <2>1. N - n \in 0..N /\ N - (N - n) = n
      OBVIOUS
    <2>2. N - n \in Ended
      BY <2>1
    <2> QED
      BY <1>4, <2>2
  <1> DEFINE Out == {m \in 0..N : f[m] \notin H!Cpu \cup Thread}
  <1>6. Out = {}
    <2> SUFFICES ASSUME Out # {} PROVE FALSE
      OBVIOUS
    <2>1. PICK m \in Out : \A y \in Out : m <= y
      <3>1. Out \subseteq Nat
        OBVIOUS
      <3> HIDE DEF Out
      <3> QED
        BY <3>1, Smallest
    <2>2. m \in 0..N /\ f[m] \notin H!Cpu \cup Thread /\ m # 0 /\ m \in Nat
      BY <1>3, <2>1
    <2>3. m - 1 \in 0..(N - 1) /\ m - 1 \in 0..N /\ (m - 1) + 1 = m
      BY <2>2
    <2>4. ~(m <= m - 1)
      BY <2>2
    <2>5. f[m - 1] \in H!Cpu \cup Thread
      BY <2>1, <2>3, <2>4
    <2>6. f[m] = Waits(f[m - 1])
      BY <1>2, <2>3
    <2>7. Waits(f[m - 1]) \in H!Cpu \cup Thread \cup {H!Nobody}
      BY <2>5, WaitsIn
    <2> QED
      BY <1>5, <2>2, <2>6, <2>7
  <1>7. \A n \in 0..N : f[n] \in H!Cpu \cup Thread
    BY <1>6
  <1>8. f = [n \in 0..N |-> f[n]]
    BY DEF IsChain
  <1> QED
    BY <1>2, <1>7, <1>8

\* A set of actors that wait for each other only contradicts ChainsEnd.
LEMMA NoRound ==
    ASSUME LocksInv, ~Short, NEW S, S \subseteq H!Cpu \cup Thread, \A x \in S : Waits(x) \in S
    PROVE  S = {}
  <1> SUFFICES ASSUME NEW x \in S PROVE FALSE
    OBVIOUS
  <1>1. Waits(Waits(Waits(Waits(Waits(x))))) \in S
    OBVIOUS
  <1>2. Waits(Waits(Waits(Waits(Waits(x))))) = H!Nobody
    BY ChainsEnd
  <1> QED
    BY <1>1, <1>2, Actors

\* A chain that comes round needs a CPU that lacks an element.
LEMMA Rounds == LocksInv => H!DeadlockOnlyWhileShort
  <1> SUFFICES ASSUME LocksInv, H!Deadlocked, ~Short PROVE FALSE
    BY DEF H!DeadlockOnlyWhileShort, Short
  <1> DEFINE N == NCPU + Len(Modules)
  <1>1. N \in Nat
    BY LockConstants
  <1>2. PICK a, f : a \in H!Cpu \cup Thread /\ IsChain(a, N, f) /\ f[N] # H!Nobody
    <2>1. PICK a \in H!Cpu \cup Thread :
            LET chain[n \in 0..N] ==
                  IF n = 0 THEN a
                  ELSE IF chain[n - 1] = H!Nobody THEN H!Nobody ELSE H!WaitsFor(chain[n - 1])
            IN  chain[N] # H!Nobody
      BY DEF H!Deadlocked
    <2> DEFINE f == CHOOSE g : IsChain(a, N, g)
    <2>2. IsChain(a, N, f)
      BY <1>1, ChainExists
    <2>3. f[N] # H!Nobody
      BY <2>1 DEF IsChain
    <2> QED
      BY <2>2, <2>3
  <1> HIDE DEF N
  <1>3. /\ f \in [0..N -> H!Cpu \cup Thread]
        /\ \A n \in 0..(N - 1) : f[n + 1] = Waits(f[n])
    BY <1>1, <1>2, ChainGoes
  <1>4. IsFiniteSet(0..N) /\ Cardinality(0..N) = N + 1
    <2>1. 0 \in Int /\ N \in Int
      BY <1>1
    <2> QED
      BY <1>1, <2>1, FS_Interval
  <1>5. IsFiniteSet(H!Cpu \cup Thread) /\ Cardinality(H!Cpu \cup Thread) < N + 1
    <2>1. IsFiniteSet(H!Cpu \cup Thread) /\ Cardinality(H!Cpu \cup Thread) <= N
      BY ActorsCounted DEF N
    <2>2. Cardinality(H!Cpu \cup Thread) \in Nat
      BY <2>1, FS_CardinalityType
    <2> QED
      BY <1>1, <2>1, <2>2
  <1>6. \E x, y \in 0..N : x # y /\ f[x] = f[y]
    <2> DEFINE A == H!Cpu \cup Thread
               D == 0..N
    <2>1. IsFiniteSet(D) /\ IsFiniteSet(A) /\ Cardinality(A) < Cardinality(D) /\ f \in [D -> A]
      BY <1>3, <1>4, <1>5
    <2> HIDE DEF A, D
    <2>2. \E x, y \in D : x # y /\ f[x] = f[y]
      BY <2>1, FS_PigeonHole
    <2> QED
      BY <2>2 DEF D
  <1>7. PICK b \in 0..N, e \in 0..N : b < e /\ f[b] = f[e]
    <2>1. PICK x \in 0..N, y \in 0..N : x # y /\ f[x] = f[y]
      BY <1>6
    <2>2. x < y \/ y < x
      BY <2>1
    <2> QED
      BY <2>1, <2>2
  <1> DEFINE S == {f[m] : m \in b..(e - 1)}
  <1>8. \A m \in b..(e - 1) : m \in 0..(N - 1) /\ m \in 0..N /\ (m + 1 \in b..(e - 1) \/ m + 1 = e)
    BY <1>1
  <1>9. b \in b..(e - 1)
    BY <1>7
  <1>10. S \subseteq H!Cpu \cup Thread
    BY <1>3, <1>8
  <1>11. \A x \in S : Waits(x) \in S
    <2> SUFFICES ASSUME NEW m \in b..(e - 1) PROVE Waits(f[m]) \in S
      OBVIOUS
    <2>1. Waits(f[m]) = f[m + 1]
      BY <1>3, <1>8
    <2> QED
      BY <1>7, <1>8, <1>9, <2>1
  <1>12. f[b] \in S
    BY <1>9
  <1> HIDE DEF S
  <1> QED
    BY <1>10, <1>11, <1>12, NoRound

-----------------------------------------------------------------------------
(* The clock (module Timer).                                                *)

\* What the constants of Timer satisfy.
LEMMA TimerConstants ==
    /\ W \in Nat /\ T!Range \in Nat \ {0}
    /\ Wakes \in Nat /\ Wakes < T!Range
    /\ SleepArgs \subseteq 1..(T!Range - 1)
    /\ Uptimes \subseteq Nat
  BY WaitingAssumption DEF T!TimerAssumption

\* The registers, by how far timer_init is.
Chip ==
    /\ cmos.A = 38
    /\ cmos.B = IF bpc \in {"rate", "enable"} THEN 2 ELSE 66
    /\ bpc = "data" => index \in {"F", "C"}
    /\ T!Line(pf, cmos) => pending \/ handler # "out" \/ bpc = "clear"

\* The ticks that a sleeper has slept through have been counted.
Slept == sleep.on /\ sleep.start + sleep.elapsed < T!Range => ticks = sleep.start + sleep.elapsed

\* The inductive invariant of module Timer.
ClockInv == T!TypeOK /\ Chip /\ Slept /\ (bpc = "wait" => wakes < Wakes)

\* The counter comes round at its range.
LEMMA Around ==
    /\ T!Range \in Nat \ {0}
    /\ \A x \in Nat : x % T!Range \in 0..(T!Range - 1)
    /\ \A x \in 0..(T!Range - 1) : x % T!Range = x
    /\ \A x \in Nat : T!Range <= x /\ x < T!Range + T!Range => x % T!Range = x - T!Range
  <1>1. T!Range \in Nat \ {0}
    BY TimerConstants
  <1>2. ASSUME NEW R \in Nat \ {0}
        PROVE  /\ \A x \in Nat : x % R \in 0..(R - 1)
               /\ \A x \in 0..(R - 1) : x % R = x
               /\ \A x \in Nat : R <= x /\ x < R + R => x % R = x - R
    OBVIOUS
  <1> QED
    BY <1>1, <1>2

\* With the registers that timer_init leaves, the line is the periodic flag.
LEMMA LineIs ==
    ASSUME NEW flag, NEW regs
    PROVE  /\ regs.B = 2 => ~T!Line(flag, regs)
           /\ regs.B = 66 /\ flag \in BOOLEAN => T!Line(flag, regs) = flag
  <1>1. (2 \div 64) % 2 = 0 /\ (66 \div 64) % 2 = 1
    OBVIOUS
  <1> QED
    BY <1>1 DEF T!Line

LEMMA ClockInit == T!Init => ClockInv
  <1> SUFFICES ASSUME T!Init PROVE ClockInv
    OBVIOUS
  <1>1. cmos.B = 2 /\ cmos.A = 38 /\ cmos \in [{"A", "B", "F"} -> 0..255]
    BY DEF T!Init
  <1>2. ~T!Line(pf, cmos)
    BY <1>1, LineIs
  <1>3. Chip
    BY <1>1, <1>2 DEF T!Init, Chip
  <1>4. T!TypeOK
    <2>1. T!Range \in Nat \ {0} /\ Wakes \in Nat
      BY Around, TimerConstants
    <2>2. sleep \in [on : BOOLEAN, start : 0..(T!Range - 1), n : 0..(T!Range - 1), elapsed : 0..T!Range]
      BY <2>1 DEF T!Init, T!Awake
    <2> QED
      BY <1>1, <2>1, <2>2, 0 \in 0..(T!Range - 1), 0 \in 0..Wakes DEF T!Init, T!TypeOK
  <1>5. Slept
    BY DEF T!Init, Slept, T!Awake
  <1> QED
    BY <1>3, <1>4, <1>5 DEF ClockInv, T!Init

LEMMA PeriodicInv == ClockInv /\ T!PeriodicEvent => ClockInv'
  <1> SUFFICES ASSUME ClockInv, T!PeriodicEvent PROVE ClockInv'
    OBVIOUS
  <1>1. pending' \in BOOLEAN
    BY DEF T!PeriodicEvent, T!Edge, ClockInv, T!TypeOK, T!Line
  <1>2. T!TypeOK'
    BY <1>1 DEF T!PeriodicEvent, ClockInv, T!TypeOK
  <1>3. Chip'
    <2>1. pf' = TRUE /\ cmos' = cmos /\ ~T!Line(pf, cmos) /\ pending' = (pending \/ T!Line(TRUE, cmos))
      BY DEF T!PeriodicEvent, T!Edge, T!Line
    <2>2. T!Line(pf, cmos)' => pending'
      BY <2>1 DEF T!Line
    <2> QED
      BY <2>2 DEF T!PeriodicEvent, ClockInv, Chip
  <1> QED
    BY <1>2, <1>3 DEF T!PeriodicEvent, ClockInv, Slept

LEMMA InterruptInv == ClockInv /\ T!Interrupt => ClockInv'
  <1> SUFFICES ASSUME ClockInv, T!Interrupt PROVE ClockInv'
    OBVIOUS
  <1>1. ticks \in 0..(T!Range - 1) /\ T!Range \in Nat \ {0}
    BY Around DEF ClockInv, T!TypeOK
  <1>2. ticks' = (ticks + 1) % T!Range /\ ticks' \in 0..(T!Range - 1)
    BY <1>1, Around DEF T!Interrupt
  <1>3. /\ sleep.on \in BOOLEAN /\ sleep.start \in 0..(T!Range - 1) /\ sleep.n \in 0..(T!Range - 1)
        /\ sleep.elapsed \in 0..T!Range
    BY DEF ClockInv, T!TypeOK
  <1>4. sleep'.on = sleep.on /\ sleep'.start = sleep.start /\ sleep'.n = sleep.n
        /\ sleep'.elapsed = (IF sleep.on /\ sleep.elapsed < T!Range THEN sleep.elapsed + 1
             ELSE sleep.elapsed)
        /\ sleep' \in [on : BOOLEAN, start : 0..(T!Range - 1), n : 0..(T!Range - 1), elapsed :
             0..T!Range]
    <2>1. sleep \in [on : BOOLEAN, start : 0..(T!Range - 1), n : 0..(T!Range - 1), elapsed : 0..T!Range]
      BY DEF ClockInv, T!TypeOK
    <2>2. CASE sleep.on /\ sleep.elapsed < T!Range
      <3>1. sleep' = [sleep EXCEPT !.elapsed = @ + 1] /\ sleep.elapsed + 1 \in 0..T!Range
        BY <1>1, <1>3, <2>2 DEF T!Interrupt
      <3> QED
        BY <2>1, <2>2, <3>1
    <2>3. CASE ~(sleep.on /\ sleep.elapsed < T!Range)
      BY <2>1, <2>3 DEF T!Interrupt
    <2> QED
      BY <2>2, <2>3
  <1>5. T!TypeOK'
    BY <1>2, <1>4 DEF T!Interrupt, ClockInv, T!TypeOK
  <1>6. Slept'
    <2> SUFFICES ASSUME sleep'.on, sleep'.start + sleep'.elapsed < T!Range
                 PROVE  ticks' = sleep'.start + sleep'.elapsed
      BY DEF Slept, T!Range
    <2>1. sleep.on /\ sleep.elapsed < T!Range /\ sleep'.elapsed = sleep.elapsed + 1
      BY <1>1, <1>3, <1>4
    <2>2. ticks = sleep.start + sleep.elapsed
      BY <1>1, <1>3, <1>4, <2>1 DEF ClockInv, Slept
    <2>3. ticks + 1 \in 0..(T!Range - 1)
      BY <1>1, <1>3, <1>4, <2>1, <2>2
    <2>4. ticks' = ticks + 1
      BY <1>2, <2>3, Around
    <2> QED
      BY <1>3, <1>4, <2>1, <2>2, <2>4
  <1>7. Chip'
    BY DEF T!Interrupt, ClockInv, Chip, T!Line
  <1> QED
    BY <1>5, <1>6, <1>7 DEF ClockInv, T!Interrupt

LEMMA TickInv == ClockInv /\ T!_tick => ClockInv'
  <1> SUFFICES ASSUME ClockInv, T!_tick PROVE ClockInv'
    OBVIOUS
  <1>1. T!TypeOK'
    BY ZenonT(60) DEF T!_tick, ClockInv, T!TypeOK
  <1>2. Slept'
    BY DEF T!_tick, ClockInv, Slept
  <1>3. Chip'
    BY DEF T!_tick, ClockInv, Chip, T!Line
  <1> QED
    BY <1>1, <1>2, <1>3 DEF ClockInv, T!_tick

LEMMA BootInv == ClockInv /\ T!Boot => ClockInv'
  <1> SUFFICES ASSUME ClockInv, T!Boot PROVE ClockInv'
    OBVIOUS
  <1>1. Slept'
    BY DEF T!Boot, ClockInv, Slept
  <1>2. /\ cmos \in [{"A", "B", "F"} -> 0..255] /\ pf \in BOOLEAN /\ pending \in BOOLEAN
        /\ cmos.A = 38 /\ cmos.B = (IF bpc \in {"rate", "enable"} THEN 2 ELSE 66) /\ handler = "out"
    BY DEF ClockInv, T!TypeOK, Chip, T!Boot
  <1> SUFFICES /\ index' \in {"A", "B", "C", "F"} /\ cmos' \in [{"A", "B", "F"} -> 0..255]
               /\ pf' \in BOOLEAN /\ pending' \in BOOLEAN
               /\ bpc' \in {"enable", "clear", "start", "index", "data", "wake"}
               /\ Chip'
    BY <1>1 DEF T!Boot, ClockInv, T!TypeOK
  <1>3. CASE bpc = "rate" /\ T!timer_init
    <2>1. (38 \div 16) * 16 + 6 = 38
      OBVIOUS
    <2>2. /\ index' = "A" /\ bpc' = "enable" /\ pf' = pf /\ pending' = pending
          /\ cmos' = [cmos EXCEPT !.A = 38] /\ handler' = handler
      BY <1>2, <1>3, <2>1 DEF T!timer_init, T!Boot
    <2>3. cmos' \in [{"A", "B", "F"} -> 0..255] /\ cmos'.A = 38 /\ cmos'.B = 2
      BY <1>2, <1>3, <2>2
    <2>4. ~T!Line(pf, cmos)'
      BY <2>3, LineIs
    <2> QED
      BY <1>2, <2>2, <2>3, <2>4 DEF Chip
  <1>4. CASE bpc = "enable" /\ T!timer_init
    <2>2. /\ index' = "B" /\ bpc' = "clear" /\ pf' = pf /\ pending' \in BOOLEAN
          /\ cmos' = [cmos EXCEPT !.B = 66] /\ handler' = handler
      BY <1>2, <1>4 DEF T!timer_init, T!Boot, T!Edge, T!Line
    <2>3. cmos' \in [{"A", "B", "F"} -> 0..255] /\ cmos'.A = 38 /\ cmos'.B = 66
      BY <1>2, <1>4, <2>2
    <2> QED
      BY <1>2, <2>2, <2>3 DEF Chip
  <1>5. CASE bpc = "clear" /\ T!timer_init
    BY <1>2, <1>5, ZenonT(60) DEF T!timer_init, T!Boot, Chip, T!Line
  <1>6. CASE T!interrupts_start
    BY <1>2, <1>6 DEF T!interrupts_start, T!Boot, T!chip, Chip, T!Line, ClockInv, T!TypeOK
  <1>7. CASE bpc = "index" /\ T!shutdown_code
    BY <1>2, <1>7 DEF T!shutdown_code, T!Boot, Chip, T!Line, ClockInv
  <1>8. CASE bpc = "data" /\ T!shutdown_code
    <2>1. index \in {"F", "C"} /\ index' = index /\ pf' = pf /\ bpc' = "wake" /\ T!port_write(10)
      BY <1>8 DEF T!shutdown_code, ClockInv, Chip
    <2>2. cmos' \in [{"A", "B", "F"} -> 0..255] /\ cmos'.A = cmos.A /\ cmos'.B = cmos.B
      BY <1>2, <2>1 DEF T!port_write
    <2>3. T!Line(pf, cmos') = T!Line(pf, cmos)
      BY <2>2 DEF T!Line
    <2>4. pending' = pending
      BY <1>2, <2>1, <2>3 DEF T!port_write, T!Edge, T!Line
    <2> QED
      BY <1>2, <1>8, <2>1, <2>2, <2>3, <2>4 DEF T!Boot, Chip, ClockInv
  <1> QED
    BY <1>3, <1>4, <1>5, <1>6, <1>7, <1>8 DEF T!Boot, T!timer_init, T!shutdown_code

LEMMA ActiveWaitInv == ClockInv /\ T!timer_active_wait => ClockInv'
  <1> SUFFICES ASSUME ClockInv, T!timer_active_wait PROVE ClockInv'
    OBVIOUS
  <1>1. Slept'
    BY DEF T!timer_active_wait, ClockInv, Slept
  <1>2. Chip'
    BY DEF T!timer_active_wait, ClockInv, Chip, T!Line, T!chip
  <1>3. ticks \in 0..(T!Range - 1) /\ T!Range \in Nat \ {0} /\ wakes \in 0..Wakes /\ Wakes \in Nat
    BY Around, TimerConstants DEF ClockInv, T!TypeOK
  <1>4. wtime' \in 0..(T!Range - 1)
    BY <1>3, Around DEF T!timer_active_wait
  <1>5. wakes' \in 0..Wakes /\ bpc' \in {"wait", "run", "wake"} /\ (bpc' = "wait" => wakes' < Wakes)
    BY <1>3 DEF T!timer_active_wait, ClockInv
  <1>6. T!TypeOK'
    BY <1>4, <1>5 DEF T!timer_active_wait, ClockInv, T!TypeOK, T!chip
  <1> QED
    BY <1>1, <1>2, <1>5, <1>6 DEF ClockInv

LEMMA SleepInv ==
    ASSUME ClockInv, NEW n \in SleepArgs, T!sched_thread_sleep(n)
    PROVE  ClockInv'
  <1>1. ticks \in 0..(T!Range - 1) /\ T!Range \in Nat \ {0} /\ n \in 0..(T!Range - 1)
    BY Around, TimerConstants DEF ClockInv, T!TypeOK
  <1>2. sleep' = [on |-> TRUE, start |-> ticks, n |-> n, elapsed |-> 0] /\ ticks' = ticks
    BY DEF T!sched_thread_sleep
  <1>3. sleep' \in [on : BOOLEAN, start : 0..(T!Range - 1), n : 0..(T!Range - 1), elapsed : 0..T!Range]
    BY <1>1, <1>2
  <1>4. Slept'
    BY <1>1, <1>2 DEF Slept
  <1>5. T!TypeOK'
    BY <1>3 DEF T!sched_thread_sleep, ClockInv, T!TypeOK, T!chip
  <1>6. Chip'
    BY DEF T!sched_thread_sleep, ClockInv, Chip, T!Line, T!chip
  <1> QED
    BY <1>4, <1>5, <1>6 DEF ClockInv, T!sched_thread_sleep

LEMMA WakeUpInv == ClockInv /\ T!WakeUp => ClockInv'
  <1> SUFFICES ASSUME ClockInv, T!WakeUp PROVE ClockInv'
    OBVIOUS
  <1>1. T!Range \in Nat \ {0}
    BY Around
  <1>2. sleep' \in [on : BOOLEAN, start : 0..(T!Range - 1), n : 0..(T!Range - 1), elapsed :
          0..T!Range] /\ ~sleep'.on
    BY <1>1 DEF T!WakeUp, T!Awake
  <1>3. T!TypeOK'
    BY <1>2 DEF T!WakeUp, ClockInv, T!TypeOK, T!chip
  <1>4. Chip'
    BY DEF T!WakeUp, ClockInv, Chip, T!Line, T!chip
  <1> QED
    BY <1>2, <1>3, <1>4 DEF ClockInv, T!WakeUp, Slept

\* Every step preserves it.
LEMMA ClockStep == ClockInv /\ [T!Next]_T!vars => ClockInv'
  <1> SUFFICES ASSUME ClockInv, [T!Next]_T!vars PROVE ClockInv'
    OBVIOUS
  <1>1. CASE UNCHANGED T!vars
    BY <1>1 DEF T!vars, ClockInv, T!TypeOK, Chip, T!Line, Slept
  <1>2. CASE \E n \in SleepArgs : T!sched_thread_sleep(n)
    BY <1>2, SleepInv
  <1> QED
    BY <1>1, <1>2, PeriodicInv, InterruptInv, TickInv, BootInv, ActiveWaitInv, WakeUpInv DEF T!Next

\* A sleep in a counter that comes round.
LEMMA SleepsRight == ClockInv => T!SleepRight
  <1> SUFFICES ASSUME ClockInv, sleep.on PROVE T!SleepRight
    BY DEF T!SleepRight
  <1>1. /\ sleep.start \in 0..(T!Range - 1) /\ sleep.n \in 0..(T!Range - 1)
             /\ sleep.elapsed \in 0..T!Range
        /\ ticks \in 0..(T!Range - 1) /\ T!Range \in Nat \ {0}
    BY Around DEF ClockInv, T!TypeOK
  <1>2. ASSUME sleep.start + sleep.n < T!Range - 1, sleep.start + sleep.elapsed < T!Range
        PROVE  T!thread_timer_event <=> sleep.elapsed > sleep.n
    <2>1. ticks = sleep.start + sleep.elapsed
      BY <1>2 DEF ClockInv, Slept
    <2>2. T!wait_timer = sleep.start + sleep.n
      BY <1>1, <1>2, Around DEF T!wait_timer
    <2> QED
      BY <1>1, <2>1, <2>2 DEF T!thread_timer_event
  <1>3. ASSUME sleep.start + sleep.n >= T!Range, sleep.elapsed = 0
        PROVE  T!thread_timer_event
    <2>1. ticks = sleep.start
      BY <1>1, <1>3 DEF ClockInv, Slept
    <2>2. T!wait_timer = sleep.start + sleep.n - T!Range
      BY <1>1, <1>3, Around DEF T!wait_timer
    <2> QED
      BY <1>1, <2>1, <2>2 DEF T!thread_timer_event
  <1> QED
    BY <1>2, <1>3 DEF T!SleepRight

\* A part of a second in milliseconds, and back.
LEMMA MilisecRight ==
    ASSUME NEW r \in Nat, r < 1024
    PROVE  LET m == (r * 1000) \div 1024
               b == (m * 1024) \div 1000
           IN  m \in Nat /\ m < 1000 /\ b \in Nat /\ b <= r /\ r <= b + 2
  BY Z3

\* Division with remainder.
LEMMA DivMod ==
    ASSUME NEW t \in Nat, NEW n \in Nat \ {0}
    PROVE  t = (t \div n) * n + (t % n) /\ t \div n \in Nat /\ t % n \in 0..(n - 1)
  <1>1. t = (t \div n) * n + (t % n)
    BY Z3
  <1>2. t \div n \in Nat /\ t % n \in 0..(n - 1)
    BY Z3
  <1> QED
    BY <1>1, <1>2

LEMMA Remainder ==
    ASSUME NEW q \in Nat, NEW n \in Nat \ {0}, NEW r \in Nat, r < n
    PROVE  (q * n + r) % n = r
  BY Z3

\* Days, hours, minutes, seconds and ticks add up.
Fields(t, d, h, m, s, r) ==
    /\ d = t \div 88473600 /\ h = (t % 88473600) \div 3686400
    /\ m = (t % 3686400) \div 61440 /\ s = (t % 61440) \div 1024 /\ r = t % 1024
    /\ h < 24 /\ m < 60 /\ s < 60 /\ r < 1024
    /\ t = d * 88473600 + h * 3686400 + m * 61440 + s * 1024 + r

\* Days, hours, minutes and seconds of an uptime.
LEMMA FieldsRight ==
    ASSUME NEW t \in Nat
    PROVE  \E d, h, m, s, r \in Nat : Fields(t, d, h, m, s, r)
  <1>1. PICK d \in Nat, a \in Nat : a < 88473600 /\ d = t \div 88473600 /\ a = t % 88473600
               /\ t = d * 88473600 + a
    BY DivMod, Z3
  <1>2. PICK h \in Nat, e \in Nat : e < 3686400 /\ h = a \div 3686400 /\ a = h * 3686400 + e
    BY DivMod, Z3
  <1>3. PICK m \in Nat, f \in Nat : f < 61440 /\ m = e \div 61440 /\ e = m * 61440 + f
    BY DivMod, Z3
  <1>4. PICK s \in Nat, r \in Nat : r < 1024 /\ s = f \div 1024 /\ f = s * 1024 + r
    BY DivMod, Z3
  <1>5. h < 24 /\ m < 60 /\ s < 60
    BY <1>1, <1>2, <1>3, <1>4, Z3
  <1>6. t = (d * 24 + h) * 3686400 + e /\ d * 24 + h \in Nat
    BY <1>1, <1>2, Z3
  <1>7. t = ((d * 24 + h) * 60 + m) * 61440 + f /\ (d * 24 + h) * 60 + m \in Nat
    BY <1>3, <1>6, Z3
  <1>8. t = (((d * 24 + h) * 60 + m) * 60 + s) * 1024 + r /\ ((d * 24 + h) * 60 + m) * 60 + s \in Nat
    BY <1>4, <1>7, Z3
  <1>9. t % 3686400 = e
    <2>1. ((d * 24 + h) * 3686400 + e) % 3686400 = e
      BY <1>2, <1>6, Remainder, Z3
    <2> QED
      BY <1>6, <2>1, Z3
  <1>10. t % 61440 = f
    <2>1. (((d * 24 + h) * 60 + m) * 61440 + f) % 61440 = f
      BY <1>3, <1>7, Remainder, Z3
    <2> QED
      BY <1>7, <2>1, Z3
  <1>11. t % 1024 = r
    <2>1. ((((d * 24 + h) * 60 + m) * 60 + s) * 1024 + r) % 1024 = r
      BY <1>4, <1>8, Remainder, Z3
    <2> QED
      BY <1>8, <2>1, Z3
  <1>12. t = d * 88473600 + h * 3686400 + m * 61440 + s * 1024 + r
    BY <1>1, <1>2, <1>3, <1>4, Z3
  <1> QED
    BY <1>1, <1>2, <1>3, <1>4, <1>5, <1>9, <1>10, <1>11, <1>12, Z3 DEF Fields

\* They stand for the ticks.
LEMMA UptimesRight ==
    ASSUME NEW t \in Nat
    PROVE  T!UptimeRight(t)
  <1>1. T!DAY = 88473600 /\ T!HOUR = 3686400 /\ T!MINUTE = 61440 /\ T!TIMER_HZ = 1024
          /\ T!SEC_TO_MS = 1000
        /\ T!DAY_TO_H = 24 /\ T!H_TO_MIN = 60 /\ T!MIN_TO_SEC = 60
    BY Z3 DEF T!DAY, T!HOUR, T!MINUTE, T!TIMER_HZ, T!SEC_TO_MS, T!DAY_TO_H, T!H_TO_MIN, T!MIN_TO_SEC
  <1>2. PICK d \in Nat, h \in Nat, m \in Nat, s \in Nat, r \in Nat : Fields(t, d, h, m, s, r)
    BY FieldsRight
  <1> DEFINE ms == (r * 1000) \div 1024
             b == (ms * 1024) \div 1000
  <1>3. ms \in Nat /\ ms < 1000 /\ b \in Nat /\ b <= r /\ r <= b + 2
    BY <1>2, MilisecRight, Z3 DEF Fields
  <1>4. T!_ticks_to_time(t) = [days |-> d, hours |-> h, minutes |-> m, sec |-> s, milisec |-> ms]
    BY <1>1, <1>2, Z3 DEF Fields, T!_ticks_to_time
  <1> HIDE DEF ms
  <1>5. T!_time_to_ticks(T!_ticks_to_time(t)) = b + s * 1024 + m * 61440 + h * 3686400 + d * 88473600
    BY <1>1, <1>4, Z3 DEF T!_time_to_ticks
  <1> HIDE DEF b
  <1> QED
    BY <1>1, <1>2, <1>3, <1>4, <1>5, Z3 DEF Fields, T!UptimeRight

\* What the invariant says of the clock.
LEMMA TimerRight == ClockInv => T!ClockRuns /\ T!TimesRight
  <1> SUFFICES ASSUME ClockInv PROVE T!ClockRuns /\ T!TimesRight
    OBVIOUS
  <1>1. T!ClockRuns
    BY DEF ClockInv, Chip, T!ClockRuns
  <1>2. \A t \in Uptimes : T!UptimeRight(t)
    BY TimerConstants, UptimesRight
  <1> QED
    BY <1>1, <1>2, SleepsRight DEF T!TimesRight
-----------------------------------------------------------------------------
\* The two invariants hold in all behaviours of module Waiting.
LEMMA LocksAlways == WaitSpec => []LocksInv
  <1>1. WaitInit => LocksInv
    BY LocksInit DEF WaitInit
  <1>2. LocksInv /\ [WaitNext]_WaitVars => LocksInv'
    <2> SUFFICES ASSUME LocksInv, [WaitNext]_WaitVars PROVE LocksInv'
      OBVIOUS
    <2>1. [H!Next]_H!vars
      BY DEF WaitNext, WaitVars, LocksNext, ClockNext, lock_vars, H!vars, H!locks, H!queues
    <2> QED
      BY <2>1, LocksStep
  <1> QED
    BY <1>1, <1>2, PTL DEF WaitSpec

LEMMA ClockAlways == WaitSpec => []ClockInv
  <1>1. WaitInit => ClockInv
    BY ClockInit DEF WaitInit
  <1>2. ClockInv /\ [WaitNext]_WaitVars => ClockInv'
    <2> SUFFICES ASSUME ClockInv, [WaitNext]_WaitVars PROVE ClockInv'
      OBVIOUS
    <2>1. [T!Next]_T!vars
      BY DEF WaitNext, WaitVars, LocksNext, ClockNext, timer_vars, T!vars
    <2> QED
      BY <2>1, ClockStep
  <1> QED
    BY <1>1, <1>2, PTL DEF WaitSpec

\* A queue never has more elements than its CPU has threads, and a tick goes to
\* the heap only for the element that the loader's push took away (list.c, for
\* every number of CPUs and threads).
THEOREM ElementsAlwaysSuffice == WaitSpec => []ElementsSuffice
  <1>1. LocksInv => ElementsSuffice
    BY ElementsEnough DEF ElementsSuffice
  <1> QED
    BY <1>1, LocksAlways, PTL

\* The tick, the loader and a thread wait for each other in a round only while a
\* CPU other than CPU 0 is given its second thread, or a later one, and lacks an
\* element (list.c, memory.c).
THEOREM DeadlocksOnlyWhileShort == WaitSpec => []DeadlockOnlyWhileShort
  <1>1. LocksInv => DeadlockOnlyWhileShort
    BY Rounds DEF DeadlockOnlyWhileShort
  <1> QED
    BY <1>1, LocksAlways, PTL

\* The chip's line is never up with nobody about to lower it, cpu_wake_all never
\* changes the rate, a sleep ends when it should, and the uptime stands for the
\* ticks (timer.c, for every width of the counter).
THEOREM TimesAlwaysRight == WaitSpec => []TimesRight
  <1>1. ClockInv => TimesRight
    BY TimerRight DEF TimesRight
  <1> QED
    BY <1>1, ClockAlways, PTL
=============================================================================
