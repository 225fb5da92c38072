-------------------------------- MODULE Boot --------------------------------
(***************************************************************************)
(* Bringing up the CPUs: kmain on the boot CPU, the start-up messages of   *)
(* cpu_wake_all, hello_world on every other CPU, and the barrier cpu_sync  *)
(* that all of them pass before the first thread exists and before any     *)
(* local timer runs (src/kernel/kmain.c, cpu.c).  Module Scheduler starts  *)
(* where this one ends.                                                    *)
(*                                                                         *)
(* A CPU is named by its local APIC id, which also is its index in         *)
(* schedulers[].                                                           *)
(***************************************************************************)
EXTENDS Integers, Sequences, FiniteSets

CONSTANTS Entries,  \* the processor entries of the MP table: their lapic_id
          Cmdline   \* what max_cpu= on the kernel command line may say

Cpu == {Entries[i] : i \in 1..Len(Entries)}
BSP == 0

\* The code relies on all of this: each processor is listed once, the boot CPU
\* first and with id 0 (scheduler_find always considers schedulers[0]), every
\* listed processor answers, and max_cpu is not 0.
ASSUME BootAssumption ==
    /\ Entries \in Seq(Nat) /\ Len(Entries) > 0 /\ Entries[1] = BSP
    /\ \A i, j \in 1..Len(Entries) : Entries[i] = Entries[j] => i = j
    /\ Cmdline \subseteq Nat \ {0}

VARIABLES maximum_cpu, cpu,  \* the CPUs to use; cpu_wake_all's loop variable
          awoken_cpu, lock,  \* of cpu_sync
          started,           \* schedulers[].started
          pc, tmp,           \* per CPU: where it is; awoken_cpu as loaded
          targets            \* the CPUs that scheduler_find chose among

vars == <<maximum_cpu, cpu, awoken_cpu, lock, started, pc, tmp, targets>>

Init ==
    /\ maximum_cpu \in Cmdline
    /\ cpu = 1
    /\ awoken_cpu = 0 /\ lock = 0
    /\ started = [c \in Cpu |-> FALSE]
    /\ pc = [c \in Cpu |-> IF c = BSP THEN "find" ELSE "off"]
    /\ tmp = [c \in Cpu |-> 0]
    /\ targets = {}

Goto(c, at) == pc' = [pc EXCEPT ![c] = at]
-----------------------------------------------------------------------------
(* kmain, until the barrier                                                *)

\* cpu_find: no more CPUs than there are.
cpu_find ==
    /\ pc[BSP] = "find"
    /\ maximum_cpu' = IF Len(Entries) < maximum_cpu THEN Len(Entries) ELSE maximum_cpu
    /\ Goto(BSP, "init")
    /\ UNCHANGED <<cpu, awoken_cpu, lock, started, tmp, targets>>

\* scheduling_init clears every scheduler, sched_ready marks this CPU's.
scheduling_init ==
    /\ pc[BSP] = "init"
    /\ started' = [c \in Cpu |-> c = BSP]
    /\ Goto(BSP, "wake")
    /\ UNCHANGED <<maximum_cpu, cpu, awoken_cpu, lock, tmp, targets>>

\* cpu_wake_all, one CPU: INIT resets it, STARTUP sends it to hello_world.
cpu_wake ==
    /\ pc[BSP] = "wake"
    /\ cpu < maximum_cpu
    /\ Goto(Entries[cpu + 1], "hello")
    /\ cpu' = cpu + 1
    /\ UNCHANGED <<maximum_cpu, awoken_cpu, lock, started, tmp, targets>>

WakeupDone ==
    /\ pc[BSP] = "wake"
    /\ cpu >= maximum_cpu
    /\ Goto(BSP, "enter")
    /\ UNCHANGED <<maximum_cpu, cpu, awoken_cpu, lock, started, tmp, targets>>

hello_skips_ready(c) ==
    /\ pc[c] = "hello"
    /\ Goto(c, "enter")
    /\ UNCHANGED <<maximum_cpu, cpu, awoken_cpu, lock, started, tmp, targets>>

\* hello_world, until the barrier (sched_ready).
hello_world(c) ==
    /\ pc[c] = "hello"
    /\ started' = [started EXCEPT ![c] = TRUE]
    /\ Goto(c, "enter")
    /\ UNCHANGED <<maximum_cpu, cpu, awoken_cpu, lock, tmp, targets>>
-----------------------------------------------------------------------------
(* cpu_sync(maximum_cpu), on every CPU                                     *)

enter_unlocked(c) ==
    /\ pc[c] = "enter"
    /\ lock' = 1
    /\ Goto(c, "load")
    /\ UNCHANGED <<maximum_cpu, cpu, awoken_cpu, started, tmp, targets>>

section_enter(c) ==
    /\ pc[c] = "enter"
    /\ lock = 0
    /\ lock' = 1
    /\ Goto(c, "load")
    /\ UNCHANGED <<maximum_cpu, cpu, awoken_cpu, started, tmp, targets>>

\* ++awoken_cpu, a load and a store
LoadCount(c) ==
    /\ pc[c] = "load"
    /\ tmp' = [tmp EXCEPT ![c] = awoken_cpu]
    /\ Goto(c, "store")
    /\ UNCHANGED <<maximum_cpu, cpu, awoken_cpu, lock, started, targets>>

StoreCount(c) ==
    /\ pc[c] = "store"
    /\ awoken_cpu' = tmp[c] + 1
    /\ Goto(c, "leave")
    /\ UNCHANGED <<maximum_cpu, cpu, lock, started, tmp, targets>>

section_leave(c) ==
    /\ pc[c] = "leave"
    /\ lock' = 0
    /\ Goto(c, "spin")
    /\ UNCHANGED <<maximum_cpu, cpu, awoken_cpu, started, tmp, targets>>

pass_when_half(c) ==
    /\ pc[c] = "spin"
    /\ 2 * awoken_cpu > maximum_cpu
    /\ Goto(c, IF c = BSP THEN "modules" ELSE "timer")
    /\ UNCHANGED <<maximum_cpu, cpu, awoken_cpu, lock, started, tmp, targets>>

\* while(awoken_cpu != count) ends.
PassBarrier(c) ==
    /\ pc[c] = "spin"
    /\ awoken_cpu = maximum_cpu
    /\ Goto(c, IF c = BSP THEN "modules" ELSE "timer")
    /\ UNCHANGED <<maximum_cpu, cpu, awoken_cpu, lock, started, tmp, targets>>
-----------------------------------------------------------------------------
(* After the barrier                                                       *)

\* mboot_load_modules: the CPUs that have started are those among which
\* scheduler_find chooses the one with the lowest load for each module (the choice
\* is in module Scheduler).
mboot_load_modules ==
    /\ pc[BSP] = "modules"
    /\ targets' = {BSP} \cup {c \in Cpu : started[c]}
    /\ Goto(BSP, "timer")
    /\ UNCHANGED <<maximum_cpu, cpu, awoken_cpu, lock, started, tmp>>

\* From here on the CPU ticks and runs threads (module Scheduler).
sched_start_timer(c) ==
    /\ pc[c] = "timer"
    /\ Goto(c, "idle_loop")
    /\ UNCHANGED <<maximum_cpu, cpu, awoken_cpu, lock, started, tmp, targets>>

Step(c) ==
    \/ c = BSP /\ (cpu_find \/ scheduling_init \/ cpu_wake \/ WakeupDone \/ mboot_load_modules)
    \/ hello_world(c) \/ section_enter(c) \/ LoadCount(c) \/ StoreCount(c)
    \/ section_leave(c) \/ PassBarrier(c) \/ sched_start_timer(c)

Next == \E c \in Cpu : Step(c)

Spec == Init /\ [][Next]_vars

\* Every CPU that runs keeps executing.
FairSpec == Spec /\ \A c \in Cpu : WF_vars(Step(c))
-----------------------------------------------------------------------------
\* Type correctness.  More CPUs than expected would be as bad as fewer: cpu_sync
\* waits until the count is equal to maximum_cpu, so it must not overshoot.
TypeOK ==
    /\ maximum_cpu \in Nat \ {0}
    /\ cpu \in Nat \ {0}
    /\ awoken_cpu \in 0..maximum_cpu
    /\ lock \in {0, 1}
    /\ started \in [Cpu -> BOOLEAN]
    /\ pc \in [Cpu -> {"off", "find", "init", "wake", "hello", "enter", "load", "store",
                       "leave", "spin", "modules", "timer", "idle_loop"}]
    /\ tmp \in [Cpu -> Nat]
    /\ targets \subseteq Cpu

\* The CPUs that take part.
Used == {Entries[i] : i \in {j \in 1..Len(Entries) : j <= maximum_cpu}}

Passed == {c \in Cpu : pc[c] \in {"modules", "timer", "idle_loop"}}
Counted == {c \in Cpu : pc[c] \in {"leave", "spin"}} \cup Passed

\* Nobody passes the barrier before everybody has come to it with its scheduler
\* ready, in spite of the load and the store of ++awoken_cpu: no CPU ticks and
\* no thread is created while another one still sets itself up.
BarrierHolds == Passed # {} => \A c \in Used : c \in Counted /\ started[c]

\* The counts of cpu_sync are right at the barrier and before it (cpu.c).
BarrierSound == TypeOK /\ BarrierHolds

\* When the modules are loaded, the CPUs that scheduler_find has to choose from are
\* all those that take part, and no others.
SpreadOverAll == pc[BSP] \in {"timer", "idle_loop"} => targets = Used

\* The barrier opens: every CPU that takes part ends up running threads.
AllCome == <>[](Used \subseteq {c \in Cpu : pc[c] = "idle_loop"})
=============================================================================
