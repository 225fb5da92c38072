------------------------------ MODULE HeapLock ------------------------------
(***************************************************************************)
(* The locks that are taken inside one another: list_push (list.c) asks    *)
(* kmalloc (memory.c) for a list element while it holds the list's lock,   *)
(* and both are used by the scheduler's tick, which interrupts threads     *)
(* that may hold the heap's lock themselves.  This module puts the         *)
(* scheduler's queues, their elements, the two kinds of locks, system      *)
(* calls that allocate, and the loading of modules on CPU 0 together.      *)
(*                                                                         *)
(* The code that a CPU runs for the kernel, its tick or (on CPU 0, whose   *)
(* timer starts last) the loader, is written as the number of the CPU.     *)
(* A locked section that waits for nothing inside is one step.             *)
(***************************************************************************)
EXTENDS Integers, Sequences, FiniteSets

CONSTANTS NCPU,
          Thread,
          Modules,   \* the threads in the order of loading
          Callers,   \* the threads that make system calls
          MaxCalls   \* bound: allocating system calls (CONNECT, HANDLE) of a
                     \* thread; a program connects once to each peer

Cpu == 0..(NCPU - 1)

\* What the constants have to satisfy.
HeapLockAssumption ==
    /\ NCPU \in Nat \ {0} /\ MaxCalls \in Nat /\ Callers \subseteq Thread
    /\ Modules \in Seq(Thread) /\ Len(Modules) > 0
    /\ \A i, j \in 1..Len(Modules) : Modules[i] = Modules[j] => i = j
    /\ Thread = {Modules[i] : i \in 1..Len(Modules)}
    /\ Thread \cap Int = {}

Nobody == -1

VARIABLES heap, list,            \* who holds the heap's lock, each queue's lock
          queue, spare, cells,   \* a queue, its spare elements, all its elements
          current,               \* the running thread; Nobody: the idle thread
          at, item,              \* a CPU's place in kernel code; the thread it
                                 \* pushes or has picked
          load, target,          \* threads given to each CPU; the loader's choice
          pc, calls              \* a thread's place in its call; calls left

locks == <<heap, list>>
queues == <<queue, spare, cells>>
vars == <<locks, queues, current, at, item, load, target, pc, calls>>

Init ==
    /\ heap = Nobody
    /\ list = [c \in Cpu |-> Nobody]
    /\ queue = [c \in Cpu |-> <<>>]
    /\ spare = [c \in Cpu |-> 0]
    /\ cells = [c \in Cpu |-> 0]
    /\ current = [c \in Cpu |-> Nobody]
    /\ at = [c \in Cpu |-> IF c = 0 THEN "load" ELSE "run"]
    /\ item = [c \in Cpu |-> Nobody]
    /\ load = [c \in Cpu |-> 0]
    /\ target = 0
    /\ pc = [t \in Thread |-> "user"]
    /\ calls = [t \in Thread |-> MaxCalls]

Loaded == LET sum[c \in -1..(NCPU - 1)] == IF c = -1 THEN 0 ELSE sum[c - 1] + load[c]
          IN  sum[NCPU - 1]
Loading == Loaded < Len(Modules)

\* The list that CPU c's kernel code works on.
Where(c) == IF c = 0 /\ Loading THEN target ELSE c
-----------------------------------------------------------------------------
(* list_push(prio_queues, item[c]) by CPU c's kernel code                  *)

PushEnter(c) ==
    /\ at[c] = "push"
    /\ list[Where(c)] = Nobody
    /\ list' = [list EXCEPT ![Where(c)] = c]
    /\ at' = [at EXCEPT ![c] = "elem"]
    /\ UNCHANGED <<heap, queues, current, item, load, target, pc, calls>>

\* Linking the element, list_unlock, and what follows the call: the tick picks
\* a thread, the loader counts (sched->load++) and goes on, and starts CPU 0's
\* timer at last.
Linked(c) ==
    LET d == Where(c)
    IN  /\ queue' = [queue EXCEPT ![d] = Append(@, item[c])]
        /\ list' = [list EXCEPT ![d] = Nobody]
        /\ IF c = 0 /\ Loading
             THEN /\ load' = [load EXCEPT ![d] = @ + 1]
                  /\ at' = [at EXCEPT ![c] = IF Loaded + 1 = Len(Modules) THEN "run" ELSE "load"]
             ELSE /\ at' = [at EXCEPT ![c] = "pick"]
                  /\ UNCHANGED load
        /\ UNCHANGED <<current, item, target, pc, calls>>

\* list_elem_new: a spare element, or a new one from the heap.
PushSpare(c) ==
    /\ at[c] = "elem" /\ spare[Where(c)] > 0
    /\ spare' = [spare EXCEPT ![Where(c)] = @ - 1]
    /\ Linked(c)
    /\ UNCHANGED <<heap, cells>>

PushAlloc(c) ==
    /\ at[c] = "elem" /\ spare[Where(c)] = 0
    /\ heap = Nobody
    /\ heap' = c
    /\ at' = [at EXCEPT ![c] = "new"]
    /\ UNCHANGED <<list, queues, current, item, load, target, pc, calls>>

PushNew(c) ==
    /\ at[c] = "new"
    /\ heap' = Nobody
    /\ cells' = [cells EXCEPT ![Where(c)] = @ + 1]
    /\ Linked(c)
    /\ UNCHANGED spare
-----------------------------------------------------------------------------
(* The loader on CPU 0                                                     *)

\* kmalloc, once for all the calls of elf_load.
LoadAlloc ==
    /\ at[0] = "load"
    /\ heap = Nobody
    /\ heap' = 0
    /\ at' = [at EXCEPT ![0] = "load_heap"]
    /\ UNCHANGED <<list, queues, current, item, load, target, pc, calls>>

\* sched_thread_ready: scheduler_find, the first CPU with the lowest load.
LoadGive ==
    /\ at[0] = "load_heap"
    /\ heap' = Nobody
    /\ item' = [item EXCEPT ![0] = Modules[Loaded + 1]]
    /\ target' = CHOOSE c \in Cpu : /\ \A d \in Cpu : load[c] <= load[d]
                                    /\ \A d \in 0..(c - 1) : load[c] < load[d]
    /\ at' = [at EXCEPT ![0] = "push"]
    /\ UNCHANGED <<list, queues, current, load, pc, calls>>
-----------------------------------------------------------------------------
(* sched_tick on CPU c                                                     *)

\* scheduler_put_back, unless the idle thread was running.
EnterTick(c) ==
    /\ at' = [at EXCEPT ![c] = IF current[c] = Nobody THEN "pick" ELSE "push"]
    /\ item' = [item EXCEPT ![c] = current[c]]

TimerInterrupt(c) ==
    /\ at[c] = "run"
    /\ EnterTick(c)
    /\ UNCHANGED <<locks, queues, current, load, target, pc, calls>>

PickIdle(c) ==
    /\ at[c] = "pick" /\ queue[c] = <<>>
    /\ current' = [current EXCEPT ![c] = Nobody]
    /\ at' = [at EXCEPT ![c] = "run"]
    /\ UNCHANGED <<locks, queues, item, load, target, pc, calls>>

pop_loses_element(c) ==
    /\ at[c] = "pick" /\ queue[c] # <<>>
    /\ list[c] = Nobody
    /\ item' = [item EXCEPT ![c] = Head(queue[c])]
    /\ queue' = [queue EXCEPT ![c] = Tail(@)]
    /\ at' = [at EXCEPT ![c] = "can_run"]
    /\ UNCHANGED <<locks, spare, cells, current, load, target, pc, calls>>

\* list_pop; list_elem_delete keeps the element for the next push.
Pick(c) ==
    /\ at[c] = "pick" /\ queue[c] # <<>>
    /\ list[c] = Nobody
    /\ item' = [item EXCEPT ![c] = Head(queue[c])]
    /\ queue' = [queue EXCEPT ![c] = Tail(@)]
    /\ spare' = [spare EXCEPT ![c] = @ + 1]
    /\ at' = [at EXCEPT ![c] = "can_run"]
    /\ UNCHANGED <<locks, cells, current, load, target, pc, calls>>

\* A blocked thread goes back into the queue, any other one runs.
CanRun(c) ==
    /\ at[c] = "can_run"
    /\ IF pc[item[c]] = "wait"
         THEN at' = [at EXCEPT ![c] = "push"] /\ UNCHANGED current
         ELSE /\ current' = [current EXCEPT ![c] = item[c]]
              /\ at' = [at EXCEPT ![c] = "run"]
    /\ UNCHANGED <<locks, queues, item, load, target, pc, calls>>

KernelStep(c) ==
    \/ PushEnter(c) \/ PushSpare(c) \/ PushAlloc(c) \/ PushNew(c)
    \/ c = 0 /\ (LoadAlloc \/ LoadGive)
    \/ PickIdle(c) \/ Pick(c) \/ CanRun(c)
-----------------------------------------------------------------------------
(* Threads                                                                 *)

Running(t) == \E c \in Cpu : at[c] = "run" /\ current[c] = t

\* A system call that makes streams (stream_new).  It has not waited before,
\* so that interrupts are enabled while it spins or holds the lock.
SysConnect(t) ==
    /\ pc[t] = "user" /\ calls[t] > 0
    /\ pc' = [pc EXCEPT ![t] = "want"]
    /\ calls' = [calls EXCEPT ![t] = @ - 1]
    /\ UNCHANGED <<locks, queues, current, at, item, load, target>>

kmalloc_keeps_lock(t) ==
    /\ \/ pc[t] = "want" /\ heap = Nobody /\ heap' = t /\ pc' = [pc EXCEPT ![t] = "held"]
       \/ pc[t] = "held" /\ UNCHANGED heap /\ pc' = [pc EXCEPT ![t] = "user"]
    /\ UNCHANGED <<list, queues, current, at, item, load, target, calls>>

kmalloc(t) ==
    /\ \/ pc[t] = "want" /\ heap = Nobody /\ heap' = t /\ pc' = [pc EXCEPT ![t] = "held"]
       \/ pc[t] = "held" /\ heap' = Nobody /\ pc' = [pc EXCEPT ![t] = "user"]
    /\ UNCHANGED <<list, queues, current, at, item, load, target, calls>>

\* A call that has to wait: sched_yield enters the tick.
SysWait(t) ==
    /\ pc[t] = "user"
    /\ pc' = [pc EXCEPT ![t] = "wait"]
    /\ \E c \in Cpu : current[c] = t /\ EnterTick(c)
    /\ UNCHANGED <<locks, queues, current, load, target, calls>>

\* What it waits for happens.
Wake(t) ==
    /\ pc[t] = "wait"
    /\ pc' = [pc EXCEPT ![t] = "user"]
    /\ UNCHANGED <<locks, queues, current, at, item, load, target, calls>>

Allocate(t) == Running(t) /\ kmalloc(t)
Call(t) == t \in Callers /\ Running(t) /\ (SysConnect(t) \/ SysWait(t))

Next ==
    \/ \E c \in Cpu : TimerInterrupt(c) \/ KernelStep(c)
    \/ \E t \in Thread : Wake(t) \/ Allocate(t) \/ Call(t)

Spec == Init /\ [][Next]_vars
-----------------------------------------------------------------------------
(* Who waits for whom                                                      *)

\* CPU c's kernel code spins on a lock, held by Spins(c).
Spins(c) ==
    CASE at[c] = "push" -> list[Where(c)]
      [] at[c] = "pick" /\ queue[c] # <<>> -> list[c]
      [] at[c] = "elem" /\ spare[Where(c)] = 0 -> heap
      [] at[c] = "load" -> heap
      [] OTHER -> Nobody

\* The CPU whose queue thread t is in, or which has it in hand.
OnCpu(t) == {c \in Cpu : \/ t = current[c]
                         \/ \E i \in 1..Len(queue[c]) : queue[c][i] = t
                         \/ at[c] = "can_run" /\ item[c] = t}

\* A thread waits for the lock it spins on or, while its CPU is busy with
\* kernel code, for that.
WaitsFor(a) ==
    IF a \in Cpu THEN Spins(a)
    ELSE IF Running(a) THEN IF pc[a] = "want" THEN heap ELSE Nobody
    ELSE IF \E c \in OnCpu(a) : at[c] # "run" THEN CHOOSE c \in OnCpu(a) : at[c] # "run"
    ELSE Nobody

\* A chain of waiting as long as there are actors has come round.
Deadlocked ==
    \E a \in Cpu \cup Thread :
      LET chain[n \in 0..(NCPU + Len(Modules))] ==
            IF n = 0 THEN a
            ELSE IF chain[n - 1] = Nobody THEN Nobody ELSE WaitsFor(chain[n - 1])
      IN  chain[NCPU + Len(Modules)] # Nobody

\* The threads given to CPU c, the one that is being given included.
Share(c) == load[c] + (IF Loading /\ target = c /\ at[0] \in {"push", "elem", "new"} THEN 1 ELSE 0)

\* The tick of CPU c needs a new element from the heap.
TickAllocates(c) == ~(c = 0 /\ Loading) /\ at[c] \in {"elem", "new"} /\ spare[c] = 0
-----------------------------------------------------------------------------
\* Type correctness.
TypeOK ==
    /\ heap \in Cpu \cup Thread \cup {Nobody} /\ list \in [Cpu -> Cpu \cup {Nobody}]
    /\ queue \in [Cpu -> Seq(Thread)] /\ spare \in [Cpu -> Nat] /\ cells \in [Cpu -> Nat]
    /\ current \in [Cpu -> Thread \cup {Nobody}] /\ item \in [Cpu -> Thread \cup {Nobody}]
    /\ at \in [Cpu -> {"load", "load_heap", "run", "push", "elem", "new", "pick", "can_run"}]
    /\ load \in [Cpu -> Nat] /\ target \in Cpu
    /\ pc \in [Thread -> {"user", "want", "held", "wait"}] /\ calls \in [Thread -> 0..MaxCalls]

\* A queue never has more elements than its CPU has threads, and a tick goes to
\* the heap only for the element that the loader's push took away from it: once
\* there are as many elements as threads, no tick needs the heap again.  CPU 0
\* never does, because its timer starts after loading.
ElementsSuffice ==
    /\ TypeOK
    /\ \A c \in Cpu : /\ cells[c] <= Share(c)
                      /\ TickAllocates(c) => c # 0 /\ cells[c] < Share(c)

\* Everyone waits for everyone only on a CPU that is being given its second
\* thread, or a later one, and lacks an element; so never when a CPU has one
\* thread at most, and never once each list has all its elements.
DeadlockOnlyWhileShort ==
    Deadlocked => \E c \in Cpu \ {0} : Share(c) >= 2 /\ cells[c] < Share(c)

\* Unless that happens: a lock that a CPU's kernel code spins on is free again at
\* some moment (the CPU may lose that compare-and-swap, and every later one); a
\* tick does get the lock of its own queue, for which only the loader's pushes
\* compete with it, one for each module; and a thread's kmalloc comes back.
SpinningEnds ==
    /\ \A c \in Cpu : Spins(c) # Nobody ~> Spins(c) = Nobody \/ Deadlocked
    /\ \A c \in Cpu : \A p \in {"push", "pick"} :
         at[c] = p /\ ~(c = 0 /\ Loading) ~> at[c] # p \/ Deadlocked
    /\ \A t \in Thread : pc[t] = "want" ~> pc[t] = "user" \/ Deadlocked
=============================================================================
