----------------------------- MODULE Scheduler -----------------------------
(***************************************************************************)
(* The per-CPU round-robin scheduler (src/kernel/scheduler.c), the waiting *)
(* it offers to system calls (sched_thread_wait, sched_thread_sleep, the   *)
(* loop of SYSCALL_SELECT) and the interrupts that drive it.               *)
(*                                                                         *)
(* A CPU either runs its current thread (at[c] = "run") or is inside       *)
(* sched_tick, on that thread's kernel stack.  The local timer enters      *)
(* sched_tick through an interrupt, a waiting thread enters it through     *)
(* sched_yield.  A blocked thread stays in the queue: sched_tick polls its *)
(* event function each time it comes up.                                   *)
(*                                                                         *)
(* Which interrupts a CPU accepts decides what can happen between two      *)
(* steps.  mask[t] says what CPU t runs on accepts while t runs: all of    *)
(* them ("open"), those above INT_SCHED_TICK ("tpr", after sched_yield has *)
(* raised the task priority), or none ("cli", after scheduler_switch has   *)
(* executed cli and t came back into the middle of sched_yield).  It is    *)
(* reset when t's system call returns with iret.                           *)
(*                                                                         *)
(* All priorities are 0 (NEW zeroes a thread and nothing changes the       *)
(* field), so only prio_queues[0] is ever used; a list operation is one    *)
(* step, which module SpinList justifies.  The idle thread of CPU c is     *)
(* written c.                                                              *)
(***************************************************************************)
EXTENDS Integers, Sequences, FiniteSets

CONSTANTS NCPU,       \* CPUs that take part
          Thread,     \* the threads of the loaded modules
          Modules,    \* the order in which they are made ready
          Spinners,   \* those that never make a system call (srv_loop.c)
          SleepLens,  \* arguments of SYSCALL_WAIT
          ReadLens    \* lengths given to SYSCALL_READ

Cpu == 0..(NCPU - 1)

ASSUME SchedulerAssumption ==
    /\ NCPU \in Nat \ {0}
    /\ Thread \cap Int = {}
    /\ Modules \in Seq(Thread)
    /\ \A i, j \in 1..Len(Modules) : Modules[i] = Modules[j] => i = j
    /\ \A t \in Thread : \E i \in 1..Len(Modules) : Modules[i] = t
    /\ Spinners \subseteq Thread
    /\ SleepLens \subseteq Nat \ {0}
    /\ ReadLens \subseteq Nat \ {0}

NoThread == -1

VARIABLES prio_queue, current_thread, next_thread, load,  \* struct scheduler
          at, irqs,     \* at[c]: CPU c's place in sched_tick; irqs[c]: are
                        \* interrupts enabled while it is in there
          ready,        \* number of modules made ready so far
          event,        \* thread->event
          pc, mask,     \* a thread's place in its system call, see above
          remaining,    \* timer ticks until its sleep is over
          data, left,   \* a byte waits in its input stream, which then is
                        \* full; bytes that its read call has still to get
          to            \* whose stream its write call has still to fill

sched == <<prio_queue, current_thread, next_thread>>
cpus == <<sched, load, at, irqs, ready>>
vars == <<cpus, event, pc, mask, remaining, data, left, to>>

Init ==
    /\ prio_queue = [c \in Cpu |-> <<>>]
    /\ current_thread = [c \in Cpu |-> c]
    /\ next_thread = [c \in Cpu |-> NoThread]
    /\ load = [c \in Cpu |-> 0]
    /\ at = [c \in Cpu |-> IF c = 0 THEN "boot" ELSE "run"]
    /\ irqs = [c \in Cpu |-> TRUE]
    /\ ready = 0
    /\ event = [t \in Thread |-> "none"]
    /\ pc = [t \in Thread |-> "user"]
    /\ mask = [t \in Thread |-> "open"]
    /\ remaining = [t \in Thread |-> 0]
    /\ data = [t \in Thread |-> FALSE]
    /\ left = [t \in Thread |-> 0]
    /\ to = [t \in Thread |-> NoThread]

Running(c, t) == at[c] = "run" /\ current_thread[c] = t

\* The threads whose event function (thread_timer_event, stream_read_event or
\* stream_select_event, stream_write_event) answers no.
Blocked == {t \in Thread : \/ event[t] = "timer" /\ remaining[t] > 0
                           \/ event[t] = "data" /\ ~data[t]
                           \/ event[t] = "room" /\ data[to[t]]}
-----------------------------------------------------------------------------
(* kmain on CPU 0: mboot_load_modules makes the threads ready while the    *)
(* other CPUs are ticking already, then CPU 0 starts its own timer.        *)

\* scheduler_find: the first CPU with the lowest load; all have started.
scheduler_find(c) ==
    /\ \A d \in Cpu : load[c] <= load[d]
    /\ \A d \in 0..(c - 1) : load[c] < load[d]

sched_thread_ready ==
    /\ at[0] = "boot"
    /\ ready < Len(Modules)
    /\ \E c \in Cpu :
         /\ scheduler_find(c)
         /\ prio_queue' = [prio_queue EXCEPT ![c] = Append(@, Modules[ready + 1])]
         /\ load' = [load EXCEPT ![c] = @ + 1]
    /\ ready' = ready + 1
    /\ UNCHANGED <<current_thread, next_thread, at, irqs, event, pc, mask, remaining, data, left, to>>

sched_start_timer ==
    /\ at[0] = "boot"
    /\ ready = Len(Modules)
    /\ at' = [at EXCEPT ![0] = "run"]
    /\ UNCHANGED <<sched, load, irqs, ready, event, pc, mask, remaining, data, left, to>>
-----------------------------------------------------------------------------
(* sched_tick(state) on CPU c                                              *)

EnterTick(c, enabled) ==
    /\ at' = [at EXCEPT ![c] = "put_back"]
    /\ irqs' = [irqs EXCEPT ![c] = enabled]

\* The local timer fires: irq_handler raises the priority and enables interrupts.
TimerInterrupt(c) ==
    /\ at[c] = "run"
    /\ current_thread[c] \notin {t \in Thread : mask[t] # "open"}
    /\ EnterTick(c, TRUE)
    /\ UNCHANGED <<sched, load, ready, event, pc, mask, remaining, data, left, to>>

\* The current thread goes to the end of the queue, the idle thread never does.
\* (scheduler_wake_all finds nothing: waiting_threads is not used when
\* CONF_PREEMPTIBLE is defined, as in config.h.)
scheduler_put_back(c) ==
    /\ at[c] = "put_back"
    /\ prio_queue' = IF current_thread[c] = c
                       THEN prio_queue
                       ELSE [prio_queue EXCEPT ![c] = Append(@, current_thread[c])]
    /\ at' = [at EXCEPT ![c] = "pick"]
    /\ UNCHANGED <<current_thread, next_thread, load, irqs, ready,
                   event, pc, mask, remaining, data, left, to>>

\* The first of the queue is next, the idle thread if there is none.
scheduler_pick(c) ==
    /\ at[c] = "pick"
    /\ IF prio_queue[c] = <<>>
         THEN next_thread' = [next_thread EXCEPT ![c] = c] /\ UNCHANGED prio_queue
         ELSE /\ next_thread' = [next_thread EXCEPT ![c] = Head(prio_queue[c])]
              /\ prio_queue' = [prio_queue EXCEPT ![c] = Tail(@)]
    /\ at' = [at EXCEPT ![c] = "can_run"]
    /\ UNCHANGED <<current_thread, load, irqs, ready, event, pc, mask, remaining, data, left, to>>

event_not_cleared(c) ==
    /\ at[c] = "can_run"
    /\ next_thread[c] \notin Blocked
    /\ at' = [at EXCEPT ![c] = "switch"]
    /\ UNCHANGED <<sched, load, irqs, ready, event, pc, mask, remaining, data, left, to>>

\* next_thread may run if it has no event or its event has happened, which
\* clears it; otherwise it goes to the end of the queue and the next one is
\* picked.
sched_can_run(c) ==
    /\ at[c] = "can_run"
    /\ next_thread[c] \notin Blocked
    /\ event' = [t \in Thread |-> IF t = next_thread[c] THEN "none" ELSE event[t]]
    /\ at' = [at EXCEPT ![c] = "switch"]
    /\ UNCHANGED <<sched, load, irqs, ready, pc, mask, remaining, data, left, to>>

drop_blocked(c) ==
    /\ at[c] = "can_run"
    /\ next_thread[c] \in Blocked
    /\ at' = [at EXCEPT ![c] = "pick"]
    /\ UNCHANGED <<sched, load, irqs, ready, event, pc, mask, remaining, data, left, to>>

BlockedBack(c) ==
    /\ at[c] = "can_run"
    /\ next_thread[c] \in Blocked
    /\ prio_queue' = [prio_queue EXCEPT ![c] = Append(@, next_thread[c])]
    /\ at' = [at EXCEPT ![c] = "pick"]
    /\ UNCHANGED <<current_thread, next_thread, load, irqs, ready,
                   event, pc, mask, remaining, data, left, to>>

Yielded(t) == t \in Thread /\ pc[t] \in {"in_wait", "in_select"}

\* A thread that comes back from sched_yield goes on where it left off, with
\* interrupts as scheduler_switch leaves them; one that was interrupted by the
\* timer returns with iret.
Resume(c, t, m) ==
    IF Yielded(t)
      THEN /\ pc' = [pc EXCEPT ![t] = IF @ = "in_wait" THEN "test" ELSE "select"]
           /\ mask' = [mask EXCEPT ![t] = m]
      ELSE UNCHANGED <<pc, mask>>

\* The same thread again: scheduler_switch returns at once, next_thread stays.
switch_same(c) ==
    /\ at[c] = "switch"
    /\ current_thread[c] = next_thread[c]
    /\ Resume(c, current_thread[c], IF irqs[c] THEN "tpr" ELSE "cli")
    /\ at' = [at EXCEPT ![c] = "run"]
    /\ UNCHANGED <<sched, load, irqs, ready, event, remaining, data, left, to>>

scheduler_switch(c) ==
    /\ at[c] = "switch"
    /\ current_thread[c] # next_thread[c]
    /\ Resume(c, next_thread[c], "cli")
    /\ current_thread' = [current_thread EXCEPT ![c] = next_thread[c]]
    /\ next_thread' = [next_thread EXCEPT ![c] = NoThread]
    /\ at' = [at EXCEPT ![c] = "run"]
    /\ UNCHANGED <<prio_queue, load, irqs, ready, event, remaining, data, left, to>>

Tick(c) == \/ scheduler_put_back(c) \/ scheduler_pick(c) \/ sched_can_run(c)
           \/ BlockedBack(c) \/ switch_same(c) \/ scheduler_switch(c)
-----------------------------------------------------------------------------
(* The real-time clock interrupt, delivered to CPU 0 when it accepts any   *)

Cpu0Accepts ==
    CASE at[0] = "boot" -> TRUE
      [] at[0] = "run"  -> current_thread[0] \notin {t \in Thread : mask[t] = "cli"}
      [] OTHER          -> irqs[0]

\* ++ticks brings every sleeper one tick nearer to its wait_timer.
_tick ==
    /\ Cpu0Accepts
    /\ \E t \in Thread : remaining[t] > 0
    /\ remaining' = [t \in Thread |-> IF remaining[t] > 0 THEN remaining[t] - 1 ELSE 0]
    /\ UNCHANGED <<cpus, event, pc, mask, data, left, to>>
-----------------------------------------------------------------------------
(* What thread t does while it runs on CPU c                               *)

\* The system call returns: iret restores the interrupt state of user mode.
Return(t) ==
    /\ pc' = [pc EXCEPT ![t] = "user"]
    /\ mask' = [mask EXCEPT ![t] = "open"]

\* SYSCALL_WAIT: wait_timer = ticks + n, and the event holds when ticks is
\* greater, n + 1 ticks from now.
sched_thread_sleep(t, n) ==
    /\ pc[t] = "user"
    /\ remaining' = [remaining EXCEPT ![t] = n + 1]
    /\ event' = [event EXCEPT ![t] = "timer"]
    /\ pc' = [pc EXCEPT ![t] = "test"]
    /\ UNCHANGED <<cpus, mask, data, left, to>>

\* SYSCALL_READ: stream_read for n bytes.
SysRead(t, n) ==
    /\ pc[t] = "user"
    /\ left' = [left EXCEPT ![t] = n]
    /\ pc' = [pc EXCEPT ![t] = "read"]
    /\ UNCHANGED <<cpus, event, mask, remaining, data, to>>

stream_read(t) ==
    /\ pc[t] = "read"
    /\ IF data[t]
         THEN /\ data' = [data EXCEPT ![t] = FALSE]
              /\ left' = [left EXCEPT ![t] = @ - 1]
              /\ IF left[t] = 1 THEN Return(t) ELSE UNCHANGED <<pc, mask>>
              /\ UNCHANGED event
         ELSE /\ event' = [event EXCEPT ![t] = "data"]
              /\ pc' = [pc EXCEPT ![t] = "test"]
              /\ UNCHANGED <<mask, data, left>>
    /\ UNCHANGED <<cpus, remaining, to>>

\* SYSCALL_WRITE of one byte to u's stream, which has room for one here; module
\* Stream has the details.
SysWrite(t, u) ==
    /\ pc[t] = "user"
    /\ to' = [to EXCEPT ![t] = u]
    /\ pc' = [pc EXCEPT ![t] = "write"]
    /\ UNCHANGED <<cpus, event, mask, remaining, data, left>>

stream_write(t) ==
    /\ pc[t] = "write"
    /\ IF ~data[to[t]]
         THEN /\ data' = [data EXCEPT ![to[t]] = TRUE]
              /\ to' = [to EXCEPT ![t] = NoThread]
              /\ Return(t)
              /\ UNCHANGED event
         ELSE /\ event' = [event EXCEPT ![t] = "room"]
              /\ pc' = [pc EXCEPT ![t] = "test"]
              /\ UNCHANGED <<mask, data, to>>
    /\ UNCHANGED <<cpus, remaining, left>>

\* The end of sched_thread_wait, back to stream_read or stream_write or out of
\* the call.
LeaveWait(t) ==
    /\ event' = [event EXCEPT ![t] = "none"]
    /\ \/ left[t] > 0 /\ pc' = [pc EXCEPT ![t] = "read"] /\ UNCHANGED mask
       \/ to[t] # NoThread /\ pc' = [pc EXCEPT ![t] = "write"] /\ UNCHANGED mask
       \/ left[t] = 0 /\ to[t] = NoThread /\ Return(t)

\* sched_thread_wait, while(thread->event && ...: the first load.
WaitTest(t) ==
    /\ pc[t] = "test"
    /\ IF event[t] = "none"
         THEN LeaveWait(t)
         ELSE pc' = [pc EXCEPT ![t] = "call"] /\ UNCHANGED <<event, mask>>
    /\ UNCHANGED <<cpus, remaining, data, left, to>>

sched_yield(c, t, from) ==
    /\ EnterTick(c, mask[t] # "cli")
    /\ pc' = [pc EXCEPT ![t] = from]
    /\ UNCHANGED <<sched, load, ready, event, mask, remaining, data, left, to>>

wait_leaves_early(c, t) ==
    /\ pc[t] = "call"
    /\ event[t] # "none"
    /\ LeaveWait(t)
    /\ UNCHANGED <<cpus, remaining, data, left, to>>

\* ... && !thread->event(thread)): the second load and the call.
WaitCall(c, t) ==
    /\ pc[t] = "call"
    /\ event[t] # "none"
    /\ IF t \notin Blocked
         THEN LeaveWait(t) /\ UNCHANGED <<cpus, remaining, data, left, to>>
         ELSE sched_yield(c, t, "in_wait")

\* The timer came between the loads and sched_can_run cleared the event: the
\* kernel calls address 0 and the thread is never seen again.
WaitCallNull(t) ==
    /\ pc[t] = "call"
    /\ event[t] = "none"
    /\ pc' = [pc EXCEPT ![t] = "lost"]
    /\ UNCHANGED <<cpus, event, mask, remaining, data, left, to>>

\* SYSCALL_SELECT: look, set the event, yield, look again.
SysSelect(t) ==
    /\ pc[t] = "user"
    /\ pc' = [pc EXCEPT ![t] = "select"]
    /\ UNCHANGED <<cpus, event, mask, remaining, data, left, to>>

SelectLook(t) ==
    /\ pc[t] = "select"
    /\ IF data[t]
         THEN Return(t) /\ UNCHANGED event
         ELSE /\ event' = [event EXCEPT ![t] = "data"]
              /\ pc' = [pc EXCEPT ![t] = "select_yield"]
              /\ UNCHANGED mask
    /\ UNCHANGED <<cpus, remaining, data, left, to>>

SelectYield(c, t) ==
    /\ pc[t] = "select_yield"
    /\ sched_yield(c, t, "in_select")

SystemCall(t) ==
    /\ t \notin Spinners
    /\ \/ \E n \in SleepLens : sched_thread_sleep(t, n)
       \/ \E n \in ReadLens : SysRead(t, n)
       \/ SysSelect(t)
       \/ \E u \in Thread \ (Spinners \cup {t}) : SysWrite(t, u)

KernelStep(c, t) ==
    \/ stream_read(t) \/ stream_write(t) \/ WaitTest(t) \/ WaitCall(c, t) \/ WaitCallNull(t)
    \/ SelectLook(t) \/ SelectYield(c, t)
-----------------------------------------------------------------------------
Run(t) == \E c \in Cpu : Running(c, t) /\ KernelStep(c, t)
User(t) == \E c \in Cpu : Running(c, t) /\ SystemCall(t)

Next ==
    \/ sched_thread_ready \/ sched_start_timer \/ _tick
    \/ \E c \in Cpu : TimerInterrupt(c) \/ Tick(c)
    \/ \E t \in Thread : Run(t) \/ User(t)

Spec == Init /\ [][Next]_vars

\* CPUs keep executing, and a time slice is long enough for a thread to get on
\* with its system call.  The interrupt controllers keep a request pending
\* until the CPU accepts it, so an interrupt that is acceptable again and again
\* is delivered.  Nobody has to make a system call.
Fairness ==
    /\ WF_vars(sched_thread_ready) /\ WF_vars(sched_start_timer)
    /\ SF_vars(_tick)
    /\ \A c \in Cpu : SF_vars(TimerInterrupt(c)) /\ WF_vars(Tick(c))
    /\ \A t \in Thread : SF_vars(Run(t))

FairSpec == Spec /\ Fairness
-----------------------------------------------------------------------------
\* Type correctness.
TypeOK ==
    /\ prio_queue \in [Cpu -> Seq(Thread)]
    /\ current_thread \in [Cpu -> Thread \cup Cpu]
    /\ next_thread \in [Cpu -> Thread \cup Cpu \cup {NoThread}]
    /\ load \in [Cpu -> Nat]
    /\ at \in [Cpu -> {"boot", "run", "put_back", "pick", "can_run", "switch"}]
    /\ irqs \in [Cpu -> BOOLEAN]
    /\ ready \in 0..Len(Modules)
    /\ event \in [Thread -> {"none", "timer", "data", "room"}]
    /\ pc \in [Thread -> {"user", "read", "write", "test", "call", "in_wait",
                          "select", "select_yield", "in_select", "lost"}]
    /\ mask \in [Thread -> {"open", "tpr", "cli"}]
    /\ remaining \in [Thread -> Nat]
    /\ data \in [Thread -> BOOLEAN]
    /\ left \in [Thread -> Nat]
    /\ to \in [Thread -> Thread \cup {NoThread}]

Made == {Modules[i] : i \in 1..ready}

\* The places thread t may be in: a queue, picked as next, or running.
Queued(t) == {p \in Cpu \X (1..Len(Modules)) :
                 p[2] <= Len(prio_queue[p[1]]) /\ prio_queue[p[1]][p[2]] = t}
Picked(t) == {c \in Cpu : at[c] \in {"can_run", "switch"} /\ next_thread[c] = t}
Current(t) == {c \in Cpu : at[c] \in {"run", "put_back"} /\ current_thread[c] = t}

\* Every thread that was made ready is in exactly one place, so none is lost
\* and none runs on two CPUs, although it is put back into the queue while it
\* still is the current thread and CPU 0 fills the queues of ticking CPUs.
OnePlace ==
    \A t \in Thread :
      Cardinality(Queued(t)) + Cardinality(Picked(t)) + Cardinality(Current(t))
        = IF t \in Made THEN 1 ELSE 0

\* A system call returns only when it is done: a sleeper when its time is up,
\* a reader when it has all its bytes, a writer when its byte is in the stream,
\* although a tick may clear the event of any of them; and it leaves no event behind that
\* would keep the thread from being scheduled.
ReturnsWhenDone ==
    \A t \in Thread : pc[t] = "user" => /\ remaining[t] = 0
                                        /\ left[t] = 0 /\ to[t] = NoThread
                                        /\ event[t] = "none"

\* The modules are spread evenly.
LoadBalanced == \A c, d \in Cpu : load[c] <= load[d] + 1

\* All threads are accounted for, on the CPUs where they belong.
ThreadsSound == TypeOK /\ OnePlace /\ LoadBalanced

\* sched_thread_wait looks at thread->event before it calls it
\* (scheduler.c:229), so the kernel never calls a null event function.
NoNullCall == \A t \in Thread : pc[t] # "lost"

\* A thread that can use the CPU gets it.
RunnableRuns ==
    \A t \in Thread : (t \in Made /\ pc[t] = "user") ~> (\E c \in Cpu : Running(c, t))

\* A sleep comes to an end, if it does not end in the null call, and a thread in
\* SYSCALL_SELECT notices the byte that is waiting for it.
EventsEndWaits ==
    \A t \in Thread \ Spinners :
      /\ event[t] = "timer" ~> pc[t] \in {"user", "lost"}
      /\ (pc[t] = "in_select" /\ data[t]) ~> pc[t] = "user"
=============================================================================
