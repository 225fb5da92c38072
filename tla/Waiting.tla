------------------------------ MODULE Waiting ------------------------------
(***************************************************************************)
(* What the kernel waits for below the scheduler, one of two parts in each *)
(* behaviour: locks taken inside locks (module HeapLock) and the clock     *)
(* (Timer).  The other one stays in an initial state.                      *)
(***************************************************************************)
EXTENDS Integers, Sequences, FiniteSets

CONSTANTS NCPU, Thread, Modules, Callers, MaxCalls,   \* of HeapLock
          W, Wakes, SleepArgs, Uptimes                \* of Timer

VARIABLES part,
          heap, list, queue, spare, cells, current, at, item, load, target, tpc, calls,
          ticks, index, cmos, pf, pending, handler, bpc, wtime, wakes, sleep

lock_vars == <<heap, list, queue, spare, cells, current, at, item, load, target, tpc, calls>>
timer_vars == <<ticks, index, cmos, pf, pending, handler, bpc, wtime, wakes, sleep>>
WaitVars == <<part, lock_vars, timer_vars>>

H == INSTANCE HeapLock WITH pc <- tpc
T == INSTANCE Timer WITH pc <- bpc

ASSUME WaitingAssumption == H!HeapLockAssumption /\ T!TimerAssumption

Locks == part = "locks"
Clock == part = "clock"

WaitInit ==
    /\ part \in {"locks", "clock"}
    /\ pf \in IF Clock THEN BOOLEAN ELSE {FALSE}
    /\ H!Init
    /\ T!Init

LocksNext == Locks /\ H!Next /\ UNCHANGED <<part, timer_vars>>
ClockNext == Clock /\ T!Next /\ UNCHANGED <<part, lock_vars>>

WaitNext == LocksNext \/ ClockNext

\* CPUs execute, timers tick, and of a thread's many time slices one is enough for
\* the next instructions of kmalloc.  Which CPU's kernel code gets a lock is left
\* open.
LocksFair ==
    /\ \A c \in 0..(NCPU - 1) : /\ WF_lock_vars(Locks /\ H!KernelStep(c))
                                /\ WF_lock_vars(Locks /\ H!TimerInterrupt(c))
    /\ \A t \in Thread : SF_lock_vars(Locks /\ H!Allocate(t))

\* The chip keeps its period, CPU 0 executes between interrupts, and the
\* scheduler asks for a sleeper's event again and again.
ClockFair ==
    /\ WF_timer_vars(Clock /\ T!PeriodicEvent)
    /\ WF_timer_vars(Clock /\ T!Interrupt)
    /\ WF_timer_vars(Clock /\ T!_tick)
    /\ SF_timer_vars(Clock /\ T!Boot)
    /\ SF_timer_vars(Clock /\ T!timer_active_wait)
    /\ SF_timer_vars(Clock /\ T!WakeUp)

WaitSpec == WaitInit /\ [][WaitNext]_WaitVars /\ LocksFair /\ ClockFair
-----------------------------------------------------------------------------
\* Ticks do not need the heap for ever (list.c).
ElementsSuffice == Locks => H!ElementsSuffice

\* A tick, the loader and a thread wait for each other only while a CPU gets its
\* second thread (list.c, memory.c).
DeadlockOnlyWhileShort == Locks => H!DeadlockOnlyWhileShort

\* Otherwise a lock that is waited for becomes free again, a tick gets its own
\* queue's lock, and a thread's kmalloc comes back (locks.c).
SpinningEnds == Locks => H!SpinningEnds

\* The clock does not get stuck, sleeps end in time, and the uptime is right
\* (timer.c, cpu.c).
TimesRight == Clock => T!ClockRuns /\ T!TimesRight

\* Busy waits and sleeps end (timer.c).
WaitsEnd == Clock => T!WaitsEnd
=============================================================================
