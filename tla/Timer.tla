------------------------------- MODULE Timer -------------------------------
(***************************************************************************)
(* The clock (src/kernel/timer.c): the real-time clock chip that           *)
(* interrupts CPU 0, the ticks its handler counts, the conversions of      *)
(* ticks, the busy waiting that wakes CPUs with (cpu.c), and sleeping.     *)
(*                                                                         *)
(* The chip is reached through an index and a data port.  It holds its     *)
(* interrupt line up until register C is read, and the APIC takes a        *)
(* request only when the line rises: a handler that does not read C is     *)
(* never called again.  cpu_wake_all uses the same two ports, with         *)
(* interrupts enabled.                                                     *)
(***************************************************************************)
EXTENDS Integers, Sequences

CONSTANTS W,          \* bits of the tick counter (32: uint64 is unsigned long)
          Wakes,      \* number of calls of timer_active_wait at boot
          SleepArgs,  \* what programs pass to SYSCALL_WAIT, as unsigned numbers
          Uptimes     \* values of ticks for which the conversions are examined

TIMER_HZ == 1024
DAY_TO_H == 24
H_TO_MIN == 60
MIN_TO_SEC == 60
SEC_TO_MS == 1000

Range == 2^W

\* What the constants have to satisfy.
TimerAssumption ==
    /\ W \in Nat /\ Range \in Nat \ {0}
    /\ Wakes \in Nat /\ Wakes < Range
    /\ SleepArgs \subseteq 1..(Range - 1)
    /\ Uptimes \subseteq Nat

VARIABLES ticks,
          index, cmos,   \* the index port; registers A, B and F
          pf,            \* register C: the periodic flag
          pending,       \* the APIC has a request
          handler,       \* the place in _tick
          pc,            \* the place in timer_init, cpu_wake_all, then "run"
          wtime, wakes,  \* timer_active_wait: its limit; calls done
          sleep          \* a thread's sleep

vars == <<ticks, index, cmos, pf, pending, handler, pc, wtime, wakes, sleep>>
chip == <<index, cmos, pf, pending>>

Awake == [on |-> FALSE, start |-> 0, n |-> 0, elapsed |-> 0]

Init ==
    /\ ticks = 0
    /\ index = "A"
    /\ cmos = [A |-> 38, B |-> 2, F |-> 0]   \* as the BIOS leaves them
    /\ pf \in BOOLEAN
    /\ pending = FALSE
    /\ handler = "out"
    /\ pc = "rate"
    /\ wtime = 0 /\ wakes = 0
    /\ sleep = Awake
-----------------------------------------------------------------------------
(* The chip                                                                *)

\* The interrupt line: a periodic event, and the interrupt enabled (bit 6 of B).
Line(flag, regs) == flag /\ (regs.B \div 64) % 2 = 1

\* The APIC sees a rising line.
Edge(flag, regs) == pending' = (pending \/ (~Line(pf, cmos) /\ Line(flag, regs)))

\* port_write(0x71, value): register C cannot be written.
port_write(value) ==
    LET regs == IF index = "C" THEN cmos ELSE [cmos EXCEPT ![index] = value]
    IN  cmos' = regs /\ Edge(pf, regs)

PeriodicEvent ==
    /\ ~pf
    /\ pf' = TRUE
    /\ Edge(TRUE, cmos)
    /\ UNCHANGED <<ticks, index, cmos, handler, pc, wtime, wakes, sleep>>
-----------------------------------------------------------------------------
(* _tick, on top of whatever CPU 0 does once interrupts are enabled        *)

Started == pc \notin {"rate", "enable", "clear", "start"}

Interrupt ==
    /\ pending /\ Started /\ handler = "out"
    /\ pending' = FALSE
    /\ ticks' = (ticks + 1) % Range
    /\ sleep' = IF sleep.on /\ sleep.elapsed < Range THEN [sleep EXCEPT !.elapsed = @ + 1] ELSE sleep
    /\ handler' = "select"
    /\ UNCHANGED <<index, cmos, pf, pc, wtime, wakes>>

tick_forgets_read ==
    /\ handler # "out"
    /\ handler' = "out"
    /\ UNCHANGED <<ticks, chip, pc, wtime, wakes, sleep>>

\* port_write(0x70, 0x0C); port_read_8(0x71)
_tick ==
    /\ \/ handler = "select" /\ index' = "C" /\ handler' = "read" /\ UNCHANGED pf
       \/ handler = "read" /\ pf' = FALSE /\ handler' = "out" /\ UNCHANGED index
    /\ UNCHANGED <<ticks, cmos, pending, pc, wtime, wakes, sleep>>
-----------------------------------------------------------------------------
(* CPU 0 at boot                                                           *)

\* timer_init: the rate, the interrupt, and reading C; interrupts_start.
timer_init ==
    \/ /\ pc = "rate" /\ pc' = "enable"
       /\ index' = "A" /\ cmos' = [cmos EXCEPT !.A = (@ \div 16) * 16 + 6]
       /\ UNCHANGED <<pf, pending>>
    \/ /\ pc = "enable" /\ pc' = "clear"
       /\ index' = "B" /\ cmos' = [cmos EXCEPT !.B = @ + 64]
       /\ Edge(pf, cmos')
       /\ UNCHANGED pf
    \/ /\ pc = "clear" /\ pc' = "start"
       /\ index' = "C" /\ pf' = FALSE
       /\ UNCHANGED <<cmos, pending>>

interrupts_start == pc = "start" /\ pc' = "index" /\ UNCHANGED chip

\* cpu_wake_all: port_write(0x70, 0x0F); port_write(0x71, 0x0A)
shutdown_code ==
    \/ /\ pc = "index" /\ pc' = "data"
       /\ index' = "F"
       /\ UNCHANGED <<cmos, pf, pending>>
    \/ /\ pc = "data" /\ pc' = "wake"
       /\ port_write(10)
       /\ UNCHANGED <<index, pf>>

Boot ==
    /\ handler = "out"
    /\ timer_init \/ interrupts_start \/ shutdown_code
    /\ UNCHANGED <<ticks, handler, wtime, wakes, sleep>>

\* wtime += ticks; while(ticks < wtime);
timer_active_wait ==
    /\ handler = "out"
    /\ \/ /\ pc = "wake" /\ wakes < Wakes
          /\ wtime' = (ticks + 1) % Range
          /\ pc' = "wait"
          /\ UNCHANGED wakes
       \/ /\ pc = "wait" /\ ticks >= wtime
          /\ wakes' = wakes + 1
          /\ pc' = IF wakes' = Wakes THEN "run" ELSE "wake"
          /\ wtime' = 0
    /\ UNCHANGED <<ticks, chip, handler, sleep>>
-----------------------------------------------------------------------------
(* A thread, on any CPU                                                    *)

\* sched_thread_sleep: thread->wait_timer = ticks + n
wait_timer == (sleep.start + sleep.n) % Range

event_at_limit == ticks >= wait_timer

thread_timer_event == ticks > wait_timer

sched_thread_sleep(n) ==
    /\ pc = "run" /\ ~sleep.on
    /\ sleep' = [on |-> TRUE, start |-> ticks, n |-> n, elapsed |-> 0]
    /\ UNCHANGED <<ticks, chip, handler, pc, wtime, wakes>>

WakeUp ==
    /\ sleep.on /\ thread_timer_event
    /\ sleep' = Awake
    /\ UNCHANGED <<ticks, chip, handler, pc, wtime, wakes>>

Next ==
    \/ PeriodicEvent \/ Interrupt \/ _tick
    \/ Boot \/ timer_active_wait
    \/ WakeUp \/ \E n \in SleepArgs : sched_thread_sleep(n)

Spec == Init /\ [][Next]_vars
-----------------------------------------------------------------------------
(* The conversions: timer_uptime, and back                                 *)

MINUTE == TIMER_HZ * MIN_TO_SEC
HOUR == MINUTE * H_TO_MIN
DAY == HOUR * DAY_TO_H

_ticks_to_time(t) ==
    [days    |-> t \div DAY,
     hours   |-> (t % DAY) \div HOUR,
     minutes |-> (t % HOUR) \div MINUTE,
     sec     |-> (t % MINUTE) \div TIMER_HZ,
     milisec |-> ((t % TIMER_HZ) * SEC_TO_MS) \div TIMER_HZ]

_time_to_ticks(time) ==
    (time.milisec * TIMER_HZ) \div SEC_TO_MS + time.sec * TIMER_HZ + time.minutes * MINUTE
      + time.hours * HOUR + time.days * DAY
-----------------------------------------------------------------------------
\* Type correctness.
TypeOK ==
    /\ ticks \in 0..(Range - 1) /\ wtime \in 0..(Range - 1) /\ wakes \in 0..Wakes
    /\ index \in {"A", "B", "C", "F"} /\ cmos \in [{"A", "B", "F"} -> 0..255]
    /\ pf \in BOOLEAN /\ pending \in BOOLEAN
    /\ handler \in {"out", "select", "read"}
    /\ pc \in {"rate", "enable", "clear", "start", "index", "data", "wake", "wait", "run"}
    /\ sleep \in [on : BOOLEAN, start : 0..(Range - 1), n : 0..(Range - 1), elapsed : 0..Range]

\* The clock never gets stuck: while its line is up somebody is going to read
\* register C.  And what cpu_wake_all writes to the data port never changes the
\* rate or the interrupt, even if _tick moves the index port in between (the
\* write is lost then: C cannot be written).
ClockRuns ==
    /\ TypeOK
    /\ Line(pf, cmos) => pending \/ handler # "out" \/ pc = "clear"
    /\ pc \notin {"rate", "enable"} => cmos.A = 38 /\ cmos.B = 66

\* A sleep of n ticks is over after more than n ticks and not before, if the
\* counter does not come round.  A sleep that reaches beyond the end of the
\* counter is over at once, which is what snake.c relies on when it is late and
\* asks for a negative time.
SleepRight ==
    sleep.on =>
      /\ sleep.start + sleep.n < Range - 1 /\ sleep.start + sleep.elapsed < Range
           => (thread_timer_event <=> sleep.elapsed > sleep.n)
      /\ sleep.start + sleep.n >= Range /\ sleep.elapsed = 0 => thread_timer_event

\* The uptime has its fields in their ranges and stands for the ticks since boot,
\* down to a millisecond: back in ticks, at most two are missing.
UptimeRight(t) ==
    LET time == _ticks_to_time(t)
        back == _time_to_ticks(time)
    IN  /\ time.hours < DAY_TO_H /\ time.minutes < H_TO_MIN
        /\ time.sec < MIN_TO_SEC /\ time.milisec < SEC_TO_MS
        /\ back <= t /\ t <= back + 2

\* Sleeps, and the conversions (which depend on no state).
TimesRight == SleepRight /\ (pc = "rate" => \A t \in Uptimes : UptimeRight(t))

\* Waiting comes to an end: CPU 0 gets through its busy waits, and sleepers wake
\* up, except the one whose time ends with the last number of the counter, which
\* ticks never exceeds.
WaitsEnd ==
    /\ <>(pc = "run")
    /\ (sleep.on /\ wait_timer # Range - 1) ~> ~sleep.on
=============================================================================
