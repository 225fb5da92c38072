---------------------------- MODULE PartsProofs ----------------------------
(***************************************************************************)
(* Proofs about the parts of module Parts.                                 *)
(*                                                                         *)
(* Interrupts: kernel stacks, acknowledgements and the nesting of          *)
(* handlers, for any set of threads and any bound on the depth of a stack. *)
(* Then, for all names, command lines, addresses, sizes of the screen and  *)
(* numbers of CPUs that the assumptions allow: the lookup of a process,    *)
(* the search for max_cpu=, the descriptor tables, the cursor that two     *)
(* CPUs share, the snake, and what the consoles show.  Each part has an    *)
(* inductive invariant (NamesInv, SearchInv, TablesInv, RaceInv, SnakeInv, *)
(* ConsoleInv), a lemma per action, and a theorem at the end of this       *)
(* module.                                                                 *)
(***************************************************************************)
EXTENDS Parts, FiniteSetTheorems, SequenceTheorems, NaturalsInduction, WellFoundedInduction, TLAPS

Handlers == {"none", "unhandled", "keyboard_handler", "driver_irq_notify",
             "ignore_int", "syscall", "sched_tick", "_tick"}
Places == {"entry", "handler", "halt", "yield", "tick", "return"}

\* Every frame saves an open interrupt flag: interrupts_start, scheduler_switch
\* and the entry code close it, and none of them is interrupted.
Frames == [vec : Vector \cup {0}, tpr : Vector \cup {0}, intr : {TRUE}, at : Places]

\* What the place of a handler says about its vector, in a system that has
\* booted as far as b and in which w waits happened in a driver's handler.
FrameOK(f, b, w) ==
    /\ f.vec # 0 => b > Registered
    /\ f.at = "halt" => f.vec = PAGE_FAULT
    /\ f.at \in {"entry", "handler"} => f.vec # 0
    /\ f.at = "yield" => f.vec \in {INT_SYSCALL, INT_KEYBOARD}
    /\ f.at = "tick" => f.vec \in {INT_SCHED_TICK, INT_SYSCALL, INT_KEYBOARD}
    /\ f.at = "return" => f.vec \in {INT_SCHED_TICK, 0}
    /\ f.at \in {"yield", "tick"} /\ f.vec = INT_KEYBOARD => w > 0

\* The priority under which the handler of frame f runs may be x: that of its
\* vector, or that of the tick once it has been switched away from.
Prio(f, x, w) ==
    /\ f.at # "entry"
    /\ f.at = "halt" => x = PAGE_FAULT
    /\ f.at \in {"yield", "tick", "return"} => x = INT_SCHED_TICK
    /\ f.at = "handler" => \/ x = f.vec
                           \/ x = INT_SCHED_TICK /\ f.vec = INT_SYSCALL
                           \/ x = INT_SCHED_TICK /\ f.vec = INT_KEYBOARD /\ w > 0

\* Frame g may lie on frame f.
Adj(f, g, w) ==
    /\ Prio(f, g.tpr, w)
    /\ \/ g.vec \in Device /\ Class(g.vec) > Class(g.tpr)
       \/ g.vec = INT_SPURIOUS /\ f.at = "yield" /\ f.vec = INT_SYSCALL

\* A stack of thread t.
Good(s, t, b, w) ==
    /\ s \in Seq(Frames)
    /\ \A i \in 1..Len(s) : FrameOK(s[i], b, w)
    /\ \A i \in 1..(Len(s) - 1) : Adj(s[i], s[i + 1], w)
    /\ t \in Thread /\ s # <<>> => s[1].tpr = 0

\* The handlers are there before interrupts are let in.
HandlersOK ==
    /\ boot >= 1 => /\ int_handlers[INT_KEYBOARD] \in {"keyboard_handler", "driver_irq_notify"}
                    /\ int_handlers[INT_SPURIOUS] = "ignore_int"
                    /\ int_handlers[PAGE_FAULT] = "unhandled"
    /\ boot >= 2 => int_handlers[INT_SYSCALL] = "syscall"
    /\ boot >= 3 => int_handlers[INT_SCHED_TICK] = "sched_tick"
    /\ boot >= 4 => int_handlers[INT_RTC] = "_tick"
    /\ intr => boot > Registered
    /\ cur \in Thread \/ stack[cur] # <<>> => boot > Registered

\* The running code: at the entry interrupts are closed, later its priority is
\* that of its frame.
TopOK ==
    /\ cur \in Thread => esp0 = cur
    /\ UserMode => tpr = 0 /\ intr
    /\ stack[cur] # <<>> =>
         /\ Top.at = "entry" => ~intr
         /\ Top.at # "entry" => Prio(Top, tpr, blocked)
         /\ Top.at = "halt" => intr

Acknowledged == isr = IF stack[cur] # <<>> /\ Top.at = "entry" THEN {Top.vec} \cap Device ELSE {}

Plain ==
    /\ int_handlers \in [Vector -> Handlers]
    /\ boot \in 0..(Registered + 2)
    /\ irr \subseteq Device /\ isr \subseteq Device /\ tpr \in Vector \cup {0}
    /\ intr \in BOOLEAN /\ blocked \in 0..MaxWaits
    /\ cur \in Context /\ esp0 \in Context \cup {NoStack}
    /\ DOMAIN stack = Context

AllGood == \A t \in Context : Good(stack[t], t, boot, blocked)

\* The inductive invariant.
IInv == Plain /\ AllGood /\ HandlersOK /\ TopOK /\ Acknowledged /\ Suspended
-----------------------------------------------------------------------------
(* Vectors and stacks                                                      *)

\* The vectors are different, and their priorities are ordered: faults and
\* spurious interrupts, calls, the tick, devices.
LEMMA Numbers ==
    /\ INT_KEYBOARD = 218 /\ INT_RTC = 211 /\ INT_SCHED_TICK = 128
    /\ INT_SYSCALL = 80 /\ INT_SPURIOUS = 15 /\ PAGE_FAULT = 14
    /\ Device = {128, 211, 218} /\ Vector = {128, 211, 218, 15, 80, 14}
    /\ Class(218) = 13 /\ Class(211) = 13 /\ Class(128) = 8 /\ Class(80) = 5
    /\ Class(15) = 0 /\ Class(14) = 0 /\ Class(0) = 0
    /\ Registered = 4
  <1>1. INT_KEYBOARD = 218
    BY DEF INT_KEYBOARD, ioapic_init
  <1>2. Device = {128, 211, 218} /\ Vector = {128, 211, 218, 15, 80, 14}
    BY <1>1 DEF Device, Vector, INT_RTC, INT_SCHED_TICK, INT_SYSCALL, INT_SPURIOUS, PAGE_FAULT
  <1>3. /\ Class(218) = 13 /\ Class(211) = 13 /\ Class(128) = 8 /\ Class(80) = 5
        /\ Class(15) = 0 /\ Class(14) = 0 /\ Class(0) = 0
    BY DEF Class
  <1>4. Registered = 4
    BY DEF Registered, Registrations
  <1> QED
    BY <1>1, <1>2, <1>3, <1>4 DEF INT_RTC, INT_SCHED_TICK, INT_SYSCALL, INT_SPURIOUS, PAGE_FAULT

\* A stack stays good when booting goes on and more waits happen.
LEMMA GoodLater ==
    ASSUME NEW s, NEW t, NEW b \in Nat, NEW c \in Nat, NEW v \in Nat, NEW w \in Nat,
           b <= c, v <= w, Good(s, t, b, v)
    PROVE  Good(s, t, c, w)
  <1>1. \A i \in 1..Len(s) : FrameOK(s[i], c, w)
    BY Numbers DEF Good, FrameOK
  <1>2. \A i \in 1..(Len(s) - 1) : Adj(s[i], s[i + 1], w)
    <2> SUFFICES ASSUME NEW i \in 1..(Len(s) - 1) PROVE Adj(s[i], s[i + 1], w)
      OBVIOUS
    <2>1. Adj(s[i], s[i + 1], v)
      BY DEF Good
    <2> QED
      BY <2>1 DEF Adj, Prio
  <1> QED
    BY <1>1, <1>2 DEF Good

\* A new frame on a good stack.
LEMMA GoodPush ==
    ASSUME NEW s, NEW t, NEW b, NEW w, NEW g \in Frames,
           Good(s, t, b, w), FrameOK(g, b, w),
           s # <<>> => Adj(s[Len(s)], g, w),
           s = <<>> /\ t \in Thread => g.tpr = 0
    PROVE  Good(Append(s, g), t, b, w)
  <1> DEFINE r == Append(s, g)
  <1>1. s \in Seq(Frames) /\ Len(s) \in Nat /\ (s # <<>> => Len(s) > 0)
    BY DEF Good
  <1>2. r \in Seq(Frames) /\ Len(r) = Len(s) + 1
    BY <1>1
  <1>3. \A i \in 1..Len(s) : r[i] = s[i]
    BY <1>1
  <1>4. r[Len(s) + 1] = g
    BY <1>1
  <1> HIDE DEF r
  <1>5. \A i \in 1..Len(r) : FrameOK(r[i], b, w)
    BY <1>1, <1>2, <1>3, <1>4 DEF Good
  <1>6. \A i \in 1..(Len(r) - 1) : Adj(r[i], r[i + 1], w)
    <2> SUFFICES ASSUME NEW i \in 1..(Len(r) - 1) PROVE Adj(r[i], r[i + 1], w)
      OBVIOUS
    <2>1. CASE i = Len(s)
      BY <2>1, <1>1, <1>2, <1>3, <1>4
    <2>2. CASE i # Len(s)
      <3>1. i \in 1..(Len(s) - 1) /\ i + 1 \in 1..Len(s) /\ i \in 1..Len(s)
        BY <2>2, <1>1, <1>2
      <3> QED
        BY <3>1, <1>3 DEF Good
    <2> QED
      BY <2>1, <2>2
  <1>7. t \in Thread => r[1].tpr = 0
    <2>1. CASE s = <<>>
      BY <2>1, <1>4
    <2>2. CASE s # <<>>
      BY <2>2, <1>1, <1>3 DEF Good
    <2> QED
      BY <2>1, <2>2
  <1> QED
    BY <1>2, <1>5, <1>6, <1>7 DEF Good, r

\* The last frame of a good stack goes.
LEMMA GoodPop ==
    ASSUME NEW s, NEW t, NEW b, NEW w, Good(s, t, b, w), s # <<>>
    PROVE  /\ Good(SubSeq(s, 1, Len(s) - 1), t, b, w)
           /\ Len(SubSeq(s, 1, Len(s) - 1)) = Len(s) - 1
           /\ \A i \in 1..(Len(s) - 1) : SubSeq(s, 1, Len(s) - 1)[i] = s[i]
  <1> DEFINE r == SubSeq(s, 1, Len(s) - 1)
  <1>1. s \in Seq(Frames) /\ Len(s) \in Nat /\ Len(s) > 0
    BY DEF Good
  <1>2. r \in Seq(Frames) /\ Len(r) = Len(s) - 1
    <2> DEFINE n == Len(s) - 1
    <2>1. n \in Nat /\ \A i \in 1..n : s[i] \in Frames
      BY <1>1
    <2> HIDE DEF n
    <2>2. SubSeq(s, 1, n) \in Seq(Frames) /\ Len(SubSeq(s, 1, n)) = IF 1 <= n THEN n - 1 + 1 ELSE 0
      BY <2>1, SubSeqProperties
    <2>3. SubSeq(s, 1, n) \in Seq(Frames) /\ Len(SubSeq(s, 1, n)) = n
      BY <2>1, <2>2
    <2> QED
      BY <2>3 DEF n
  <1>3. \A i \in 1..(Len(s) - 1) : r[i] = s[i]
    BY <1>1
  <1> HIDE DEF r
  <1>4. \A i \in 1..Len(r) : FrameOK(r[i], b, w)
    <2> SUFFICES ASSUME NEW i \in 1..Len(r) PROVE FrameOK(r[i], b, w)
      OBVIOUS
    <2>1. i \in 1..(Len(s) - 1) /\ i \in 1..Len(s)
      BY <1>1, <1>2
    <2> QED
      BY <2>1, <1>3 DEF Good
  <1>5. \A i \in 1..(Len(r) - 1) : Adj(r[i], r[i + 1], w)
    <2> SUFFICES ASSUME NEW i \in 1..(Len(r) - 1) PROVE Adj(r[i], r[i + 1], w)
      OBVIOUS
    <2>1. i \in 1..(Len(s) - 1) /\ i + 1 \in 1..(Len(s) - 1)
      BY <1>1, <1>2
    <2>2. Adj(s[i], s[i + 1], w)
      BY <2>1 DEF Good
    <2> QED
      BY <2>1, <2>2, <1>3
  <1>6. t \in Thread /\ r # <<>> => r[1].tpr = 0
    <2> SUFFICES ASSUME t \in Thread, r # <<>> PROVE r[1].tpr = 0
      OBVIOUS
    <2>1. 1 \in 1..(Len(s) - 1)
      BY <1>1, <1>2
    <2> QED
      BY <2>1, <1>3 DEF Good
  <1> QED
    BY <1>2, <1>3, <1>4, <1>5, <1>6 DEF Good, r

\* Frame f with its handler at another place.
Elsewhere(f, at) == [f EXCEPT !.at = at]

LEMMA Moved ==
    ASSUME NEW f \in Frames, NEW at \in Places
    PROVE  /\ Elsewhere(f, at) \in Frames /\ Elsewhere(f, at).at = at
           /\ Elsewhere(f, at).vec = f.vec /\ Elsewhere(f, at).tpr = f.tpr
  BY DEF Frames, Elsewhere

\* The handler of the last frame goes on to another place.
LEMMA GoodMove ==
    ASSUME NEW s, NEW t, NEW b, NEW w, NEW g \in Frames, Good(s, t, b, w), s # <<>>,
           g.vec = s[Len(s)].vec, g.tpr = s[Len(s)].tpr, FrameOK(g, b, w)
    PROVE  LET r == [s EXCEPT ![Len(s)] = g]
           IN  Good(r, t, b, w) /\ Len(r) = Len(s) /\ r # <<>> /\ r[Len(s)] = g
  <1> DEFINE r == [s EXCEPT ![Len(s)] = g]
             f == s[Len(s)]
  <1>1. s \in Seq(Frames) /\ Len(s) \in Nat /\ Len(s) > 0
    BY DEF Good
  <1>3. g.vec = f.vec /\ g.tpr = f.tpr
    OBVIOUS
  <1> HIDE DEF f
  <1>5. r \in Seq(Frames) /\ Len(r) = Len(s) /\ r # <<>>
    BY <1>1
  <1>6. r[Len(s)] = g /\ \A i \in 1..(Len(s) - 1) : r[i] = s[i]
    BY <1>1
  <1> HIDE DEF r
  <1>7. \A i \in 1..Len(r) : FrameOK(r[i], b, w)
    <2> SUFFICES ASSUME NEW i \in 1..Len(r) PROVE FrameOK(r[i], b, w)
      OBVIOUS
    <2>1. CASE i = Len(s)
      BY <2>1, <1>6
    <2>2. CASE i # Len(s)
      <3>1. i \in 1..(Len(s) - 1) /\ i \in 1..Len(s)
        BY <2>2, <1>1, <1>5
      <3> QED
        BY <3>1, <1>6 DEF Good
    <2> QED
      BY <2>1, <2>2
  <1>8. \A i \in 1..(Len(r) - 1) : Adj(r[i], r[i + 1], w)
    <2> SUFFICES ASSUME NEW i \in 1..(Len(r) - 1) PROVE Adj(r[i], r[i + 1], w)
      OBVIOUS
    <2>0. i \in 1..(Len(s) - 1) /\ r[i] = s[i] /\ Adj(s[i], s[i + 1], w)
      BY <1>5, <1>6 DEF Good
    <2>1. CASE i + 1 = Len(s)
      <3>1. Adj(s[i], f, w) /\ r[i + 1] = g
        BY <2>0, <2>1, <1>6 DEF f
      <3>2. Adj(s[i], g, w)
        BY <3>1, <1>3 DEF Adj
      <3> QED
        BY <3>1, <3>2, <2>0
    <2>2. CASE i + 1 # Len(s)
      <3>1. i + 1 \in 1..(Len(s) - 1)
        BY <2>0, <2>2, <1>1
      <3> QED
        BY <3>1, <2>0, <1>6
    <2> QED
      BY <2>1, <2>2
  <1>9. t \in Thread => r[1].tpr = 0
    <2>1. t \in Thread => s[1].tpr = 0
      BY DEF Good
    <2>2. CASE Len(s) = 1
      BY <2>1, <2>2, <1>6, <1>3 DEF f
    <2>3. CASE Len(s) # 1
      <3>1. \A n \in Nat : n > 0 /\ n # 1 => 1 \in 1..(n - 1)
        OBVIOUS
      <3>2. 1 \in 1..(Len(s) - 1)
        BY <2>3, <1>1, <3>1
      <3> QED
        BY <3>2, <2>1, <1>6
    <2> QED
      BY <2>2, <2>3
  <1> QED
    BY <1>3, <1>5, <1>6, <1>7, <1>8, <1>9 DEF Good, r
-----------------------------------------------------------------------------
(* The steps                                                               *)

\* The facts about the running thread that all steps start from.
LEMMA Running ==
    ASSUME IInv
    PROVE  /\ cur \in Context /\ Good(stack[cur], cur, boot, blocked)
           /\ stack[cur] \in Seq(Frames) /\ Len(stack[cur]) \in Nat
           /\ boot \in Nat /\ blocked \in Nat
           /\ stack[cur] # <<>> => /\ Len(stack[cur]) > 0 /\ Top \in Frames
                                   /\ FrameOK(Top, boot, blocked)
                                   /\ Top.vec \in Vector \cup {0} /\ Top.tpr \in Vector \cup {0}
                                   /\ Top.intr /\ Top.at \in Places
  <1>1. cur \in Context /\ Good(stack[cur], cur, boot, blocked)
    BY DEF IInv, Plain, AllGood
  <1>2. stack[cur] \in Seq(Frames) /\ Len(stack[cur]) \in Nat
    BY <1>1 DEF Good
  <1>3. boot \in Nat /\ blocked \in Nat
    BY Numbers, InterruptsAssumption DEF IInv, Plain
  <1>4. ASSUME stack[cur] # <<>>
        PROVE  Len(stack[cur]) > 0 /\ Top \in Frames /\ FrameOK(Top, boot, blocked)
    <2>1. Len(stack[cur]) > 0
      BY <1>2, <1>4
    <2> QED
      BY <1>1, <1>2, <2>1 DEF Good, Top
  <1>5. ASSUME NEW f \in Frames
        PROVE  f.vec \in Vector \cup {0} /\ f.tpr \in Vector \cup {0} /\ f.intr /\ f.at \in Places
    BY DEF Frames
  <1> QED
    BY <1>1, <1>2, <1>3, <1>4, <1>5

\* A step of the running thread on its own stack.
LEMMA OwnStack ==
    ASSUME IInv, NEW r,
           cur' = cur, stack' = [stack EXCEPT ![cur] = r],
           boot' \in Nat, blocked' \in Nat, boot <= boot', blocked <= blocked',
           Good(r, cur, boot', blocked')
    PROVE  AllGood' /\ Suspended' /\ stack'[cur] = r /\ DOMAIN stack' = Context
  <1>1. cur \in Context /\ DOMAIN stack = Context /\ boot \in Nat /\ blocked \in Nat
    BY Running DEF IInv, Plain
  <1>2. stack'[cur] = r /\ DOMAIN stack' = Context /\ \A t \in Context \ {cur} : stack'[t] = stack[t]
    BY <1>1
  <1>3. ASSUME NEW t \in Context PROVE Good(stack'[t], t, boot', blocked')
    <2>1. CASE t = cur
      BY <2>1, <1>2
    <2>2. CASE t # cur
      <3>1. Good(stack[t], t, boot, blocked)
        BY DEF IInv, AllGood
      <3> QED
        BY <3>1, <2>2, <1>1, <1>2, GoodLater
    <2> QED
      BY <2>1, <2>2
  <1>4. Suspended'
    BY <1>2 DEF IInv, Suspended
  <1> QED
    BY <1>2, <1>3, <1>4 DEF AllGood

\* A step that leaves the stacks alone.
LEMMA SameStacks ==
    ASSUME IInv, UNCHANGED <<cur, stack>>,
           boot' \in Nat, blocked' \in Nat, boot <= boot', blocked <= blocked'
    PROVE  AllGood' /\ Suspended' /\ DOMAIN stack' = Context
  <1>1. boot \in Nat /\ blocked \in Nat
    BY Running
  <1>2. ASSUME NEW t \in Context PROVE Good(stack[t], t, boot', blocked')
    <2>1. Good(stack[t], t, boot, blocked)
      BY DEF IInv, AllGood
    <2> QED
      BY <2>1, <1>1, GoodLater
  <1> QED
    BY <1>2 DEF AllGood, Suspended, IInv, Plain

LEMMA Start == Init => IInv
  <1> SUFFICES ASSUME Init PROVE IInv
    OBVIOUS
  <1>1. Plain
    <2>1. int_handlers \in [Vector -> Handlers]
      BY DEF Init, Handlers
    <2>2. boot \in 0..(Registered + 2) /\ blocked \in 0..MaxWaits
      BY Numbers, InterruptsAssumption DEF Init
    <2> QED
      BY <2>1, <2>2 DEF Init, Plain, Context
  <1>2. AllGood
    <2> SUFFICES ASSUME NEW t \in Context PROVE Good(stack[t], t, boot, blocked)
      BY DEF AllGood
    <2>0. regs_init \in Frames /\ FrameOK(regs_init, boot, blocked) /\ regs_init.tpr = 0
      BY DEF regs_init, Frames, FrameOK, Places
    <2>1. CASE t = Idle
      <3>1. stack[t] = <<>>
        BY <2>1 DEF Init
      <3> QED
        BY <3>1 DEF Good
    <2>2. CASE t # Idle
      <3>1. stack[t] = <<regs_init>>
        BY <2>2 DEF Init
      <3>2. <<regs_init>> \in Seq(Frames) /\ Len(<<regs_init>>) = 1 /\ <<regs_init>>[1] = regs_init
        BY <2>0
      <3> QED
        BY <3>1, <3>2, <2>0 DEF Good
    <2> QED
      BY <2>1, <2>2
  <1>3. HandlersOK
    BY Numbers, InterruptsAssumption DEF Init, HandlersOK, Context
  <1>4. TopOK /\ Acknowledged
    BY InterruptsAssumption DEF Init, TopOK, Acknowledged, UserMode, Context
  <1>5. Suspended
    BY DEF Init, Suspended
  <1> QED
    BY <1>1, <1>2, <1>3, <1>4, <1>5 DEF IInv

\* kmain on the boot CPU registers all handlers before it lets interrupts in.
LEMMA BootStep == IInv /\ Boot => IInv'
  <1> SUFFICES ASSUME IInv, Boot PROVE IInv'
    OBVIOUS
  <1>1. /\ boot' = boot + 1 /\ boot' \in 0..(Registered + 2) /\ boot \in Nat /\ blocked \in Nat
        /\ UNCHANGED <<apic, tpr, cur, stack, blocked>>
    BY Running, Numbers, SMTT(30) DEF Boot, interrupts_init, interrupts_register_handler, interrupts_start,
       sched_start_timer, IInv, Plain, Registered
  <1>2. boot' \in Nat /\ boot <= boot' /\ blocked' \in Nat /\ blocked <= blocked'
    BY <1>1
  <1>3. AllGood' /\ Suspended' /\ DOMAIN stack' = Context
    BY <1>1, <1>2, SameStacks
  <1>4. int_handlers' \in [Vector -> Handlers] /\ esp0' \in Context \cup {NoStack} /\ intr' \in BOOLEAN
        /\ HandlersOK' /\ (cur \in Thread => esp0' = esp0) /\ (intr => intr')
        /\ (~intr /\ intr' => boot = Registered)
    <2>1. CASE interrupts_init
      BY <2>1, Numbers DEF interrupts_init, IInv, Plain, HandlersOK, Handlers
    <2>2. CASE interrupts_register_handler
      <3>1. Len(Registrations) = 3 /\ Registrations[1] = <<80, "syscall">>
            /\ Registrations[2] = <<128, "sched_tick">> /\ Registrations[3] = <<211, "_tick">>
        BY Numbers DEF Registrations
      <3>2. boot \in {1, 2, 3}
        BY <2>2, <3>1 DEF interrupts_register_handler
      <3> QED
        BY <2>2, <3>1, <3>2, Numbers DEF interrupts_register_handler, IInv, Plain, HandlersOK, Handlers
    <2>3. CASE interrupts_start
      BY <2>3, Numbers DEF interrupts_start, IInv, Plain, HandlersOK
    <2>4. CASE sched_start_timer
      BY <2>4, Numbers DEF sched_start_timer, IInv, Plain, HandlersOK
    <2> QED
      BY <2>1, <2>2, <2>3, <2>4 DEF Boot
  <1>5. Plain' /\ Acknowledged'
    BY <1>1, <1>3, <1>4 DEF IInv, Plain, Acknowledged, apic, Top
  <1>6. TopOK'
    <2>1. stack[cur] # <<>> /\ Top.at = "entry" => ~intr'
      <3> SUFFICES ASSUME stack[cur] # <<>>, Top.at = "entry" PROVE ~intr'
        OBVIOUS
      <3>1. boot > Registered /\ ~intr
        BY Running DEF FrameOK, IInv, TopOK
      <3> QED
        BY <3>1, <1>4, Numbers, <1>1
    <2> QED
      BY <2>1, <1>1, <1>4 DEF IInv, TopOK, UserMode, Top
  <1> QED
    BY <1>3, <1>4, <1>5, <1>6 DEF IInv
\* A device asks, or a driver takes the keyboard over.
LEMMA QuietStep ==
    IInv /\ (driver_register \/ \E v \in Device : Request(v)) => IInv'
  <1> SUFFICES ASSUME IInv, driver_register \/ \E v \in Device : Request(v)
               PROVE  IInv'
    OBVIOUS
  <1>1. /\ UNCHANGED <<boot, isr, tpr, intr, cur, esp0, stack, blocked>>
        /\ irr' \subseteq Device
    BY DEF driver_register, Request, IInv, Plain, apic
  <1>2. int_handlers' \in [Vector -> Handlers] /\ HandlersOK'
    <2>1. CASE \E v \in Device : Request(v)
      BY <2>1, <1>1 DEF Request, IInv, Plain, HandlersOK
    <2>2. CASE driver_register
      <3>1. int_handlers' = [int_handlers EXCEPT ![218] = "driver_irq_notify"] /\ 218 \in Vector
        BY <2>2, Numbers DEF driver_register
      <3> QED
        BY <3>1, <1>1, Numbers DEF IInv, Plain, HandlersOK, Handlers
    <2> QED
      BY <2>1, <2>2
  <1>3. AllGood' /\ Suspended'
    BY <1>1, Running, SameStacks
  <1> QED
    BY <1>1, <1>2, <1>3 DEF IInv, Plain, TopOK, Acknowledged, UserMode, Top

\* What an entry into the kernel does: in user mode too the frame goes on the
\* stack of the running thread, because the TSS names it and it is empty.
LEMMA EnterStep ==
    ASSUME IInv, NEW v \in Vector, isr_common(v),
           intr, irr' \subseteq Device, isr' = isr \cup ({v} \cap Device),
           \/ v \in Device /\ Class(v) > Class(tpr)
           \/ UserMode
    PROVE  IInv'
  <1> DEFINE s == stack[cur]
             f == Frame(v, tpr)
             r == Append(s, f)
  <1>0. boot > Registered /\ tpr \in Vector \cup {0}
    BY DEF IInv, Plain, HandlersOK
  <1>1. f \in Frames /\ FrameOK(f, boot, blocked) /\ f.at = "entry" /\ f.vec = v /\ f.tpr = tpr
    <2>1. v # 0
      BY Numbers
    <2> QED
      BY <2>1, <1>0 DEF Frame, Frames, FrameOK, Places
  <1>2. stack' = [stack EXCEPT ![cur] = r]
    <2>1. CASE UserMode
      <3>1. esp0 = cur /\ s = <<>>
        BY <2>1 DEF UserMode, IInv, TopOK
      <3>2. r = <<f>>
        BY <3>1
      <3> QED
        BY <2>1, <3>1, <3>2 DEF isr_common
    <2>2. CASE ~UserMode
      BY <2>2 DEF isr_common
    <2> QED
      BY <2>1, <2>2
  <1>3. s # <<>> => Adj(s[Len(s)], f, blocked)
    <2> SUFFICES ASSUME s # <<>> PROVE Adj(Top, f, blocked)
      BY DEF Top
    <2>1. Top.at # "entry" /\ Prio(Top, tpr, blocked)
      BY DEF IInv, TopOK
    <2>2. v \in Device /\ Class(v) > Class(tpr)
      BY DEF UserMode
    <2> QED
      BY <2>1, <2>2, <1>1 DEF Adj
  <1>4. s = <<>> /\ cur \in Thread => f.tpr = 0
    BY <1>1 DEF UserMode, IInv, TopOK
  <1>5. Good(s, cur, boot, blocked)
    BY Running
  <1> HIDE DEF s, f
  <1>6. Good(r, cur, boot, blocked)
    BY <1>1, <1>3, <1>4, <1>5, GoodPush
  <1>7. UNCHANGED <<int_handlers, boot, tpr, cur, esp0, blocked>> /\ intr' = FALSE
    BY DEF isr_common
  <1>8. s \in Seq(Frames)
    BY <1>5 DEF Good
  <1>9. r # <<>> /\ r[Len(r)] = f
    BY <1>8, <1>1
  <1> HIDE DEF r
  <1>10. AllGood' /\ Suspended' /\ stack'[cur] = r /\ DOMAIN stack' = Context
    <2>1. /\ boot' \in Nat /\ blocked' \in Nat /\ boot <= boot' /\ blocked <= blocked'
          /\ Good(r, cur, boot', blocked') /\ cur' = cur
      BY <1>6, <1>7, Running
    <2> QED
      BY <2>1, <1>2, OwnStack
  <1>11. stack'[cur'] # <<>> /\ Top' = f
    BY <1>7, <1>9, <1>10 DEF Top
  <1>12. isr = {}
    <2>1. stack[cur] # <<>> => Top.at # "entry"
      BY DEF IInv, TopOK
    <2> QED
      BY <2>1 DEF IInv, Acknowledged
  <1>13. Plain' /\ HandlersOK'
    <2>1. isr' \subseteq Device
      BY DEF IInv, Plain
    <2> QED
      BY <2>1, <1>0, <1>7, <1>10 DEF IInv, Plain, HandlersOK
  <1>14. TopOK'
    <2>1. cur \in Thread => esp0 = cur
      BY DEF IInv, TopOK
    <2> QED
      BY <2>1, <1>1, <1>7, <1>11 DEF TopOK, UserMode
  <1>15. Acknowledged'
    BY <1>1, <1>11, <1>12 DEF Acknowledged
  <1> QED
    BY <1>10, <1>13, <1>14, <1>15 DEF IInv

LEMMA InterruptStep ==
    IInv /\ (SystemCall \/ PageFault \/ \E v \in Device : Interrupt(v)) => IInv'
  <1> SUFFICES ASSUME IInv,
                      SystemCall \/ PageFault \/ \E v \in Device : Interrupt(v)
               PROVE  IInv'
    OBVIOUS
  <1>1. ASSUME NEW v \in {INT_SYSCALL, PAGE_FAULT}, Trap(v) PROVE IInv'
    <2>1. v \in Vector /\ {v} \cap Device = {}
      BY Numbers
    <2>2. UserMode /\ isr_common(v) /\ irr' = irr /\ isr' = isr
      BY <1>1 DEF Trap, apic
    <2>3. intr
      BY <2>2 DEF IInv, TopOK
    <2>4. irr' \subseteq Device /\ isr' = isr \cup ({v} \cap Device)
      BY <2>1, <2>2 DEF IInv, Plain
    <2> QED
      BY <2>1, <2>2, <2>3, <2>4, EnterStep
  <1>2. ASSUME NEW v \in Device, Interrupt(v) PROVE IInv'
    <2>1. v \in Vector
      BY DEF Vector
    <2>2. irr' \subseteq Device /\ isr' = isr \cup ({v} \cap Device)
      BY <1>2 DEF Interrupt, IInv, Plain
    <2>3. intr /\ isr_common(v) /\ Class(v) > Class(tpr)
      BY <1>2 DEF Interrupt
    <2> QED
      BY <2>1, <2>2, <2>3, EnterStep
  <1> QED
    BY <1>1, <1>2 DEF SystemCall, PageFault
\* The handler of the running thread's last frame gets somewhere.
LEMMA MoveStep ==
    ASSUME IInv, stack[cur] # <<>>, NEW at \in Places \ {"entry"},
           stack' = [stack EXCEPT ![cur] = MoveTop(cur, at)],
           UNCHANGED <<int_handlers, boot, irr, cur, esp0>>,
           isr' = {}, tpr' \in Vector \cup {0}, intr' \in BOOLEAN, intr' => boot > Registered,
           blocked' \in 0..MaxWaits, blocked <= blocked',
           FrameOK(Elsewhere(Top, at), boot, blocked'),
           Prio(Elsewhere(Top, at), tpr', blocked'),
           at = "halt" => intr'
    PROVE  IInv'
  <1> DEFINE s == stack[cur]
             g == Elsewhere(Top, at)
             r == [s EXCEPT ![Len(s)] = g]
  <1>1. MoveTop(cur, at) = r
    BY DEF MoveTop, Elsewhere, Top
  <1>2. g \in Frames /\ g.at = at /\ g.vec = s[Len(s)].vec /\ g.tpr = s[Len(s)].tpr
    BY Running, Moved DEF Top
  <1>3. boot \in Nat /\ blocked \in Nat /\ blocked' \in Nat /\ Good(s, cur, boot, blocked')
    <2>1. boot \in Nat /\ blocked \in Nat /\ Good(s, cur, boot, blocked)
      BY Running
    <2>2. blocked' \in Nat /\ boot <= boot
      BY <2>1, InterruptsAssumption
    <2> QED
      BY <2>1, <2>2, GoodLater
  <1> HIDE DEF s, g
  <1>4. Good(r, cur, boot, blocked') /\ Len(r) = Len(s) /\ r # <<>> /\ r[Len(s)] = g
    <2>1. s # <<>> /\ FrameOK(g, boot, blocked')
      BY DEF s, g
    <2> QED
      BY <2>1, <1>2, <1>3, GoodMove
  <1> HIDE DEF r
  <1>5. boot' = boot /\ cur' = cur /\ stack' = [stack EXCEPT ![cur] = r]
    BY <1>1
  <1>6. AllGood' /\ Suspended' /\ stack'[cur] = r /\ DOMAIN stack' = Context
    <2>1. /\ boot' \in Nat /\ boot <= boot' /\ Good(r, cur, boot', blocked')
      BY <1>3, <1>4, <1>5
    <2> QED
      BY <2>1, <1>3, <1>5, OwnStack
  <1>7. stack'[cur'] # <<>> /\ Top' = g
    BY <1>4, <1>5, <1>6 DEF Top
  <1>8. Plain' /\ HandlersOK'
    BY <1>6 DEF IInv, Plain, HandlersOK
  <1>9. TopOK'
    <2>1. cur \in Thread => esp0 = cur
      BY DEF IInv, TopOK
    <2>2. Prio(g, tpr', blocked') /\ g.at # "entry"
      BY <1>2 DEF g
    <2> QED
      BY <2>1, <2>2, <1>2, <1>7 DEF TopOK, UserMode
  <1>10. Acknowledged'
    BY <1>2, <1>7 DEF Acknowledged
  <1> QED
    BY <1>6, <1>8, <1>9, <1>10 DEF IInv

\* Which vectors a handler that runs can belong to.
LEMMA HandlerOf ==
    ASSUME IInv, stack[cur] # <<>>, Top.vec # 0
    PROVE  /\ boot > Registered /\ Top.vec \in Vector
           /\ int_handlers[Top.vec] = "unhandled" => Top.vec = PAGE_FAULT
           /\ int_handlers[Top.vec] = "syscall" => Top.vec = INT_SYSCALL
           /\ int_handlers[Top.vec] = "driver_irq_notify" => Top.vec = INT_KEYBOARD
           /\ int_handlers[Top.vec] = "sched_tick" => Top.vec = INT_SCHED_TICK
  <1>1. boot > Registered /\ Top.vec \in Vector /\ boot \in Nat
    BY Running DEF FrameOK
  <1>2. /\ int_handlers[218] \in {"keyboard_handler", "driver_irq_notify"}
        /\ int_handlers[15] = "ignore_int" /\ int_handlers[14] = "unhandled"
        /\ int_handlers[80] = "syscall" /\ int_handlers[128] = "sched_tick"
        /\ int_handlers[211] = "_tick"
    BY <1>1, Numbers DEF IInv, HandlersOK
  <1> QED
    BY <1>1, <1>2, Numbers

\* irq_handler acknowledges what is in service, if it is its own interrupt.
LEMMA DispatchStep == IInv /\ irq_handler => IInv'
  <1> SUFFICES ASSUME IInv, irq_handler PROVE IInv'
    OBVIOUS
  <1> DEFINE at == IF int_handlers[Top.vec] = "unhandled" THEN "halt" ELSE "handler"
  <1>1. /\ stack[cur] # <<>> /\ Top.at = "entry"
        /\ Top \in Frames /\ FrameOK(Top, boot, blocked) /\ Top.vec # 0
    BY Running DEF irq_handler, FrameOK
  <1>2. boot > Registered /\ Top.vec \in Vector /\ (at = "halt" => Top.vec = PAGE_FAULT)
    BY <1>1, HandlerOf
  <1>3. isr' = {}
    <2>1. isr = {Top.vec} \cap Device
      BY <1>1 DEF IInv, Acknowledged
    <2>2. isr' = IF Top.vec > 32 /\ isr # {} THEN isr \ {Max(isr)} ELSE isr
      BY DEF irq_handler
    <2>3. CASE Top.vec \in Device
      <3>1. Top.vec > 32 /\ isr = {Top.vec}
        <4>1. Top.vec > 32
          BY <2>3, Numbers
        <4> QED
          BY <4>1, <2>1, <2>3
      <3>2. Max(isr) = Top.vec
        BY <3>1 DEF Max
      <3> QED
        BY <2>2, <3>1, <3>2
    <2>4. CASE Top.vec \notin Device
      BY <2>1, <2>2, <2>4
    <2> QED
      BY <2>3, <2>4
  <1>4. at \in Places \ {"entry"} /\ at \in {"halt", "handler"}
    BY DEF Places
  <1>5. /\ Elsewhere(Top, at).at = at /\ Elsewhere(Top, at).vec = Top.vec
        /\ stack' = [stack EXCEPT ![cur] = MoveTop(cur, at)] /\ intr' = TRUE /\ tpr' = Top.vec
        /\ UNCHANGED <<int_handlers, boot, irr, cur, esp0, blocked>>
    BY <1>1, <1>4, Moved DEF irq_handler
  <1> HIDE DEF at
  <1>6. FrameOK(Elsewhere(Top, at), boot, blocked')
    BY <1>1, <1>2, <1>4, <1>5 DEF FrameOK
  <1>7. Prio(Elsewhere(Top, at), tpr', blocked')
    BY <1>2, <1>4, <1>5 DEF Prio
  <1>8. tpr' \in Vector \cup {0} /\ intr' \in BOOLEAN /\ blocked' \in 0..MaxWaits /\ blocked <= blocked'
    <2>1. blocked \in Nat
      BY Running
    <2> QED
      BY <2>1, <1>2, <1>5 DEF IInv, Plain
  <1> QED
    BY <1>1, <1>2, <1>3, <1>4, <1>5, <1>6, <1>7, <1>8, MoveStep

LEMMA YieldStep == IInv /\ sched_yield => IInv'
  <1> SUFFICES ASSUME IInv, sched_yield PROVE IInv'
    OBVIOUS
  <1>1. /\ stack[cur] # <<>> /\ Top.at = "handler"
        /\ Top \in Frames /\ FrameOK(Top, boot, blocked) /\ Top.vec # 0
    BY Running DEF sched_yield, Runs, FrameOK
  <1>2. /\ blocked \in Nat /\ blocked' \in 0..MaxWaits /\ blocked <= blocked'
        /\ \/ Top.vec = INT_SYSCALL
           \/ Top.vec = INT_KEYBOARD /\ blocked' > 0
    <2>1. CASE Runs("syscall", "handler") /\ UNCHANGED blocked
      BY <2>1, <1>1, HandlerOf, Running DEF Runs, IInv, Plain
    <2>2. CASE Runs("driver_irq_notify", "handler") /\ blocked < MaxWaits /\ blocked' = blocked + 1
      BY <2>2, <1>1, HandlerOf, Running, InterruptsAssumption DEF Runs, IInv, Plain
    <2> QED
      BY <2>1, <2>2 DEF sched_yield
  <1>3. /\ Elsewhere(Top, "yield").at = "yield" /\ Elsewhere(Top, "yield").vec = Top.vec
        /\ stack' = [stack EXCEPT ![cur] = MoveTop(cur, "yield")] /\ tpr' = INT_SCHED_TICK
        /\ UNCHANGED <<int_handlers, boot, irr, isr, cur, esp0, intr>>
    BY <1>1, Moved DEF sched_yield, Places, apic
  <1>4. isr' = {} /\ "yield" \in Places \ {"entry"}
    BY <1>1, <1>3 DEF IInv, Acknowledged, Places
  <1>5. FrameOK(Elsewhere(Top, "yield"), boot, blocked')
          /\ Prio(Elsewhere(Top, "yield"), tpr', blocked')
    BY <1>1, <1>2, <1>3, Numbers DEF FrameOK, Prio
  <1>6. tpr' \in Vector \cup {0} /\ intr' \in BOOLEAN /\ (intr' => boot > Registered)
    BY <1>3, Numbers DEF IInv, Plain, HandlersOK
  <1> QED
    BY <1>1, <1>2, <1>3, <1>4, <1>5, <1>6, MoveStep

LEMMA TickStep == IInv /\ sched_tick => IInv'
  <1> SUFFICES ASSUME IInv, sched_tick PROVE IInv'
    OBVIOUS
  <1>1. /\ stack[cur] # <<>> /\ Top.at \in {"handler", "yield"}
        /\ Top \in Frames /\ FrameOK(Top, boot, blocked) /\ Top.vec # 0
    BY Running, Numbers DEF sched_tick, Runs, FrameOK
  <1>2. Prio(Top, tpr, blocked)
    BY <1>1 DEF IInv, TopOK
  <1>3. \/ Top.at = "handler" /\ Top.vec = INT_SCHED_TICK
        \/ Top.at = "yield"
    BY <1>1, HandlerOf DEF sched_tick, Runs
  <1>4. /\ Elsewhere(Top, "tick").at = "tick" /\ Elsewhere(Top, "tick").vec = Top.vec
        /\ stack' = [stack EXCEPT ![cur] = MoveTop(cur, "tick")]
        /\ UNCHANGED <<int_handlers, boot, irr, isr, cur, esp0, intr, tpr, blocked>>
    BY <1>1, Moved DEF sched_tick, Places, apic
  <1>5. isr' = {} /\ "tick" \in Places \ {"entry"}
    BY <1>1, <1>4 DEF IInv, Acknowledged, Places
  <1>6. FrameOK(Elsewhere(Top, "tick"), boot, blocked') /\ Prio(Elsewhere(Top, "tick"), tpr', blocked')
    BY <1>1, <1>2, <1>3, <1>4, Numbers DEF FrameOK, Prio
  <1>7. /\ tpr' \in Vector \cup {0} /\ intr' \in BOOLEAN /\ (intr' => boot > Registered)
        /\ blocked' \in 0..MaxWaits /\ blocked <= blocked'
    BY <1>4, Running DEF IInv, Plain, HandlersOK
  <1> QED
    BY <1>1, <1>4, <1>5, <1>6, <1>7, MoveStep
\* After a tick on thread t's stack its handler returns, or goes on if it was
\* waiting in a call or in a driver's interrupt.
LEMMA Resumes ==
    ASSUME NEW t, NEW b, NEW w, Good(stack[t], t, b, w), stack[t] # <<>>,
           stack[t][Len(stack[t])].at = "tick" \/ stack[t] = <<regs_init>>
    PROVE  LET r == AfterSwitch(t)
           IN  /\ Good(r, t, b, w) /\ r # <<>>
               /\ r[Len(r)].at \in {"return", "handler"} /\ Prio(r[Len(r)], INT_SCHED_TICK, w)
  <1> DEFINE s == stack[t]
             f == s[Len(s)]
             at == IF f.vec = INT_SCHED_TICK \/ f.at = "return" THEN "return" ELSE "handler"
             g == Elsewhere(f, at)
             r == [s EXCEPT ![Len(s)] = g]
  <1>1. AfterSwitch(t) = r
    BY DEF AfterSwitch, MoveTop, Elsewhere
  <1>2. s \in Seq(Frames) /\ Len(s) > 0 /\ f \in Frames /\ FrameOK(f, b, w) /\ s # <<>>
    <2>1. s \in Seq(Frames) /\ s # <<>>
      BY DEF Good
    <2>2. Len(s) \in 1..Len(s)
      BY <2>1
    <2> QED
      BY <2>1, <2>2 DEF Good
  <1>3. f.at = "tick" \/ f.at = "return"
    BY DEF regs_init
  <1>4. at \in Places /\ at \in {"return", "handler"}
    BY DEF Places
  <1>5. g \in Frames /\ g.at = at /\ g.vec = f.vec /\ g.tpr = f.tpr
    BY <1>2, <1>4, Moved
  <1>6. FrameOK(g, b, w) /\ Prio(g, INT_SCHED_TICK, w)
    <2>1. CASE f.vec = INT_SCHED_TICK \/ f.at = "return"
      BY <2>1, <1>2, <1>3, <1>5, Numbers DEF FrameOK, Prio
    <2>2. CASE ~(f.vec = INT_SCHED_TICK \/ f.at = "return")
      <3>1. f.at = "tick" /\ at = "handler" /\ f.vec \in {INT_SYSCALL, INT_KEYBOARD}
            /\ (f.vec = INT_KEYBOARD => w > 0)
        BY <2>2, <1>2, <1>3 DEF FrameOK
      <3> QED
        BY <3>1, <1>2, <1>5, Numbers, SMTT(30) DEF FrameOK, Prio
    <2> QED
      BY <2>1, <2>2
  <1> HIDE DEF g, at
  <1>7. Good(r, t, b, w) /\ Len(r) = Len(s) /\ r # <<>> /\ r[Len(s)] = g
    BY <1>2, <1>5, <1>6, GoodMove
  <1> HIDE DEF r, s
  <1> QED
    BY <1>1, <1>4, <1>5, <1>6, <1>7

\* A tick finds the acknowledged system with the priority of the tick.
LEMMA TickFacts ==
    ASSUME IInv, InTick
    PROVE  /\ stack[cur] # <<>> /\ Top.at = "tick" /\ tpr = INT_SCHED_TICK /\ isr = {}
           /\ boot > Registered
  <1>1. stack[cur] # <<>> /\ Top.at = "tick"
    BY DEF InTick
  <1>2. Prio(Top, tpr, blocked) /\ isr = {}
    BY <1>1 DEF IInv, TopOK, Acknowledged
  <1>3. FrameOK(Top, boot, blocked)
    BY <1>1, Running
  <1> QED
    BY <1>1, <1>2, <1>3, Numbers DEF Prio, FrameOK

LEMMA SameStep == IInv /\ switch_same => IInv'
  <1> SUFFICES ASSUME IInv, switch_same PROVE IInv'
    OBVIOUS
  <1> DEFINE r == AfterSwitch(cur)
  <1>1. /\ stack[cur] # <<>> /\ Top.at = "tick" /\ tpr = INT_SCHED_TICK /\ isr = {}
    BY TickFacts DEF switch_same
  <1>2. Good(stack[cur], cur, boot, blocked) /\ boot \in Nat /\ blocked \in Nat
    BY Running
  <1>3. /\ Good(r, cur, boot, blocked) /\ r # <<>>
        /\ r[Len(r)].at \in {"return", "handler"} /\ Prio(r[Len(r)], INT_SCHED_TICK, blocked)
    BY <1>1, <1>2, Resumes DEF Top
  <1>4. /\ stack' = [stack EXCEPT ![cur] = r]
        /\ UNCHANGED <<int_handlers, boot, irr, isr, tpr, intr, cur, esp0, blocked>>
    BY DEF switch_same, apic
  <1> HIDE DEF r
  <1>5. AllGood' /\ Suspended' /\ stack'[cur] = r /\ DOMAIN stack' = Context
    <2>1. /\ boot' \in Nat /\ blocked' \in Nat /\ boot <= boot' /\ blocked <= blocked'
          /\ Good(r, cur, boot', blocked')
      BY <1>2, <1>3, <1>4
    <2> QED
      BY <2>1, <1>4, OwnStack
  <1>6. stack'[cur'] # <<>> /\ Top' = r[Len(r)]
    BY <1>3, <1>4, <1>5 DEF Top
  <1>7. Plain' /\ HandlersOK'
    BY <1>1, <1>4, <1>5 DEF IInv, Plain, HandlersOK
  <1>8. TopOK' /\ Acknowledged'
    <2>1. cur \in Thread => esp0 = cur
      BY DEF IInv, TopOK
    <2> QED
      BY <2>1, <1>1, <1>3, <1>4, <1>6 DEF TopOK, Acknowledged, UserMode
  <1> QED
    BY <1>5, <1>7, <1>8 DEF IInv

LEMMA SwitchStep ==
    ASSUME IInv, NEW to \in Context, scheduler_switch(to) PROVE IInv'
  <1> DEFINE r == AfterSwitch(to)
  <1>1. /\ stack[cur] # <<>> /\ Top.at = "tick" /\ tpr = INT_SCHED_TICK /\ isr = {}
        /\ boot > Registered /\ to # cur
    BY TickFacts DEF scheduler_switch
  <1>2. /\ stack[to] # <<>> /\ Good(stack[to], to, boot, blocked)
        /\ stack[to][Len(stack[to])].at = "tick" \/ stack[to] = <<regs_init>>
    BY <1>1 DEF IInv, Suspended, AllGood
  <1>3. /\ Good(r, to, boot, blocked) /\ r # <<>>
        /\ r[Len(r)].at \in {"return", "handler"} /\ Prio(r[Len(r)], INT_SCHED_TICK, blocked)
    BY <1>2, Resumes
  <1>4. /\ stack' = [stack EXCEPT ![to] = r] /\ intr' = FALSE /\ esp0' = to /\ cur' = to
        /\ UNCHANGED <<int_handlers, boot, irr, isr, tpr, blocked>>
    BY DEF scheduler_switch, apic
  <1> HIDE DEF r
  <1>5. DOMAIN stack' = Context /\ stack'[to] = r /\ \A t \in Context \ {to} : stack'[t] = stack[t]
    BY <1>4 DEF IInv, Plain
  <1>6. AllGood'
    BY <1>3, <1>4, <1>5 DEF IInv, AllGood
  <1>7. Suspended'
    <2> SUFFICES ASSUME NEW t \in Context \ {to}
                 PROVE  /\ stack[t] # <<>>
                        /\ stack[t][Len(stack[t])].at = "tick" \/ stack[t] = <<regs_init>>
      BY <1>4, <1>5 DEF Suspended
    <2>1. CASE t = cur
      BY <2>1, <1>1 DEF Top
    <2>2. CASE t # cur
      BY <2>2 DEF IInv, Suspended
    <2> QED
      BY <2>1, <2>2
  <1>8. stack'[cur'] # <<>> /\ Top' = r[Len(r)]
    BY <1>3, <1>4, <1>5 DEF Top
  <1>9. Plain' /\ HandlersOK'
    BY <1>1, <1>4, <1>5 DEF IInv, Plain, HandlersOK
  <1>10. TopOK' /\ Acknowledged'
    BY <1>1, <1>3, <1>4, <1>8 DEF TopOK, Acknowledged, UserMode
  <1> QED
    BY <1>6, <1>7, <1>9, <1>10 DEF IInv
\* A handler returns to what it interrupted, under that one's priority.
LEMMA ExitStep == IInv /\ isr_exit => IInv'
  <1> SUFFICES ASSUME IInv, isr_exit PROVE IInv'
    OBVIOUS
  <1> DEFINE s == stack[cur]
             n == Len(s)
             r == SubSeq(s, 1, n - 1)
  <1>1. /\ s # <<>> /\ Top.at # "entry" /\ Top.intr /\ Top.tpr \in Vector \cup {0}
        /\ FrameOK(Top, boot, blocked) /\ Good(s, cur, boot, blocked)
        /\ boot \in Nat /\ blocked \in Nat /\ n \in Nat /\ n > 0 /\ Top = s[n]
    BY Running DEF isr_exit, Done, Top
  <1>2. /\ stack' = [stack EXCEPT ![cur] = r] /\ tpr' = Top.tpr /\ intr' = TRUE
        /\ UNCHANGED <<int_handlers, boot, irr, isr, cur, esp0, blocked>>
    <2>1. Top.intr = TRUE
      BY Running, <1>1 DEF Frames
    <2> QED
      BY <2>1 DEF isr_exit, apic
  <1>3. isr = {}
    BY <1>1 DEF IInv, Acknowledged
  <1>4. Good(r, cur, boot, blocked) /\ Len(r) = n - 1 /\ \A i \in 1..(n - 1) : r[i] = s[i]
    BY <1>1, GoodPop
  <1>5. boot > Registered
    BY <1>1 DEF IInv, HandlersOK
  <1>6. ASSUME r # <<>>
        PROVE  /\ r[Len(r)].at # "entry" /\ Prio(r[Len(r)], Top.tpr, blocked)
    <2>1. n - 1 \in 1..(n - 1) /\ (n - 1) + 1 = n
      BY <1>6, <1>1, <1>4 DEF Good
    <2>2. Adj(s[n - 1], s[n], blocked)
      BY <2>1, <1>1 DEF Good
    <2> QED
      BY <2>1, <2>2, <1>1, <1>4 DEF Adj, Prio
  <1> HIDE DEF r, s, n
  <1>7. ASSUME r = <<>>, cur \in Thread PROVE Top.tpr = 0
    <2>0. Len(r) = 0
      BY <1>7
    <2>1. n = 1
      BY <2>0, <1>1, <1>4
    <2> QED
      BY <2>1, <1>1, <1>7 DEF Good
  <1>8. AllGood' /\ Suspended' /\ stack'[cur] = r /\ DOMAIN stack' = Context
    <2>1. /\ boot' \in Nat /\ blocked' \in Nat /\ boot <= boot' /\ blocked <= blocked'
          /\ Good(r, cur, boot', blocked')
      BY <1>1, <1>2, <1>4
    <2> QED
      BY <2>1, <1>2, OwnStack
  <1>9. stack'[cur'] = r /\ Top' = r[Len(r)]
    BY <1>2, <1>8 DEF Top
  <1>10. Plain' /\ HandlersOK'
    BY <1>1, <1>2, <1>5, <1>8 DEF IInv, Plain, HandlersOK
  <1>11. TopOK'
    <2>1. cur \in Thread => esp0 = cur
      BY DEF IInv, TopOK
    <2> QED
      BY <2>1, <1>2, <1>6, <1>7, <1>9 DEF TopOK, UserMode
  <1>12. Acknowledged'
    BY <1>2, <1>3, <1>6, <1>9 DEF Acknowledged
  <1> QED
    BY <1>8, <1>10, <1>11, <1>12 DEF IInv

\* The spurious interrupt lies on the call that was about to wait.
LEMMA SpuriousStep == IInv /\ SpuriousYield => IInv'
  <1> SUFFICES ASSUME IInv, SpuriousYield PROVE IInv'
    OBVIOUS
  <1> DEFINE s == stack[cur]
             g == Elsewhere(Top, "yield")
             m == [s EXCEPT ![Len(s)] = g]
             f == Frame(INT_SPURIOUS, INT_SCHED_TICK)
             r == Append(m, f)
  <1>1. /\ s # <<>> /\ Top.at = "handler" /\ intr
        /\ Top \in Frames /\ FrameOK(Top, boot, blocked) /\ Top.vec # 0
        /\ Good(s, cur, boot, blocked) /\ boot \in Nat /\ blocked \in Nat
    BY Running DEF SpuriousYield, Runs, FrameOK
  <1>2. Top.vec = INT_SYSCALL /\ boot > Registered
    BY <1>1, HandlerOf DEF SpuriousYield, Runs
  <1>3. g \in Frames /\ g.at = "yield" /\ g.vec = Top.vec /\ g.tpr = Top.tpr
    BY <1>1, Moved DEF Places
  <1>4. FrameOK(g, boot, blocked)
    BY <1>1, <1>2, <1>3, Numbers DEF FrameOK
  <1>5. f \in Frames /\ f.vec = INT_SPURIOUS /\ f.tpr = INT_SCHED_TICK /\ f.at = "entry"
    <2>1. INT_SPURIOUS \in Vector /\ INT_SCHED_TICK \in Vector /\ intr = TRUE
      BY <1>1, Numbers DEF IInv, Plain
    <2> QED
      BY <2>1 DEF Frame, Frames, Places
  <1>6. FrameOK(f, boot, blocked) /\ Adj(g, f, blocked)
    BY <1>2, <1>3, <1>5, Numbers DEF FrameOK, Adj, Prio
  <1>7. /\ stack' = [stack EXCEPT ![cur] = r] /\ tpr' = INT_SCHED_TICK /\ intr' = FALSE
        /\ UNCHANGED <<int_handlers, boot, irr, isr, cur, esp0, blocked>>
    BY DEF SpuriousYield, MoveTop, Elsewhere, Top, apic
  <1>8. isr = {}
    BY <1>1 DEF IInv, Acknowledged
  <1>9. g.vec = s[Len(s)].vec /\ g.tpr = s[Len(s)].tpr
    BY <1>3 DEF Top
  <1> HIDE DEF s, g, f
  <1>10. Good(m, cur, boot, blocked) /\ Len(m) = Len(s) /\ m # <<>> /\ m[Len(s)] = g
    BY <1>1, <1>3, <1>4, <1>9, GoodMove
  <1> HIDE DEF m
  <1>11. Good(r, cur, boot, blocked)
    BY <1>5, <1>6, <1>10, GoodPush
  <1>12. r # <<>> /\ r[Len(r)] = f
    BY <1>5, <1>10 DEF Good
  <1> HIDE DEF r
  <1>13. AllGood' /\ Suspended' /\ stack'[cur] = r /\ DOMAIN stack' = Context
    <2>1. /\ boot' \in Nat /\ blocked' \in Nat /\ boot <= boot' /\ blocked <= blocked'
          /\ Good(r, cur, boot', blocked')
      BY <1>1, <1>7, <1>11
    <2> QED
      BY <2>1, <1>7, OwnStack
  <1>14. stack'[cur'] # <<>> /\ Top' = f
    BY <1>7, <1>12, <1>13 DEF Top
  <1>15. Plain' /\ HandlersOK'
    BY <1>2, <1>7, <1>13, Numbers, ZenonT(60) DEF IInv, Plain, HandlersOK
  <1>16. TopOK'
    <2>1. cur \in Thread => esp0 = cur
      BY DEF IInv, TopOK
    <2> QED
      BY <2>1, <1>5, <1>7, <1>14 DEF TopOK, UserMode
  <1>17. Acknowledged'
    <2>1. {INT_SPURIOUS} \cap Device = {}
      BY Numbers
    <2> QED
      BY <2>1, <1>5, <1>7, <1>8, <1>14 DEF Acknowledged
  <1> QED
    BY <1>13, <1>15, <1>16, <1>17 DEF IInv

LEMMA Inductive == IInv /\ [Next]_vars => IInv'
  <1> SUFFICES ASSUME IInv, [Next]_vars PROVE IInv'
    OBVIOUS
  <1>1. CASE Boot
    BY <1>1, BootStep
  <1>2. CASE irq_handler
    BY <1>2, DispatchStep
  <1>3. CASE sched_tick
    BY <1>3, TickStep
  <1>4. CASE Switch
    BY <1>4, SameStep, SwitchStep DEF Switch
  <1>5. CASE \E v \in Device : Request(v) \/ Interrupt(v)
    BY <1>5, QuietStep, InterruptStep
  <1>6. CASE SystemCall \/ PageFault
    BY <1>6, InterruptStep
  <1>7. CASE driver_register
    BY <1>7, QuietStep
  <1>8. CASE sched_yield \/ SpuriousYield
    BY <1>8, YieldStep, SpuriousStep
  <1>9. CASE isr_exit
    BY <1>9, ExitStep
  <1>10. CASE UNCHANGED vars
    BY <1>10 DEF vars, IInv, Plain, AllGood, HandlersOK, TopOK, Acknowledged, Suspended, UserMode, Top
  <1> QED
    BY <1>1, <1>2, <1>3, <1>4, <1>5, <1>6, <1>7, <1>8, <1>9, <1>10 DEF Next
-----------------------------------------------------------------------------
(* The theorems                                                            *)

LEMMA Always == Spec => []IInv
  <1>1. Init => IInv
    BY Start
  <1>2. IInv /\ [Next]_vars => IInv'
    BY Inductive
  <1> QED
    BY <1>1, <1>2, PTL DEF Spec

\* A stack whose owner is sound has frames of the declared form.
LEMMA GoodTypes ==
    ASSUME IInv, NEW t \in Context
    PROVE  /\ \A i \in 1..Len(stack[t]) : stack[t][i] \in Frames
           /\ \A i \in 1..Len(stack[t]) :
                stack[t][i] \in [vec : Vector \cup {0}, tpr : Vector \cup {0}, intr : BOOLEAN, at :
                  Places]
           /\ \A i \in 1..Len(stack[t]) : FrameOK(stack[t][i], boot, blocked)
  <1>1. Good(stack[t], t, boot, blocked)
    BY DEF IInv, AllGood
  <1>2. \A i \in 1..Len(stack[t]) : stack[t][i] \in Frames
    BY <1>1 DEF Good
  <1>3. \A f \in Frames :
          f \in [vec : Vector \cup {0}, tpr : Vector \cup {0}, intr : BOOLEAN, at : Places]
    BY DEF Frames
  <1> QED
    BY <1>1, <1>2, <1>3 DEF Good

\* Whatever interrupts, faults, system calls, waits and thread switches happen,
\* in whatever order: a program runs with interrupts open and the TSS naming its
\* own empty stack, so that isr.s overwrites no frame; every other thread is in
\* the middle of scheduler_switch or waits for its first start; and a thread
\* that halts after a fault lets the tick through.
THEOREM StacksAreSound == Spec => []StacksSound
  <1>1. IInv => StacksSound
    <2> SUFFICES ASSUME IInv PROVE StacksSound
      OBVIOUS
    <2>1. TypeOK
      BY GoodTypes DEF TypeOK, IInv, Plain, Handlers, Places
    <2>2. UserModeSound
      BY DEF UserModeSound, IInv, TopOK, Acknowledged, UserMode
    <2>3. HaltedOpen
      <3> SUFFICES ASSUME stack[cur] # <<>>, Top.at = "halt"
                   PROVE  intr /\ Class(tpr) < Class(INT_SCHED_TICK)
        BY DEF HaltedOpen
      <3>1. intr /\ tpr = PAGE_FAULT
        BY DEF IInv, TopOK, Prio
      <3> QED
        BY <3>1, Numbers
    <2> QED
      BY <2>1, <2>2, <2>3 DEF StacksSound, IInv
  <1> QED
    BY <1>1, Always, PTL

\* irq_handler acknowledges exactly the interrupt it is about to handle, and
\* every interrupt finds its handler registered: nothing but a fault comes to
\* unhandled_interrupt_handler, from the first moment interrupts are enabled.
THEOREM EoiIsSound == Spec => []EoiSound
  <1>1. IInv => EoiSound
    BY GoodTypes DEF IInv, Acknowledged, EoiSound, FrameOK
  <1> QED
    BY <1>1, Always, PTL

\* If no handler of a driver ever waited, frame g on frame f has a higher
\* priority: only a device on the tick, and nothing on a device.
LEMMA NestingOrder ==
    ASSUME NEW f \in Frames, NEW g \in Frames, NEW b, FrameOK(f, b, 0), Adj(f, g, 0)
    PROVE  /\ g.vec \in Device \cup {INT_SPURIOUS}
           /\ g.vec = INT_SPURIOUS => f.vec = INT_SYSCALL /\ f.at = "yield"
           /\ f.vec \in {INT_RTC, INT_KEYBOARD} => FALSE
           /\ f.vec = INT_SCHED_TICK \/ f.at = "tick" => g.vec \in {INT_RTC, INT_KEYBOARD}
  <1>1. f.at \in Places /\ f.at # "entry" /\ Prio(f, g.tpr, 0)
    BY DEF Frames, Adj, Prio
  <1>2. CASE g.vec = INT_SPURIOUS /\ f.at = "yield" /\ f.vec = INT_SYSCALL
    BY <1>2, Numbers
  <1>3. CASE g.vec \in Device /\ Class(g.vec) > Class(g.tpr)
    <2>1. f.vec \in {INT_RTC, INT_KEYBOARD} => g.tpr = f.vec
      BY <1>1, Numbers DEF Prio, FrameOK, Places
    <2>2. f.vec = INT_SCHED_TICK \/ f.at = "tick" => g.tpr = INT_SCHED_TICK
      BY <1>1, Numbers DEF Prio, FrameOK, Places
    <2>3. g.vec \in {128, 211, 218}
      BY <1>3, Numbers
    <2> QED
      BY <2>1, <2>2, <2>3, <1>3, Numbers
  <1> QED
    BY <1>2, <1>3 DEF Adj

\* As long as no driver's handler waits for room in its stream, four frames are
\* enough for a kernel stack (irq_handler sets the priority before sti), and no
\* thread is ever in two ticks, which would ready it twice.
THEOREM NestingIsBounded == Spec => []NestingBounded
  <1>1. IInv => NestingBounded
    <2> SUFFICES ASSUME IInv, blocked = 0, NEW t \in Context
                 PROVE  /\ Len(stack[t]) <= 4
                        /\ Cardinality({i \in 1..Len(stack[t]) : stack[t][i].at = "tick"}) <= 1
      BY DEF NestingBounded
    <2> DEFINE s == stack[t]
               n == Len(s)
               Ticks == {i \in 1..n : s[i].at = "tick"}
    <2>1. Good(s, t, boot, 0) /\ n \in Nat
      BY DEF IInv, AllGood, Good
    <2>2. ASSUME NEW i \in 1..n PROVE s[i] \in Frames /\ FrameOK(s[i], boot, 0)
      BY GoodTypes
    <2>3. ASSUME NEW i \in 1..n, i < n
          PROVE  /\ s[i + 1].vec \in Device \cup {INT_SPURIOUS}
                 /\ s[i + 1].vec = INT_SPURIOUS => s[i].vec = INT_SYSCALL /\ s[i].at = "yield"
                 /\ s[i].vec \notin {INT_RTC, INT_KEYBOARD}
                 /\ s[i].vec = INT_SCHED_TICK \/ s[i].at = "tick" =>
                      s[i + 1].vec \in {INT_RTC, INT_KEYBOARD}
      <3>1. i \in 1..(n - 1) /\ i + 1 \in 1..n
        BY <2>1, <2>3
      <3>2. Adj(s[i], s[i + 1], 0)
        BY <3>1, <2>1 DEF Good
      <3> QED
        BY <3>1, <3>2, <2>2, NestingOrder
    <2> HIDE DEF s, n
    <2>4. n <= 4
      <3> SUFFICES ASSUME n > 4 PROVE FALSE
        BY <2>1
      <3>1. 1 \in 1..n /\ 2 \in 1..n /\ 3 \in 1..n /\ 4 \in 1..n /\ 1 < n /\ 2 < n /\ 3 < n /\ 4 < n
        BY <2>1
      <3>2. s[2].vec \in Device \cup {INT_SPURIOUS} /\ s[2].vec # INT_SYSCALL
        BY <3>1, <2>3, Numbers
      <3>3. s[3].vec \in Device \cup {INT_SPURIOUS} /\ s[3].vec # INT_SPURIOUS
        BY <3>1, <3>2, <2>3
      <3>4. s[3].vec = INT_SCHED_TICK
        BY <3>1, <3>3, <2>3, Numbers
      <3>5. s[4].vec \in {INT_RTC, INT_KEYBOARD}
        BY <3>1, <3>4, <2>3
      <3> QED
        BY <3>1, <3>5, <2>3
    <2>5. ASSUME NEW i \in Ticks, NEW j \in Ticks, i < j PROVE FALSE
      <3>1. i \in 1..n /\ j \in 1..n /\ i < n /\ i + 1 \in 1..n
        BY <2>1, <2>5
      <3>2. s[i + 1].vec \in {INT_RTC, INT_KEYBOARD}
        BY <3>1, <2>3
      <3>3. ~(i + 1 < n)
        BY <3>1, <3>2, <2>3
      <3>4. j = i + 1
        BY <3>1, <3>3, <2>1, <2>5
      <3>5. s[j].at = "tick" /\ FrameOK(s[j], boot, 0) /\ s[j].vec \in {INT_RTC, INT_KEYBOARD}
        BY <3>1, <3>2, <3>4, <2>2
      <3> QED
        BY <3>5, Numbers DEF FrameOK
    <2>6. Cardinality(Ticks) <= 1
      <3>0. Ticks \subseteq Int /\ \A i, j \in Ticks : ~(i < j)
        BY <2>5, <2>1
      <3> HIDE DEF Ticks
      <3>1. CASE Ticks = {}
        <4>1. Cardinality(Ticks) = 0
          BY <3>1, FS_EmptySet
        <4> QED
          BY <4>1
      <3>2. CASE Ticks # {}
        <4>1. PICK x \in Ticks : TRUE
          BY <3>2
        <4>2. Ticks = {x}
          <5>1. \A y \in Ticks : y = x
            BY <4>1, <3>0
          <5> QED
            BY <4>1, <5>1
        <4> QED
          <5>1. Cardinality(Ticks) = 1
            BY <4>2, FS_Singleton
          <5> QED
            BY <5>1
      <3> QED
        BY <3>1, <3>2
    <2> QED
      BY <2>4, <2>6 DEF s, n, Ticks
  <1> QED
    BY <1>1, Always, PTL
-----------------------------------------------------------------------------
(* The table of names (module Names).                                     *)

\* The table holds what has been copied.
CopiedRight ==
    /\ DOMAIN name = N!Proc /\ DOMAIN copied = N!Proc
    /\ \A p \in N!Proc : DOMAIN name[p] = 1..PROC_MAX_NAME_LEN
    /\ \A p \in N!Proc : copied[p] \in 0..(Len(Name[p]) + 1)
    /\ \A p \in N!Proc, b \in 1..PROC_MAX_NAME_LEN : b <= copied[p] => name[p][b] = N!Byte(Name[p], b)
    /\ \A p \in before : p \in N!Proc /\ N!Complete(p)

\* In the name of a process that had registered, the bytes before k are equal,
\* and the loop has ended on different bytes or at the end.
Compared ==
    lookup_pc \in {"compare", "last"} =>
      /\ tried \in N!Proc /\ answer = 0 /\ compared \in 1..(Len(str1) + 1)
      /\ \A p \in before : p < tried => Name[p] # str1
      /\ tried \in before => /\ \A b \in 1..(compared - 1) : N!Byte(Name[tried], b) = str1[b]
                             /\ lookup_pc = "last"
                                  => N!Byte(str1, compared) # N!Byte(Name[tried], compared)
                                    \/ N!Byte(str1, compared) = 0

\* The inductive invariant of module Names.
NamesInv == N!TypeOK /\ CopiedRight /\ Compared /\ N!NeverMissed /\ N!SettledLookup

\* What its constants satisfy.
LEMMA NameFacts ==
    /\ NPROC \in Nat \ {0} /\ PROC_MAX_NAME_LEN \in Nat
    /\ \A p \in N!Proc : /\ p \in Nat /\ p # 0 /\ p <= NPROC
                         /\ Name[p] \in Seq(Nat \ {0}) /\ Len(Name[p]) \in Nat
                         /\ Len(Name[p]) < PROC_MAX_NAME_LEN
    /\ \A n \in Wanted : n \in Seq(Nat \ {0}) /\ Len(n) \in Nat /\ Len(n) < PROC_MAX_NAME_LEN
    /\ 1 \in N!Proc
  BY PartsAssumption DEF N!Proc, N!NamesAssumption

\* The bytes of a name and the one behind it.
LEMMA NameBytes ==
    ASSUME NEW s \in Seq(Nat \ {0})
    PROVE  /\ \A b \in 1..Len(s) : N!Byte(s, b) = s[b] /\ N!Byte(s, b) # 0
           /\ N!Byte(s, Len(s) + 1) = 0
           /\ \A b \in 1..(Len(s) + 1) : N!Byte(s, b) = 0 => b = Len(s) + 1
  <1>1. Len(s) \in Nat /\ \A b \in 1..Len(s) : s[b] \in Nat \ {0}
    OBVIOUS
  <1> QED
    BY <1>1 DEF N!Byte

\* Names that agree up to and including the 0 are the same.
LEMMA SameName ==
    ASSUME NEW s \in Seq(Nat \ {0}), NEW r \in Seq(Nat \ {0}),
           \A b \in 1..Len(s) : N!Byte(r, b) = s[b], N!Byte(r, Len(s) + 1) = 0
    PROVE  r = s
  <1>1. Len(s) \in Nat /\ Len(r) \in Nat
    OBVIOUS
  <1>2. Len(r) <= Len(s)
    <2> SUFFICES ASSUME Len(s) < Len(r) PROVE FALSE
      BY <1>1
    <2>1. Len(s) + 1 \in 1..Len(r)
      BY <1>1
    <2> QED
      BY <2>1, NameBytes
  <1>3. Len(s) <= Len(r)
    <2> SUFFICES ASSUME Len(r) < Len(s) PROVE FALSE
      BY <1>1
    <2>1. Len(r) + 1 \in 1..Len(s)
      BY <1>1
    <2>2. s[Len(r) + 1] \in Nat \ {0}
      BY <2>1
    <2> QED
      BY <2>1, <2>2, NameBytes
  <1>4. Len(r) = Len(s)
    BY <1>1, <1>2, <1>3
  <1>5. \A b \in 1..Len(s) : r[b] = s[b]
    <2> SUFFICES ASSUME NEW b \in 1..Len(s) PROVE r[b] = s[b]
      OBVIOUS
    <2>1. N!Byte(r, b) = r[b]
      BY <1>4 DEF N!Byte
    <2> QED
      BY <2>1
  <1> QED
    BY <1>4, <1>5, SeqEqual

LEMMA NamesInit == N!Init => NamesInv
  <1> SUFFICES ASSUME N!Init PROVE NamesInv
    OBVIOUS
  <1> USE NameFacts
  <1>1. N!TypeOK
    BY DEF N!Init, N!TypeOK, N!Proc
  <1>2. CopiedRight
    BY DEF N!Init, CopiedRight
  <1> QED
    BY <1>1, <1>2 DEF N!Init, NamesInv, Compared, N!NeverMissed, N!SettledLookup, N!Answered

\* kstrncpy stores one more byte of a name.
LEMMA CopyInv ==
    ASSUME NamesInv, NEW p \in N!Proc, N!kstrncpy(p)
    PROVE  NamesInv'
  <1> USE NameFacts
  <1>1. UNCHANGED <<lookup_pc, str1, tried, compared, answer, before>>
    BY DEF N!kstrncpy, N!lookup
  <1>2. copied[p] \in Nat /\ copied[p] <= Len(Name[p]) /\ copied[p] + 1 \in 1..PROC_MAX_NAME_LEN
        /\ copied[p] + 1 \in 0..(Len(Name[p]) + 1)
    <2>1. copied[p] \in 0..(Len(Name[p]) + 1) /\ copied[p] # Len(Name[p]) + 1
      BY DEF NamesInv, CopiedRight, N!kstrncpy, N!Complete
    <2> QED
      BY <2>1
  <1>3. DOMAIN copied' = N!Proc /\ \A q \in N!Proc : copied'[q] = IF q = p
          THEN copied[p] + 1 ELSE copied[q]
    BY DEF N!kstrncpy, NamesInv, CopiedRight
  <1>4. /\ DOMAIN name' = N!Proc
        /\ \A q \in N!Proc : /\ DOMAIN name'[q] = 1..PROC_MAX_NAME_LEN
                             /\ \A b \in 1..PROC_MAX_NAME_LEN :
                                  name'[q][b] = IF q = p /\ b = copied[p] + 1
                                    THEN N!Byte(Name[p], b) ELSE name[q][b]
    BY <1>2 DEF N!kstrncpy, NamesInv, CopiedRight
  <1>5. p \notin before /\ before \subseteq N!Proc
    BY DEF NamesInv, CopiedRight, N!kstrncpy
  <1>6. CopiedRight'
    <2>1. \A q \in N!Proc : copied'[q] \in 0..(Len(Name[q]) + 1)
      BY <1>2, <1>3 DEF NamesInv, CopiedRight
    <2>2. \A q \in before : q \in N!Proc /\ N!Complete(q)'
      BY <1>3, <1>5 DEF NamesInv, CopiedRight, N!Complete
    <2>3. \A q \in N!Proc, b \in 1..PROC_MAX_NAME_LEN : b <= copied'[q]
            => name'[q][b] = N!Byte(Name[q], b)
      <3> SUFFICES ASSUME NEW q \in N!Proc, NEW b \in 1..PROC_MAX_NAME_LEN, b <= copied'[q]
                   PROVE  name'[q][b] = N!Byte(Name[q], b)
        OBVIOUS
      <3>1. CASE q = p /\ b = copied[p] + 1
        BY <1>4, <3>1
      <3>2. CASE ~(q = p /\ b = copied[p] + 1)
        <4>1. name'[q][b] = name[q][b]
          BY <1>4, <3>2
        <4>2. b <= copied[q]
          BY <1>2, <1>3, <3>2
        <4> QED
          BY <4>1, <4>2 DEF NamesInv, CopiedRight
      <3> QED
        BY <3>1, <3>2
    <2> QED
      BY <1>1, <1>3, <1>4, <2>1, <2>2, <2>3 DEF CopiedRight
  <1>7. N!TypeOK'
    BY <1>1, <1>2, <1>3 DEF NamesInv, N!TypeOK
  <1> QED
    BY <1>1, <1>6, <1>7 DEF NamesInv, Compared, N!NeverMissed, N!SettledLookup, N!Answered

\* A lookup begins; the names that are complete by then are remembered.
LEMMA LookupInv == NamesInv /\ N!StartLookup => NamesInv'
  <1> SUFFICES ASSUME NamesInv, N!StartLookup PROVE NamesInv'
    OBVIOUS
  <1> USE NameFacts
  <1>1. /\ lookup_pc' = "compare" /\ tried' = 1 /\ compared' = 1 /\ answer' = 0
             /\ before' = {p \in N!Proc : N!Complete(p)}
        /\ UNCHANGED <<name, copied>> /\ str1' \in Wanted
    BY DEF N!StartLookup
  <1>2. N!TypeOK'
    BY <1>1 DEF NamesInv, N!TypeOK, N!Proc
  <1>3. CopiedRight'
    <2>1. \A p \in before' : p \in N!Proc /\ N!Complete(p)'
      BY <1>1 DEF N!Complete
    <2> QED
      BY <1>1, <2>1 DEF NamesInv, CopiedRight
  <1>4. Compared'
    <2>1. \A p \in before' : ~(p < 1)
      BY <1>1
    <2>2. Len(str1') \in Nat
      BY <1>1
    <2> QED
      BY <1>1, <2>1, <2>2 DEF Compared
  <1> QED
    BY <1>1, <1>2, <1>3, <1>4 DEF NamesInv, N!NeverMissed, N!SettledLookup, N!Answered

\* What the comparison reads of a name that was complete.
LEMMA ReadsName ==
    ASSUME NamesInv, tried \in before, lookup_pc \in {"compare", "last"}
    PROVE  name[tried][compared] = N!Byte(Name[tried], compared) \/ compared > Len(Name[tried]) + 1
  <1>1. tried \in N!Proc /\ copied[tried] = Len(Name[tried]) + 1 /\ compared \in 1..PROC_MAX_NAME_LEN
    BY DEF NamesInv, CopiedRight, N!Complete, N!TypeOK
  <1> QED
    BY <1>1, NameFacts DEF NamesInv, CopiedRight

\* It does not go behind the end of such a name.
LEMMA StaysInside ==
    ASSUME NamesInv, tried \in before, lookup_pc \in {"compare", "last"}
    PROVE  compared <= Len(Name[tried]) + 1 /\ name[tried][compared] = N!Byte(Name[tried], compared)
  <1> USE NameFacts
  <1>1. tried \in N!Proc /\ compared \in 1..(Len(str1) + 1) /\ str1 \in Wanted
          /\ \A b \in 1..(compared - 1) : N!Byte(Name[tried], b) = str1[b]
    BY DEF NamesInv, N!TypeOK, CopiedRight, Compared
  <1>2. Name[tried] \in Seq(Nat \ {0}) /\ str1 \in Seq(Nat \ {0}) /\ Len(Name[tried]) \in Nat
          /\ Len(str1) \in Nat
    BY <1>1
  <1>3. ~(compared > Len(Name[tried]) + 1)
    <2> SUFFICES ASSUME compared > Len(Name[tried]) + 1 PROVE FALSE
      OBVIOUS
    <2>1. Len(Name[tried]) + 1 \in 1..(compared - 1) /\ Len(Name[tried]) + 1 \in 1..Len(str1)
      BY <1>1, <1>2
    <2>2. N!Byte(Name[tried], Len(Name[tried]) + 1) = 0
      BY <1>2, NameBytes
    <2>3. str1[Len(Name[tried]) + 1] \in Nat \ {0}
      BY <1>2, <2>1
    <2> QED
      BY <1>1, <2>1, <2>2, <2>3
  <1>4. compared <= Len(Name[tried]) + 1
    BY <1>1, <1>2, <1>3
  <1> QED
    BY <1>3, <1>4, ReadsName

\* kstrcmp compares one more byte, or ends its loop on it.
LEMMA CompareInv == NamesInv /\ N!Compare => NamesInv'
  <1> SUFFICES ASSUME NamesInv, N!Compare PROVE NamesInv'
    OBVIOUS
  <1> USE NameFacts
  <1>1. lookup_pc = "compare" /\ UNCHANGED <<name, copied, str1, tried, answer, before>>
    BY DEF N!Compare
  <1>2. /\ tried \in N!Proc /\ answer = 0 /\ compared \in 1..(Len(str1) + 1) /\ str1 \in Wanted
        /\ \A p \in before : p < tried => Name[p] # str1
        /\ tried \in before => \A b \in 1..(compared - 1) : N!Byte(Name[tried], b) = str1[b]
    BY <1>1 DEF NamesInv, Compared, N!TypeOK
  <1>3. str1 \in Seq(Nat \ {0}) /\ Len(str1) \in Nat /\ Len(str1) < PROC_MAX_NAME_LEN
    BY <1>2
  <1>4. CopiedRight'
    BY <1>1 DEF NamesInv, CopiedRight, N!Complete
  <1>5. CASE N!Byte(str1, compared) = name[tried][compared] /\ N!Byte(str1, compared) # 0
    <2>1. compared' = compared + 1 /\ lookup_pc' = "compare"
      BY <1>1, <1>5 DEF N!Compare
    <2>2. compared \in 1..Len(str1) /\ N!Byte(str1, compared) = str1[compared]
      BY <1>2, <1>3, <1>5, NameBytes
    <2>3. compared' \in 1..(Len(str1) + 1) /\ compared' \in 1..PROC_MAX_NAME_LEN
      BY <1>3, <2>1, <2>2
    <2>4. ASSUME tried \in before, NEW b \in 1..(compared' - 1) PROVE N!Byte(Name[tried], b) = str1[b]
      <3>1. b \in 1..(compared - 1) \/ b = compared
        BY <2>1, <2>2
      <3>2. N!Byte(Name[tried], compared) = str1[compared]
        BY <1>1, <1>5, <2>2, <2>4, StaysInside
      <3> QED
        BY <1>2, <2>4, <3>1, <3>2
    <2>5. Compared'
      BY <1>1, <1>2, <2>1, <2>3, <2>4 DEF Compared
    <2>6. N!TypeOK'
      BY <1>1, <2>1, <2>3 DEF NamesInv, N!TypeOK
    <2> QED
      BY <1>1, <1>4, <2>1, <2>5, <2>6 DEF NamesInv, N!NeverMissed, N!SettledLookup, N!Answered
  <1>6. CASE ~(N!Byte(str1, compared) = name[tried][compared] /\ N!Byte(str1, compared) # 0)
    <2>1. compared' = compared /\ lookup_pc' = "last"
      BY <1>1, <1>6 DEF N!Compare
    <2>2. tried \in before => N!Byte(str1, compared) # N!Byte(Name[tried], compared)
            \/ N!Byte(str1, compared) = 0
      BY <1>1, <1>6, StaysInside
    <2>3. Compared'
      BY <1>1, <1>2, <2>1, <2>2 DEF Compared
    <2>4. N!TypeOK'
      BY <1>1, <2>1 DEF NamesInv, N!TypeOK
    <2> QED
      BY <1>1, <1>4, <2>1, <2>3, <2>4 DEF NamesInv, N!NeverMissed, N!SettledLookup, N!Answered
  <1> QED
    BY <1>5, <1>6

\* For a name that was complete, the answer of kstrcmp is right.
LEMMA AnswerRight ==
    ASSUME NamesInv, lookup_pc = "last", tried \in before
    PROVE  N!SameAtEnd <=> Name[tried] = str1
  <1> USE NameFacts
  <1>1. tried \in N!Proc /\ compared \in 1..(Len(str1) + 1) /\ str1 \in Wanted
        /\ (\A b \in 1..(compared - 1) : N!Byte(Name[tried], b) = str1[b])
        /\ (N!Byte(str1, compared) # N!Byte(Name[tried], compared) \/ N!Byte(str1, compared) = 0)
    BY DEF NamesInv, N!TypeOK, CopiedRight, Compared
  <1>2. Name[tried] \in Seq(Nat \ {0}) /\ str1 \in Seq(Nat \ {0}) /\ Len(str1) \in Nat
    BY <1>1
  <1>3. N!SameAtEnd <=> N!Byte(str1, compared) = N!Byte(Name[tried], compared)
    BY StaysInside DEF N!SameAtEnd
  <1>4. ASSUME N!SameAtEnd PROVE Name[tried] = str1
    <2>1. N!Byte(str1, compared) = 0 /\ N!Byte(Name[tried], compared) = 0
      BY <1>1, <1>3, <1>4
    <2>2. compared = Len(str1) + 1
      BY <1>1, <1>2, <2>1, NameBytes
    <2>3. \A b \in 1..Len(str1) : N!Byte(Name[tried], b) = str1[b]
      BY <1>1, <1>2, <2>2
    <2> QED
      BY <1>2, <2>1, <2>2, <2>3, SameName
  <1> QED
    BY <1>3, <1>4

\* kstrcmp's second look at that byte says that the names are the same.
LEMMA FoundProcessInv == NamesInv /\ N!Found => NamesInv'
  <1> SUFFICES ASSUME NamesInv, N!Found PROVE NamesInv'
    OBVIOUS
  <1> USE NameFacts
  <1>1. lookup_pc = "last" /\ N!SameAtEnd /\ answer' = tried /\ lookup_pc' = "done"
          /\ UNCHANGED <<name, copied, str1, tried, compared, before>>
    BY DEF N!Found
  <1>2. tried \in N!Proc /\ (\A p \in before : p < tried => Name[p] # str1) /\ tried # 0
    BY <1>1 DEF NamesInv, Compared
  <1>3. N!TypeOK' /\ CopiedRight' /\ Compared'
    <2>1. N!TypeOK'
      BY <1>1, <1>2 DEF NamesInv, N!TypeOK, N!Proc
    <2> QED
      BY <1>1, <2>1 DEF NamesInv, CopiedRight, N!Complete, Compared
  <1>4. N!NeverMissed'
    BY <1>1, <1>2 DEF N!NeverMissed
  <1>5. before = N!Proc => Name[tried] = str1 /\ \A p \in 1..(tried - 1) : Name[p] # str1
    <2> SUFFICES ASSUME before = N!Proc PROVE Name[tried] = str1
                          /\ \A p \in 1..(tried - 1) : Name[p] # str1
      OBVIOUS
    <2>1. Name[tried] = str1
      BY <1>1, <1>2, AnswerRight
    <2>2. \A p \in 1..(tried - 1) : p \in N!Proc /\ p < tried
      BY <1>2 DEF N!Proc
    <2> QED
      BY <1>2, <2>1, <2>2
  <1>6. N!SettledLookup'
    BY <1>1, <1>2, <1>5 DEF N!SettledLookup
  <1> QED
    BY <1>3, <1>4, <1>6 DEF NamesInv

\* It says that they differ: the next process, or none is left.
LEMMA NotThisOneInv == NamesInv /\ N!NotThisOne => NamesInv'
  <1> SUFFICES ASSUME NamesInv, N!NotThisOne PROVE NamesInv'
    OBVIOUS
  <1> USE NameFacts
  <1>1. /\ lookup_pc = "last" /\ ~N!SameAtEnd /\ tried' = tried + 1 /\ compared' = 1
        /\ lookup_pc' = IF tried >= NPROC THEN "done" ELSE "compare"
        /\ UNCHANGED <<name, copied, str1, answer, before>>
    BY DEF N!NotThisOne, N!GoOn
  <1>2. tried \in N!Proc /\ answer = 0 /\ str1 \in Wanted /\ (\A p \in before : p < tried
          => Name[p] # str1)
        /\ \A p \in before : p \in N!Proc
    BY <1>1 DEF NamesInv, Compared, N!TypeOK, CopiedRight
  <1>3. \A p \in before : p < tried + 1 => Name[p] # str1
    <2> SUFFICES ASSUME NEW p \in before, p < tried + 1 PROVE Name[p] # str1
      OBVIOUS
    <2>1. p < tried \/ p = tried
      BY <1>2
    <2> QED
      BY <1>1, <1>2, <2>1, AnswerRight
  <1>4. tried + 1 \in 1..(NPROC + 1) /\ (tried < NPROC => tried + 1 \in N!Proc) /\ tried \in Nat
    BY <1>2 DEF N!Proc
  <1>5. N!TypeOK'
    BY <1>1, <1>4 DEF NamesInv, N!TypeOK
  <1>6. CopiedRight'
    BY <1>1 DEF NamesInv, CopiedRight, N!Complete
  <1>7. Compared'
    <2>1. Len(str1) \in Nat
      BY <1>2
    <2>2. lookup_pc' \in {"compare", "last"} => tried < NPROC
      BY <1>1, <1>4
    <2> QED
      BY <1>1, <1>2, <1>3, <1>4, <2>1, <2>2 DEF Compared
  <1>8. lookup_pc' = "done" => \A p \in before : Name[p] # str1
    <2> SUFFICES ASSUME tried >= NPROC, NEW p \in before PROVE Name[p] # str1
      BY <1>1
    <2>1. p \in Nat /\ p <= NPROC
      BY <1>2
    <2>2. p < tried + 1
      BY <1>4, <2>1
    <2> QED
      BY <1>3, <2>2
  <1>9. N!NeverMissed' /\ N!SettledLookup'
    BY <1>1, <1>2, <1>8 DEF N!NeverMissed, N!SettledLookup, N!Answered
  <1> QED
    BY <1>5, <1>6, <1>7, <1>9 DEF NamesInv

\* Every step preserves the invariant.
LEMMA NamesStep == NamesInv /\ [N!Next]_N!vars => NamesInv'
  <1> SUFFICES ASSUME NamesInv, [N!Next]_N!vars PROVE NamesInv'
    OBVIOUS
  <1>1. CASE UNCHANGED N!vars
    BY <1>1 DEF N!vars, NamesInv, N!TypeOK, CopiedRight, N!Complete, Compared, N!NeverMissed,
       N!SettledLookup, N!Answered
  <1> QED
    BY <1>1, CopyInv, LookupInv, CompareInv, FoundProcessInv, NotThisOneInv DEF N!Next

\* What it says of lookups.
LEMMA LookupsOk == NamesInv => N!LookupsRight
  BY DEF NamesInv, N!LookupsRight

-----------------------------------------------------------------------------
(* The command line (module Cmdline).                                     *)

\* Nothing before the position that is tried is the word, and ksubstr has found
\* its characters up to k there.
Searched ==
    find_pc \in {"find", "substr"} =>
      /\ maximum_cpu = 0
      /\ \A j \in 1..(find_at - 1) : ~L!Occurs(j)
      /\ find_pc = "substr" => find_at <= Len(cmdline)
           /\ \A b \in 1..equal : cmdline[find_at + b - 1] = Word[b]

\* Strings.
Text == Seq(Nat \ {0})

\* The inductive invariant of the search.
SearchInv == cmdline \in Text /\ L!TypeOK /\ Searched /\ L!FirstOccurrence /\ L!NoFalseFind

\* The string that is searched is the one at the start of the page.
LineInv ==
    /\ front \in Fronts /\ line \in Cmdlines
    /\ find_pc = "map" => cmdline = <<>> /\ find_at = 1 /\ equal = 0 /\ maximum_cpu = 0
    /\ L!ReadsPage

\* What its constants satisfy.
LEMMA LineFacts ==
    /\ Word \in Seq(Nat \ {0}) /\ Len(Word) \in Nat \ {0}
    /\ \A l \in Text : l \in Seq(Nat \ {0}) /\ Len(l) \in Nat
    /\ Cmdlines \subseteq Text /\ Fronts \subseteq Seq(Nat)
  BY PartsAssumption DEF L!CmdlineAssumption, Text

\* The characters of a string are not 0, and the byte behind them is.
LEMMA StringBytes ==
    ASSUME NEW s \in Seq(Nat \ {0})
    PROVE  /\ \A b \in 1..Len(s) : L!Byte(s, b) = s[b] /\ L!Byte(s, b) # 0
           /\ L!Byte(s, Len(s) + 1) = 0
           /\ \A b \in 1..(Len(s) + 1) : L!Byte(s, b) = 0 => b = Len(s) + 1
  <1>1. Len(s) \in Nat /\ \A b \in 1..Len(s) : s[b] \in Nat \ {0}
    OBVIOUS
  <1> QED
    BY <1>1 DEF L!Byte

\* The word occurs where its characters are.
LEMMA OccursByBytes ==
    ASSUME cmdline \in Text, NEW j \in Nat \ {0}
    PROVE  L!Occurs(j) <=> /\ j + Len(Word) - 1 <= Len(cmdline)
                           /\ \A b \in 1..Len(Word) : cmdline[j + b - 1] = Word[b]
  <1>1. /\ cmdline \in Seq(Nat \ {0}) /\ Len(cmdline) \in Nat
        /\ Word \in Seq(Nat \ {0}) /\ Len(Word) \in Nat \ {0}
    BY LineFacts
  <1> SUFFICES ASSUME j + Len(Word) - 1 <= Len(cmdline)
               PROVE  SubSeq(cmdline, j, j + Len(Word) - 1) = Word
                        <=> \A b \in 1..Len(Word) : cmdline[j + b - 1] = Word[b]
    BY <1>1 DEF L!Occurs
  <1>2. \A b \in j..(j + Len(Word) - 1) : cmdline[b] \in Nat \ {0}
    BY <1>1
  <1>3. j \in Int /\ j + Len(Word) - 1 \in Int
    BY <1>1
  <1>4. /\ SubSeq(cmdline, j, j + Len(Word) - 1) \in Seq(Nat \ {0})
        /\ Len(SubSeq(cmdline, j, j + Len(Word) - 1)) = Len(Word)
        /\ \A b \in 1..Len(Word) : SubSeq(cmdline, j, j + Len(Word) - 1)[b] = cmdline[j + b - 1]
    <2>1. /\ SubSeq(cmdline, j, j + Len(Word) - 1) \in Seq(Nat \ {0})
          /\ Len(SubSeq(cmdline, j, j + Len(Word) - 1))
               = IF j <= j + Len(Word) - 1 THEN (j + Len(Word) - 1) - j + 1 ELSE 0
          /\ \A b \in 1..((j + Len(Word) - 1) - j + 1) :
               SubSeq(cmdline, j, j + Len(Word) - 1)[b] = cmdline[j + b - 1]
      BY <1>2, <1>3, SubSeqProperties
    <2>2. j <= j + Len(Word) - 1 /\ (j + Len(Word) - 1) - j + 1 = Len(Word)
      BY <1>1
    <2> QED
      BY <2>1, <2>2
  <1>5. ASSUME \A b \in 1..Len(Word) : cmdline[j + b - 1] = Word[b]
        PROVE  SubSeq(cmdline, j, j + Len(Word) - 1) = Word
    <2>1. \A b \in 1..Len(SubSeq(cmdline, j, j + Len(Word) - 1)) :
            SubSeq(cmdline, j, j + Len(Word) - 1)[b] = Word[b]
      BY <1>4, <1>5
    <2> QED
      BY <2>1, <1>1, <1>4, SeqEqual
  <1>6. ASSUME SubSeq(cmdline, j, j + Len(Word) - 1) = Word
        PROVE  \A b \in 1..Len(Word) : cmdline[j + b - 1] = Word[b]
    BY <1>4, <1>6
  <1> QED
    BY <1>5, <1>6

\* At the end of the command line, ksubstr has found a beginning of the word.
LEMMA TruncatedByBytes ==
    ASSUME cmdline \in Text, NEW j \in Nat \ {0}, NEW m \in 0..Len(Word),
           j + m = Len(cmdline) + 1, \A b \in 1..m : cmdline[j + b - 1] = Word[b]
    PROVE  L!Truncated(j)
  <1>1. /\ cmdline \in Seq(Nat \ {0}) /\ Len(cmdline) \in Nat
        /\ Word \in Seq(Nat \ {0}) /\ Len(Word) \in Nat \ {0}
    BY LineFacts
  <1>2. /\ \A b \in j..Len(cmdline) : cmdline[b] \in Nat \ {0}
        /\ \A b \in 1..m : Word[b] \in Nat \ {0}
    <2>1. \A b \in j..Len(cmdline) : b \in 1..Len(cmdline)
      BY <1>1
    <2>2. \A b \in 1..m : b \in 1..Len(Word)
      BY <1>1
    <2>3. /\ \A b \in 1..Len(cmdline) : cmdline[b] \in Nat \ {0}
          /\ \A b \in 1..Len(Word) : Word[b] \in Nat \ {0}
      BY <1>1
    <2> QED
      BY <2>1, <2>2, <2>3
  <1>3. m \in Nat /\ j \in Int /\ m \in Int /\ 1 \in Int /\ Len(cmdline) \in Int
        /\ Len(cmdline) - j + 1 = m
    BY <1>1
  <1>4. /\ SubSeq(cmdline, j, Len(cmdline)) \in Seq(Nat \ {0})
        /\ Len(SubSeq(cmdline, j, Len(cmdline))) = m
        /\ \A b \in 1..m : SubSeq(cmdline, j, Len(cmdline))[b] = cmdline[j + b - 1]
    <2>1. /\ SubSeq(cmdline, j, Len(cmdline)) \in Seq(Nat \ {0})
          /\ Len(SubSeq(cmdline, j, Len(cmdline)))
               = IF j <= Len(cmdline) THEN Len(cmdline) - j + 1 ELSE 0
          /\ \A b \in 1..(Len(cmdline) - j + 1) :
               SubSeq(cmdline, j, Len(cmdline))[b] = cmdline[j + b - 1]
      BY <1>2, <1>3, SubSeqProperties
    <2>2. (IF j <= Len(cmdline) THEN Len(cmdline) - j + 1 ELSE 0) = m
      BY <1>3
    <2> QED
      BY <2>1, <2>2, <1>3
  <1>5. /\ SubSeq(Word, 1, m) \in Seq(Nat \ {0})
        /\ Len(SubSeq(Word, 1, m)) = m
        /\ \A b \in 1..m : SubSeq(Word, 1, m)[b] = Word[b]
    <2>1. /\ SubSeq(Word, 1, m) \in Seq(Nat \ {0})
          /\ Len(SubSeq(Word, 1, m)) = IF 1 <= m THEN m - 1 + 1 ELSE 0
          /\ \A b \in 1..(m - 1 + 1) : SubSeq(Word, 1, m)[b] = Word[1 + b - 1]
      BY <1>2, <1>3, SubSeqProperties
    <2>2. (IF 1 <= m THEN m - 1 + 1 ELSE 0) = m /\ m - 1 + 1 = m
          /\ \A b \in 1..m : 1 + b - 1 = b
      BY <1>3
    <2> QED
      BY <2>1, <2>2
  <1>6. SubSeq(cmdline, j, Len(cmdline)) = SubSeq(Word, 1, m)
    <2>1. \A b \in 1..Len(SubSeq(cmdline, j, Len(cmdline))) :
            SubSeq(cmdline, j, Len(cmdline))[b] = SubSeq(Word, 1, m)[b]
      BY <1>4, <1>5
    <2> QED
      BY <2>1, <1>4, <1>5, SeqEqual
  <1> QED
    BY <1>6, <1>3 DEF L!Truncated
-----------------------------------------------------------------------------
LEMMA SearchInit == L!Init => SearchInv /\ LineInv
  <1> SUFFICES ASSUME L!Init PROVE SearchInv /\ LineInv
    OBVIOUS
  <1>1. cmdline \in Text /\ Len(cmdline) = 0 /\ find_pc = "map"
    BY DEF L!Init, Text
  <1> QED
    BY <1>1, LineFacts
       DEF L!Init, SearchInv, LineInv, L!ReadsPage, L!TypeOK, Searched, L!FirstOccurrence,
           L!NoFalseFind

\* Without any flag nothing is read.
LEMMA NoFlagsInv == SearchInv /\ LineInv /\ L!NoFlags => SearchInv' /\ LineInv'
  <1> SUFFICES ASSUME SearchInv, LineInv, L!NoFlags PROVE SearchInv' /\ LineInv'
    OBVIOUS
  <1>1. /\ UNCHANGED <<front, line, mboot_flags, cmdline, find_at, equal, maximum_cpu>>
        /\ find_pc' = "done" /\ mboot_flags = 0 /\ maximum_cpu = 0 /\ Len(cmdline) = 0
    BY DEF L!NoFlags, L!mboot, LineInv
  <1> QED
    BY <1>1 DEF SearchInv, LineInv, L!ReadsPage, L!TypeOK, Searched, L!FirstOccurrence,
                L!NoFalseFind

\* The string at the start of the page: cut off at a 0 in front of the command
\* line, or all that is in front of it and the command line.
LEMMA MapReads ==
    ASSUME LineInv, NEW n \in 1..Len(L!page), L!page[n] = 0, \A i \in 1..(n - 1) : L!page[i] # 0
    PROVE  /\ SubSeq(L!page, 1, n - 1) \in Text
           /\ IF \E i \in 1..Len(front) : front[i] = 0
                THEN Len(SubSeq(L!page, 1, n - 1)) < Len(front)
                ELSE SubSeq(L!page, 1, n - 1) = front \o line
  <1> DEFINE s == SubSeq(L!page, 1, n - 1)
             m == Len(front) + Len(line)
  <1>1. /\ front \in Seq(Nat) /\ line \in Seq(Nat \ {0}) /\ line \in Seq(Nat)
        /\ Len(front) \in Nat /\ Len(line) \in Nat
    <2>1. front \in Seq(Nat) /\ line \in Seq(Nat \ {0})
      BY LineFacts DEF LineInv
    <2>2. line \in Seq(Nat)
      BY <2>1
    <2> QED
      BY <2>1, <2>2
  <1>2. /\ L!page \in Seq(Nat) /\ Len(L!page) = m + 1
        /\ \A i \in 1..Len(front) : L!page[i] = front[i]
        /\ \A i \in (Len(front) + 1)..m : L!page[i] = line[i - Len(front)]
        /\ L!page[m + 1] = 0
    BY <1>1 DEF L!page
  <1>3. n \in Nat /\ n >= 1 /\ n <= m + 1
    BY <1>1, <1>2
  <1>4. s \in Seq(Nat) /\ Len(s) = n - 1 /\ \A i \in 1..(n - 1) : s[i] = L!page[i]
    BY <1>1, <1>2, <1>3
  <1>5. s \in Text
    <2>1. \A i \in 1..Len(s) : s[i] \in Nat \ {0}
      BY <1>3, <1>4
    <2> QED
      BY <1>4, <2>1 DEF Text
  <1>6. CASE \E i \in 1..Len(front) : front[i] = 0
    <2>1. PICK i \in 1..Len(front) : front[i] = 0
      BY <1>6
    <2>2. ~(i \in 1..(n - 1))
      BY <1>2, <2>1
    <2>3. Len(s) < Len(front)
      BY <1>1, <1>3, <1>4, <2>1, <2>2
    <2> QED
      BY <1>5, <1>6, <2>3
  <1>7. CASE ~\E i \in 1..Len(front) : front[i] = 0
    <2>1. \A i \in 1..m : L!page[i] # 0
      <3> SUFFICES ASSUME NEW i \in 1..m PROVE L!page[i] # 0
        OBVIOUS
      <3>1. CASE i <= Len(front)
        <4>1. i \in 1..Len(front)
          BY <1>1, <3>1
        <4>2. front[i] # 0
          BY <1>7, <4>1
        <4> QED
          BY <1>2, <4>1, <4>2
      <3>2. CASE i > Len(front)
        <4>1. i - Len(front) \in 1..Len(line) /\ i \in (Len(front) + 1)..m
          BY <1>1, <3>2
        <4>2. line[i - Len(front)] \in Nat \ {0}
          BY <1>1, <4>1
        <4> QED
          BY <1>2, <4>1, <4>2
      <3> QED
        BY <1>1, <3>1, <3>2
    <2>2. n = m + 1
      <3>1. m \in Nat /\ ~(n \in 1..m)
        BY <1>1, <2>1
      <3> QED
        BY <1>3, <3>1
    <2>3. s = front \o line
      <3> DEFINE t == front \o line
      <3>1. t \in Seq(Nat) /\ Len(t) = m
        BY <1>1
      <3>2. \A i \in 1..m : s[i] = t[i]
        BY <1>1, <1>2, <1>4, <2>2
      <3>3. Len(s) = m
        BY <1>1, <1>4, <2>2
      <3>4. s \in Seq(Nat)
        BY <1>4
      <3> HIDE DEF s, t, m
      <3>5. s = t
        BY <3>1, <3>2, <3>3, <3>4, SeqEqual
      <3> QED
        BY <3>5 DEF t
    <2> QED
      BY <1>5, <1>7, <2>3
  <1> QED
    BY <1>6, <1>7

\* The page is mapped, and the search begins.
LEMMA MapInv == SearchInv /\ LineInv /\ L!Map => SearchInv' /\ LineInv'
  <1> SUFFICES ASSUME SearchInv, LineInv, L!Map PROVE SearchInv' /\ LineInv'
    OBVIOUS
  <1>1. /\ UNCHANGED <<front, line, mboot_flags, find_at, equal, maximum_cpu>>
        /\ find_pc = "map" /\ find_pc' = "find" /\ mboot_flags # 0
        /\ find_at = 1 /\ equal = 0 /\ maximum_cpu = 0
    BY DEF L!Map, L!mboot, LineInv
  <1>2. PICK n \in 1..Len(L!page) :
          /\ L!page[n] = 0 /\ \A i \in 1..(n - 1) : L!page[i] # 0
          /\ cmdline' = SubSeq(L!page, 1, n - 1)
    BY DEF L!Map
  <1>3. /\ cmdline' \in Text
        /\ IF \E i \in 1..Len(front) : front[i] = 0 THEN Len(cmdline') < Len(front)
                                              ELSE cmdline' = front \o line
    BY <1>2, MapReads
  <1>4. Len(cmdline') \in Nat /\ Len(Word) \in Nat
    BY <1>3, LineFacts
  <1>5. LineInv'
    BY <1>1, <1>3 DEF LineInv, L!ReadsPage
  <1>6. SearchInv'
    BY <1>1, <1>3, <1>4 DEF SearchInv, L!TypeOK, Searched, L!FirstOccurrence, L!NoFalseFind
  <1> QED
    BY <1>5, <1>6

\* What the bytes under comparison say.
LEMMA SearchBytes ==
    ASSUME SearchInv, find_pc = "substr"
    PROVE  /\ find_at \in Nat \ {0} /\ equal \in 0..Len(Word)
                /\ find_at + equal \in 1..(Len(cmdline) + 1)
           /\ L!Left = 0 => find_at + equal = Len(cmdline) + 1
           /\ L!Right = 0 => equal = Len(Word)
           /\ L!Left # 0 => find_at + equal <= Len(cmdline) /\ L!Left = cmdline[find_at + equal]
           /\ L!Right # 0 => equal < Len(Word) /\ L!Right = Word[equal + 1]
  <1>1. /\ cmdline \in Seq(Nat \ {0}) /\ Len(cmdline) \in Nat
        /\ Word \in Seq(Nat \ {0}) /\ Len(Word) \in Nat \ {0}
    BY LineFacts DEF SearchInv
  <1>2. find_at \in Nat \ {0} /\ equal \in 0..Len(Word) /\ find_at + equal \in 1..(Len(cmdline) + 1)
    BY <1>1 DEF SearchInv, L!TypeOK
  <1>3. L!Left = 0 => find_at + equal = Len(cmdline) + 1
    BY <1>1, <1>2, StringBytes DEF L!Left
  <1>4. L!Right = 0 => equal = Len(Word)
    BY <1>1, <1>2, StringBytes DEF L!Right
  <1>5. L!Left # 0 => find_at + equal <= Len(cmdline) /\ L!Left = cmdline[find_at + equal]
    BY <1>1, <1>2 DEF L!Left, L!Byte
  <1>6. L!Right # 0 => equal < Len(Word) /\ L!Right = Word[equal + 1]
    <2>1. equal + 1 \in 1..(Len(Word) + 1) /\ Len(Word) \in Nat
      BY <1>1, <1>2
    <2> QED
      BY <2>1, <1>2 DEF L!Right, L!Byte
  <1> QED
    BY <1>2, <1>3, <1>4, <1>5, <1>6

\* cmdline_find reaches the end: the word occurs nowhere.
LEMMA NotFoundInv == SearchInv /\ L!NotFound => SearchInv'
  <1> SUFFICES ASSUME SearchInv, L!NotFound PROVE SearchInv'
    OBVIOUS
  <1>1. Len(cmdline) \in Nat /\ find_at \in Nat /\ find_at = Len(cmdline) + 1
    <2>1. Len(cmdline) \in Nat /\ find_at \in 1..(Len(cmdline) + 1) /\ find_at > Len(cmdline)
      BY LineFacts DEF SearchInv, L!TypeOK, L!NotFound
    <2> QED
      BY <2>1
  <1>2. maximum_cpu = 0 /\ \A j \in 1..Len(cmdline) : ~L!Occurs(j)
    BY <1>1 DEF SearchInv, Searched, L!NotFound
  <1>3. /\ UNCHANGED <<cmdline, find_at, equal, maximum_cpu>> /\ find_pc' = "done"
    BY DEF L!NotFound
  <1>4. \A j \in 1..Len(cmdline) : ~L!Occurs(j)'
    BY <1>2, <1>3 DEF L!Occurs
  <1> QED
    BY <1>2, <1>3, <1>4 DEF SearchInv, L!TypeOK, Searched, L!FirstOccurrence, L!NoFalseFind

LEMMA TryInv == SearchInv /\ L!Try => SearchInv'
  <1> SUFFICES ASSUME SearchInv, L!Try PROVE SearchInv'
    OBVIOUS
  <1>1. Len(cmdline) \in Nat /\ find_at \in Nat /\ Len(Word) \in Nat
    BY LineFacts DEF SearchInv, L!TypeOK, L!Try
  <1>2. \A j \in 1..(find_at - 1) : ~L!Occurs(j)'
    BY <1>1 DEF SearchInv, Searched, L!Occurs, L!Try
  <1> QED
    BY <1>1, <1>2 DEF SearchInv, L!TypeOK, Searched, L!FirstOccurrence, L!NoFalseFind, L!Try

\* ksubstr finds one more character equal.
LEMMA EqualInv == SearchInv /\ L!Equal => SearchInv'
  <1> SUFFICES ASSUME SearchInv, L!Equal PROVE SearchInv'
    OBVIOUS
  <1>1. Len(cmdline) \in Nat /\ find_at \in Nat /\ Len(Word) \in Nat /\ equal \in Nat
    BY LineFacts DEF SearchInv, L!TypeOK, L!Equal
  <1>2. /\ find_pc = "substr" /\ find_pc' = "substr" /\ equal' = equal + 1
        /\ UNCHANGED <<cmdline, find_at, maximum_cpu>>
    BY DEF L!Equal
  <1>3. /\ find_at + equal <= Len(cmdline) /\ L!Left = cmdline[find_at + equal]
        /\ equal < Len(Word) /\ L!Right = Word[equal + 1]
    BY <1>2, SearchBytes DEF L!Equal, L!Same
  <1>4. \A j \in 1..(find_at - 1) : ~L!Occurs(j)'
    BY <1>1, <1>2 DEF SearchInv, Searched, L!Occurs
  <1>5. \A b \in 1..(equal + 1) : cmdline[find_at + b - 1] = Word[b]
    <2> TAKE b \in 1..(equal + 1)
    <2>1. CASE b = equal + 1
      <3>1. find_at + b - 1 = find_at + equal
        BY <2>1, <1>1
      <3> QED
        BY <3>1, <2>1, <1>3 DEF L!Equal, L!Same
    <2>2. CASE b # equal + 1
      BY <2>2, <1>1, <1>2 DEF SearchInv, Searched
    <2> QED
      BY <2>1, <2>2
  <1>6. find_at \in 1..(Len(cmdline) + 1) /\ equal' \in 0..Len(Word)
          /\ find_at + equal' <= Len(cmdline) + 1
        /\ find_at <= Len(cmdline) /\ maximum_cpu = 0
    BY <1>1, <1>2, <1>3 DEF SearchInv, L!TypeOK, Searched
  <1> QED
    BY <1>1, <1>2, <1>4, <1>5, <1>6
       DEF SearchInv, L!TypeOK, Searched, L!FirstOccurrence, L!NoFalseFind

\* A word that is not there may still begin at the end of the command line.
LEMMA FoundRight ==
    ASSUME SearchInv, find_pc = "substr", ~L!Same, L!Accepts
    PROVE  /\ L!Occurs(find_at) \/ L!Truncated(find_at)
           /\ \A j \in 1..Len(cmdline) :
                L!Occurs(j) /\ (\A m \in 1..(j - 1) : ~L!Occurs(m)) => j = find_at
  <1>1. /\ Len(cmdline) \in Nat /\ find_at \in Nat \ {0} /\ Len(Word) \in Nat \ {0} /\ equal \in Nat
        /\ cmdline \in Text /\ equal \in 0..Len(Word) /\ find_at + equal <= Len(cmdline) + 1
    BY LineFacts DEF SearchInv, L!TypeOK
  <1>2. /\ \A j \in 1..(find_at - 1) : ~L!Occurs(j)
        /\ \A b \in 1..equal : cmdline[find_at + b - 1] = Word[b]
    BY DEF SearchInv, Searched
  <1>3. L!Left = 0 \/ L!Right = 0
    BY DEF L!Same, L!Accepts
  <1>4. CASE L!Right = 0
    <2>1. equal = Len(Word)
      BY <1>4, SearchBytes
    <2>2. L!Occurs(find_at)
      BY <2>1, <1>1, <1>2, OccursByBytes
    <2>3. ASSUME NEW j \in 1..Len(cmdline), L!Occurs(j), \A m \in 1..(j - 1) : ~L!Occurs(m)
          PROVE  j = find_at
      BY <2>2, <2>3, <1>1, <1>2
    <2> QED
      BY <2>2, <2>3
  <1>5. CASE L!Right # 0
    <2>1. find_at + equal = Len(cmdline) + 1 /\ equal < Len(Word)
      BY <1>3, <1>5, SearchBytes
    <2>2. L!Truncated(find_at)
      BY <2>1, <1>1, <1>2, TruncatedByBytes
    <2>3. ASSUME NEW j \in 1..Len(cmdline), L!Occurs(j) PROVE FALSE
      <3>1. j + Len(Word) - 1 <= Len(cmdline)
        BY <2>3 DEF L!Occurs
      <3>2. j \in 1..(find_at - 1)
        BY <3>1, <2>1, <1>1
      <3> QED
        BY <3>2, <2>3, <1>2
    <2> QED
      BY <2>2, <2>3
  <1> QED
    BY <1>4, <1>5

\* ksubstr accepts.
LEMMA FoundInv == SearchInv /\ L!Found => SearchInv'
  <1> SUFFICES ASSUME SearchInv, L!Found PROVE SearchInv'
    OBVIOUS
  <1>1. /\ find_pc = "substr" /\ find_pc' = "done" /\ maximum_cpu' = find_at + Len(Word)
        /\ UNCHANGED <<cmdline, find_at, equal>> /\ ~L!Same /\ L!Accepts
    BY DEF L!Found
  <1>2. find_at \in Nat /\ Len(Word) \in Nat /\ Len(cmdline) \in Nat
    BY LineFacts DEF SearchInv, L!TypeOK
  <1>3. /\ L!Occurs(find_at) \/ L!Truncated(find_at)
        /\ \A j \in 1..Len(cmdline) :
             L!Occurs(j) /\ (\A m \in 1..(j - 1) : ~L!Occurs(m)) => j = find_at
    BY <1>1, FoundRight
  <1>4. maximum_cpu' - Len(Word) = find_at
    BY <1>1, <1>2
  <1>5. L!NoFalseFind'
    BY <1>1, <1>3, <1>4 DEF L!NoFalseFind, L!Occurs, L!Truncated
  <1>6. L!FirstOccurrence'
    BY <1>1, <1>3 DEF L!FirstOccurrence, L!Occurs
  <1> QED
    BY <1>1, <1>5, <1>6 DEF SearchInv, L!TypeOK, Searched

\* ksubstr finds a difference inside both strings: the word is not here.
LEMMA GoOnInv == SearchInv /\ L!GoOn => SearchInv'
  <1> SUFFICES ASSUME SearchInv, L!GoOn PROVE SearchInv'
    OBVIOUS
  <1>1. /\ find_pc = "substr" /\ find_pc' = "find" /\ find_at' = find_at + 1
        /\ UNCHANGED <<cmdline, equal, maximum_cpu>> /\ ~L!Accepts
    BY DEF L!GoOn, L!Advance
  <1>2. /\ find_at \in Nat \ {0} /\ Len(Word) \in Nat /\ Len(cmdline) \in Nat /\ equal \in Nat
        /\ cmdline \in Text /\ find_at <= Len(cmdline) /\ maximum_cpu = 0
    BY <1>1, LineFacts DEF SearchInv, L!TypeOK, Searched
  <1>3. equal < Len(Word) /\ cmdline[find_at + equal] # Word[equal + 1]
    BY <1>1, SearchBytes DEF L!Accepts
  <1>4. ~L!Occurs(find_at)
    <2>1. equal + 1 \in 1..Len(Word) /\ find_at + (equal + 1) - 1 = find_at + equal
      BY <1>2, <1>3
    <2> QED
      BY <2>1, <1>2, <1>3, OccursByBytes
  <1>5. \A j \in 1..(find_at' - 1) : ~L!Occurs(j)'
    <2>1. \A j \in 1..find_at : ~L!Occurs(j)
      BY <1>1, <1>2, <1>4 DEF SearchInv, Searched
    <2> QED
      BY <2>1, <1>1, <1>2 DEF L!Occurs
  <1> QED
    BY <1>1, <1>2, <1>5 DEF SearchInv, L!TypeOK, Searched, L!FirstOccurrence, L!NoFalseFind

\* Every step preserves the invariant.
LEMMA SearchStep == SearchInv /\ LineInv /\ [L!Next]_L!vars => SearchInv' /\ LineInv'
  <1> SUFFICES ASSUME SearchInv, LineInv, [L!Next]_L!vars PROVE SearchInv' /\ LineInv'
    OBVIOUS
  <1>1. CASE UNCHANGED L!vars
    <2>1. SearchInv'
      BY <1>1 DEF SearchInv, L!TypeOK, Searched, L!FirstOccurrence, L!NoFalseFind, L!Occurs,
         L!Truncated, L!vars
    <2>2. LineInv'
      BY <1>1 DEF LineInv, L!ReadsPage, L!vars, L!mboot
    <2> QED
      BY <2>1, <2>2
  <1>2. CASE L!NotFound \/ L!Try \/ L!Equal \/ L!Found \/ L!GoOn
    <2>1. SearchInv'
      BY <1>2, NotFoundInv, TryInv, EqualInv, FoundInv, GoOnInv
    <2>2. UNCHANGED <<mboot_flags, front, line, cmdline>> /\ find_pc # "map" /\ find_pc' # "map"
      BY <1>2 DEF L!NotFound, L!Try, L!Equal, L!Found, L!GoOn, L!mboot
    <2>3. LineInv'
      BY <2>2 DEF LineInv, L!ReadsPage
    <2> QED
      BY <2>1, <2>3
  <1> QED
    BY <1>1, <1>2, NoFlagsInv, MapInv DEF L!Next

\* What it says of the search.
LEMMA SearchesRight == SearchInv /\ LineInv => L!FindsWord
  BY DEF SearchInv, LineInv, L!FindsWord

-----------------------------------------------------------------------------
(* The descriptor tables (module Descriptors).                            *)

\* The entry of CPU c's TSS, before and after its ltr.
TssEntry(c, access) == D!gdt_set(D!Plus(tss_place, c * D!sizeof_tss), D!Plus(tss_place,
  (c + 1) * D!sizeof_tss), access, 0)

\* The entries of the segments, and of the TSSs.
Entries ==
    /\ DOMAIN gdt = 0..(D!GDT_ENTRIES - 1)
    /\ gdt[1] = D!gdt_set(D!Zero, D!Ones, 154, 207) /\ gdt[2] = D!gdt_set(D!Zero, D!Ones, 146, 207)
    /\ gdt[3] = D!gdt_set(D!Zero, D!Ones, 250, 207) /\ gdt[4] = D!gdt_set(D!Zero, D!Ones, 242, 207)
    /\ \A c \in CPU_IDS : gdt[c + 5] = TssEntry(c, IF tr[c] = 0 THEN 233 ELSE 235)

\* The tables, by how far CPU 0 and each CPU are.
TablesInv ==
    /\ tss_place \in TssPlaces
    /\ DOMAIN gdt = 0..(D!GDT_ENTRIES - 1)
    /\ DOMAIN tr = CPU_IDS /\ \A c \in CPU_IDS : tr[c] \in {0, (c + 5) * 8 + 3}
    /\ DOMAIN tss = 0..(MAX_CPU - 1)
    /\ \A c \in 0..(MAX_CPU - 1) : DOMAIN tss[c] = {"esp0", "ss0"}
    /\ gdtr_size = 0 => idt_entries = <<>>
    /\ idt_entries = <<>> => \A c \in CPU_IDS : tr[c] = 0
    /\ gdtr_size # 0 => gdtr_size = D!GDT_ENTRIES * 8 /\ Entries
         /\ \A c \in 0..(MAX_CPU - 1) : tss[c].ss0 = 16
    /\ \A c \in CPU_IDS : tr[c] # 0 => tss[c].esp0 \in {"page", "kernel_stack"}
    /\ idt_entries # <<>> => idt_entries = [v \in D!VECTORS |-> D!idt_set(D!isr(v), 142)]

\* What the constants of Descriptors satisfy.
LEMMA TableSizes ==
    /\ MAX_CPU \in Nat \ {0} /\ CPU_IDS \subseteq 0..(MAX_CPU - 1)
    /\ D!GDT_ENTRIES = 5 + MAX_CPU /\ D!GDT_ENTRIES \in Nat
    /\ \A c \in CPU_IDS : c \in Nat /\ c < MAX_CPU /\ c + 5 \in 0..(D!GDT_ENTRIES - 1) /\ c + 5 > 4
    /\ \A i \in {1, 2, 3, 4} : i \in 0..(D!GDT_ENTRIES - 1)
  BY PartsAssumption DEF D!GDT_ENTRIES, D!DescriptorsAssumption

\* Division with remainder.
LEMMA Quotient ==
    ASSUME NEW t \in Nat, NEW m \in Nat \ {0}
    PROVE  t = (t \div m) * m + (t % m) /\ t \div m \in Nat /\ t % m \in Nat /\ t % m < m
  <1>1. t = (t \div m) * m + (t % m)
    BY Z3
  <1>2. t \div m \in Nat /\ t % m \in Nat /\ t % m < m
    BY Z3
  <1> QED
    BY <1>1, <1>2

\* The halves of the address of a TSS.
LEMMA Places16 ==
    ASSUME NEW p \in TssPlaces
    PROVE  /\ p.hi \in Nat /\ p.hi < D!W16 /\ p.lo \in Nat /\ p.lo < D!W16
           /\ (p.hi % 16) * D!W16 + p.lo > 0
           /\ (p.hi % 16) * D!W16 + p.lo < 16 * D!W16 - MAX_CPU * D!sizeof_tss
  <1>1. D!W16 \in Nat /\ MAX_CPU \in Nat
    <2>1. D!W16 \in Nat
      BY Z3 DEF D!W16
    <2> QED
      BY <2>1, PartsAssumption DEF D!DescriptorsAssumption
  <1>2. p \in [hi : 0..(D!W16 - 1), lo : 0..(D!W16 - 1)]
        /\ (p.hi % 16) * D!W16 + p.lo \in 1..(16 * D!W16 - MAX_CPU * D!sizeof_tss - 1)
    BY PartsAssumption DEF D!DescriptorsAssumption
  <1> QED
    BY <1>1, <1>2, Z3 DEF D!sizeof_tss

LEMMA TablesInit == D!Init => TablesInv
  BY TableSizes DEF D!Init, TablesInv

\* gdt_init fills the table.
LEMMA GdtInitInv == TablesInv /\ D!gdt_init => TablesInv'
  <1> SUFFICES ASSUME TablesInv, D!gdt_init PROVE TablesInv'
    OBVIOUS
  <1> USE TableSizes
  <1>1. /\ gdtr_size = 0 /\ gdtr_size' = D!GDT_ENTRIES * 8 /\ UNCHANGED <<tss_place, idt_entries, tr>>
        /\ tss' = [c \in 0..(MAX_CPU - 1) |-> [esp0 |-> "0xDEADC0DE", ss0 |-> 16]]
    BY DEF D!gdt_init, TablesInv, D!sizeof_entry
  <1>2. idt_entries = <<>> /\ \A c \in CPU_IDS : tr[c] = 0
    BY <1>1 DEF TablesInv
  <1>3. DOMAIN gdt' = 0..(D!GDT_ENTRIES - 1)
    BY DEF D!gdt_init, TablesInv
  <1>4. /\ gdt'[1] = D!gdt_set(D!Zero, D!Ones, 154, 207)
             /\ gdt'[2] = D!gdt_set(D!Zero, D!Ones, 146, 207)
        /\ gdt'[3] = D!gdt_set(D!Zero, D!Ones, 250, 207)
             /\ gdt'[4] = D!gdt_set(D!Zero, D!Ones, 242, 207)
    BY DEF D!gdt_init, TablesInv
  <1>5. \A c \in CPU_IDS : gdt'[c + 5] = D!tss_init(c)
    <2> SUFFICES ASSUME NEW c \in CPU_IDS PROVE gdt'[c + 5] = D!tss_init(c)
      OBVIOUS
    <2>1. c + 5 \in DOMAIN gdt /\ c + 5 \notin {0, 1, 2, 3, 4} /\ (c + 5) - 5 = c
      BY DEF TablesInv
    <2>2. gdt'[c + 5] = D!tss_init((c + 5) - 5)
      BY <2>1 DEF D!gdt_init
    <2> QED
      BY <2>1, <2>2
  <1>6. \A c \in CPU_IDS : D!tss_init(c) = TssEntry(c, 233)
    BY DEF TssEntry, D!tss_init
  <1>7. \A c, x : TssEntry(c, x)' = TssEntry(c, x)
    BY <1>1 DEF TssEntry, D!gdt_set, D!Plus, D!Number
  <1>8. Entries'
    BY <1>1, <1>2, <1>3, <1>4, <1>5, <1>6, <1>7 DEF Entries
  <1> QED
    BY <1>1, <1>2, <1>3, <1>8 DEF TablesInv

\* isr_init fills the other one.
LEMMA IsrInitInv == TablesInv /\ D!isr_init => TablesInv'
  <1> SUFFICES ASSUME TablesInv, D!isr_init PROVE TablesInv'
    OBVIOUS
  <1>1. UNCHANGED <<tss_place, gdt, gdtr_size, tss, tr>> /\ gdtr_size # 0
        /\ idt_entries' = [v \in D!VECTORS |-> D!idt_set(D!isr(v), 142)] /\ idt_entries = <<>>
    BY DEF D!isr_init
  <1>2. \A c, x : TssEntry(c, x)' = TssEntry(c, x)
    BY <1>1 DEF TssEntry, D!gdt_set, D!Plus, D!Number
  <1>3. Entries' <=> Entries
    BY <1>1, <1>2 DEF Entries
  <1> QED
    BY <1>1, <1>3 DEF TablesInv

\* A CPU loads its task register; the processor sets the busy bit.
LEMMA StartInv ==
    ASSUME TablesInv, NEW c \in CPU_IDS, D!interrupts_start(c)
    PROVE  TablesInv'
  <1> USE TableSizes
  <1> DEFINE sel == (c + 5) * 8 + 3
  <1>1. sel \in Nat /\ sel \div 8 = c + 5 /\ sel # 0
    OBVIOUS
  <1>2. /\ UNCHANGED <<tss_place, gdtr_size, idt_entries>> /\ idt_entries # <<>> /\ tr[c] = 0
        /\ tss' = [tss EXCEPT ![c].esp0 = "page"]
        /\ gdt' = [gdt EXCEPT ![c + 5].access = @ + 2] /\ tr' = [tr EXCEPT ![c] = sel]
    BY <1>1 DEF D!interrupts_start, D!tss_set_stack, D!tss_flush
  <1>3. gdtr_size # 0 /\ Entries
    BY <1>2 DEF TablesInv
  <1>4. \A d \in CPU_IDS : tr'[d] = IF d = c THEN sel ELSE tr[d]
    BY <1>2 DEF TablesInv
  <1>5. DOMAIN tr' = CPU_IDS /\ DOMAIN tss' = 0..(MAX_CPU - 1) /\ DOMAIN gdt' = 0..(D!GDT_ENTRIES - 1)
    BY <1>2 DEF TablesInv
  <1>6. \A d \in 0..(MAX_CPU - 1) : /\ DOMAIN tss'[d] = {"esp0", "ss0"} /\ tss'[d].ss0 = tss[d].ss0
                                    /\ tss'[d].esp0 = IF d = c THEN "page" ELSE tss[d].esp0
    BY <1>2, SMTT(30) DEF TablesInv
  <1>7. \A d, x : TssEntry(d, x)' = TssEntry(d, x)
    BY <1>2 DEF TssEntry, D!gdt_set, D!Plus, D!Number
  <1>8. \A d \in CPU_IDS : gdt'[d + 5] = TssEntry(d, IF tr'[d] = 0 THEN 233 ELSE 235)
    <2> SUFFICES ASSUME NEW d \in CPU_IDS PROVE gdt'[d + 5] = TssEntry(d, IF tr'[d] = 0
                          THEN 233 ELSE 235)
      OBVIOUS
    <2>1. gdt[d + 5] = TssEntry(d, IF tr[d] = 0 THEN 233 ELSE 235) /\ d + 5 \in DOMAIN gdt
      BY <1>3 DEF Entries
    <2>2. CASE d = c
      <3>1. gdt[d + 5] = TssEntry(d, 233) /\ tr'[d] # 0
        BY <1>1, <1>2, <1>4, <2>1, <2>2
      <3>2. gdt'[d + 5] = [gdt[d + 5] EXCEPT !.access = @ + 2]
        BY <1>2, <2>1, <2>2
      <3>3. gdt'[d + 5] = TssEntry(d, 235)
        <4>1. PICK b, l : b = D!Plus(tss_place, d * D!sizeof_tss)
                     /\ l = D!Plus(tss_place, (d + 1) * D!sizeof_tss)
          OBVIOUS
        <4>2. [D!gdt_set(b, l, 233, 0) EXCEPT !.access = @ + 2] = D!gdt_set(b, l, 235, 0)
          BY DEF D!gdt_set
        <4> QED
          BY <3>1, <3>2, <4>1, <4>2 DEF TssEntry
      <3> QED
        BY <3>1, <3>3
    <2>3. CASE d # c
      <3>1. d + 5 # c + 5
        BY <2>3
      <3>2. gdt'[d + 5] = gdt[d + 5]
        BY <1>2, <2>1, <3>1
      <3> QED
        BY <1>4, <2>1, <2>3, <3>2
    <2> QED
      BY <2>2, <2>3
  <1>9. gdt'[1] = gdt[1] /\ gdt'[2] = gdt[2] /\ gdt'[3] = gdt[3] /\ gdt'[4] = gdt[4]
    <2>1. c + 5 \notin {1, 2, 3, 4}
      OBVIOUS
    <2> QED
      BY <1>2, <2>1 DEF TablesInv
  <1>10. Entries'
    BY <1>3, <1>5, <1>7, <1>8, <1>9 DEF Entries
  <1>11. \A d \in CPU_IDS : tr'[d] \in {0, (d + 5) * 8 + 3}
    BY <1>4 DEF TablesInv
  <1>12. \A d \in CPU_IDS : tr'[d] # 0 => tss'[d].esp0 \in {"page", "kernel_stack"}
    BY <1>4, <1>6 DEF TablesInv
  <1> QED
    BY <1>2, <1>3, <1>5, <1>6, <1>10, <1>11, <1>12, SMTT(30) DEF TablesInv

\* tss_set_stack changes the stack of one TSS, and nothing else.
LEMMA SetStackInv ==
    ASSUME TablesInv, NEW c \in CPU_IDS, D!SetStack(c)
    PROVE  TablesInv'
  <1>1. UNCHANGED <<tss_place, gdt, gdtr_size, idt_entries, tr>>
        /\ tss' = [tss EXCEPT ![c].esp0 = "kernel_stack"]
    BY DEF D!SetStack, D!tss_set_stack
  <1>2. \A d \in 0..(MAX_CPU - 1) : /\ DOMAIN tss'[d] = {"esp0", "ss0"} /\ tss'[d].ss0 = tss[d].ss0
                                    /\ tss'[d].esp0 = IF d = c THEN "kernel_stack" ELSE tss[d].esp0
    BY <1>1, TableSizes DEF TablesInv
  <1>3. DOMAIN tss' = 0..(MAX_CPU - 1)
    BY <1>1, TableSizes DEF TablesInv
  <1>4. \A d, x : TssEntry(d, x)' = TssEntry(d, x)
    BY <1>1 DEF TssEntry, D!gdt_set, D!Plus, D!Number
  <1>5. Entries' <=> Entries
    BY <1>1, <1>4 DEF Entries
  <1>6. \A d \in CPU_IDS : tr'[d] # 0 => tss'[d].esp0 \in {"page", "kernel_stack"}
    BY <1>1, <1>2, TableSizes DEF TablesInv
  <1> QED
    BY <1>1, <1>2, <1>3, <1>5, <1>6 DEF TablesInv

\* Every step preserves the invariant.
LEMMA TablesStep == TablesInv /\ [D!Next]_D!vars => TablesInv'
  <1> SUFFICES ASSUME TablesInv, [D!Next]_D!vars PROVE TablesInv'
    OBVIOUS
  <1>1. CASE UNCHANGED D!vars
    <2>1. \A d, x : TssEntry(d, x)' = TssEntry(d, x)
      BY <1>1 DEF D!vars, TssEntry, D!gdt_set, D!Plus, D!Number
    <2>2. Entries' <=> Entries
      BY <1>1, <2>1 DEF D!vars, Entries
    <2> QED
      BY <1>1, <2>2 DEF D!vars, TablesInv
  <1> QED
    BY <1>1, GdtInitInv, IsrInitInv, StartInv, SetStackInv DEF D!Next

\* A segment of the kernel or of the programs covers everything.
LEMMA FlatEntry ==
    ASSUME NEW access
    PROVE  LET e == D!gdt_set(D!Zero, D!Ones, access, 207)
           IN  D!Base(e) = D!Zero /\ D!InPages(e) /\ D!Limit(e) = 16 * D!W16 - 1 /\ e.access = access
  <1> DEFINE e == D!gdt_set(D!Zero, D!Ones, access, 207)
  <1>1. e.base_low = 0 /\ e.base_middle = 0 % 256 /\ e.base_high = 0 \div 256 /\ e.size_low = 65535
        /\ e.granularity = (65535 % 16) + (207 \div 16) * 16 /\ e.access = access
    BY Z3 DEF D!gdt_set, D!Zero, D!Ones, D!Number, D!W16
  <1>2. 0 % 256 = 0 /\ 0 \div 256 = 0 /\ (65535 % 16) + (207 \div 16) * 16 = 207 /\ 207 % 16 = 15
    BY Z3
  <1> HIDE DEF e
  <1>3. D!Base(e) = D!Zero
    BY <1>1, <1>2, Z3 DEF D!Base, D!Number, D!Zero
  <1>4. D!InPages(e) /\ D!Limit(e) = 16 * D!W16 - 1
    BY <1>1, <1>2, Z3 DEF D!InPages, D!Limit, D!W16
  <1> QED
    BY <1>1, <1>3, <1>4 DEF e

\* The entry of a TSS has its address, and a limit behind its end.
LEMMA TssFits ==
    ASSUME NEW c \in CPU_IDS, NEW access, tss_place \in TssPlaces
    PROVE  LET e == TssEntry(c, access)
           IN  /\ D!Base(e) = D!Plus(tss_place, c * D!sizeof_tss)
               /\ D!Limit(e) >= D!sizeof_tss - 1
               /\ e.access = access
  <1> DEFINE e == TssEntry(c, access)
             b == D!Plus(tss_place, c * D!sizeof_tss)
             l == D!Plus(tss_place, (c + 1) * D!sizeof_tss)
             n == (c + 1) * 104
  <1>1. /\ e.base_low = b.lo /\ e.base_middle = b.hi % 256 /\ e.base_high = b.hi \div 256
        /\ e.size_low = l.lo /\ e.granularity = (l.hi % 16) + (0 \div 16) * 16 /\ e.access = access
    BY DEF TssEntry, D!gdt_set
  <1>2. /\ tss_place.hi \in Nat /\ tss_place.hi < 65536 /\ tss_place.lo \in Nat /\ tss_place.lo < 65536
        /\ (tss_place.hi % 16) * 65536 + tss_place.lo > 0
        /\ (tss_place.hi % 16) * 65536 + tss_place.lo < 16 * 65536 - MAX_CPU * 104
    BY Places16, Z3 DEF D!W16, D!sizeof_tss
  <1>3. c \in Nat /\ c < MAX_CPU /\ MAX_CPU \in Nat /\ n \in Nat /\ n >= 104 /\ n <= MAX_CPU * 104
        /\ c * 104 \in Nat
    BY TableSizes, Z3
  <1>4. b = [hi |-> b.hi, lo |-> b.lo] /\ b.hi \in Nat /\ l.hi \in Nat /\ l.lo \in Nat
    <2>1. b = [hi |-> (tss_place.hi + (tss_place.lo + c * 104) \div 65536) % 65536,
            lo |-> (tss_place.lo + c * 104) % 65536]
      BY Z3 DEF D!Plus, D!Number, D!W16, D!sizeof_tss
    <2>2. l = [hi |-> (tss_place.hi + (tss_place.lo + n) \div 65536) % 65536,
            lo |-> (tss_place.lo + n) % 65536]
      BY Z3 DEF D!Plus, D!Number, D!W16, D!sizeof_tss
    <2> HIDE DEF b, l, n
    <2> QED
      BY <1>2, <1>3, <2>1, <2>2, Z3
  <1>5. D!Base(e) = b
    <2> HIDE DEF e, b
    <2>1. (b.hi \div 256) * 256 + (b.hi % 256) = b.hi
      BY <1>4, Quotient, 256 \in Nat \ {0}
    <2> QED
      BY <1>1, <1>4, <2>1, Z3 DEF D!Base, D!Number
  <1>6. D!Limit(e) = (l.hi % 16) * 65536 + l.lo
    <2>1. (0 \div 16) * 16 = 0 /\ (l.hi % 16) \in Nat /\ ((l.hi % 16) + 0) % 16 = l.hi % 16
      BY <1>4, Z3
    <2> HIDE DEF e, l
    <2> QED
      BY <1>1, <2>1, Z3 DEF D!Limit, D!W16
  <1>7. (l.hi % 16) * 65536 + l.lo >= 104
    <2>1. l.hi = (tss_place.hi + (tss_place.lo + n) \div 65536) % 65536
            /\ l.lo = (tss_place.lo + n) % 65536
      BY Z3 DEF D!Plus, D!Number, D!W16, D!sizeof_tss
    <2> HIDE DEF l, n
    <2>2. PICK x \in Nat, y \in Nat : tss_place.hi = x * 16 + y /\ y < 16 /\ y = tss_place.hi % 16
      BY <1>2, Quotient, 16 \in Nat \ {0}, Z3T(30)
    <2>3. PICK v \in Nat, r \in Nat : tss_place.lo + n = v * 65536 + r /\ r < 65536
                                      /\ v = (tss_place.lo + n) \div 65536
                                           /\ r = (tss_place.lo + n) % 65536
      <3>1. tss_place.lo + n \in Nat
        BY <1>2, <1>3, Z3
      <3> QED
        BY <3>1, Quotient, 65536 \in Nat \ {0}, Z3T(30)
    <2>4. y + v < 16
      BY <1>2, <1>3, <2>2, <2>3, Z3
    <2>5. x < 4096 /\ tss_place.hi + v < 65536 /\ (tss_place.hi + v) % 65536 = tss_place.hi + v
      BY <1>2, <2>2, <2>4, Z3
    <2>6. l.hi % 16 = y + v
      BY <2>1, <2>2, <2>3, <2>4, <2>5, Z3
    <2>7. l.lo = r
      BY <2>1, <2>3, Z3
    <2> QED
      BY <1>2, <1>3, <2>2, <2>3, <2>6, <2>7, Z3
  <1> QED
    <2>1. (l.hi % 16) * 65536 + l.lo \in Nat
      BY <1>4, Z3
    <2> HIDE DEF e, l, b
    <2>2. D!Limit(e) >= D!sizeof_tss - 1
      BY <1>6, <1>7, <2>1, Z3 DEF D!sizeof_tss
    <2> QED
      BY <1>1, <1>5, <2>2 DEF e, b

\* What the processor reads from the tables.
LEMMA TablesOk == TablesInv => D!TablesRight
  <1> SUFFICES ASSUME TablesInv PROVE D!TablesRight
    OBVIOUS
  <1> USE TableSizes
  <1>1. ASSUME gdtr_size # 0
        PROVE  D!Flat(8, 154) /\ D!Flat(16, 146) /\ D!Flat(27, 250) /\ D!Flat(35, 242)
    <2>1. 8 \div 8 = 1 /\ 16 \div 8 = 2 /\ 27 \div 8 = 3 /\ 35 \div 8 = 4
      OBVIOUS
    <2>2. DOMAIN gdt = 0..(D!GDT_ENTRIES - 1) /\ gdtr_size = D!GDT_ENTRIES * 8 /\ Entries
      BY <1>1 DEF TablesInv
    <2>3. D!Finds(8) /\ D!Finds(16) /\ D!Finds(27) /\ D!Finds(35)
      BY <2>1, <2>2 DEF D!Finds
    <2>4. /\ gdt[1] = D!gdt_set(D!Zero, D!Ones, 154, 207)
               /\ gdt[2] = D!gdt_set(D!Zero, D!Ones, 146, 207)
          /\ gdt[3] = D!gdt_set(D!Zero, D!Ones, 250, 207)
               /\ gdt[4] = D!gdt_set(D!Zero, D!Ones, 242, 207)
      BY <2>2 DEF Entries
    <2> QED
      BY <2>1, <2>3, <2>4, FlatEntry DEF D!Flat
  <1>2. D!SegmentsFlat
    BY <1>1 DEF D!SegmentsFlat
  <1>3. D!OwnTss
    <2> SUFFICES ASSUME NEW c \in CPU_IDS, tr[c] # 0
                 PROVE  /\ D!Finds(tr[c])
                        /\ LET e == gdt[tr[c] \div 8]
                           IN  /\ D!Base(e) = D!Plus(tss_place, c * D!sizeof_tss)
                               /\ D!Limit(e) >= D!sizeof_tss - 1 \/ D!InPages(e)
                               /\ e.access % 16 = 11
                        /\ tss[c].esp0 \in {"page", "kernel_stack"} /\ D!Flat(tss[c].ss0, 146)
                        /\ \A d \in CPU_IDS \ {c} : tr[d] # tr[c]
      BY DEF D!OwnTss
    <2>1. tr[c] = (c + 5) * 8 + 3 /\ tr[c] \div 8 = c + 5
      <3>1. tr[c] = (c + 5) * 8 + 3
        BY DEF TablesInv
      <3>2. c \in Nat
        OBVIOUS
      <3>3. ((c + 5) * 8 + 3) \div 8 = c + 5
        BY <3>2, Z3
      <3> QED
        BY <3>1, <3>3
    <2>2. gdtr_size # 0 /\ DOMAIN gdt = 0..(D!GDT_ENTRIES - 1) /\ gdtr_size = D!GDT_ENTRIES * 8
            /\ Entries
      BY DEF TablesInv
    <2>3. D!Finds(tr[c])
      BY <2>1, <2>2 DEF D!Finds
    <2>4. gdt[c + 5] = TssEntry(c, 235) /\ 235 % 16 = 11
      BY <2>2 DEF Entries
    <2>5. D!Base(gdt[c + 5]) = D!Plus(tss_place, c * D!sizeof_tss)
            /\ D!Limit(gdt[c + 5]) >= D!sizeof_tss - 1
          /\ gdt[c + 5].access = 235
      BY <2>4, TssFits DEF TablesInv
    <2>6. tss[c].esp0 \in {"page", "kernel_stack"} /\ tss[c].ss0 = 16
      BY <2>2 DEF TablesInv
    <2>7. \A d \in CPU_IDS \ {c} : tr[d] # tr[c]
      BY <2>1 DEF TablesInv
    <2> QED
      BY <1>1, <2>1, <2>2, <2>3, <2>4, <2>5, <2>6, <2>7
  <1>4. D!CanStart
    <2> SUFFICES ASSUME gdtr_size > 0, NEW c \in CPU_IDS, tr[c] = 0 PROVE gdt[c + 5].access % 16 = 9
      BY DEF D!CanStart
    <2>1. gdt[c + 5] = TssEntry(c, 233) /\ 233 % 16 = 9
      BY DEF TablesInv, Entries
    <2>2. gdt[c + 5].access = 233
      BY <2>1, TssFits DEF TablesInv
    <2> QED
      BY <2>1, <2>2
  <1>5. D!GatesRight
    <2> SUFFICES ASSUME idt_entries # <<>>, NEW v \in D!VECTORS
                 PROVE  LET g == idt_entries[v]
                        IN  D!Number(g.base_high, g.base_low) = D!isr(v) /\ g.selector = 8
                          /\ g.flags = 238
      BY DEF D!GatesRight
    <2>1. idt_entries[v] = D!idt_set(D!isr(v), 142)
      BY DEF TablesInv
    <2>2. D!isr(v) = [hi |-> D!isr(v).hi, lo |-> D!isr(v).lo]
      BY DEF D!isr, D!Plus, D!Number
    <2> QED
      BY <2>1, <2>2 DEF D!idt_set, D!Number
  <1> QED
    BY <1>2, <1>3, <1>4, <1>5 DEF D!TablesRight

-----------------------------------------------------------------------------
(* Two CPUs on the kernel's console (module ConsoleRace).                 *)

\* A column behind the line is being brought back by some CPU.
RaceInv ==
    /\ R!TypeOK
    /\ DOMAIN race_pc = CPUS
    /\ race_x <= SCREEN_WIDTH \/ R!Moving # {}

\* What the constants of ConsoleRace satisfy.
LEMMA RaceSizes ==
    /\ SCREEN_WIDTH \in Nat \ {0} /\ SCREEN_HEIGHT \in Nat \ {0} /\ BYTE \in Nat \ {0}
    /\ SCREEN_WIDTH < BYTE /\ SCREEN_HEIGHT < BYTE
    /\ \A x \in 0..(BYTE - 1) : x % SCREEN_WIDTH \in 0..(BYTE - 1) /\ x % SCREEN_WIDTH <= SCREEN_WIDTH
    /\ \A x \in Nat : x % BYTE \in 0..(BYTE - 1)
    /\ \A x \in Nat : x \div SCREEN_WIDTH \in Nat
  <1>1. /\ SCREEN_WIDTH \in Nat \ {0} /\ SCREEN_HEIGHT \in Nat \ {0} /\ BYTE \in Nat \ {0}
        /\ SCREEN_WIDTH < BYTE /\ SCREEN_HEIGHT < BYTE
    BY PartsAssumption DEF R!RaceAssumption
  <1>2. ASSUME NEW m \in Nat \ {0}, NEW x \in Nat
        PROVE  x % m \in Nat /\ x % m < m /\ x \div m \in Nat
    OBVIOUS
  <1>3. \A x \in 0..(BYTE - 1) : x \in Nat
    BY <1>1
  <1>4. \A x \in Nat : x % SCREEN_WIDTH \in Nat /\ x % SCREEN_WIDTH < SCREEN_WIDTH
          /\ x \div SCREEN_WIDTH \in Nat
    BY <1>1, <1>2
  <1>5. \A x \in Nat : x % BYTE \in Nat /\ x % BYTE < BYTE
    BY <1>1, <1>2
  <1>6. ASSUME NEW y \in Nat, NEW m \in Nat, NEW n \in Nat, y < m, m < n
        PROVE  y \in 0..(n - 1) /\ y <= m
    BY <1>6
  <1>7. ASSUME NEW y \in Nat, NEW n \in Nat, y < n
        PROVE  y \in 0..(n - 1)
    BY <1>7
  <1> QED
    BY <1>1, <1>3, <1>4, <1>5, <1>6, <1>7

LEMMA RaceInit == R!Init => RaceInv
  BY RaceSizes DEF R!Init, RaceInv, R!TypeOK

\* The types of the cursor and of what a CPU has read.
LEMMA RaceTypes ==
    ASSUME RaceInv, NEW c \in CPUS, R!screen_putchar(c)
    PROVE  R!TypeOK'
  <1> USE RaceSizes
  <1>1. /\ race_x \in 0..(BYTE - 1) /\ race_y \in 0..(BYTE - 1) /\ reg \in [CPUS -> 0..(BYTE - 1)]
        /\ reg[c] \in Nat /\ reg[c] + 1 \in Nat /\ 0 \in 0..(BYTE - 1)
    BY DEF RaceInv, R!TypeOK
  <1>2. reg' \in [CPUS -> 0..(BYTE - 1)]
    <2>1. reg' = reg \/ \E v \in {0, race_x, race_y} : reg' = [reg EXCEPT ![c] = v]
      BY DEF R!screen_putchar, R!mv_cur, R!Test, R!Scroll, R!Row, R!Stored, R!Return, R!Newline,
         R!LineRead, R!Down,
             R!ColumnRead, R!Right, R!Wrap, R!WrapRow, R!WrapAdd, R!WrapColumn, R!WrapMod, R!Keep,
               R!Drop
    <2> QED
      BY <1>1, <2>1
  <1>3. reg[c] + race_x \div SCREEN_WIDTH \in Nat
    <2>1. race_x \in Nat
      BY <1>1
    <2>2. PICK lines \in Nat : lines = race_x \div SCREEN_WIDTH
      BY <2>1
    <2>3. reg[c] + lines \in Nat
      BY <1>1, SMTT(30)
    <2> QED
      BY <2>2, <2>3, Zenon
  <1>4. race_x' \in {race_x, 0, (reg[c] + 1) % BYTE, reg[c] % SCREEN_WIDTH}
    BY DEF R!screen_putchar, R!mv_cur, R!Test, R!Scroll, R!Row, R!Stored, R!Return, R!Newline,
       R!LineRead, R!Down,
             R!ColumnRead, R!Right, R!Wrap, R!WrapRow, R!WrapAdd, R!WrapColumn, R!WrapMod
  <1>5. race_y' \in {race_y, SCREEN_HEIGHT - 1, (reg[c] + 1) % BYTE,
                    (reg[c] + race_x \div SCREEN_WIDTH) % BYTE}
    BY DEF R!screen_putchar, R!mv_cur, R!Test, R!Scroll, R!Row, R!Stored, R!Return, R!Newline,
       R!LineRead, R!Down,
             R!ColumnRead, R!Right, R!Wrap, R!WrapRow, R!WrapAdd, R!WrapColumn, R!WrapMod
  <1>6. SCREEN_HEIGHT - 1 \in 0..(BYTE - 1)
    OBVIOUS
  <1>7. (reg[c] + 1) % BYTE \in 0..(BYTE - 1) /\ reg[c] % SCREEN_WIDTH \in 0..(BYTE - 1)
        /\ (reg[c] + race_x \div SCREEN_WIDTH) % BYTE \in 0..(BYTE - 1)
    BY <1>1, <1>3
  <1>8. race_x' \in 0..(BYTE - 1)
    BY <1>1, <1>4, <1>7, Zenon
  <1>9. race_y' \in 0..(BYTE - 1)
    BY <1>1, <1>5, <1>6, <1>7, Zenon
  <1> QED
    BY <1>2, <1>8, <1>9 DEF R!TypeOK

\* Every step preserves the invariant.
LEMMA RaceStep == RaceInv /\ [R!Next]_R!vars => RaceInv'
  <1> SUFFICES ASSUME RaceInv, R!Next PROVE RaceInv'
    BY DEF R!vars, RaceInv, R!TypeOK, R!Moving
  <1>1. PICK c \in CPUS : R!screen_putchar(c)
    BY DEF R!Next
  <1>2. R!TypeOK'
    BY <1>1, RaceTypes
  <1>3. DOMAIN race_pc' = CPUS
    BY <1>1 DEF RaceInv, R!screen_putchar, R!mv_cur, R!Test, R!Scroll, R!Row, R!Stored, R!Return,
       R!Newline, R!LineRead,
             R!Down, R!ColumnRead, R!Right, R!Wrap, R!WrapRow, R!WrapAdd, R!WrapColumn, R!WrapMod, R!Go
  <1>4. race_x' <= SCREEN_WIDTH \/ c \in R!Moving' \/ (race_x' = race_x /\ c \notin R!Moving)
        \/ (race_x' = race_x /\ race_x <= SCREEN_WIDTH)
    <2>1. CASE R!Test(c) \/ R!Scroll(c) \/ R!Row(c) \/ R!LineRead(c) \/ R!Down(c)
      BY <2>1 DEF RaceInv, R!Moving, R!Test, R!Scroll, R!Row, R!LineRead, R!Down, R!Go
    <2>2. CASE R!Stored(c) \/ R!ColumnRead(c) \/ R!Right(c) \/ R!WrapRow(c) \/ R!WrapAdd(c)
                 \/ R!WrapColumn(c)
      BY <2>2 DEF RaceInv, R!Moving, R!Stored, R!ColumnRead, R!Right, R!WrapRow, R!WrapAdd,
         R!WrapColumn, R!Go
    <2>3. CASE R!Return(c) \/ R!Newline(c)
      BY <2>3, RaceSizes DEF R!Return, R!Newline
    <2>4. CASE R!WrapMod(c)
      <3>1. race_x' = reg[c] % SCREEN_WIDTH /\ reg[c] \in 0..(BYTE - 1)
        BY <2>4 DEF R!WrapMod, RaceInv, R!TypeOK
      <3> QED
        BY <3>1, RaceSizes
    <2>5. CASE R!Wrap(c)
      <3>1. race_x \in Nat /\ SCREEN_WIDTH \in Nat
        BY RaceSizes DEF RaceInv, R!TypeOK
      <3> QED
        BY <2>5, <3>1 DEF RaceInv, R!Moving, R!Wrap, R!Go
    <2> QED
      BY <1>1, <2>1, <2>2, <2>3, <2>4, <2>5 DEF R!screen_putchar, R!mv_cur
  <1>5. \A d \in CPUS : d # c => race_pc'[d] = race_pc[d]
    BY <1>1 DEF RaceInv, R!screen_putchar, R!mv_cur, R!Test, R!Scroll, R!Row, R!Stored, R!Return,
       R!Newline, R!LineRead,
             R!Down, R!ColumnRead, R!Right, R!Wrap, R!WrapRow, R!WrapAdd, R!WrapColumn, R!WrapMod, R!Go
  <1>6. race_x' <= SCREEN_WIDTH \/ R!Moving' # {}
    BY <1>4, <1>5 DEF RaceInv, R!Moving
  <1> QED
    BY <1>2, <1>3, <1>6 DEF RaceInv

\* What it says of an undisturbed character.
LEMMA CursorComesBack == RaceInv => R!CursorRecovers
  BY DEF RaceInv, R!CursorRecovers

-----------------------------------------------------------------------------
(* The snake (module Snake).                                              *)

\* The head is where the last move put it, next to its neck.
SnakeInv ==
    /\ S!TypeOK /\ S!Connected /\ S!NeverTurnsBack
    /\ direction \in S!Unit
    /\ snake[1] = S!Step(snake[2], direction)

\* What the constants of Snake satisfy.
LEMMA SnakeSizes ==
    /\ SNAKE_WIDTH \in Nat /\ SNAKE_WIDTH > 2 /\ SNAKE_HEIGHT \in Nat /\ SNAKE_HEIGHT > 2
    /\ InitialLen \in Nat /\ MAX_LEN \in Nat /\ 2 < InitialLen /\ InitialLen <= MAX_LEN
    /\ Interval \in Nat \ {0}
    /\ StartX \in (InitialLen - 1)..(SNAKE_WIDTH - 1)
    /\ StartY \in 0..(SNAKE_HEIGHT - 1)
  BY PartsAssumption DEF S!SnakeAssumption

\* One step along a side of the torus.
Turn(w, x, e) == (w + x + e) % w

LEMMA TurnIs ==
    ASSUME NEW w \in Nat, w > 2, NEW x \in 0..(w - 1), NEW e \in {-1, 0, 1}
    PROVE  Turn(w, x, e) = IF x + e < 0 THEN w - 1 ELSE IF x + e = w THEN 0 ELSE x + e
  <1>1. CASE x + e < 0
    <2>1. x = 0 /\ e = -1 /\ w + x + e = w - 1
      BY <1>1
    <2>2. (w - 1) % w = w - 1
      OBVIOUS
    <2> QED
      BY <1>1, <2>1, <2>2 DEF Turn
  <1>2. CASE x + e = w
    <2>1. w + x + e = 2 * w
      BY <1>2
    <2>2. (2 * w) % w = 0
      OBVIOUS
    <2> QED
      BY <1>2, <2>1, <2>2 DEF Turn
  <1>3. CASE x + e >= 0 /\ x + e # w
    <2>1. PICK y \in 0..(w - 1) : y = x + e
      BY <1>3
    <2>2. (w + y) % w = y
      OBVIOUS
    <2>3. w + x + e = w + y
      BY <2>1
    <2> QED
      BY <1>3, <2>1, <2>2, <2>3 DEF Turn
  <1> QED
    BY <1>1, <1>2, <1>3

\* Two such steps come back only if the second undoes the first.
LEMMA TwoSteps ==
    ASSUME NEW w \in Nat, w > 2, NEW x \in 0..(w - 1), NEW e \in {-1, 0, 1}, NEW f \in {-1, 0, 1},
           Turn(w, Turn(w, x, e), f) = x
    PROVE  e + f = 0
  <1>1. PICK y : y = Turn(w, x, e)
    OBVIOUS
  <1>2. y = IF x + e < 0 THEN w - 1 ELSE IF x + e = w THEN 0 ELSE x + e
    BY <1>1, TurnIs
  <1>3. y \in 0..(w - 1)
    BY <1>2
  <1>4. x = IF y + f < 0 THEN w - 1 ELSE IF y + f = w THEN 0 ELSE y + f
    BY <1>1, <1>3, TurnIs
  <1> QED
    BY <1>2, <1>3, <1>4

\* A step ends on the screen.
LEMMA StepCell ==
    ASSUME NEW c \in S!Cell, NEW d \in S!Direction
    PROVE  S!Step(c, d) \in S!Cell
  <1>1. ASSUME NEW w \in Nat \ {0}, NEW v \in Int PROVE v % w \in 0..(w - 1)
    OBVIOUS
  <1>2. SNAKE_WIDTH \in Nat \ {0} /\ SNAKE_HEIGHT \in Nat \ {0}
    BY SnakeSizes
  <1>3. c.x \in Int /\ c.y \in Int /\ d.x \in Int /\ d.y \in Int
    BY DEF S!Cell, S!Direction
  <1>4. SNAKE_WIDTH + c.x + d.x \in Int /\ SNAKE_HEIGHT + c.y + d.y \in Int
    BY <1>2, <1>3
  <1>5. (SNAKE_WIDTH + c.x + d.x) % SNAKE_WIDTH \in 0..(SNAKE_WIDTH - 1)
    BY <1>1, <1>2, <1>4
  <1>6. (SNAKE_HEIGHT + c.y + d.y) % SNAKE_HEIGHT \in 0..(SNAKE_HEIGHT - 1)
    BY <1>1, <1>2, <1>4
  <1> QED
    BY <1>5, <1>6 DEF S!Step, S!Cell

\* A round trip of two steps takes opposite directions.
LEMMA BackIsOpposite ==
    ASSUME NEW c \in S!Cell, NEW d \in S!Direction, NEW e \in S!Direction, S!Step(S!Step(c, e), d) = c
    PROVE  e.x + d.x = 0 /\ e.y + d.y = 0
  <1>1. /\ c.x \in 0..(SNAKE_WIDTH - 1) /\ c.y \in 0..(SNAKE_HEIGHT - 1)
        /\ d.x \in {-1, 0, 1} /\ d.y \in {-1, 0, 1} /\ e.x \in {-1, 0, 1} /\ e.y \in {-1, 0, 1}
    BY DEF S!Cell, S!Direction
  <1>2. Turn(SNAKE_WIDTH, Turn(SNAKE_WIDTH, c.x, e.x), d.x) = c.x
    BY DEF S!Step, Turn
  <1>3. Turn(SNAKE_HEIGHT, Turn(SNAKE_HEIGHT, c.y, e.y), d.y) = c.y
    BY DEF S!Step, Turn
  <1>4. e.x + d.x = 0
    BY <1>1, <1>2, SnakeSizes, TwoSteps
  <1>5. e.y + d.y = 0
    BY <1>1, <1>3, SnakeSizes, TwoSteps
  <1> QED
    BY <1>4, <1>5

LEMMA SnakeInit == S!Init => SnakeInv
  <1> SUFFICES ASSUME S!Init PROVE SnakeInv
    OBVIOUS
  <1> USE SnakeSizes
  <1> DEFINE seg(i) == [x |-> StartX - (i - 1), y |-> StartY]
  <1>1. \A i \in 1..InitialLen : seg(i) \in S!Cell /\ StartX - (i - 1) \in Nat
    BY DEF S!Cell
  <1>2. snake = [i \in 1..InitialLen |-> seg(i)] /\ Len(snake) = InitialLen
    BY DEF S!Init
  <1>3. snake \in Seq(S!Cell)
    <2> HIDE DEF seg
    <2>1. \A i \in 1..InitialLen : seg(i) \in S!Cell
      BY <1>1
    <2>2. snake \in [1..InitialLen -> S!Cell]
      BY <1>2, <2>1
    <2> QED
      BY <2>2
  <1>4. direction = [x |-> 1, y |-> 0] /\ direction \in S!Direction /\ direction \in S!Unit
    BY DEF S!Init, S!Direction, S!Unit
  <1>5. \A i \in 1..(InitialLen - 1) : seg(i) = S!Step(seg(i + 1), direction)
    <2> SUFFICES ASSUME NEW i \in 1..(InitialLen - 1) PROVE seg(i) = S!Step(seg(i + 1), direction)
      OBVIOUS
    <2>1. PICK x \in 0..(SNAKE_WIDTH - 1) : x = StartX - ((i + 1) - 1) /\ x + 1 = StartX - (i - 1)
                                            /\ x + 1 < SNAKE_WIDTH
      OBVIOUS
    <2>2. Turn(SNAKE_WIDTH, x, 1) = x + 1
      BY <2>1, TurnIs
    <2>3. Turn(SNAKE_HEIGHT, StartY, 0) = StartY
      BY TurnIs
    <2> QED
      BY <1>4, <2>1, <2>2, <2>3 DEF S!Step, Turn
  <1>6. S!TypeOK
    <2>1. Len(snake) \in InitialLen..MAX_LEN /\ iterations \in 0..(Interval - 1)
            /\ drawn \subseteq S!Cell
      BY <1>2 DEF S!Init
    <2> QED
      BY <1>3, <1>4, <2>1 DEF S!TypeOK
  <1>7. \A i \in 1..(InitialLen - 1) : snake[i] = seg(i) /\ snake[i + 1] = seg(i + 1)
    BY <1>2
  <1>8. S!Connected
    BY <1>2, <1>4, <1>5, <1>7, ZenonT(60) DEF S!Connected
  <1>9. snake[1] = S!Step(snake[2], direction)
    <2>1. 1 \in 1..(InitialLen - 1) /\ 1 + 1 = 2
      OBVIOUS
    <2> HIDE DEF seg
    <2> QED
      BY <1>5, <1>7, <2>1
  <1>10. S!NeverTurnsBack
    <2>1. snake[1].x = StartX /\ snake[3].x = StartX - 2
      BY <1>2
    <2> QED
      BY <2>1 DEF S!NeverTurnsBack
  <1> QED
    BY <1>4, <1>6, <1>8, <1>9, <1>10 DEF SnakeInv

\* change_dir never turns the snake back.
LEMMA ChangedDir ==
    ASSUME SnakeInv, NEW status \in SUBSET S!Key
    PROVE  LET d == S!change_dir(status)
           IN  d \in S!Unit /\ d \in S!Direction /\ ~(d.x + direction.x = 0 /\ d.y + direction.y = 0)
  <1> DEFINE d == S!change_dir(status)
             n == S!Chosen(status)
  <1>1. direction \in S!Unit /\ direction \in S!Direction
    BY DEF SnakeInv, S!TypeOK
  <1>2. direction.x + direction.x = 0 /\ direction.y + direction.y = 0 => FALSE
    BY <1>1 DEF S!Unit, S!Direction
  <1>3. n \in S!Direction /\ (n = [x |-> 0, y |-> 0] \/ n \in S!Unit)
    BY DEF S!Chosen, S!Direction, S!Unit
  <1>4. d = direction \/ (d = n /\ n \in S!Unit /\ ~(n.x + direction.x = 0 /\ n.y + direction.y = 0))
    <2> HIDE DEF n
    <2> QED
      BY <1>3 DEF S!change_dir, n
  <1> QED
    BY <1>1, <1>2, <1>3, <1>4

\* enlarge_snake keeps the segments and adds one at most.
LEMMA Enlarged ==
    ASSUME SnakeInv
    PROVE  LET s == S!enlarge_snake(snake)
           IN  /\ s \in Seq(S!Cell) /\ Len(s) \in InitialLen..MAX_LEN
               /\ Len(snake) \in Nat /\ Len(s) \in Len(snake)..(Len(snake) + 1) /\ Len(snake) > 2
               /\ \A i \in 1..Len(snake) : s[i] = snake[i]
  <1> USE SnakeSizes
  <1> DEFINE s == S!enlarge_snake(snake)
             l == snake[Len(snake)]
  <1>1. snake \in Seq(S!Cell) /\ Len(snake) \in InitialLen..MAX_LEN /\ Len(snake) \in Nat
          /\ Len(snake) > 2
    BY DEF SnakeInv, S!TypeOK
  <1>2. l \in S!Cell
    BY <1>1
  <1>3. s = snake \/ (s = Append(snake, l) /\ Len(snake) # MAX_LEN)
    BY DEF S!enlarge_snake
  <1> HIDE DEF s, l
  <1>4. CASE s = snake
    BY <1>1, <1>4 DEF s
  <1>5. CASE s = Append(snake, l) /\ Len(snake) # MAX_LEN
    <2>1. s \in Seq(S!Cell) /\ Len(s) = Len(snake) + 1 /\ \A i \in 1..Len(snake) : s[i] = snake[i]
      BY <1>1, <1>2, <1>5
    <2>2. Len(s) \in InitialLen..MAX_LEN /\ Len(s) \in Len(snake)..(Len(snake) + 1)
      BY <1>1, <1>5, <2>1
    <2> QED
      BY <1>1, <2>1, <2>2 DEF s
  <1> QED
    BY <1>3, <1>4, <1>5

\* A round of the loop: turn, grow, move and draw.
LEMMA RoundInv ==
    ASSUME SnakeInv, NEW status \in SUBSET S!Key, S!Round(status)
    PROVE  SnakeInv'
  <1> USE SnakeSizes
  <1>1. PICK d : /\ d = S!change_dir(status) /\ d \in S!Unit /\ d \in S!Direction
                 /\ ~(d.x + direction.x = 0 /\ d.y + direction.y = 0)
    BY ChangedDir
  <1>2. PICK s : /\ s = S!enlarge_snake(snake) /\ s \in Seq(S!Cell) /\ Len(s) \in InitialLen..MAX_LEN
                 /\ Len(snake) \in Nat /\ Len(s) \in Len(snake)..(Len(snake) + 1) /\ Len(snake) > 2
                 /\ \A i \in 1..Len(snake) : s[i] = snake[i]
    BY Enlarged
  <1>3. direction' = d /\ snake' = [i \in 1..Len(s) |-> IF i = 1 THEN S!Step(s[1], d) ELSE s[i - 1]]
    BY <1>1, <1>2 DEF S!Round, S!move_snake
  <1>4. Len(s) \in Nat /\ Len(s) > 2
    BY <1>2
  <1>5. \A i \in 1..Len(s) : s[i] \in S!Cell /\ (i # 1 => s[i - 1] \in S!Cell)
    BY <1>2, <1>4
  <1>6. S!Step(s[1], d) \in S!Cell
    BY <1>1, <1>4, <1>5, StepCell
  <1>7. Len(snake') = Len(s) /\ snake' \in Seq(S!Cell)
    BY <1>3, <1>4, <1>5, <1>6
  <1>8. /\ snake'[1] = S!Step(s[1], d) /\ \A i \in 2..Len(s) : snake'[i] = s[i - 1]
        /\ \A i \in 1..Len(s) : snake'[i] \in S!Cell
    BY <1>3, <1>4, <1>5, <1>6
  <1>9. S!TypeOK'
    <2>1. drawn' \subseteq S!Cell
      BY <1>7, <1>8 DEF S!Round, S!draw_snake
    <2>2. iterations' \in 0..(Interval - 1)
      BY DEF S!Round, SnakeInv, S!TypeOK
    <2> QED
      BY <1>1, <1>2, <1>3, <1>7, <2>1, <2>2 DEF S!TypeOK
  <1>10. snake'[2] = s[1] /\ s[1] = snake[1] /\ snake'[3] = s[2] /\ s[2] = snake[2]
    <2>1. 2 \in 2..Len(s) /\ 3 \in 2..Len(s) /\ 2 - 1 = 1 /\ 3 - 1 = 2
      BY <1>2, <1>4
    <2>2. snake'[2] = s[1] /\ snake'[3] = s[2]
      BY <1>8, <2>1
    <2>3. 1 \in 1..Len(snake) /\ 2 \in 1..Len(snake)
      BY <1>2
    <2>4. s[1] = snake[1] /\ s[2] = snake[2]
      BY <1>2, <2>3
    <2> QED
      BY <2>2, <2>4
  <1>11. S!Connected'
    <2> SUFFICES ASSUME NEW i \in 1..(Len(s) - 1)
                 PROVE  \E e \in S!Unit : snake'[i] = S!Step(snake'[i + 1], e)
      BY <1>7 DEF S!Connected, S!Unit, S!Direction, S!Step
    <2>1. CASE i = 1
      BY <1>1, <1>8, <1>10, <2>1
    <2>2. CASE i # 1
      <3>1. i \in 2..Len(s) /\ i + 1 \in 2..Len(s) /\ i - 1 \in 1..(Len(snake) - 1)
            /\ i - 1 \in 1..Len(snake) /\ i \in 1..Len(snake) /\ (i + 1) - 1 = i /\ (i - 1) + 1 = i
        BY <1>2, <1>4, <2>2
      <3>2. snake'[i] = snake[i - 1] /\ snake'[i + 1] = snake[i]
        BY <1>2, <1>8, <3>1
      <3>3. \E e \in S!Unit : snake[i - 1] = S!Step(snake[(i - 1) + 1], e)
        BY <3>1 DEF SnakeInv, S!Connected
      <3> QED
        BY <3>1, <3>2, <3>3
    <2> QED
      BY <2>1, <2>2
  <1>12. S!NeverTurnsBack'
    <2> SUFFICES ASSUME snake'[1] = snake'[3] PROVE FALSE
      BY DEF S!NeverTurnsBack
    <2>1. snake[2] \in S!Cell /\ direction \in S!Direction /\ snake[1] = S!Step(snake[2], direction)
      BY <1>2 DEF SnakeInv, S!TypeOK
    <2>2. S!Step(S!Step(snake[2], direction), d) = snake[2]
      BY <1>8, <1>10, <2>1
    <2>3. direction.x + d.x = 0 /\ direction.y + d.y = 0
      BY <1>1, <2>1, <2>2, BackIsOpposite
    <2>4. direction.x \in Int /\ direction.y \in Int /\ d.x \in Int /\ d.y \in Int
      BY <1>1, <2>1 DEF S!Direction
    <2> QED
      BY <1>1, <2>3, <2>4
  <1>13. direction' \in S!Unit' /\ snake'[1] = S!Step(snake'[2], direction')
    BY <1>1, <1>3, <1>8, <1>10 DEF S!Unit, S!Direction
  <1> QED
    BY <1>9, <1>11, <1>12, <1>13 DEF SnakeInv, S!Step

\* Every step preserves the invariant.
LEMMA SnakeStep == SnakeInv /\ [S!Next]_S!vars => SnakeInv'
  <1> SUFFICES ASSUME SnakeInv, [S!Next]_S!vars PROVE SnakeInv'
    OBVIOUS
  <1>1. CASE UNCHANGED S!vars
    BY <1>1 DEF S!vars, SnakeInv, S!TypeOK, S!Connected, S!NeverTurnsBack, S!Unit, S!Direction,
       S!Cell, S!Step
  <1>2. CASE S!Next
    BY <1>2, RoundInv DEF S!Next
  <1> QED
    BY <1>1, <1>2

\* What it says of the snake.
LEMMA SnakesSound == SnakeInv => S!SnakeSound
  BY DEF SnakeInv, S!SnakeSound

-----------------------------------------------------------------------------
(* The text consoles (module Console).                                    *)

\* A set of numbers has a smallest one; it stands for induction.
LEMMA Smallest ==
    ASSUME NEW set, set \subseteq Nat, set # {}
    PROVE  \E x \in set : \A y \in set : x <= y
  <1> DEFINE rel == OpToRel(<, Nat)
  <1>1. IsWellFoundedOn(rel, Nat)
    BY NatLessThanWellFounded
  <1>2. \A x, y \in Nat : <<y, x>> \in rel <=> y < x
    BY DEF OpToRel
  <1> HIDE DEF rel
  <1>3. PICK x \in set : \A y \in set : ~(<<y, x>> \in rel)
    BY <1>1, WFMin
  <1>4. \A y \in set : x <= y
    <2> SUFFICES ASSUME NEW y \in set PROVE x <= y
      OBVIOUS
    <2>1. x \in Nat /\ y \in Nat
      OBVIOUS
    <2>2. ~(y < x)
      BY <1>2, <1>3, <2>1, Zenon
    <2> QED
      BY <2>1, <2>2
  <1> QED
    BY <1>4

\* The largest number of a bounded set.
LEMMA LargestIn ==
    ASSUME NEW n \in Nat, NEW set, set \subseteq 1..n, set # {}
    PROVE  C!Max(set) \in set
  <1> DEFINE dist == {n - x : x \in set}
  <1>1. dist \subseteq Nat /\ dist # {}
    <2>1. \A x \in set : x \in 1..n /\ n - x \in Nat
      OBVIOUS
    <2> QED
      BY <2>1
  <1>2. PICK y \in dist : \A z \in dist : y <= z
    <2> HIDE DEF dist
    <2> QED
      BY <1>1, Smallest
  <1>3. PICK x \in set : y = n - x
    OBVIOUS
  <1>4. \A z \in set : x >= z
    <2> SUFFICES ASSUME NEW z \in set PROVE x >= z
      OBVIOUS
    <2>1. n - x <= n - z
      BY <1>2, <1>3
    <2>2. x \in Nat /\ z \in Nat
      OBVIOUS
    <2> QED
      BY <2>1, <2>2
  <1> QED
    BY <1>4 DEF C!Max

\* The largest number of a set is one that no other exceeds.
LEMMA MaxIs ==
    ASSUME NEW set, NEW m \in set, set \subseteq Nat, \A x \in set : x <= m
    PROVE  C!Max(set) = m
  <1>1. \A y \in set : m >= y
    OBVIOUS
  <1>2. C!Max(set) \in set /\ \A y \in set : C!Max(set) >= y
    BY <1>1 DEF C!Max
  <1>3. PICK x \in Nat : x = C!Max(set)
    BY <1>2
  <1>4. x >= m /\ x <= m /\ m \in Nat
    BY <1>2, <1>3
  <1> QED
    BY <1>3, <1>4

\* What the constants of Console satisfy.
LEMMA ConsoleSizes ==
    /\ SCREEN_WIDTH \in Nat /\ SCREEN_WIDTH > 1 /\ SCREEN_HEIGHT \in Nat /\ SCREEN_HEIGHT > 0
    /\ C!Size \in Nat /\ C!Size > 0
    /\ "newline" \notin Printable /\ "return" \notin Printable /\ "blank" \notin Printable
  BY PartsAssumption, Z3 DEF C!Size, C!ConsoleAssumption

\* The top row when a row is the lowest in use.
LEMMA TopIs ==
    ASSUME NEW l \in Nat
    PROVE  C!Top(l) = IF l < SCREEN_HEIGHT THEN 0 ELSE l - SCREEN_HEIGHT + 1
  <1>1. l - SCREEN_HEIGHT + 1 \in Int /\ SCREEN_HEIGHT \in Nat
    BY ConsoleSizes
  <1>2. PICK d \in Int : d = l - SCREEN_HEIGHT + 1
    BY <1>1
  <1>3. C!Max({0, d}) = IF d <= 0 THEN 0 ELSE d
    BY DEF C!Max
  <1> QED
    BY <1>1, <1>2, <1>3 DEF C!Top
-----------------------------------------------------------------------------
(* The cells of the screen *)

\* The index of the cell in row r and column x.
Cell(r, x) == r * SCREEN_WIDTH + x

\* A cell of the screen, or the one behind the end of a line, is in the memory.
LEMMA CellInside ==
    ASSUME NEW r \in 0..(SCREEN_HEIGHT - 1), NEW x \in 0..SCREEN_WIDTH
    PROVE  Cell(r, x) \in 0..C!Size /\ (x < SCREEN_WIDTH => Cell(r, x) < C!Size)
  <1>1. SCREEN_WIDTH \in Nat /\ SCREEN_HEIGHT \in Nat /\ r \in Nat /\ r <= SCREEN_HEIGHT - 1
    BY ConsoleSizes
  <1>2. r * SCREEN_WIDTH <= (SCREEN_HEIGHT - 1) * SCREEN_WIDTH /\ r * SCREEN_WIDTH \in Nat
    BY <1>1, Z3
  <1>3. (SCREEN_HEIGHT - 1) * SCREEN_WIDTH = C!Size - SCREEN_WIDTH
    BY <1>1, Z3 DEF C!Size
  <1> QED
    BY <1>1, <1>2, <1>3, ConsoleSizes DEF Cell

\* Different places have different cells.
LEMMA CellsDiffer ==
    ASSUME NEW r \in Nat, NEW s \in Nat, NEW x \in 0..(SCREEN_WIDTH - 1),
             NEW y \in 0..(SCREEN_WIDTH - 1),
           Cell(r, x) = Cell(s, y)
    PROVE  r = s /\ x = y
  <1>1. ASSUME NEW a \in Nat, NEW b \in Nat,
                 a < b PROVE a * SCREEN_WIDTH + SCREEN_WIDTH <= b * SCREEN_WIDTH
    <2>1. b = a + 1 + (b - a - 1) /\ b - a - 1 \in Nat
      BY <1>1
    <2>2. PICK d \in Nat : b = a + 1 + d
      BY <2>1
    <2>3. SCREEN_WIDTH \in Nat
      BY ConsoleSizes
    <2>4. (a + 1 + d) * SCREEN_WIDTH = a * SCREEN_WIDTH + SCREEN_WIDTH + d * SCREEN_WIDTH
          /\ d * SCREEN_WIDTH \in Nat /\ a * SCREEN_WIDTH \in Nat
      BY <2>3, Z3
    <2> QED
      BY <2>2, <2>3, <2>4
  <1>2. r * SCREEN_WIDTH \in Nat /\ s * SCREEN_WIDTH \in Nat /\ SCREEN_WIDTH \in Nat
    BY ConsoleSizes
  <1>3. ~(r < s) /\ ~(s < r)
    BY <1>1, <1>2 DEF Cell
  <1>4. r = s
    BY <1>3
  <1> QED
    BY <1>2, <1>4 DEF Cell

\* Rows move up by one, and the lowest becomes empty.
LEMMA MovedCell ==
    ASSUME NEW mem, NEW r \in 0..(SCREEN_HEIGHT - 1), NEW x \in 0..(SCREEN_WIDTH - 1)
    PROVE  C!move_screen(mem)[Cell(r, x)] = IF r < SCREEN_HEIGHT - 1
             THEN mem[Cell(r + 1, x)] ELSE "blank"
  <1>1. /\ SCREEN_WIDTH \in Nat /\ SCREEN_HEIGHT \in Nat /\ r \in Nat /\ x \in Nat
        /\ x < SCREEN_WIDTH /\ C!Size \in Nat
    BY ConsoleSizes
  <1>2. Cell(r, x) \in 0..C!Size /\ Cell(r, x) < C!Size
    BY <1>1, CellInside
  <1>3. r * SCREEN_WIDTH \in Nat /\ Cell(r, x) + SCREEN_WIDTH = Cell(r + 1, x)
    BY <1>1, Z3 DEF Cell
  <1>4. CASE r < SCREEN_HEIGHT - 1
    <2>1. r + 1 \in 0..(SCREEN_HEIGHT - 1) /\ 0 \in 0..SCREEN_WIDTH
            /\ SCREEN_HEIGHT - 1 \in 0..(SCREEN_HEIGHT - 1)
      BY <1>1, <1>4
    <2>2. (r + 1) * SCREEN_WIDTH <= (SCREEN_HEIGHT - 1) * SCREEN_WIDTH
      BY <1>1, <1>4, Z3
    <2>3. Cell(r, x) < SCREEN_WIDTH * (SCREEN_HEIGHT - 1)
      <3>1. (SCREEN_HEIGHT - 1) * SCREEN_WIDTH = SCREEN_WIDTH * (SCREEN_HEIGHT - 1)
        BY <1>1, Z3
      <3>2. (r + 1) * SCREEN_WIDTH = r * SCREEN_WIDTH + SCREEN_WIDTH
        BY <1>1, Z3
      <3>3. SCREEN_WIDTH * (SCREEN_HEIGHT - 1) \in Int
        BY <1>1
      <3> QED
        BY <1>1, <1>3, <2>2, <3>1, <3>2, <3>3 DEF Cell
    <2> QED
      BY <1>2, <1>3, <1>4, <2>3 DEF C!move_screen
  <1>5. CASE r = SCREEN_HEIGHT - 1
    <2>1. ~(Cell(r, x) < SCREEN_WIDTH * (SCREEN_HEIGHT - 1))
      <3>1. r * SCREEN_WIDTH = SCREEN_WIDTH * (SCREEN_HEIGHT - 1)
        BY <1>1, <1>5, Z3
      <3> QED
        BY <1>1, <1>3, <3>1 DEF Cell
    <2> QED
      BY <1>2, <1>5, <2>1 DEF C!move_screen
  <1> QED
    BY <1>1, <1>4, <1>5
-----------------------------------------------------------------------------
(* Texts on the page *)

\* Where the characters of a text go.
Placed(t, p) ==
    /\ p = [n \in 0..Len(t) |-> p[n]]
    /\ p[0] = [row |-> 0, col |-> 0]
    /\ \A n \in 1..Len(t) : p[n] = C!NextPlace(p[n - 1], t[n])

\* Lines end in time, and the text goes on downwards.
Downwards(t, p) ==
    \A n \in 0..Len(t) :
      /\ p[n] \in [row : Nat, col : 0..(SCREEN_WIDTH - 1)]
      /\ \A m \in 0..n : p[m].row <= p[n].row

\* The characters of a text that are put at a place of the page.
There(t, p, row, col) ==
    {n \in 1..Len(t) : t[n] \in Printable /\ p[n - 1] = [row |-> row, col |-> col]}

\* The last of them (Seen of module Console, for any text).
SeenIn(t, p, row, col) ==
    IF There(t, p, row, col) = {} THEN "blank" ELSE t[C!Max(There(t, p, row, col))]

\* A video memory shows the page from row top on.
ShownIn(mem, t, p, top) ==
    \A r \in 0..(SCREEN_HEIGHT - 1), x \in 0..(SCREEN_WIDTH - 1) :
      mem[Cell(r, x)] = SeenIn(t, p, top + r, x)

\* The reference's own function is such a p, if there is one.
LEMMA PlaceIs ==
    ASSUME Len(text) \in Nat, NEW p, Placed(text, p)
    PROVE  Placed(text, C!Place)
  <1> DEFINE Next1(f) == [n \in 0..Len(text) |-> IF n = 0 THEN [row |-> 0, col |-> 0]
                                             ELSE C!NextPlace(f[n - 1], text[n])]
             q == CHOOSE f : f = Next1(f)
  <1>1. p = Next1(p)
    <2>1. \A n \in 0..Len(text) : p[n] = Next1(p)[n]
      BY DEF Placed
    <2> HIDE DEF Next1
    <2>2. Next1(p) = [n \in 0..Len(text) |-> Next1(p)[n]]
      BY DEF Next1
    <2>3. [n \in 0..Len(text) |-> p[n]] = [n \in 0..Len(text) |-> Next1(p)[n]]
      BY <2>1
    <2> QED
      BY <2>2, <2>3 DEF Placed
  <1>2. q = Next1(q)
    BY <1>1
  <1>3. C!Place = q
    BY DEF C!Place
  <1>4. Placed(text, q)
    <2> HIDE DEF q
    <2>1. \A n \in 0..Len(text) : q[n] = IF n = 0 THEN [row |-> 0, col |-> 0]
                                        ELSE C!NextPlace(q[n - 1], text[n])
      BY <1>2
    <2>2. q = [n \in 0..Len(text) |-> q[n]]
      BY <1>2
    <2>3. q[0] = [row |-> 0, col |-> 0]
      BY <2>1
    <2>4. \A n \in 1..Len(text) : q[n] = C!NextPlace(q[n - 1], text[n])
      BY <2>1
    <2> QED
      BY <2>2, <2>3, <2>4 DEF Placed
  <1> QED
    BY <1>3, <1>4

\* One place of a longer text.
LEMMA PlacedBefore ==
    ASSUME NEW t \in Seq(C!Char), NEW c \in C!Char, NEW q, Placed(Append(t, c), q)
    PROVE  LET p == [n \in 0..Len(t) |-> q[n]]
           IN  Placed(t, p) /\ q[Len(t) + 1] = C!NextPlace(p[Len(t)], c)
  <1> DEFINE p == [n \in 0..Len(t) |-> q[n]]
  <1>1. Len(t) \in Nat /\ Len(Append(t, c)) = Len(t) + 1 /\ Append(t, c)[Len(t) + 1] = c
        /\ \A n \in 1..Len(t) : Append(t, c)[n] = t[n]
    OBVIOUS
  <1>2. /\ q[0] = [row |-> 0, col |-> 0]
        /\ \A n \in 1..(Len(t) + 1) : q[n] = C!NextPlace(q[n - 1], Append(t, c)[n])
    BY <1>1 DEF Placed
  <1>3. q[Len(t) + 1] = C!NextPlace(q[Len(t)], c)
    <2>1. Len(t) + 1 \in 1..(Len(t) + 1) /\ Len(t) + 1 - 1 = Len(t)
      BY <1>1
    <2> QED
      BY <1>1, <1>2, <2>1
  <1>4. \A n \in 1..Len(t) : q[n] = C!NextPlace(q[n - 1], t[n])
    BY <1>1, <1>2
  <1>5. /\ \A n \in 0..Len(t) : p[n] = q[n]
        /\ p = [n \in 0..Len(t) |-> p[n]]
    OBVIOUS
  <1>6. \A n \in 1..Len(t) : p[n] = C!NextPlace(p[n - 1], t[n])
    <2>1. \A n \in 1..Len(t) : n \in 0..Len(t) /\ n - 1 \in 0..Len(t)
      BY <1>1
    <2> QED
      BY <1>4, <1>5, <2>1
  <1>7. p[0] = q[0] /\ p[Len(t)] = q[Len(t)]
    BY <1>1
  <1> HIDE DEF p
  <1>8. Placed(t, p) /\ q[Len(t) + 1] = C!NextPlace(p[Len(t)], c)
    BY <1>2, <1>3, <1>5, <1>6, <1>7 DEF Placed
  <1> QED
    BY <1>8 DEF p

\* A longer text has its places too.
LEMMA PlacedAfter ==
    ASSUME NEW t \in Seq(C!Char), NEW c \in C!Char, NEW p, Placed(t, p)
    PROVE  \E q : Placed(Append(t, c), q)
  <1> DEFINE q == [n \in 0..(Len(t) + 1) |-> IF n = Len(t) + 1 THEN C!NextPlace(p[Len(t)], c) ELSE p[n]]
  <1>1. Len(t) \in Nat /\ Len(Append(t, c)) = Len(t) + 1 /\ Append(t, c)[Len(t) + 1] = c
        /\ \A n \in 1..Len(t) : Append(t, c)[n] = t[n]
    OBVIOUS
  <1>2. q[0] = [row |-> 0, col |-> 0] /\ q = [n \in 0..(Len(t) + 1) |-> q[n]]
    BY <1>1 DEF Placed
  <1>3. \A n \in 1..(Len(t) + 1) : q[n] = C!NextPlace(q[n - 1], Append(t, c)[n])
    <2> SUFFICES ASSUME NEW n \in 1..(Len(t) + 1)
                 PROVE  q[n] = C!NextPlace(q[n - 1], Append(t, c)[n])
      BY SMTT(30)
    <2>1. CASE n = Len(t) + 1
      <3>1. q[n] = C!NextPlace(p[Len(t)], c) /\ n - 1 \in 0..(Len(t) + 1) /\ n - 1 # Len(t) + 1
            /\ n - 1 = Len(t)
        BY <1>1, <2>1
      <3>2. q[n - 1] = p[Len(t)]
        BY <3>1
      <3> QED
        BY <1>1, <2>1, <3>1, <3>2
    <2>2. CASE n # Len(t) + 1
      <3>1. n \in 1..Len(t) /\ n - 1 \in 0..(Len(t) + 1) /\ n - 1 # Len(t) + 1
        BY <1>1, <2>2
      <3>2. q[n] = p[n] /\ q[n - 1] = p[n - 1]
        BY <1>1, <2>2, <3>1
      <3> QED
        BY <1>1, <3>1, <3>2 DEF Placed
    <2> QED
      BY <2>1, <2>2
  <1>4. Placed(Append(t, c), q)
    <2> HIDE DEF q
    <2> QED
      BY <1>1, <1>2, <1>3 DEF Placed
  <1> QED
    BY <1>4

\* A character takes the cell where it is put; everything else stays to be seen.
LEMMA SeenAppend ==
    ASSUME NEW t \in Seq(C!Char), NEW c \in C!Char, NEW p, NEW q,
           \A n \in 0..Len(t) : q[n] = p[n],
           NEW row, NEW col
    PROVE  SeenIn(Append(t, c), q, row, col)
             = IF c \in Printable /\ p[Len(t)] = [row |-> row, col |-> col] THEN c
               ELSE SeenIn(t, p, row, col)
  <1> DEFINE A == There(t, p, row, col)
             B == There(Append(t, c), q, row, col)
  <1>1. Len(t) \in Nat /\ Len(Append(t, c)) = Len(t) + 1 /\ Append(t, c)[Len(t) + 1] = c
        /\ \A n \in 1..Len(t) : Append(t, c)[n] = t[n]
    OBVIOUS
  <1>2. A \subseteq 1..Len(t) /\ B \subseteq 1..(Len(t) + 1)
    BY <1>1 DEF There
  <1>3. \A n \in 1..Len(t) : n \in B <=> n \in A
    <2>1. \A n \in 1..Len(t) : n \in 1..(Len(t) + 1) /\ n - 1 \in 0..Len(t)
      BY <1>1
    <2> QED
      BY <1>1, <2>1 DEF There
  <1>4. Len(t) + 1 \in B <=> c \in Printable /\ p[Len(t)] = [row |-> row, col |-> col]
    <2>1. Len(t) + 1 \in 1..(Len(t) + 1) /\ Len(t) + 1 - 1 = Len(t) /\ Len(t) \in 0..Len(t)
      BY <1>1
    <2> QED
      BY <1>1, <2>1 DEF There
  <1> HIDE DEF A, B
  <1>5. CASE Len(t) + 1 \in B
    <2>1. C!Max(B) = Len(t) + 1
      <3>1. \A x \in B : x \in Nat /\ x <= Len(t) + 1
        BY <1>1, <1>2
      <3> QED
        BY <1>5, <3>1, MaxIs
    <2> QED
      BY <1>1, <1>4, <1>5, <2>1 DEF SeenIn, B
  <1>6. CASE Len(t) + 1 \notin B
    <2>1. B = A
      <3>1. \A n \in 1..(Len(t) + 1) : n # Len(t) + 1 => n \in 1..Len(t)
        BY <1>1
      <3> QED
        BY <1>2, <1>3, <1>6, <3>1
    <2>2. A # {} => Append(t, c)[C!Max(A)] = t[C!Max(A)]
      BY <1>1, <1>2, LargestIn
    <2>3. SeenIn(Append(t, c), q, row, col) = IF A = {} THEN "blank" ELSE Append(t, c)[C!Max(A)]
      BY <2>1 DEF SeenIn, B
    <2>4. SeenIn(t, p, row, col) = IF A = {} THEN "blank" ELSE t[C!Max(A)]
      BY DEF SeenIn, A
    <2> QED
      BY <1>4, <1>6, <2>2, <2>3, <2>4
  <1> QED
    BY <1>5, <1>6

\* Below the text, nothing is to be seen.
LEMMA SeenBelow ==
    ASSUME NEW t \in Seq(C!Char), NEW p, NEW row \in Nat, NEW col,
           \A n \in 1..Len(t) : p[n - 1].row < row
    PROVE  SeenIn(t, p, row, col) = "blank"
  <1>1. ASSUME NEW n \in There(t, p, row, col) PROVE FALSE
    <2>1. n \in 1..Len(t) /\ p[n - 1] = [row |-> row, col |-> col]
      BY <1>1 DEF There
    <2>2. p[n - 1].row = row /\ p[n - 1].row < row
      BY <2>1
    <2> QED
      BY <2>2
  <1> QED
    BY <1>1 DEF SeenIn

\* Scrolling shows the page from the next row on.
LEMMA ScrollShown ==
    ASSUME NEW t \in Seq(C!Char), NEW p, NEW mem, NEW top \in Nat, ShownIn(mem, t, p, top),
           \A n \in 1..Len(t) : p[n - 1].row < top + SCREEN_HEIGHT
    PROVE  ShownIn(C!move_screen(mem), t, p, top + 1)
  <1> SUFFICES ASSUME NEW r \in 0..(SCREEN_HEIGHT - 1), NEW x \in 0..(SCREEN_WIDTH - 1)
               PROVE  C!move_screen(mem)[Cell(r, x)] = SeenIn(t, p, top + 1 + r, x)
    BY DEF ShownIn
  <1>1. SCREEN_HEIGHT \in Nat /\ r \in Nat
    BY ConsoleSizes
  <1>2. CASE r < SCREEN_HEIGHT - 1
    <2>1. r + 1 \in 0..(SCREEN_HEIGHT - 1) /\ top + 1 + r = top + (r + 1)
      BY <1>1, <1>2
    <2>2. mem[Cell(r + 1, x)] = SeenIn(t, p, top + (r + 1), x)
      BY <2>1 DEF ShownIn
    <2> QED
      BY <1>2, <2>1, <2>2, MovedCell
  <1>3. CASE ~(r < SCREEN_HEIGHT - 1)
    <2>1. top + 1 + r \in Nat /\ top + 1 + r = top + SCREEN_HEIGHT
      <3>1. r = SCREEN_HEIGHT - 1
        BY <1>1, <1>3
      <3> QED
        BY <1>1, <3>1
    <2>2. SeenIn(t, p, top + 1 + r, x) = "blank"
      BY <2>1, SeenBelow
    <2> QED
      BY <1>3, <2>2, MovedCell
  <1> QED
    BY <1>2, <1>3

\* A character under the cursor.
LEMMA StoreShown ==
    ASSUME NEW t \in Seq(C!Char), NEW c \in C!Char, NEW p, NEW q, \A n \in 0..Len(t) : q[n] = p[n],
           NEW mem, DOMAIN mem = 0..C!Size, NEW top \in Nat, ShownIn(mem, t, p, top),
           NEW y \in 0..(SCREEN_HEIGHT - 1), NEW x \in 0..(SCREEN_WIDTH - 1),
           p[Len(t)] = [row |-> top + y, col |-> x]
    PROVE  ShownIn(C!Store(mem, x, y, c), Append(t, c), q, top)
  <1> SUFFICES ASSUME NEW r \in 0..(SCREEN_HEIGHT - 1), NEW z \in 0..(SCREEN_WIDTH - 1)
               PROVE  C!Store(mem, x, y, c)[Cell(r, z)] = SeenIn(Append(t, c), q, top + r, z)
    BY DEF ShownIn
  <1>1. /\ SCREEN_HEIGHT \in Nat /\ SCREEN_WIDTH \in Nat
        /\ r \in Nat /\ y \in Nat /\ x \in 0..SCREEN_WIDTH /\ z \in 0..SCREEN_WIDTH
    BY ConsoleSizes
  <1>2. mem[Cell(r, z)] = SeenIn(t, p, top + r, z)
    BY DEF ShownIn
  <1>3. SeenIn(Append(t, c), q, top + r, z)
          = IF c \in Printable /\ p[Len(t)] = [row |-> top + r, col |-> z] THEN c
            ELSE SeenIn(t, p, top + r, z)
    <2>1. PICK row : row = top + r
      OBVIOUS
    <2>2. SeenIn(Append(t, c), q, row, z)
            = IF c \in Printable /\ p[Len(t)] = [row |-> row, col |-> z] THEN c
              ELSE SeenIn(t, p, row, z)
      BY SeenAppend
    <2> QED
      BY <2>1, <2>2
  <1>4. p[Len(t)] = [row |-> top + r, col |-> z] <=> r = y /\ z = x
    <2>1. [row |-> top + y, col |-> x] = [row |-> top + r, col |-> z] <=> top + y = top + r /\ z = x
      OBVIOUS
    <2> QED
      BY <1>1, <2>1
  <1>5. C!Store(mem, x, y, c) = IF c \in Printable THEN [mem EXCEPT ![Cell(y, x)] = c] ELSE mem
    BY DEF C!Store, Cell
  <1>6. Cell(r, z) \in DOMAIN mem /\ Cell(y, x) \in DOMAIN mem
    BY <1>1, CellInside
  <1>7. Cell(r, z) = Cell(y, x) <=> r = y /\ z = x
    BY <1>1, CellsDiffer
  <1> QED
    BY <1>2, <1>3, <1>4, <1>5, <1>6, <1>7
-----------------------------------------------------------------------------
(* One character *)

\* The cursor on the page stays in its row or goes to the next.
LEMMA NextPlaceIs ==
    ASSUME NEW h \in [row : Nat, col : 0..(SCREEN_WIDTH - 1)], NEW c
    PROVE  /\ C!NextPlace(h, c) \in [row : Nat, col : 0..(SCREEN_WIDTH - 1)]
           /\ C!NextPlace(h, c).row = h.row \/ C!NextPlace(h, c).row = h.row + 1
  <1>1. SCREEN_WIDTH \in Nat /\ SCREEN_WIDTH > 1 /\ h.row \in Nat /\ h.col \in 0..(SCREEN_WIDTH - 1)
    BY ConsoleSizes
  <1>2. CASE c = "return"
    BY <1>1, <1>2 DEF C!NextPlace
  <1>3. CASE c = "newline"
    BY <1>1, <1>3 DEF C!NextPlace
  <1>4. CASE c # "return" /\ c # "newline" /\ h.col = SCREEN_WIDTH - 1
    BY <1>1, <1>4 DEF C!NextPlace
  <1>5. CASE c # "return" /\ c # "newline" /\ h.col # SCREEN_WIDTH - 1
    BY <1>1, <1>5 DEF C!NextPlace
  <1> QED
    BY <1>2, <1>3, <1>4, <1>5

\* So a longer text goes downwards too.
LEMMA DownwardsAppend ==
    ASSUME NEW t \in Seq(C!Char), NEW c \in C!Char, NEW p, NEW q, \A n \in 0..Len(t) : q[n] = p[n],
           Downwards(t, p), q[Len(t) + 1] = C!NextPlace(p[Len(t)], c)
    PROVE  Downwards(Append(t, c), q)
  <1>1. Len(t) \in Nat /\ Len(Append(t, c)) = Len(t) + 1 /\ Len(t) \in 0..Len(t)
    OBVIOUS
  <1>2. /\ p[Len(t)] \in [row : Nat, col : 0..(SCREEN_WIDTH - 1)] /\ p[Len(t)].row \in Nat
        /\ \A m \in 0..Len(t) : p[m].row \in Nat /\ p[m].row <= p[Len(t)].row
    BY <1>1 DEF Downwards
  <1>3. /\ q[Len(t) + 1] \in [row : Nat, col : 0..(SCREEN_WIDTH - 1)]
        /\ q[Len(t) + 1].row = p[Len(t)].row \/ q[Len(t) + 1].row = p[Len(t)].row + 1
    BY <1>2, NextPlaceIs, ZenonT(60)
  <1> SUFFICES ASSUME NEW n \in 0..(Len(t) + 1)
               PROVE  /\ q[n] \in [row : Nat, col : 0..(SCREEN_WIDTH - 1)]
                      /\ \A m \in 0..n : q[m].row <= q[n].row
    BY <1>1 DEF Downwards
  <1>4. CASE n = Len(t) + 1
    <2> SUFFICES ASSUME NEW m \in 0..n PROVE q[m].row <= q[n].row
      BY <1>3, <1>4
    <2>1. CASE m = n
      BY <1>3, <1>4, <2>1
    <2>2. CASE m # n
      <3>1. m \in 0..Len(t)
        BY <1>1, <1>4, <2>2
      <3>2. q[m].row \in Nat /\ q[m].row <= p[Len(t)].row
        BY <1>2, <3>1
      <3> QED
        BY <1>2, <1>3, <1>4, <3>2, SMTT(30)
    <2> QED
      BY <2>1, <2>2
  <1>5. CASE n # Len(t) + 1
    <2>1. n \in 0..Len(t) /\ \A m \in 0..n : m \in 0..Len(t)
      BY <1>1, <1>5
    <2> QED
      BY <2>1 DEF Downwards
  <1> QED
    BY <1>4, <1>5

\* The driver's cursor follows the text.
LEMMA ServerCursor ==
    ASSUME NEW c \in C!Char, NEW x \in 0..(SCREEN_WIDTH - 1), NEW y \in Nat, NEW l \in Nat
    PROVE  LET pos == C!Wrapped(C!Moved(x, y, c), SCREEN_WIDTH - 1)
               to == C!NextPlace([row |-> l, col |-> x], c)
           IN  pos.x = to.col /\ pos.y = y + (to.row - l)
  <1>1. SCREEN_WIDTH \in Nat /\ SCREEN_WIDTH > 1 /\ x \in Nat /\ x < SCREEN_WIDTH
    BY ConsoleSizes
  <1>2. CASE c = "return"
    BY <1>1, <1>2 DEF C!NextPlace, C!Moved, C!Wrapped
  <1>3. CASE c = "newline"
    BY <1>1, <1>3 DEF C!NextPlace, C!Moved, C!Wrapped
  <1>4. CASE c # "return" /\ c # "newline" /\ x = SCREEN_WIDTH - 1
    <2>1. SCREEN_WIDTH % SCREEN_WIDTH = 0 /\ SCREEN_WIDTH \div SCREEN_WIDTH = 1
      BY <1>1
    <2>2. C!Moved(x, y, c) = [x |-> SCREEN_WIDTH, y |-> y]
      BY <1>1, <1>4 DEF C!Moved
    <2>3. C!Wrapped(C!Moved(x, y, c), SCREEN_WIDTH - 1) = [x |-> 0, y |-> y + 1]
      BY <1>1, <2>1, <2>2 DEF C!Wrapped
    <2>4. C!NextPlace([row |-> l, col |-> x], c) = [row |-> l + 1, col |-> 0]
      BY <1>4 DEF C!NextPlace
    <2> QED
      BY <2>3, <2>4
  <1>5. CASE c # "return" /\ c # "newline" /\ x # SCREEN_WIDTH - 1
    <2>1. C!Moved(x, y, c) = [x |-> x + 1, y |-> y] /\ ~(x + 1 > SCREEN_WIDTH - 1)
      BY <1>1, <1>5 DEF C!Moved
    <2>2. C!Wrapped(C!Moved(x, y, c), SCREEN_WIDTH - 1) = [x |-> x + 1, y |-> y]
      BY <2>1 DEF C!Wrapped
    <2>3. C!NextPlace([row |-> l, col |-> x], c) = [row |-> l, col |-> x + 1]
      BY <1>5 DEF C!NextPlace
    <2> QED
      BY <2>2, <2>3
  <1> QED
    BY <1>2, <1>3, <1>4, <1>5

\* The kernel's cursor does while lines fit.
LEMMA KernelCursor ==
    ASSUME NEW c \in C!Char, NEW x \in 0..(SCREEN_WIDTH - 1), NEW y \in Nat, NEW l \in Nat,
           x < SCREEN_WIDTH - 1 \/ c \notin Printable
    PROVE  LET pos == C!Wrapped(C!Moved(x, y, c), SCREEN_WIDTH)
               to == C!NextPlace([row |-> l, col |-> x], c)
           IN  pos.x = to.col /\ pos.y = y + (to.row - l)
  <1>1. SCREEN_WIDTH \in Nat /\ SCREEN_WIDTH > 1 /\ x \in Nat /\ x < SCREEN_WIDTH
    BY ConsoleSizes
  <1>2. CASE c = "return"
    BY <1>1, <1>2 DEF C!NextPlace, C!Moved, C!Wrapped
  <1>3. CASE c = "newline"
    BY <1>1, <1>3 DEF C!NextPlace, C!Moved, C!Wrapped
  <1>4. CASE c # "return" /\ c # "newline"
    <2>1. c \in Printable /\ x < SCREEN_WIDTH - 1
      BY <1>4 DEF C!Char
    <2>2. C!Moved(x, y, c) = [x |-> x + 1, y |-> y] /\ ~(x + 1 > SCREEN_WIDTH)
      BY <1>1, <1>4, <2>1 DEF C!Moved
    <2>3. C!Wrapped(C!Moved(x, y, c), SCREEN_WIDTH) = [x |-> x + 1, y |-> y]
      BY <2>2 DEF C!Wrapped
    <2>4. C!NextPlace([row |-> l, col |-> x], c) = [row |-> l, col |-> x + 1]
      BY <1>1, <1>4, <2>1 DEF C!NextPlace
    <2> QED
      BY <2>3, <2>4
  <1> QED
    BY <1>2, <1>3, <1>4

\* Otherwise it leaves the screen by one cell, or by one line, at most.
LEMMA KernelInside ==
    ASSUME NEW c, NEW x \in 0..SCREEN_WIDTH, NEW y \in Nat
    PROVE  LET pos == C!Wrapped(C!Moved(x, y, c), SCREEN_WIDTH)
           IN  pos.x \in 0..SCREEN_WIDTH /\ pos.y \in {y, y + 1}
  <1>1. SCREEN_WIDTH \in Nat /\ SCREEN_WIDTH > 1 /\ x \in Nat
    BY ConsoleSizes
  <1>2. CASE c = "return"
    BY <1>1, <1>2 DEF C!Moved, C!Wrapped
  <1>3. CASE c = "newline"
    BY <1>1, <1>3 DEF C!Moved, C!Wrapped
  <1>4. CASE c # "return" /\ c # "newline" /\ x = SCREEN_WIDTH
    <2>1. (SCREEN_WIDTH + 1) % SCREEN_WIDTH = 1 /\ (SCREEN_WIDTH + 1) \div SCREEN_WIDTH = 1
      <3>1. PICK w \in Nat : w = SCREEN_WIDTH /\ w > 1
        BY <1>1
      <3>2. (w + 1) % w = 1 /\ (w + 1) \div w = 1
        BY <3>1, Z3
      <3> QED
        BY <3>1, <3>2
    <2>2. C!Moved(x, y, c) = [x |-> SCREEN_WIDTH + 1, y |-> y]
      BY <1>1, <1>4 DEF C!Moved
    <2>3. C!Wrapped(C!Moved(x, y, c), SCREEN_WIDTH) = [x |-> 1, y |-> y + 1]
      BY <1>1, <2>1, <2>2 DEF C!Wrapped
    <2> QED
      BY <1>1, <2>3
  <1>5. CASE c # "return" /\ c # "newline" /\ x # SCREEN_WIDTH
    <2>1. C!Moved(x, y, c) = [x |-> x + 1, y |-> y] /\ ~(x + 1 > SCREEN_WIDTH)
      BY <1>1, <1>5 DEF C!Moved
    <2>2. C!Wrapped(C!Moved(x, y, c), SCREEN_WIDTH) = [x |-> x + 1, y |-> y]
      BY <2>1 DEF C!Wrapped
    <2> QED
      BY <1>1, <2>1, <2>2
  <1> QED
    BY <1>2, <1>3, <1>4, <1>5
-----------------------------------------------------------------------------
(* The invariant *)

\* The driver's screen and cursor after text t.
ServerAt(t, p) ==
    LET l == p[Len(t)].row
    IN  /\ cur_x = p[Len(t)].col
        /\ cur_y = l - C!Top(l)
        /\ ShownIn(videomem, t, p, C!Top(l))

\* The kernel's: its screen follows the cursor with the next character only.
LastRow(t, p) == IF t = <<>> THEN 0 ELSE p[Len(t) - 1].row

\* LinesFit of module Console, for any text.
Fits(t, p) == \A n \in 1..Len(t) : p[n - 1].col < SCREEN_WIDTH - 1 \/ t[n] \notin Printable

\* The kernel's screen and cursor: the cursor may be one row below the screen.
KernelAt(t, p) ==
    LET l == LastRow(t, p)
    IN  /\ l \in Nat
        /\ p[Len(t)].row = l \/ p[Len(t)].row = l + 1
        /\ cur_x = p[Len(t)].col
        /\ cur_y = p[Len(t)].row - C!Top(l)
        /\ ShownIn(videomem, t, p, C!Top(l))

\* The text has its places, and the consoles are where it ends.
TextInv ==
    /\ text \in Seq(C!Char)
    /\ \E p : Placed(text, p)
    /\ \A p : Placed(text, p) => /\ Downwards(text, p)
                                 /\ console = "server" => ServerAt(text, p)
                                 /\ console = "kernel" /\ Fits(text, p) => KernelAt(text, p)

\* The inductive invariant of module Console.
ConsoleInv ==
    /\ console \in {"kernel", "server", "fullscreen"}
    /\ C!TypeOK
    /\ console # "fullscreen" => TextInv
    /\ C!ShowsPicture

\* An empty screen.
LEMMA EmptyShown ==
    ASSUME NEW p, Placed(<<>>, p), NEW mem, \A i \in 0..C!Size : i < C!Size => mem[i] = "blank"
    PROVE  /\ Downwards(<<>>, p) /\ p[0].row = 0 /\ p[0].col = 0
           /\ ShownIn(mem, <<>>, p, 0)
  <1>1. Len(<<>>) = 0 /\ p[0] = [row |-> 0, col |-> 0] /\ SCREEN_WIDTH \in Nat /\ SCREEN_WIDTH > 1
        /\ SCREEN_HEIGHT \in Nat
    BY ConsoleSizes DEF Placed
  <1>2. Downwards(<<>>, p)
    BY <1>1 DEF Downwards
  <1>3. ASSUME NEW r \in 0..(SCREEN_HEIGHT - 1), NEW x \in 0..(SCREEN_WIDTH - 1)
        PROVE  mem[Cell(r, x)] = SeenIn(<<>>, p, 0 + r, x)
    <2>1. There(<<>>, p, 0 + r, x) = {}
      BY <1>1 DEF There
    <2>2. x \in 0..SCREEN_WIDTH /\ x < SCREEN_WIDTH
      BY <1>1
    <2>3. Cell(r, x) \in 0..C!Size /\ Cell(r, x) < C!Size
      BY <2>2, CellInside
    <2> QED
      BY <2>1, <2>3 DEF SeenIn
  <1>4. ShownIn(mem, <<>>, p, 0)
    BY <1>3 DEF ShownIn
  <1> QED
    BY <1>1, <1>2, <1>4

\* The places of the empty text.
LEMMA PlacedEmpty == \E p : Placed(<<>>, p)
  <1> DEFINE p == [n \in 0..0 |-> [row |-> 0, col |-> 0]]
  <1>1. Placed(<<>>, p)
    BY DEF Placed
  <1> QED
    BY <1>1

LEMMA TopOfZero == C!Top(0) = 0 /\ 0 - C!Top(0) = 0
  BY TopIs, ConsoleSizes

\* The invariant holds at the beginning.
LEMMA ConsoleInit == C!Init => ConsoleInv
  <1> SUFFICES ASSUME C!Init PROVE ConsoleInv
    OBVIOUS
  <1>1. /\ console \in {"kernel", "server", "fullscreen"}
        /\ videomem = C!Empty /\ cur_x = 0 /\ cur_y = 0 /\ text = <<>>
    BY DEF C!Init
  <1>2. /\ videomem \in [0..C!Size -> Printable \cup {"blank"}]
        /\ \A i \in 0..C!Size : videomem[i] = "blank"
    BY <1>1 DEF C!Empty
  <1>3. C!TypeOK
    BY <1>1, <1>2, ConsoleSizes DEF C!TypeOK
  <1>4. C!ShowsPicture
    BY <1>1, <1>2, ConsoleSizes DEF C!ShowsPicture
  <1>5. ASSUME NEW p, Placed(<<>>, p)
        PROVE  Downwards(<<>>, p) /\ ServerAt(<<>>, p) /\ KernelAt(<<>>, p)
    <2>1. /\ Downwards(<<>>, p) /\ p[0].row = 0 /\ p[0].col = 0 /\ ShownIn(videomem, <<>>, p, 0)
      BY <1>2, <1>5, EmptyShown
    <2>2. Len(<<>>) = 0
      OBVIOUS
    <2>3. ServerAt(<<>>, p)
      BY <1>1, <2>1, <2>2, TopOfZero DEF ServerAt
    <2>4. KernelAt(<<>>, p)
      BY <1>1, <2>1, <2>2, TopOfZero DEF KernelAt, LastRow
    <2> QED
      BY <2>1, <2>3, <2>4
  <1>6. TextInv
    BY <1>1, <1>5, PlacedEmpty DEF TextInv
  <1> QED
    BY <1>1, <1>3, <1>4, <1>6 DEF ConsoleInv

\* move_screen and Store keep to the screen's type.
LEMMA MemoryTypes ==
    ASSUME NEW mem \in [0..C!Size -> Printable \cup {"blank"}],
           NEW x \in 0..SCREEN_WIDTH, NEW y \in 0..(SCREEN_HEIGHT - 1), NEW c
    PROVE  /\ C!move_screen(mem) \in [0..C!Size -> Printable \cup {"blank"}]
           /\ C!Store(mem, x, y, c) \in [0..C!Size -> Printable \cup {"blank"}]
  <1>1. /\ SCREEN_WIDTH \in Nat /\ SCREEN_HEIGHT \in Nat /\ C!Size \in Nat
        /\ SCREEN_WIDTH * (SCREEN_HEIGHT - 1) = C!Size - SCREEN_WIDTH
    <2>1. SCREEN_WIDTH \in Nat /\ SCREEN_HEIGHT \in Nat /\ C!Size \in Nat
      BY ConsoleSizes
    <2> QED
      BY <2>1, Z3 DEF C!Size
  <1>2. \A i \in 0..C!Size : i < SCREEN_WIDTH * (SCREEN_HEIGHT - 1) => i + SCREEN_WIDTH \in 0..C!Size
    BY <1>1
  <1>3. \A i \in 0..C!Size : C!move_screen(mem)[i] \in Printable \cup {"blank"}
    BY <1>2 DEF C!move_screen
  <1>4. C!move_screen(mem) \in [0..C!Size -> Printable \cup {"blank"}]
    BY <1>3 DEF C!move_screen
  <1>5. Cell(y, x) \in 0..C!Size
    BY CellInside
  <1>6. C!Store(mem, x, y, c) = IF c \in Printable THEN [mem EXCEPT ![Cell(y, x)] = c] ELSE mem
    BY DEF C!Store, Cell
  <1> QED
    BY <1>4, <1>5, <1>6

\* screen_putstr in the driver: the cursor's line is the text's.
LEMMA ServerCharacter ==
    ASSUME ConsoleInv, console = "server", NEW c \in C!Char, C!ServerPutchar(c),
           NEW q, Placed(Append(text, c), q)
    PROVE  /\ Downwards(Append(text, c), q)
           /\ LET l == q[Len(text) + 1].row
              IN  /\ cur_x' = q[Len(text) + 1].col
                  /\ cur_y' = l - C!Top(l)
                  /\ ShownIn(videomem', Append(text, c), q, C!Top(l))
           /\ cur_x' \in 0..(SCREEN_WIDTH - 1) /\ cur_y' \in 0..(SCREEN_HEIGHT - 1)
           /\ videomem' \in [0..C!Size -> Printable \cup {"blank"}]
  <1>1. PICK t \in Seq(C!Char) : t = text
    BY DEF ConsoleInv, TextInv
  <1> DEFINE p == [n \in 0..Len(t) |-> q[n]]
  <1>2. Placed(t, p) /\ q[Len(t) + 1] = C!NextPlace(p[Len(t)], c)
    BY <1>1, PlacedBefore
  <1>3. Len(t) \in Nat /\ Len(t) \in 0..Len(t) /\ \A n \in 0..Len(t) : q[n] = p[n]
    OBVIOUS
  <1> HIDE DEF p
  <1>4. Downwards(t, p) /\ ServerAt(t, p)
    BY <1>1, <1>2 DEF ConsoleInv, TextInv
  <1>5. Downwards(Append(t, c), q)
    BY <1>2, <1>3, <1>4, DownwardsAppend
  <1>6. PICK l \in Nat, x \in 0..(SCREEN_WIDTH - 1) : p[Len(t)] = [row |-> l, col |-> x]
    BY <1>3, <1>4 DEF Downwards
  <1>7. p[Len(t)].row = l /\ p[Len(t)].col = x
    BY <1>6
  <1>8. PICK top : top = C!Top(l)
    OBVIOUS
  <1>9. top = IF l < SCREEN_HEIGHT THEN 0 ELSE l - SCREEN_HEIGHT + 1
    BY <1>8, TopIs
  <1>10. SCREEN_HEIGHT \in Nat /\ SCREEN_HEIGHT > 0 /\ SCREEN_WIDTH \in Nat /\ SCREEN_WIDTH > 1
    BY ConsoleSizes
  <1>11. cur_x = x /\ cur_y = l - top /\ ShownIn(videomem, t, p, top)
    BY <1>4, <1>7, <1>8 DEF ServerAt
  <1>12. PICK y \in 0..(SCREEN_HEIGHT - 1) : y = cur_y
    BY <1>9, <1>10, <1>11
  <1>13. top \in Nat /\ l = top + y /\ y \in Nat
    BY <1>9, <1>10, <1>11, <1>12
  <1>14. PICK mem : mem = C!Store(videomem, x, y, c)
    OBVIOUS
  <1>15. videomem \in [0..C!Size -> Printable \cup {"blank"}] /\ x \in 0..SCREEN_WIDTH
    BY <1>10 DEF ConsoleInv, C!TypeOK
  <1>16. ShownIn(mem, Append(t, c), q, top)
    <2>1. DOMAIN videomem = 0..C!Size /\ p[Len(t)] = [row |-> top + y, col |-> x]
      BY <1>6, <1>13, <1>15
    <2> QED
      BY <1>3, <1>11, <1>13, <1>14, <2>1, StoreShown
  <1>17. PICK to : to = q[Len(t) + 1]
    OBVIOUS
  <1>18. /\ to = C!NextPlace([row |-> l, col |-> x], c)
         /\ to \in [row : Nat, col : 0..(SCREEN_WIDTH - 1)]
         /\ to.row = l \/ to.row = l + 1
    <2>1. [row |-> l, col |-> x] \in [row : Nat, col : 0..(SCREEN_WIDTH - 1)]
      OBVIOUS
    <2> QED
      BY <1>2, <1>6, <1>17, <2>1, NextPlaceIs
  <1>19. PICK pos : pos = C!Wrapped(C!Moved(x, y, c), SCREEN_WIDTH - 1)
    OBVIOUS
  <1>20. pos.x = to.col /\ pos.y = y + (to.row - l)
    <2>1. /\ C!Wrapped(C!Moved(x, y, c), SCREEN_WIDTH - 1).x
               = C!NextPlace([row |-> l, col |-> x], c).col
          /\ C!Wrapped(C!Moved(x, y, c), SCREEN_WIDTH - 1).y
               = y + (C!NextPlace([row |-> l, col |-> x], c).row - l)
      BY <1>13, ServerCursor
    <2> QED
      BY <1>18, <1>19, <2>1
  <1>21. /\ videomem' = IF C!Scrolls(pos.y) THEN C!move_screen(mem) ELSE mem
         /\ cur_x' = pos.x
         /\ cur_y' = IF C!Scrolls(pos.y) THEN SCREEN_HEIGHT - 1 ELSE pos.y
    BY <1>11, <1>12, <1>14, <1>19 DEF C!ServerPutchar
  <1>22. mem \in [0..C!Size -> Printable \cup {"blank"}]
           /\ C!move_screen(mem) \in [0..C!Size -> Printable \cup {"blank"}]
    BY <1>12, <1>14, <1>15, MemoryTypes
  <1>23. PICK k \in Nat : k = to.row
    BY <1>18
  <1>24. C!Top(k) = IF k < SCREEN_HEIGHT THEN 0 ELSE k - SCREEN_HEIGHT + 1
    BY TopIs
  <1>25. CASE ~C!Scrolls(pos.y)
    <2>1. PICK z \in Int : z = pos.y /\ z = y + (k - l)
      BY <1>13, <1>20, <1>23
    <2>2. (k = l \/ k = l + 1) /\ z < SCREEN_HEIGHT
      BY <1>10, <1>18, <1>23, <1>25, <2>1 DEF C!Scrolls
    <2>3. C!Top(k) = top /\ z = k - top /\ z \in 0..(SCREEN_HEIGHT - 1)
      BY <1>9, <1>10, <1>13, <1>24, <2>1, <2>2
    <2> QED
      BY <1>1, <1>5, <1>16, <1>17, <1>18, <1>20, <1>21, <1>22, <1>23, <1>25, <2>1, <2>3
  <1>26. CASE C!Scrolls(pos.y)
    <2>1. y = SCREEN_HEIGHT - 1 /\ k = l + 1
      BY <1>10, <1>12, <1>13, <1>18, <1>20, <1>23, <1>26 DEF C!Scrolls
    <2>2. C!Top(k) = top + 1 /\ SCREEN_HEIGHT - 1 = k - C!Top(k)
            /\ SCREEN_HEIGHT - 1 \in 0..(SCREEN_HEIGHT - 1)
      BY <1>9, <1>10, <1>13, <1>24, <2>1
    <2>3. \A n \in 1..Len(Append(t, c)) : q[n - 1].row < top + SCREEN_HEIGHT
      <3> SUFFICES ASSUME NEW n \in 1..(Len(t) + 1) PROVE q[n - 1].row < top + SCREEN_HEIGHT
        BY <1>3
      <3>1. n - 1 \in 0..Len(t)
        BY <1>3
      <3>2. q[n - 1].row <= l /\ q[n - 1].row \in Nat
        BY <1>3, <1>4, <1>7, <3>1 DEF Downwards
      <3> QED
        BY <1>10, <1>13, <2>1, <3>2
    <2>4. Append(t, c) \in Seq(C!Char)
      OBVIOUS
    <2>5. ShownIn(C!move_screen(mem), Append(t, c), q, top + 1)
      BY <1>13, <1>16, <2>3, <2>4, ScrollShown
    <2> QED
      BY <1>1, <1>5, <1>17, <1>18, <1>20, <1>21, <1>22, <1>23, <1>26, <2>2, <2>5
  <1> QED
    BY <1>25, <1>26

\* In the kernel, if lines fit.
LEMMA KernelCharacter ==
    ASSUME ConsoleInv, console = "kernel", NEW c \in C!Char, C!KernelPutchar(c),
           NEW q, Placed(Append(text, c), q)
    PROVE  /\ Downwards(Append(text, c), q)
           /\ Fits(Append(text, c), q) =>
                LET l == q[Len(text)].row
                IN  /\ l \in Nat
                    /\ q[Len(text) + 1].row = l \/ q[Len(text) + 1].row = l + 1
                    /\ cur_x' = q[Len(text) + 1].col
                    /\ cur_y' = q[Len(text) + 1].row - C!Top(l)
                    /\ ShownIn(videomem', Append(text, c), q, C!Top(l))
  <1>1. PICK t \in Seq(C!Char) : t = text
    BY DEF ConsoleInv, TextInv
  <1> DEFINE p == [n \in 0..Len(t) |-> q[n]]
  <1>2. Placed(t, p) /\ q[Len(t) + 1] = C!NextPlace(p[Len(t)], c)
    BY <1>1, PlacedBefore
  <1>3. /\ Len(t) \in Nat /\ Len(t) \in 0..Len(t) /\ \A n \in 0..Len(t) : q[n] = p[n]
        /\ Len(Append(t, c)) = Len(t) + 1 /\ Append(t, c)[Len(t) + 1] = c
        /\ \A n \in 1..Len(t) : Append(t, c)[n] = t[n]
    OBVIOUS
  <1> HIDE DEF p
  <1>4. Downwards(t, p) /\ (Fits(t, p) => KernelAt(t, p))
    BY <1>1, <1>2 DEF ConsoleInv, TextInv
  <1>5. Downwards(Append(t, c), q)
    BY <1>2, <1>3, <1>4, DownwardsAppend
  <1> SUFFICES ASSUME Fits(Append(t, c), q)
               PROVE  LET l == q[Len(t)].row
                      IN  /\ l \in Nat
                          /\ q[Len(t) + 1].row = l \/ q[Len(t) + 1].row = l + 1
                          /\ cur_x' = q[Len(t) + 1].col
                          /\ cur_y' = q[Len(t) + 1].row - C!Top(l)
                          /\ ShownIn(videomem', Append(t, c), q, C!Top(l))
    BY <1>1, <1>5
  <1>6. PICK l \in Nat, x \in 0..(SCREEN_WIDTH - 1) : p[Len(t)] = [row |-> l, col |-> x]
    BY <1>3, <1>4 DEF Downwards
  <1>7. p[Len(t)].row = l /\ p[Len(t)].col = x /\ q[Len(t)] = p[Len(t)]
    BY <1>3, <1>6
  <1>8. Fits(t, p) /\ (x < SCREEN_WIDTH - 1 \/ c \notin Printable)
    <2>1. \A n \in 1..(Len(t) + 1) : q[n - 1].col < SCREEN_WIDTH - 1 \/ Append(t, c)[n] \notin Printable
      BY <1>3 DEF Fits
    <2>2. Len(t) + 1 \in 1..(Len(t) + 1) /\ Len(t) + 1 - 1 = Len(t)
      BY <1>3
    <2>3. \A n \in 1..Len(t) : n \in 1..(Len(t) + 1) /\ n - 1 \in 0..Len(t)
      BY <1>3
    <2>4. x < SCREEN_WIDTH - 1 \/ c \notin Printable
      BY <1>3, <1>7, <2>1, <2>2
    <2>5. Fits(t, p)
      BY <1>3, <2>1, <2>3 DEF Fits
    <2> QED
      BY <2>4, <2>5
  <1>9. KernelAt(t, p)
    BY <1>4, <1>8
  <1>10. PICK last \in Nat : last = LastRow(t, p)
    BY <1>9 DEF KernelAt
  <1>11. PICK top : top = C!Top(last)
    OBVIOUS
  <1>12. /\ l = last \/ l = last + 1
         /\ cur_x = x /\ cur_y = l - top /\ ShownIn(videomem, t, p, top)
    BY <1>7, <1>9, <1>10, <1>11 DEF KernelAt
  <1>13. SCREEN_HEIGHT \in Nat /\ SCREEN_HEIGHT > 0 /\ SCREEN_WIDTH \in Nat /\ SCREEN_WIDTH > 1
    BY ConsoleSizes
  <1>14. top = IF last < SCREEN_HEIGHT THEN 0 ELSE last - SCREEN_HEIGHT + 1
    BY <1>11, TopIs
  <1>15. PICK top2 : top2 = C!Top(l)
    OBVIOUS
  <1>16. top2 = IF l < SCREEN_HEIGHT THEN 0 ELSE l - SCREEN_HEIGHT + 1
    BY <1>15, TopIs
  <1>17. PICK mem : mem = IF C!Scrolls(cur_y) THEN C!move_screen(videomem) ELSE videomem
    OBVIOUS
  <1>18. PICK y : y = IF C!Scrolls(cur_y) THEN SCREEN_HEIGHT - 1 ELSE cur_y
    OBVIOUS
  <1>19. y \in 0..(SCREEN_HEIGHT - 1) /\ l = top2 + y /\ top2 \in Nat /\ top \in Nat
    BY <1>12, <1>13, <1>14, <1>16, <1>18 DEF C!Scrolls
  <1>20. ShownIn(mem, t, p, top2)
    <2>1. CASE ~C!Scrolls(cur_y)
      <3>1. top2 = top
        BY <1>12, <1>13, <1>14, <1>16, <2>1 DEF C!Scrolls
      <3> QED
        BY <1>12, <1>17, <2>1, <3>1
    <2>2. CASE C!Scrolls(cur_y)
      <3>1. top2 = top + 1 /\ l = last + 1 /\ last < top + SCREEN_HEIGHT
        BY <1>12, <1>13, <1>14, <1>16, <2>2 DEF C!Scrolls
      <3>2. t # <<>>
        <4> SUFFICES ASSUME t = <<>> PROVE FALSE
          OBVIOUS
        <4>1. p[0] = [row |-> 0, col |-> 0] /\ Len(t) = 0
          BY <1>2 DEF Placed
        <4>2. l = 0
          BY <1>7, <4>1
        <4> QED
          BY <3>1, <4>2
      <3>3. last = p[Len(t) - 1].row /\ Len(t) > 0
        BY <1>3, <1>10, <3>2 DEF LastRow
      <3>4. \A n \in 1..Len(t) : p[n - 1].row < top + SCREEN_HEIGHT
        <4> SUFFICES ASSUME NEW n \in 1..Len(t) PROVE p[n - 1].row < top + SCREEN_HEIGHT
          OBVIOUS
        <4>1. n - 1 \in 0..(Len(t) - 1) /\ Len(t) - 1 \in 0..Len(t) /\ n - 1 \in 0..Len(t)
          BY <1>3, <3>3
        <4>2. p[n - 1].row <= last /\ p[n - 1].row \in Nat
          BY <1>4, <3>3, <4>1 DEF Downwards
        <4> QED
          BY <1>13, <1>19, <3>1, <4>2
      <3>5. ShownIn(C!move_screen(videomem), t, p, top + 1)
        BY <1>12, <1>19, <3>4, ScrollShown
      <3> QED
        BY <1>17, <2>2, <3>1, <3>5
    <2> QED
      BY <2>1, <2>2
  <1>21. DOMAIN mem = 0..C!Size
    BY <1>17 DEF ConsoleInv, C!TypeOK, C!move_screen
  <1>22. ShownIn(C!Store(mem, x, y, c), Append(t, c), q, top2)
    <2>1. p[Len(t)] = [row |-> top2 + y, col |-> x]
      BY <1>6, <1>19
    <2> QED
      BY <1>3, <1>19, <1>20, <1>21, <2>1, StoreShown
  <1>23. PICK pos : pos = C!Wrapped(C!Moved(x, y, c), SCREEN_WIDTH)
    OBVIOUS
  <1>24. PICK to : to = q[Len(t) + 1]
    OBVIOUS
  <1>25. /\ to = C!NextPlace([row |-> l, col |-> x], c)
         /\ to \in [row : Nat, col : 0..(SCREEN_WIDTH - 1)]
         /\ to.row = l \/ to.row = l + 1
    <2>1. [row |-> l, col |-> x] \in [row : Nat, col : 0..(SCREEN_WIDTH - 1)]
      OBVIOUS
    <2> QED
      BY <1>2, <1>6, <1>24, <2>1, NextPlaceIs
  <1>26. pos.x = to.col /\ pos.y = y + (to.row - l)
    <2>1. y \in Nat
      BY <1>13, <1>19
    <2> QED
      BY <1>8, <1>23, <1>25, <2>1, KernelCursor
  <1>27. videomem' = C!Store(mem, x, y, c) /\ cur_x' = pos.x /\ cur_y' = pos.y
    BY <1>12, <1>17, <1>18, <1>23 DEF C!KernelPutchar
  <1>28. pos.y = to.row - top2
    <2>1. PICK k \in Nat : k = to.row
      BY <1>25
    <2> QED
      BY <1>13, <1>19, <1>26, <2>1
  <1> QED
    BY <1>7, <1>15, <1>22, <1>24, <1>25, <1>26, <1>27, <1>28

\* A character goes to the kernel's console or to the driver's.
LEMMA PutstrInv ==
    ASSUME ConsoleInv, NEW c \in C!Char, C!screen_putstr(c)
    PROVE  ConsoleInv'
  <1>1. console # "fullscreen" /\ text' = Append(text, c) /\ console' = console
    BY DEF C!screen_putstr
  <1>2. /\ console \in {"kernel", "server"} /\ text \in Seq(C!Char) /\ \E p : Placed(text, p)
        /\ cur_x \in 0..SCREEN_WIDTH /\ cur_y \in 0..SCREEN_HEIGHT
        /\ videomem \in [0..C!Size -> Printable \cup {"blank"}]
    BY <1>1 DEF ConsoleInv, C!TypeOK, TextInv
  <1>3. PICK t \in Seq(C!Char) : t = text
    BY <1>2
  <1>4. PICK u \in Seq(C!Char) : u = Append(t, c)
    <2>1. Append(t, c) \in Seq(C!Char)
      OBVIOUS
    <2> QED
      BY <2>1
  <1>5. /\ Len(u) = Len(t) + 1 /\ Len(t) \in Nat /\ u # <<>> /\ Len(u) - 1 = Len(t)
        /\ text' = u /\ u = Append(text, c)
    BY <1>1, <1>3, <1>4
  <1>6. \E q : Placed(u, q)
    BY <1>2, <1>3, <1>4, PlacedAfter
  <1>7. SCREEN_HEIGHT \in Nat /\ SCREEN_HEIGHT > 0 /\ SCREEN_WIDTH \in Nat /\ SCREEN_WIDTH > 1
    BY ConsoleSizes
  <1>8. C!ShowsPicture'
    BY <1>1 DEF C!ShowsPicture
  <1>9. CASE console = "server"
    <2>1. C!ServerPutchar(c)
      BY <1>9 DEF C!screen_putstr
    <2>2. ASSUME NEW q, Placed(u, q)
          PROVE  /\ Downwards(u, q) /\ ServerAt(text, q)'
                 /\ cur_x' \in 0..(SCREEN_WIDTH - 1) /\ cur_y' \in 0..(SCREEN_HEIGHT - 1)
                 /\ videomem' \in [0..C!Size -> Printable \cup {"blank"}]
      <3>1. /\ Downwards(u, q)
            /\ LET l == q[Len(t) + 1].row
               IN  /\ cur_x' = q[Len(t) + 1].col
                   /\ cur_y' = l - C!Top(l)
                   /\ ShownIn(videomem', u, q, C!Top(l))
            /\ cur_x' \in 0..(SCREEN_WIDTH - 1) /\ cur_y' \in 0..(SCREEN_HEIGHT - 1)
            /\ videomem' \in [0..C!Size -> Printable \cup {"blank"}]
        BY <1>3, <1>5, <1>9, <2>1, <2>2, ServerCharacter
      <3> QED
        BY <1>5, <3>1 DEF ServerAt
    <2>3. C!TypeOK'
      BY <1>6, <1>7, <2>2 DEF C!TypeOK
    <2>4. TextInv'
      BY <1>1, <1>5, <1>6, <1>9, <2>2 DEF TextInv
    <2> QED
      BY <1>1, <1>8, <1>9, <2>3, <2>4 DEF ConsoleInv
  <1>10. CASE console = "kernel"
    <2>1. C!KernelPutchar(c)
      BY <1>10 DEF C!screen_putstr
    <2>2. ASSUME NEW q, Placed(u, q)
          PROVE  /\ Downwards(u, q) /\ (Fits(u, q) => KernelAt(text, q)')
      <3>1. /\ Downwards(u, q)
            /\ Fits(u, q) => LET l == q[Len(t)].row
                             IN  /\ l \in Nat
                                 /\ q[Len(t) + 1].row = l \/ q[Len(t) + 1].row = l + 1
                                 /\ cur_x' = q[Len(t) + 1].col
                                 /\ cur_y' = q[Len(t) + 1].row - C!Top(l)
                                 /\ ShownIn(videomem', u, q, C!Top(l))
        BY <1>3, <1>5, <1>10, <2>1, <2>2, KernelCharacter
      <3>2. LastRow(u, q) = q[Len(t)].row
        BY <1>5 DEF LastRow
      <3> QED
        BY <1>5, <3>1, <3>2 DEF KernelAt
    <2>3. TextInv'
      BY <1>1, <1>5, <1>6, <1>10, <2>2 DEF TextInv
    <2>4. C!TypeOK'
      <3>1. PICK mem : mem = IF C!Scrolls(cur_y) THEN C!move_screen(videomem) ELSE videomem
        OBVIOUS
      <3>2. PICK y : y = IF C!Scrolls(cur_y) THEN SCREEN_HEIGHT - 1 ELSE cur_y
        OBVIOUS
      <3>3. y \in 0..(SCREEN_HEIGHT - 1) /\ y \in Nat
        BY <1>2, <1>7, <3>2 DEF C!Scrolls
      <3>4. mem \in [0..C!Size -> Printable \cup {"blank"}]
        BY <1>2, <3>1, <3>3, MemoryTypes
      <3>5. PICK pos : pos = C!Wrapped(C!Moved(cur_x, y, c), SCREEN_WIDTH)
        OBVIOUS
      <3>6. pos.x \in 0..SCREEN_WIDTH /\ pos.y \in {y, y + 1}
        BY <1>2, <3>3, <3>5, KernelInside
      <3>7. videomem' = C!Store(mem, cur_x, y, c) /\ cur_x' = pos.x /\ cur_y' = pos.y
        BY <2>1, <3>1, <3>2, <3>5 DEF C!KernelPutchar
      <3>8. videomem' \in [0..C!Size -> Printable \cup {"blank"}]
        BY <1>2, <3>3, <3>4, <3>7, MemoryTypes
      <3>9. cur_y' \in 0..SCREEN_HEIGHT
        BY <1>7, <3>3, <3>6, <3>7
      <3> QED
        BY <1>1, <1>10, <3>6, <3>7, <3>8, <3>9 DEF C!TypeOK
    <2> QED
      BY <1>1, <1>8, <1>10, <2>3, <2>4 DEF ConsoleInv
  <1> QED
    BY <1>2, <1>9, <1>10

\* screen_clear begins a new text.
LEMMA ClearInv == ConsoleInv /\ C!screen_clear => ConsoleInv'
  <1> SUFFICES ASSUME ConsoleInv, C!screen_clear PROVE ConsoleInv'
    OBVIOUS
  <1>1. /\ console \in {"kernel", "fullscreen"} /\ console' = console
        /\ videomem' = [i \in 0..C!Size |-> IF i < C!Size THEN "blank" ELSE videomem[i]]
        /\ cur_x' = 0 /\ cur_y' = 0 /\ text' = <<>>
    BY DEF ConsoleInv, C!screen_clear
  <1>2. /\ videomem \in [0..C!Size -> Printable \cup {"blank"}] /\ C!Size \in Nat
        /\ SCREEN_WIDTH \in Nat /\ SCREEN_HEIGHT \in Nat
    BY ConsoleSizes DEF ConsoleInv, C!TypeOK
  <1>3. /\ videomem' \in [0..C!Size -> Printable \cup {"blank"}]
        /\ \A i \in 0..C!Size : i < C!Size => videomem'[i] = "blank"
        /\ videomem'[C!Size] = videomem[C!Size]
    BY <1>1, <1>2
  <1>4. C!TypeOK'
    BY <1>1, <1>2, <1>3 DEF C!TypeOK
  <1>5. C!ShowsPicture'
    BY <1>1, <1>3 DEF ConsoleInv, C!ShowsPicture
  <1>6. ASSUME NEW p, Placed(<<>>, p)
        PROVE  Downwards(<<>>, p) /\ KernelAt(text, p)'
    <2>1. /\ Downwards(<<>>, p) /\ p[0].row = 0 /\ p[0].col = 0 /\ ShownIn(videomem', <<>>, p, 0)
      BY <1>3, <1>6, EmptyShown
    <2>2. Len(<<>>) = 0
      OBVIOUS
    <2> QED
      BY <1>1, <2>1, <2>2, TopOfZero DEF KernelAt, LastRow
  <1>7. console = "kernel" => TextInv'
    BY <1>1, <1>6, PlacedEmpty DEF TextInv
  <1> QED
    BY <1>1, <1>4, <1>5, <1>7 DEF ConsoleInv

\* screen_display replaces the whole picture.
LEMMA DisplayInv ==
    ASSUME ConsoleInv, NEW picture \in [C!Cells -> Printable], C!screen_display(picture)
    PROVE  ConsoleInv'
  <1>1. /\ console = "fullscreen" /\ UNCHANGED <<console, cur_x, cur_y>>
        /\ videomem' = [i \in 0..C!Size |-> IF i < C!Size THEN picture[i] ELSE videomem[i]]
        /\ text' = [n \in 1..C!Size |-> picture[n - 1]]
    BY DEF C!screen_display
  <1>2. C!Size \in Nat /\ videomem \in [0..C!Size -> Printable \cup {"blank"}]
    BY ConsoleSizes DEF ConsoleInv, C!TypeOK
  <1>3. \A i \in 0..C!Size : i < C!Size => i \in C!Cells
    BY <1>2 DEF C!Cells
  <1>4. videomem' \in [0..C!Size -> Printable \cup {"blank"}] /\ videomem'[C!Size] = videomem[C!Size]
    BY <1>1, <1>2, <1>3
  <1>5. C!TypeOK'
    BY <1>1, <1>4 DEF ConsoleInv, C!TypeOK
  <1>6. \A i \in C!Cells : videomem'[i] = text'[i + 1]
    <2> SUFFICES ASSUME NEW i \in C!Cells PROVE videomem'[i] = text'[i + 1]
      OBVIOUS
    <2>1. i \in 0..C!Size /\ i < C!Size /\ i + 1 \in 1..C!Size /\ i + 1 - 1 = i
      BY <1>2 DEF C!Cells
    <2> QED
      BY <1>1, <2>1
  <1>7. C!ShowsPicture'
    BY <1>1, <1>4, <1>6 DEF ConsoleInv, C!ShowsPicture, C!Cells, C!Size
  <1> QED
    BY <1>1, <1>5, <1>7 DEF ConsoleInv

\* Every step preserves the invariant.
LEMMA ConsoleStep == ConsoleInv /\ [C!Next]_C!vars => ConsoleInv'
  <1> SUFFICES ASSUME ConsoleInv, [C!Next]_C!vars PROVE ConsoleInv'
    OBVIOUS
  <1>1. CASE UNCHANGED C!vars
    <2>1. UNCHANGED <<console, videomem, cur_x, cur_y, text>>
      BY <1>1 DEF C!vars
    <2>2. \A p : /\ ServerAt(text, p)' <=> ServerAt(text, p)
                 /\ KernelAt(text, p)' <=> KernelAt(text, p)
      BY <2>1 DEF ServerAt, KernelAt
    <2>3. TextInv => TextInv'
      BY <2>1, <2>2 DEF TextInv
    <2> QED
      BY <2>1, <2>3 DEF ConsoleInv, C!TypeOK, C!ShowsPicture
  <1> QED
    BY <1>1, PutstrInv, ClearInv, DisplayInv DEF C!Next

\* What the invariant says of the reference's own function.
LEMMA ConsoleShows == ConsoleInv => C!ShowsText
  <1> SUFFICES ASSUME ConsoleInv PROVE C!ShowsText
    OBVIOUS
  <1>1. \A p, row, col : C!Seen(p, row, col) = SeenIn(text, p, row, col)
    BY DEF C!Seen, SeenIn, There
  <1>2. ASSUME NEW p, NEW top, ShownIn(videomem, text, p, top) PROVE C!Shows(p, top)
    BY <1>1, <1>2 DEF ShownIn, C!Shows, Cell
  <1>3. CASE console = "fullscreen"
    BY <1>3 DEF ConsoleInv, C!ShowsText, C!ServerShowsText, C!KernelShowsText
  <1>4. CASE console # "fullscreen"
    <2>1. /\ text \in Seq(C!Char)
          /\ Placed(text, C!Place)
      BY <1>4, PlaceIs DEF ConsoleInv, TextInv
    <2>2. PICK p : p = C!Place
      OBVIOUS
    <2>3. /\ console = "server" => ServerAt(text, p)
          /\ console = "kernel" /\ Fits(text, p) => KernelAt(text, p)
      BY <1>4, <2>1, <2>2 DEF ConsoleInv, TextInv
    <2>4. C!ServerShowsText
      <3> SUFFICES ASSUME console = "server" PROVE C!Shows(p, C!Top(p[Len(text)].row))
        BY <2>2 DEF C!ServerShowsText
      <3>1. ShownIn(videomem, text, p, C!Top(p[Len(text)].row))
        BY <2>3 DEF ServerAt
      <3> QED
        BY <1>2, <3>1
    <2>5. C!KernelShowsText
      <3> SUFFICES ASSUME console = "kernel", C!LinesFit(p)
                   PROVE  C!Shows(p, C!Top(IF text = <<>> THEN 0 ELSE p[Len(text) - 1].row))
        BY <2>2 DEF C!KernelShowsText
      <3>1. Fits(text, p)
        BY DEF Fits, C!LinesFit
      <3>2. ShownIn(videomem, text, p, C!Top(LastRow(text, p)))
        BY <2>3, <3>1 DEF KernelAt
      <3> QED
        BY <1>2, <3>2 DEF LastRow
    <2> QED
      BY <2>4, <2>5 DEF ConsoleInv, C!ShowsText
  <1> QED
    BY <1>3, <1>4

-----------------------------------------------------------------------------
(* The theorems.                                                            *)

\* The invariants hold in all behaviours of module Parts.
LEMMA NamesAlways == PartSpec => []NamesInv
  <1>1. PartInit => NamesInv
    BY NamesInit DEF PartInit
  <1>2. NamesInv /\ [PartNext]_PartVars => NamesInv'
    <2> SUFFICES ASSUME NamesInv, [PartNext]_PartVars PROVE NamesInv'
      OBVIOUS
    <2>1. [N!Next]_N!vars
      BY DEF PartNext, PartVars, Only, name_vars, N!vars
    <2> QED
      BY <2>1, NamesStep
  <1> QED
    BY <1>1, <1>2, PTL DEF PartSpec

LEMMA SearchAlways == PartSpec => [](SearchInv /\ LineInv)
  <1>1. PartInit => SearchInv /\ LineInv
    BY SearchInit DEF PartInit
  <1>2. SearchInv /\ LineInv /\ [PartNext]_PartVars => SearchInv' /\ LineInv'
    <2> SUFFICES ASSUME SearchInv, LineInv, [PartNext]_PartVars
                 PROVE  SearchInv' /\ LineInv'
      OBVIOUS
    <2>1. [L!Next]_L!vars
      BY DEF PartNext, PartVars, Only, cmdline_vars, L!vars, L!mboot
    <2> QED
      BY <2>1, SearchStep
  <1> QED
    BY <1>1, <1>2, PTL DEF PartSpec

LEMMA TablesAlways == PartSpec => []TablesInv
  <1>1. PartInit => TablesInv
    BY TablesInit DEF PartInit
  <1>2. TablesInv /\ [PartNext]_PartVars => TablesInv'
    <2> SUFFICES ASSUME TablesInv, [PartNext]_PartVars PROVE TablesInv'
      OBVIOUS
    <2>1. [D!Next]_D!vars
      BY DEF PartNext, PartVars, Only, descriptor_vars, D!vars
    <2> QED
      BY <2>1, TablesStep
  <1> QED
    BY <1>1, <1>2, PTL DEF PartSpec

LEMMA RaceAlways == PartSpec => []RaceInv
  <1>1. PartInit => RaceInv
    BY RaceInit DEF PartInit
  <1>2. RaceInv /\ [PartNext]_PartVars => RaceInv'
    <2> SUFFICES ASSUME RaceInv, [PartNext]_PartVars PROVE RaceInv'
      OBVIOUS
    <2>1. [R!Next]_R!vars
      BY DEF PartNext, PartVars, Only, race_vars, R!vars
    <2> QED
      BY <2>1, RaceStep
  <1> QED
    BY <1>1, <1>2, PTL DEF PartSpec

LEMMA SnakeAlways == PartSpec => []SnakeInv
  <1>1. PartInit => SnakeInv
    BY SnakeInit DEF PartInit
  <1>2. SnakeInv /\ [PartNext]_PartVars => SnakeInv'
    <2> SUFFICES ASSUME SnakeInv, [PartNext]_PartVars PROVE SnakeInv'
      OBVIOUS
    <2>1. [S!Next]_S!vars
      BY DEF PartNext, PartVars, Only, snake_vars, S!vars
    <2> QED
      BY <2>1, SnakeStep
  <1> QED
    BY <1>1, <1>2, PTL DEF PartSpec

LEMMA ConsoleAlways == PartSpec => []ConsoleInv
  <1>1. PartInit => ConsoleInv
    BY ConsoleInit DEF PartInit
  <1>2. ConsoleInv /\ [PartNext]_PartVars => ConsoleInv'
    <2> SUFFICES ASSUME ConsoleInv, [PartNext]_PartVars PROVE ConsoleInv'
      OBVIOUS
    <2>1. [C!Next]_C!vars
      BY DEF PartNext, PartVars, Only, console_vars, C!vars
    <2> QED
      BY <2>1, ConsoleStep
  <1> QED
    BY <1>1, <1>2, PTL DEF PartSpec

\* A lookup that runs while processes register finds the first one that has the
\* name, and misses none that had registered before (process.c, util.c); the
\* kernel finds the first max_cpu= of the string at the start of its command
\* line's page, which is the command line if it begins there (mboot.c).  For all
\* names that fit, all command lines, and whatever lies in front of them.
THEOREM LookupsAlwaysRight == PartSpec => []LookupsRight
  <1>1. NamesInv /\ SearchInv /\ LineInv => LookupsRight
    BY LookupsOk, SearchesRight DEF LookupsRight
  <1> QED
    BY <1>1, NamesAlways, SearchAlways, PTL

\* Every CPU that started has its own busy TSS in its own entry of the GDT, and
\* the flat segments and the gates stay right (gdt.c, interrupts.c), for any
\* number of CPUs whose TSSs fit where the linker put them.
THEOREM TablesAlwaysRight == PartSpec => []TablesRight
  <1>1. TablesInv => TablesRight
    BY TablesOk DEF TablesRight
  <1> QED
    BY <1>1, TablesAlways, PTL

\* However two or more CPUs write to the console at once, the cursor comes back
\* to the screen with the next character that nobody disturbs (screen.c).
THEOREM CursorAlwaysRecovers == PartSpec => []CursorRecovers
  <1>1. RaceInv => CursorRecovers
    BY CursorComesBack DEF CursorRecovers
  <1> QED
    BY <1>1, RaceAlways, PTL

\* The snake is one piece on the torus, as long as it should be, and its head
\* never moves back into its neck (snake.c).  For every size of the screen.
THEOREM SnakeAlwaysSound == PartSpec => []SnakeSound
  <1>1. SnakeInv => SnakeSound
    BY SnakesSound DEF SnakeSound
  <1> QED
    BY <1>1, SnakeAlways, PTL

\* The consoles show the end of the text, the kernel's as long as lines fit, and
\* the third driver its last picture (screen.c, srv_screen.c, srv_fullscreen.c).
\* For every size of the screen and every text.
THEOREM TextAlwaysShown == PartSpec => []ShowsText
  <1>1. ConsoleInv => ShowsText
    BY ConsoleShows DEF ShowsText
  <1> QED
    BY <1>1, ConsoleAlways, PTL
=============================================================================
