----------------------------- MODULE Interrupts -----------------------------
(***************************************************************************)
(* How one CPU takes interrupts: the entry and exit code (isr.s), the      *)
(* dispatch in irq_handler (interrupts.c), the local APIC's task priority, *)
(* and the kernel stacks that scheduler_switch exchanges under it.         *)
(*                                                                         *)
(* Every interrupt, fault and system call pushes a frame (struct           *)
(* thread_state) on a stack: the stack of the running code, or, when it    *)
(* comes from user mode, the one the TSS names (esp0), from its top.       *)
(* irq_handler sets the task priority to the vector, acknowledges the      *)
(* interrupt BEFORE it is handled and enables interrupts, so that from     *)
(* there on nesting is limited by the priority alone.  sched_yield sets    *)
(* the priority to that of the tick, from wherever it is called.           *)
(*                                                                         *)
(* stack[t] are the frames on thread t's kernel stack, oldest first.  The  *)
(* code that boots the CPU becomes its idle thread.                        *)
(***************************************************************************)
EXTENDS Integers, Sequences, FiniteSets, FiniteSetsExt

CONSTANTS Thread,   \* the threads of this CPU that run programs
          Idle,     \* its idle thread
          MaxDepth, \* bound: frames on one stack
          MaxWaits  \* bound: waits of driver's handlers

INT_SPURIOUS == 15
INT_SYSCALL == 80
INT_SCHED_TICK == 128
INT_RTC == 211
PAGE_FAULT == 14

\* The vector of each line of the I/O APIC, and that of the keyboard's line;
\* line 2 stays closed.
ioapic_init == [line \in 0..15 \ {2} |-> 219 - line]

INT_KEYBOARD == ioapic_init[1]

Device == {INT_SCHED_TICK, INT_RTC, INT_KEYBOARD}
Vector == Device \cup {INT_SPURIOUS, INT_SYSCALL, PAGE_FAULT}

\* isr_list.h: the vectors that isr_init gives an entry in the IDT.
idt == 0..240

\* Every vector that is used has an entry in the IDT.
ASSUME InterruptsAssumption ==
    /\ Idle \notin Thread
    /\ MaxDepth \in Nat /\ MaxWaits \in Nat
    /\ Vector \subseteq idt
    /\ INT_RTC = ioapic_init[8]

Context == Thread \cup {Idle}
NoStack == "page of interrupts_start"

VARIABLES int_handlers,   \* the handler of each vector
          boot,           \* how far kmain is
          irr, isr, tpr,  \* the local APIC: requested, in service, priority
          intr,           \* the interrupt flag
          cur, esp0,      \* current_thread; whose stack the TSS names
          stack,
          blocked         \* how often a driver's handler waited for room in its stream

apic == <<irr, isr>>
vars == <<int_handlers, boot, irr, isr, tpr, intr, cur, esp0, stack, blocked>>

Class(vector) == vector \div 16

\* regs_init: the frame from which _leave_kernel starts a thread.
regs_init == [vec |-> 0, tpr |-> 0, intr |-> TRUE, at |-> "return"]

Init ==
    /\ int_handlers = [v \in Vector |-> "none"]
    /\ boot = 0
    /\ irr = {} /\ isr = {} /\ tpr = 0
    /\ intr = FALSE
    /\ cur = Idle /\ esp0 = NoStack
    /\ stack = [t \in Context |-> IF t = Idle THEN <<>> ELSE <<regs_init>>]
    /\ blocked = 0
-----------------------------------------------------------------------------
(* kmain on the boot CPU, before and after sti                             *)

interrupts_init ==
    /\ boot = 0
    /\ int_handlers' = [v \in Vector |-> CASE v = INT_KEYBOARD -> "keyboard_handler"
                                           [] v = INT_SPURIOUS -> "ignore_int"
                                           [] OTHER -> "unhandled"]
    /\ boot' = 1
    /\ UNCHANGED <<apic, tpr, intr, cur, esp0, stack, blocked>>

\* syscalls_init, scheduling_init and timer_init, in this order.
Registrations == <<<<INT_SYSCALL, "syscall">>, <<INT_SCHED_TICK, "sched_tick">>, <<INT_RTC, "_tick">>>>

interrupts_register_handler ==
    /\ boot \in 1..Len(Registrations)
    /\ int_handlers' = [int_handlers EXCEPT ![Registrations[boot][1]] = Registrations[boot][2]]
    /\ boot' = boot + 1
    /\ UNCHANGED <<apic, tpr, intr, cur, esp0, stack, blocked>>

Registered == Len(Registrations) + 1

\* It gives the TSS a stack that is never used: see UserModeSound.
interrupts_start ==
    /\ boot = Registered
    /\ esp0' = NoStack
    /\ intr' = TRUE
    /\ boot' = boot + 1
    /\ UNCHANGED <<int_handlers, apic, tpr, cur, stack, blocked>>

sched_start_timer ==
    /\ boot = Registered + 1
    /\ Len(stack[Idle]) = 0
    /\ boot' = boot + 1
    /\ UNCHANGED <<int_handlers, apic, tpr, intr, cur, esp0, stack, blocked>>

\* The devices that may interrupt by now: the I/O APIC is open from
\* interrupts_init on, the clock from timer_init, the local timer at last.
Active == (IF boot > 0 THEN {INT_KEYBOARD} ELSE {})
            \cup (IF boot >= Registered THEN {INT_RTC} ELSE {})
            \cup (IF boot > Registered + 1 THEN {INT_SCHED_TICK} ELSE {})

Request(v) ==
    /\ v \in Active \ irr
    /\ irr' = irr \cup {v}
    /\ UNCHANGED <<int_handlers, boot, isr, tpr, intr, cur, esp0, stack, blocked>>
-----------------------------------------------------------------------------
(* Entering the kernel                                                     *)

UserMode == cur \in Thread /\ stack[cur] = <<>>

Top == stack[cur][Len(stack[cur])]

\* The top frame of thread t with its handler at another place.
MoveTop(t, at) == [stack[t] EXCEPT ![Len(stack[t])].at = at]

\* A frame with the priority and the flags of the code it interrupts.
Frame(vector, priority) == [vec |-> vector, tpr |-> priority, intr |-> intr, at |-> "entry"]

\* The processor's part and isr_common up to the call of irq_handler.
isr_common(vector) ==
    /\ Len(stack[cur]) < MaxDepth
    /\ stack' = IF UserMode THEN [stack EXCEPT ![esp0] = <<Frame(vector, tpr)>>]
                            ELSE [stack EXCEPT ![cur] = Append(@, Frame(vector, tpr))]
    /\ intr' = FALSE
    /\ UNCHANGED <<int_handlers, boot, tpr, cur, esp0, blocked>>

\* The APIC offers the highest request above the priority and what is served.
Interrupt(v) ==
    /\ intr
    /\ v \in irr /\ v = Max(irr)
    /\ Class(v) > Class(tpr)
    /\ \A s \in isr : Class(v) > Class(s)
    /\ irr' = irr \ {v}
    /\ isr' = isr \cup {v}
    /\ isr_common(v)

\* A program's system call, or its fault.
Trap(vector) ==
    /\ UserMode
    /\ isr_common(vector)
    /\ UNCHANGED apic

SystemCall == Trap(INT_SYSCALL)
PageFault == Trap(PAGE_FAULT)

\* Is the handler of the top frame h, and at the given place?
Runs(h, place) ==
    /\ stack[cur] # <<>>
    /\ Top.vec \in Vector /\ int_handlers[Top.vec] = h
    /\ Top.at = place

no_eoi_below_tick ==
    /\ stack[cur] # <<>> /\ Top.at = "entry"
    /\ tpr' = Top.vec
    /\ isr' = IF Top.vec > INT_SCHED_TICK /\ isr # {} THEN isr \ {Max(isr)} ELSE isr
    /\ intr' = TRUE
    /\ stack' = [stack EXCEPT ![cur] = MoveTop(cur, IF int_handlers[Top.vec] = "unhandled"
                                                      THEN "halt" ELSE "handler")]
    /\ UNCHANGED <<int_handlers, boot, irr, cur, esp0, blocked>>

\* The priority, the acknowledgement, sti, and the call of the handler.
\* unhandled_interrupt_handler reports and halts for ever.
irq_handler ==
    /\ stack[cur] # <<>> /\ Top.at = "entry"
    /\ tpr' = Top.vec
    /\ isr' = IF Top.vec > 32 /\ isr # {} THEN isr \ {Max(isr)} ELSE isr
    /\ intr' = TRUE
    /\ stack' = [stack EXCEPT ![cur] = MoveTop(cur, IF int_handlers[Top.vec] = "unhandled"
                                                      THEN "halt" ELSE "handler")]
    /\ UNCHANGED <<int_handlers, boot, irr, cur, esp0, blocked>>
-----------------------------------------------------------------------------
(* In the handlers                                                         *)

\* SYSCALL_HANDLE: the driver takes the keyboard's interrupt over.
driver_register ==
    /\ Runs("syscall", "handler")
    /\ int_handlers' = [int_handlers EXCEPT ![INT_KEYBOARD] = "driver_irq_notify"]
    /\ UNCHANGED <<boot, apic, tpr, intr, cur, esp0, stack, blocked>>

yield_keeps_priority ==
    /\ Runs("syscall", "handler")
    /\ stack' = [stack EXCEPT ![cur] = MoveTop(cur, "yield")]
    /\ UNCHANGED <<int_handlers, boot, apic, tpr, intr, cur, esp0, blocked>>

\* A system call waits, or driver_irq_notify does: stream_write waits for room.
sched_yield ==
    /\ \/ Runs("syscall", "handler") /\ UNCHANGED blocked
       \/ /\ Runs("driver_irq_notify", "handler")
          /\ blocked < MaxWaits
          /\ blocked' = blocked + 1
    /\ tpr' = INT_SCHED_TICK
    /\ stack' = [stack EXCEPT ![cur] = MoveTop(cur, "yield")]
    /\ UNCHANGED <<int_handlers, boot, apic, intr, cur, esp0>>

\* The same, when the tick was about to be delivered and the write to the
\* priority register came first: the APIC answers with the spurious vector.
\* The handler of that one runs with the lowest priority of all.
SpuriousYield ==
    /\ Runs("syscall", "handler")
    /\ Len(stack[cur]) < MaxDepth
    /\ intr /\ INT_SCHED_TICK \in irr /\ Class(tpr) < Class(INT_SCHED_TICK)
    /\ tpr' = INT_SCHED_TICK
    /\ stack' = [stack EXCEPT ![cur] = Append(MoveTop(cur, "yield"), Frame(INT_SPURIOUS, INT_SCHED_TICK))]
    /\ intr' = FALSE
    /\ UNCHANGED <<int_handlers, boot, apic, cur, esp0, blocked>>

sched_tick ==
    /\ \/ Runs("sched_tick", "handler")
       \/ stack[cur] # <<>> /\ Top.at = "yield"
    /\ stack' = [stack EXCEPT ![cur] = MoveTop(cur, "tick")]
    /\ UNCHANGED <<int_handlers, boot, apic, tpr, intr, cur, esp0, blocked>>

InTick == stack[cur] # <<>> /\ Top.at = "tick"

\* Where a thread goes on after scheduler_switch.
AfterSwitch(t) ==
    LET top == stack[t][Len(stack[t])]
    IN  MoveTop(t, IF top.vec = INT_SCHED_TICK \/ top.at = "return" THEN "return" ELSE "handler")

switch_forgets_tss(to) ==
    /\ InTick
    /\ to # cur
    /\ intr' = FALSE
    /\ cur' = to
    /\ stack' = [stack EXCEPT ![to] = AfterSwitch(to)]
    /\ UNCHANGED <<int_handlers, boot, apic, tpr, esp0, blocked>>

\* cli, the stack for the TSS, the exchange of the stacks.  Which thread the
\* queue has for us is module Scheduler's business.
scheduler_switch(to) ==
    /\ InTick
    /\ to # cur
    /\ intr' = FALSE
    /\ esp0' = to
    /\ cur' = to
    /\ stack' = [stack EXCEPT ![to] = AfterSwitch(to)]
    /\ UNCHANGED <<int_handlers, boot, apic, tpr, blocked>>

\* scheduler_switch returns at once if the thread remains the same.
switch_same ==
    /\ InTick
    /\ stack' = [stack EXCEPT ![cur] = AfterSwitch(cur)]
    /\ UNCHANGED <<int_handlers, boot, apic, tpr, intr, cur, esp0, blocked>>

Done == /\ stack[cur] # <<>>
        /\ \/ Top.at = "return"
           \/ Top.at = "handler" /\ int_handlers[Top.vec] # "sched_tick"

\* The rest of isr_common, and _leave_kernel: priority and flags as before.
isr_exit ==
    /\ Done
    /\ tpr' = Top.tpr
    /\ intr' = Top.intr
    /\ stack' = [stack EXCEPT ![cur] = SubSeq(@, 1, Len(@) - 1)]
    /\ UNCHANGED <<int_handlers, boot, apic, cur, esp0, blocked>>
-----------------------------------------------------------------------------
Boot == interrupts_init \/ interrupts_register_handler \/ interrupts_start \/ sched_start_timer

Switch == switch_same \/ \E to \in Context : scheduler_switch(to)

Next ==
    \/ Boot \/ irq_handler \/ sched_tick \/ Switch
    \/ \E v \in Device : Request(v) \/ Interrupt(v)
    \/ SystemCall \/ PageFault
    \/ driver_register \/ sched_yield \/ SpuriousYield \/ isr_exit

Spec == Init /\ [][Next]_vars
-----------------------------------------------------------------------------
\* Type correctness.
TypeOK ==
    /\ int_handlers \in [Vector -> {"none", "unhandled", "keyboard_handler", "driver_irq_notify",
                                    "ignore_int", "syscall", "sched_tick", "_tick"}]
    /\ boot \in 0..(Registered + 2)
    /\ irr \subseteq Device /\ isr \subseteq Device /\ tpr \in Vector \cup {0}
    /\ intr \in BOOLEAN /\ blocked \in 0..MaxWaits
    /\ cur \in Context /\ esp0 \in Context \cup {NoStack}
    /\ \A t \in Context : \A i \in 1..Len(stack[t]) :
         stack[t][i] \in [vec : Vector \cup {0}, tpr : Vector \cup {0}, intr : BOOLEAN,
                          at : {"entry", "handler", "halt", "yield", "tick", "return"}]

\* A program runs with all interrupts open, nothing in service, and the TSS
\* naming its own, empty stack: its next entry overwrites no frame.
UserModeSound == UserMode => esp0 = cur /\ tpr = 0 /\ intr /\ isr = {}

\* All other threads wait in the middle of sched_tick or for their first start.
Suspended == \A t \in Context \ {cur} :
                /\ stack[t] # <<>>
                /\ stack[t][Len(stack[t])].at = "tick" \/ stack[t] = <<regs_init>>

\* A thread that halts for ever after its fault does so with the tick open:
\* it keeps nobody else from running.
HaltedOpen == stack[cur] # <<>> /\ Top.at = "halt" => intr /\ Class(tpr) < Class(INT_SCHED_TICK)

\* Interrupts, waits and switches leave every stack as its owner expects it.
StacksSound == TypeOK /\ UserModeSound /\ Suspended /\ HaltedOpen

\* irq_handler acknowledges the interrupt it is about to handle and no other,
\* although system calls acknowledge too and spurious interrupts do not; and
\* each has found its handler: only faults come to unhandled_interrupt_handler.
EoiSound ==
    /\ isr = IF stack[cur] # <<>> /\ Top.at = "entry" THEN {Top.vec} \cap Device ELSE {}
    /\ \A t \in Context : \A i \in 1..Len(stack[t]) :
         stack[t][i].at = "halt" => stack[t][i].vec = PAGE_FAULT

\* As long as no driver's handler has to wait, handlers nest at most four deep
\* (a call, the spurious vector, the tick, a device), which is what a page of
\* stack has to hold, and no thread is in the middle of two ticks at once,
\* which would put it into the queue twice.
NestingBounded ==
    blocked = 0 => \A t \in Context :
                  /\ Len(stack[t]) <= 4
                  /\ Cardinality({i \in 1..Len(stack[t]) : stack[t][i].at = "tick"}) <= 1
=============================================================================
