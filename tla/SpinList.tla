------------------------------ MODULE SpinList ------------------------------
(***************************************************************************)
(* The linked list of src/kernel/list.c, guarded by the spin lock of       *)
(* src/kernel/locks.c and shared by several CPUs.  An element that is      *)
(* popped goes to the list's own free chain and is reused by a later push. *)
(* list_pop looks at "size" before it takes the lock, so the size is       *)
(* written and read at moments of their own; the pointer updates inside    *)
(* the locked sections are separate steps too, so that the lock has        *)
(* something to protect.                                                   *)
(*                                                                         *)
(* A push that finds no free element allocates one, with the list locked.  *)
(* kmalloc has a spin lock of its own, and others may be in the kernel     *)
(* heap at that time: even for ever, as module HeapLock shows.             *)
(*                                                                         *)
(* The callers are the CPUs' schedulers: a CPU pushes a thread it holds    *)
(* and holds a thread it has popped.  0 is the null pointer.               *)
(***************************************************************************)
EXTENDS Integers, Sequences, FiniteSets

CONSTANTS Cpu, Target, NoTarget, FirstCpu

ASSUME SpinListAssumption ==
    /\ IsFiniteSet(Target) /\ NoTarget \notin Target
    /\ FirstCpu \in Cpu

VARIABLES size, lock, head, tail, free,  \* struct list
          target, next,                  \* struct list_elem, by element
          pc, arg, elem, result, hold    \* per CPU: the call it is in, its
                                         \* argument and local variables,
                                         \* the threads in its hands
VARIABLE heap_lock                       \* the kernel heap's lock, as its
                                         \* other users take and leave it

locals == <<elem, result>>
list == <<size, head, tail, free>>
elems == <<target, next>>
list_vars == <<list, lock, elems, pc, arg, locals, hold>>
vars == <<list_vars, heap_lock>>

Elem == 1..Len(target)

Init ==
    /\ size = 0 /\ lock = 0
    /\ head = 0 /\ tail = 0 /\ free = 0
    /\ target = <<>> /\ next = <<>>
    /\ pc = [c \in Cpu |-> "idle"]
    /\ arg = [c \in Cpu |-> NoTarget]
    /\ elem = [c \in Cpu |-> 0]
    /\ result = [c \in Cpu |-> NoTarget]
    /\ hold = [c \in Cpu |-> IF c = FirstCpu THEN Target ELSE {}]
    /\ heap_lock = 0

Goto(c, at) == pc' = [pc EXCEPT ![c] = at]
-----------------------------------------------------------------------------
(* section_enter and section_leave                                         *)

\* Forms that a plausible slip would give the definitions below.
enter_without_cas(c, from, to) ==
    /\ pc[c] = from
    /\ Goto(c, to)
    /\ lock' = 1
    /\ UNCHANGED <<list, elems, arg, locals, hold>>

\* The compare-and-swap that succeeds.
section_enter(c, from, to) ==
    /\ pc[c] = from
    /\ lock = 0
    /\ lock' = 1
    /\ Goto(c, to)
    /\ UNCHANGED <<list, elems, arg, locals, hold>>

\* The one that fails: the CPU then only reads the lock until it is free.
section_spin(c, from, spin) ==
    /\ \/ pc[c] = from /\ lock # 0 /\ Goto(c, spin)
       \/ pc[c] = spin /\ Goto(c, IF lock = 0 THEN from ELSE spin)
    /\ UNCHANGED <<list, lock, elems, arg, locals, hold>>

section_leave(c) == lock' = 0
-----------------------------------------------------------------------------
(* list_push(this, target)                                                 *)

StartPush(c, t) ==
    /\ pc[c] = "idle"
    /\ t \in hold[c]
    /\ hold' = [hold EXCEPT ![c] = @ \ {t}]
    /\ arg' = [arg EXCEPT ![c] = t]
    /\ Goto(c, "push_enter")
    /\ UNCHANGED <<list, lock, elems, locals>>

PushEnter(c) == section_enter(c, "push_enter", "push_new")
PushSpin(c) == section_spin(c, "push_enter", "push_spin")

new_never_reuses(c) ==
    /\ pc[c] = "push_new" /\ heap_lock = 0
    /\ elem' = [elem EXCEPT ![c] = Len(target) + 1]
    /\ target' = Append(target, arg[c])
    /\ next' = Append(next, 0)
    /\ Goto(c, "push_link")
    /\ UNCHANGED <<list, lock, arg, result, hold>>

\* list_elem_new: reuse the first free element, or allocate one as soon as the
\* heap's lock is free; kmalloc has given it back when it returns.
list_elem_new(c) ==
    /\ pc[c] = "push_new"
    /\ free = 0 => heap_lock = 0
    /\ IF free # 0
         THEN /\ elem' = [elem EXCEPT ![c] = free]
              /\ free' = next[free]
              /\ target' = [target EXCEPT ![free] = arg[c]]
              /\ next' = [next EXCEPT ![free] = 0]
         ELSE /\ elem' = [elem EXCEPT ![c] = Len(target) + 1]
              /\ target' = Append(target, arg[c])
              /\ next' = Append(next, 0)
              /\ UNCHANGED free
    /\ Goto(c, "push_link")
    /\ UNCHANGED <<size, head, tail, lock, arg, result, hold>>

push_keeps_tail(c) ==
    /\ pc[c] = "push_link"
    /\ IF tail = 0
         THEN head' = elem[c] /\ tail' = elem[c] /\ UNCHANGED next
         ELSE next' = [next EXCEPT ![tail] = elem[c]] /\ UNCHANGED <<head, tail>>
    /\ Goto(c, "push_size")
    /\ UNCHANGED <<size, free, lock, target, arg, locals, hold>>

PushLink(c) ==
    /\ pc[c] = "push_link"
    /\ IF tail = 0
         THEN head' = elem[c] /\ UNCHANGED next
         ELSE next' = [next EXCEPT ![tail] = elem[c]] /\ UNCHANGED head
    /\ tail' = elem[c]
    /\ Goto(c, "push_size")
    /\ UNCHANGED <<size, free, lock, target, arg, locals, hold>>

PushSize(c) ==
    /\ pc[c] = "push_size"
    /\ size' = size + 1
    /\ Goto(c, "push_leave")
    /\ UNCHANGED <<head, tail, free, lock, elems, arg, locals, hold>>

push_forgets_leave(c) ==
    /\ pc[c] = "push_leave"
    /\ Goto(c, "idle")
    /\ arg' = [arg EXCEPT ![c] = NoTarget]
    /\ elem' = [elem EXCEPT ![c] = 0]
    /\ UNCHANGED <<list, lock, elems, result, hold>>

PushLeave(c) ==
    /\ pc[c] = "push_leave"
    /\ section_leave(c)
    /\ arg' = [arg EXCEPT ![c] = NoTarget]
    /\ elem' = [elem EXCEPT ![c] = 0]
    /\ Goto(c, "idle")
    /\ UNCHANGED <<list, elems, result, hold>>
-----------------------------------------------------------------------------
(* list_pop(this)                                                          *)

\* The check made without the lock; result[c] is what the last pop of CPU c
\* has decided to return.
StartPop(c) ==
    /\ pc[c] = "idle"
    /\ IF size = 0
         THEN result' = [result EXCEPT ![c] = NoTarget] /\ UNCHANGED pc
         ELSE Goto(c, "pop_enter") /\ UNCHANGED result
    /\ UNCHANGED <<list, lock, elems, arg, elem, hold>>

PopEnter(c) == section_enter(c, "pop_enter", "pop_unlink")
PopSpin(c) == section_spin(c, "pop_enter", "pop_spin")

\* Unlink the first element, if there is one, and take its target.
PopUnlink(c) ==
    /\ pc[c] = "pop_unlink"
    /\ elem' = [elem EXCEPT ![c] = head]
    /\ IF head = tail
         THEN head' = 0 /\ tail' = 0
         ELSE head' = next[head] /\ UNCHANGED tail
    /\ result' = [result EXCEPT ![c] = IF head = 0 THEN NoTarget ELSE target[head]]
    /\ Goto(c, IF head = 0 THEN "pop_leave" ELSE "pop_delete")
    /\ UNCHANGED <<size, free, lock, elems, arg, hold>>

\* list_elem_delete
list_elem_delete(c) ==
    /\ pc[c] = "pop_delete"
    /\ next' = [next EXCEPT ![elem[c]] = free]
    /\ target' = [target EXCEPT ![elem[c]] = NoTarget]
    /\ free' = elem[c]
    /\ Goto(c, "pop_size")
    /\ UNCHANGED <<size, head, tail, lock, arg, locals, hold>>

PopSize(c) ==
    /\ pc[c] = "pop_size"
    /\ size' = size - 1
    /\ Goto(c, "pop_leave")
    /\ UNCHANGED <<head, tail, free, lock, elems, arg, locals, hold>>

PopLeave(c) ==
    /\ pc[c] = "pop_leave"
    /\ section_leave(c)
    /\ hold' = [hold EXCEPT ![c] = @ \cup ({result[c]} \ {NoTarget})]
    /\ elem' = [elem EXCEPT ![c] = 0]
    /\ Goto(c, "idle")
    /\ UNCHANGED <<list, elems, arg, result>>
-----------------------------------------------------------------------------
\* Others enter the heap and leave it.
kmalloc_elsewhere ==
    /\ heap_lock' = 1 - heap_lock
    /\ UNCHANGED list_vars

\* What CPU c does between its call and its return.
Step(c) ==
    /\ \/ PushEnter(c) \/ PushSpin(c) \/ list_elem_new(c)
       \/ PushLink(c) \/ PushSize(c) \/ PushLeave(c)
       \/ PopEnter(c) \/ PopSpin(c) \/ PopUnlink(c)
       \/ list_elem_delete(c) \/ PopSize(c) \/ PopLeave(c)
    /\ UNCHANGED heap_lock

Start(c) ==
    /\ (\E t \in Target : StartPush(c, t)) \/ StartPop(c)
    /\ UNCHANGED heap_lock

Next == (\E c \in Cpu : Start(c) \/ Step(c)) \/ kmalloc_elsewhere

Spec == Init /\ [][Next]_vars

\* A CPU inside a list operation keeps executing: the callers run with the
\* local timer masked.  Nothing makes a compare-and-swap fair, neither that of the
\* list nor that of the heap, and nobody has to leave the heap.
FairSpec == Spec /\ \A c \in Cpu : WF_vars(Step(c))
-----------------------------------------------------------------------------
\* The list and its callers have their types, and pointers point to existing
\* elements.
FieldsOK ==
    /\ size \in Nat /\ lock \in {0, 1}
    /\ {head, tail, free} \subseteq Elem \cup {0}
    /\ target \in Seq(Target \cup {NoTarget})
    /\ next \in Seq(Elem \cup {0}) /\ Len(next) = Len(target)
    /\ pc \in [Cpu -> {"idle", "push_enter", "push_spin", "push_new", "push_link",
                       "push_size", "push_leave", "pop_enter", "pop_spin",
                       "pop_unlink", "pop_delete", "pop_size", "pop_leave"}]
    /\ arg \in [Cpu -> Target \cup {NoTarget}]
    /\ elem \in [Cpu -> Elem \cup {0}]
    /\ result \in [Cpu -> Target \cup {NoTarget}]
    /\ hold \in [Cpu -> SUBSET Target]

\* Type correctness.
TypeOK == FieldsOK /\ heap_lock \in {0, 1}

Locked == {"push_new", "push_link", "push_size", "push_leave",
           "pop_unlink", "pop_delete", "pop_size", "pop_leave"}

\* At most one CPU is between section_enter and section_leave, and the lock
\* word is set exactly while one is.
MutualExclusion ==
    /\ \A c, d \in Cpu : pc[c] \in Locked /\ pc[d] \in Locked => c = d
    /\ lock = IF \E c \in Cpu : pc[c] \in Locked THEN 1 ELSE 0

\* The elements met when following next from e; a cyclic chain shows as a
\* sequence with more members than there are elements.
Chain(e) ==
    LET walk[n \in 0..Len(target)] ==
          IF n = 0 THEN e ELSE IF walk[n - 1] = 0 THEN 0 ELSE next[walk[n - 1]]
    IN  [i \in 1..Cardinality({n \in 0..Len(target) : walk[n] # 0}) |-> walk[i - 1]]

Members(e) == {Chain(e)[i] : i \in 1..Len(Chain(e))}

InHand == {elem[c] : c \in {d \in Cpu : pc[d] \in {"push_link", "pop_delete"}}}

\* No element is lost, shared or linked twice: each is in the list, in the
\* free chain or in the hand of the one CPU that is moving it, and the tail
\* pointer is the last element of the list.
ElementsAccounted ==
    /\ Len(Chain(head)) + Len(Chain(free)) + Cardinality(InHand) = Len(target)
    /\ Members(head) \cup Members(free) \cup InHand = Elem
    /\ tail = IF head = 0 THEN 0 ELSE Chain(head)[Len(Chain(head))]

\* Whenever the list is unlocked "size" is the number of linked elements, so
\* the check list_pop makes without the lock is as good as it can be.
SizeExact == lock = 0 => size = Len(Chain(head))

\* Free elements are reused before new ones are made: the list never owns more
\* elements than the objects that ever had to be in it at the same time.
NoLeak == Len(target) <= Cardinality(Target)

\* All of the list's structure at once.
ListSound == TypeOK /\ ElementsAccounted /\ SizeExact /\ NoLeak
-----------------------------------------------------------------------------
(* Refinement: a push takes effect when the size is raised, a pop when the *)
(* element is unlinked, an unsuccessful pop when it sees size or head 0.   *)

Pushing(c) == pc[c] \in {"push_enter", "push_spin", "push_new", "push_link", "push_size"}
Popped(c) == pc[c] \in {"pop_delete", "pop_size", "pop_leave"}

Unsized == \E c \in Cpu : pc[c] = "push_size"

AbsQueue ==
    LET ch == Chain(head)
    IN  [i \in 1..(Len(ch) - IF Unsized THEN 1 ELSE 0) |-> target[ch[i]]]

InTransit(c) == (IF Pushing(c) THEN {arg[c]} ELSE {})
                  \cup (IF Popped(c) THEN {result[c]} \ {NoTarget} ELSE {})

AbsHeld == [c \in Cpu |-> hold[c] \cup InTransit(c)]

Queue == INSTANCE ThreadQueue WITH queue <- AbsQueue, held <- AbsHeld, last <- result

\* list_push and list_pop behave as one atomic queue operation each, whatever
\* the CPUs' interleaving: no thread is lost, doubled or overtaken, and a pop
\* that answers 0 did so at a moment when the list was empty.
IsQueue == Queue!Spec

\* A CPU that holds the list's lock finds the heap's lock taken.
KeptFromHeap == \E c \in Cpu : pc[c] = "push_new" /\ free = 0 /\ heap_lock # 0

\* Whoever takes the list's lock gives it back, on every path through list_push
\* and list_pop, unless he finds the heap's lock taken again and again: the only
\* thing that a CPU waits for while it holds a list (HeapLock shows when that
\* wait never ends).
LockReleased == (lock # 0 ~> lock = 0) \/ []<>KeptFromHeap
=============================================================================
