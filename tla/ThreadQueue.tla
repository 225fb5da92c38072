----------------------------- MODULE ThreadQueue -----------------------------
(***************************************************************************)
(* What a kernel list (src/kernel/list.c) promises to the CPUs that share  *)
(* it: an atomic first-in first-out queue of objects.  The scheduler keeps *)
(* its threads in such lists; a thread is either held by a CPU or in the   *)
(* queue, and pop answers "nothing" only when the queue is really empty at *)
(* that moment.  Module SpinList implements this specification.            *)
(***************************************************************************)
EXTENDS Sequences

CONSTANTS Cpu, Target, NoTarget

VARIABLES queue,  \* the queued objects, oldest first
          held,   \* held[c]: the objects CPU c has in its hands
          last    \* last[c]: what the last pop of CPU c answered

Init ==
    /\ queue = <<>>
    /\ held \in [Cpu -> SUBSET Target]
    /\ \A t \in Target : \E c \in Cpu : held[c] \cap {t} # {}
    /\ \A c, d \in Cpu : c # d => held[c] \cap held[d] = {}
    /\ last = [c \in Cpu |-> NoTarget]

Push(c, t) ==
    /\ t \in held[c]
    /\ queue' = Append(queue, t)
    /\ held' = [held EXCEPT ![c] = @ \ {t}]
    /\ UNCHANGED last

Pop(c) ==
    /\ queue # <<>>
    /\ last' = [last EXCEPT ![c] = Head(queue)]
    /\ held' = [held EXCEPT ![c] = @ \cup {Head(queue)}]
    /\ queue' = Tail(queue)

PopEmpty(c) ==
    /\ queue = <<>>
    /\ last' = [last EXCEPT ![c] = NoTarget]
    /\ UNCHANGED <<queue, held>>

Next ==
    \E c \in Cpu : (\E t \in Target : Push(c, t)) \/ Pop(c) \/ PopEmpty(c)

Spec == Init /\ [][Next]_<<queue, held, last>>
=============================================================================
