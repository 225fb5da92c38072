--------------------------- MODULE SchedulerProofs ---------------------------
(***************************************************************************)
(* Proofs about module Scheduler, for every number of CPUs and threads and *)
(* every sequence of modules: no thread is lost or in two places, modules  *)
(* are spread evenly, and a system call returns only when it is done.      *)
(*                                                                         *)
(* A CPU has at most one thread in its hands: the current one, until       *)
(* scheduler_put_back, or the one that scheduler_pick took, from then on.  *)
(* So every step of sched_tick either moves a thread from the hand to the  *)
(* queue's end, or from its head into the hand, or moves none; Placed is   *)
(* what these moves keep.                                                  *)
(***************************************************************************)
EXTENDS Scheduler, FiniteSetTheorems, FunctionTheorems, SequenceTheorems, TLAPS

Hand == [c \in Cpu |-> IF at[c] \in {"can_run", "switch"} THEN next_thread[c]
                       ELSE IF at[c] \in {"run", "put_back"} THEN current_thread[c]
                       ELSE NoThread]

InQueue(q, t) == \E c \in Cpu : \E k \in 1..Len(q[c]) : q[c][k] = t

\* The threads of M are in the queues q and the hands h, each once, and nobody
\* else is.
Placed(q, h, M) ==
    /\ \A c \in Cpu : \A k \in 1..Len(q[c]) : q[c][k] \in M
    /\ \A c, d \in Cpu : \A j \in 1..Len(q[c]), k \in 1..Len(q[d]) :
         q[c][j] = q[d][k] => c = d /\ j = k
    /\ \A c \in Cpu : h[c] \in Thread => h[c] \in M /\ ~InQueue(q, h[c])
    /\ \A c, d \in Cpu : h[c] \in Thread /\ h[c] = h[d] => c = d
    /\ \A t \in M : InQueue(q, t) \/ \E c \in Cpu : h[c] = t

\* A CPU's idle thread is its own, and CPU 0 boots on it.
OwnIdle ==
    \A c \in Cpu : /\ current_thread[c] \in Thread \cup {c}
                   /\ next_thread[c] \in Thread \cup {c, NoThread}
                   /\ at[c] \in {"can_run", "switch"} => next_thread[c] # NoThread
                   /\ at[c] = "boot" => c = 0 /\ current_thread[0] = 0

PlaceInv == TypeOK /\ OwnIdle /\ LoadBalanced /\ Placed(prio_queue, Hand, Made)
-----------------------------------------------------------------------------
(* The moves                                                               *)

Types(q, h, M) == /\ q \in [Cpu -> Seq(Thread)]
                  /\ h \in [Cpu -> Thread \cup Cpu \cup {NoThread}]
                  /\ M \subseteq Thread

\* Idle threads and NoThread are numbers, threads are not.
LEMMA NotThreads == NoThread \notin Thread /\ \A c \in Cpu : c \notin Thread
  BY SchedulerAssumption DEF NoThread, Cpu

\* The modules are different threads.
LEMMA ModuleFacts ==
    /\ Len(Modules) \in Nat
    /\ \A i \in 1..Len(Modules) : Modules[i] \in Thread
    /\ \A i, j \in 1..Len(Modules) : Modules[i] = Modules[j] => i = j
  <1>1. Modules \in Seq(Thread)
    BY SchedulerAssumption
  <1>2. \A i, j \in 1..Len(Modules) : Modules[i] = Modules[j] => i = j
    BY SchedulerAssumption
  <1> QED
    BY <1>1, <1>2

\* scheduler_put_back and BlockedBack: the thread in the hand goes to the end of
\* the queue.
LEMMA HandToQueue ==
    ASSUME NEW q, NEW h, NEW M, Types(q, h, M), Placed(q, h, M),
           NEW c \in Cpu, h[c] \in Thread
    PROVE  Placed([q EXCEPT ![c] = Append(@, h[c])], [h EXCEPT ![c] = NoThread], M)
  <1> DEFINE q2 == [q EXCEPT ![c] = Append(@, h[c])]
             h2 == [h EXCEPT ![c] = NoThread]
  <1>1. /\ q2[c] = Append(q[c], h[c]) /\ \A d \in Cpu \ {c} : q2[d] = q[d]
        /\ h2[c] = NoThread /\ \A d \in Cpu \ {c} : h2[d] = h[d]
    BY DEF Types
  <1>2. /\ Len(q[c]) \in Nat /\ Len(q2[c]) = Len(q[c]) + 1
        /\ \A k \in 1..Len(q[c]) : q2[c][k] = q[c][k]
        /\ q2[c][Len(q[c]) + 1] = h[c]
    BY <1>1 DEF Types
  <1>3. \A d \in Cpu : \A k \in 1..Len(q2[d]) :
          \/ k \in 1..Len(q[d]) /\ q2[d][k] = q[d][k]
          \/ d = c /\ k = Len(q[c]) + 1 /\ q2[d][k] = h[c]
    BY <1>1, <1>2
  <1>4. \A t : InQueue(q2, t) <=> InQueue(q, t) \/ t = h[c]
    <2>1. ASSUME NEW t, InQueue(q, t) PROVE InQueue(q2, t)
      <3>1. PICK d \in Cpu : \E k \in 1..Len(q[d]) : q[d][k] = t
        BY <2>1 DEF InQueue
      <3>2. CASE d = c
        BY <3>1, <3>2, <1>2 DEF InQueue
      <3>3. CASE d # c
        BY <3>1, <3>3, <1>1 DEF InQueue
      <3> QED
        BY <3>2, <3>3
    <2>2. InQueue(q2, h[c])
      BY <1>2 DEF InQueue
    <2>3. ASSUME NEW t, InQueue(q2, t) PROVE InQueue(q, t) \/ t = h[c]
      <3> HIDE DEF q2
      <3> QED
        BY <2>3, <1>3 DEF InQueue
    <2> QED
      BY <2>1, <2>2, <2>3
  <1> HIDE DEF q2, h2
  <1>5. \A d \in Cpu : \A k \in 1..Len(q2[d]) : q2[d][k] \in M
    BY <1>3 DEF Placed
  <1>6. ASSUME NEW d \in Cpu, NEW e \in Cpu, NEW j \in 1..Len(q2[d]), NEW k \in 1..Len(q2[e]),
               q2[d][j] = q2[e][k]
        PROVE  d = e /\ j = k
    BY <1>3, <1>6 DEF Placed, InQueue
  <1>7. \A d \in Cpu : h2[d] \in Thread => d # c /\ h2[d] = h[d]
    BY <1>1, NotThreads
  <1>8. \A d \in Cpu : h2[d] \in Thread => h2[d] \in M /\ ~InQueue(q2, h2[d])
    BY <1>4, <1>7 DEF Placed
  <1>9. \A d, e \in Cpu : h2[d] \in Thread /\ h2[d] = h2[e] => d = e
    BY <1>7 DEF Placed
  <1>10. \A t \in M : InQueue(q2, t) \/ \E d \in Cpu : h2[d] = t
    BY <1>1, <1>4 DEF Placed
  <1> QED
    BY <1>5, <1>6, <1>8, <1>9, <1>10 DEF Placed, q2, h2

\* sched_thread_ready: a thread that was nowhere goes to the end of a queue.
LEMMA NewToQueue ==
    ASSUME NEW q, NEW h, NEW M, Types(q, h, M), Placed(q, h, M),
           NEW c \in Cpu, NEW n \in Thread \ M
    PROVE  Placed([q EXCEPT ![c] = Append(@, n)], h, M \cup {n})
  <1> DEFINE q2 == [q EXCEPT ![c] = Append(@, n)]
  <1>1. q2[c] = Append(q[c], n) /\ \A d \in Cpu \ {c} : q2[d] = q[d]
    BY DEF Types
  <1>2. /\ Len(q[c]) \in Nat /\ Len(q2[c]) = Len(q[c]) + 1
        /\ \A k \in 1..Len(q[c]) : q2[c][k] = q[c][k]
        /\ q2[c][Len(q[c]) + 1] = n
    BY <1>1 DEF Types
  <1>3. \A d \in Cpu : \A k \in 1..Len(q2[d]) :
          \/ k \in 1..Len(q[d]) /\ q2[d][k] = q[d][k]
          \/ d = c /\ k = Len(q[c]) + 1 /\ q2[d][k] = n
    BY <1>1, <1>2
  <1>4. \A t : InQueue(q2, t) <=> InQueue(q, t) \/ t = n
    <2>1. ASSUME NEW t, InQueue(q, t) PROVE InQueue(q2, t)
      <3>1. PICK d \in Cpu : \E k \in 1..Len(q[d]) : q[d][k] = t
        BY <2>1 DEF InQueue
      <3>2. CASE d = c
        BY <3>1, <3>2, <1>2 DEF InQueue
      <3>3. CASE d # c
        BY <3>1, <3>3, <1>1 DEF InQueue
      <3> QED
        BY <3>2, <3>3
    <2>2. InQueue(q2, n)
      BY <1>2 DEF InQueue
    <2>3. ASSUME NEW t, InQueue(q2, t) PROVE InQueue(q, t) \/ t = n
      <3> HIDE DEF q2
      <3> QED
        BY <2>3, <1>3 DEF InQueue
    <2> QED
      BY <2>1, <2>2, <2>3
  <1> HIDE DEF q2
  <1>5. \A d \in Cpu : \A k \in 1..Len(q2[d]) : q2[d][k] \in M \cup {n}
    BY <1>3 DEF Placed
  <1>6. ASSUME NEW d \in Cpu, NEW e \in Cpu, NEW j \in 1..Len(q2[d]), NEW k \in 1..Len(q2[e]),
               q2[d][j] = q2[e][k]
        PROVE  d = e /\ j = k
    BY <1>3, <1>6, SMTT(30) DEF Placed
  <1>7. \A d \in Cpu : h[d] \in Thread => h[d] \in M \cup {n} /\ ~InQueue(q2, h[d])
    BY <1>4 DEF Placed
  <1>8. \A t \in M \cup {n} : InQueue(q2, t) \/ \E d \in Cpu : h[d] = t
    BY <1>4 DEF Placed
  <1> QED
    BY <1>5, <1>6, <1>7, <1>8 DEF Placed, q2

\* scheduler_pick: the head of the queue goes into the empty hand.
LEMMA QueueToHand ==
    ASSUME NEW q, NEW h, NEW M, Types(q, h, M), Placed(q, h, M),
           NEW c \in Cpu, q[c] # <<>>, h[c] = NoThread
    PROVE  Placed([q EXCEPT ![c] = Tail(@)], [h EXCEPT ![c] = Head(q[c])], M)
  <1> DEFINE q2 == [q EXCEPT ![c] = Tail(@)]
             h2 == [h EXCEPT ![c] = Head(q[c])]
  <1>1. /\ q2[c] = Tail(q[c]) /\ \A d \in Cpu \ {c} : q2[d] = q[d]
        /\ h2[c] = Head(q[c]) /\ \A d \in Cpu \ {c} : h2[d] = h[d]
    BY DEF Types
  <1>2. /\ Len(q[c]) \in Nat \ {0} /\ Len(q2[c]) = Len(q[c]) - 1
        /\ \A k \in 1..(Len(q[c]) - 1) : q2[c][k] = q[c][k + 1]
        /\ h2[c] = q[c][1]
    BY <1>1 DEF Types
  <1> DEFINE Old(d, k) == IF d = c THEN k + 1 ELSE k
  <1>3. \A d \in Cpu : \A k \in 1..Len(q2[d]) :
          k \in Nat /\ Old(d, k) \in 1..Len(q[d]) /\ q2[d][k] = q[d][Old(d, k)]
    BY <1>1, <1>2
  <1>4. 1 \in 1..Len(q[c])
    BY <1>2
  <1>5. InQueue(q, h2[c]) /\ h2[c] \in M
    BY <1>2, <1>4 DEF InQueue, Placed
  <1>6. ~InQueue(q2, h2[c])
    <2> SUFFICES ASSUME NEW d \in Cpu, NEW k \in 1..Len(q2[d]), q2[d][k] = h2[c] PROVE FALSE
      BY DEF InQueue
    <2>1. d = c /\ Old(d, k) = 1
      <3>1. Old(d, k) \in 1..Len(q[d]) /\ q[d][Old(d, k)] = q[c][1]
        BY <1>2, <1>3
      <3> HIDE DEF Old
      <3> QED
        BY <1>4, <3>1 DEF Placed
    <2> QED
      BY <1>3, <2>1
  <1>7. \A t : InQueue(q2, t) => InQueue(q, t)
    <2> HIDE DEF q2, Old
    <2> QED
      BY <1>3 DEF InQueue
  <1>8. ASSUME NEW t, InQueue(q, t), t # h2[c] PROVE InQueue(q2, t)
    <2>1. PICK d \in Cpu : \E k \in 1..Len(q[d]) : q[d][k] = t
      BY <1>8 DEF InQueue
    <2>2. PICK k \in 1..Len(q[d]) : q[d][k] = t
      BY <2>1
    <2>3. CASE d = c
      <3>1. k # 1 /\ k - 1 \in 1..(Len(q[c]) - 1) /\ k \in Nat
        BY <2>2, <2>3, <1>2, <1>8
      <3>2. k - 1 \in 1..Len(q2[c]) /\ q2[c][k - 1] = t
        BY <3>1, <2>2, <2>3, <1>2
      <3> QED
        BY <3>2 DEF InQueue
    <2>4. CASE d # c
      BY <2>1, <2>4, <1>1 DEF InQueue
    <2> QED
      BY <2>3, <2>4
  <1>9. \A d \in Cpu : \A k \in 1..Len(q2[d]) : q2[d][k] \in M
    BY <1>3 DEF Placed
  <1>10. ASSUME NEW d \in Cpu, NEW e \in Cpu, NEW j \in 1..Len(q2[d]), NEW k \in 1..Len(q2[e]),
                q2[d][j] = q2[e][k]
         PROVE  d = e /\ j = k
    <2>1. d = e /\ Old(d, j) = Old(e, k)
      <3>1. /\ Old(d, j) \in 1..Len(q[d]) /\ Old(e, k) \in 1..Len(q[e])
            /\ q[d][Old(d, j)] = q[e][Old(e, k)]
        BY <1>3, <1>10
      <3> HIDE DEF Old
      <3> QED
        BY <3>1 DEF Placed
    <2>2. j \in Nat /\ k \in Nat
      BY <1>3
    <2> QED
      BY <2>1, <2>2
  <1> HIDE DEF q2, h2
  <1>11. \A d \in Cpu : h2[d] \in Thread => h2[d] \in M /\ ~InQueue(q2, h2[d])
    BY <1>1, <1>5, <1>6, <1>7 DEF Placed
  <1>12. \A d, e \in Cpu : h2[d] \in Thread /\ h2[d] = h2[e] => d = e
    BY <1>1, <1>5 DEF Placed
  <1>13. \A t \in M : InQueue(q2, t) \/ \E d \in Cpu : h2[d] = t
    <2> SUFFICES ASSUME NEW t \in M, ~InQueue(q2, t) PROVE \E d \in Cpu : h2[d] = t
      OBVIOUS
    <2>1. CASE InQueue(q, t)
      BY <2>1, <1>8
    <2>2. CASE ~InQueue(q, t)
      <3>1. PICK d \in Cpu : h[d] = t
        BY <2>2 DEF Placed
      <3>2. d # c
        BY <3>1, NotThreads DEF Types
      <3> QED
        BY <3>1, <3>2, <1>1
    <2> QED
      BY <2>1, <2>2
  <1> QED
    BY <1>9, <1>10, <1>11, <1>12, <1>13 DEF Placed, q2, h2

\* The idle thread coming or going changes nothing for the others.
LEMMA IdleInHand ==
    ASSUME NEW q, NEW h, NEW M, Types(q, h, M), Placed(q, h, M),
           NEW c \in Cpu, h[c] \notin Thread, NEW x \in Cpu \cup {NoThread}
    PROVE  Placed(q, [h EXCEPT ![c] = x], M)
  <1> DEFINE h2 == [h EXCEPT ![c] = x]
  <1>1. /\ h2[c] = x /\ x \notin Thread /\ \A d \in Cpu \ {c} : h2[d] = h[d]
    BY NotThreads DEF Types
  <1> HIDE DEF h2
  <1>2. \A d \in Cpu : h2[d] \in Thread => d # c /\ h2[d] = h[d]
    BY <1>1
  <1>3. \A t \in M : InQueue(q, t) \/ \E d \in Cpu : h2[d] = t
    BY <1>1, SMTT(30) DEF Placed, Types
  <1> QED
    BY <1>2, <1>3 DEF Placed, h2
-----------------------------------------------------------------------------
(* No thread is lost                                                       *)

\* The types of the queues, the hands and the modules made ready.
LEMMA PlaceTypes == ASSUME PlaceInv PROVE Types(prio_queue, Hand, Made)
  <1>1. Made \subseteq Thread
    BY ModuleFacts DEF PlaceInv, TypeOK, Made
  <1>2. Hand \in [Cpu -> Thread \cup Cpu \cup {NoThread}]
    BY DEF PlaceInv, TypeOK, Hand
  <1> QED
    BY <1>1, <1>2 DEF PlaceInv, TypeOK, Types

\* Nothing is anywhere before the first module is loaded.
LEMMA PlaceInit == Init => PlaceInv
  <1> SUFFICES ASSUME Init PROVE PlaceInv
    OBVIOUS
  <1>1. TypeOK
    BY SchedulerAssumption DEF Init, TypeOK, Cpu, NoThread
  <1>2. OwnIdle /\ LoadBalanced
    BY SchedulerAssumption DEF Init, OwnIdle, LoadBalanced, Cpu, NoThread
  <1>3. Made = {}
    BY DEF Init, Made
  <1>4. \A c \in Cpu : Hand[c] \notin Thread
    BY NotThreads DEF Init, Hand
  <1>5. \A c \in Cpu : prio_queue[c] = <<>> /\ Len(prio_queue[c]) = 0
    BY DEF Init
  <1>6. Placed(prio_queue, Hand, Made)
    BY <1>3, <1>4, <1>5 DEF Placed
  <1> QED
    BY <1>1, <1>2, <1>6 DEF PlaceInv

\* A step that moves no thread.
LEMMA NoMove ==
    ASSUME PlaceInv, TypeOK', OwnIdle', UNCHANGED <<load, ready, prio_queue>>, Hand' = Hand
    PROVE  PlaceInv'
  <1>1. Made' = Made
    BY DEF Made
  <1>2. LoadBalanced'
    BY DEF PlaceInv, LoadBalanced
  <1>3. Placed(prio_queue', Hand', Made')
    BY <1>1 DEF PlaceInv
  <1> QED
    BY <1>2, <1>3 DEF PlaceInv

\* Loading: sched_thread_ready and sched_start_timer.
LEMMA PlaceLoad == ASSUME PlaceInv, sched_thread_ready \/ sched_start_timer PROVE PlaceInv'
  <1> USE DEF PlaceInv
  <1>1. CASE sched_thread_ready
    <2> USE <1>1 DEF sched_thread_ready
    <2>1. PICK c \in Cpu : /\ scheduler_find(c)
                           /\ prio_queue' = [prio_queue EXCEPT ![c] = Append(@, Modules[ready + 1])]
                           /\ load' = [load EXCEPT ![c] = @ + 1]
      OBVIOUS
    <2> DEFINE n == Modules[ready + 1]
    <2>2. ready + 1 \in 1..Len(Modules) /\ n \in Thread /\ ready \in Nat
      BY ModuleFacts DEF TypeOK
    <2>3. n \notin Made
      <3>1. ASSUME NEW i \in 1..ready, Modules[i] = n PROVE FALSE
        <4>1. i \in 1..Len(Modules) /\ i # ready + 1
          BY <2>2, ModuleFacts
        <4> QED
          BY <3>1, <4>1, <2>2, ModuleFacts
      <3> QED
        BY <3>1 DEF Made
    <2>4. Made' = Made \cup {n}
      <3>1. 1..(ready + 1) = (1..ready) \cup {ready + 1}
        BY <2>2
      <3> QED
        BY <3>1 DEF Made
    <2>5. TypeOK'
      <3>1. prio_queue' \in [Cpu -> Seq(Thread)]
        BY <2>1, <2>2 DEF TypeOK
      <3>2. load' \in [Cpu -> Nat] /\ ready' \in 0..Len(Modules)
        BY <2>1, <2>2, SMTT(30) DEF TypeOK
      <3> QED
        BY <3>1, <3>2 DEF TypeOK
    <2>6. OwnIdle' /\ Hand' = Hand
      BY DEF OwnIdle, Hand
    <2>7. LoadBalanced'
      <3> SUFFICES ASSUME NEW d \in Cpu, NEW e \in Cpu PROVE load'[d] <= load'[e] + 1
        BY DEF LoadBalanced
      <3>1. load[d] \in Nat /\ load[e] \in Nat /\ load[c] \in Nat
        BY DEF TypeOK
      <3>2. load[c] <= load[e] /\ load[d] <= load[e] + 1
        BY <2>1 DEF LoadBalanced, scheduler_find
      <3>3. /\ load'[d] = IF d = c THEN load[d] + 1 ELSE load[d]
            /\ load'[e] = IF e = c THEN load[e] + 1 ELSE load[e]
        BY <2>1 DEF TypeOK
      <3> QED
        BY <3>1, <3>2, <3>3
    <2>8. Placed(prio_queue', Hand', Made')
      BY <2>1, <2>2, <2>3, <2>4, <2>6, PlaceTypes, NewToQueue
    <2> QED
      BY <2>5, <2>6, <2>7, <2>8
  <1>2. CASE sched_start_timer
    <2>1. TypeOK' /\ OwnIdle'
      BY <1>2 DEF sched_start_timer, TypeOK, OwnIdle, sched
    <2>2. UNCHANGED <<load, ready, prio_queue, current_thread, next_thread>>
      BY <1>2 DEF sched_start_timer, sched
    <2>3. 0 \in Cpu /\ at[0] = "boot" /\ at' = [at EXCEPT ![0] = "run"] /\ current_thread[0] = 0
      BY <1>2, SchedulerAssumption DEF sched_start_timer, OwnIdle, Cpu
    <2>4. Hand' = [Hand EXCEPT ![0] = 0] /\ Hand[0] = NoThread
      <3>1. at \in [Cpu -> {"boot", "run", "put_back", "pick", "can_run", "switch"}]
        BY DEF TypeOK
      <3> QED
        BY <2>2, <2>3, <3>1 DEF Hand
    <2>5. Placed(prio_queue', Hand', Made')
      <3>1. Hand[0] \notin Thread /\ Made' = Made
        BY <2>2, <2>4, NotThreads DEF Made
      <3> QED
        BY <2>2, <2>3, <2>4, <3>1, PlaceTypes, IdleInHand
    <2>6. LoadBalanced'
      BY <2>2 DEF LoadBalanced
    <2> QED
      BY <2>1, <2>5, <2>6
  <1> QED
    BY <1>1, <1>2

\* The steps of sched_tick.
LEMMA PlaceTick == ASSUME PlaceInv, NEW c \in Cpu, Tick(c) PROVE PlaceInv'
  <1> USE DEF PlaceInv
  <1>0. Types(prio_queue, Hand, Made)
    BY PlaceTypes
  <1>1. CASE scheduler_put_back(c)
    <2> USE <1>1 DEF scheduler_put_back
    <2>1. Hand[c] = current_thread[c] /\ Hand' = [Hand EXCEPT ![c] = NoThread]
      BY DEF Hand, TypeOK
    <2>2. Made' = Made /\ LoadBalanced' /\ OwnIdle'
      BY DEF Made, LoadBalanced, OwnIdle, TypeOK
    <2>3. CASE current_thread[c] = c
      <3>1. TypeOK'
        BY <2>3 DEF TypeOK
      <3>2. Placed(prio_queue', Hand', Made')
        BY <1>0, <2>1, <2>2, <2>3, NotThreads, IdleInHand
      <3> QED
        BY <2>2, <3>1, <3>2
    <2>4. CASE current_thread[c] # c
      <3>1. current_thread[c] \in Thread
        BY <2>4 DEF OwnIdle
      <3>2. TypeOK'
        BY <2>4, <3>1 DEF TypeOK
      <3>3. Placed(prio_queue', Hand', Made')
        BY <1>0, <2>1, <2>2, <2>4, <3>1, HandToQueue
      <3> QED
        BY <2>2, <3>2, <3>3
    <2> QED
      BY <2>3, <2>4
  <1>2. CASE scheduler_pick(c)
    <2> USE <1>2 DEF scheduler_pick
    <2>1. Hand[c] = NoThread /\ Hand' = [Hand EXCEPT ![c] = next_thread'[c]]
      BY DEF Hand, TypeOK
    <2>2. Made' = Made /\ LoadBalanced'
      BY DEF Made, LoadBalanced
    <2>3. CASE prio_queue[c] = <<>>
      <3>1. TypeOK' /\ next_thread'[c] = c
        BY <2>3 DEF TypeOK
      <3>2. c # NoThread
        BY SchedulerAssumption DEF Cpu, NoThread
      <3>3. OwnIdle'
        BY <2>3, <3>2 DEF TypeOK, OwnIdle
      <3>4. Placed(prio_queue', Hand', Made')
        BY <1>0, <2>1, <2>2, <2>3, <3>1, NotThreads, IdleInHand
      <3> QED
        BY <2>2, <3>1, <3>3, <3>4
    <2>4. CASE prio_queue[c] # <<>>
      <3>1. Head(prio_queue[c]) \in Thread /\ Tail(prio_queue[c]) \in Seq(Thread)
        BY <2>4 DEF TypeOK
      <3>2. TypeOK' /\ next_thread'[c] = Head(prio_queue[c])
        BY <2>4, <3>1 DEF TypeOK
      <3>3. OwnIdle'
        BY <2>4, <3>1, NotThreads DEF TypeOK, OwnIdle
      <3>4. /\ prio_queue' = [prio_queue EXCEPT ![c] = Tail(@)]
            /\ Hand' = [Hand EXCEPT ![c] = Head(prio_queue[c])]
        BY <2>1, <2>4, <3>2
      <3>5. Placed([prio_queue EXCEPT ![c] = Tail(@)],
                   [Hand EXCEPT ![c] = Head(prio_queue[c])], Made)
        BY <1>0, <2>1, <2>4, QueueToHand
      <3>6. Placed(prio_queue', Hand', Made')
        BY <2>2, <3>4, <3>5
      <3> QED
        BY <2>2, <3>2, <3>3, <3>6
    <2> QED
      BY <2>3, <2>4
  <1>3. CASE sched_can_run(c)
    <2> USE <1>3 DEF sched_can_run, sched
    <2>1. TypeOK' /\ OwnIdle'
      BY DEF TypeOK, OwnIdle
    <2>2. Hand' = Hand
      BY DEF Hand, TypeOK
    <2> QED
      BY <2>1, <2>2, NoMove
  <1>4. CASE BlockedBack(c)
    <2> USE <1>4 DEF BlockedBack
    <2>1. next_thread[c] \in Thread
      BY DEF Blocked
    <2>2. Hand[c] = next_thread[c] /\ Hand' = [Hand EXCEPT ![c] = NoThread]
      BY DEF Hand, TypeOK
    <2>3. Made' = Made /\ LoadBalanced' /\ OwnIdle' /\ TypeOK'
      <3>1. Made' = Made /\ LoadBalanced'
        BY DEF Made, LoadBalanced
      <3>2. OwnIdle'
        BY DEF OwnIdle, TypeOK
      <3>3. /\ prio_queue' \in [Cpu -> Seq(Thread)]
            /\ at' \in [Cpu -> {"boot", "run", "put_back", "pick", "can_run", "switch"}]
        BY <2>1 DEF TypeOK
      <3>4. TypeOK'
        BY <3>3 DEF TypeOK
      <3> QED
        BY <3>1, <3>2, <3>4
    <2>4. Placed(prio_queue', Hand', Made')
      BY <1>0, <2>1, <2>2, <2>3, HandToQueue
    <2> QED
      BY <2>3, <2>4
  <1>5. CASE switch_same(c)
    <2> USE <1>5 DEF switch_same, sched
    <2>1. TypeOK'
      BY DEF TypeOK, Resume
    <2>2. OwnIdle'
      BY DEF OwnIdle, TypeOK
    <2>3. Hand' = Hand
      BY DEF Hand, TypeOK
    <2> QED
      BY <2>1, <2>2, <2>3, NoMove
  <1>6. CASE scheduler_switch(c)
    <2> USE <1>6 DEF scheduler_switch
    <2>1. next_thread[c] \in Thread \cup {c}
      BY DEF OwnIdle
    <2>2. TypeOK'
      BY <2>1 DEF TypeOK, Resume
    <2>3. OwnIdle'
      BY <2>1 DEF OwnIdle, TypeOK
    <2>4. Hand' = Hand
      BY DEF Hand, TypeOK
    <2> QED
      BY <2>2, <2>3, <2>4, NoMove
  <1> QED
    BY <1>1, <1>2, <1>3, <1>4, <1>5, <1>6 DEF Tick

\* Entering the tick leaves the thread in the hand.
LEMMA EnterKeepsHand ==
    ASSUME PlaceInv, NEW c \in Cpu, NEW e \in BOOLEAN, at[c] = "run", EnterTick(c, e),
           UNCHANGED <<prio_queue, current_thread, next_thread, load, ready>>
    PROVE  /\ Hand' = Hand /\ OwnIdle'
           /\ at' \in [Cpu -> {"boot", "run", "put_back", "pick", "can_run", "switch"}]
           /\ irqs' \in [Cpu -> BOOLEAN]
  BY DEF PlaceInv, TypeOK, OwnIdle, Hand, EnterTick

\* What programs, the timer and the clock do.
LEMMA PlaceRun ==
    ASSUME PlaceInv, NEW t \in Thread, NEW c \in Cpu, Running(c, t),
           pc[t] = "read" => left[t] > 0,
           SystemCall(t) \/ KernelStep(c, t)
    PROVE  PlaceInv'
  <1> USE DEF PlaceInv
  <1> DEFINE Calls == \/ SystemCall(t) \/ stream_read(t) \/ stream_write(t) \/ WaitTest(t)
                      \/ WaitCallNull(t) \/ SelectLook(t)
             Leaves == WaitCall(c, t) /\ t \notin Blocked
             Yields == \/ WaitCall(c, t) /\ t \in Blocked
                       \/ SelectYield(c, t)
  <1>1. Calls \/ Leaves \/ Yields
    BY DEF KernelStep
  <1>2. CASE Calls \/ Leaves
    <2>1. UNCHANGED cpus
      BY <1>2 DEF SystemCall, sched_thread_sleep, SysRead, SysSelect, SysWrite, stream_read,
                  stream_write, WaitTest, WaitCall, WaitCallNull, SelectLook
    <2>2. /\ UNCHANGED <<prio_queue, current_thread, next_thread, load, at, irqs, ready>>
          /\ Hand' = Hand /\ OwnIdle'
      BY <2>1 DEF cpus, sched, Hand, OwnIdle
    <2>3. /\ event' \in [Thread -> {"none", "timer", "data", "room"}]
          /\ pc' \in [Thread -> {"user", "read", "write", "test", "call", "in_wait",
                                 "select", "select_yield", "in_select", "lost"}]
          /\ mask' \in [Thread -> {"open", "tpr", "cli"}]
      <3> DEFINE Typed == /\ event' \in [Thread -> {"none", "timer", "data", "room"}]
                          /\ pc' \in [Thread -> {"user", "read", "write", "test", "call", "in_wait",
                                                 "select", "select_yield", "in_select", "lost"}]
                          /\ mask' \in [Thread -> {"open", "tpr", "cli"}]
      <3> SUFFICES Typed
        OBVIOUS
      <3>1. /\ event \in [Thread -> {"none", "timer", "data", "room"}]
            /\ pc \in [Thread -> {"user", "read", "write", "test", "call", "in_wait",
                                  "select", "select_yield", "in_select", "lost"}]
            /\ mask \in [Thread -> {"open", "tpr", "cli"}]
        BY DEF TypeOK
      <3>2. CASE SystemCall(t)
        BY <3>1, <3>2 DEF SystemCall, sched_thread_sleep, SysRead, SysSelect, SysWrite
      <3>3. CASE stream_read(t) \/ stream_write(t)
        BY <3>1, <3>3 DEF stream_read, stream_write, Return
      <3>4. CASE LeaveWait(t)
        BY <3>1, <3>4 DEF LeaveWait, Return
      <3>5. CASE WaitTest(t) \/ Leaves
        <4>1. CASE WaitTest(t) /\ event[t] # "none"
          BY <3>1, <4>1 DEF WaitTest
        <4>2. CASE WaitTest(t) /\ event[t] = "none"
          BY <3>4, <4>2 DEF WaitTest
        <4>3. CASE Leaves
          BY <3>4, <4>3 DEF WaitCall
        <4> QED
          BY <3>5, <4>1, <4>2, <4>3
      <3>6. CASE WaitCallNull(t) \/ SelectLook(t)
        BY <3>1, <3>6 DEF WaitCallNull, SelectLook, Return
      <3> HIDE DEF Typed
      <3> QED
        BY <1>2, <3>2, <3>3, <3>5, <3>6
    <2>4. remaining' \in [Thread -> Nat] /\ left' \in [Thread -> Nat]
      <3>1. SleepLens \subseteq Nat /\ ReadLens \subseteq Nat
        BY SchedulerAssumption
      <3>2. CASE SystemCall(t)
        <4>1. ASSUME NEW n \in SleepLens, sched_thread_sleep(t, n)
              PROVE  remaining' \in [Thread -> Nat] /\ left' \in [Thread -> Nat]
          BY <3>1, <4>1 DEF TypeOK, sched_thread_sleep
        <4>2. ASSUME NEW n \in ReadLens, SysRead(t, n)
              PROVE  remaining' \in [Thread -> Nat] /\ left' \in [Thread -> Nat]
          BY <3>1, <4>2 DEF TypeOK, SysRead
        <4>3. ASSUME SysSelect(t) \/ \E u \in Thread : SysWrite(t, u)
              PROVE  remaining' \in [Thread -> Nat] /\ left' \in [Thread -> Nat]
          BY <4>3 DEF TypeOK, SysSelect, SysWrite
        <4> QED
          BY <3>2, <4>1, <4>2, <4>3 DEF SystemCall
      <3>3. CASE stream_read(t)
        <4>1. left[t] \in Nat /\ left[t] - 1 \in Nat
          BY <3>3 DEF TypeOK, stream_read
        <4>2. \/ UNCHANGED left
              \/ left' = [left EXCEPT ![t] = left[t] - 1]
          BY <3>3 DEF stream_read
        <4>3. UNCHANGED remaining
          BY <3>3 DEF stream_read
        <4> QED
          BY <4>1, <4>2, <4>3 DEF TypeOK
      <3>4. CASE stream_write(t) \/ WaitTest(t) \/ WaitCallNull(t) \/ SelectLook(t) \/ Leaves
        <4>1. UNCHANGED <<remaining, left>>
          BY <3>4 DEF stream_write, WaitTest, WaitCall, WaitCallNull, SelectLook
        <4> QED
          BY <4>1 DEF TypeOK
      <3> QED
        BY <1>2, <3>2, <3>3, <3>4
    <2>5. data' \in [Thread -> BOOLEAN] /\ to' \in [Thread -> Thread \cup {NoThread}]
      <3>1. data \in [Thread -> BOOLEAN] /\ to \in [Thread -> Thread \cup {NoThread}]
        BY DEF TypeOK
      <3>2. CASE SystemCall(t)
        BY <3>1, <3>2 DEF SystemCall, sched_thread_sleep, SysRead, SysSelect, SysWrite
      <3>3. CASE stream_read(t) \/ stream_write(t)
        BY <3>1, <3>3 DEF stream_read, stream_write
      <3>4. CASE WaitTest(t) \/ WaitCallNull(t) \/ SelectLook(t) \/ Leaves
        BY <3>1, <3>4 DEF WaitTest, WaitCall, WaitCallNull, SelectLook
      <3> QED
        BY <1>2, <3>2, <3>3, <3>4
    <2>6. TypeOK'
      BY <2>2, <2>3, <2>4, <2>5 DEF TypeOK
    <2> QED
      BY <2>2, <2>6, NoMove
  <1>3. CASE Yields
    <2>1. PICK from \in {"in_wait", "in_select"} : sched_yield(c, t, from)
      BY <1>3 DEF WaitCall, SelectYield
    <2>2. at[c] = "run" /\ UNCHANGED <<prio_queue, current_thread, next_thread, load, ready>>
          /\ EnterTick(c, mask[t] # "cli")
      BY <2>1 DEF sched_yield, sched, Running
    <2>3. /\ Hand' = Hand /\ OwnIdle'
          /\ at' \in [Cpu -> {"boot", "run", "put_back", "pick", "can_run", "switch"}]
          /\ irqs' \in [Cpu -> BOOLEAN]
      BY <2>2, EnterKeepsHand
    <2>4. TypeOK'
      BY <2>1, <2>2, <2>3 DEF TypeOK, sched_yield
    <2> QED
      BY <2>2, <2>3, <2>4, NoMove
  <1> QED
    BY <1>1, <1>2, <1>3

\* The timer's interrupt, and the clock's.
LEMMA PlaceInterrupt ==
    ASSUME PlaceInv, _tick \/ \E c \in Cpu : TimerInterrupt(c)
    PROVE  PlaceInv'
  <1> USE DEF PlaceInv
  <1>1. CASE _tick
    <2>1. TypeOK' /\ OwnIdle' /\ Hand' = Hand /\ UNCHANGED <<load, ready, prio_queue>>
      BY <1>1 DEF _tick, TypeOK, OwnIdle, Hand, cpus, sched
    <2> QED
      BY <2>1, NoMove
  <1>2. ASSUME NEW c \in Cpu, TimerInterrupt(c) PROVE PlaceInv'
    <2>1. /\ Hand' = Hand /\ OwnIdle'
          /\ at' \in [Cpu -> {"boot", "run", "put_back", "pick", "can_run", "switch"}]
          /\ irqs' \in [Cpu -> BOOLEAN]
      BY <1>2, EnterKeepsHand DEF TimerInterrupt, sched
    <2>2. TypeOK' /\ UNCHANGED <<load, ready, prio_queue>>
      BY <1>2, <2>1 DEF TimerInterrupt, TypeOK, sched
    <2> QED
      BY <2>1, <2>2, NoMove
  <1> QED
    BY <1>1, <1>2
-----------------------------------------------------------------------------
(* A call returns when it is done                                          *)

\* A thread that sleeps has its timer set; outside of waiting no event is set;
\* a read call that goes on has bytes to get, a write call a stream to fill, the
\* other calls none of both.
CallInv ==
    /\ \A t \in Thread :
         /\ remaining[t] > 0 => event[t] = "timer"
         /\ pc[t] \in {"user", "read", "write", "select"} => event[t] = "none"
         /\ pc[t] = "read" => left[t] > 0
         /\ pc[t] = "write" => to[t] # NoThread
         /\ left[t] = 0 \/ to[t] = NoThread
         /\ pc[t] \in {"user", "select", "select_yield", "in_select"} =>
              left[t] = 0 /\ to[t] = NoThread
    /\ \A c \in Cpu : at[c] = "switch" /\ next_thread[c] \in Thread =>
                        event[next_thread[c]] = "none"

IInv == PlaceInv /\ CallInv

\* The thread that a CPU switches to runs nowhere meanwhile.
LEMMA PickedNotRunning ==
    ASSUME PlaceInv, NEW t \in Thread, NEW c \in Cpu, Running(c, t), NEW d \in Cpu, at[d] = "switch"
    PROVE  next_thread[d] # t
  <1>1. Hand[c] = t /\ Hand[d] = next_thread[d] /\ c # d
    BY DEF Hand, Running
  <1> QED
    BY <1>1 DEF PlaceInv, Placed

\* What the scheduler does to the calls.
LEMMA CallTick == ASSUME IInv, NEW c \in Cpu, Tick(c) PROVE CallInv'
  <1> USE DEF IInv, PlaceInv
  <1>1. CASE scheduler_put_back(c) \/ scheduler_pick(c) \/ BlockedBack(c)
    <2>1. UNCHANGED <<remaining, event, pc, left, to>>
      BY <1>1 DEF scheduler_put_back, scheduler_pick, BlockedBack
    <2>2. \A d \in Cpu : at'[d] = "switch" => at[d] = "switch" /\ next_thread'[d] = next_thread[d]
      BY <1>1 DEF TypeOK, scheduler_put_back, scheduler_pick, BlockedBack
    <2> QED
      BY <2>1, <2>2 DEF CallInv
  <1>2. CASE sched_can_run(c)
    <2>1. \A t \in Thread : event'[t] = IF t = next_thread[c] THEN "none" ELSE event[t]
      BY <1>2 DEF sched_can_run
    <2>2. next_thread[c] \in Thread => ~(remaining[next_thread[c]] > 0)
      BY <1>2 DEF sched_can_run, Blocked, CallInv
    <2>3. UNCHANGED <<remaining, pc, left, to, next_thread>>
          /\ at' = [at EXCEPT ![c] = "switch"]
      BY <1>2 DEF sched_can_run, sched
    <2> QED
      BY <2>1, <2>2, <2>3 DEF CallInv, TypeOK
  <1>3. CASE switch_same(c) \/ scheduler_switch(c)
    <2>1. \A t \in Thread :
            \/ pc'[t] = pc[t]
            \/ pc[t] = "in_wait" /\ pc'[t] = "test"
            \/ pc[t] = "in_select" /\ pc'[t] = "select" /\ event[t] = "none"
      <3>1. PICK m : Resume(c, next_thread[c], m)
        BY <1>3 DEF switch_same, scheduler_switch
      <3>2. at[c] = "switch"
        BY <1>3 DEF switch_same, scheduler_switch
      <3> QED
        BY <3>1, <3>2 DEF Resume, Yielded, CallInv, TypeOK
    <2>2. UNCHANGED <<remaining, event, left, to>> /\ at' = [at EXCEPT ![c] = "run"]
          /\ \A d \in Cpu : at'[d] = "switch" => next_thread'[d] = next_thread[d] /\ at[d] = "switch"
      BY <1>3 DEF switch_same, scheduler_switch, sched, TypeOK
    <2> QED
      BY <2>1, <2>2 DEF CallInv
  <1> QED
    BY <1>1, <1>2, <1>3 DEF Tick

\* What a thread does in its calls.
LEMMA CallRun ==
    ASSUME IInv, NEW t \in Thread, NEW c \in Cpu, Running(c, t), SystemCall(t) \/ KernelStep(c, t)
    PROVE  CallInv'
  <1> USE DEF IInv, PlaceInv
  <1>1. \A u \in Thread \ {t} : /\ event'[u] = event[u] /\ pc'[u] = pc[u]
                                /\ remaining'[u] = remaining[u] /\ left'[u] = left[u]
                                /\ to'[u] = to[u]
    BY DEF TypeOK, SystemCall, sched_thread_sleep, SysRead, SysSelect, SysWrite, KernelStep,
           stream_read, stream_write, WaitTest, WaitCall, WaitCallNull, SelectLook, SelectYield,
           sched_yield,
           LeaveWait, Return
  <1>2. \A d \in Cpu : at'[d] = "switch" => at[d] = "switch" /\ next_thread'[d] = next_thread[d]
    BY DEF TypeOK, SystemCall, sched_thread_sleep, SysRead, SysSelect, SysWrite, KernelStep,
           stream_read, stream_write, WaitTest, WaitCall, WaitCallNull, SelectLook, SelectYield,
           sched_yield,
           EnterTick, cpus, sched
  <1>3. \A d \in Cpu : at'[d] = "switch" /\ next_thread'[d] \in Thread =>
                          event'[next_thread'[d]] = "none"
    BY <1>1, <1>2, PickedNotRunning DEF CallInv
  <1> DEFINE Mine == /\ remaining'[t] > 0 => event'[t] = "timer"
                     /\ pc'[t] \in {"user", "read", "write", "select"} => event'[t] = "none"
                     /\ pc'[t] = "read" => left'[t] > 0
                     /\ pc'[t] = "write" => to'[t] # NoThread
                     /\ left'[t] = 0 \/ to'[t] = NoThread
                     /\ pc'[t] \in {"user", "select", "select_yield", "in_select"} =>
                          left'[t] = 0 /\ to'[t] = NoThread
  <1> SUFFICES Mine
    BY <1>1, <1>3 DEF CallInv
  <1>4. /\ remaining[t] \in Nat /\ left[t] \in Nat
        /\ remaining[t] > 0 => event[t] = "timer"
        /\ pc[t] \in {"user", "read", "write", "select"} => event[t] = "none"
        /\ pc[t] = "read" => left[t] > 0
        /\ pc[t] = "write" => to[t] # NoThread
        /\ left[t] = 0 \/ to[t] = NoThread
        /\ pc[t] \in {"user", "select", "select_yield", "in_select"} =>
              left[t] = 0 /\ to[t] = NoThread
    BY DEF TypeOK, CallInv
  <1>5. /\ event \in [Thread -> {"none", "timer", "data", "room"}] /\ DOMAIN pc = Thread
        /\ DOMAIN remaining = Thread /\ DOMAIN left = Thread /\ DOMAIN to = Thread
    BY DEF TypeOK
  <1>6. CASE SystemCall(t)
    <2>1. ASSUME NEW n \in SleepLens, sched_thread_sleep(t, n) PROVE Mine
      BY <2>1, <1>4, <1>5 DEF sched_thread_sleep
    <2>2. ASSUME NEW n \in ReadLens, SysRead(t, n) PROVE Mine
      <3>1. n > 0
        BY SchedulerAssumption
      <3> QED
        BY <2>2, <3>1, <1>4, <1>5 DEF SysRead
    <2>3. ASSUME SysSelect(t) PROVE Mine
      BY <2>3, <1>4, <1>5 DEF SysSelect
    <2>4. ASSUME NEW u \in Thread, SysWrite(t, u) PROVE Mine
      BY <2>4, <1>4, <1>5, NotThreads DEF SysWrite
    <2> HIDE DEF Mine
    <2> QED
      BY <1>6, <2>1, <2>2, <2>3, <2>4 DEF SystemCall
  <1>7. CASE LeaveWait(t) /\ UNCHANGED <<remaining, left, to>> /\ ~(remaining[t] > 0)
    BY <1>4, <1>5, <1>7 DEF LeaveWait, Return
  <1>8. CASE stream_read(t)
    <2>1. CASE data[t]
      <3>1. /\ pc[t] = "read" /\ left'[t] = left[t] - 1 /\ UNCHANGED <<event, remaining, to>>
            /\ pc'[t] = IF left[t] = 1 THEN "user" ELSE "read"
        BY <1>5, <1>8, <2>1 DEF stream_read, Return
      <3> QED
        BY <1>4, <3>1
    <2>2. CASE ~data[t]
      <3>1. /\ pc[t] = "read" /\ UNCHANGED <<left, remaining, to>>
            /\ pc'[t] = "test" /\ event'[t] = "data"
        BY <1>5, <1>8, <2>2 DEF stream_read
      <3> QED
        BY <1>4, <3>1
    <2> QED
      BY <2>1, <2>2
  <1>14. CASE stream_write(t)
    <2>1. CASE ~data[to[t]]
      <3>1. /\ pc[t] = "write" /\ to'[t] = NoThread /\ UNCHANGED <<event, remaining, left>>
            /\ pc'[t] = "user"
        BY <1>5, <1>14, <2>1 DEF stream_write, Return
      <3> QED
        BY <1>4, <3>1
    <2>2. CASE data[to[t]]
      <3>1. /\ pc[t] = "write" /\ UNCHANGED <<left, remaining, to>>
            /\ pc'[t] = "test" /\ event'[t] = "room"
        BY <1>5, <1>14, <2>2 DEF stream_write
      <3> QED
        BY <1>4, <3>1
    <2> QED
      BY <2>1, <2>2
  <1>9. CASE WaitTest(t)
    <2>1. CASE event[t] = "none"
      <3>1. LeaveWait(t) /\ UNCHANGED <<remaining, left, to>> /\ ~(remaining[t] > 0)
        BY <1>4, <1>9, <2>1 DEF WaitTest
      <3> QED
        BY <3>1, <1>7
    <2>2. CASE event[t] # "none"
      BY <1>4, <1>5, <1>9, <2>2 DEF WaitTest
    <2> QED
      BY <2>1, <2>2
  <1>10. CASE WaitCall(c, t)
    <2>1. CASE t \notin Blocked
      <3>1. LeaveWait(t) /\ UNCHANGED <<remaining, left, to>> /\ ~(remaining[t] > 0)
        BY <1>4, <1>10, <2>1 DEF WaitCall, Blocked
      <3> QED
        BY <3>1, <1>7
    <2>2. CASE t \in Blocked
      BY <1>4, <1>5, <1>10, <2>2 DEF WaitCall, sched_yield
    <2> QED
      BY <2>1, <2>2
  <1>11. CASE WaitCallNull(t)
    BY <1>4, <1>5, <1>11 DEF WaitCallNull
  <1>12. CASE SelectLook(t)
    <2>1. CASE data[t]
      BY <1>4, <1>5, <1>12, <2>1 DEF SelectLook, Return
    <2>2. CASE ~data[t]
      <3>1. /\ pc[t] = "select" /\ UNCHANGED <<left, remaining, to>>
            /\ pc'[t] = "select_yield" /\ event'[t] = "data"
        BY <1>5, <1>12, <2>2 DEF SelectLook
      <3> QED
        BY <1>4, <3>1
    <2> QED
      BY <2>1, <2>2
  <1>13. CASE SelectYield(c, t)
    BY <1>4, <1>5, <1>13 DEF SelectYield, sched_yield
  <1> HIDE DEF Mine
  <1> QED
    BY <1>6, <1>8, <1>9, <1>10, <1>11, <1>12, <1>13, <1>14 DEF KernelStep

\* Loading and interrupts start no call and end none.
LEMMA CallOther ==
    ASSUME IInv, \/ sched_thread_ready \/ sched_start_timer \/ _tick
                 \/ \E c \in Cpu : TimerInterrupt(c)
    PROVE  CallInv'
  <1> USE DEF IInv, PlaceInv
  <1>1. CASE sched_thread_ready \/ sched_start_timer \/ \E c \in Cpu : TimerInterrupt(c)
    BY <1>1 DEF CallInv, TypeOK, sched_thread_ready, sched_start_timer, TimerInterrupt, EnterTick, sched
  <1>2. CASE _tick
    BY <1>2 DEF CallInv, TypeOK, _tick, cpus, sched
  <1> QED
    BY <1>1, <1>2
-----------------------------------------------------------------------------
\* The invariant holds at the start and is kept by every step.
LEMMA Inductive == (Init => IInv) /\ (IInv /\ [Next]_vars => IInv')
  <1>1. Init => IInv
    <2>1. Init => CallInv
      BY DEF Init, CallInv
    <2> QED
      BY <2>1, PlaceInit DEF IInv
  <1>2. IInv /\ Next => IInv'
    <2> SUFFICES ASSUME IInv, Next PROVE IInv'
      OBVIOUS
    <2>1. CASE sched_thread_ready \/ sched_start_timer
      BY <2>1, PlaceLoad, CallOther DEF IInv
    <2>2. CASE _tick \/ \E c \in Cpu : TimerInterrupt(c)
      BY <2>2, PlaceInterrupt, CallOther DEF IInv
    <2>3. CASE \E c \in Cpu : Tick(c)
      BY <2>3, PlaceTick, CallTick DEF IInv
    <2>4. CASE \E t \in Thread : Run(t) \/ User(t)
      <3>1. PICK t \in Thread, c \in Cpu : Running(c, t) /\ (SystemCall(t) \/ KernelStep(c, t))
        BY <2>4 DEF Run, User
      <3>2. pc[t] = "read" => left[t] > 0
        BY DEF IInv, CallInv
      <3> QED
        BY <3>1, <3>2, PlaceRun, CallRun DEF IInv
    <2> QED
      BY <2>1, <2>2, <2>3, <2>4 DEF Next
  <1>3. IInv /\ UNCHANGED vars => IInv'
    BY DEF IInv, PlaceInv, CallInv, TypeOK, OwnIdle, LoadBalanced, Placed, InQueue, Hand, Made,
           vars, cpus, sched
  <1> QED
    BY <1>1, <1>2, <1>3
-----------------------------------------------------------------------------
(* From the quantifiers to the numbers of OnePlace                         *)

\* A queue is not longer than the list of modules: its threads are different.
LEMMA QueueShort ==
    ASSUME PlaceInv, NEW c \in Cpu
    PROVE  Len(prio_queue[c]) \in Nat /\ Len(prio_queue[c]) <= Len(Modules)
  <1> DEFINE n == Len(prio_queue[c])
             f == [k \in 1..n |-> CHOOSE i \in 1..Len(Modules) : Modules[i] = prio_queue[c][k]]
  <1>1. n \in Nat
    BY DEF PlaceInv, TypeOK
  <1>2. \A k \in 1..n : prio_queue[c][k] \in Made
    BY DEF PlaceInv, Placed
  <1>3. \A k \in 1..n : \E i \in 1..Len(Modules) : Modules[i] = prio_queue[c][k]
    <2>1. ready \in 0..Len(Modules)
      BY DEF PlaceInv, TypeOK
    <2>2. 1..ready \subseteq 1..Len(Modules)
      BY <2>1, ModuleFacts
    <2> QED
      BY <1>2, <2>2 DEF Made
  <1>4. \A k \in 1..n : f[k] \in 1..Len(Modules) /\ Modules[f[k]] = prio_queue[c][k]
    BY <1>3
  <1>5. \A j, k \in 1..n : prio_queue[c][j] = prio_queue[c][k] => j = k
    BY DEF PlaceInv, Placed
  <1> HIDE DEF n
  <1>6. f \in [1..n -> 1..Len(Modules)]
    BY <1>4
  <1>7. \A j, k \in 1..n : f[j] = f[k] => j = k
    <2> HIDE DEF f
    <2> QED
      BY <1>4, <1>5
  <1>8. f \in Injection(1..n, 1..Len(Modules))
    <2> HIDE DEF f
    <2> QED
      BY <1>6, <1>7 DEF Injection, IsInjective
  <1>9. IsFiniteSet(1..Len(Modules)) /\ Cardinality(1..Len(Modules)) = Len(Modules)
    <2>1. Len(Modules) \in Nat /\ 1 \in Int
      BY ModuleFacts
    <2> DEFINE m == Len(Modules)
    <2> HIDE DEF f, m
    <2>2. IsFiniteSet(1..m) /\ Cardinality(1..m) = IF 1 > m THEN 0 ELSE m - 1 + 1
      BY <2>1, FS_Interval DEF m
    <2> QED
      BY <2>1, <2>2 DEF m
  <1>10. Cardinality(1..n) = n
    BY <1>1, FS_Interval
  <1>11. Cardinality(1..n) <= Cardinality(1..Len(Modules))
    <2> HIDE DEF f
    <2> QED
      BY <1>8, <1>9, FS_Injection
  <1> QED
    BY <1>1, <1>9, <1>10, <1>11 DEF n

\* Placed says in quantifiers what OnePlace counts.
LEMMA PlacedOnce == PlaceInv => OnePlace
  <1> SUFFICES ASSUME PlaceInv, NEW t \in Thread
               PROVE  Cardinality(Queued(t)) + Cardinality(Picked(t)) + Cardinality(Current(t))
                        = IF t \in Made THEN 1 ELSE 0
    BY DEF OnePlace
  <1>0. Placed(prio_queue, Hand, Made) /\ Len(Modules) \in Nat
    BY ModuleFacts DEF PlaceInv
  <1>1. ~InQueue(prio_queue, t) => Queued(t) = {}
    <2> SUFFICES ASSUME NEW p \in Queued(t) PROVE InQueue(prio_queue, t)
      OBVIOUS
    <2>1. /\ p[1] \in Cpu /\ p[2] \in 1..Len(Modules) /\ p[2] <= Len(prio_queue[p[1]])
          /\ prio_queue[p[1]][p[2]] = t
      BY DEF Queued
    <2>2. p[2] \in 1..Len(prio_queue[p[1]])
      BY <2>1, QueueShort
    <2> QED
      BY <2>1, <2>2 DEF InQueue
  <1>2. ASSUME NEW c \in Cpu, NEW k \in 1..Len(prio_queue[c]), prio_queue[c][k] = t
        PROVE  Queued(t) = {<<c, k>>}
    <2>1. <<c, k>> \in Queued(t)
      BY <1>0, <1>2, QueueShort DEF Queued
    <2>2. ASSUME NEW p \in Queued(t) PROVE p = <<c, k>>
      <3>1. /\ p = <<p[1], p[2]>> /\ p[1] \in Cpu /\ p[2] \in 1..Len(Modules)
            /\ p[2] <= Len(prio_queue[p[1]]) /\ prio_queue[p[1]][p[2]] = t
        BY DEF Queued
      <3>2. p[2] \in 1..Len(prio_queue[p[1]])
        BY <3>1, QueueShort
      <3>3. p[1] = c /\ p[2] = k
        BY <1>0, <1>2, <3>1, <3>2 DEF Placed
      <3> QED
        BY <3>1, <3>3
    <2> QED
      BY <2>1, <2>2
  <1>3. Picked(t) \cup Current(t) = {c \in Cpu : Hand[c] = t}
    BY NotThreads DEF Picked, Current, Hand
  <1>4. Picked(t) \cap Current(t) = {}
    BY DEF Picked, Current
  <1>5. CASE t \notin Made
    <2>1. ~InQueue(prio_queue, t) /\ \A c \in Cpu : Hand[c] # t
      BY <1>0, <1>5 DEF Placed, InQueue
    <2>2. Queued(t) = {} /\ Picked(t) = {} /\ Current(t) = {}
      BY <1>1, <1>3, <2>1
    <2> QED
      BY <1>5, <2>2, FS_EmptySet
  <1>6. CASE t \in Made /\ InQueue(prio_queue, t)
    <2>0. PICK c \in Cpu : \E k \in 1..Len(prio_queue[c]) : prio_queue[c][k] = t
      BY <1>6 DEF InQueue
    <2>1. PICK k \in 1..Len(prio_queue[c]) : prio_queue[c][k] = t
      BY <2>0
    <2>2. \A d \in Cpu : Hand[d] # t
      BY <1>0, <1>6 DEF Placed
    <2>3. Queued(t) = {<<c, k>>} /\ Picked(t) = {} /\ Current(t) = {}
      BY <1>2, <1>3, <2>1, <2>2
    <2> QED
      <3>1. /\ Cardinality(Queued(t)) = 1
            /\ Cardinality(Picked(t)) = 0 /\ Cardinality(Current(t)) = 0
        BY <2>3, FS_EmptySet, FS_Singleton
      <3> QED
        BY <1>6, <3>1
  <1>7. CASE t \in Made /\ ~InQueue(prio_queue, t)
    <2>1. PICK c \in Cpu : Hand[c] = t
      BY <1>0, <1>7 DEF Placed
    <2>2. {d \in Cpu : Hand[d] = t} = {c}
      BY <1>0, <2>1 DEF Placed
    <2>3. \/ Picked(t) = {c} /\ Current(t) = {}
          \/ Picked(t) = {} /\ Current(t) = {c}
      BY <1>3, <1>4, <2>2
    <2> QED
      BY <1>1, <1>7, <2>3, FS_EmptySet, FS_Singleton
  <1> QED
    BY <1>5, <1>6, <1>7
-----------------------------------------------------------------------------
\* No thread is lost or scheduled twice by sched_tick, scheduler_put_back and
\* scheduler_pick, and scheduler_find spreads the threads evenly, on any number
\* of CPUs, while CPU 0 is still filling the queues.
THEOREM NoThreadLost == Spec => []ThreadsSound
  <1>1. IInv => ThreadsSound
    BY PlacedOnce DEF IInv, PlaceInv, ThreadsSound
  <1> QED
    BY <1>1, Inductive, PTL DEF Spec

\* A system call that goes through sched_thread_wait returns only when its sleep
\* is over, its bytes are read or its byte is written, and leaves no event behind.
THEOREM CallsReturnDone == Spec => []ReturnsWhenDone
  <1>1. IInv => ReturnsWhenDone
    <2> SUFFICES ASSUME IInv, NEW t \in Thread, pc[t] = "user"
                 PROVE  remaining[t] = 0 /\ left[t] = 0 /\ to[t] = NoThread /\ event[t] = "none"
      BY DEF ReturnsWhenDone
    <2>1. remaining[t] \in Nat
      BY DEF IInv, PlaceInv, TypeOK
    <2>2. /\ remaining[t] > 0 => event[t] = "timer"
          /\ event[t] = "none" /\ left[t] = 0 /\ to[t] = NoThread
      BY DEF IInv, CallInv
    <2> QED
      BY <2>1, <2>2
  <1> QED
    BY <1>1, Inductive, PTL DEF Spec
=============================================================================
