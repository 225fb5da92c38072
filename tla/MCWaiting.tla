----------------------------- MODULE MCWaiting -----------------------------
(* HeapLock: two CPUs that get two threads each; one of the threads on each *)
(* makes system calls.  Timer: a counter of three bits, which comes round;  *)
(* sleeps of one and three ticks, and of minus three and minus one.         *)
EXTENDS Waiting

CONSTANTS T1, T2, T3, T4

MCThreads == {T1, T2, T3, T4}
MCModules == <<T1, T2, T3, T4>>

\* Around the full seconds, minutes, hours and days, and many days.
MCUptimes == {0, 1, 2, 2147483000}
               \cup UNION {{u - 2, u - 1, u, u + 1, u + u \div 2} : u \in {1024, 61440, 3686400, 88473600}}
=============================================================================
