---------------------------- MODULE MCScheduler ----------------------------
(* Two CPUs.  The first module, srv_loop, never makes a system call and     *)
(* ends up on CPU 0; the others share the CPUs with it.                     *)
EXTENDS Scheduler

CONSTANTS loop, t2, t3

MCThread == {loop, t2, t3}
MCModules == <<loop, t2, t3>>
=============================================================================
