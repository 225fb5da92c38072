----------------------------- MODULE MCSpinList -----------------------------
(* Two CPUs exchange three threads through one list.                        *)
EXTENDS SpinList
=============================================================================
