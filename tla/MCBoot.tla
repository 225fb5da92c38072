------------------------------- MODULE MCBoot -------------------------------
(* Four CPUs whose ids are not in order, and a command line that asks for   *)
(* one, some, all or more than there are.                                   *)
EXTENDS Boot

MCEntries == <<0, 3, 1, 2>>
=============================================================================
