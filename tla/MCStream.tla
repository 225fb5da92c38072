------------------------------ MODULE MCStream ------------------------------
(* Stream on a buffer of four slots (two bytes of data), with messages and  *)
(* reads shorter than, equal to and longer than what the buffer can hold.   *)
EXTENDS Stream

MaxMessage == 3
MCMessages == UNION {[1..n -> Byte] : n \in 1..MaxMessage}
MCReadLens == 1..MaxMessage
=============================================================================
