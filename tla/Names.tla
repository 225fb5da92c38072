------------------------------- MODULE Names -------------------------------
(***************************************************************************)
(* The names of processes: proc_register copies a name into the process    *)
(* table byte by byte (kstrncpy) while proc_get_by_name, called for        *)
(* SYSCALL_CONNECT on another CPU, compares it byte by byte (kstrcmp).     *)
(* There is no lock: src/kernel/process.c, util.c.                         *)
(*                                                                         *)
(* Each read of a byte of the table is a step; kstrcmp reads the byte on   *)
(* which its loop ended once more, as compiled without optimisation.  A    *)
(* name is a sequence of character codes and 0 is the byte behind it.      *)
(***************************************************************************)
EXTENDS Integers, Sequences

CONSTANTS NPROC, Name,        \* Name[p] is what process p registers
          Wanted,             \* the names that are looked up
          PROC_MAX_NAME_LEN

Proc == 1..NPROC

\* What the constants have to satisfy: names fit, with their 0, which is not a
\* character of theirs.
NamesAssumption ==
    /\ NPROC \in Nat \ {0} /\ PROC_MAX_NAME_LEN \in Nat
    /\ \A p \in Proc : Name[p] \in Seq(Nat \ {0}) /\ Len(Name[p]) \in 1..(PROC_MAX_NAME_LEN - 1)
    /\ \A n \in Wanted : n \in Seq(Nat \ {0}) /\ Len(n) \in 1..(PROC_MAX_NAME_LEN - 1)

\* The byte of a string at i.
Byte(s, i) == IF i <= Len(s) THEN s[i] ELSE 0

VARIABLES name,       \* process->name, the bytes of it
          copied,     \* bytes that kstrncpy has copied
          pc, str1,   \* the lookup: where it is, and for which name
          i, k,       \* process and byte it looks at
          answer,     \* the process found; 0 for none
          before      \* history: registrations complete when it began

vars == <<name, copied, pc, str1, i, k, answer, before>>
lookup == <<pc, str1, i, k, answer, before>>

Init ==
    /\ name = [p \in Proc |-> [b \in 1..PROC_MAX_NAME_LEN |-> 0]]
    /\ copied = [p \in Proc |-> 0]
    /\ pc = "idle" /\ str1 \in Wanted
    /\ i = 1 /\ k = 1 /\ answer = 0
    /\ before = {}

Complete(p) == copied[p] = Len(Name[p]) + 1
-----------------------------------------------------------------------------
forget_terminator(p) ==
    /\ ~Complete(p)
    /\ name' = IF copied[p] = Len(Name[p]) THEN [name EXCEPT ![p][copied[p] + 1] = Name[p][1]]
               ELSE [name EXCEPT ![p][copied[p] + 1] = Byte(Name[p], copied[p] + 1)]
    /\ copied' = [copied EXCEPT ![p] = @ + 1]
    /\ UNCHANGED lookup

\* proc_register: kstrncpy copies one byte; 0 is the last one.
kstrncpy(p) ==
    /\ ~Complete(p)
    /\ name' = [name EXCEPT ![p][copied[p] + 1] = Byte(Name[p], copied[p] + 1)]
    /\ copied' = [copied EXCEPT ![p] = @ + 1]
    /\ UNCHANGED lookup

\* proc_get_by_name begins with process 1.
StartLookup ==
    /\ pc \in {"idle", "done"}
    /\ str1' \in Wanted
    /\ pc' = "compare" /\ i' = 1 /\ k' = 1 /\ answer' = 0
    /\ before' = {p \in Proc : Complete(p)}
    /\ UNCHANGED <<name, copied>>

\* kstrcmp: the bytes are equal and not 0, or the loop ends.
Compare ==
    /\ pc = "compare"
    /\ IF Byte(str1, k) = name[i][k] /\ Byte(str1, k) # 0
         THEN k' = k + 1 /\ UNCHANGED pc
         ELSE pc' = "last" /\ UNCHANGED k
    /\ UNCHANGED <<name, copied, str1, i, answer, before>>

\* kstrcmp answers 0 if the bytes are equal now.
SameAtEnd == Byte(str1, k) = name[i][k]

Found ==
    /\ pc = "last"
    /\ SameAtEnd
    /\ answer' = i /\ pc' = "done"
    /\ UNCHANGED <<name, copied, str1, i, k, before>>

GoOn == /\ i' = i + 1 /\ k' = 1
        /\ pc' = IF i >= NPROC THEN "done" ELSE "compare"

\* Another name: the next process, or none has the name.
NotThisOne ==
    /\ pc = "last"
    /\ ~SameAtEnd
    /\ GoOn
    /\ UNCHANGED <<name, copied, str1, answer, before>>

Next == (\E p \in Proc : kstrncpy(p)) \/ StartLookup \/ Compare \/ Found \/ NotThisOne

Spec == Init /\ [][Next]_vars
-----------------------------------------------------------------------------
\* Type correctness: the comparison stays inside of the names, although it may
\* meet one that is not terminated yet.
TypeOK ==
    /\ \A p \in Proc : copied[p] \in 0..(Len(Name[p]) + 1)
    /\ pc \in {"idle", "compare", "last", "done"} /\ str1 \in Wanted
    /\ i \in 1..(NPROC + 1) /\ (pc # "done" => i \in Proc)
    /\ k \in 1..PROC_MAX_NAME_LEN /\ answer \in 0..NPROC

Answered == pc = "done"

\* A process that had registered before a lookup of its name began is not
\* missed, whatever the others are registering meanwhile: the lookup does not
\* end without an answer.
NeverMissed ==
    Answered /\ (\E p \in before : Name[p] = str1) => answer # 0

\* A lookup that begins when all processes have registered finds the first one
\* of that name, and nothing if there is none.  (Before that it may find another
\* one: if the next byte of a name is stored between kstrcmp's two reads, they
\* are equal in the middle of the names.)
SettledLookup ==
    Answered /\ before = Proc =>
      /\ answer # 0 => Name[answer] = str1 /\ \A p \in 1..(answer - 1) : Name[p] # str1
      /\ answer = 0 => \A p \in Proc : Name[p] # str1

\* What a lookup may be relied on for.
LookupsRight == TypeOK /\ NeverMissed /\ SettledLookup
=============================================================================
