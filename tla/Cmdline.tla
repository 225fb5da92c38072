------------------------------ MODULE Cmdline ------------------------------
(***************************************************************************)
(* How the kernel finds max_cpu= in its command line: mboot_parse_cmdline  *)
(* and cmdline_find (src/kernel/mboot.c) try ksubstr (util.c) at every     *)
(* position.  ksubstr compares as far as the shorter of its strings goes,  *)
(* so it also accepts a rest of the command line that is only the          *)
(* beginning of the word.                                                  *)
(*                                                                         *)
(* The boot loader puts the command line anywhere in a page.  paging_map   *)
(* takes the page and forgets the place in it (page_entry, paging.c), and  *)
(* the kernel reads from the start of the page: what it searches is        *)
(* whatever lies there, up to the first 0.                                 *)
(***************************************************************************)
EXTENDS Integers, Sequences

CONSTANTS Cmdlines,     \* the command lines
          Fronts,       \* what may lie in front of one, in its page
          Flags,        \* values of mboot->flags
          Word          \* "max_cpu="

\* What the constants have to satisfy: 0 is not a character, and the word is not
\* empty.  A command line is complete in its page.
CmdlineAssumption ==
    /\ Cmdlines \subseteq Seq(Nat \ {0}) /\ Fronts \subseteq Seq(Nat)
    /\ Word \in Seq(Nat \ {0}) /\ Len(Word) > 0

VARIABLES flags, front, line,
          cmdline,      \* the string at 0x70000
          at,           \* where cmdline_find is
          k,            \* characters that ksubstr has found equal
          maximum_cpu,  \* the position of the digit that is taken; 0 for none
          pc

mboot == <<flags, front, line>>
vars == <<mboot, cmdline, at, k, maximum_cpu, pc>>

Byte(s, i) == IF i <= Len(s) THEN s[i] ELSE 0

Init ==
    /\ flags \in Flags /\ front \in Fronts /\ line \in Cmdlines
    /\ cmdline = <<>>
    /\ at = 1 /\ k = 0 /\ maximum_cpu = 0
    /\ pc = "map"
-----------------------------------------------------------------------------
\* mboot_parse_cmdline tests flags && 0x04, which any flag makes true.
NoFlags ==
    /\ pc = "map" /\ flags = 0
    /\ pc' = "done"
    /\ UNCHANGED <<mboot, cmdline, at, k, maximum_cpu>>

page == front \o line \o <<0>>

\* The page of the command line is mapped, and read from its start to the first
\* 0.
Map ==
    /\ pc = "map" /\ flags # 0
    /\ \E n \in 1..Len(page) :
         /\ page[n] = 0 /\ \A i \in 1..(n - 1) : page[i] # 0
         /\ cmdline' = SubSeq(page, 1, n - 1)
    /\ pc' = "find"
    /\ UNCHANGED <<mboot, at, k, maximum_cpu>>

\* The loop of cmdline_find: nothing found before the end.
NotFound ==
    /\ pc = "find" /\ at > Len(cmdline)
    /\ pc' = "done"
    /\ UNCHANGED <<mboot, cmdline, at, k, maximum_cpu>>

Try ==
    /\ pc = "find" /\ at <= Len(cmdline)
    /\ k' = 0 /\ pc' = "substr"
    /\ UNCHANGED <<mboot, cmdline, at, maximum_cpu>>

Left == Byte(cmdline, at + k)
Right == Byte(Word, k + 1)

Same == Left = Right /\ Left # 0

\* ksubstr goes on while the characters are equal.
Equal ==
    /\ pc = "substr"
    /\ Same
    /\ k' = k + 1
    /\ UNCHANGED <<mboot, cmdline, at, maximum_cpu, pc>>

\* ksubstr's answer: the strings end together, or one of them does.
Accepts == Left = Right \/ Left = 0 \/ Right = 0

\* The digit is behind the word.
Found ==
    /\ pc = "substr"
    /\ ~Same
    /\ Accepts
    /\ maximum_cpu' = at + Len(Word)
    /\ pc' = "done"
    /\ UNCHANGED <<mboot, cmdline, at, k>>

Advance == at' = at + 1

GoOn ==
    /\ pc = "substr"
    /\ ~Same
    /\ ~Accepts
    /\ Advance
    /\ pc' = "find"
    /\ UNCHANGED <<mboot, cmdline, k, maximum_cpu>>

Next == NoFlags \/ Map \/ NotFound \/ Try \/ Equal \/ Found \/ GoOn

Spec == Init /\ [][Next]_vars
-----------------------------------------------------------------------------
\* The word occurs at position i.
Occurs(i) == i + Len(Word) - 1 <= Len(cmdline) /\ SubSeq(cmdline, i, i + Len(Word) - 1) = Word

\* From i on, the command line is a beginning of the word.
Truncated(i) == SubSeq(cmdline, i, Len(cmdline)) = SubSeq(Word, 1, Len(cmdline) - i + 1)

\* Type correctness: no byte behind the end of the command line is looked at.
TypeOK ==
    /\ at \in 1..(Len(cmdline) + 1) /\ k \in 0..Len(Word)
    /\ pc = "substr" => at + k <= Len(cmdline) + 1
    /\ pc \in {"map", "find", "substr", "done"}

\* What is searched is the command line, with what lies in front of it in its
\* page; or only a part of that, if there is a 0.  So it is the command line
\* itself if the boot loader has put it at the start of a page.
ReadsPage ==
    pc # "map" /\ flags # 0 =>
      IF \E i \in 1..Len(front) : front[i] = 0 THEN Len(cmdline) < Len(front)
                                            ELSE cmdline = front \o line

\* If max_cpu= is in that string, its first occurrence is found, in spite of
\* parts of the word before it, and of what ksubstr accepts at the end.
FirstOccurrence ==
    pc = "done" => \A i \in 1..Len(cmdline) :
      Occurs(i) /\ (\A j \in 1..(i - 1) : ~Occurs(j)) => maximum_cpu = i + Len(Word)

\* If it is not there, the number of CPUs stays as it is, unless the string ends
\* with a beginning of the word.
NoFalseFind ==
    pc = "done" /\ maximum_cpu # 0 =>
      Occurs(maximum_cpu - Len(Word)) \/ Truncated(maximum_cpu - Len(Word))

\* The answer of the search.
FindsWord == TypeOK /\ ReadsPage /\ FirstOccurrence /\ NoFalseFind
=============================================================================
