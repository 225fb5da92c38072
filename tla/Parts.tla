------------------------------- MODULE Parts -------------------------------
(***************************************************************************)
(* The parts of the system that keep to themselves: interrupts on one CPU  *)
(* (module Interrupts), the table of names (Names), the command line       *)
(* (Cmdline), the descriptor tables (Descriptors), the text consoles       *)
(* (Console), two CPUs on the kernel's one (ConsoleRace) and the snake     *)
(* (Snake).  One of them runs in each behaviour, or none of these, and the *)
(* others stay in an initial state.                                        *)
(***************************************************************************)
EXTENDS Interrupts

CONSTANTS NPROC, Name, Wanted, PROC_MAX_NAME_LEN,                 \* of Names
          Cmdlines, Fronts, Flags, Word,                          \* of Cmdline
          MAX_CPU, CPU_IDS, TssPlaces,                            \* of Descriptors
          SCREEN_WIDTH, SCREEN_HEIGHT,                            \* of both of the consoles
          Printable, MaxText,                                     \* of Console
          CPUS, BYTE,                                             \* of ConsoleRace
          SNAKE_WIDTH, SNAKE_HEIGHT, MAX_LEN, InitialLen, Interval, StartX, StartY  \* of Snake

VARIABLES part,
          name, copied, lookup_pc, str1, tried, compared, answer, before,
          mboot_flags, front, line, cmdline, find_at, equal, maximum_cpu, find_pc,
          tss_place, gdt, gdtr_size, tss, idt_entries, tr,
          console, videomem, cur_x, cur_y, text,
          race_x, race_y, race_pc, reg,
          snake, direction, iterations, drawn

N == INSTANCE Names WITH pc <- lookup_pc, i <- tried, k <- compared

L == INSTANCE Cmdline WITH flags <- mboot_flags, at <- find_at, k <- equal, pc <- find_pc

D == INSTANCE Descriptors WITH place <- tss_place

C == INSTANCE Console

R == INSTANCE ConsoleRace WITH cur_x <- race_x, cur_y <- race_y, pc <- race_pc

S == INSTANCE Snake WITH SCREEN_WIDTH <- SNAKE_WIDTH, SCREEN_HEIGHT <- SNAKE_HEIGHT, buf <- drawn

\* What each part asks of its constants.
ASSUME PartsAssumption ==
    /\ N!NamesAssumption /\ L!CmdlineAssumption /\ D!DescriptorsAssumption
    /\ C!ConsoleAssumption /\ R!RaceAssumption /\ S!SnakeAssumption

name_vars == <<name, copied, lookup_pc, str1, tried, compared, answer, before>>
cmdline_vars == <<mboot_flags, front, line, cmdline, find_at, equal, maximum_cpu, find_pc>>
descriptor_vars == <<tss_place, gdt, gdtr_size, tss, idt_entries, tr>>
console_vars == <<console, videomem, cur_x, cur_y, text>>
race_vars == <<race_x, race_y, race_pc, reg>>
snake_vars == <<snake, direction, iterations, drawn>>

PartVars == <<part, vars, name_vars, cmdline_vars, descriptor_vars, console_vars, race_vars,
              snake_vars>>

Part(p) == part = p

\* Only the part that runs has inputs to choose from.
Inputs(p, all) == IF Part(p) THEN all ELSE {CHOOSE x \in all : TRUE}

PartInit ==
    /\ part \in {"interrupts", "names", "cmdline", "descriptors", "console", "race", "snake", "none"}
    /\ str1 \in Inputs("names", Wanted)
    /\ line \in Inputs("cmdline", Cmdlines) /\ front \in Inputs("cmdline", Fronts)
    /\ mboot_flags \in Inputs("cmdline", Flags)
    /\ tss_place \in Inputs("descriptors", TssPlaces)
    /\ console \in Inputs("console", {"kernel", "server", "fullscreen"})
    /\ Init /\ N!Init /\ L!Init /\ D!Init /\ C!Init /\ R!Init /\ S!Init

\* The step is one of part p, and the others stay as they are.
Only(p) ==
    /\ Part(p) /\ UNCHANGED part
    /\ p # "interrupts" => UNCHANGED vars
    /\ p # "names" => UNCHANGED name_vars
    /\ p # "cmdline" => UNCHANGED cmdline_vars
    /\ p # "descriptors" => UNCHANGED descriptor_vars
    /\ p # "console" => UNCHANGED console_vars
    /\ p # "race" => UNCHANGED race_vars
    /\ p # "snake" => UNCHANGED snake_vars

PartNext ==
    \/ Only("interrupts") /\ Next
    \/ Only("names") /\ N!Next
    \/ Only("cmdline") /\ L!Next
    \/ Only("descriptors") /\ D!Next
    \/ Only("console") /\ C!Next
    \/ Only("race") /\ R!Next
    \/ Only("snake") /\ S!Next

PartSpec == PartInit /\ [][PartNext]_PartVars
-----------------------------------------------------------------------------
\* A lookup meanwhile misses no process that has registered (process.c, util.c),
\* and max_cpu= is found where it first occurs in the string at the start of the
\* command line's page: in the command line, if that is where it begins (mboot.c).
LookupsRight == (Part("names") => N!LookupsRight) /\ (Part("cmdline") => L!FindsWord)

\* Each CPU finds its own TSS, and the right segments and gates (gdt.c).
TablesRight == Part("descriptors") => D!TablesRight

\* The screen shows the end of what was printed (screen.c, srv_screen.c).
ShowsText == Part("console") => C!ShowsText

\* The cursor that two CPUs fought for comes back to the screen (screen.c).
CursorRecovers == Part("race") => R!CursorRecovers

\* The snake stays in one piece and never turns back (snake.c).
SnakeSound == Part("snake") => S!SnakeSound
=============================================================================
