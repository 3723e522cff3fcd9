-------------------------------- MODULE Shell --------------------------------
(***************************************************************************)
(* The monitor's shell: app_main of monitor/shell.asm with readline        *)
(* (stdio.asm), shell_parse, shell_exec and strcmp (string.asm).  One      *)
(* buffer holds the line as it is typed, then, split in place, the strings *)
(* argv points to.  An action is a turn of a loop of the code.  Addresses  *)
(* are offsets in scmdbuf.  What is printed is left out, but for the       *)
(* answer to a line.                                                       *)
(***************************************************************************)
EXTENDS Naturals, Sequences, FiniteSets

CONSTANTS
  SCMD_MAX,    \* the bytes of the buffer, the final zero included
  ARGV_MAX,    \* the entries of argv
  Keys,        \* the characters the user types
  Table,       \* the list of commands: a sequence of records [name, answer]
  Fill         \* what the buffer may hold before any code writes to it

CR == 13
Space == 32
Backspaces == {8, 127}

(* readline counts in one byte.                                            *)
ASSUME ShellAssumption ==
  /\ SCMD_MAX \in 1 .. 255
  /\ ARGV_MAX \in 1 .. 255
  /\ Keys \subseteq 0 .. 255 /\ Fill \subseteq 0 .. 255
  /\ Table \in Seq([name : Seq(0 .. 255), answer : STRING]) /\ Table # <<>>
  /\ \A i \in DOMAIN Table : 0 \notin { Table[i].name[k] : k \in DOMAIN Table[i].name }

VARIABLES
  pc,          \* the loop the shell is in
  scmdbuf,     \* the buffer
  argc, argv,  \* what shell_parse found
  rlopts,      \* rlopts, of which only OPT_ECHO is used: whether it is set
  x,           \* X in the loops of readline and shell_parse
  st0,         \* st0.L in readline: the characters in the buffer
  st1,         \* st1.L in shell_parse: the arguments found so far
  sp0, sp1,    \* the parameters: what the soft registers hold or point to
  cmd,         \* the place in the list of commands of the one compared
  said,        \* the answer to the last line
  entered      \* history: the line being executed, as it was entered

vars == <<pc, scmdbuf, argc, argv, rlopts, x, st0, st1, sp0, sp1, cmd, said, entered>>

Cells == 0 .. SCMD_MAX - 1

(* The string at p: what strcmp reads there.                               *)
String(p) ==
  LET end == CHOOSE e \in Cells : e >= p /\ scmdbuf[e] = 0 /\ \A i \in p .. e - 1 : scmdbuf[i] # 0
  IN  [i \in 1 .. end - p |-> scmdbuf[p + i - 1]]

-----------------------------------------------------------------------------
(* app_main up to the first turn of readline's loop.                       *)
Prompt ==
  /\ pc' = "char"
  /\ sp0' = "scmdbuf" /\ sp1' = "size"
  /\ st0' = 0
  /\ x' = 0
  /\ entered' = <<>>

Init ==
  /\ \E f \in Fill : scmdbuf = [i \in Cells |-> f]
  /\ argc = 0 /\ argv = [i \in 0 .. ARGV_MAX - 1 |-> 0]
  /\ rlopts = TRUE
  /\ pc = "char" /\ sp0 = "scmdbuf" /\ sp1 = "size" /\ st0 = 0 /\ x = 0
  /\ st1 = 0 /\ cmd = 1 /\ said = "" /\ entered = <<>>

-----------------------------------------------------------------------------
(* readline                                                                *)

KeyUnbounded(c) ==
  /\ pc = "char" /\ c \notin Backspaces \cup {CR}
  /\ scmdbuf' = [scmdbuf EXCEPT ![x] = c]
  /\ st0' = st0 + 1 /\ x' = x + 1
  /\ UNCHANGED <<pc, argc, argv, rlopts, st1, sp0, sp1, cmd, said, entered>>

(* sp1.L, decremented once, is the number of characters that fit.          *)
Key(c) ==
  /\ pc = "char" /\ c \notin Backspaces \cup {CR}
  /\ IF st0 = SCMD_MAX - 1
     THEN UNCHANGED <<scmdbuf, st0, x>>
     ELSE /\ scmdbuf' = [scmdbuf EXCEPT ![x] = c]
          /\ st0' = st0 + 1 /\ x' = x + 1
  /\ UNCHANGED <<pc, argc, argv, rlopts, st1, sp0, sp1, cmd, said, entered>>

BackspaceLenOnly(c) ==
  /\ pc = "char" /\ c \in Backspaces
  /\ st0' = IF st0 = 0 THEN st0 ELSE st0 - 1
  /\ UNCHANGED <<pc, scmdbuf, argc, argv, rlopts, x, st1, sp0, sp1, cmd, said, entered>>

Backspace(c) ==
  /\ pc = "char" /\ c \in Backspaces
  /\ IF st0 = 0 THEN UNCHANGED <<st0, x>> ELSE st0' = st0 - 1 /\ x' = x - 1
  /\ UNCHANGED <<pc, scmdbuf, argc, argv, rlopts, st1, sp0, sp1, cmd, said, entered>>

ReturnWithoutZero(c) ==
  /\ pc = "char" /\ c = CR
  /\ entered' = [i \in 1 .. st0 |-> scmdbuf[i - 1]]
  /\ pc' = "prespaces" /\ sp1' = "argv" /\ st0' = 0 /\ x' = 0
  /\ UNCHANGED <<scmdbuf, argc, argv, rlopts, st1, sp0, cmd, said>>

(* .Lrdldone, and app_main as far as the loop of shell_parse.  readline and*)
(* shell_parse give st0 and st1 back as they found them: zero.             *)
Return(c) ==
  /\ pc = "char" /\ c = CR
  /\ scmdbuf' = [scmdbuf EXCEPT ![x] = 0]
  /\ entered' = [i \in 1 .. st0 |-> scmdbuf[i - 1]]
  /\ pc' = "prespaces" /\ sp1' = "argv" /\ st0' = 0 /\ x' = 0
  /\ UNCHANGED <<argc, argv, rlopts, st1, sp0, cmd, said>>

-----------------------------------------------------------------------------
(* shell_parse.  It keeps the current pointer in st0, which only ever holds*)
(* what X holds when it is read.                                           *)

(* .Lparsedone, and app_main and shell_exec as far as the first command.   *)
Parsed(n) ==
  /\ pc' = "compare"
  /\ argc' = n
  /\ st1' = 0
  /\ cmd' = 1
  /\ sp0' = "name" /\ sp1' = "argv[0]"

(* .Lparseloop at p: start an argument there, or stop.                     *)
StartArg(p) ==
  IF st1 = ARGV_MAX
  THEN Parsed(st1) /\ UNCHANGED argv
  ELSE /\ argv' = [argv EXCEPT ![st1] = p]
       /\ st1' = st1 + 1
       /\ pc' = "split"
       /\ UNCHANGED <<argc, cmd, sp0, sp1>>

Prespaces ==
  /\ pc = "prespaces"
  /\ IF scmdbuf[x] = Space
     THEN x' = x + 1 /\ UNCHANGED <<pc, argc, argv, st1, cmd, sp0, sp1>>
     ELSE x' = x /\ StartArg(x)
  /\ UNCHANGED <<scmdbuf, rlopts, st0, said, entered>>

Split ==
  /\ pc = "split"
  /\ \/ /\ scmdbuf[x] = 0
        /\ Parsed(st1)
        /\ UNCHANGED <<scmdbuf, x>>
     \/ /\ scmdbuf[x] = Space
        /\ scmdbuf' = [scmdbuf EXCEPT ![x] = 0]
        /\ pc' = "spaceagain" /\ x' = x + 1
        /\ UNCHANGED <<argc, st1, cmd, sp0, sp1>>
     \/ /\ scmdbuf[x] \notin {0, Space}
        /\ x' = x + 1
        /\ UNCHANGED <<pc, scmdbuf, argc, st1, cmd, sp0, sp1>>
  /\ UNCHANGED <<argv, rlopts, st0, said, entered>>

SpaceagainOnce ==
  /\ pc = "spaceagain"
  /\ x' = x
  /\ IF scmdbuf[x] = 0 THEN Parsed(st1) /\ UNCHANGED argv ELSE StartArg(x)
  /\ UNCHANGED <<scmdbuf, rlopts, st0, said, entered>>

Spaceagain ==
  /\ pc = "spaceagain"
  /\ \/ /\ scmdbuf[x] = Space
        /\ x' = x + 1
        /\ UNCHANGED <<pc, argc, argv, st1, cmd, sp0, sp1>>
     \/ /\ scmdbuf[x] = 0
        /\ x' = x /\ Parsed(st1)
        /\ UNCHANGED argv
     \/ /\ scmdbuf[x] \notin {0, Space}
        /\ x' = x /\ StartArg(x)
  /\ UNCHANGED <<scmdbuf, rlopts, st0, said, entered>>

-----------------------------------------------------------------------------
(* shell_exec, one command of the list at a time, and the answer.          *)

NextCommandSame ==
  /\ pc = "compare" /\ Table[cmd].name # String(argv[0]) /\ cmd < Len(Table)
  /\ UNCHANGED vars

(* The one after the last is the 0xFF that ends the list.                  *)
NextCommand ==
  /\ pc = "compare" /\ Table[cmd].name # String(argv[0]) /\ cmd < Len(Table)
  /\ cmd' = cmd + 1
  /\ UNCHANGED <<pc, scmdbuf, argc, argv, rlopts, x, st0, st1, sp0, sp1, said, entered>>

NoCommand ==
  /\ pc = "compare" /\ Table[cmd].name # String(argv[0]) /\ cmd = Len(Table)
  /\ said' = "???"
  /\ Prompt
  /\ UNCHANGED <<scmdbuf, argc, argv, rlopts, st1, cmd>>

Found ==
  /\ pc = "compare" /\ Table[cmd].name = String(argv[0])
  /\ pc' = "command"
  /\ UNCHANGED <<scmdbuf, argc, argv, rlopts, x, st0, st1, sp0, sp1, cmd, said, entered>>

(* The command itself; "ECHO" stands for shell_echo.                       *)
Command ==
  /\ pc = "command"
  /\ IF Table[cmd].answer = "ECHO"
     THEN rlopts' = ~ rlopts /\ said' = IF rlopts' THEN "ON" ELSE "OFF"
     ELSE rlopts' = rlopts /\ said' = Table[cmd].answer
  /\ Prompt
  /\ UNCHANGED <<scmdbuf, argc, argv, st1, cmd>>

Busy == Prespaces \/ Split \/ Spaceagain \/ NextCommand \/ NoCommand \/ Found \/ Command

Next == (\E c \in Keys : Key(c) \/ Backspace(c) \/ Return(c)) \/ Busy

(* The processor runs on while it does not wait for a character.           *)
Spec == Init /\ [][Next]_vars
FairSpec == Spec /\ WF_vars(Busy)

-----------------------------------------------------------------------------
Scans == {"prespaces", "split", "spaceagain"}

(* Type invariant.  X stays in the buffer, so no character is read or      *)
(* written out of it, and argv is never filled past its end.               *)
TypeOK ==
  /\ pc \in {"char", "compare", "command"} \cup Scans
  /\ scmdbuf \in [Cells -> 0 .. 255]
  /\ argc \in 0 .. ARGV_MAX
  /\ argv \in [0 .. ARGV_MAX - 1 -> Cells]
  /\ rlopts \in BOOLEAN
  /\ x \in Cells /\ st0 \in Cells /\ st1 \in 0 .. ARGV_MAX
  /\ cmd \in DOMAIN Table

(* Every scan of the line meets a zero in the buffer, whatever an earlier  *)
(* line, or nothing at all, has left after this one.                       *)
ZeroAhead ==
  pc \in Scans => \E i \in x .. SCMD_MAX - 1 : scmdbuf[i] = 0

(* The line as typed so far, or as it was entered.                         *)
Line == IF pc = "char" THEN [i \in 1 .. st0 |-> scmdbuf[i - 1]] ELSE entered

Monitor == INSTANCE Console WITH
  MAX <- SCMD_MAX - 1,
  Letters <- Keys \ (Backspaces \cup {CR}),
  Commands <- { Table[i] : i \in DOMAIN Table },
  running <- pc # "char",
  line <- Line,
  echo <- rlopts

(* What the user sees of the shell is what a Console shows: the command    *)
(* that runs is the one named by the first word of the edited line.        *)
IsAConsole == Monitor!Safety

(* When the line is split, argv points to its words, in order, as many as  *)
(* fit, and to an empty string when there is none (shell.asm 56-64).       *)
WordsFound ==
  pc = "compare" =>
    LET words == Monitor!Words(entered)
    IN  /\ argc = IF words = <<>> THEN 1
                  ELSE IF Len(words) < ARGV_MAX THEN Len(words) ELSE ARGV_MAX
        /\ \A i \in 1 .. argc :
             String(argv[i - 1]) = IF words = <<>> THEN <<>> ELSE words[i]

(* Every line that is entered is answered, with a new prompt.              *)
Answered == (pc # "char") ~> (pc = "char")
=============================================================================
