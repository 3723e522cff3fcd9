------------------------------ MODULE Console -------------------------------
(***************************************************************************)
(* What the monitor promises to the one who types: a line of at most MAX   *)
(* characters that can be edited at its end, and, when it is entered, the  *)
(* command named by its first word.  It knows of no buffer and no pointers.*)
(* monitor/shell.asm (module Shell) is compared with it.                   *)
(***************************************************************************)
EXTENDS Naturals, Sequences, FiniteSets

CONSTANTS
  MAX,         \* the characters of a line
  Letters,     \* the characters that can be typed into a line
  Commands     \* the commands: records [name, answer]

VARIABLES
  running,     \* a line is entered and its command not yet done
  line,        \* the line typed so far, or entered
  echo,        \* whether the characters typed are echoed
  said         \* the answer to the last line

vars == <<running, line, echo, said>>

Space == 32

(* Where the words of a line start, up to its first zero: C strings end    *)
(* there.                                                                  *)
Starts(l) ==
  { i \in 1 .. Len(l) : /\ \A j \in 1 .. i : l[j] # 0
                        /\ l[i] # Space
                        /\ i = 1 \/ l[i - 1] = Space }

(* The word of a line that starts at i.                                    *)
WordAt(l, i) ==
  LET end == CHOOSE e \in i .. Len(l) + 1 :
               /\ e = Len(l) + 1 \/ l[e] \in {0, Space}
               /\ \A j \in i .. e - 1 : l[j] \notin {0, Space}
  IN  [k \in 1 .. end - i |-> l[i + k - 1]]

(* The starts of words among the first p characters of a line.             *)
Before(l, p) == { i \in Starts(l) : i <= p }

(* Where the n-th word starts.                                             *)
Nth(l, n) == CHOOSE i \in Starts(l) : Cardinality(Before(l, i)) = n

(* The words of a line, in order.                                          *)
Words(l) == [n \in 1 .. Cardinality(Starts(l)) |-> WordAt(l, Nth(l, n))]

FirstWord(l) == IF Words(l) = <<>> THEN <<>> ELSE Words(l)[1]

-----------------------------------------------------------------------------
Init ==
  /\ running = FALSE
  /\ line = <<>>
  /\ echo = TRUE
  /\ said = ""

(* A character that does not fit is dropped.                               *)
Type(c) ==
  /\ ~ running
  /\ line' = IF Len(line) < MAX THEN Append(line, c) ELSE line
  /\ UNCHANGED <<running, echo, said>>

Erase ==
  /\ ~ running
  /\ line' = IF line = <<>> THEN line ELSE SubSeq(line, 1, Len(line) - 1)
  /\ UNCHANGED <<running, echo, said>>

Enter ==
  /\ ~ running
  /\ running' = TRUE
  /\ UNCHANGED <<line, echo, said>>

(* "echo" answers what it has changed the echo to.                         *)
Run ==
  /\ running
  /\ \/ \E c \in Commands :
          /\ c.name = FirstWord(line)
          /\ echo' = IF c.answer = "ECHO" THEN ~ echo ELSE echo
          /\ said' = IF c.answer # "ECHO" THEN c.answer ELSE IF echo' THEN "ON" ELSE "OFF"
     \/ /\ \A c \in Commands : c.name # FirstWord(line)
        /\ said' = "???"
        /\ echo' = echo
  /\ running' = FALSE
  /\ line' = <<>>

Next == (\E c \in Letters : Type(c)) \/ Erase \/ Enter \/ Run

Safety == Init /\ [][Next]_vars
=============================================================================
