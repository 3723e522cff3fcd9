----------------------------- MODULE Bootstrap ------------------------------
(***************************************************************************)
(* The first half of tools/upload.py: the byte FF, which tells the         *)
(* bootstrap ROM of the 68HC11 the speed of the line and is not echoed,    *)
(* and then a program of SIZE bytes, of which the ROM stores and echoes    *)
(* each, and which it runs when it has them all.  upload.py waits for each *)
(* echo before it sends the next byte, prints a complaint when the echo is *)
(* not that byte or does not come, and goes on.  The board has been reset  *)
(* into its ROM.                                                           *)
(***************************************************************************)
EXTENDS Naturals, Sequences, FiniteSets

CONSTANTS
  SIZE,        \* 256 in the code
  Programs,    \* the programs to send
  MaxFaults,   \* how many bytes may be lost or changed
  Change(_)    \* what it may change a byte into: a set

VARIABLES
  program,     \* binary
  n,           \* n: the bytes written so far
  waiting,     \* in ser.read(1)
  complaints,  \* the bytes upload.py complained of
  good,        \* "All good. program is running." is printed
  ff,          \* the FF byte: not sent, on the line, heard by the ROM, or lost
  toRom, toHost,  \* what else is on the serial line, each way; FF is ahead of it
  rom,         \* the ROM waits for FF, loads the program, or went astray
  ram,         \* the bytes the ROM stored
  faults       \* the bytes lost or changed, by the line or in a discarded buffer

vars == <<program, n, waiting, complaints, good, ff, toRom, toHost, rom, ram, faults>>

SYNC == 255

Init ==
  /\ program \in Programs
  /\ n = 0 /\ waiting = FALSE /\ complaints = {} /\ good = FALSE
  /\ ff = "unsent" /\ toRom = <<>> /\ toHost = <<>>
  /\ rom = "wait" /\ ram = <<>> /\ faults = 0

-----------------------------------------------------------------------------
Running == Len(ram) = SIZE

(* The ROM takes no more bytes of the program.                             *)
Left == Running \/ rom = "astray"

(* FF is written without flush, and reset_output_buffer then discards it   *)
(* when it has not left by then.                                           *)
WriteSync ==
  /\ ff = "unsent"
  /\ \/ ff' = "coming" /\ faults' = faults
     \/ faults < MaxFaults /\ ff' = "lost" /\ faults' = faults + 1
  /\ toHost' = <<>>
  /\ UNCHANGED <<program, n, waiting, complaints, good, toRom, rom, ram>>

WriteByte ==
  /\ ff # "unsent" /\ ~ waiting /\ n < SIZE
  /\ n' = n + 1
  /\ toRom' = Append(toRom, program[n + 1])
  /\ waiting' = TRUE
  /\ UNCHANGED <<program, complaints, good, ff, toHost, rom, ram, faults>>

ReadEchoTrusting ==
  /\ waiting /\ toHost # <<>>
  /\ toHost' = Tail(toHost)
  /\ waiting' = FALSE
  /\ UNCHANGED <<program, n, complaints, good, ff, toRom, rom, ram, faults>>

ReadEcho ==
  /\ waiting /\ toHost # <<>>
  /\ complaints' = IF Head(toHost) # program[n] THEN complaints \cup {n} ELSE complaints
  /\ toHost' = Tail(toHost)
  /\ waiting' = FALSE
  /\ UNCHANGED <<program, n, good, ff, toRom, rom, ram, faults>>

ReadTimeoutEager ==
  /\ waiting /\ toHost = <<>>
  /\ complaints' = complaints \cup {n}
  /\ waiting' = FALSE
  /\ UNCHANGED <<program, n, good, ff, toRom, toHost, rom, ram, faults>>

(* The ROM echoes a byte in much less than a second: none comes.           *)
ReadTimeout ==
  /\ waiting /\ toHost = <<>>
  /\ (ff # "coming" /\ toRom = <<>>) \/ Running
  /\ complaints' = complaints \cup {n}
  /\ waiting' = FALSE
  /\ UNCHANGED <<program, n, good, ff, toRom, toHost, rom, ram, faults>>

AllGood ==
  /\ ~ waiting /\ n = SIZE /\ ~ good
  /\ good' = TRUE
  /\ UNCHANGED <<program, n, waiting, complaints, ff, toRom, toHost, rom, ram, faults>>

(* What the ROM does after its first byte, which it does not echo.  Of any *)
(* other than FF is only known that the ROM loads, or answers nothing.     *)
After(b) == IF b = SYNC THEN {"load"} ELSE {"load", "astray"}

(* The ROM hears FF, or takes the first byte of the program for it.        *)
RomSync ==
  /\ rom = "wait"
  /\ \/ ff = "coming" /\ ff' = "heard" /\ rom' = "load" /\ toRom' = toRom
     \/ /\ ff = "lost" /\ toRom # <<>>
        /\ rom' \in After(Head(toRom))
        /\ toRom' = Tail(toRom)
        /\ ff' = ff
  /\ UNCHANGED <<program, n, waiting, complaints, good, toHost, ram, faults>>

RomStore ==
  /\ rom = "load" /\ toRom # <<>> /\ ~ Running
  /\ ram' = Append(ram, Head(toRom))
  /\ toHost' = Append(toHost, Head(toRom))
  /\ toRom' = Tail(toRom)
  /\ UNCHANGED <<program, n, waiting, complaints, good, ff, rom, faults>>

RomAstray ==
  /\ rom = "astray" /\ toRom # <<>>
  /\ toRom' = Tail(toRom)
  /\ UNCHANGED <<program, n, waiting, complaints, good, ff, toHost, rom, ram, faults>>

Rom == RomSync \/ RomStore \/ RomAstray

(* A byte is lost or changed; FF changed is another byte for the ROM.      *)
SyncFault ==
  /\ ff = "coming" /\ ff' = "lost"
  /\ rom' \in {"wait", "load", "astray"}
  /\ UNCHANGED <<toRom, toHost>>

ByteFault ==
  /\ \/ /\ toRom # <<>>
        /\ \/ toRom' = Tail(toRom)
           \/ \E b \in Change(Head(toRom)) : toRom' = <<b>> \o Tail(toRom)
        /\ toHost' = toHost
     \/ /\ toHost # <<>>
        /\ \/ toHost' = Tail(toHost)
           \/ \E b \in Change(Head(toHost)) : toHost' = <<b>> \o Tail(toHost)
        /\ toRom' = toRom
  /\ UNCHANGED <<ff, rom>>

Fault ==
  /\ faults < MaxFaults
  /\ faults' = faults + 1
  /\ SyncFault \/ ByteFault
  /\ UNCHANGED <<program, n, waiting, complaints, good, ram>>

Host == WriteSync \/ WriteByte \/ ReadEcho \/ ReadTimeout \/ AllGood

-----------------------------------------------------------------------------
BootTypeOK ==
  /\ program \in Programs
  /\ n \in 0 .. SIZE /\ complaints \subseteq 1 .. n
  /\ waiting \in BOOLEAN /\ good \in BOOLEAN
  /\ ff \in {"unsent", "coming", "heard", "lost"}
  /\ rom \in {"wait", "load", "astray"}
  /\ Len(ram) <= SIZE /\ Len(toRom) <= 1 /\ Len(toHost) <= 1
  /\ faults \in 0 .. MaxFaults
=============================================================================
