------------------------------- MODULE Upload -------------------------------
(***************************************************************************)
(* upload_srec of tools/upload.py, sending a file of S-records to the      *)
(* loader, for module Session: it writes a line, waits for one character   *)
(* of answer for at most a second, shows what it got, and goes on to the   *)
(* next line whatever that was.                                            *)
(***************************************************************************)
EXTENDS Stage2

CONSTANTS
  Files,       \* the files: sequences of lines
  Slow,        \* those whose lines may keep the EEPROM busy for the second
  Rate         \* the characters the line carries in a second, for each file

(* A line of a file: its text, and what the text says: the answer it calls *)
(* for, where its data go, and the data the loader decodes before it finds *)
(* something wrong in the line, if it does.                                *)
Lines == [ answer : {"*", "!", ">"}, addr : Address, data : Seq(Byte), text : Seq(Byte) ]

ASSUME FilesAssumption ==
  Files \subseteq Seq(Lines) /\ Slow \subseteq Files /\ Rate \in [Files -> Nat \ {0}]

VARIABLES
  file,        \* the lines of the file
  waiting,     \* a line is written and its answer not yet read
  overdue,     \* fewer characters than this on their way: a second has gone since
  shown        \* what upload_srec printed for each line; "" after a timeout

uploading == <<device, serial, file, waiting, overdue, shown>>

Init ==
  /\ DeviceInit
  /\ file \in Files
  /\ waiting = FALSE /\ overdue = 0
  /\ shown = <<>>

-----------------------------------------------------------------------------
Current == Len(shown) + 1     \* the line to write, or whose answer is awaited

WriteLine ==
  /\ ~ waiting /\ Current <= Len(file)
  /\ line' = line \o file[Current].text
  /\ overdue' = IF Len(line') < Rate[file] THEN 0 ELSE Len(line') - Rate[file] + 1
  /\ waiting' = TRUE
  /\ UNCHANGED <<device, rdr, back, file, shown>>

ReadAnswer ==
  /\ waiting /\ back # <<>>
  /\ shown' = Append(shown, Head(back))
  /\ back' = Tail(back)
  /\ waiting' = FALSE
  /\ UNCHANGED <<device, line, rdr, file, overdue>>

(* What can make a second pass: the characters a second carries have gone  *)
(* since the line was written, which is not flushed before read(1), so the *)
(* second includes its transmission; a loader that waits for characters, or*)
(* has left; memory that does not read back what was written, for ever or, *)
(* in a Slow file, until the EEPROM is done.                               *)
Stalled ==
  \/ Len(line) < overdue
  \/ pc \in {"rxsrec", "rxdata"} /\ line = <<>> /\ rdr = None
  \/ pc = "run"
  \/ pc = "datapoll" /\ ~ ReadsBack(addr, a) /\ (file \in Slow \/ prog = {})

ReadTimeoutInWrite ==
  /\ waiting /\ back = <<>> /\ Stalled /\ pc # "datapoll"
  /\ shown' = Append(shown, "")
  /\ waiting' = FALSE
  /\ UNCHANGED <<device, serial, file, overdue>>

ReadTimeout ==
  /\ waiting /\ back = <<>> /\ Stalled
  /\ shown' = Append(shown, "")
  /\ waiting' = FALSE
  /\ UNCHANGED <<device, serial, file, overdue>>

Host == WriteLine \/ ReadAnswer \/ ReadTimeout

LoaderStep == Loader /\ UNCHANGED <<file, waiting, overdue, shown>>
ArriveStep == Arrive /\ UNCHANGED <<file, waiting, overdue, shown>>
ProgrammedStep == Programmed /\ UNCHANGED <<file, waiting, overdue, shown>>

-----------------------------------------------------------------------------
(* What a prefix of the file puts in memory.                               *)

Covers(l, c) == c \in l.addr .. l.addr + Len(l.data) - 1

ImageAt(c, n) ==
  LET covering == {i \in 1 .. n : Covers(file[i], c)}
      last == CHOOSE i \in covering : \A j \in covering : j <= i
  IN  IF covering = {} THEN Blank ELSE file[last].data[c - file[last].addr + 1]

OnTime == \A i \in DOMAIN shown : shown[i] # ""

(* What the host may read: an answer, or what a ROM that still loads echoes *)
(* of a line, whichever character that is.                                 *)
Characters == {"*", "!", ">", "echo"}

UploadTypeOK ==
  /\ pc \in {"rxsrec", "rxdata", "exec", "sone", "datapoll", "run"}
  /\ y \in Nat /\ (pc = "rxdata" => y \in BUF .. BUFEND) /\ a \in Byte /\ len \in Byte /\ addr \in Address
  /\ mem \in [Buffer \cup Targets -> Byte]
  /\ prog = {} \/ \E c \in Targets, b \in Byte : prog = {[cell |-> c, val |-> b]}
  /\ rdr \in Byte \cup {None}
  /\ line \in Seq(Byte)
  /\ back \in Seq(Characters)
  /\ file \in Files
  /\ waiting \in BOOLEAN /\ overdue \in Nat
  /\ shown \in Seq(Characters \cup {""}) /\ Len(shown) <= Len(file)

(* No line of file f goes where a byte cannot be read back in time, and the*)
(* line carries every line in less than a second, even after the rest of   *)
(* the line before, which the loader may have refused before its end.      *)
Prompt(f) ==
  /\ f \notin Slow
  /\ \A i \in DOMAIN f :
       Len(f[i].text) + (IF i = 1 THEN 0 ELSE Len(f[i - 1].text)) < Rate[f]
  /\ \A i \in DOMAIN f : \A c \in f[i].addr .. f[i].addr + Len(f[i].data) - 1 :
       c \in Targets /\ Kind[c] # "rom"

(* upload_srec has written every line and has an answer to each, in time,  *)
(* the loader has started the program at the address of the last line,     *)
(* which is an entry record, and each address holds the byte that the text *)
(* of the last line for it gives it, or the user was told otherwise: '!'   *)
(* was shown for that line.                                                *)
Started ==
  /\ pc = "run" /\ addr = file[Len(file)].addr
  /\ OnTime /\ Len(shown) = Len(file)
  /\ \A c \in Targets :
       LET carrying == {i \in DOMAIN file : Carries(file[i].text, c)}
       IN  IF carrying = {} THEN mem[c] = Blank
           ELSE \E i \in carrying :
                  /\ \A j \in carrying : j <= i
                  /\ shown[i] = "!" \/ mem[c] = ByteFor(file[i].text, c)
=============================================================================
