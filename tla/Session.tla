------------------------------ MODULE Session -------------------------------
(***************************************************************************)
(* tools/upload.py from end to end: the loader stage2 is sent to the       *)
(* bootstrap ROM (Bootstrap), and then a file of S-records to the loader   *)
(* (Upload), over the same serial line.  The transfer to the ROM may go    *)
(* wrong, and upload.py goes on after a complaint: then the lines of the   *)
(* file go to a ROM that still waits for a byte, to a ROM that went astray *)
(* without its FF, or to a program that is not the loader.  Of these two   *)
(* is only assumed that they answer nothing.                               *)
(***************************************************************************)
EXTENDS Upload

CONSTANTS
  SIZE, Programs, MaxFaults, Change(_),   \* as in Bootstrap
  Sessions     \* which loader is sent with which file, and whether the line is noisy

VARIABLES
  program, n, awaiting, complaints, good, ff, toRom, toHost, rom, ram, faults,   \* as in Bootstrap
  noisy        \* the serial line may lose or change bytes

boot == <<program, n, awaiting, complaints, good, ff, toRom, toHost, rom, ram, faults>>
vars == <<uploading, boot, noisy>>

Boot == INSTANCE Bootstrap WITH waiting <- awaiting

ASSUME SessionAssumption ==
  /\ SIZE \in Nat \ {0} /\ MaxFaults \in Nat
  /\ \A b \in Byte : Change(b) \subseteq Byte
  /\ \A p \in Programs : p \in Seq(Byte) /\ Len(p) = SIZE
  /\ Sessions \subseteq Programs \X Files \X BOOLEAN

(* The lines of the files are S-records: 'S' and digits, so that 'S' is    *)
(* nowhere but at their start.                                             *)
StartsOnce(t) == t # <<>> /\ t[1] = SREC /\ \A j \in 2 .. Len(t) : t[j] # SREC

OneStart == \A f \in Files : \A i \in 1 .. Len(f) : StartsOnce(f[i].text)

(* The data of a line are the bytes of its text; they are as many as the   *)
(* count says, unless a character is no digit; they do not go over the     *)
(* buffer or past the last address.                                        *)
DataSaid(l) ==
  LET d == Len(l.data) IN
  /\ \A k \in 1 .. d : l.data[k] = RecordByte(l.text, 3 + k) /\ l.addr + k - 1 \in Address \ Buffer
  /\ \/ l.answer = "*" /\ d = DataCount(l.text) /\ 2 * d + 8 < Len(l.text)
     \/ /\ l.answer = "!" /\ d < DataCount(l.text) /\ 2 * d + 10 < Len(l.text)
        /\ RecordByte(l.text, 4 + d) = Bad

(* The answer and the data of a line are what its text says, for a loader  *)
(* with this buffer.                                                       *)
Says(l) ==
  LET t == l.text IN
  /\ StartsOnce(t) /\ \A j \in 1 .. Len(t) : t[j] = LF <=> j = Len(t)
  /\ \/ Len(t) - 2 > BUFEND - BUF /\ l.answer = "!" /\ l.data = <<>>
     \/ /\ Len(t) - 2 <= BUFEND - BUF /\ Len(t) >= 9
        /\ \/ ~ Header(t) /\ l.answer = "!" /\ l.data = <<>>
           \/ Header(t) /\ t[2] = End9 /\ l.answer = ">" /\ l.data = <<>> /\ l.addr = AddressOf(t)
           \/ Header(t) /\ t[2] = Data1 /\ l.addr = AddressOf(t) /\ DataSaid(l)

FilesSay == \A f \in Files : \A i \in 1 .. Len(f) : Says(f[i])

SessionInit ==
  /\ Init /\ Boot!Init
  /\ noisy \in BOOLEAN
  /\ <<program, file, noisy>> \in Sessions

-----------------------------------------------------------------------------
BootHost == Boot!Host /\ UNCHANGED <<uploading, noisy>>
BootRom  == Boot!Rom /\ UNCHANGED <<uploading, noisy>>
BootFault == noisy /\ ~ good /\ Boot!Fault /\ UNCHANGED <<uploading, noisy>>

(* Only the program that was sent can be taken for the loader.             *)
LoaderRuns == ram = program

Rest == UNCHANGED <<boot, noisy>>

SendLine   == good /\ WriteLine /\ Rest
TakeAnswer == good /\ ReadAnswer /\ Rest
GiveUp     == good /\ LoaderRuns /\ ReadTimeout /\ Rest

(* No answer comes from where the loader does not run.                     *)
NoAnswer ==
  /\ good /\ ~ LoaderRuns
  /\ waiting /\ back = <<>>
  /\ Boot!Left \/ line = <<>>
  /\ shown' = Append(shown, "") /\ waiting' = FALSE
  /\ line' = <<>>
  /\ UNCHANGED <<device, rdr, back, file, overdue>> /\ Rest

(* A ROM that still waits takes the next character of the line: for FF, or *)
(* for a byte of the program, which it echoes.                             *)
RomTakesCharacter ==
  /\ good /\ ~ Boot!Left /\ ff # "coming" /\ line # <<>>
  /\ line' = Tail(line)
  /\ rom' \in IF rom = "wait" THEN Boot!After(Head(line)) ELSE {rom}
  /\ IF rom = "load" THEN ram' = Append(ram, Head(line)) /\ back' = Append(back, "echo")
     ELSE UNCHANGED <<ram, back>>
  /\ UNCHANGED <<device, rdr, file, waiting, overdue, shown>>
  /\ UNCHANGED <<program, n, awaiting, complaints, good, ff, toRom, toHost, faults, noisy>>

Load           == LoaderRuns /\ LoaderStep /\ Rest
Deliver        == good /\ LoaderRuns /\ ArriveStep /\ Rest
EndProgramming == ProgrammedStep /\ Rest

UploadPy == BootHost \/ SendLine \/ TakeAnswer \/ GiveUp \/ NoAnswer
Rom      == BootRom \/ RomTakesCharacter

SessionNext == UploadPy \/ Rom \/ BootFault \/ Load \/ Deliver \/ EndProgramming

(* upload.py, the ROM and the loader never wait but where the model says   *)
(* so, a character sent arrives, and an EEPROM ends what it is programming.*)
Fairness ==
  WF_vars(UploadPy) /\ WF_vars(Rom) /\ WF_vars(Load) /\ WF_vars(Deliver) /\ WF_vars(EndProgramming)

Spec == SessionInit /\ [][SessionNext]_vars /\ Fairness

-----------------------------------------------------------------------------
TypeOK == UploadTypeOK /\ Boot!BootTypeOK /\ noisy \in BOOLEAN

(* When upload.py has sent the loader and complained of no byte, the ROM   *)
(* runs the program that was sent (upload.py 172-186).                     *)
NoComplaintIsRunning ==
  good /\ complaints = {} => ram = program

(* upload.py complains of a byte only when a byte was lost or changed, on  *)
(* the line or in the buffer it discards (167-172), and of no more bytes   *)
(* than that, unless FF is that byte: without it the ROM takes the first   *)
(* byte for it and echoes nothing of the rest, or only what follows.       *)
ComplaintsAreFaults ==
  /\ complaints # {} => faults > 0
  /\ ff # "lost" => Cardinality(complaints) <= faults

(* After a transfer without complaint, and as long as no answer was late,  *)
(* what is printed for a line is what the loader answers to that line      *)
(* (upload.py 23-27: one read(1) for one write), also when it refused the  *)
(* line before its end, and never what the ROM sent.                       *)
AnswersMatch ==
  complaints = {} /\ OnTime => \A i \in DOMAIN shown : shown[i] = file[i].answer

(* After a transfer without complaint, and as long as no answer was late,  *)
(* between two lines the memory holds what the lines answered so far say:  *)
(* '*' is sent after the last byte can be read back, and a refused line    *)
(* writes no more than its good digits.                                    *)
LoadedAsShown ==
  complaints = {} /\ OnTime /\ ~ waiting => \A c \in Targets : mem[c] = ImageAt(c, Len(shown))

(* An EEPROM is never written to while it programs the byte before, which  *)
(* it would ignore (stage2.asm 117-118).                                   *)
NoWriteIsIgnored ==
  [][pc = "sone" /\ pc' = "datapoll" => prog = {}]_vars

(* Late or not, and whoever gets it, a line is answered once at most: what *)
(* is left of a line after its answer is not taken for another one.        *)
OneAnswerPerLine ==
  Len(back) + Cardinality({i \in DOMAIN shown : shown[i] # ""})
    <= Len(shown) + (IF waiting THEN 1 ELSE 0)

(* After a transfer without complaint, the program of a file for memory    *)
(* that can be read back in time is started, and what of it is not in      *)
(* memory was in a line for which '!' was shown: upload_srec goes on after *)
(* a refused line, so the program may not be all there.                    *)
ProgramStarts ==
  Prompt(file) => (good /\ complaints = {} ~> Started)

(* upload.py ends, whatever the line, the memory and the loader do, also   *)
(* when the loader it was to send does not run.                            *)
UploadEnds == <>(good /\ ~ waiting /\ Len(shown) = Len(file))
=============================================================================
