------------------------------- MODULE Stage2 -------------------------------
(***************************************************************************)
(* bootloader/stage2.asm: the program that receives S-records over the     *)
(* serial line and writes them to memory, with the serial line and the     *)
(* memory it writes to.  The loader polls the receiver, which holds one    *)
(* character: what comes while it writes is lost, but for one character.   *)
(* The buffer is in the memory the loader writes to.  An action is one turn*)
(* of a loop of the code.                                                  *)
(***************************************************************************)
EXTENDS SRecord

CONSTANTS
  BUF,         \* the address of the buffer
  BUFEND,      \* the first address past it
  Kind,        \* the chip at an address out of the buffer, where there is one
  Blank,       \* what the memory holds at first
  Open         \* what reads where there is no chip

Buffer == BUF .. (BUFEND - 1)
Targets == DOMAIN Kind

ASSUME MapAssumption ==
  /\ BUF \in Address /\ BUFEND \in Address /\ BUF + 7 < BUFEND
  /\ Targets \subseteq Address \ Buffer
  /\ Kind \in [Targets -> {"ram", "eeprom", "rom"}]
  /\ Blank \in Byte /\ Open \in Byte

VARIABLES
  pc,          \* the loop the loader is in
  y,           \* Y: where to store, or to decode, the next character
  a,           \* A while the memory is polled: the byte written
  len,         \* len: the data bytes left to write
  addr,        \* addr: where to write the next one
  mem,         \* what each chip holds
  prog,        \* the byte the EEPROM is programming: at most one [cell, val]
  line,        \* the characters on their way to the loader
  rdr,         \* SCDR while RDRF is set, else None
  back         \* the answers on their way to the host

device == <<pc, y, a, len, addr, mem, prog>>
serial == <<line, rdr, back>>

None == 256

DeviceInit ==
  /\ pc = "rxsrec"
  /\ y = BUF /\ a = 0 /\ len = 0 /\ addr = 0
  /\ mem = [c \in Buffer \cup Targets |-> Blank]
  /\ prog = {}
  /\ line = <<>> /\ rdr = None /\ back = <<>>

-----------------------------------------------------------------------------
(* The chips                                                               *)

(* A write.  An EEPROM takes one byte at a time.                           *)
Write(c, b) ==
  IF c \in Buffer \/ (c \in Targets /\ Kind[c] = "ram")
    THEN mem' = [mem EXCEPT ![c] = b] /\ prog' = prog
  ELSE IF c \in Targets /\ Kind[c] = "eeprom" /\ prog = {}
    THEN prog' = {[cell |-> c, val |-> b]} /\ mem' = mem
  ELSE UNCHANGED <<mem, prog>>

(* A read of the memory the loader is not writing to.                      *)
At(c) == IF c \in DOMAIN mem THEN mem[c] ELSE Open

(* What reads at c is b: while an EEPROM programs a byte, bit 7 of what    *)
(* reads there is the opposite of that byte's.                             *)
ReadsBack(c, b) == At(c) = b /\ ~ \E w \in prog : w.cell = c

Programmed ==
  /\ \E w \in prog : mem' = [mem EXCEPT ![w.cell] = w.val]
  /\ prog' = {}
  /\ UNCHANGED <<pc, y, a, len, addr, line, rdr, back>>

(* A character reaches the receiver, and is lost when RDRF is still set.   *)
(* The loops rxsrec and rxdata turn faster than characters come.           *)
Arrive ==
  /\ line # <<>>
  /\ rdr = None \/ pc \notin {"rxsrec", "rxdata"}
  /\ pc # "run"
  /\ rdr' = IF rdr = None THEN Head(line) ELSE rdr
  /\ line' = Tail(line)
  /\ UNCHANGED <<pc, y, a, len, addr, mem, prog, back>>

-----------------------------------------------------------------------------
(* The loader                                                              *)

(* sertx, and back to rxsrec.                                              *)
Answer(c) ==
  /\ back' = Append(back, c)
  /\ pc' = "rxsrec"

Rxsrec ==
  /\ pc = "rxsrec" /\ rdr # None
  /\ rdr' = None
  /\ IF rdr = SREC THEN pc' = "rxdata" /\ y' = BUF ELSE UNCHANGED <<pc, y>>
  /\ UNCHANGED <<a, len, addr, mem, prog, line, back>>

RxdataComplains ==
  /\ pc = "rxdata" /\ rdr # None
  /\ rdr' = None
  /\ IF rdr = LF THEN pc' = "exec" /\ UNCHANGED <<y, mem, back>>
     ELSE IF y = BUFEND THEN back' = Append(back, "!") /\ UNCHANGED <<pc, y, mem>>
     ELSE mem' = [mem EXCEPT ![y] = rdr] /\ y' = y + 1 /\ UNCHANGED <<pc, back>>
  /\ UNCHANGED <<a, len, addr, prog, line>>

RxdataNoLimit ==
  /\ pc = "rxdata" /\ rdr # None
  /\ rdr' = None
  /\ \/ rdr = LF /\ pc' = "exec" /\ UNCHANGED <<y, mem>>
     \/ /\ rdr # LF
        /\ mem' = [c \in DOMAIN mem |-> IF c = y THEN rdr ELSE mem[c]]
        /\ y' = y + 1 /\ pc' = pc
  /\ UNCHANGED <<a, len, addr, prog, line, back>>

Rxdata ==
  /\ pc = "rxdata" /\ rdr # None
  /\ rdr' = None
  /\ \/ /\ rdr = LF
        /\ pc' = "exec"
        /\ UNCHANGED <<y, mem, back>>
     \/ /\ rdr # LF /\ y = BUFEND
        /\ Answer("!")
        /\ UNCHANGED <<y, mem>>
     \/ /\ rdr # LF /\ y # BUFEND
        /\ mem' = [mem EXCEPT ![y] = rdr]
        /\ y' = y + 1
        /\ UNCHANGED <<pc, back>>
  /\ UNCHANGED <<a, len, addr, prog, line>>

(* The two digits at c.                                                    *)
Pair(c) == Hex2Dec(At(c), At(c + 1))

(* The line is in the buffer.  When the answer is "!" the code has changed *)
(* type, len or addr, which the next line sets before it uses them.        *)
Exec ==
  LET type == At(BUF)
      count == Pair(BUF + 1)
      hi == Pair(BUF + 3)
      lo == Pair(BUF + 5)
      good == Bad \notin {count, hi, lo} /\ type \in {Data1, End9}
  IN  /\ pc = "exec"
      /\ \/ ~ good /\ Answer("!") /\ UNCHANGED <<y, len, addr>>
         \/ /\ good
            /\ len' = (count + 256 - 3) % 256
            /\ addr' = 256 * hi + lo
            /\ y' = BUF + 7
            /\ IF type = Data1 THEN pc' = "sone" /\ back' = back
                               ELSE pc' = "run" /\ back' = Append(back, ">")
      /\ UNCHANGED <<a, mem, prog, line, rdr>>

SoneGivesUpQuietly ==
  /\ pc = "sone"
  /\ IF Pair(y) = Bad THEN Answer("*") /\ UNCHANGED <<a, y, mem, prog>>
     ELSE /\ pc' = "datapoll" /\ a' = Pair(y) /\ y' = y + 2
          /\ Write(addr, Pair(y)) /\ back' = back
  /\ UNCHANGED <<len, addr, line, rdr>>

Sone ==
  /\ pc = "sone"
  /\ \/ Pair(y) = Bad /\ Answer("!") /\ UNCHANGED <<a, y, mem, prog>>
     \/ /\ Pair(y) # Bad
        /\ pc' = "datapoll" /\ a' = Pair(y) /\ y' = y + 2
        /\ Write(addr, Pair(y))
        /\ back' = back
  /\ UNCHANGED <<len, addr, line, rdr>>

Go(more) ==
  /\ addr' = (addr + 1) % 65536
  /\ len' = (len + 255) % 256
  /\ IF more THEN pc' = "sone" /\ back' = back ELSE Answer("*")
  /\ UNCHANGED <<y, a, mem, prog, line, rdr>>

DatapollSkipped == pc = "datapoll" /\ Go(len # 1)
DatapollAtTheEnd == pc = "datapoll" /\ (len # 1 \/ ReadsBack(addr, a)) /\ Go(len # 1)

(* The turn of datapoll that reads the byte back, and the rest of sone.    *)
Datapoll ==
  /\ pc = "datapoll"
  /\ ReadsBack(addr, a)
  /\ addr' = (addr + 1) % 65536
  /\ len' = (len + 255) % 256
  /\ IF len' # 0 THEN pc' = "sone" /\ back' = back ELSE Answer("*")
  /\ UNCHANGED <<y, a, mem, prog, line, rdr>>

Loader == Rxsrec \/ Rxdata \/ Exec \/ Sone \/ Datapoll
=============================================================================
