------------------------------- MODULE HdlcRx -------------------------------
(***************************************************************************)
(* bootloader/hdlcrx.asm, an unfinished loader that receives packets framed*)
(* as in HDLC: SOF before and after, ESC before a byte that is sent with   *)
(* bit 5 changed.  That the next byte is to be changed back is remembered  *)
(* in V, the overflow flag, which most instructions write.  An action is   *)
(* what is done with a byte, or a turn of a loop that waits for one.       *)
(***************************************************************************)
EXTENDS Integers, Sequences, SequencesExt, FiniteSets, TLC

CONSTANTS
  Byte,        \* the bytes that are sent, SOF and ESC among them
  SIZE,        \* the size of the buffer, 257 in the code
  Length       \* how many bytes are sent

SOF  == 126
ESC  == 125
MASK == 32

VARIABLES
  pc,          \* the loop
  v,           \* the V flag
  buf,         \* the bytes from BUF to Y
  led,         \* the LED is lit
  sent         \* history: the bytes received

vars == <<pc, v, buf, led, sent>>

Init ==
  /\ pc = "rxsof" /\ v = FALSE /\ buf = <<>>
  /\ led = TRUE /\ sent = <<>>

(* eora #MASK                                                              *)
Changed(b) == IF (b \div MASK) % 2 = 1 THEN b - MASK ELSE b + MASK

(* A load, a store or a logical operation clears V; a comparison sets it   *)
(* when the difference of the signed operands does not fit in eight bits.  *)
Clear == FALSE
Signed(b) == IF b > 127 THEN b - 256 ELSE b
Compared(x, y) == Signed(x) - Signed(y) \notin -128 .. 127

(* ledon, with brclr, until RDRF is set; ledoff in rxdata.                 *)
Wait ==
  /\ led' = (pc = "rxsof")
  /\ v' = Clear
  /\ UNCHANGED <<pc, buf, sent>>

Rxsof(b) ==
  /\ pc = "rxsof"
  /\ led' = TRUE
  /\ IF b = SOF THEN pc' = "rxdata" /\ buf' = <<>> /\ v' = FALSE
                ELSE v' = Compared(b, SOF) /\ UNCHANGED <<pc, buf>>

(* What the flag is where bvc tests it: bsr ledoff and ldaa SCDR,X come    *)
(* between sev and bvc.                                                    *)
Tested(flag) == flag /\ Clear

Rxdata(b) ==
  LET c == IF Tested(v) THEN Changed(b) ELSE b
  IN  /\ pc = "rxdata"
      /\ led' = FALSE
      /\ \/ c = SOF /\ pc' = "rxsof" /\ v' = Compared(c, SOF) /\ buf' = buf
         \/ c = ESC /\ pc' = pc /\ v' = TRUE /\ buf' = buf
         \/ /\ c \notin {SOF, ESC}
            /\ IF Len(buf) = SIZE THEN buf' = buf /\ v' = FALSE
                                  ELSE buf' = Append(buf, c) /\ v' = Clear
            /\ pc' = pc

Receive ==
  /\ Len(sent) < Length
  /\ \E b \in Byte : sent' = Append(sent, b) /\ (Rxsof(b) \/ Rxdata(b))

Next == Wait \/ Receive

Spec == Init /\ [][Next]_vars
-----------------------------------------------------------------------------
(* hdlcrx.asm 84: "Next received byte will be unescaped": the byte after   *)
(* an ESC within a packet is stored with bit 5 changed.                    *)
Unescaped ==
  [][pc = "rxdata" /\ Len(sent') > Len(sent) /\ sent # <<>> /\ Last(sent) = ESC /\ Len(buf') > Len(buf) =>
       Last(buf') = Changed(Last(sent'))]_vars
=============================================================================
