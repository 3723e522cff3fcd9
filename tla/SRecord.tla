------------------------------ MODULE SRecord -------------------------------
(***************************************************************************)
(* The characters of an S-record, as the loader (bootloader/stage2.asm)    *)
(* decodes them, and the text of a record, as an assembler writes it.      *)
(* A character is its ASCII code.                                          *)
(***************************************************************************)
EXTENDS Naturals, Sequences, FiniteSets, SequencesExt

Byte == 0 .. 255
LastAddress == 65535
Address == 0 .. LastAddress

LF == 10            \* EOL
SREC == 83          \* 'S'
Data1 == 49         \* '1': a data record
End9 == 57          \* '9': an entry record
Header0 == 48       \* '0': a header record, which the loader refuses

(* convnibble; Bad stands for the carry.                                   *)
Bad == 256
Nibble(c) ==
  IF c \in 48 .. 57 THEN c - 48
  ELSE IF c \in 65 .. 70 THEN c - 65 + 10
  ELSE Bad

(* hex2dec                                                                 *)
Hex2Dec(h, l) ==
  IF Bad \in {Nibble(h), Nibble(l)} THEN Bad ELSE 16 * Nibble(h) + Nibble(l)

-----------------------------------------------------------------------------
(* What a record should look like: its type, the count of the bytes that   *)
(* follow, two bytes of address, the data, a checksum; each byte as two    *)
(* upper-case digits.                                                      *)
Digit(n) == IF n < 10 THEN 48 + n ELSE 65 + n - 10
HexOf(b) == <<Digit(b \div 16), Digit(b % 16)>>

Text(type, addr, data) ==
  LET bytes == <<Len(data) + 3, addr \div 256, addr % 256>> \o data
      sum == FoldSeq(LAMBDA b, s : b + s, 0, bytes)
  IN  <<SREC, type>> \o FlattenSeq([i \in DOMAIN bytes |-> HexOf(bytes[i])])
        \o HexOf(255 - (sum % 256)) \o <<LF>>

(* What a text says.  The i-th byte of a record: the count, two of address, *)
(* the data.                                                               *)
RecordByte(t, i) == Hex2Dec(t[2 * i + 1], t[2 * i + 2])

Header(t) == t[2] \in {Data1, End9} /\ Bad \notin {RecordByte(t, 1), RecordByte(t, 2), RecordByte(t, 3)}
AddressOf(t) == 256 * RecordByte(t, 2) + RecordByte(t, 3)
DataCount(t) == IF RecordByte(t, 1) = 3 THEN 256 ELSE (RecordByte(t, 1) + 253) % 256

(* The text of a data record, which has a byte for the address c.          *)
Carries(t, c) ==
  t[2] = Data1 /\ Header(t) /\ c \in AddressOf(t) .. AddressOf(t) + DataCount(t) - 1
ByteFor(t, c) == RecordByte(t, 4 + c - AddressOf(t))
=============================================================================
