------------------------------ MODULE Meaning ------------------------------
(***************************************************************************)
(* What the processors make of the bytes of a line: the reference that the *)
(* assemblers are checked against, written from the decoding side.         *)
(* In each operator l is a line, b its bytes, at its address and v the     *)
(* values of its expressions.                                              *)
(***************************************************************************)
EXTENDS Integers, Sequences, TLC

TwosComplement(n, bits) == IF n < 2 ^ (bits - 1) THEN n ELSE n - 2 ^ bits
Signed(byte) == TwosComplement(byte, 8)
BytesOf(n) == <<(n \div 256) % 256, n % 256>>
WordOf(b, k) == (256 * b[k]) + b[k + 1]

(* An operand in a byte that ends the line.                                *)
InLast(b, value) == b[Len(b)] = value % 256
InLastWord(b, value) == SubSeq(b, Len(b) - 1, Len(b)) = BytesOf(value)

Branches(at, b, target) == at + Len(b) + Signed(b[Len(b)]) = target

(* An address, in a byte after one opcode or in a word after another.      *)
Addresses(l, b, direct, extended, value) ==
  \/ b[Len(b) - 1] = direct /\ InLast(b, value) /\ (value \in 0 .. 255 \/ l.args[1].force = "<")
  \/ b[Len(b) - 2] = extended /\ InLastWord(b, value)

LongClasses == {"LONGIMM", "CPD", "XLIMM", "YLIMM", "P2GEN", "P3GEN"}
Plain == {"GEN", "NOIMM", "XNOIMM", "YNOIMM", "P2NOIMM"} \cup LongClasses

(* 6800, 6801 and 68HC11                                                   *)
Means11(l, at, b, v) ==
  /\ l.op \in {"REL", "BTB"} => Branches(at, b, v[Len(v)])
  /\ l.op = "BTB" => b[Len(b) - 2] = v[1] % 256 /\ b[Len(b) - 1] = v[2] % 256
  /\ l.op \in Plain /\ l.mode = "OTHER" => Addresses(l, b, l.code + 16, l.code + 48, v[1])
  /\ l.op \in Plain \ LongClasses /\ l.mode = "IMMED" => InLast(b, v[1])
  /\ l.op \in LongClasses /\ l.mode = "IMMED" => InLastWord(b, v[1])
  /\ l.op \in Plain \cup {"GRP2"} /\ l.mode \in {"IND", "INDX", "INDY"} => InLast(b, v[1])
  /\ l.op = "GRP2" /\ l.mode = "OTHER" => InLastWord(b, v[1])

(* 6804: an opcode that ends in zero and one of four registers, or a byte. *)
Means4(l, at, b, v) ==
  LET register == {168 + n : n \in 0 .. 3} \cup {172 + n : n \in 0 .. 3} \cup {184 + n : n \in 0 .. 7}
  IN  /\ l.op = "REL" => at + 1 + TwosComplement(b[1] % 32, 5) = v[1]
      /\ l.op \in {"BTB", "BPM"} => Len(b) = 3 /\ Branches(at, b, v[Len(v)])
      /\ l.op \in {"BTB", "SETCLR"} => b[1] = l.code + v[1] /\ b[2] = v[2] % 256
      /\ l.op = "EXT" => WordOf(b, 1) % 4096 = v[1] % 4096
      /\ l.op = "MVI" => b = <<l.code, v[1] % 256, v[2] % 256>>
      /\ l.op = "LDX" => b = <<l.code, 128, v[1] % 256>>
      /\ l.op = "LDY" => b = <<l.code, 129, v[1] % 256>>
      /\ l.op \in {"GEN", "NOIMM"} =>
           CASE l.mode = "IND" -> Len(b) = 1 /\ 128 + ((b[1] \div 16) % 2) = v[1]
             [] Len(b) = 1     -> b[1] \in register /\ 128 + (b[1] % 4) = v[1]
             [] OTHER          -> InLast(b, v[1])

(* 6805: an index with no offset, a byte or a word.                        *)
Means5(l, at, b, v) ==
  LET base == l.code + IF l.op = "GRP2" THEN 32 ELSE 48
  IN  /\ l.op \in {"REL", "BTB"} => Branches(at, b, v[Len(v)])
      /\ l.op \in {"BTB", "SETCLR"} => b[1] = l.code + (2 * v[1]) /\ b[2] = v[2] % 256
      /\ l.op \in {"GEN", "NOIMM"} /\ l.mode = "OTHER" => Addresses(l, b, l.code + 16, l.code + 32, v[1])
      /\ l.op = "GEN" /\ l.mode = "IMMED" => InLast(b, v[1])
      /\ l.op = "GRP2" /\ l.mode = "OTHER" => b = <<l.code, v[1] % 256>>
      /\ l.mode = "IND" => b \in {<<base + 16, v[1] % 256>>, <<base>> \o BytesOf(v[1])}
                                   \cup IF v[1] = 0 THEN {<<base + 32>>} ELSE {}

(* 6809: what a postbyte at place k says, with the bytes after it.         *)
Indexing(b, k) ==
  LET p    == b[k]
      none == [acc |-> "", reg |-> <<"X", "Y", "U", "S">>[1 + ((p \div 32) % 4)], dec |-> 0, inc |-> 0,
               indirect |-> p >= 128 /\ (p \div 16) % 2 = 1, offset |-> 0]
      m    == p % 16
  IN  CASE p < 128 -> [none EXCEPT !.offset = TwosComplement(p % 32, 5)]
        [] p >= 128 /\ m \in {0, 1}  -> [none EXCEPT !.inc = m + 1]
        [] p >= 128 /\ m \in {2, 3}  -> [none EXCEPT !.dec = m - 1]
        [] p >= 128 /\ m = 4         -> none
        [] p >= 128 /\ m \in {5, 6, 11} -> [none EXCEPT !.acc = (5 :> "B" @@ 6 :> "A" @@ 11 :> "D")[m]]
        [] p >= 128 /\ m \in {8, 12} -> [none EXCEPT !.offset = Signed(b[k + 1]), !.reg = IF m = 12 THEN "PC" ELSE @]
        [] p >= 128 /\ m \in {9, 13} -> [none EXCEPT !.offset = TwosComplement(WordOf(b, k + 1), 16),
                                                     !.reg = IF m = 13 THEN "PC" ELSE @]

(* The same of the source: an offset from PCR is an address.               *)
Indexed(l, at, b, v) ==
  LET i == l.index IN
  [acc |-> i.acc, reg |-> IF i.reg = "PCR" THEN "PC" ELSE i.reg, dec |-> i.dec, inc |-> i.inc,
   indirect |-> i.indirect,
   offset |-> IF i.acc # "" THEN 0 ELSE v[1] - IF i.reg = "PCR" THEN at + Len(b) ELSE 0]

Means9(l, at, b, v) ==
  LET k    == IF b[1] \in {16, 17} THEN 3 ELSE 2
      n    == [PC |-> 5, D |-> 0, X |-> 1, Y |-> 2, U |-> 3, S |-> 4, A |-> 8, B |-> 9, CC |-> 10, DP |-> 11]
      bits == [CC |-> 0, A |-> 1, B |-> 2, DP |-> 3, X |-> 4, Y |-> 5, U |-> 6, S |-> 6, PC |-> 7]
      set(p) == { r \in DOMAIN bits : (p \div 2 ^ bits[r]) % 2 = 1 }
      named  == { r \in DOMAIN bits : \E j \in DOMAIN l.regs : l.regs[j] = r \/ (l.regs[j] = "D" /\ r \in {"A", "B"}) }
  IN  /\ l.op = "REL" => Branches(at, b, v[1])
      /\ l.op \in {"P1REL", "P2REL"} => (at + Len(b) + WordOf(b, Len(b) - 1)) % 65536 = v[1] % 65536
      /\ l.op \in Plain /\ l.mode = "OTHER" => Addresses(l, b, l.code + 16, l.code + 48, v[1])
      /\ l.op = "GRP2" /\ l.mode = "OTHER" => Addresses(l, b, l.code, l.code + 112, v[1])
      /\ l.op \in (Plain \ LongClasses) \cup {"IMM"} /\ l.mode = "IMMED" => InLast(b, v[1])
      /\ l.op \in LongClasses /\ l.mode = "IMMED" => InLastWord(b, v[1])
      /\ l.mode = "INDIR" => b[k] = 159 /\ InLastWord(b, v[1])
      /\ l.mode = "IND" \/ l.op = "INDEXED" =>
           LET size == IF l.args[1].force = "<" THEN 256 ELSE 65536
           IN  [Indexing(b, k) EXCEPT !.offset = @ % size] = [Indexed(l, at, b, v) EXCEPT !.offset = @ % size]
      /\ l.op = "RTOR" => b[2] \div 16 = n[l.regs[1]] /\ b[2] % 16 = n[l.regs[2]]
      /\ l.op = "RLIST" => set(b[2]) \ {"U", "S"} = named \ {"U", "S"}
                           /\ (set(b[2]) \cap {"U", "S"} = {}) = (named \cap {"U", "S"} = {})

Means(cpu, l, at, b, v) ==
  /\ cpu \in {"0", "1", "11"} => Means11(l, at, b, v)
  /\ cpu = "4" => Means4(l, at, b, v)
  /\ cpu = "5" => Means5(l, at, b, v)
  /\ cpu = "9" => Means9(l, at, b, v)
  /\ l.op = "FCB" => b = [k \in DOMAIN v |-> v[k] % 256]
  /\ l.op = "FDB" => \A k \in DOMAIN v : SubSeq(b, (2 * k) - 1, 2 * k) = BytesOf(v[k])
  /\ l.op = "FCC" => b = l.text
=============================================================================
