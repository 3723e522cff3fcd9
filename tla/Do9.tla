-------------------------------- MODULE Do9 --------------------------------
(***************************************************************************)
(* masm/do9.c, the operands of the 6809.  A line that is indexed has an    *)
(* index: acc, the accumulator that is the offset ("" for an expression),  *)
(* reg, how often "-" precedes and "+" follows it, and whether "[" begins. *)
(* For tfr, exg, psh and pul, regs is the list of the names.               *)
(***************************************************************************)
EXTENDS MasmState

PAGE2  == 16
PAGE3  == 17
IPBYTE == 159
SWI    == 63

Registers == {"D", "X", "Y", "U", "S", "PC", "PCR", "A", "B", "CC", "DP"}

Regnum == [D |-> 0, X |-> 1, Y |-> 2, U |-> 3, S |-> 4, PC |-> 5, A |-> 8, B |-> 9, CC |-> 10, DP |-> 11]

(* The bit of a register in a push; D has the two of A and B.              *)
Regs == [D |-> {2, 4}, X |-> {16}, Y |-> {32}, U |-> {64}, S |-> {64}, PC |-> {128},
         A |-> {2}, B |-> {4}, CC |-> {1}, DP |-> {8}]

Rtype == [X |-> 0, Y |-> 32, U |-> 64, S |-> 96]

(* The postbyte, with its register; another register is an error, and X.   *)
Postbyte(a, reg, p) ==
  IF reg \in DOMAIN Rtype THEN Emit(a, p + Rtype[reg])
  ELSE Emit(Error(a, "Illegal Register for Indexed"), p)

(* Relative to the program counter: after the postbyte, Pc is one more.    *)
PcIndexed(a, p, relative) ==
  LET dist == a.Result - IF relative THEN a.Pc + 2 ELSE 0
      wide == a.Force_word \/ (~ a.Force_byte /\ ~ InByte(dist))
  IN  EmitAll(a, IF wide
                 THEN <<p + 13>> \o Word(a.Result - IF relative THEN a.Pc + 3 ELSE 0)
                 ELSE <<p + 12, dist>>)

(* ,r+ ,r++ ,-r and ,--r.                                                  *)
AutoIndexed(a, p, i) ==
  LET legal == /\ a.Result = 0
               /\ i.dec <= 2 /\ i.inc <= 2
               /\ i.indirect => i.dec # 1 /\ i.inc # 1
               /\ i.dec = 0 \/ i.inc = 0
  IN  IF legal THEN Postbyte(a, i.reg, p + IF i.dec > 0 THEN i.dec + 1 ELSE i.inc - 1)
      ELSE Error(a, "Auto Inc/Dec")

OffsetIndexed(a, p, i) ==
  LET free == ~ a.Force_word /\ ~ a.Force_byte
      five == free /\ a.Result \in -16 .. 15 /\ ~ i.indirect
      wide == a.Force_word \/ (free /\ ~ InByte(a.Result))
  IN  CASE free /\ a.Result = 0 -> Postbyte(a, i.reg, p + 4)
        [] five /\ a.Result # 0 -> Postbyte(a, i.reg, a.Result % 32)
        [] wide                 -> EmitAll(Postbyte(a, i.reg, p + 9), Word(a.Result))
        [] OTHER                -> Emit(Postbyte(a, i.reg, p + 8), a.Result)

DoIndexed9(a, l, op) ==
  LET i == l.index
      p == IF i.indirect THEN 144 ELSE 128
      b == Emit(a, op)
      c == Eval(b, l.args[1])
      auto == i.dec > 0 \/ i.inc > 0
  IN  CASE i.acc = "A" -> Postbyte(b, i.reg, p + 6)
        [] i.acc = "B" -> Postbyte(b, i.reg, p + 5)
        [] i.acc = "D" -> Postbyte(b, i.reg, p + 11)
        [] i.acc = "" /\ i.reg \in {"PC", "PCR"} ->
             IF auto THEN Error(c, "Auto Inc/Dec Illegal on PC") ELSE PcIndexed(c, p, i.reg = "PCR")
        [] i.acc = "" /\ i.reg \notin {"PC", "PCR"} ->
             IF auto THEN AutoIndexed(c, p, i) ELSE OffsetIndexed(c, p, i)

DoGen9(a, l) ==
  LET e == l.args[1] IN
  CASE l.mode = "IMMED" -> EvalByte(Emit(a, l.code), e)
    [] l.mode = "IND"   -> DoIndexed9(a, l, l.code + 32)
    [] l.mode = "INDIR" -> EvalWord(EmitAll(a, <<l.code + 32, IPBYTE>>), e)
    [] l.mode = "OTHER" -> Address(a, e, l.code + 16, l.code + 48)

Group9(a, l) ==
  LET e == l.args[1] IN
  CASE l.mode = "IND"   -> DoIndexed9(a, l, l.code + 96)
    [] l.mode = "INDIR" -> EvalWord(EmitAll(a, <<l.code + 96, IPBYTE>>), e)
    [] OTHER            -> Address(a, e, l.code, l.code + 112)

LongImmediate(a, l) ==
  IF l.mode = "IMMED" THEN EvalWord(Emit(a, l.code), l.args[1]) ELSE DoGen9(a, l)

(* A word relative to the end of the instruction.                          *)
LongBranch(a, l, opcode) ==
  LET b == EmitAll(Eval(a, l.args[1]), opcode) IN EmitAll(b, Word(b.Result - (b.Pc + 2)))

(* tfr and exg: two registers of the same size.                            *)
RegisterPair(a, l) ==
  LET src  == l.regs[1]
      dst  == l.regs[2]
      fault == CASE {src, dst} \ Registers # {} -> "Register Name Required"
                 [] {src, dst} \subseteq Registers /\ "PCR" \in {src, dst} -> "PCR illegal here"
                 [] OTHER -> IF (Regnum[src] < 8) = (Regnum[dst] < 8) THEN "" ELSE "Register Size Mismatch"
  IN  IF fault # "" THEN EmitAll(Error(a, fault), <<l.code, 0>>)
      ELSE EmitAll(a, <<l.code, (16 * Regnum[src]) + Regnum[dst]>>)

(* The byte that has these bits, each 1, 2, ... or 128.                    *)
ByteWith(bits) ==
  LET Bit(b) == IF b \in bits THEN b ELSE 0
  IN  (Bit(1) + Bit(2) + Bit(4) + Bit(8)) + (Bit(16) + Bit(32) + Bit(64) + Bit(128))

(* psh and pul: S is not pushed on S nor pulled from it, nor U on U.       *)
RegisterList(a, l) ==
  LET own    == IF l.code \in {52, 53} THEN "S" ELSE "U"
      wrong  == { r \in Range(l.regs) : r \notin DOMAIN Regs \/ r = own }
      bits   == UNION { Regs[r] : r \in Range(l.regs) \ wrong }
      b      == IF wrong = {} THEN a ELSE Error(a, "Illegal Register")
  IN  IF l.regs = <<>> THEN Error(a, "Register List Required")
      ELSE EmitAll(b, <<l.code, ByteWith(bits)>>)

DoOp9(a, l) ==
  CASE l.op = "INH"     -> Emit(a, l.code)
    [] l.op = "GEN"     -> DoGen9(a, l)
    [] l.op = "IMM"     -> IF l.mode = "IMMED" THEN EvalByte(Emit(a, l.code), l.args[1])
                           ELSE Error(a, "Immediate Operand Required")
    [] l.op = "REL"     -> Displacement(Emit(a, l.code), l.args[1])
    [] l.op = "P2REL"   -> LongBranch(a, l, <<PAGE2, l.code>>)
    [] l.op = "P1REL"   -> LongBranch(a, l, <<l.code>>)
    [] l.op = "NOIMM"   -> IF l.mode = "IMMED" THEN NoImmediate(a) ELSE DoGen9(a, l)
    [] l.op = "P2GEN"   -> LongImmediate(Emit(a, PAGE2), l)
    [] l.op = "P3GEN"   -> LongImmediate(Emit(a, PAGE3), l)
    [] l.op = "LONGIMM" -> LongImmediate(a, l)
    [] l.op = "RTOR"    -> RegisterPair(a, l)
    [] l.op = "RLIST"   -> RegisterList(a, l)
    [] l.op = "INDEXED" -> IF l.mode \in {"IND", "IMMED"} THEN DoIndexed9(a, l, l.code)
                           ELSE Error(a, "Indexed Addressing Required")
    [] l.op = "P2NOIMM" -> IF l.mode = "IMMED" THEN NoImmediate(a) ELSE DoGen9(Emit(a, PAGE2), l)
    [] l.op = "P2INH"   -> EmitAll(a, <<PAGE2, l.code>>)
    [] l.op = "P3INH"   -> EmitAll(a, <<PAGE3, l.code>>)
    [] l.op = "GRP2"    -> Group9(a, l)
    [] l.op = "SYS"     -> EvalByte(Emit(a, SWI), l.args[1])
=============================================================================
