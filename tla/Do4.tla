-------------------------------- MODULE Do4 --------------------------------
(***************************************************************************)
(* masm/do4.c, the operands of the 6804.  The registers are the addresses  *)
(* 128 to 131 and 255; LocalInit4 gives three of them names.               *)
(***************************************************************************)
EXTENDS MasmState

XREG   == 128
YREG   == 129
SD2REG == 131
ACCUM  == 255

LocalInit4 == [x |-> XREG, X |-> XREG, y |-> YREG, Y |-> YREG, a |-> ACCUM, A |-> ACCUM]

(* The bitwise or, for y less than 32.                                     *)
SetBit(n, y, bit) == IF (y \div bit) % 2 = 1 /\ (n \div bit) % 2 = 0 THEN n + bit ELSE n
Or(x, y) == SetBit(SetBit(SetBit(SetBit(SetBit(x, y, 1), y, 2), y, 4), y, 8), y, 16)

(* Out of range the displacement is not emitted.                           *)
LastDisplacement(a, e) ==
  LET b    == Eval(a, e)
      dist == b.Result - (b.Old_pc + 3)
  IN  IF ~ InByte(dist) /\ b.Pass = 2 THEN Error(b, "Branch out of Range") ELSE Emit(b, dist)

(* A branch of five bits, in the opcode.                                   *)
Branch(a, l) ==
  LET b    == Eval(a, l.args[1])
      dist == b.Result - (b.Pc + 1)
  IN  IF dist \notin -16 .. 15 /\ b.Pass = 2
      THEN Emit(Error(b, "Branch out of Range"), l.code + 31)
      ELSE Emit(b, l.code + (dist % 32))

BitOp4(a, l) ==
  LET b == Eval(a, l.args[1])
      c == EvalByte(Emit(b, l.code + b.Result), l.args[2])
  IN  CASE b.Result \notin 0 .. 7                    -> Error(b, "Bit Number must be 0-7")
        [] b.Result \in 0 .. 7 /\ l.op = "SETCLR" -> c
        [] b.Result \in 0 .. 7 /\ l.op = "BTB"    -> LastDisplacement(c, l.args[3])

Mvi(a, op, to, from) == EmitAll(a, <<op, to, from>>)

(* The opcodes of inc, dec, lda and sta that hold the register.            *)
ShortDirect(op, r) ==
  CASE op = 230 -> 168 + (r - XREG)
    [] op = 231 -> 184 + (r - XREG)
    [] op = 224 -> 172 + (r - XREG)
    [] op = 225 -> 188 + (r - XREG)

Indirect(a, l) ==
  LET b == Eval(a, l.args[1]) IN
  IF b.Result \in {XREG, YREG} THEN Emit(b, Or(l.code, 16 * (b.Result % 2)))
  ELSE Emit(Error(b, "Operand must be $80 or $81"), l.code)

DoGen4(a, l) ==
  LET b == Eval(a, l.args[1]) IN
  CASE l.mode = "IMMED" -> EmitAll(b, <<Or(l.code, 8), b.Result>>)
    [] l.mode = "IND"   -> Indirect(a, l)
    [] l.mode = "OTHER" -> IF b.Result \in XREG .. SD2REG /\ l.code \in {224, 225, 230, 231}
                           THEN Emit(b, ShortDirect(l.code, b.Result))
                           ELSE EmitAll(b, <<Or(l.code, 24), b.Result>>)

DoOp4(a, l) ==
  LET b == Eval(a, l.args[1]) IN
  CASE l.op = "INH"   -> Emit(a, l.code)
    [] l.op = "APOST" -> EmitAll(a, <<l.code, ACCUM>>)
    [] l.op = "REL"   -> Branch(a, l)
    [] l.op \in {"SETCLR", "BTB"} -> BitOp4(a, l)
    [] l.op = "EXT"   -> EmitAll(b, <<Or(l.code, Word(b.Result)[1] % 16), b.Result>>)
    [] l.op = "BPM"   -> LastDisplacement(EmitAll(a, <<l.code, ACCUM>>), l.args[1])
    [] l.op = "MVI"   -> LET c == Eval(b, l.args[2]) IN Mvi(c, l.code, b.Result, c.Result)
    [] l.op = "CLRX"  -> Mvi(a, l.code, XREG, 0)
    [] l.op = "CLRY"  -> Mvi(a, l.code, YREG, 0)
    [] l.op = "LDX"   -> Mvi(b, l.code, XREG, b.Result)
    [] l.op = "LDY"   -> Mvi(b, l.code, YREG, b.Result)
    [] l.op = "NOIMM" -> IF l.mode = "IMMED" THEN NoImmediate(a) ELSE DoGen4(a, l)
    [] l.op = "GEN"   -> DoGen4(a, l)
=============================================================================
