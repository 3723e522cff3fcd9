-------------------------------- MODULE Do0 --------------------------------
(***************************************************************************)
(* masm/do0.c, the operands of the 6800, and masm/do1.c, of the 6801.      *)
(***************************************************************************)
EXTENDS MasmState

DoGen0(a, l) ==
  LET e == l.args[1] IN
  CASE l.mode = "IMMED" -> EvalByte(Emit(a, l.code), e)
    [] l.mode = "IND"   -> EvalByte(Emit(a, l.code + 32), e)
    [] l.mode = "OTHER" -> Address(a, e, l.code + 16, l.code + 48)

Group0(a, l) ==
  IF l.mode = "IND" THEN EvalByte(Emit(a, l.code), l.args[1])
  ELSE EvalWord(Emit(a, l.code + 16), l.args[1])

DoOp0(a, l) ==
  CASE l.op = "INH"     -> Emit(a, l.code)
    [] l.op = "GEN"     -> DoGen0(a, l)
    [] l.op = "REL"     -> Displacement(Emit(a, l.code), l.args[1])
    [] l.op = "NOIMM"   -> IF l.mode = "IMMED" THEN NoImmediate(a) ELSE DoGen0(a, l)
    [] l.op = "LONGIMM" -> IF l.mode = "IMMED" THEN EvalWord(Emit(a, l.code), l.args[1]) ELSE DoGen0(a, l)
    [] l.op = "GRP2"    -> Group0(a, l)

(* do1.c differs in the cycles it counts.                                  *)
DoOp1(a, l) == DoOp0(a, l)
=============================================================================
