-------------------------------- MODULE Do5 --------------------------------
(***************************************************************************)
(* masm/do5.c, the operands of the 6805.                                   *)
(***************************************************************************)
EXTENDS MasmState

(* op is the opcode with an offset of a word; 16 more takes a byte, and 32 *)
(* more none.  The opcodes under 128 have no word.                         *)
DoIndexed5(a, e, op) ==
  LET b == Eval(a, e) IN
  IF b.Result = 0 /\ ~ b.Force_word /\ ~ b.Force_byte THEN Emit(b, op + 32)
  ELSE EmitAll(b, IF op >= 128 /\ Wide(b) THEN <<op>> \o Word(b.Result) ELSE <<op + 16, b.Result>>)

DoGen5(a, l) ==
  LET e == l.args[1] IN
  CASE l.mode = "IMMED" -> EvalByte(Emit(a, l.code), e)
    [] l.mode = "IND"   -> DoIndexed5(a, e, l.code + 48)
    [] l.mode = "OTHER" -> Address(a, e, l.code + 16, l.code + 32)

(* A word is not emitted at all.                                           *)
Group5(a, l) ==
  LET b == Eval(a, l.args[1]) IN
  CASE l.mode = "IND" -> DoIndexed5(a, l.args[1], l.code + 32)
    [] l.mode # "IND" /\ (b.Force_byte \/ b.Result \in 0 .. 255) -> EmitAll(b, <<l.code, b.Result>>)
    [] OTHER -> Error(b, "Extended Addressing not allowed")

(* bset, bclr, brset, brclr: bit, address, and where to branch.            *)
BitOp5(a, l) ==
  LET b == Eval(a, l.args[1])
      c == EvalByte(Emit(b, l.code + (2 * b.Result)), l.args[2])
  IN  CASE b.Result \notin 0 .. 7                    -> Error(b, "Bit Number must be 0-7")
        [] b.Result \in 0 .. 7 /\ l.op = "SETCLR" -> c
        [] b.Result \in 0 .. 7 /\ l.op = "BTB"    -> Displacement(c, l.args[3])

DoOp5(a, l) ==
  CASE l.op = "INH"   -> Emit(a, l.code)
    [] l.op = "GEN"   -> DoGen5(a, l)
    [] l.op = "REL"   -> Displacement(Emit(a, l.code), l.args[1])
    [] l.op = "NOIMM" -> IF l.mode = "IMMED" THEN NoImmediate(a) ELSE DoGen5(a, l)
    [] l.op = "GRP2"  -> Group5(a, l)
    [] l.op \in {"SETCLR", "BTB"} -> BitOp5(a, l)
=============================================================================
