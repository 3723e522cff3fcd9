-------------------------------- MODULE Do11 --------------------------------
(***************************************************************************)
(* masm/do11.c, the operands of the 68HC11.                                *)
(***************************************************************************)
EXTENDS MasmState

Page1Classes == {"GEN", "LONGIMM", "NOIMM"}
General == Page1Classes \cup {"CPD", "XLIMM", "XNOIMM", "YLIMM", "YNOIMM"}
NotImmediate == {"NOIMM", "XNOIMM", "YNOIMM"}

(* The prebytes of a class: for the plain modes, for X and for Y.          *)
Pages(class) ==
  CASE class \in Page1Classes        -> [OTHER |-> <<>>, IMMED |-> <<>>, INDX |-> <<>>, INDY |-> <<24>>]
    [] class = "CPD"                 -> [OTHER |-> <<26>>, IMMED |-> <<26>>, INDX |-> <<26>>, INDY |-> <<205>>]
    [] class \in {"XLIMM", "XNOIMM"} -> [OTHER |-> <<>>, IMMED |-> <<>>, INDX |-> <<>>, INDY |-> <<205>>]
    [] class \in {"YLIMM", "YNOIMM"} -> [OTHER |-> <<24>>, IMMED |-> <<24>>, INDX |-> <<26>>, INDY |-> <<24>>]

DoGen11(a, l) ==
  LET e == l.args[1]
      b == EmitAll(a, Pages(l.op)[l.mode])
  IN  CASE l.mode = "IMMED" /\ l.op = "GEN" -> EvalByte(Emit(b, l.code), e)
        [] l.mode = "IMMED" /\ l.op # "GEN" -> EvalWord(Emit(b, l.code), e)
        [] l.mode \in {"INDX", "INDY"}      -> EvalByte(Emit(b, l.code + 32), e)
        [] l.mode = "OTHER"                 -> Address(b, e, l.code + 16, l.code + 48)

(* bset, bclr, brset, brclr: address, mask, and where to branch.           *)
BitOp11(a, l) ==
  LET b == CASE l.mode = "INDX" -> Emit(a, l.code)
             [] l.mode = "INDY" -> EmitAll(a, <<24, l.code>>)
             [] OTHER           -> Emit(a, l.code - IF l.op = "BTB" THEN 12 ELSE 8)
      c == EvalByte(EvalByte(b, l.args[1]), l.args[2])
  IN  IF l.op = "BTB" THEN Displacement(c, l.args[3]) ELSE c

Group11(a, l) ==
  CASE l.mode = "INDX" -> EvalByte(Emit(a, l.code), l.args[1])
    [] l.mode = "INDY" -> EvalByte(EmitAll(a, <<24, l.code>>), l.args[1])
    [] OTHER           -> EvalWord(Emit(a, l.code + 16), l.args[1])

DoOp11(a, l) ==
  CASE l.op = "INH"              -> Emit(a, l.code)
    [] l.op = "P2INH"            -> EmitAll(a, <<24, l.code>>)
    [] l.op = "REL"              -> Displacement(Emit(a, l.code), l.args[1])
    [] l.op = "GRP2"             -> Group11(a, l)
    [] l.op \in {"BTB", "SETCLR"} -> BitOp11(a, l)
    [] l.op \in General ->
         IF l.mode = "IMMED" /\ l.op \in NotImmediate THEN NoImmediate(a) ELSE DoGen11(a, l)
=============================================================================
