------------------------------ MODULE MasmText ------------------------------
(***************************************************************************)
(* The text side of masm, which Masm leaves out: MasmLine, with what the   *)
(* lines do.  How eval.c reads an expression, for the pseudo ops that are  *)
(* nothing but expressions or text: fcb, fdb and fcc.  A program comes with*)
(* the bytes that it means, in a set, if they are judged.                  *)
(***************************************************************************)
EXTENDS MasmState, MasmLine, Bitwise

CONSTANT Symbols     \* the values of the symbols

ASSUME MeansAssumption == \A p \in Programs : p.means \subseteq Seq(0 .. 255)

VARIABLE s     \* the other globals

vars == <<lineVars, s>>

(* Symbols and mnemonics are strings in MasmState.                         *)
Joined(chars) == FoldLeft(LAMBDA str, c : str \o c, "", chars)

-----------------------------------------------------------------------------
(* util.c and eval.c.  An expression is read from place p of the operand x; what is   *)
(* read comes with p, the place after it.                                  *)

Digits == Chars("0123456789")
Alpha == Chars("abcdefghijklmnopqrstuvwxyz") \cup Capitals \cup {"_", "."}
(* Mutant: no dollar in a symbol.                                          *)
AlphanNoDollar == Alpha \cup Digits
Alphan == Alpha \cup Digits \cup {"$"}

Connector == Connectors \cup {"|", "&", "^"}

Join(op, left, right) ==
  CASE op = "|" -> left | right
    [] op = "&" -> left & right
    [] op = "^" -> left ^^ right
    [] OTHER    -> Connect(op, left, right)

(* The first place from p on that has none of S.                           *)
After(x, p, S) == Min({q \in p .. Len(x) : Char(x, q) \notin S} \cup {IF p > Len(x) THEN p ELSE Len(x) + 1})

(* What may begin a constant: the base, and what its digits are.           *)
Base ==
  "%" :> [radix |-> 2, digits |-> {"0", "1"}] @@ "@" :> [radix |-> 8, digits |-> Chars("01234567")]
  @@ "$" :> [radix |-> 16, digits |-> Digits \cup Chars("abcdefABCDEF")]
  @@ [c \in Digits |-> [radix |-> 10, digits |-> Digits]]
DigitValue(c) == IF c \in Digits THEN Code[c] - Code["0"] ELSE 10 + Code[MapDn(c)] - Code["a"]

Constant(x, p, base) ==
  LET q == After(x, p, base.digits)
  IN  [sym |-> "", p |-> q,
       num |-> FoldLeft(LAMBDA val, i : val * base.radix + DigitValue(Char(x, i)), 0, [i \in 1 .. q - p |-> p + i - 1])]

(* The term that begins at q with character c.                             *)
TermAt(x, q, c) ==
  CASE c \in DOMAIN Base -> Constant(x, IF c \in Digits THEN q ELSE q + 1, Base[c])
    [] c = "*"      -> [sym |-> "*", num |-> 0, p |-> q + 1]
    [] c = "'"      -> IF Char(x, q + 1) = EOS THEN [sym |-> "", num |-> 0, p |-> q + 1]
                       ELSE [sym |-> "", num |-> Code[Char(x, q + 1)], p |-> q + 2]
    [] c \in Alpha  -> LET e == After(x, q, Alphan) IN [sym |-> Joined(SubSeq(x, q, e - 1)), num |-> 0, p |-> e]
    [] OTHER        -> [sym |-> "", num |-> 0, p |-> q]

(* The number signs are skipped.                                           *)
Term(x, p) == LET q == After(x, p, {"#"}) IN TermAt(x, q, Char(x, q))

Taking(a, op, minus, t) ==
  LET v == TermValue(a, t)
      b == IF t.sym \in {"", "*"} THEN a ELSE Symbol(a, t.sym)
  IN  [a |-> [b EXCEPT !.Result = Join(op, a.Result, IF minus THEN - v ELSE v)], p |-> t.p]

(* A minus goes before the number signs, and applies to what follows them. *)
GetTermAt(a, x, p, op) ==
  IF Char(x, p) = "-" THEN Taking(a, op, TRUE, Term(x, p + 1)) ELSE Taking(a, op, FALSE, Term(x, p))

RECURSIVE EvalFrom(_, _)
EvalFrom(x, e) ==
  IF Char(x, e.p) \in Connector THEN EvalFrom(x, GetTermAt(e.a, x, e.p + 1, Char(x, e.p))) ELSE e

EvalAt(a, x, p) ==
  LET force == Char(x, p) \in {"<", ">"}
      b == [a EXCEPT !.Result = 0, !.Force_byte = Char(x, p) = "<", !.Force_word = Char(x, p) = ">"]
  IN  EvalFrom(x, GetTermAt(b, x, IF force THEN p + 1 ELSE p, "+"))

-----------------------------------------------------------------------------
(* pseudo.c                                                                *)

RECURSIVE FormConstants(_, _, _, _)
FormConstants(a, x, p, wide) ==
  LET e == EvalAt(a, x, After(x, p, White))
      b == IF wide THEN EmitAll(e.a, Word(e.a.Result)) ELSE Emit(e.a, e.a.Result)
  IN  IF Char(x, e.p) = "," THEN FormConstants(b, x, e.p + 1, wide) ELSE b

FormCharacters(a, x) ==
  LET quote == Char(x, 1)
      q == After(x, 2, Characters \ {quote})
      b == EmitAll(a, [i \in 1 .. q - 2 |-> Code[Char(x, i + 1)]])
  IN  IF x = <<>> THEN a ELSE IF Char(x, q) = quote THEN b ELSE Error(b, "Missing Delimiter")

DoData(a, name, x) ==
  CASE name \in {"db", "fcb"} -> FormConstants(a, x, 1, FALSE)
    [] name \in {"dw", "fdb"} -> FormConstants(a, x, 1, TRUE)
    [] name = "fcc"           -> FormCharacters(a, x)
    [] OTHER                  -> a

(* process.  What the other mnemonics do is in Masm; equ, which does not   *)
(* install its label here, is not in the tables of this module.            *)
Process(a, label, name, x) ==
  LET b == [a EXCEPT !.Old_pc = a.Pc]
      c == IF label # <<>> THEN Install(b, Joined(label), b.Pc) ELSE b
  IN  IF name = <<>> THEN c
      ELSE IF MneLook(name) = 0 THEN Error(b, "Unrecognized Mnemonic")
      ELSE DoData(c, Joined(name), x)

-----------------------------------------------------------------------------
Init == LineInit /\ s = [Globals(Symbols) EXCEPT !.Pass = 2]

(* A line that is not a comment is processed.                              *)
MakeLine ==
  /\ ReadLine
  /\ LET a == [s EXCEPT !.Line_num = @ + 1]
     IN  s' = IF Line'[0] \in CommentStart \/ Char(Op', 1) = ";" THEN a
              ELSE Process(a, Label', Op', Operand')

MakeFile == NextFile /\ s' = FRecord(s)

Next == MakeLine \/ MakeFile

Spec == Init /\ [][Next]_vars
-----------------------------------------------------------------------------
(* The bytes of the constants are those that the text stands for, though   *)
(* '%', '*' and '-' are each two things.                                   *)
DataAsWritten ==
  program.means # {} /\ rest = <<>> /\ file = Len(program.files) =>
    [i \in DOMAIN s.emitted |-> s.emitted[i].byte] \in program.means
=============================================================================
