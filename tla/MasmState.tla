------------------------------ MODULE MasmState ------------------------------
(***************************************************************************)
(* What the six assemblers of masm/ have in common below the line: the     *)
(* global variables of as.h as a record, the output of util.c, the marks of*)
(* ffwd.c, the symbol table of symtab.c and the expressions of eval.c.     *)
(* Every operator takes the globals and gives them as the code leaves them.*)
(* An expression is a sequence of terms after an optional "<" or ">", a    *)
(* term its connector, and a symbol, "*" or a number.                      *)
(***************************************************************************)
EXTENDS Integers, Sequences, SequencesExt, FiniteSets, TLC

CONSTANT E_LIMIT     \* the bytes of a record

ASSUME LimitAssumption == E_LIMIT \in Nat \ {0}

Connectors == {"+", "-", "*", "/", "%"}

(* Division by a symbol not known yet ends the assembler: divisors are     *)
(* numbers.                                                                *)
Terms == {t \in [op : Connectors, sym : STRING, num : Int] : t.op \in {"/", "%"} => t.sym = "" /\ t.num # 0}

Expressions == [force : {"", "<", ">"}, terms : Seq(Terms)]

(* The globals, by their names in the code; Forward is what is left to read*)
(* of the file of marks, root the symbol table as a function, hold the     *)
(* label parse_line keeps for a later line, obj the records written.       *)
(* History: errors, with their lines; ahead, the lines that were marked;   *)
(* emitted, the bytes of pass 2 with line and address.                     *)
Globals(symbols) ==
  [Pass |-> 1, Cfn |-> 1, Line_num |-> 0, Pc |-> 0, Old_pc |-> 0,
   Result |-> 0, Force_word |-> FALSE, Force_byte |-> FALSE,
   root |-> symbols, Forward |-> <<>>, F_ref |-> <<0, 0>>, hold |-> "",
   E_pc |-> 0, E_bytes |-> <<>>, obj |-> <<>>,
   errors |-> {}, ahead |-> {}, emitted |-> <<>>]

Here(a) == <<a.Cfn, a.Line_num>>

Error(a, what) == [a EXCEPT !.errors = @ \cup {<<a.Line_num, what>>}]

-----------------------------------------------------------------------------
(* util.c, output                                                          *)

(* Addresses are written with sixteen bits.                                *)
Short(n) == n % 65536

FRecord(a) ==
  IF a.Pass = 1 THEN a
  ELSE [a EXCEPT !.E_pc = a.Pc,
                 !.E_bytes = <<>>,
                 !.obj = IF a.E_bytes = <<>> THEN @
                         ELSE Append(@, [addr |-> Short(a.E_pc), bytes |-> a.E_bytes])]

(* Mutant: a record is only ended by what ends it elsewhere.               *)
EmitNoLimit(a, byte) ==
  IF a.Pass = 1 THEN [a EXCEPT !.Pc = @ + 1]
  ELSE [a EXCEPT !.Pc = @ + 1,
                 !.E_bytes = Append(@, byte % 256),
                 !.emitted = Append(@, [line |-> a.Line_num, addr |-> a.Pc, byte |-> byte % 256])]

(* lobyte is applied when the record is written.                           *)
Emit(a, byte) ==
  IF a.Pass = 1 THEN [a EXCEPT !.Pc = @ + 1]
  ELSE LET b == [a EXCEPT !.Pc = @ + 1,
                          !.E_bytes = Append(@, byte % 256),
                          !.emitted = Append(@, [line |-> a.Line_num, addr |-> a.Pc, byte |-> byte % 256])]
       IN  IF Len(b.E_bytes) = E_LIMIT THEN FRecord(b) ELSE b

EmitAll(a, bytes) == FoldLeft(Emit, a, bytes)

Word(n) == <<(n \div 256) % 256, n % 256>>

-----------------------------------------------------------------------------
(* ffwd.c and symtab.c                                                     *)

FwdNext(a) ==
  [a EXCEPT !.F_ref   = IF a.Forward = <<>> THEN <<0, 0>> ELSE Head(a.Forward),
            !.Forward = IF a.Forward = <<>> THEN <<>> ELSE Tail(a.Forward)]

(* What lookup adds when pass 2 does not find a name.                      *)
Lookup(a, name) ==
  IF a.Pass = 2 /\ name \notin DOMAIN a.root THEN Error(a, "symbol Undefined on pass 2") ELSE a

(* The table with the value of a name.                                     *)
Known(root, name, val) == [n \in DOMAIN root \cup {name} |-> IF n = name THEN val ELSE root[n]]

(* Mutant: pass 2 takes the value of pass 1 without comparing.             *)
InstallTrusting(a, name, val) ==
  IF name \notin DOMAIN a.root
  THEN [Lookup(a, name) EXCEPT !.root = Known(@, name, val)]
  ELSE IF a.Pass = 1 THEN Error(a, "Symbol Redefined") ELSE a

Install(a, name, val) ==
  IF name \notin DOMAIN a.root
  THEN [Lookup(a, name) EXCEPT !.root = Known(@, name, val)]
  ELSE IF a.Pass = 1 THEN Error(a, "Symbol Redefined")
  ELSE IF a.root[name] # val THEN Error(a, "Phasing Error")
  ELSE a

-----------------------------------------------------------------------------
(* eval.c                                                                  *)

Marked(a) == a.Pass = 2 /\ a.F_ref = Here(a)

(* Mutant: pass 2 knows the symbol, and sizes it by its value.             *)
SymbolBySize(a, name) ==
  LET b == IF a.Pass = 1 /\ name \notin DOMAIN a.root
           THEN [a EXCEPT !.Forward = Append(@, Here(a)),
                          !.ahead = @ \cup {a.Line_num},
                          !.Force_word = @ \/ ~ a.Force_byte]
           ELSE Lookup(a, name)
  IN  IF Marked(a) THEN FwdNext(b) ELSE b

(* Mutant: fwdnext belongs to the if that tests Force_byte.                *)
SymbolNextInIf(a, name) ==
  LET b == IF a.Pass = 1 /\ name \notin DOMAIN a.root
           THEN [a EXCEPT !.Forward = Append(@, Here(a)),
                          !.ahead = @ \cup {a.Line_num},
                          !.Force_word = @ \/ ~ a.Force_byte]
           ELSE Lookup(a, name)
  IN  IF Marked(a) /\ ~ a.Force_byte THEN FwdNext([b EXCEPT !.Force_word = TRUE]) ELSE b

(* What a symbol in an expression does besides its value.                  *)
Symbol(a, name) ==
  LET b == IF a.Pass = 1 /\ name \notin DOMAIN a.root
           THEN [a EXCEPT !.Forward = Append(@, Here(a)),
                          !.ahead = @ \cup {a.Line_num},
                          !.Force_word = @ \/ ~ a.Force_byte]
           ELSE Lookup(a, name)
  IN  IF Marked(a) THEN FwdNext([b EXCEPT !.Force_word = @ \/ ~ a.Force_byte]) ELSE b

Magnitude(n) == IF n < 0 THEN - n ELSE n

(* C divides towards zero.                                                 *)
Quotient(x, y) ==
  LET q == Magnitude(x) \div Magnitude(y) IN IF (x < 0) = (y < 0) THEN q ELSE - q

Connect(op, left, right) ==
  CASE op = "+" -> left + right
    [] op = "-" -> left - right
    [] op = "*" -> left * right
    [] op = "/" -> Quotient(left, right)
    [] op = "%" -> left - (right * Quotient(left, right))

TermValue(a, t) ==
  CASE t.sym = ""  -> t.num
    [] t.sym = "*" -> a.Old_pc
    [] OTHER       -> IF t.sym \in DOMAIN a.root THEN a.root[t.sym] ELSE 0

GetTerm(a, t) ==
  [IF t.sym \in {"", "*"} THEN a ELSE Symbol(a, t.sym)
     EXCEPT !.Result = Connect(t.op, @, TermValue(a, t))]

Eval(a, e) ==
  FoldLeft(GetTerm,
           [a EXCEPT !.Result = 0, !.Force_byte = e.force = "<", !.Force_word = e.force = ">"],
           e.terms)

EvalByte(a, e) == LET b == Eval(a, e) IN Emit(b, b.Result)
EvalWord(a, e) == LET b == Eval(a, e) IN EmitAll(b, Word(b.Result))

-----------------------------------------------------------------------------
(* What the files do0.c to do11.c have in common                           *)

Wide(a) == a.Force_word \/ (~ a.Force_byte /\ a.Result \notin 0 .. 255)

(* The opcode and a byte, or the opcode and a word.                        *)
Address(a, e, direct, extended) ==
  LET b == Eval(a, e)
  IN  EmitAll(b, IF Wide(b) THEN <<extended>> \o Word(b.Result) ELSE <<direct, b.Result>>)

InByte(n) == n \in -128 .. 127

(* The last byte of a branch.  Out of range, it branches to itself.        *)
Displacement(a, e) ==
  LET b    == Eval(a, e)
      dist == b.Result - (b.Pc + 1)
  IN  IF ~ InByte(dist) /\ b.Pass = 2
      THEN Emit(Error(b, "Branch out of Range"), b.Old_pc - (b.Pc + 1))
      ELSE Emit(b, dist)

NoImmediate(a) == Error(a, "Immediate Addressing Illegal")
=============================================================================
