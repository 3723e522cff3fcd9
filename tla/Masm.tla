-------------------------------- MODULE Masm --------------------------------
(***************************************************************************)
(* masm, the two-pass assemblers as0, as1, as4, as5, as9 and as11: as.c and*)
(* pseudo.c over MasmState, with the do_op of each processor.  An action is*)
(* a line of the source, and does all that make_pass does with it.         *)
(* Pass 1 finds the values of the labels; a symbol that is not known yet is*)
(* a forward reference, takes two bytes, and is marked in a file, so that  *)
(* pass 2, where the symbol is known, gives it the same two bytes.         *)
(* A line is a record of its label ("" for none), op (its class in as.h, or*)
(* its pseudo op; "" for none, "*" for a comment, ";" for a comment in the *)
(* place of the op, "?" for an unknown one), opcode, addressing mode, and  *)
(* operand: expressions, registers, index and text (of fcc; "OPEN" when the*)
(* delimiter is missing).  The listing and the formats of the output are   *)
(* left out.                                                               *)
(***************************************************************************)
EXTENDS Do0, Do4, Do5, Do9, Do11, Meaning

CONSTANTS
  Text,        \* the lines that programs are made of, a sequence
  Programs     \* the programs: a processor, and files, each a sequence of places in Text

(* The classes in the table of mnemonics of a processor, and the modes its *)
(* instructions have.                                                      *)
Classes(cpu) ==
  CASE cpu \in {"0", "1"} -> {"INH", "GEN", "REL", "NOIMM", "LONGIMM", "GRP2"}
    [] cpu = "4"  -> {"INH", "GEN", "REL", "NOIMM", "APOST", "BPM", "CLRX", "CLRY", "LDX", "LDY", "MVI", "EXT",
                      "BTB", "SETCLR"}
    [] cpu = "5"  -> {"INH", "GEN", "REL", "NOIMM", "GRP2", "BTB", "SETCLR"}
    [] cpu = "9"  -> {"INH", "GEN", "IMM", "REL", "P2REL", "P1REL", "NOIMM", "P2GEN", "P3GEN", "RTOR", "INDEXED",
                      "RLIST", "P2NOIMM", "P2INH", "P3INH", "GRP2", "LONGIMM", "SYS"}
    [] cpu = "11" -> {"INH", "GEN", "REL", "NOIMM", "LONGIMM", "GRP2", "P2INH", "BTB", "SETCLR", "CPD", "XLIMM",
                      "XNOIMM", "YLIMM", "YNOIMM"}

Modes(cpu) ==
  CASE cpu = "9"  -> {"IMMED", "IND", "INDIR", "OTHER"}
    [] cpu = "11" -> {"IMMED", "INDX", "INDY", "OTHER"}
    [] OTHER      -> {"IMMED", "IND", "OTHER"}

Counting == {"RMB", "ZMB", "FILL", "ORG", "EQU"}
Pseudos == Counting \cup {"FCB", "FDB", "FCC", "OPT", "NULL_OP"}

(* How many expressions are read.                                          *)
Operands(op) ==
  CASE op = "BTB" -> 3
    [] op \in {"SETCLR", "MVI", "FILL"} -> 2
    [] op \in {"GEN", "IMM", "REL", "P2REL", "P1REL", "NOIMM", "P2GEN", "P3GEN", "INDEXED", "P2NOIMM", "GRP2", "LONGIMM",
               "CPD", "XLIMM", "XNOIMM", "YLIMM", "YNOIMM", "BPM", "LDX", "LDY", "EXT", "SYS", "RMB", "ZMB", "ORG", "EQU"} -> 1
    [] OTHER -> 0

(* No operand counts less than nothing: while(Result--) would not end.     *)
IsLine(cpu, l) ==
  /\ l.label \in STRING /\ l.code \in Nat
  /\ l.op \in {"", "*", ";", "?"} \cup Pseudos \cup Classes(cpu)
  /\ l.op \in Classes(cpu) => l.mode \in Modes(cpu)
  /\ l.args \in Seq(Expressions) /\ Operands(l.op) <= Len(l.args)
  /\ l.op \in Counting => \A e \in Range(l.args) : \A t \in Range(e.terms) : t.op = "+" /\ t.num \in Nat
  /\ l.op = "FCC" => l.text \in Seq(Nat)
  /\ l.op = "RTOR" => Len(l.regs) = 2
  /\ cpu = "9" => l.index \in [acc : {"", "A", "B", "D"}, reg : STRING, dec : Nat, inc : Nat, indirect : BOOLEAN]

ASSUME MasmAssumption ==
  \A p \in Programs :
    /\ p.cpu \in {"0", "1", "4", "5", "9", "11"}
    /\ p.files \in Seq(Seq(DOMAIN Text)) /\ p.files # <<>>
    /\ \A f \in Range(p.files) : \A i \in Range(f) : IsLine(p.cpu, Text[i])

VARIABLES
  prog,        \* the program being assembled
  line,        \* the place in the current file
  s,           \* the global variables of the assembler, a record
  starts,      \* history: Pc at the start of each line of each pass
  done         \* main is at its exit

vars == <<prog, line, s, starts, done>>

LocalInit(cpu) == IF cpu = "4" THEN LocalInit4 ELSE <<>>

Init ==
  /\ prog \in Programs
  /\ line = 1
  /\ s = Globals(LocalInit(prog.cpu))
  /\ starts = << <<>>, <<>> >>
  /\ done = FALSE

DoOp(cpu, a, l) ==
  CASE cpu = "0"  -> DoOp0(a, l)
    [] cpu = "1"  -> DoOp1(a, l)
    [] cpu = "4"  -> DoOp4(a, l)
    [] cpu = "5"  -> DoOp5(a, l)
    [] cpu = "9"  -> DoOp9(a, l)
    [] cpu = "11" -> DoOp11(a, l)

-----------------------------------------------------------------------------
(* pseudo.c, once the label is installed                                   *)

(* Mutant: the bytes held are not flushed.                                 *)
OrgHolding(a, e) ==
  LET b == Eval(a, e) IN [b EXCEPT !.Pc = b.Result, !.Old_pc = b.Result]

Org(a, e) ==
  LET b == Eval(a, e) IN FRecord([b EXCEPT !.Pc = b.Result, !.Old_pc = b.Result])

Equ(a, name, e) ==
  IF name = "" THEN Error(a, "EQU requires label")
  ELSE LET b == Eval(a, e) IN [Install(b, name, b.Result) EXCEPT !.Old_pc = b.Result]

Fill(a, byte, e) ==
  LET b == Eval(a, e) IN EmitAll(b, [i \in 1 .. b.Result |-> byte])

DoPseudo(a, l, name) ==
  CASE l.op = "RMB"     -> LET b == Eval(a, l.args[1]) IN FRecord([b EXCEPT !.Pc = @ + b.Result])
    [] l.op = "ZMB"     -> Fill(a, 0, l.args[1])
    [] l.op = "FILL"    -> LET b == Eval(a, l.args[1]) IN Fill(b, b.Result, l.args[2])
    [] l.op = "FCB"     -> FoldLeft(EvalByte, a, l.args)
    [] l.op = "FDB"     -> FoldLeft(EvalWord, a, l.args)
    [] l.op = "ORG"     -> Org(a, l.args[1])
    [] l.op = "EQU"     -> Equ(a, name, l.args[1])
    [] l.op = "FCC"     -> LET b == EmitAll(a, l.text) IN IF l.mode = "OPEN" THEN Error(b, "Missing Delimiter") ELSE b
    [] l.op \in {"OPT", "NULL_OP"} -> a

-----------------------------------------------------------------------------
(* as.c                                                                    *)

(* An unknown mnemonic takes its label along.                              *)
Process(cpu, a, l, name) ==
  LET b == [a EXCEPT !.Old_pc = a.Pc]
      c == IF name # "" /\ l.op \notin {"EQU", "?"} THEN Install(b, name, b.Pc) ELSE b
  IN  CASE l.op = ""           -> c
        [] l.op = "?"          -> Error(c, "Unrecognized Mnemonic")
        [] l.op \in Pseudos    -> DoPseudo(c, l, name)
        [] OTHER               -> DoOp(cpu, c, l)

(* parse_line.  The label held from an earlier line replaces this line's.  *)
ParseLine(cpu, a, l) ==
  LET name == IF a.hold # "" THEN a.hold ELSE l.label
  IN  CASE l.op = "*" -> a
        [] l.op = ";" -> [a EXCEPT !.hold = name]
        [] OTHER      -> Process(cpu, [a EXCEPT !.hold = ""], l, name)

ReadLine ==
  /\ ~ done
  /\ s.Cfn <= Len(prog.files) /\ line <= Len(prog.files[s.Cfn])
  /\ s' = ParseLine(prog.cpu, [s EXCEPT !.Line_num = @ + 1], Text[prog.files[s.Cfn][line]])
  /\ line' = line + 1
  /\ starts' = [starts EXCEPT ![s.Pass] = Append(@, s.Pc)]
  /\ UNCHANGED <<prog, done>>

EndOfFile ==
  /\ ~ done
  /\ s.Cfn <= Len(prog.files) /\ line > Len(prog.files[s.Cfn])
  /\ s' = [FRecord(s) EXCEPT !.Cfn = @ + 1]
  /\ line' = 1
  /\ UNCHANGED <<prog, starts, done>>

(* Pass++ and re_init.  Old_pc, E_pc and hold stay as pass 1 left them.    *)
SecondPass ==
  /\ ~ done
  /\ s.Cfn > Len(prog.files) /\ s.Pass = 1 /\ s.errors = {}
  /\ s' = FwdNext([s EXCEPT !.Pass = 2, !.Cfn = 1, !.Line_num = 0, !.Pc = 0, !.E_bytes = <<>>])
  /\ UNCHANGED <<prog, line, starts, done>>

Exit ==
  /\ ~ done
  /\ s.Cfn > Len(prog.files) /\ (s.Pass = 2 \/ s.errors # {})
  /\ done' = TRUE
  /\ UNCHANGED <<prog, line, s, starts>>

Next == ReadLine \/ EndOfFile \/ SecondPass \/ Exit

Spec == Init /\ [][Next]_vars
-----------------------------------------------------------------------------
Lines == LET places == FlattenSeq(prog.files) IN [i \in DOMAIN places |-> Text[places[i]]]

(* Type invariant.  A record never holds E_LIMIT bytes between two lines.  *)
TypeOK ==
  /\ s.Pass \in {1, 2} /\ s.Cfn \in 1 .. Len(prog.files) + 1 /\ s.Line_num \in 0 .. Len(Lines)
  /\ line \in 1 .. Len(Lines) + 1
  /\ {s.Pc, s.Old_pc, s.E_pc} \subseteq Nat /\ s.Result \in Int
  /\ \A name \in DOMAIN s.root : name # "" /\ s.root[name] \in Nat
  /\ Len(s.E_bytes) < E_LIMIT
  /\ \A r \in Range(s.obj) : Len(r.bytes) \in 1 .. E_LIMIT

(* The bytes written and still held, each with its address of 16 bits.     *)
Placed(addr, bytes) == [i \in DOMAIN bytes |-> <<Short(addr + i - 1), bytes[i]>>]

(* The records, with the one being collected, hold the bytes that were     *)
(* emitted, in order, each at the address Pc had then, whatever org, rmb,  *)
(* the length of a record and the end of a file did in between.            *)
RecordsHoldTheBytes ==
  FlattenSeq([k \in DOMAIN s.obj |-> Placed(s.obj[k].addr, s.obj[k].bytes)]) \o Placed(s.E_pc, s.E_bytes)
    = [k \in DOMAIN s.emitted |-> <<Short(s.emitted[k].addr), s.emitted[k].byte>>]

(* Errors that do not keep a byte from being emitted.                      *)
Harmless ==
  {"Phasing Error", "symbol Undefined on pass 2", "Illegal Register for Indexed"}
  \cup IF prog.cpu = "4" THEN {} ELSE {"Branch out of Range"}

(* In pass 2, until an error leaves operands out, every mark has been read *)
(* when its line is done and no later one before its line: the file of     *)
(* marks stays in step with the source.                                    *)
MarksInStep ==
  s.Pass = 2 /\ (\A e \in s.errors : e[2] \in Harmless) =>
    /\ \A m \in Range(s.Forward) \cup ({s.F_ref} \ {<<0, 0>>}) : m[2] > s.Line_num
    /\ done => s.F_ref = <<0, 0>>

(* An operand of l that is known moves the code by its value.              *)
SizedByValue(l) ==
  \/ l.op \in Counting \ {"EQU"}
  \/ prog.cpu = "4" /\ l.mode = "OTHER" /\ l.code \in {224, 225, 230, 231}

(* When no operand that moves the code is a forward reference, every line  *)
(* of pass 2 up to an error that leaves bytes out starts where it did in   *)
(* pass 1.                                                                 *)
InPhase ==
  (\A i \in s.ahead : ~ SizedByValue(Lines[i])) =>
    \A i \in DOMAIN starts[2] :
      (\A e \in s.errors : e[1] < i => e[2] \in Harmless) => starts[2][i] = starts[1][i]

(* Expression e of a line at address at, with every label known.           *)
Value(e, at) ==
  FoldLeft(LAMBDA left, t : Connect(t.op, left, CASE t.sym = ""  -> t.num
                                                  [] t.sym = "*" -> at
                                                  [] OTHER       -> s.root[t.sym]), 0, e.terms)

(* Whether line i comes after a label that parse_line holds for it; the    *)
(* first line of pass 2 comes after the last one of pass 1.                *)
AfterHeld(i) ==
  LET read == Lines \o Lines
      last == i + Len(Lines) - 1
  IN  \E j \in 1 .. last : /\ read[j].op = ";" /\ read[j].label # ""
                          /\ \A k \in j + 1 .. last : read[k].op \in {"*", ";"}

(* A program assembled without an error is right: every label is the       *)
(* address of its line, or the value it was equated to, and the processor  *)
(* finds in every operand the value of its expression.                     *)
SaysWhatItMeans ==
  done /\ s.errors = {} =>
    \A i \in DOMAIN Lines :
      LET l   == Lines[i]
          at  == starts[2][i]
          own == SelectSeq(s.emitted, LAMBDA b : b.line = i)
      IN  /\ Means(prog.cpu, l, at, [k \in DOMAIN own |-> own[k].byte],
                   [k \in DOMAIN l.args |-> Value(l.args[k], at)])
          /\ l.label # "" /\ l.op \notin {"*", ";"} /\ ~ AfterHeld(i) =>
               s.root[l.label] = IF l.op = "EQU" THEN Value(l.args[1], at) ELSE at

(* masm/README 258-262: a label on a line by itself, on no other line, is  *)
(* the address there.                                                      *)
LabelAlone ==
  done /\ s.errors = {} =>
    \A i \in DOMAIN Lines :
      /\ Lines[i].op \in {"", ";"} /\ Lines[i].label \in DOMAIN s.root
      /\ \A k \in DOMAIN Lines \ {i} : Lines[k].label # Lines[i].label
      => s.root[Lines[i].label] = starts[2][i]
=============================================================================
