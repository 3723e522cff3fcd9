------------------------------- MODULE MCMasm -------------------------------
(***************************************************************************)
(* Model checking instance of Masm.  For the 68HC11, programs of up to     *)
(* three lines of a list that has each way a line can move the code or     *)
(* refer ahead, and longer ones of the lines that matter together; for the *)
(* other processors, programs of a frame line, an instruction and a third  *)
(* line, so that each class and mode meets operands known and unknown, on  *)
(* both sides of the bounds of its sizes.                                  *)
(***************************************************************************)
EXTENDS Masm

Num(n) == [op |-> "+", sym |-> "", num |-> n]
Sym(n) == [op |-> "+", sym |-> n, num |-> 0]
By(o, n) == [op |-> o, sym |-> "", num |-> n]
Ex(f, ts) == [force |-> f, terms |-> ts]
N(n) == Ex("", <<Num(n)>>)
Index(acc, reg, dec, inc, ind) == [acc |-> acc, reg |-> reg, dec |-> dec, inc |-> inc, indirect |-> ind]
L(name, o, c, m, as) ==
  [label |-> name, op |-> o, code |-> c, mode |-> m, args |-> as,
   regs |-> <<>>, text |-> <<>>, index |-> Index("", "X", 0, 0, FALSE)]
Reg(o, c, rs) == [L("", o, c, "OTHER", <<>>) EXCEPT !.regs = rs]
Ix(c, e, i) == [L("", "GEN", c, "IND", <<e>>) EXCEPT !.index = i]
Chars(m, t) == [L("", "FCC", 0, m, <<>>) EXCEPT !.text = t]

A == Ex("", <<Sym("a")>>)
B == Ex("", <<Sym("b")>>)

Core == {
  L("a", "",    0,   "OTHER", <<>>),                              \* a
  L("b", "INH", 1,   "OTHER", <<>>),                              \* b  nop
  L("",  "GEN", 134, "OTHER", <<B>>),                             \*    ldaa b
  L("a", "GEN", 134, "OTHER", <<Ex("", <<Sym("a"), Sym("b")>>)>>), \* a  ldaa a+b
  L("",  "REL", 32,  "OTHER", <<A>>),                             \*    bra a
  L("",  "ORG", 0,   "OTHER", <<N(254)>>),                        \*    org 254
  L("b", "EQU", 0,   "OTHER", <<A>>),                             \* b  equ a
  L("",  "RMB", 0,   "OTHER", <<B>>),                             \*    rmb b
  L("a", "EQU", 0,   "OTHER", <<N(3)>>) }                         \* a  equ 3

Others == {
  L("a", ";",    0,   "OTHER", <<>>),                             \* a  ; held
  L("b", ";",    0,   "OTHER", <<>>),                             \* b  ; held
  L("a", "*",    0,   "OTHER", <<>>),                             \* * comment
  L("a", "?",    0,   "OTHER", <<>>),                             \* a  typo
  L("a", "GEN",  134, "OTHER", <<Ex("<", <<Sym("b")>>)>>),        \* a  ldaa <b
  L("",  "GEN",  134, "OTHER", <<Ex(">", <<Sym("a")>>)>>),        \*    ldaa >a
  L("",  "GEN",  134, "OTHER", <<Ex("", <<Sym("b"), By("-", 7), By("/", 2), By("*", 3), By("%", 5)>>)>>),
  L("",  "FDB",  0,   "OTHER", <<A, B>>),                         \*    fdb a,b
  L("b", "FCB",  0,   "OTHER", <<B, A, B>>),                      \* b  fcb b,a,b
  L("",  "BTB",  31,  "INDY",  <<A, B, A>>),                      \*    brclr a,y b a
  L("",  "SETCLR", 29, "OTHER", <<A, B>>),                        \*    bclr a b
  L("a", "CPD",  131, "IMMED", <<B>>),                            \* a  cpd #b
  L("",  "YLIMM", 206, "INDX", <<B>>),                            \*    ldy b,x
  L("",  "XNOIMM", 207, "IMMED", <<B>>),                          \*    stx #b
  L("b", "GRP2", 111, "OTHER", <<A>>),                            \* b  clr a
  L("",  "P2INH", 58, "OTHER", <<>>),                             \*    aby
  L("",  "ZMB",  0,   "OTHER", <<A>>),                            \*    zmb a
  L("",  "FILL", 0,   "OTHER", <<B, N(3)>>),                      \*    fill b,3
  L("b", "NULL_OP", 0, "OTHER", <<>>),                            \* b  page0
  L("",  "OPT",  0,   "OTHER", <<>>),                             \*    opt l
  Chars("OTHER", <<65, 66>>), Chars("OPEN", <<65>>), Chars("OTHER", <<>>),   \* fcc
  L("",  "EQU",  0,   "OTHER", <<A>>),                            \*    equ a
  L("a", "EQU",  0,   "OTHER", <<Ex("", <<Sym("*")>>)>>) }        \* a  equ *

-----------------------------------------------------------------------------
(* p is before the instruction or not at all, q after it or not at all; the*)
(* 6804 knows a from the start.                                            *)
Frame == {
  L("p", "INH", 1,   "OTHER", <<>>),
  L("q", "FDB", 0,   "OTHER", <<Ex("", <<Sym("q"), Num(4)>>)>>),
  L("p", "EQU", 0,   "OTHER", <<N(3)>>),
  L("p", "EQU", 0,   "OTHER", <<N(129)>>),
  L("q", "EQU", 0,   "OTHER", <<N(128)>>),
  L("p", "EQU", 0,   "OTHER", <<N(300)>>),
  L("a", "ORG", 0,   "OTHER", <<N(250)>>) }

P == Ex("", <<Sym("p")>>)
Q == Ex("", <<Sym("q")>>)
Low == Ex("<", <<Sym("p")>>)
High == Ex(">", <<Sym("q")>>)
Minus == Ex("", <<Sym("p"), By("-", 9)>>)
Exs == {P, Q, Low, High, Minus}

Same ==
  { L("q", "REL", 32, "OTHER", <<P>>), L("", "REL", 32, "OTHER", <<Q>>),
    L("", "NOIMM", 135, "IMMED", <<P>>), L("", "GEN", 134, "IMMED", <<Q>>) }

Lines0 == Same \cup { L("", "GEN", 134, m, <<e>>) : m \in {"IND", "OTHER"}, e \in Exs }
          \cup { L("", "LONGIMM", 142, "IMMED", <<P>>), L("", "LONGIMM", 142, "OTHER", <<Q>>),
                 L("", "GRP2", 96, "IND", <<P>>), L("", "GRP2", 96, "OTHER", <<P>>) }

Lines5 == Same \cup { L("", "GEN", 134, m, <<e>>) : m \in {"IND", "OTHER"}, e \in Exs }
          \cup { L("", "GRP2", 48, m, <<e>>) : m \in {"IND", "OTHER"}, e \in Exs }
          \cup { L("", "BTB", 0, "OTHER", <<P, N(9), Q>>), L("", "SETCLR", 16, "OTHER", <<Q, P>>),
                 L("", "BTB", 0, "OTHER", <<N(7), P, P>>), L("", "GEN", 134, "IND", <<N(0)>>) }

Lines4 == Same \cup { L("", "GEN", c, "OTHER", <<e>>) : c \in {230, 224, 226}, e \in Exs }
          \cup { L("", "GEN", 231, "OTHER", <<P>>), L("", "GEN", 225, "OTHER", <<P>>),
                 L("", "GEN", 224, "IND", <<P>>), L("", "GEN", 224, "IND", <<Q>>),
                 L("", "NOIMM", 225, "OTHER", <<Ex("", <<Sym("a")>>)>>),
                 L("", "BTB", 192, "OTHER", <<P, N(9), Q>>), L("", "SETCLR", 208, "OTHER", <<Q, P>>),
                 L("", "BTB", 192, "OTHER", <<N(7), P, P>>),
                 L("", "EXT", 144, "OTHER", <<Q>>), L("", "EXT", 144, "OTHER", <<P>>),
                 L("", "BPM", 199, "OTHER", <<P>>), L("", "BPM", 199, "OTHER", <<Q>>),
                 L("", "APOST", 251, "OTHER", <<>>), L("", "MVI", 176, "OTHER", <<Q, P>>),
                 L("", "CLRX", 176, "OTHER", <<>>), L("", "CLRY", 176, "OTHER", <<>>),
                 L("", "LDX", 176, "IMMED", <<P>>), L("", "LDY", 176, "IMMED", <<Q>>) }

Offsets9 ==
  { Ix(134, e, Index("", r, 0, 0, i)) : e \in Exs, r \in {"Y", "PC", "PCR"}, i \in BOOLEAN }
  \cup { Ix(134, N(n), Index("", "S", 0, 0, i)) : n \in {-17, -16, 15, 16, 127, 128}, i \in BOOLEAN }

Autos9 ==
  { Ix(134, N(0), Index("", "U", d, n, i)) : d \in 0 .. 3, n \in 0 .. 3, i \in BOOLEAN }
  \cup { Ix(134, Q, Index("", r, 0, 1, FALSE)) : r \in {"PC", "S", "?"} }

Registers9 ==
  { Ix(134, N(0), Index(c, r, 0, 0, i)) : c \in {"A", "B", "D"}, r \in {"X", "S", "?"}, i \in BOOLEAN }
  \cup { Reg("RTOR", 31, <<r, t>>) : r \in {"D", "A", "PCR", "?"}, t \in {"X", "CC", "PCR"} }
  \cup { Reg("RLIST", c, rs) : c \in {52, 53, 54, 55}, rs \in {<<"S">>, <<"U", "A">>, <<"D", "B", "PC">>, <<>>} }

Lines9 == Same
  \cup { L("", "GEN", 134, m, <<e>>) : m \in {"OTHER", "INDIR"}, e \in Exs }
  \cup { L("", "GRP2", 0, m, <<e>>) : m \in {"OTHER", "IND", "INDIR"}, e \in {P, Q} }
  \cup { L("", o, 142, m, <<Q>>) : o \in {"P2GEN", "P3GEN", "LONGIMM"}, m \in {"IMMED", "OTHER", "IND"} }
  \cup { L("", o, 26, m, <<P>>) : o \in {"IMM", "INDEXED", "P2NOIMM"}, m \in {"IMMED", "OTHER", "IND"} }
  \cup { L("", o, 33, "OTHER", <<e>>) : o \in {"P1REL", "P2REL", "SYS"}, e \in {P, Q} }
  \cup { L("", o, 63, "OTHER", <<>>) : o \in {"P2INH", "P3INH"} }

-----------------------------------------------------------------------------
Listed(set) ==
  LET list[rest \in SUBSET set] ==
        IF rest = {} THEN <<>> ELSE LET x == CHOOSE y \in rest : TRUE IN <<x>> \o list[rest \ {x}]
  IN  list[set]

Table ==
  Listed(Core) \o Listed(Others) \o Listed(Frame) \o Listed(Lines0) \o Listed(Lines4) \o Listed(Lines5)
  \o Listed(Lines9) \o Listed(Offsets9) \o Listed(Autos9) \o Listed(Registers9)

MCText == Table

Parts == <<Core, Others, Frame, Lines0, Lines4, Lines5, Lines9, Offsets9, Autos9, Registers9>>

First == LET first[k \in 1 .. 11] == IF k = 1 THEN 1 ELSE first[k - 1] + Cardinality(Parts[k - 1]) IN first

(* The places of the parts k to m.                                         *)
Places(k, m) == First[k] .. First[m + 1] - 1

core == Places(1, 1)
one == Places(1, 2)
frame == Places(3, 3)
lines0 == Places(4, 4)
lines4 == Places(5, 5)
lines5 == Places(6, 6)
lines9 == Places(7, 10)

Programs11 ==
  { <<f>> : f \in UNION { [1 .. n -> one] : n \in 1 .. 2 } \cup [1 .. 4 -> core] }
  \cup { <<<<x, y, z>>>> : x \in one, y \in one, z \in one }
  \cup { <<<<x>>, <<y>>>> : x \in one, y \in one }

Framed(places, third) == { <<<<f, x, y>>>> : f \in frame, x \in places, y \in third }

Sources(cpu, files) == [cpu : {cpu}, files : files]

AllPrograms ==
  Sources("11", Programs11)
  \cup Sources("0", Framed(lines0, frame \cup lines0)) \cup Sources("1", Framed(lines0, frame))
  \cup Sources("4", Framed(lines4, frame \cup lines4))
  \cup Sources("5", Framed(lines5, frame \cup lines5))
  \cup Sources("9", Framed(lines9, frame \cup Places(7, 7)))

MCPrograms == AllPrograms

Pairs == Sources("11", { <<<<x, y>>>> : x \in one, y \in one })
=============================================================================
