------------------------------ MODULE MasmLine ------------------------------
(***************************************************************************)
(* How masm reads a source line: as.c takes it into a buffer that it uses  *)
(* again for every line and splits it into label, mnemonic and operand,    *)
(* symtab.c finds the mnemonic.  A text is a sequence of characters, a     *)
(* character a string of length one; EOS, which C puts after a string, is  *)
(* the empty one.  An action is a line.                                    *)
(* Labels and mnemonics are taken to fit in Label and Op, which the code   *)
(* does not verify.                                                        *)
(***************************************************************************)
EXTENDS Integers, Sequences, FiniteSetsExt, Functions, TLC

CONSTANTS
  Table,       \* the mnemonics of the processor, in the order of their characters
  Pseudo,      \* those of the pseudo ops
  Programs     \* of each: the texts of its files, the size of Line

VARIABLES
  program,     \* Argv
  file,        \* Cfn
  rest,        \* what is left to read of the file
  Line,
  Label, Op, Operand,
  cont_prev, hold_lbl,
  last,        \* the place in Line where parse_line stopped
  found        \* what mne_look found: a place in Table followed by Pseudo, or 0

fields == <<Label, Op, Operand>>
lineVars == <<program, file, rest, Line, Label, Op, Operand, cont_prev, hold_lbl, last, found>>

NEWLINE == "\n"
EOS     == ""
White   == {" ", "\t"}
Delim   == White \cup {NEWLINE}

Char(x, i) == IF i \in 1 .. Len(x) THEN x[i] ELSE EOS

-----------------------------------------------------------------------------
(* util.c, characters                                                      *)

Spelled(str) == [i \in 1 .. Len(str) |-> SubSeq(str, i, i)]
Chars(str)   == Range(Spelled(str))

Letters  == Spelled("abcdefghijklmnopqrstuvwxyz{|}~")
Upwards  == Spelled(" !\"#$%&'()*+,-./0123456789:;<=>?@ABCDEFGHIJKLMNOPQRSTUVWXYZ[\\]^_")
Capitals == Chars("ABCDEFGHIJKLMNOPQRSTUVWXYZ")

(* ASCII, without the controls that no source has, and the backquote.      *)
Place(chars, c) == CHOOSE i \in DOMAIN chars : chars[i] = c
Code == [c \in Range(Upwards) |-> 31 + Place(Upwards, c)] @@ [c \in Range(Letters) |-> 96 + Place(Letters, c)]
        @@ "\t" :> 9 @@ NEWLINE :> 10
Characters == DOMAIN Code

MapDn(c) == IF c \in Capitals THEN Letters[Code[c] - 64] ELSE c

Lowered(x) == [i \in DOMAIN x |-> MapDn(x[i])]

(* What is used of ASCII: two characters have two codes, a lower-case      *)
(* letter is one of them, and EOS, " ", tab and newline are what they are. *)
ASSUME CodeAssumption ==
  /\ NEWLINE \in Characters /\ EOS \notin Characters
  /\ \A c \in Characters : Code[c] \in Nat /\ MapDn(c) \in Characters
  /\ \A c, d \in Characters : Code[c] = Code[d] => c = d

-----------------------------------------------------------------------------
(* as.c                                                                    *)

MAXBUF == program.maxbuf

ASSUME ProgramAssumption ==
  \A p \in Programs : /\ p.files \in Seq(Seq(Characters)) /\ p.files # <<>>
                      /\ p.maxbuf \in Nat /\ p.maxbuf > 2

(* The newline at the end of Line is written once, and stops every scan.   *)
Initialize == [i \in 0 .. MAXBUF - 1 |-> IF i = MAXBUF - 1 THEN NEWLINE ELSE EOS]

LineInit ==
  /\ program \in Programs
  /\ file = 1 /\ rest = program.files[1]
  /\ Line = Initialize
  /\ Label = <<>> /\ Op = <<>> /\ Operand = <<>>
  /\ cont_prev = FALSE /\ hold_lbl = <<>>
  /\ last = 0 /\ found = 0

(* How many characters fgets(Line, size, Fd) takes.                        *)
Taken(size) == Min({i \in 1 .. Len(rest) : rest[i] = NEWLINE} \cup {Len(rest), size - 1})

Filled(n) ==
  [i \in 0 .. MAXBUF - 1 |-> IF i < n THEN rest[i + 1] ELSE IF i = n THEN EOS ELSE Line[i]]

(* The first place from p on with a character of S, with none of S; MAXBUF *)
(* when the scan leaves the buffer.                                        *)
To(buf, p, S)   == Min({q \in p .. MAXBUF - 1 : buf[q] \in S} \cup {MAXBUF})
Past(buf, p, S) == Min({q \in p .. MAXBUF - 1 : buf[q] \notin S} \cup {MAXBUF})

(* The C string that the characters before place q, from p on, make.       *)
CString(buf, p, q) ==
  LET e == Min({k \in p .. q - 1 : buf[k] = EOS} \cup {q})
  IN  [i \in 1 .. e - p |-> buf[p + i - 1]]

(* Mutant: the colon stays.                                                *)
SplitKeepsColon(buf) ==
  LET l == To(buf, 0, Delim)
      o == Past(buf, l, White)
      p == To(buf, o, Delim)
      r == Past(buf, p, White)
      e == To(buf, r, {NEWLINE})
  IN  [label |-> CString(buf, 0, l), op |-> Lowered(CString(buf, o, p)),
       operand |-> CString(buf, r, e), last |-> e]

(* A blank, a tab and a newline are delimiters, EOS is not.  Without a     *)
(* label the character before Label is read, which is not a colon.         *)
Split(buf) ==
  LET l == To(buf, 0, Delim)
      o == Past(buf, l, White)
      p == To(buf, o, Delim)
      r == Past(buf, p, White)
      e == To(buf, r, {NEWLINE})
  IN  [label   |-> CString(buf, 0, IF l > 0 /\ buf[l - 1] = ":" THEN l - 1 ELSE l),
       op      |-> Lowered(CString(buf, o, p)),
       operand |-> CString(buf, r, e),
       last    |-> e]

CommentStart == {"*", NEWLINE, ";", "#"}

-----------------------------------------------------------------------------
(* symtab.c: strcmp, and a binary search of each table.                    *)

Before(x, y) ==
  \E i \in 1 .. Len(y) :
    /\ \A k \in 1 .. i - 1 : Char(x, k) = Char(y, k)
    /\ i > Len(x) \/ (i <= Len(x) /\ Code[x[i]] < Code[y[i]])

Names(table) == {table[i] : i \in DOMAIN table}

(* The search needs tables in the order of strcmp; table0.h to table11.h   *)
(* and the table of pseudo.c are, and have no name in common.              *)
ASSUME TableAssumption ==
  /\ Table \in Seq(Seq(Characters)) /\ Pseudo \in Seq(Seq(Characters))
  /\ \A t \in {Table, Pseudo} : \A i, j \in DOMAIN t : i < j => Before(t[i], t[j])
  /\ Names(Table) \cap Names(Pseudo) = {}
  /\ \A name \in Names(Table) \cup Names(Pseudo) : Char(name, 1) \notin {EOS, ";"}

(* Mutant: the range is taken not to hold its end.                         *)
SearchHalfOpen(table, name) ==
  LET from[r \in (1 .. Len(table) + 1) \X (0 .. Len(table))] ==
        LET mid == r[1] + ((r[2] - r[1]) \div 2)
        IN  IF r[1] >= r[2] THEN 0
            ELSE IF Before(name, table[mid]) THEN from[<<r[1], mid - 1>>]
            ELSE IF Before(table[mid], name) THEN from[<<mid + 1, r[2]>>]
            ELSE mid
  IN  from[<<1, Len(table)>>]

(* low and high are r[1] and r[2].                                         *)
Search(table, name) ==
  LET from[r \in (1 .. Len(table) + 1) \X (0 .. Len(table))] ==
        LET mid == r[1] + ((r[2] - r[1]) \div 2)
        IN  IF r[1] > r[2] THEN 0
            ELSE IF Before(name, table[mid]) THEN from[<<r[1], mid - 1>>]
            ELSE IF Before(table[mid], name) THEN from[<<mid + 1, r[2]>>]
            ELSE mid
  IN  from[<<1, Len(table)>>]

MneLook(name) ==
  LET m == Search(Table, name)
      q == Search(Pseudo, name)
  IN  IF m # 0 THEN m ELSE IF q # 0 THEN Len(Table) + q ELSE 0

-----------------------------------------------------------------------------
(* parse_line, for a line that is not a comment; process looks its         *)
(* mnemonic up.                                                            *)
ParseLine(f) ==
  LET label == IF cont_prev THEN hold_lbl ELSE f.label
  IN  /\ Label' = label /\ Op' = f.op /\ Operand' = f.operand
      /\ last' = f.last
      /\ IF Char(f.op, 1) = ";"
           THEN /\ cont_prev' = (label # <<>>)
                /\ hold_lbl' = IF label # <<>> THEN label ELSE hold_lbl
                /\ found' = 0
           ELSE /\ cont_prev' = FALSE /\ hold_lbl' = hold_lbl
                /\ found' = MneLook(f.op)

Take(n) ==
  /\ rest' = SubSeq(rest, n + 1, Len(rest))
  /\ Line' = Filled(n)
  /\ \/ /\ Filled(n)[0] \in CommentStart
        /\ last' = 0
        /\ UNCHANGED <<fields, cont_prev, hold_lbl, found>>
     \/ Filled(n)[0] \notin CommentStart /\ ParseLine(Split(Filled(n)))
  /\ UNCHANGED <<program, file>>

(* Mutant: fgets is given all of Line.                                     *)
ReadLineAll == rest # <<>> /\ Take(Taken(MAXBUF))

ReadLine == rest # <<>> /\ Take(Taken(MAXBUF - 1))

(* The buffer stays as it is, and so do the statics of parse_line.         *)
NextFile ==
  /\ rest = <<>> /\ file < Len(program.files)
  /\ file' = file + 1 /\ rest' = program.files[file + 1]
  /\ UNCHANGED <<program, Line, fields, cont_prev, hold_lbl, last, found>>

LineNext == ReadLine \/ NextFile

LineSpec == LineInit /\ [][LineNext]_lineVars
-----------------------------------------------------------------------------
(* The scans of parse_line, none of which counts, end within Line, however *)
(* long the line is, and on a last line that has no newline (as.c 126).    *)
StaysInTheBuffer == last < MAXBUF

(* How masm/README 258-283 describes a line: a label in the first column,  *)
(* which may end with a ':', a mnemonic, in lower or upper case, and an    *)
(* operand, with white space between them.                                 *)
IsLine(text, label, name, x) ==
  LET end == Len(text)
      Full(i, j) == \A c \in i + 1 .. j : text[c] \notin White
      Space(i, j) == (\A c \in i + 1 .. j : text[c] \in White) /\ (i = j => j = end)
  IN  \E i \in 0 .. end :
        /\ Full(0, i)
        /\ label = SubSeq(text, 1, IF Char(text, i) = ":" THEN i - 1 ELSE i)
        /\ \E j \in i .. end :
             /\ Space(i, j)
             /\ \E k \in j .. end :
                  /\ Full(j, k) /\ name = Lowered(SubSeq(text, j + 1, k)) /\ (j = k => k = end)
                  /\ \E m \in k .. end :
                       Space(k, m) /\ x = SubSeq(text, m + 1, end) /\ Char(x, 1) \notin White

HasOperand(text) ==
  \E i \in 1 .. Len(text) :
    /\ text[i] \in White
    /\ \E j \in i + 1 .. Len(text) - 2 :
         /\ text[j] \notin White /\ text[j + 1] \in White
         /\ \E k \in j + 2 .. Len(text) : text[k] \notin White

Got == SubSeq(rest, 1, Len(rest) - Len(rest'))
Whole == Char(Got, Len(Got)) = NEWLINE
Body == IF Whole THEN SubSeq(Got, 1, Len(Got) - 1) ELSE Got

(* A line that ends with a newline is split as the README says, whatever   *)
(* the lines before it have left in the buffer.  A last line, or the first *)
(* part of one that is too long, is split so when it has an operand; what  *)
(* it lacks is taken from an earlier line.  The label is another one after *)
(* a line of only a label and a comment.                                   *)
SplitsTheLine ==
  [][Len(rest') < Len(rest) /\ file' = file /\ Char(Got, 1) \notin CommentStart /\ (Whole \/ HasOperand(Got)) =>
       IF cont_prev THEN Label' = hold_lbl /\ \E i \in 0 .. Len(Body) : IsLine(Body, SubSeq(Body, 1, i), Op', Operand')
       ELSE IsLine(Body, Label', Op', Operand')]_lineVars

(* A mnemonic is found when it is in a table, and only then.               *)
FindsTheMnemonic ==
  found = IF Op \in Names(Table \o Pseudo) THEN CHOOSE i \in DOMAIN (Table \o Pseudo) : (Table \o Pseudo)[i] = Op ELSE 0
=============================================================================
