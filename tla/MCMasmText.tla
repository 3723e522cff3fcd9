----------------------------- MODULE MCMasmText -----------------------------
(* Model checking instance of MasmText: a buffer that holds lines of up to *)
(* six characters; every line of up to five characters out of five, after  *)
(* lines that leave something in the buffer or in the statics of           *)
(* parse_line, and some in another file; and lines of constants: every two *)
(* terms with every connector, lists, and text.                            *)
EXTENDS MasmText

Spell(names) == [i \in DOMAIN names |-> Spelled(names[i])]

MCTable == Spell(<<"a", "aa", "ab", "b", "bb", "bba">>)
MCPseudo == Spell(<<"db", "dw", "fcb", "fcc", "fdb">>)
MCSymbols == "x" :> 3 @@ "y.$" :> 300

Strings[n \in Nat] ==
  IF n = 0 THEN {""} ELSE {""} \cup { str \o c : str \in Strings[n - 1], c \in {"a", "B", " ", ":", ";"} }

Plain(files) == [files |-> files, maxbuf |-> 8, means |-> {}]
Earlier == {"a bb\n", "a ;\n", "b:\ta b\n", "aa bb aa\n"}

TextPrograms ==
  { Plain(<<l \o "\n">>) : l \in Strings[5] }
  \cup { Plain(<<b \o l \o "\n">>) : b \in Earlier, l \in Strings[4] }
  \cup { Plain(<<b \o l>>) : b \in Earlier, l \in Strings[4] }
  \cup { Plain(<<b, l \o "\n" \o m>>) : b \in Earlier, l \in Strings[1], m \in Strings[3] }

(* The texts of terms, and their values on a line at address 1.            *)
TermTexts == { <<"0", 0>>, <<"12", 12>>, <<"%101", 5>>, <<"@17", 15>>, <<"$aF", 175>>, <<"*", 1>>, <<"'%", 37>>,
           <<"'a", 97>>, <<"x", 3>>, <<"y.$", 300>>, <<"#7", 7>>, <<"-2", -2>>, <<"-*", -1>>, <<"-x", -3>>,
           <<"-%10", -2>> }

(* The largest number of times that r goes into l without passing it.      *)
Times(l, r) == CHOOSE q \in 0 .. l : q * r <= l /\ (q + 1) * r > l
Ratio(l, r) ==
  IF (l < 0) = (r < 0) THEN Times(Magnitude(l), Magnitude(r)) ELSE - Times(Magnitude(l), Magnitude(r))

Worth(op, l, r) ==
  CASE op = "+" -> l + r  [] op = "-" -> l - r  [] op = "*" -> l * r
    [] op = "/" -> Ratio(l, r)
    [] op = "%" -> l - r * Ratio(l, r)
    [] op = "|" -> l | r  [] op = "&" -> l & r  [] op = "^" -> l ^^ r

Saying(line, bytes) == [files |-> <<" db 9\n" \o line \o "\n">>, maxbuf |-> 32, means |-> {<<9>> \o bytes}]

DataPrograms ==
  { Saying(" db " \o l[1] \o p \o r[1], <<Worth(p, l[2], r[2]) % 256>>) :
      <<l, p, r>> \in { u \in TermTexts \X Connector \X TermTexts :
                           /\ u[2] \in {"/", "%"} => u[3][2] # 0
                           /\ u[2] \in {"|", "&", "^"} => u[1][2] >= 0 /\ u[3][2] >= 0 } }
  \cup { Saying(" Fdb " \o f \o l[1] \o ", " \o r[1] \o " rest", Word(l[2]) \o Word(r[2])) :
            f \in {"", "<", ">"}, l \in TermTexts, r \in TermTexts }
  \cup { Saying(" fcc /ab c/ d", <<97, 98, 32, 99>>), Saying(" fcc 'it''", <<105, 116>>),
          Saying(" fcc \"a", <<97>>), Saying(" fcc //", <<>>), Saying("y fcc", <<>>),
          Saying(" db 2-%11*x--2", <<(-1 * 3 + 2) % 256>>) }

MCPrograms == { [p EXCEPT !.files = Spell(@)] : p \in TextPrograms \cup DataPrograms }
=============================================================================
