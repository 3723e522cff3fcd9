------------------------------ MODULE MCSession -----------------------------
(* Model checking instance of Session: a buffer of 13 characters, which a  *)
(* data record of two bytes fills, next to five addresses with chips.      *)
EXTENDS Session

MCKind == 600 :> "ram" @@ 601 :> "ram" @@ 700 :> "eeprom" @@ 701 :> "eeprom"
          @@ 800 :> "rom"

Line(to, data, answer, text) ==
  [addr |-> to, data |-> data, answer |-> answer, text |-> text]

DataLine(to, data) == Line(to, data, "*", Text(Data1, to, data))
EndLine(to) == Line(to, <<>>, ">", Text(End9, to, <<>>))
HeaderLine == Line(0, <<>>, "!", Text(Header0, 0, <<7>>))
(* Three bytes do not fit in the buffer.                                   *)
LongLine(to, data) == Line(to, <<>>, "!", Text(Data1, to, data))
(* The second byte of data has a lower-case digit, 'a'.                    *)
LowerCaseLine(to, data) ==
  Line(to, <<Head(data)>>, "!", ReplaceAt(Text(Data1, to, data), 11, 97))

Pool == { DataLine(600, <<17, 171>>), DataLine(700, <<171, 18>>), DataLine(700, <<5>>),
          DataLine(601, <<255>>), LongLine(600, <<1, 2, 3>>), HeaderLine,
          LowerCaseLine(600, <<33, 34>>) }

SlowFiles == { <<DataLine(700, <<17, 171>>), LongLine(600, <<1, 2, 3>>), DataLine(701, <<34>>), EndLine(600)>> }
MCFiles == SlowFiles \cup { <<l, m, EndLine(600)>> : l \in Pool, m \in Pool }
                     \cup { <<DataLine(800, <<1>>), EndLine(600)>> }

(* The longest two lines are 34 characters.  The file of LowBaud takes     *)
(* more than a second for a line, and a Slow one for five.                 *)
LowBaud == <<DataLine(600, <<17, 171>>), DataLine(601, <<255>>), EndLine(600)>>
MCRate == [f \in MCFiles |-> IF f = LowBaud THEN 12 ELSE IF f \in SlowFiles THEN 70 ELSE 35]

(* Loaders of three bytes, two of them the same or all different; 83 is    *)
(* the character that starts a line.                                       *)
MCPrograms == { <<1, 1, 2>>, <<1, 2, 3>>, <<255, 0, 0>>, <<7, 9, 83>> }
NoisyFiles == { <<DataLine(600, <<17, 171>>), LowerCaseLine(600, <<33, 34>>), EndLine(600)>> }
MCChange(b) == {(b + 1) % 256}
MCSessions == ({ <<1, 1, 2>> } \X MCFiles \X {FALSE}) \cup (MCPrograms \X NoisyFiles \X {TRUE})

ASSUME OneStart /\ FilesSay
=============================================================================
