------------------------------ MODULE Div3216 -------------------------------
(***************************************************************************)
(* docs/div3216.c: the division of a number of two words by one word, with *)
(* the instructions the 68HC11 has: fdiv, which divides a word and a word  *)
(* of zeros, idiv, which divides a word, and addd.  The registers D and X  *)
(* are given by name to the operators, the cells of mem are the names below*)
(* LET; what is printed is left out.                                       *)
(***************************************************************************)
EXTENDS Integers

CONSTANT W     \* the number of values of a word: 65536

Words == 0 .. W - 1

(* FDIV and IDIV: X and D after the instruction.                           *)
FDIV(D, X) ==
  LET quotient == (D * W) \div X
  IN  [X |-> IF quotient > W - 1 THEN W - 1 ELSE quotient, D |-> (D * W) % X]

IDIV(D, X) == [X |-> D \div X, D |-> D % X]

(* ADDD: D and the carry.                                                  *)
ADDD(D, val) == [D |-> (D + val) % W, C |-> (D + val) \div W]

(* main: the quotient it leaves in D and the remainder it leaves in X.     *)
Divide(H0, L0, DD) ==
  LET first  == FDIV(H0, DD)
      low    == ADDD(first.D, L0)
      L1     == low.D
      H1     == low.C              \* clra, clrb, rlcb
      second == FDIV(H1, DD)
      L2     == ADDD(second.D, L1).D
      third  == IDIV(L2, DD)
  IN  [Q |-> ADDD(ADDD(first.X, second.X).D, third.X).D, R |-> third.D]
-----------------------------------------------------------------------------
(* When the quotient fits in a word, it is the quotient, with its          *)
(* remainder: no carry is lost and no quotient is cut on the way.          *)
Divides(H0, L0, DD) ==
  LET num == H0 * W + L0
      d   == Divide(H0, L0, DD)
  IN  num = d.Q * DD + d.R /\ d.R \in 0 .. DD - 1 /\ d.Q \in Words
=============================================================================
