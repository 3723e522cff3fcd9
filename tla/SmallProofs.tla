----------------------------- MODULE SmallProofs -----------------------------
(***************************************************************************)
(* Proofs about the two small components: that docs/div3216.c divides, for *)
(* every size of a word; and about RamTest, for every size of the memory,  *)
(* every place of the registers, every way the address lines are joined    *)
(* and every set of bits that are stuck.                                   *)
(***************************************************************************)
EXTENDS Div3216, RamTest, TLAPS

(* The division.                                                           *)

(* Division of natural numbers, as fdiv and idiv use it.                   *)
LEMMA DivMod ==
  ASSUME NEW n \in Nat, NEW d \in Nat \ {0}
  PROVE  /\ n \div d \in Nat /\ n % d \in 0 .. d - 1
         /\ n = (n \div d) * d + (n % d)
  BY SMT

LEMMA Cancel ==
  ASSUME NEW a \in Nat, NEW m \in Nat, NEW d \in Nat, a * d < m * d
  PROVE  a < m
<1>1. SUFFICES ASSUME a >= m PROVE FALSE
  BY SMT
<1>2. PICK t \in Nat : a = m + t
  <2>1. a - m \in Nat /\ a = m + (a - m)
    BY <1>1, SMT
  <2> QED BY <2>1
<1>3. a * d = (m * d) + (t * d) /\ t * d \in Nat /\ m * d \in Nat
  BY <1>2, SMT
<1> QED BY <1>3, SMT

LEMMA SmallQuotient ==
  ASSUME NEW n \in Nat, NEW d \in Nat \ {0}, NEW m \in Nat, n < m * d
  PROVE  n \div d < m
<1> DEFINE q == n \div d  r == n % d
<1>1. q \in Nat /\ r \in Nat /\ n = q * d + r
  BY DivMod, SMT
<1> HIDE DEF q, r
<1>2. q * d < m * d
  <2>1. q * d \in Nat /\ m * d \in Nat
    BY <1>1, SMT
  <2> QED BY <1>1, <2>1, SMT
<1>3. q < m
  BY <1>1, <1>2, Cancel
<1> QED BY <1>3 DEF q

(* The sum of two words: its low word and its carry, which is one bit.     *)
LEMMA Carry ==
  ASSUME W \in Nat, NEW a \in Words, NEW m \in Words
  PROVE  LET s == ADDD(a, m)
         IN  \/ s.C = 0 /\ s.D = a + m /\ a + m < W
             \/ s.C = 1 /\ s.D = a + m - W /\ a + m >= W
<1>0. W \in Nat \ {0} /\ a \in Nat /\ m \in Nat /\ a < W /\ m < W
  BY SMT DEF Words
<1> DEFINE q == (a + m) \div W  r == (a + m) % W
<1>1. q \in Nat /\ r \in 0 .. W - 1 /\ a + m = q * W + r
  <2>1. a + m \in Nat
    BY <1>0, SMT
  <2> QED BY <1>0, <2>1, DivMod
<1>2. q < 2
  <2>1. a + m < 2 * W /\ a + m \in Nat
    BY <1>0, SMT
  <2> QED BY <1>0, <2>1, SmallQuotient
<1>3. (q = 0 /\ r = a + m) \/ (q = 1 /\ r = a + m - W)
  <2> HIDE DEF q, r
  <2>1. CASE q = 0
    BY <1>0, <1>1, <2>1, SMT
  <2>2. CASE q = 1
    BY <1>0, <1>1, <2>2, SMT
  <2> QED BY <1>1, <1>2, <2>1, <2>2, SMT
<1>4. ADDD(a, m).C = q /\ ADDD(a, m).D = r
  BY DEF ADDD
<1> HIDE DEF q, r
<1> QED BY <1>0, <1>1, <1>3, <1>4, SMT

(* The second fdiv divides W or nothing, and leaves room for the low word: *)
(* what is added to its remainder is less than the divisor.                *)
LEMMA RoomForTheRest ==
  ASSUME W \in Nat, NEW d \in Nat \ {0}, d < W, NEW rest \in Nat, rest + 1 < d
  PROVE  (W % d) + rest < W
<1> DEFINE q == W \div d  r == W % d
<1>1. q \in Nat /\ r \in 0 .. d - 1 /\ W = q * d + r
  BY DivMod
<1> HIDE DEF q, r
<1>2. q # 0
  BY <1>1, SMT
<1>3. q * d >= d
  <2>1. PICK t \in Nat : q = t + 1
    <3>1. q - 1 \in Nat /\ q = (q - 1) + 1
      BY <1>1, <1>2, SMT
    <3> QED BY <3>1
  <2>2. q * d = t * d + d /\ t * d >= 0
    BY <2>1, SMT
  <2> QED BY <2>2, SMT
<1>4. r + rest < W
  BY <1>1, <1>3, SMT
<1> QED BY <1>4 DEF r

(* docs/div3216.c divides: whenever the high word is less than the divisor,*)
(* so that the quotient fits in a word.                                    *)
THEOREM DividesExactly ==
  ASSUME W \in Nat, W >= 2,
         NEW H0 \in Words, NEW L0 \in Words, NEW DD \in Words \ {0}, H0 < DD
  PROVE  Divides(H0, L0, DD)
<1>0. /\ W \in Nat /\ W >= 2 /\ DD \in Nat \ {0} /\ DD < W
      /\ H0 \in Nat /\ L0 \in Nat /\ L0 < W
  BY SMT DEF Words
<1> DEFINE Q0 == (H0 * W) \div DD  R0 == (H0 * W) % DD
           L1 == ADDD(R0, L0).D    H1 == ADDD(R0, L0).C
           Q1 == (H1 * W) \div DD  R1 == (H1 * W) % DD
           L2 == ADDD(R1, L1).D
           Q2 == L2 \div DD        R2 == L2 % DD
(* The first division, whose quotient is less than W.                      *)
<1>1. /\ H0 * W \in Nat /\ Q0 \in Nat /\ Q0 < W /\ R0 \in 0 .. DD - 1
      /\ H0 * W = Q0 * DD + R0 /\ H0 * W + W <= W * DD
  <2>1. H0 * W + W <= W * DD
    <3>1. PICK t \in Nat : DD = H0 + 1 + t
      <4>1. DD - H0 - 1 \in Nat /\ DD = H0 + 1 + (DD - H0 - 1)
        BY <1>0, SMT
      <4> QED BY <4>1
    <3>2. W * DD = (H0 * W) + W + (t * W) /\ t * W \in Nat /\ H0 * W \in Nat
      BY <1>0, <3>1, SMT
    <3> QED BY <1>0, <3>2, SMT
  <2>2. H0 * W \in Nat
    BY <1>0, SMT
  <2>3. H0 * W < W * DD
    BY <1>0, <2>1, <2>2, SMT
  <2>4. Q0 < W
    BY <1>0, <2>2, <2>3, SmallQuotient
  <2>5. Q0 \in Nat /\ R0 \in 0 .. DD - 1 /\ H0 * W = Q0 * DD + R0
    BY <1>0, <2>2, DivMod
  <2> QED BY <2>1, <2>2, <2>4, <2>5
(* The low word is added, with its carry.                                  *)
<1>2. \/ H1 = 0 /\ L1 = R0 + L0 /\ R0 + L0 < W
      \/ H1 = 1 /\ L1 = R0 + L0 - W /\ R0 + L0 >= W
  <2> HIDE DEF Q0, R0
  <2>1. R0 \in Words
    BY <1>0, <1>1, SMT DEF Words
  <2> QED BY <2>1, Carry
(* The second division, of the carry.                                      *)
<1>3. /\ Q1 \in Nat /\ Q1 < W /\ R1 \in Nat /\ L1 \in Nat
      /\ H1 * W = Q1 * DD + R1 /\ R1 + L1 < W
      /\ R0 + L0 = (H1 * W) + L1
  <2> HIDE DEF Q0, R0, H1, L1
  <2>1. L1 \in Nat /\ R0 + L0 = (H1 * W) + L1 /\ H1 * W \in Nat /\ H1 * W <= W
    BY <1>0, <1>1, <1>2, SMT
  <2>2. H1 * W < W * DD
    <3>1. CASE H1 = 0
      <4>1. H1 * W = 0 /\ W * DD > 0
        BY <1>0, <3>1, SMT
      <4> QED BY <4>1, SMT
    <3>2. CASE H1 = 1
      <4>1. PICK t \in Nat : DD = t + 2
        <5>1. DD >= 2
          BY <1>0, <1>1, <1>2, <3>2, SMT
        <5>2. DD - 2 \in Nat /\ DD = (DD - 2) + 2
          BY <1>0, <5>1, SMT
        <5> QED BY <5>2
      <4>2. W * DD = (W * t) + W + W /\ W * t \in Nat
        BY <1>0, <4>1, SMT
      <4>3. H1 * W = W
        BY <1>0, <3>2, SMT
      <4> QED BY <1>0, <4>2, <4>3, SMT
    <3> QED BY <1>2, <3>1, <3>2
  <2>3. Q1 < W
    BY <1>0, <2>1, <2>2, SmallQuotient
  <2>4. Q1 \in Nat /\ R1 \in 0 .. DD - 1 /\ H1 * W = Q1 * DD + R1
    BY <1>0, <2>1, DivMod
  <2>5. R1 + L1 < W
    <3>1. CASE H1 = 0
      <4> HIDE DEF Q1, R1
      <4>1. Q1 * DD \in Nat /\ H1 * W = 0
        BY <1>0, <2>4, <3>1, SMT
      <4>2. R1 = 0
        BY <2>4, <4>1, SMT
      <4> QED BY <1>0, <1>1, <1>2, <3>1, <4>2, SMT
    <3>2. CASE H1 = 1
      <4>1. L1 + 1 < DD
        BY <1>0, <1>1, <1>2, <3>2, SMT
      <4>2. (W % DD) + L1 < W
        BY <1>0, <2>1, <4>1, RoomForTheRest
      <4>3. R1 = W % DD
        <5>1. H1 * W = W
          BY <1>0, <3>2, SMT
        <5> QED BY <5>1
      <4> QED BY <4>2, <4>3
    <3> QED BY <1>2, <3>1, <3>2
  <2>6. R1 \in Nat
    BY <1>0, <2>4, SMT
  <2> QED BY <2>1, <2>3, <2>4, <2>5, <2>6
(* The third division, of what is left: no carry is lost.                  *)
<1>4. /\ L2 = R1 + L1
      /\ Q2 \in Nat /\ R2 \in 0 .. DD - 1 /\ L2 = Q2 * DD + R2
  <2> HIDE DEF R1, L1
  <2>1. R1 \in Words /\ L1 \in Words
    BY <1>0, <1>3, SMT DEF Words
  <2>2. L2 = R1 + L1
    BY <1>0, <1>3, <2>1, Carry, SMT
  <2>3. L2 \in Nat
    BY <1>3, <2>2, SMT
  <2> QED BY <1>0, <2>2, <2>3, DivMod
<1> DEFINE S == Q0 + Q1 + Q2
<1>5. H0 * W + L0 = S * DD + R2
  <2> HIDE DEF Q0, R0, H1, L1, Q1, R1, L2, Q2, R2
  <2>1. S * DD = (Q0 * DD) + (Q1 * DD) + (Q2 * DD)
    BY <1>0, <1>1, <1>3, <1>4, SMT
  <2> DEFINE a == Q0 * DD  m == Q1 * DD  c == Q2 * DD  h == H0 * W  i == H1 * W  t == S * DD
  <2>2. a \in Nat /\ m \in Nat /\ c \in Nat /\ R0 \in Nat /\ R2 \in Nat
    BY <1>0, <1>1, <1>3, <1>4, SMT
  <2>3. h = a + R0 /\ R0 + L0 = i + L1 /\ i = m + R1 /\ R1 + L1 = c + R2 /\ t = a + m + c
    BY <1>1, <1>3, <1>4, <2>1
  <2> HIDE DEF a, m, c, h, i, t
  <2>4. h + L0 = t + R2
    BY <1>0, <1>3, <2>2, <2>3, SMT
  <2> QED BY <2>4 DEF h, t
<1>6. S \in Nat /\ S < W
  <2> HIDE DEF Q0, R0, H1, L1, Q1, R1, L2, Q2, R2
  <2>1. S \in Nat
    BY <1>1, <1>3, <1>4, SMT
  <2> HIDE DEF S
  <2>2. S * DD \in Nat /\ W * DD \in Nat /\ R2 \in Nat
    BY <1>0, <1>4, <2>1, SMT
  <2>3. S * DD < W * DD
    BY <1>0, <1>1, <1>5, <2>2, SMT
  <2> QED BY <1>0, <2>1, <2>3, Cancel
(* The sums of the three quotients do not carry.                           *)
<1>7. ADDD(ADDD(Q0, Q1).D, Q2).D = S
  <2> HIDE DEF Q0, R0, H1, L1, Q1, R1, L2, Q2, R2
  <2>1. Q0 \in Words /\ Q1 \in Words /\ Q2 \in Words /\ Q0 + Q1 \in Words
    BY <1>0, <1>1, <1>3, <1>4, <1>6, SMT DEF Words
  <2>2. ADDD(Q0, Q1).D = Q0 + Q1
    BY <1>0, <2>1, Carry, SMT DEF Words
  <2>3. ADDD(Q0 + Q1, Q2).D = S
    BY <1>0, <1>6, <2>1, Carry, SMT DEF Words
  <2> QED BY <2>2, <2>3
<1>8. Divide(H0, L0, DD) = [Q |-> S, R |-> R2]
  <2>1. FDIV(H0, DD) = [X |-> Q0, D |-> R0]
    <3> HIDE DEF R0
    <3>1. ~ Q0 > W - 1
      <4> HIDE DEF Q0
      <4> QED BY <1>0, <1>1, SMT
    <3> QED BY <3>1 DEF FDIV, R0
  <2>2. FDIV(H1, DD) = [X |-> Q1, D |-> R1]
    <3> HIDE DEF R1, H1
    <3>1. ~ Q1 > W - 1
      <4> HIDE DEF Q1
      <4> QED BY <1>0, <1>3, SMT
    <3> QED BY <3>1 DEF FDIV, R1
  <2>3. IDIV(L2, DD) = [X |-> Q2, D |-> R2]
    BY DEF IDIV
  <2> HIDE DEF Q0, R0, H1, L1, Q1, R1, L2, Q2, R2, S
  <2>4. ADDD(R0, L0).D = L1 /\ ADDD(R0, L0).C = H1 /\ ADDD(R1, L1).D = L2
    BY DEF L1, H1, L2
  <2>5. FDIV(H0, DD).X = Q0 /\ FDIV(H0, DD).D = R0
    BY <2>1
  <2>6. FDIV(H1, DD).X = Q1 /\ FDIV(H1, DD).D = R1
    BY <2>2
  <2>7. IDIV(L2, DD).X = Q2 /\ IDIV(L2, DD).D = R2
    BY <2>3
  <2> QED BY <1>7, <2>4, <2>5, <2>6, <2>7, Zenon DEF Divide
<1>9. S \in Words /\ R2 \in 0 .. DD - 1
  <2> HIDE DEF S, R2
  <2> QED BY <1>0, <1>4, <1>6, SMT DEF Words
<1> HIDE DEF S, R2
<1> QED BY <1>5, <1>8, <1>9 DEF Divides

-----------------------------------------------------------------------------
(* The memory tests.                                                       *)

(* The inductive invariant.                                                *)

(* The parts of the memory and of the test do not change, and Y is one of  *)
(* the addresses to test.                                                  *)
PlaceOK ==
  /\ layout \in Layouts /\ wiring \in Wirings /\ stuck \in Stuck
  /\ pc \in {"fill", "check", "done"}
  /\ k \in 1 .. 2 * BITS /\ b = Pattern(k)
  /\ y \in Tested
  /\ DOMAIN cells = {wiring[x] : x \in Address}

(* What the loop of fill has passed holds B, also where two addresses      *)
(* reach the same cell.                                                    *)
Filled ==
  \A x \in Tested : pc = "check" \/ (pc = "fill" /\ x < y) => cells[wiring[x]] = b

(* Whether address x was checked with the byte of call i.                  *)
Checked(i, x) == pc = "done" \/ i < k \/ (i = k /\ pc = "check" /\ x < y)

StuckSoFar ==
  \A d \in stuck : \A i \in 1 .. 2 * BITS :
    d.addr \in Tested /\ Checked(i, d.addr) /\ (d.one <=> d.bit \notin Pattern(i))
      => \E p \in printed : p.addr = d.addr /\ d.bit \in p.bits

RInv == PlaceOK /\ Filled /\ PrintedAreStuck /\ StuckSoFar

-----------------------------------------------------------------------------
LEMMA ModSmall ==
  ASSUME NEW N \in Nat \ {0}, NEW x \in 0 .. N
  PROVE  (x < N => x % N = x) /\ N % N = 0
OBVIOUS

LEMMA AddressRange ==
  /\ BITS \in Nat \ {0} /\ ADDRS \in Nat \ {0}
  /\ REGS \in Nat /\ AFTER \in Nat /\ REGS < AFTER /\ AFTER < ADDRS
  /\ \A x : x \in Address <=> x \in Int /\ 0 <= x /\ x < ADDRS
  /\ \A x : x \in Registers <=> x \in Int /\ REGS <= x /\ x < AFTER
BY RamTestAssumption DEF Address, Registers

LEMMA LayoutRange ==
  ASSUME layout \in Layouts
  PROVE  /\ layout.start \in Address \ Registers /\ layout.end \in Address \ Registers
         /\ layout.start < layout.end \/ layout.end = 0
         /\ \A x : x \in Tested <=>
                     /\ x \in Int /\ layout.start <= x /\ x \notin Registers
                     /\ layout.end = 0 => x < ADDRS
                     /\ layout.end # 0 => x < layout.end
<1>1. /\ layout.start \in Address \ Registers /\ layout.end \in Address \ Registers
      /\ layout.start < layout.end \/ layout.end = 0
  BY RamTestAssumption, LayoutAssumption
<1> DEFINE last == (layout.end + ADDRS - 1) % ADDRS
<1>2. layout.start \in Int /\ layout.end \in Int /\ 0 <= layout.end /\ layout.end < ADDRS
  BY <1>1, AddressRange
<1>3. last = IF layout.end = 0 THEN ADDRS - 1 ELSE layout.end - 1
  <2>1. CASE layout.end = 0
    BY <1>2, <2>1, AddressRange, ModSmall
  <2>2. CASE layout.end # 0
    <3>1. layout.end - 1 \in 0 .. ADDRS /\ layout.end - 1 < ADDRS
      BY <1>2, <2>2, AddressRange
    <3>2. (layout.end - 1) % ADDRS = layout.end - 1
      BY <3>1, AddressRange, ModSmall
    <3>3. (layout.end - 1 + ADDRS) % ADDRS = (layout.end - 1) % ADDRS
      BY <3>1, AddressRange
    <3>4. layout.end - 1 + ADDRS = layout.end + ADDRS - 1
      BY <1>2, AddressRange
    <3> QED
      BY <2>2, <3>2, <3>3, <3>4
  <2> QED
    BY <2>1, <2>2
<1>4. Tested = (layout.start .. last) \ Registers
  BY DEF Tested
<1> HIDE DEF last
<1>5. last \in Int
  BY <1>2, <1>3, AddressRange
<1> QED
  BY <1>1, <1>2, <1>3, <1>4, <1>5, AddressRange

(* iny goes to the next address to test, or to END after the last one.     *)
LEMMA FollowingTested ==
  ASSUME layout \in Layouts, NEW x \in Tested
  PROVE  /\ x \in Int /\ Following(x) \in Int
         /\ Following(x) # layout.end =>
              /\ Following(x) \in Tested /\ x < Following(x)
              /\ \A t \in Tested : t < Following(x) => t <= x
         /\ Following(x) = layout.end => \A t \in Tested : t <= x
<1> DEFINE z == (x + 1) % ADDRS
<1>1. x \in Int /\ 0 <= x /\ x < ADDRS /\ x \notin Registers
  BY LayoutRange, AddressRange
<1>2. Following(x) = IF z = REGS THEN AFTER ELSE z
  BY DEF Following
<1>3. z = IF x + 1 = ADDRS THEN 0 ELSE x + 1
  <2>1. x + 1 \in 0 .. ADDRS
    BY <1>1, AddressRange
  <2> QED
    BY <2>1, AddressRange, ModSmall
<1> HIDE DEF z
<1>4. x \in Int /\ Following(x) \in Int
  BY <1>1, <1>2, <1>3, AddressRange
<1>5. CASE x + 1 = ADDRS
  <2>1. layout.end = 0 /\ REGS # 0
    BY <1>1, <1>5, LayoutRange, AddressRange
  <2>2. Following(x) = layout.end
    BY <1>2, <1>3, <1>5, <2>1
  <2>3. \A t \in Tested : t <= x
    BY <1>1, <1>5, <2>1, LayoutRange, AddressRange
  <2> QED
    BY <1>4, <2>2, <2>3
<1>6. CASE x + 1 # ADDRS
  <2>1. z = x + 1
    BY <1>3, <1>6
  <2>2. CASE z = REGS
    <3>1. Following(x) = AFTER
      BY <1>2, <2>2
    <3>2. \A t \in Tested : t < AFTER => t <= x
      BY <1>1, <2>1, <2>2, LayoutRange, AddressRange
    <3>3. layout.end = 0 \/ AFTER <= layout.end
      BY <1>1, <2>1, <2>2, LayoutRange, AddressRange
    <3>4. AFTER # layout.end => AFTER \in Tested
      BY <1>1, <2>1, <2>2, <3>3, LayoutRange, AddressRange
    <3>5. AFTER = layout.end => \A t \in Tested : t <= x
      BY <1>1, <3>2, LayoutRange, AddressRange
    <3> QED
      BY <1>1, <1>4, <2>1, <2>2, <3>1, <3>2, <3>4, <3>5, AddressRange
  <2>3. CASE z # REGS
    <3>1. Following(x) = x + 1 /\ x + 1 \notin Registers /\ x + 1 # 0
      BY <1>1, <1>2, <2>1, <2>3, AddressRange
    <3>2. \A t \in Tested : t < x + 1 => t <= x
      BY <1>1, LayoutRange
    <3>3. x + 1 # layout.end => x + 1 \in Tested
      BY <1>1, <1>6, <3>1, LayoutRange, AddressRange
    <3>4. x + 1 = layout.end => \A t \in Tested : t <= x
      BY <1>1, <3>1, LayoutRange, AddressRange
    <3> QED
      BY <1>1, <1>4, <3>1, <3>2, <3>3, <3>4
  <2> QED
    BY <2>2, <2>3
<1> QED
  BY <1>5, <1>6

LEMMA StartTested ==
  ASSUME layout \in Layouts
  PROVE  layout.start \in Tested /\ \A x \in Tested : ~ (x < layout.start)
BY LayoutRange, AddressRange
LEMMA InitRInv ==
  ASSUME Init
  PROVE  RInv
<1>1. layout \in Layouts /\ y = layout.start /\ k = 1 /\ pc = "fill" /\ printed = {}
      /\ wiring \in Wirings /\ stuck \in Stuck /\ b = Pattern(k)
  BY DEF Init
<1>2. PlaceOK
  <2>1. 1 \in 1 .. 2 * BITS
    BY AddressRange
  <2> QED
    BY <1>1, <2>1, StartTested DEF PlaceOK, Init
<1>3. Filled
  BY <1>1, StartTested DEF Filled
<1>4. PrintedAreStuck
  BY <1>1 DEF PrintedAreStuck
<1>5. StuckSoFar
  BY <1>1 DEF StuckSoFar, Checked
<1> QED
  BY <1>2, <1>3, <1>4, <1>5 DEF RInv

LEMMA FillRInv ==
  ASSUME RInv, Fill
  PROVE  RInv'
<1> DEFINE z == Following(y)
<1>1. /\ pc = "fill" /\ cells' = [cells EXCEPT ![wiring[y]] = b]
      /\ IF z = layout.end THEN pc' = "check" /\ y' = layout.start
                           ELSE pc' = pc /\ y' = z
      /\ UNCHANGED <<memory, b, k, printed>>
  BY DEF Fill
<1>2. /\ layout \in Layouts /\ y \in Tested /\ Tested' = Tested
      /\ layout' = layout /\ wiring' = wiring /\ stuck' = stuck
      /\ DOMAIN cells = {wiring[x] : x \in Address}
  BY <1>1 DEF RInv, PlaceOK, memory, Tested
<1>3. y' \in Tested
  BY <1>1, <1>2, FollowingTested, StartTested
<1>4. PlaceOK'
  BY <1>1, <1>2, <1>3 DEF RInv, PlaceOK
<1>5. Filled'
  <2> SUFFICES ASSUME NEW x \in Tested, pc' = "check" \/ (pc' = "fill" /\ x < y')
               PROVE  cells'[wiring[x]] = b
    BY <1>1, <1>2 DEF Filled
  <2>1. wiring[x] \in DOMAIN cells
    BY <1>2, LayoutRange, AddressRange
  <2>2. x <= y /\ x \in Int /\ y \in Int
    BY <1>1, <1>2, FollowingTested
  <2>3. x = y \/ cells[wiring[x]] = b
    BY <1>1, <2>2 DEF RInv, Filled
  <2> QED
    BY <1>1, <2>1, <2>3
<1>6. PrintedAreStuck'
  BY <1>1, <1>2 DEF RInv, PrintedAreStuck
<1>7. StuckSoFar'
  <2>1. ASSUME NEW i \in 1 .. 2 * BITS, NEW x \in Tested, Checked(i, x)'
        PROVE  Checked(i, x)
    BY <1>1, <2>1, <1>2, StartTested DEF Checked
  <2> QED
    BY <1>1, <1>2, <2>1 DEF RInv, StuckSoFar, Checked
<1> QED
  BY <1>4, <1>5, <1>6, <1>7 DEF RInv

(* What eora leaves for address x, whose cell holds v: the bits stuck there*)
(* at the other value.                                                     *)
LEMMA DifferStuck ==
  ASSUME stuck \in Stuck, NEW x \in Address, NEW v, cells[wiring[x]] = v
  PROVE  Differ(Read(x), v) =
           {d.bit : d \in {e \in stuck : e.addr = x /\ (e.one <=> e.bit \notin v)}}
<1> DEFINE ones  == {d.bit : d \in {e \in stuck : e.addr = x /\ e.one}}
           zeros == {d.bit : d \in {e \in stuck : e.addr = x /\ ~ e.one}}
<1>1. Read(x) = (v \cup ones) \ zeros
  BY DEF Read
<1>2. ones \cap zeros = {}
  BY RamTestAssumption
<1>3. \A t : t \in ones <=> \E e \in stuck : e.addr = x /\ e.one /\ t = e.bit
  OBVIOUS
<1>4. \A t : t \in zeros <=> \E e \in stuck : e.addr = x /\ ~ e.one /\ t = e.bit
  OBVIOUS
<1> HIDE DEF ones, zeros
<1>5. Differ(Read(x), v) = (ones \ v) \cup (v \cap zeros)
  BY <1>1, <1>2 DEF Differ
<1>6. ASSUME NEW t
      PROVE  t \in Differ(Read(x), v) <=>
               \E e \in stuck : e.addr = x /\ (e.one <=> e.bit \notin v) /\ t = e.bit
  BY <1>3, <1>4, <1>5
<1> QED
  BY <1>6

(* The next turn of the loop of check, or the first of the next loop.      *)
CheckGoesOn ==
  LET z == Following(y)
  IN  IF z # layout.end THEN y' = z /\ UNCHANGED <<pc, b, k>>
      ELSE /\ y' = layout.start
           /\ IF k = 2 * BITS THEN pc' = "done" /\ UNCHANGED <<b, k>>
                              ELSE pc' = "fill" /\ k' = k + 1 /\ b' = Pattern(k + 1)

LEMMA CheckRInv ==
  ASSUME RInv, Check
  PROVE  RInv'
<1> DEFINE diff == Differ(Read(y), b)
           new  == [byte |-> b, addr |-> y, bits |-> diff]
<1>1. /\ pc = "check" /\ CheckGoesOn /\ UNCHANGED <<memory, cells>>
      /\ printed' = IF diff = {} THEN printed ELSE printed \cup {new}
  BY DEF Check, Fail, CheckGoesOn
<1>2. /\ layout \in Layouts /\ y \in Tested /\ y \in Address /\ Tested' = Tested
      /\ layout' = layout /\ wiring' = wiring /\ stuck' = stuck /\ stuck \in Stuck
      /\ k \in 1 .. 2 * BITS /\ k \in Int /\ b = Pattern(k) /\ BITS \in Nat
  BY <1>1, LayoutRange, AddressRange DEF RInv, PlaceOK, memory, Tested
<1>3. diff = {d.bit : d \in {e \in stuck : e.addr = y /\ (e.one <=> e.bit \notin b)}}
  BY <1>1, <1>2, DifferStuck DEF RInv, Filled
<1> HIDE DEF diff
<1>4. PlaceOK'
  <2>1. y' \in Tested
    BY <1>1, <1>2, FollowingTested, StartTested DEF CheckGoesOn
  <2>2. k' \in 1 .. 2 * BITS /\ b' = Pattern(k')
    BY <1>1, <1>2 DEF CheckGoesOn
  <2>3. pc' \in {"fill", "check", "done"}
    BY <1>1 DEF CheckGoesOn
  <2> QED
    BY <1>1, <1>2, <2>1, <2>2, <2>3 DEF RInv, PlaceOK
<1>5. Filled'
  <2>1. pc' = "check" => b' = b
    BY <1>1 DEF CheckGoesOn
  <2>2. pc' = "fill" => y' = layout.start
    BY <1>1 DEF CheckGoesOn
  <2> QED
    BY <1>1, <1>2, <2>1, <2>2, StartTested DEF RInv, Filled
<1>6. PrintedAreStuck'
  <2>1. \A p \in printed' : p \in printed \/ (p = new /\ diff # {})
    BY <1>1
  <2>2. diff # {} => /\ new.addr \in Tested /\ new.bits # {}
                     /\ new.bits = {d.bit : d \in {e \in stuck : e.addr = new.addr
                                               /\ (e.one <=> e.bit \notin new.byte)}}
    BY <1>2, <1>3
  <2> QED
    BY <1>2, <2>1, <2>2 DEF RInv, PrintedAreStuck
<1>7. StuckSoFar'
  <2> SUFFICES ASSUME NEW d \in stuck, NEW i \in 1 .. 2 * BITS, d.addr \in Tested,
                      Checked(i, d.addr)', d.one <=> d.bit \notin Pattern(i)
               PROVE  \E p \in printed' : p.addr = d.addr /\ d.bit \in p.bits
    BY <1>2 DEF StuckSoFar, Checked
  <2>1. CASE Checked(i, d.addr)
    BY <1>1, <2>1 DEF RInv, StuckSoFar
  <2>2. CASE ~ Checked(i, d.addr)
    <3>1. y \in Int /\ d.addr \in Int /\ i \in Int /\ i <= 2 * BITS /\ k <= 2 * BITS
      BY <1>2, FollowingTested
    <3>2. ~ (i < k) /\ ~ (i = k /\ d.addr < y)
      BY <1>1, <2>2 DEF Checked
    <3>3. i = k /\ d.addr <= y
      <4>1. CASE Following(y) # layout.end
        <5>1. i = k /\ d.addr < Following(y)
          BY <1>1, <3>2, <4>1 DEF Checked, CheckGoesOn
        <5> QED
          BY <1>2, <4>1, <5>1, FollowingTested
      <4>2. CASE Following(y) = layout.end
        <5>1. d.addr <= y
          BY <1>2, <4>2, FollowingTested
        <5>2. k = 2 * BITS \/ i < k + 1
          BY <1>1, <4>2 DEF Checked, CheckGoesOn
        <5> QED
          BY <1>2, <3>1, <3>2, <5>1, <5>2
      <4> QED
        BY <4>1, <4>2
    <3>4. d.addr = y
      BY <3>1, <3>2, <3>3
    <3>5. d.bit \in diff
      BY <1>2, <1>3, <3>3, <3>4
    <3>6. new \in printed' /\ new.addr = y /\ new.bits = diff
      BY <1>1, <3>5
    <3> QED
      BY <3>4, <3>5, <3>6
  <2> QED
    BY <2>1, <2>2
<1> QED
  BY <1>4, <1>5, <1>6, <1>7 DEF RInv

THEOREM TestInvariant == Spec => []RInv
<1>1. Init => RInv
  BY InitRInv
<1>2. RInv /\ [Next]_vars => RInv'
  <2>1. RInv /\ UNCHANGED vars => RInv'
    BY DEF vars, RInv, PlaceOK, Filled, PrintedAreStuck, StuckSoFar, Checked, Tested
  <2> QED
    BY <2>1, FillRInv, CheckRInv DEF Next
<1> QED
  BY <1>1, <1>2, PTL DEF Spec

(* ramtest, xramtest and romtest print no address but those with a stuck   *)
(* bit, and of it exactly the bits that the byte written shows, on every   *)
(* memory and for every wiring of its address lines.                       *)
THEOREM NothingElsePrinted == Spec => []PrintedAreStuck
<1>1. RInv => PrintedAreStuck
  BY DEF RInv
<1> QED
  BY <1>1, TestInvariant, PTL

(* Among the bytes written there are, for every bit, one that has it and   *)
(* one that has not.                                                       *)
LEMMA BothValues ==
  ASSUME NEW bit \in Bits
  PROVE  /\ 2 * bit + 1 \in 1 .. 2 * BITS /\ bit \in Pattern(2 * bit + 1)
         /\ 2 * bit + 2 \in 1 .. 2 * BITS /\ bit \notin Pattern(2 * bit + 2)
<1>1. bit \in Int /\ 0 <= bit /\ bit + 1 <= BITS /\ BITS \in Nat
  BY AddressRange DEF Bits
<1>2. /\ (2 * bit + 1) % 2 = 1 /\ ((2 * bit + 1) + 1) \div 2 = bit + 1
      /\ (2 * bit + 2) % 2 = 0 /\ ((2 * bit + 2) + 1) \div 2 = bit + 1
  BY <1>1
<1>3. bit + 1 - 1 = bit
  BY <1>1
<1> QED
  BY <1>1, <1>2, <1>3 DEF Pattern

(* When one of the memory tests is done it has printed every stuck bit of  *)
(* the addresses its header names.                                         *)
THEOREM EveryStuckBitPrinted == Spec => []StuckArePrinted
<1>1. RInv => StuckArePrinted
  <2> SUFFICES ASSUME RInv, pc = "done", NEW d \in stuck, d.addr \in Tested
               PROVE  \E p \in printed : p.addr = d.addr /\ d.bit \in p.bits
    BY DEF StuckArePrinted
  <2>1. d.bit \in Bits
    BY RamTestAssumption DEF RInv, PlaceOK
  <2>2. \E i \in 1 .. 2 * BITS : d.one <=> d.bit \notin Pattern(i)
    BY <2>1, BothValues
  <2> QED
    BY <2>2 DEF RInv, StuckSoFar, Checked
<1> QED
  BY <1>1, TestInvariant, PTL
=============================================================================
