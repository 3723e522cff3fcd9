--------------------------- MODULE MasmLineProofs ---------------------------
(***************************************************************************)
(* Proofs about MasmLine, for every program, buffer and tables.            *)
(***************************************************************************)
EXTENDS MasmLine, TLAPS, SequenceTheorems, WellFoundedInduction

LEMMA LeastOne ==
  ASSUME NEW T, T \subseteq Nat, T # {}
  PROVE  \E x \in T : \A y \in T : x <= y
<1>1. \E x \in T : \A y \in T : ~ (<<y, x>> \in OpToRel(<, Nat))
  BY WFMin, NatLessThanWellFounded, Zenon
<1>2. PICK x \in T : \A y \in T : ~ (<<y, x>> \in OpToRel(<, Nat))
  BY <1>1
<1>3. ASSUME NEW y \in T
      PROVE  x <= y
  <2>1. x \in Nat /\ y \in Nat
    OBVIOUS
  <2>2. ~ (y < x)
    BY <1>2, <2>1 DEF OpToRel
  <2> QED
    BY <2>1, <2>2
<1> QED
  BY <1>2, <1>3

LEMMA MinIsLeast ==
  ASSUME NEW T, T \subseteq Nat, T # {}
  PROVE  Min(T) \in T /\ \A y \in T : Min(T) <= y
BY LeastOne, Zenon DEF Min

-----------------------------------------------------------------------------
(* strcmp is an order of the names.                                        *)

LEMMA CharIn ==
  ASSUME NEW x \in Seq(Characters), NEW i \in Nat \ {0}
  PROVE  /\ i \in 1 .. Len(x) => Char(x, i) = x[i] /\ x[i] \in Characters /\ Char(x, i) # EOS
         /\ i \notin 1 .. Len(x) => Char(x, i) = EOS
BY CodeAssumption, ElementOfSeq DEF Char

LEMMA NotBoth ==
  ASSUME NEW x \in Seq(Characters), NEW y \in Seq(Characters), Before(x, y), Before(y, x)
  PROVE  FALSE
<1>1. PICK i \in 1 .. Len(y) :
         /\ \A k \in 1 .. i - 1 : Char(x, k) = Char(y, k)
         /\ i > Len(x) \/ (i <= Len(x) /\ Code[x[i]] < Code[y[i]])
  BY DEF Before
<1>2. PICK j \in 1 .. Len(x) :
         /\ \A k \in 1 .. j - 1 : Char(y, k) = Char(x, k)
         /\ j > Len(y) \/ (j <= Len(y) /\ Code[y[j]] < Code[x[j]])
  BY DEF Before
<1>3. Len(x) \in Nat /\ Len(y) \in Nat /\ i \in Nat \ {0} /\ j \in Nat \ {0}
  OBVIOUS
<1>4. CASE i < j
  <2>1. Char(y, i) = Char(x, i) /\ i <= Len(x)
    BY <1>2, <1>3, <1>4
  <2>2. x[i] = y[i] /\ x[i] \in Characters
    BY <2>1, <1>3, CharIn
  <2>3. Code[x[i]] < Code[y[i]]
    BY <1>1, <2>1, <1>3
  <2> QED
    BY <2>2, <2>3, CodeAssumption
<1>5. CASE j < i
  <2>1. Char(y, j) = Char(x, j) /\ j <= Len(y)
    BY <1>1, <1>3, <1>5
  <2>2. x[j] = y[j] /\ x[j] \in Characters
    BY <2>1, <1>3, CharIn
  <2>3. Code[y[j]] < Code[x[j]]
    BY <1>2, <2>1, <1>3
  <2> QED
    BY <2>2, <2>3, CodeAssumption
<1>6. CASE i = j
  <2>1. Code[x[i]] < Code[y[i]] /\ Code[y[i]] < Code[x[i]]
    BY <1>1, <1>2, <1>3, <1>6
  <2>2. x[i] \in Characters /\ y[i] \in Characters
    BY <1>1, <1>2, <1>3, <1>6, ElementOfSeq
  <2> QED
    BY <2>1, <2>2, CodeAssumption
<1> QED
  BY <1>3, <1>4, <1>5, <1>6

LEMMA OneOrOther ==
  ASSUME NEW x \in Seq(Characters), NEW y \in Seq(Characters), x # y
  PROVE  Before(x, y) \/ Before(y, x)
<1> DEFINE D == {i \in Nat \ {0} : Char(x, i) # Char(y, i)}
<1>1. Len(x) \in Nat /\ Len(y) \in Nat
  OBVIOUS
<1>2. D # {}
  <2>1. SUFFICES ASSUME D = {} PROVE FALSE
    OBVIOUS
  <2>2. \A i \in Nat \ {0} : Char(x, i) = Char(y, i)
    BY <2>1
  <2>3. \A i \in Nat \ {0} : i \in 1 .. Len(x) <=> i \in 1 .. Len(y)
    BY <2>2, CharIn
  <2>4. Len(x) = Len(y)
    <3>1. Len(x) > 0 => Len(x) \in 1 .. Len(y)
      BY <2>3, <1>1
    <3>2. Len(y) > 0 => Len(y) \in 1 .. Len(x)
      BY <2>3, <1>1
    <3> QED
      BY <1>1, <3>1, <3>2
  <2>5. \A i \in 1 .. Len(x) : x[i] = y[i]
    BY <2>2, <2>4, <1>1, CharIn
  <2> QED
    BY <2>4, <2>5, SeqEqual
<1>3. PICK d \in D : \A e \in D : d <= e
  <2>1. D \subseteq Nat
    OBVIOUS
  <2> HIDE DEF D
  <2> QED
    BY <2>1, <1>2, LeastOne
<1>4. d \in Nat \ {0} /\ Char(x, d) # Char(y, d)
  OBVIOUS
<1>5. \A k \in 1 .. d - 1 : Char(x, k) = Char(y, k)
  BY <1>3, <1>4
<1> HIDE DEF D
<1>6. CASE d \notin 1 .. Len(x)
  <2>1. d \in 1 .. Len(y)
    BY <1>4, <1>6, CharIn
  <2>2. d > Len(x)
    BY <1>1, <1>4, <1>6
  <2> QED
    BY <1>5, <2>1, <2>2 DEF Before
<1>7. CASE d \notin 1 .. Len(y)
  <2>1. d \in 1 .. Len(x)
    BY <1>4, <1>7, CharIn
  <2>2. d > Len(y)
    BY <1>1, <1>4, <1>7
  <2> QED
    BY <1>5, <2>1, <2>2 DEF Before
<1>8. CASE d \in 1 .. Len(x) /\ d \in 1 .. Len(y)
  <2>1. x[d] # y[d] /\ x[d] \in Characters /\ y[d] \in Characters
    BY <1>4, <1>8, CharIn
  <2>2. Code[x[d]] # Code[y[d]] /\ Code[x[d]] \in Nat /\ Code[y[d]] \in Nat
    BY <2>1, CodeAssumption
  <2>3. Code[x[d]] < Code[y[d]] \/ Code[y[d]] < Code[x[d]]
    BY <2>2
  <2>4. d <= Len(x) /\ d <= Len(y)
    BY <1>8
  <2> QED
    BY <1>5, <1>8, <2>3, <2>4 DEF Before
<1> QED
  BY <1>6, <1>7, <1>8

-----------------------------------------------------------------------------
(* The binary search.  Its function is the only one that is what Turn makes*)
(* of it: a turn looks at the function for smaller ranges only.            *)

Ranges(table) == (1 .. Len(table) + 1) \X (0 .. Len(table))

Turn(table, name, from, r) ==
  LET mid == r[1] + ((r[2] - r[1]) \div 2)
  IN  IF r[1] > r[2] THEN 0
      ELSE IF Before(name, table[mid]) THEN from[<<r[1], mid - 1>>]
      ELSE IF Before(table[mid], name) THEN from[<<mid + 1, r[2]>>]
      ELSE mid

Size(r) == r[2] - r[1] + 1

LEMMA Halves ==
  ASSUME NEW low \in Nat \ {0}, NEW high \in Nat, low <= high
  PROVE  low + ((high - low) \div 2) \in low .. high
OBVIOUS

LEMMA Shorter ==
  ASSUME NEW low \in Nat, NEW high \in Nat, NEW m \in low .. high
  PROVE  m - 1 - low + 1 < high - low + 1 /\ high - (m + 1) + 1 < high - low + 1
OBVIOUS

LEMMA SmallerRanges ==
  ASSUME NEW names, NEW table \in Seq(names), NEW r \in Ranges(table), r[1] <= r[2],
         NEW mid, mid = r[1] + ((r[2] - r[1]) \div 2)
  PROVE  /\ mid \in r[1] .. r[2] /\ mid \in 1 .. Len(table)
         /\ <<r[1], mid - 1>> \in Ranges(table) /\ Size(<<r[1], mid - 1>>) < Size(r)
         /\ <<mid + 1, r[2]>> \in Ranges(table) /\ Size(<<mid + 1, r[2]>>) < Size(r)
<1>1. /\ Len(table) \in Nat /\ r[1] \in Nat \ {0} /\ r[2] \in Nat /\ r[1] <= Len(table) + 1
      /\ r[2] <= Len(table)
  BY DEF Ranges
<1>2. mid \in r[1] .. r[2]
  BY <1>1, Halves
<1>3. mid \in 1 .. Len(table)
  BY <1>1, <1>2
<1>4. mid - 1 \in 0 .. Len(table) /\ mid + 1 \in 1 .. Len(table) + 1
  BY <1>1, <1>3, SMTT(30)
<1>5. r[1] \in 1 .. Len(table) + 1 /\ r[2] \in 0 .. Len(table)
  BY <1>1
<1>6. <<r[1], mid - 1>> \in Ranges(table) /\ <<mid + 1, r[2]>> \in Ranges(table)
  BY <1>4, <1>5, Zenon DEF Ranges
<1>7. Size(<<r[1], mid - 1>>) = mid - 1 - r[1] + 1 /\ Size(<<mid + 1, r[2]>>) = r[2] - (mid + 1) + 1
  BY Zenon DEF Size
<1>8. mid - 1 - r[1] + 1 < Size(r) /\ r[2] - (mid + 1) + 1 < Size(r)
  BY <1>1, <1>2, Shorter, Zenon DEF Size
<1> QED
  BY <1>2, <1>3, <1>6, <1>7, <1>8

LEMMA TurnIsLocal ==
  ASSUME NEW names, NEW table \in Seq(names), NEW name, NEW f, NEW g, NEW r \in Ranges(table),
         \A q \in Ranges(table) : Size(q) < Size(r) => f[q] = g[q]
  PROVE  Turn(table, name, f, r) = Turn(table, name, g, r)
<1>1. CASE r[1] > r[2]
  BY <1>1 DEF Turn
<1>2. CASE ~ (r[1] > r[2])
  <2>1. r[1] <= r[2]
    BY <1>2 DEF Ranges
  <2> DEFINE mid == r[1] + ((r[2] - r[1]) \div 2)
  <2>2. f[<<r[1], mid - 1>>] = g[<<r[1], mid - 1>>] /\ f[<<mid + 1, r[2]>>] = g[<<mid + 1, r[2]>>]
    <3> HIDE DEF mid
    <3>1. mid = r[1] + ((r[2] - r[1]) \div 2)
      BY DEF mid
    <3> QED
      BY <2>1, <3>1, SmallerRanges
  <2> QED
    BY <1>2, <2>2, Zenon DEF Turn
<1> QED
  BY <1>1, <1>2

LEMMA SizeType ==
  ASSUME NEW names, NEW table \in Seq(names), NEW r \in Ranges(table)
  PROVE  Size(r) \in Int /\ Size(r) <= Len(table) /\ Len(table) \in Nat
BY DEF Size, Ranges

(* Up to any size there is a function that is what Turn makes of it.       *)
LEMMA SearchExists ==
  ASSUME NEW names, NEW table \in Seq(names), NEW name
  PROVE  \E f : f = [r \in Ranges(table) |-> Turn(table, name, f, r)]
<1> DEFINE Upto(k) == \E f : \A r \in Ranges(table) : Size(r) <= k => f[r] = Turn(table, name, f, r)
           Failing == {k \in Nat : ~ Upto(k)}
<1>1. Failing = {}
  <2>1. SUFFICES ASSUME Failing # {} PROVE FALSE
    OBVIOUS
  <2>2. PICK k \in Failing : \A j \in Failing : k <= j
    <3>1. Failing \subseteq Nat
      OBVIOUS
    <3> HIDE DEF Failing
    <3> QED
      BY <2>1, <3>1, LeastOne
  <2>3. k \in Nat /\ ~ Upto(k)
    OBVIOUS
  <2>4. \E f : \A r \in Ranges(table) : Size(r) < k => f[r] = Turn(table, name, f, r)
    <3>1. CASE k = 0
      <4> DEFINE f == [r \in Ranges(table) |-> 0]
      <4>1. ASSUME NEW r \in Ranges(table), Size(r) < k
            PROVE  f[r] = Turn(table, name, f, r)
        <5>1. r[1] > r[2]
          BY <3>1, <4>1 DEF Ranges, Size
        <5> QED
          BY <5>1 DEF Turn
      <4> HIDE DEF f
      <4> QED
        BY <4>1
    <3>2. CASE k > 0
      <4>1. k - 1 \in Nat /\ ~ (k <= k - 1)
        BY <2>3, <3>2
      <4>2. Upto(k - 1)
        BY <2>2, <4>1
      <4>3. \A r \in Ranges(table) : Size(r) < k => Size(r) <= k - 1
        BY <2>3, SizeType
      <4> QED
        BY <4>2, <4>3
    <3> QED
      BY <2>3, <3>1, <3>2
  <2>5. PICK f : \A r \in Ranges(table) : Size(r) < k => f[r] = Turn(table, name, f, r)
    BY <2>4
  <2> DEFINE g == [r \in Ranges(table) |-> Turn(table, name, f, r)]
  <2>6. ASSUME NEW r \in Ranges(table), Size(r) <= k
        PROVE  g[r] = Turn(table, name, g, r)
    <3>1. \A q \in Ranges(table) : Size(q) < Size(r) => f[q] = g[q]
      <4>1. \A q \in Ranges(table) : Size(q) < Size(r) => Size(q) < k
        BY <2>3, <2>6, SizeType
      <4> QED
        BY <2>5, <4>1
    <3> HIDE DEF g
    <3>2. Turn(table, name, f, r) = Turn(table, name, g, r)
      BY <3>1, TurnIsLocal
    <3>3. g[r] = Turn(table, name, f, r)
      BY DEF g
    <3> QED
      BY <3>2, <3>3
  <2> HIDE DEF g
  <2>7. Upto(k)
    BY <2>6
  <2> HIDE DEF Upto
  <2> QED
    BY <2>3, <2>7
<1>2. Upto(Len(table))
  <2>1. Len(table) \in Nat
    OBVIOUS
  <2> HIDE DEF Upto
  <2> QED
    BY <1>1, <2>1
<1>3. PICK f : \A r \in Ranges(table) : f[r] = Turn(table, name, f, r)
  BY <1>2, SizeType
<1> DEFINE g == [r \in Ranges(table) |-> Turn(table, name, f, r)]
<1>4. \A r \in Ranges(table) : Turn(table, name, f, r) = Turn(table, name, g, r)
  <2>1. \A r \in Ranges(table) : f[r] = g[r]
    BY <1>3
  <2> HIDE DEF g
  <2> QED
    BY <2>1, TurnIsLocal
<1>5. g = [r \in Ranges(table) |-> Turn(table, name, g, r)]
  <2>1. g = [r \in Ranges(table) |-> Turn(table, name, f, r)]
    OBVIOUS
  <2> HIDE DEF g
  <2> QED
    BY <1>4, <2>1
<1> QED
  BY <1>5, Zenon

From(table, name) == CHOOSE f : f = [r \in Ranges(table) |-> Turn(table, name, f, r)]

LEMMA SearchIs ==
  ASSUME NEW names, NEW table \in Seq(names), NEW name
  PROVE  /\ Search(table, name) = From(table, name)[<<1, Len(table)>>]
         /\ \A r \in Ranges(table) : From(table, name)[r] = Turn(table, name, From(table, name), r)
<1>1. Search(table, name) = From(table, name)[<<1, Len(table)>>]
  BY Zenon DEF Search, From, Turn, Ranges
<1>2. From(table, name) = [r \in Ranges(table) |-> Turn(table, name, From(table, name), r)]
  BY SearchExists, Zenon DEF From
<1>3. \A r \in Ranges(table) : From(table, name)[r] = Turn(table, name, From(table, name), r)
  <2> DEFINE f == From(table, name)
  <2>1. f = [r \in Ranges(table) |-> Turn(table, name, f, r)]
    BY <1>2
  <2> HIDE DEF f
  <2>2. \A r \in Ranges(table) : f[r] = Turn(table, name, f, r)
    BY <2>1
  <2> QED
    BY <2>2 DEF f
<1> QED
  BY <1>1, <1>3

(* The table is in order.                                                  *)
InOrder(table) ==
  table \in Seq(Seq(Characters)) /\ \A i, j \in DOMAIN table : i < j => Before(table[i], table[j])

(* What f says of a range of the table is right.                           *)
Right(table, name, f, r) ==
  \/ f[r] \in r[1] .. r[2] /\ table[f[r]] = name
  \/ f[r] = 0 /\ \A i \in r[1] .. r[2] : table[i] # name

LEMMA OneTurn ==
  ASSUME NEW table, InOrder(table), NEW name \in Seq(Characters), NEW f, NEW r \in Ranges(table),
         f[r] = Turn(table, name, f, r),
         \A q \in Ranges(table) : Size(q) < Size(r) => Right(table, name, f, q)
  PROVE  Right(table, name, f, r)
<1>1. /\ Len(table) \in Nat /\ r[1] \in Nat \ {0} /\ r[2] \in Nat /\ r[1] <= Len(table) + 1
      /\ r[2] <= Len(table) /\ DOMAIN table = 1 .. Len(table)
  BY DEF Ranges, InOrder
<1>2. CASE r[1] > r[2]
  <2>1. f[r] = 0
    BY <1>2 DEF Turn
  <2> QED
    BY <1>1, <1>2, <2>1 DEF Right
<1>3. CASE r[1] <= r[2]
  <2>0. ~ (r[1] > r[2])
    BY <1>1, <1>3
  <2> DEFINE mid == r[1] + ((r[2] - r[1]) \div 2)
             left == <<r[1], mid - 1>>
             right == <<mid + 1, r[2]>>
  <2>1. mid = r[1] + ((r[2] - r[1]) \div 2)
    OBVIOUS
  <2>2. f[r] = IF Before(name, table[mid]) THEN f[left]
               ELSE IF Before(table[mid], name) THEN f[right] ELSE mid
    BY <2>0, Zenon DEF Turn
  <2> HIDE DEF mid
  <2>3. /\ mid \in r[1] .. r[2] /\ mid \in 1 .. Len(table)
        /\ left \in Ranges(table) /\ Size(left) < Size(r)
        /\ right \in Ranges(table) /\ Size(right) < Size(r)
    BY <1>3, <2>1, SmallerRanges, Zenon DEF InOrder
  <2>4. left[1] = r[1] /\ left[2] = mid - 1 /\ right[1] = mid + 1 /\ right[2] = r[2]
    OBVIOUS
  <2> HIDE DEF left, right
  <2>5. Right(table, name, f, left) /\ Right(table, name, f, right)
    BY <2>3
  <2>6. \A i \in r[1] .. r[2] : i \in DOMAIN table /\ table[i] \in Seq(Characters)
    BY <1>1, ElementOfSeq DEF InOrder
  <2>7. mid \in Int /\ mid \in DOMAIN table /\ table[mid] \in Seq(Characters)
    BY <1>1, <2>3, <2>6
  <2>8. CASE Before(name, table[mid])
    <3>1. f[r] = f[left]
      BY <2>2, <2>8
    <3>2. ASSUME NEW i \in r[1] .. r[2], ~ (i < mid)
          PROVE  table[i] # name
      <4>1. CASE i = mid
        BY <2>7, <2>8, <4>1, NotBoth
      <4>2. CASE mid < i
        <5>1. Before(table[mid], table[i])
          BY <2>6, <2>7, <4>2 DEF InOrder
        <5> QED
          BY <2>7, <2>8, <5>1, NotBoth
      <4> QED
        BY <1>1, <2>7, <3>2, <4>1, <4>2
    <3>3. CASE f[left] \in left[1] .. left[2] /\ table[f[left]] = name
      <4>1. f[r] \in r[1] .. r[2]
        BY <1>1, <2>3, <2>4, <3>1, <3>3
      <4> QED
        BY <3>1, <3>3, <4>1 DEF Right
    <3>4. CASE f[left] = 0 /\ \A i \in left[1] .. left[2] : table[i] # name
      <4>1. ASSUME NEW i \in r[1] .. r[2]
            PROVE  table[i] # name
        <5>1. i < mid => i \in left[1] .. left[2]
          BY <1>1, <2>4, <2>7
        <5> QED
          BY <3>2, <3>4, <5>1
      <4> QED
        BY <3>1, <3>4, <4>1 DEF Right
    <3> QED
      BY <2>5, <3>3, <3>4 DEF Right
  <2>9. CASE Before(table[mid], name)
    <3>0. ~ Before(name, table[mid])
      BY <2>7, <2>9, NotBoth
    <3>1. f[r] = f[right]
      BY <2>2, <2>9, <3>0
    <3>2. ASSUME NEW i \in r[1] .. r[2], ~ (mid < i)
          PROVE  table[i] # name
      <4>1. CASE i = mid
        BY <2>7, <2>9, <4>1, NotBoth
      <4>2. CASE i < mid
        <5>1. Before(table[i], table[mid])
          BY <2>6, <2>7, <4>2 DEF InOrder
        <5> QED
          BY <2>7, <2>9, <5>1, NotBoth
      <4> QED
        BY <1>1, <2>7, <3>2, <4>1, <4>2
    <3>3. CASE f[right] \in right[1] .. right[2] /\ table[f[right]] = name
      <4>1. f[r] \in r[1] .. r[2]
        BY <1>1, <2>3, <2>4, <3>1, <3>3
      <4> QED
        BY <3>1, <3>3, <4>1 DEF Right
    <3>4. CASE f[right] = 0 /\ \A i \in right[1] .. right[2] : table[i] # name
      <4>1. ASSUME NEW i \in r[1] .. r[2]
            PROVE  table[i] # name
        <5>1. mid < i => i \in right[1] .. right[2]
          BY <1>1, <2>4, <2>7
        <5> QED
          BY <3>2, <3>4, <5>1
      <4> QED
        BY <3>1, <3>4, <4>1 DEF Right
    <3> QED
      BY <2>5, <3>3, <3>4 DEF Right
  <2>10. CASE ~ Before(name, table[mid]) /\ ~ Before(table[mid], name)
    <3>1. name = table[mid]
      BY <2>7, <2>10, OneOrOther
    <3>2. f[r] = mid
      BY <2>2, <2>10
    <3> QED
      BY <2>3, <3>1, <3>2 DEF Right
  <2> QED
    BY <2>8, <2>9, <2>10
<1> QED
  BY <1>1, <1>2, <1>3

LEMMA SearchFinds ==
  ASSUME NEW table, InOrder(table), NEW name \in Seq(Characters)
  PROVE  \/ Search(table, name) \in DOMAIN table /\ table[Search(table, name)] = name
         \/ Search(table, name) = 0 /\ name \notin Names(table)
<1> DEFINE f == From(table, name)
           Wrong == {k \in Nat : \E r \in Ranges(table) : Size(r) <= k /\ ~ Right(table, name, f, r)}
<1>0. table \in Seq(Seq(Characters)) /\ Len(table) \in Nat /\ DOMAIN table = 1 .. Len(table)
  BY DEF InOrder
<1>1. \A r \in Ranges(table) : f[r] = Turn(table, name, f, r)
  BY <1>0, SearchIs
<1>2. Search(table, name) = f[<<1, Len(table)>>]
  BY <1>0, SearchIs
<1> HIDE DEF f
<1>3. Wrong = {}
  <2>1. SUFFICES ASSUME Wrong # {} PROVE FALSE
    OBVIOUS
  <2>2. PICK k \in Wrong : \A j \in Wrong : k <= j
    <3>1. Wrong \subseteq Nat
      OBVIOUS
    <3> HIDE DEF Wrong
    <3> QED
      BY <2>1, <3>1, LeastOne
  <2>3. k \in Nat
    OBVIOUS
  <2>4. PICK r \in Ranges(table) : Size(r) <= k /\ ~ Right(table, name, f, r)
    OBVIOUS
  <2>5. Size(r) \in Int
    BY <1>0, SizeType
  <2>6. ASSUME NEW q \in Ranges(table), Size(q) < Size(r), ~ Right(table, name, f, q)
        PROVE  FALSE
    <3>1. Size(q) \in Int
      BY <1>0, SizeType
    <3>2. CASE k = 0
      <4>1. q[1] > q[2]
        BY <2>4, <2>5, <2>6, <3>1, <3>2, SMTT(30) DEF Ranges, Size
      <4>2. f[q] = 0
        BY <1>1, <4>1 DEF Turn
      <4>3. ~ \E i \in q[1] .. q[2] : TRUE
        BY <4>1 DEF Ranges
      <4> QED
        BY <2>6, <4>2, <4>3 DEF Right
    <3>3. CASE k > 0
      <4>1. k - 1 \in Nat /\ Size(q) <= k - 1 /\ ~ (k <= k - 1)
        BY <2>3, <2>4, <2>5, <2>6, <3>1, <3>3
      <4>2. k - 1 \in Wrong
        BY <2>6, <4>1
      <4> QED
        BY <2>2, <4>1, <4>2
    <3> QED
      BY <2>3, <3>2, <3>3
  <2>7. Right(table, name, f, r)
    BY <1>1, <2>6, OneTurn
  <2> QED
    BY <2>4, <2>7
<1>4. <<1, Len(table)>> \in Ranges(table)
  BY <1>0 DEF Ranges
<1>5. Right(table, name, f, <<1, Len(table)>>)
  <2>1. Len(table) \notin Wrong
    BY <1>3
  <2> QED
    BY <1>0, <1>4, <2>1, SizeType
<1> QED
  BY <1>0, <1>2, <1>5 DEF Right, Names

(* The two tables one after the other.                                     *)
Mnemonics == Table \o Pseudo

LEMMA TablesAre ==
  /\ Table \in Seq(Seq(Characters)) /\ Pseudo \in Seq(Seq(Characters))
  /\ Len(Table) \in Nat /\ Len(Pseudo) \in Nat
  /\ DOMAIN Table = 1 .. Len(Table) /\ DOMAIN Pseudo = 1 .. Len(Pseudo)
<1>1. Table \in Seq(Seq(Characters)) /\ Pseudo \in Seq(Seq(Characters))
  BY TableAssumption, Zenon
<1> QED
  BY <1>1

LEMMA MnemonicsAre ==
  /\ Len(Mnemonics) = Len(Table) + Len(Pseudo) /\ DOMAIN Mnemonics = 1 .. Len(Table) + Len(Pseudo)
  /\ \A i \in DOMAIN Table : Mnemonics[i] = Table[i]
  /\ \A i \in DOMAIN Pseudo : Mnemonics[Len(Table) + i] = Pseudo[i]
  /\ \A i \in DOMAIN Mnemonics : i \in DOMAIN Table \/ i - Len(Table) \in DOMAIN Pseudo
BY TablesAre, ConcatProperties, SMTT(30) DEF Mnemonics

LEMMA OnlyPlace ==
  ASSUME NEW i \in DOMAIN Mnemonics, NEW j \in DOMAIN Mnemonics, Mnemonics[i] = Mnemonics[j]
  PROVE  i = j
<1>1. /\ Len(Table) \in Nat /\ Len(Pseudo) \in Nat
      /\ DOMAIN Table = 1 .. Len(Table) /\ DOMAIN Pseudo = 1 .. Len(Pseudo) /\ i \in Int /\ j \in Int
  BY TablesAre, MnemonicsAre
<1>2. ASSUME NEW t \in {Table, Pseudo}, NEW m \in DOMAIN t, NEW n \in DOMAIN t, t[m] = t[n]
      PROVE  m = n
  <2>1. t \in Seq(Seq(Characters)) /\ m \in Int /\ n \in Int /\ t[m] \in Seq(Characters)
    <3>1. t \in Seq(Seq(Characters))
      BY TablesAre
    <3> QED
      BY <3>1, ElementOfSeq
  <2>2. ~ (m < n) /\ ~ (n < m)
    BY <1>2, <2>1, TableAssumption, NotBoth
  <2> QED
    BY <2>1, <2>2
<1>3. ASSUME NEW m \in DOMAIN Table, NEW n \in DOMAIN Pseudo
      PROVE  Table[m] # Pseudo[n]
  BY TableAssumption DEF Names
<1>4. CASE i \in DOMAIN Table /\ j \in DOMAIN Table
  BY <1>2, <1>4, MnemonicsAre
<1>5. CASE i - Len(Table) \in DOMAIN Pseudo /\ j - Len(Table) \in DOMAIN Pseudo
  <2> DEFINE m == i - Len(Table)
             n == j - Len(Table)
  <2>1. m \in DOMAIN Pseudo /\ n \in DOMAIN Pseudo /\ i = Len(Table) + m /\ j = Len(Table) + n
    BY <1>1, <1>5
  <2> HIDE DEF m, n
  <2>2. Pseudo[m] = Pseudo[n]
    BY <2>1, MnemonicsAre
  <2> QED
    BY <1>2, <2>1, <2>2
<1>6. ASSUME NEW m \in DOMAIN Mnemonics, NEW n \in DOMAIN Mnemonics, Mnemonics[m] = Mnemonics[n],
             m \in DOMAIN Table, n - Len(Table) \in DOMAIN Pseudo
      PROVE  FALSE
  <2> DEFINE d == n - Len(Table)
  <2>1. d \in DOMAIN Pseudo /\ n = Len(Table) + d
    BY <1>1, <1>6, MnemonicsAre
  <2> HIDE DEF d
  <2>2. Mnemonics[n] = Pseudo[d] /\ Mnemonics[m] = Table[m]
    BY <1>6, <2>1, MnemonicsAre
  <2> QED
    BY <1>3, <1>6, <2>1, <2>2
<1> QED
  BY <1>4, <1>5, <1>6, MnemonicsAre

LEMMA MneLookFinds ==
  ASSUME NEW name \in Seq(Characters)
  PROVE  MneLook(name) = IF name \in Names(Mnemonics)
                         THEN CHOOSE i \in DOMAIN Mnemonics : Mnemonics[i] = name ELSE 0
<1> DEFINE m == Search(Table, name)
           q == Search(Pseudo, name)
<1>1. InOrder(Table) /\ InOrder(Pseudo)
  BY TableAssumption, Zenon DEF InOrder
<1>2. (m \in DOMAIN Table /\ Table[m] = name) \/ (m = 0 /\ name \notin Names(Table))
  BY <1>1, SearchFinds, Zenon
<1>3. (q \in DOMAIN Pseudo /\ Pseudo[q] = name) \/ (q = 0 /\ name \notin Names(Pseudo))
  BY <1>1, SearchFinds, Zenon
<1>4. MneLook(name) = IF m # 0 THEN m ELSE IF q # 0 THEN Len(Table) + q ELSE 0
  BY Zenon DEF MneLook
<1> HIDE DEF m, q
<1>5. DOMAIN Table = 1 .. Len(Table) /\ DOMAIN Pseudo = 1 .. Len(Pseudo) /\ Len(Table) \in Nat /\ Len(Pseudo) \in Nat
  BY TablesAre
<1>6. ASSUME NEW k \in DOMAIN Mnemonics, Mnemonics[k] = name, MneLook(name) = k
      PROVE  MneLook(name) = IF name \in Names(Mnemonics)
                             THEN CHOOSE i \in DOMAIN Mnemonics : Mnemonics[i] = name ELSE 0
  <2>1. name \in Names(Mnemonics)
    BY <1>6 DEF Names
  <2>2. (CHOOSE i \in DOMAIN Mnemonics : Mnemonics[i] = name) = k
    BY <1>6, OnlyPlace
  <2> QED
    BY <1>6, <2>1, <2>2
<1>7. CASE m # 0
  <2>1. m \in DOMAIN Mnemonics /\ Mnemonics[m] = name
    BY <1>2, <1>5, <1>7, MnemonicsAre
  <2> QED
    BY <1>4, <1>6, <1>7, <2>1
<1>8. CASE m = 0 /\ q # 0
  <2>1. Len(Table) + q \in DOMAIN Mnemonics /\ Mnemonics[Len(Table) + q] = name
    BY <1>3, <1>5, <1>8, MnemonicsAre
  <2>2. MneLook(name) = Len(Table) + q
    BY <1>4, <1>8
  <2> QED
    BY <1>6, <2>1, <2>2
<1>9. CASE m = 0 /\ q = 0
  <2>1. name \notin Names(Table) /\ name \notin Names(Pseudo)
    BY <1>2, <1>3, <1>5, <1>9
  <2>2. ASSUME NEW i \in DOMAIN Mnemonics
        PROVE  Mnemonics[i] # name
    <3>1. CASE i \in DOMAIN Table
      BY <2>1, <3>1, MnemonicsAre DEF Names
    <3>2. CASE i - Len(Table) \in DOMAIN Pseudo
      <4> DEFINE d == i - Len(Table)
      <4>1. d \in DOMAIN Pseudo /\ i = Len(Table) + d
        BY <1>5, <3>2, MnemonicsAre
      <4> HIDE DEF d
      <4> QED
        BY <2>1, <4>1, MnemonicsAre DEF Names
    <3> QED
      BY <3>1, <3>2, MnemonicsAre
  <2>3. name \notin Names(Mnemonics)
    BY <2>2 DEF Names
  <2> QED
    BY <1>4, <1>9, <2>3
<1> QED
  BY <1>7, <1>8, <1>9

-----------------------------------------------------------------------------
(* The scans of parse_line.                                                *)

LEMMA BufferSize ==
  ASSUME program \in Programs
  PROVE  MAXBUF \in Nat /\ MAXBUF > 2 /\ program.files \in Seq(Seq(Characters)) /\ program.files # <<>>
BY ProgramAssumption, Zenon DEF MAXBUF

LEMMA ScanTo ==
  ASSUME MAXBUF \in Nat, NEW buf, NEW S, NEW p \in Nat, NEW z \in p .. MAXBUF - 1, buf[z] \in S
  PROVE  /\ To(buf, p, S) \in p .. z /\ buf[To(buf, p, S)] \in S
         /\ \A q \in p .. To(buf, p, S) - 1 : buf[q] \notin S
<1> DEFINE T == {q \in p .. MAXBUF - 1 : buf[q] \in S} \cup {MAXBUF}
           m == Min(T)
<1>1. T \subseteq Nat /\ z \in T
  OBVIOUS
<1>2. m \in T /\ \A y \in T : m <= y
  <2> HIDE DEF T
  <2> QED
    BY <1>1, MinIsLeast, Zenon
<1>3. To(buf, p, S) = m
  BY Zenon DEF To
<1> HIDE DEF m
<1>4. m <= z /\ m \in Nat
  BY <1>1, <1>2
<1>5. m \in p .. z /\ buf[m] \in S
  BY <1>2, <1>4
<1>6. ASSUME NEW q \in p .. m - 1
      PROVE  buf[q] \notin S
  <2>1. q \notin T
    <3>1. ~ (m <= q)
      BY <1>4
    <3> HIDE DEF T
    <3> QED
      BY <1>2, <3>1
  <2> QED
    BY <1>4, <2>1
<1> QED
  BY <1>3, <1>5, <1>6

LEMMA ScanPast ==
  ASSUME MAXBUF \in Nat, NEW buf, NEW S, NEW p \in Nat, NEW z \in p .. MAXBUF - 1, buf[z] \notin S
  PROVE  /\ Past(buf, p, S) \in p .. z /\ buf[Past(buf, p, S)] \notin S
         /\ \A q \in p .. Past(buf, p, S) - 1 : buf[q] \in S
<1> DEFINE T == {q \in p .. MAXBUF - 1 : buf[q] \notin S} \cup {MAXBUF}
           m == Min(T)
<1>1. T \subseteq Nat /\ z \in T
  OBVIOUS
<1>2. m \in T /\ \A y \in T : m <= y
  <2> HIDE DEF T
  <2> QED
    BY <1>1, MinIsLeast, Zenon
<1>3. Past(buf, p, S) = m
  BY Zenon DEF Past
<1> HIDE DEF m
<1>4. m <= z /\ m \in Nat
  BY <1>1, <1>2
<1>5. m \in p .. z /\ buf[m] \notin S
  BY <1>2, <1>4
<1>6. ASSUME NEW q \in p .. m - 1
      PROVE  buf[q] \in S
  <2>1. q \notin T
    <3>1. ~ (m <= q)
      BY <1>4
    <3> HIDE DEF T
    <3> QED
      BY <1>2, <3>1
  <2> QED
    BY <1>4, <2>1
<1> QED
  BY <1>3, <1>5, <1>6

LabelEnd(buf)     == To(buf, 0, Delim)
OpStart(buf)      == Past(buf, LabelEnd(buf), White)
OpEnd(buf)        == To(buf, OpStart(buf), Delim)
OperandStart(buf) == Past(buf, OpEnd(buf), White)
Stop(buf)         == To(buf, OperandStart(buf), {NEWLINE})

LEMMA SplitIs ==
  ASSUME NEW buf
  PROVE  Split(buf) =
           [label   |-> CString(buf, 0, IF LabelEnd(buf) > 0 /\ buf[LabelEnd(buf) - 1] = ":"
                                        THEN LabelEnd(buf) - 1 ELSE LabelEnd(buf)),
            op      |-> Lowered(CString(buf, OpStart(buf), OpEnd(buf))),
            operand |-> CString(buf, OperandStart(buf), Stop(buf)),
            last    |-> Stop(buf)]
BY Zenon DEF Split, LabelEnd, OpStart, OpEnd, OperandStart, Stop

LEMMA Newline == NEWLINE \in Delim /\ NEWLINE \notin White /\ White \subseteq Delim /\ NEWLINE # EOS
                 /\ \A c \in Delim : c \in White \/ c = NEWLINE
BY DEF NEWLINE, White, Delim, EOS

(* Every scan ends at a newline at the latest.                             *)
LEMMA Scans ==
  ASSUME MAXBUF \in Nat, NEW buf, NEW z \in 0 .. MAXBUF - 1, buf[z] = NEWLINE
  PROVE  /\ LabelEnd(buf) \in 0 .. z /\ buf[LabelEnd(buf)] \in Delim
         /\ \A q \in 0 .. LabelEnd(buf) - 1 : buf[q] \notin Delim
         /\ OpStart(buf) \in LabelEnd(buf) .. z /\ buf[OpStart(buf)] \notin White
         /\ \A q \in LabelEnd(buf) .. OpStart(buf) - 1 : buf[q] \in White
         /\ OpEnd(buf) \in OpStart(buf) .. z /\ buf[OpEnd(buf)] \in Delim
         /\ \A q \in OpStart(buf) .. OpEnd(buf) - 1 : buf[q] \notin Delim
         /\ OperandStart(buf) \in OpEnd(buf) .. z /\ buf[OperandStart(buf)] \notin White
         /\ \A q \in OpEnd(buf) .. OperandStart(buf) - 1 : buf[q] \in White
         /\ Stop(buf) \in OperandStart(buf) .. z /\ buf[Stop(buf)] = NEWLINE
         /\ \A q \in OperandStart(buf) .. Stop(buf) - 1 : buf[q] # NEWLINE
<1> DEFINE l == LabelEnd(buf)
           o == OpStart(buf)
           p == OpEnd(buf)
           r == OperandStart(buf)
           e == Stop(buf)
<1>0. z \in Nat /\ z <= MAXBUF - 1
  OBVIOUS
<1>1. l \in 0 .. z /\ buf[l] \in Delim /\ \A q \in 0 .. l - 1 : buf[q] \notin Delim
  BY ScanTo, Newline, Zenon DEF LabelEnd
<1>2. o \in l .. z /\ buf[o] \notin White /\ \A q \in l .. o - 1 : buf[q] \in White
  <2>1. l \in Nat /\ z \in l .. MAXBUF - 1
    BY <1>0, <1>1
  <2> QED
    BY <2>1, ScanPast, Newline, Zenon DEF OpStart
<1>3. p \in o .. z /\ buf[p] \in Delim /\ \A q \in o .. p - 1 : buf[q] \notin Delim
  <2>1. o \in Nat /\ z \in o .. MAXBUF - 1
    BY <1>0, <1>1, <1>2
  <2> QED
    BY <2>1, ScanTo, Newline, Zenon DEF OpEnd
<1>4. r \in p .. z /\ buf[r] \notin White /\ \A q \in p .. r - 1 : buf[q] \in White
  <2>1. p \in Nat /\ z \in p .. MAXBUF - 1
    BY <1>0, <1>1, <1>2, <1>3
  <2> QED
    BY <2>1, ScanPast, Newline, Zenon DEF OperandStart
<1>5. e \in r .. z /\ buf[e] \in {NEWLINE} /\ \A q \in r .. e - 1 : buf[q] \notin {NEWLINE}
  <2>1. r \in Nat /\ z \in r .. MAXBUF - 1
    BY <1>0, <1>1, <1>2, <1>3, <1>4
  <2>2. buf[z] \in {NEWLINE}
    OBVIOUS
  <2> QED
    BY <2>1, <2>2, ScanTo, Zenon DEF Stop
<1> HIDE DEF l, o, p, r, e
<1>6. buf[e] = NEWLINE /\ \A q \in r .. e - 1 : buf[q] # NEWLINE
  BY <1>5
<1> QED
  BY <1>1, <1>2, <1>3, <1>4, <1>5, <1>6 DEF l, o, p, r, e

(* A C string ends at the first EOS.                                       *)
Cut(buf, p, e) == [i \in 1 .. e - p |-> buf[p + i - 1]]

LEMMA CStringIs ==
  ASSUME NEW buf, NEW p \in Nat, NEW q \in Nat, NEW e \in p .. q, e = q \/ buf[e] = EOS,
         \A k \in p .. e - 1 : buf[k] # EOS
  PROVE  CString(buf, p, q) = Cut(buf, p, e)
<1> DEFINE T == {k \in p .. q - 1 : buf[k] = EOS} \cup {q}
           m == Min(T)
<1>1. T \subseteq Nat /\ e \in T
  OBVIOUS
<1>2. m \in T /\ m <= e
  <2> HIDE DEF T
  <2> QED
    BY <1>1, MinIsLeast, Zenon
<1>3. CString(buf, p, q) = [i \in 1 .. m - p |-> buf[p + i - 1]]
  BY Zenon DEF CString
<1> HIDE DEF m
<1>4. ~ (m < e)
  BY <1>2
<1>5. m \in Nat
  BY <1>1, <1>2
<1>6. m = e
  BY <1>2, <1>4, <1>5
<1> QED
  BY <1>3, <1>6 DEF Cut

LEMMA CStringType ==
  ASSUME MAXBUF \in Nat, NEW buf \in [0 .. MAXBUF - 1 -> Characters \cup {EOS}],
         NEW p \in Nat, NEW q \in p .. MAXBUF
  PROVE  CString(buf, p, q) \in Seq(Characters)
<1>1. \E e \in p .. q : (e = q \/ buf[e] = EOS) /\ \A k \in p .. e - 1 : buf[k] # EOS
  <2> DEFINE T == {k \in p .. q : k = q \/ buf[k] = EOS}
  <2>1. PICK e \in T : \A k \in T : e <= k
    <3>1. T \subseteq Nat /\ q \in T
      OBVIOUS
    <3> HIDE DEF T
    <3> QED
      BY <3>1, LeastOne
  <2>2. e \in p .. q /\ (e = q \/ buf[e] = EOS) /\ q \in Nat
    OBVIOUS
  <2>3. \A k \in p .. e - 1 : k \notin T
    BY <2>1, <2>2
  <2> QED
    BY <2>2, <2>3
<1>2. PICK e \in p .. q : (e = q \/ buf[e] = EOS) /\ \A k \in p .. e - 1 : buf[k] # EOS
  BY <1>1
<1>4. e \in p .. q /\ q \in Nat /\ \A k \in p .. e - 1 : buf[k] # EOS
  BY <1>2
<1>5. CString(buf, p, q) = Cut(buf, p, e)
  BY <1>2, <1>4, CStringIs
<1>6. \A k \in p .. e - 1 : buf[k] \in Characters
  BY <1>2, <1>4
<1>7. ASSUME NEW i \in 1 .. e - p
      PROVE  buf[p + i - 1] \in Characters
  <2>1. p + i - 1 \in p .. e - 1
    BY <1>2
  <2> QED
    BY <1>6, <2>1
<1> QED
  BY <1>2, <1>5, <1>7 DEF Cut

LEMMA LoweredType ==
  ASSUME NEW x \in Seq(Characters)
  PROVE  Lowered(x) \in Seq(Characters)
<1>1. DOMAIN x = 1 .. Len(x) /\ Len(x) \in Nat
  OBVIOUS
<1>2. \A i \in 1 .. Len(x) : MapDn(x[i]) \in Characters
  BY CodeAssumption, ElementOfSeq
<1> QED
  BY <1>1, <1>2 DEF Lowered

-----------------------------------------------------------------------------
(* What fgets takes.                                                       *)

LEMMA TakenIs ==
  ASSUME rest \in Seq(Characters), rest # <<>>, NEW size \in Nat, size > 1
  PROVE  /\ Taken(size) \in 1 .. Len(rest) /\ Taken(size) <= size - 1
         /\ \A i \in 1 .. Taken(size) - 1 : rest[i] # NEWLINE
<1> DEFINE T == {i \in 1 .. Len(rest) : rest[i] = NEWLINE} \cup {Len(rest), size - 1}
           m == Min(T)
<1>1. Len(rest) \in Nat \ {0}
  OBVIOUS
<1>2. T \subseteq Nat /\ Len(rest) \in T /\ size - 1 \in T
  BY <1>1
<1>3. m \in T /\ \A y \in T : m <= y
  <2> HIDE DEF T
  <2> QED
    BY <1>2, MinIsLeast, Zenon
<1>4. Taken(size) = m
  BY Zenon DEF Taken
<1> HIDE DEF m
<1>5. m \in 1 .. Len(rest) /\ m <= size - 1
  BY <1>1, <1>2, <1>3
<1>6. ASSUME NEW i \in 1 .. m - 1
      PROVE  rest[i] # NEWLINE
  <2>1. i \notin T
    <3>1. ~ (m <= i)
      BY <1>5
    <3> HIDE DEF T
    <3> QED
      BY <1>3, <3>1
  <2> QED
    BY <1>5, <2>1
<1> QED
  BY <1>4, <1>5, <1>6

LineTypes ==
  /\ program \in Programs /\ file \in 1 .. Len(program.files)
  /\ rest \in Seq(Characters)
  /\ Line \in [0 .. MAXBUF - 1 -> Characters \cup {EOS}]
  /\ Op \in Seq(Characters)
  /\ last \in Nat

(* The newline that initialize has written is still there.                 *)
Stopper == Line[MAXBUF - 1] = NEWLINE

LineInv == LineTypes /\ Stopper /\ StaysInTheBuffer /\ FindsTheMnemonic

LEMMA FilledIs ==
  ASSUME LineTypes, Stopper, rest # <<>>, NEW k, k = Taken(MAXBUF - 1)
  PROVE  /\ k \in 1 .. Len(rest) /\ k <= MAXBUF - 2
         /\ Filled(k) \in [0 .. MAXBUF - 1 -> Characters \cup {EOS}]
         /\ Filled(k)[MAXBUF - 1] = NEWLINE /\ Filled(k)[k] = EOS
         /\ \A i \in 0 .. k - 1 : Filled(k)[i] = rest[i + 1]
         /\ \A i \in 1 .. k - 1 : rest[i] # NEWLINE
<1>1. MAXBUF \in Nat /\ MAXBUF > 2 /\ rest \in Seq(Characters)
  BY BufferSize DEF LineTypes
<1> DEFINE M == MAXBUF
<1>2. M - 1 \in Nat /\ M - 1 > 1 /\ M \in Nat
  BY <1>1
<1>3. k \in 1 .. Len(rest) /\ k <= M - 1 - 1 /\ \A i \in 1 .. k - 1 : rest[i] # NEWLINE
  BY <1>1, <1>2, TakenIs
<1>4. Filled(k) = [i \in 0 .. M - 1 |-> IF i < k THEN rest[i + 1] ELSE IF i = k THEN EOS ELSE Line[i]]
  BY Zenon DEF Filled
<1>5. Line \in [0 .. M - 1 -> Characters \cup {EOS}] /\ Line[M - 1] = NEWLINE
  BY DEF LineTypes, Stopper
<1> HIDE DEF M
<1>6. \A i \in 0 .. M - 1 : i < k => rest[i + 1] \in Characters
  <2>1. \A i \in 0 .. M - 1 : i < k => i + 1 \in 1 .. Len(rest)
    BY <1>2, <1>3
  <2> QED
    BY <1>1, <2>1, ElementOfSeq
<1>7. Filled(k) \in [0 .. M - 1 -> Characters \cup {EOS}]
  BY <1>4, <1>5, <1>6
<1>8. /\ Filled(k)[M - 1] = NEWLINE /\ Filled(k)[k] = EOS
      /\ \A i \in 0 .. k - 1 : Filled(k)[i] = rest[i + 1]
  BY <1>2, <1>3, <1>4, <1>5, SMTT(30)
<1>9. k <= M - 2
  BY <1>2, <1>3
<1> QED
  BY <1>3, <1>7, <1>8, <1>9 DEF M

-----------------------------------------------------------------------------
(* What a line leaves.                                                     *)

LEMMA NamesBegin ==
  ASSUME NEW name \in Names(Mnemonics)
  PROVE  Char(name, 1) # EOS /\ Char(name, 1) # ";"
<1>1. PICK i \in DOMAIN Mnemonics : Mnemonics[i] = name
  BY DEF Names
<1>2. name \in Names(Table) \cup Names(Pseudo)
  <2>1. CASE i \in DOMAIN Table
    BY <1>1, <2>1, MnemonicsAre DEF Names
  <2>2. CASE i - Len(Table) \in DOMAIN Pseudo
    <3> DEFINE d == i - Len(Table)
    <3>1. d \in DOMAIN Pseudo /\ i = Len(Table) + d
      BY <1>1, <2>2, TablesAre, MnemonicsAre
    <3> HIDE DEF d
    <3> QED
      BY <1>1, <3>1, MnemonicsAre DEF Names
  <2> QED
    BY <1>1, <2>1, <2>2, MnemonicsAre
<1> QED
  BY <1>2, TableAssumption, Zenon

(* Where the line that was read is split.                                  *)
LEMMA LineScans ==
  ASSUME LineTypes, Stopper, rest # <<>>, NEW buf, buf = Filled(Taken(MAXBUF - 1))
  PROVE  /\ Stop(buf) \in 0 .. MAXBUF - 1
         /\ Split(buf).op \in Seq(Characters) /\ Split(buf).last = Stop(buf)
<1>1. MAXBUF \in Nat /\ MAXBUF > 2
  BY BufferSize DEF LineTypes
<1>2. buf \in [0 .. MAXBUF - 1 -> Characters \cup {EOS}] /\ buf[MAXBUF - 1] = NEWLINE
  BY FilledIs
<1>3. MAXBUF - 1 \in 0 .. MAXBUF - 1
  BY <1>1
<1>4. /\ LabelEnd(buf) \in 0 .. MAXBUF - 1 /\ OpStart(buf) \in LabelEnd(buf) .. MAXBUF - 1
      /\ OpEnd(buf) \in OpStart(buf) .. MAXBUF - 1 /\ OperandStart(buf) \in OpEnd(buf) .. MAXBUF - 1
      /\ Stop(buf) \in OperandStart(buf) .. MAXBUF - 1
  BY <1>1, <1>2, <1>3, Scans
<1>5. /\ OpStart(buf) \in Nat /\ OpEnd(buf) \in OpStart(buf) .. MAXBUF /\ Stop(buf) \in 0 .. MAXBUF - 1
  BY <1>1, <1>4
<1>6. CString(buf, OpStart(buf), OpEnd(buf)) \in Seq(Characters)
  BY <1>1, <1>2, <1>5, CStringType
<1>7. Lowered(CString(buf, OpStart(buf), OpEnd(buf))) \in Seq(Characters)
  BY <1>6, LoweredType
<1>8. Split(buf).op = Lowered(CString(buf, OpStart(buf), OpEnd(buf))) /\ Split(buf).last = Stop(buf)
  BY SplitIs
<1> QED
  BY <1>5, <1>7, <1>8

LEMMA LineStarts ==
  ASSUME LineInit
  PROVE  LineInv
<1>1. MAXBUF \in Nat /\ MAXBUF > 2 /\ program.files \in Seq(Seq(Characters)) /\ program.files # <<>>
  BY BufferSize DEF LineInit
<1>2. 1 \in 1 .. Len(program.files) /\ program.files[1] \in Seq(Characters)
  BY <1>1, ElementOfSeq
<1>3. Line = [i \in 0 .. MAXBUF - 1 |-> IF i = MAXBUF - 1 THEN NEWLINE ELSE EOS]
  BY DEF LineInit, Initialize
<1>4. Line \in [0 .. MAXBUF - 1 -> Characters \cup {EOS}] /\ Line[MAXBUF - 1] = NEWLINE
  BY <1>1, <1>3, CodeAssumption
<1>5. Op = <<>> /\ Op \in Seq(Characters) /\ last = 0 /\ found = 0
  BY DEF LineInit
<1>6. Op \notin Names(Mnemonics)
  <2>1. Char(Op, 1) = EOS
    BY <1>5 DEF Char
  <2> QED
    BY <2>1, NamesBegin
<1>7. FindsTheMnemonic
  BY <1>5, <1>6, Zenon DEF FindsTheMnemonic, Mnemonics
<1> QED
  BY <1>1, <1>2, <1>4, <1>5, <1>7 DEF LineInit, LineInv, LineTypes, Stopper, StaysInTheBuffer

LEMMA ReadLineKeeps ==
  ASSUME LineInv, ReadLine
  PROVE  LineInv'
<1> DEFINE k == Taken(MAXBUF - 1)
           buf == Filled(k)
<1>1. LineTypes /\ Stopper /\ FindsTheMnemonic /\ StaysInTheBuffer
  BY DEF LineInv
<1>2. /\ rest # <<>> /\ rest' = SubSeq(rest, k + 1, Len(rest)) /\ Line' = buf
      /\ program' = program /\ file' = file
  BY DEF ReadLine, Take
<1>3. /\ k \in 1 .. Len(rest) /\ buf \in [0 .. MAXBUF - 1 -> Characters \cup {EOS}]
      /\ buf[MAXBUF - 1] = NEWLINE
  BY <1>1, <1>2, FilledIs
<1>4. /\ Stop(buf) \in 0 .. MAXBUF - 1 /\ Split(buf).op \in Seq(Characters)
      /\ Split(buf).last = Stop(buf)
  BY <1>1, <1>2, LineScans
<1>5. \/ last' = 0 /\ Op' = Op /\ found' = found
      \/ /\ last' = Split(buf).last /\ Op' = Split(buf).op
         /\ found' = IF Char(Split(buf).op, 1) = ";" THEN 0 ELSE MneLook(Split(buf).op)
  BY DEF ReadLine, Take, ParseLine, fields
<1>6. MAXBUF \in Nat /\ MAXBUF > 2 /\ MAXBUF' = MAXBUF
  BY <1>1, <1>2, BufferSize DEF LineTypes, MAXBUF
<1> HIDE DEF buf
<1>7. rest' \in Seq(Characters)
  <2>1. rest \in Seq(Characters) /\ Len(rest) \in Nat /\ k + 1 \in 1 .. Len(rest) + 1
    BY <1>1, <1>3 DEF LineTypes
  <2> HIDE DEF k
  <2> QED
    BY <1>2, <2>1, SubSeqProperties
<1>8. Op' \in Seq(Characters)
  BY <1>1, <1>4, <1>5 DEF LineTypes
<1>9. last' \in Nat /\ last' < MAXBUF
  <2>1. last' = 0 \/ last' = Stop(buf)
    BY <1>4, <1>5
  <2> QED
    BY <1>4, <1>6, <2>1
<1>10. FindsTheMnemonic'
  <2>1. CASE Op' = Op /\ found' = found
    BY <1>1, <2>1 DEF FindsTheMnemonic
  <2>2. CASE Op' = Split(buf).op /\ Char(Op', 1) = ";" /\ found' = 0
    <3>1. Op' \notin Names(Mnemonics)
      BY <2>2, NamesBegin
    <3> QED
      BY <2>2, <3>1, Zenon DEF FindsTheMnemonic, Mnemonics
  <2>3. CASE Op' = Split(buf).op /\ Char(Op', 1) # ";" /\ found' = MneLook(Op')
    <3>1. found' = IF Op' \in Names(Mnemonics)
                   THEN CHOOSE i \in DOMAIN Mnemonics : Mnemonics[i] = Op' ELSE 0
      BY <1>8, <2>3, MneLookFinds, Zenon
    <3> QED
      BY <3>1, Zenon DEF FindsTheMnemonic, Mnemonics
  <2> QED
    BY <1>5, <2>1, <2>2, <2>3
<1>11. Stopper'
  BY <1>2, <1>3, <1>6 DEF Stopper
<1>12. StaysInTheBuffer'
  BY <1>6, <1>9 DEF StaysInTheBuffer
<1>13. LineTypes'
  <2>1. program' \in Programs /\ file' \in 1 .. Len(program'.files)
    BY <1>1, <1>2 DEF LineTypes
  <2>2. Line' \in [0 .. MAXBUF' - 1 -> Characters \cup {EOS}]
    BY <1>2, <1>3, <1>6
  <2> QED
    BY <1>7, <1>8, <1>9, <2>1, <2>2, Zenon DEF LineTypes
<1> QED
  BY <1>10, <1>11, <1>12, <1>13, Zenon DEF LineInv

LEMMA NextFileKeeps ==
  ASSUME LineInv, NextFile
  PROVE  LineInv'
<1>1. /\ file' = file + 1 /\ file < Len(program.files) /\ rest' = program.files[file + 1]
      /\ program' = program /\ Line' = Line /\ Op' = Op /\ last' = last /\ found' = found
  BY DEF NextFile, fields
<1>2. LineTypes /\ Stopper /\ FindsTheMnemonic /\ StaysInTheBuffer
  BY DEF LineInv
<1>3. program.files \in Seq(Seq(Characters)) /\ MAXBUF' = MAXBUF
  BY <1>1, <1>2, BufferSize DEF LineTypes, MAXBUF
<1>4. file' \in 1 .. Len(program.files)
  BY <1>1, <1>2, <1>3 DEF LineTypes
<1>5. rest' \in Seq(Characters)
  BY <1>1, <1>3, <1>4, ElementOfSeq
<1>6. LineTypes'
  BY <1>1, <1>2, <1>3, <1>4, <1>5 DEF LineTypes
<1>7. Stopper' /\ StaysInTheBuffer' /\ FindsTheMnemonic'
  BY <1>1, <1>2, <1>3 DEF Stopper, StaysInTheBuffer, FindsTheMnemonic
<1> QED
  BY <1>6, <1>7, Zenon DEF LineInv

LEMMA LineInvariant == LineSpec => []LineInv
<1>1. LineInit => LineInv
  BY LineStarts
<1>2. LineInv /\ [LineNext]_lineVars => LineInv'
  <2> SUFFICES ASSUME LineInv, [LineNext]_lineVars PROVE LineInv'
    OBVIOUS
  <2>1. CASE ReadLine
    BY <2>1, ReadLineKeeps
  <2>2. CASE NextFile
    BY <2>2, NextFileKeeps
  <2>3. CASE UNCHANGED lineVars
    BY <2>3 DEF lineVars, fields, LineInv, LineTypes, Stopper, StaysInTheBuffer, FindsTheMnemonic, MAXBUF
  <2> QED
    BY <2>1, <2>2, <2>3 DEF LineNext
<1> QED
  BY <1>1, <1>2, PTL DEF LineSpec

(* The scans of parse_line, none of which counts (as.c 212-229), end       *)
(* within Line, whatever the lines, and however long they are.             *)
THEOREM LineStaysInTheBuffer == LineSpec => []StaysInTheBuffer
<1>1. LineInv => StaysInTheBuffer
  BY DEF LineInv
<1> QED
  BY <1>1, LineInvariant, PTL

(* mne_look (symtab.c 107-141) finds the mnemonics that are in the tables, *)
(* at the first place or the last as well, and no others.                  *)
THEOREM MnemonicIsFound == LineSpec => []FindsTheMnemonic
<1>1. LineInv => FindsTheMnemonic
  BY DEF LineInv
<1> QED
  BY <1>1, LineInvariant, PTL

-----------------------------------------------------------------------------
(* How a line is split.                                                    *)

LEMMA PartIs ==
  ASSUME NEW text \in Seq(Characters), NEW a \in 0 .. Len(text), NEW b \in a .. Len(text), NEW buf,
         \A i \in 1 .. Len(text) : buf[i - 1] = text[i]
  PROVE  SubSeq(text, a + 1, b) = Cut(buf, a, b)
<1>1. Len(text) \in Nat /\ a \in Nat /\ b \in Nat /\ b <= Len(text) /\ a <= b
  OBVIOUS
<1>2. a + 1 \in 1 .. Len(text) + 1 /\ b \in a + 1 - 1 .. Len(text)
  BY <1>1
<1>3. Len(SubSeq(text, a + 1, b)) = b - a /\ \A i \in 1 .. b - a : SubSeq(text, a + 1, b)[i] = text[a + i]
  BY <1>1
<1>4. SubSeq(text, a + 1, b) = [i \in 1 .. b - a |-> text[a + i]]
  BY <1>1
<1>5. \A i \in 1 .. b - a : text[a + i] = buf[a + i - 1]
  <2>1. \A i \in 1 .. b - a : a + i \in 1 .. Len(text)
    BY <1>1
  <2> QED
    BY <2>1
<1> QED
  BY <1>4, <1>5 DEF Cut

(* The places where the parts of a text start and end make it a line of    *)
(* these parts.                                                            *)
LEMMA PlacesMakeALine ==
  ASSUME NEW text \in Seq(Characters), NEW l \in 0 .. Len(text), NEW o \in l .. Len(text),
         NEW p \in o .. Len(text), NEW r \in p .. Len(text),
         \A q \in 1 .. l : text[q] \notin White,
         \A q \in l + 1 .. o : text[q] \in White, l = o => o = Len(text),
         \A q \in o + 1 .. p : text[q] \notin White, o = p => p = Len(text),
         \A q \in p + 1 .. r : text[q] \in White, p = r => r = Len(text),
         r < Len(text) => text[r + 1] \notin White
  PROVE  IsLine(text, SubSeq(text, 1, IF Char(text, l) = ":" THEN l - 1 ELSE l),
                Lowered(SubSeq(text, o + 1, p)), SubSeq(text, r + 1, Len(text)))
<1> DEFINE end == Len(text)
           x == SubSeq(text, r + 1, end)
<1>1. end \in Nat /\ l \in Nat /\ o \in Nat /\ p \in Nat /\ r \in Nat /\ r <= end
  OBVIOUS
<1>2. Char(x, 1) \notin White
  <2>1. CASE r = end
    <3>1. Len(x) = 0
      BY <1>1, <2>1
    <3>2. Char(x, 1) = EOS
      BY <3>1 DEF Char
    <3> QED
      BY <3>2 DEF EOS, White
  <2>2. CASE r < end
    <3>1. x[1] = text[r + 1] /\ Len(x) = end - r
      BY <1>1, <2>2
    <3> HIDE DEF x
    <3>2. 1 \in 1 .. Len(x)
      BY <1>1, <2>2, <3>1
    <3> QED
      BY <2>2, <3>1, <3>2 DEF Char
  <2> QED
    BY <1>1, <2>1, <2>2
<1> HIDE DEF x
<1>3. \A q \in 0 + 1 .. l : text[q] \notin White
  OBVIOUS
<1> QED
  BY <1>2, <1>3 DEF IsLine, x

(* The text, and what parse_line does with the buffer that holds it.       *)
IsSplit(text, buf) ==
  /\ IsLine(text, Split(buf).label, Split(buf).op, Split(buf).operand)
  /\ \E i \in 0 .. Len(text) : Split(buf).label = SubSeq(text, 1, i)

LEMMA HeldText ==
  ASSUME NEW text \in Seq(Characters), NEW buf, \A i \in 1 .. Len(text) : buf[i - 1] = text[i],
         NEW q \in 0 .. Len(text) - 1
  PROVE  q + 1 \in 1 .. Len(text) /\ buf[q] = text[q + 1] /\ buf[q] \in Characters /\ buf[q] # EOS
<1>1. q + 1 \in 1 .. Len(text) /\ q = q + 1 - 1
  OBVIOUS
<1>2. buf[q] = text[q + 1]
  BY <1>1
<1> QED
  BY <1>1, <1>2, ElementOfSeq, CodeAssumption

LEMMA SplitOfText ==
  ASSUME NEW text \in Seq(Characters), NEW buf, \A i \in 1 .. Len(text) : buf[i - 1] = text[i],
         LabelEnd(buf) \in 0 .. Len(text), OpStart(buf) \in LabelEnd(buf) .. Len(text),
         OpEnd(buf) \in OpStart(buf) .. Len(text), OperandStart(buf) \in OpEnd(buf) .. Len(text),
         \A q \in 0 .. LabelEnd(buf) - 1 : buf[q] \notin Delim,
         \A q \in LabelEnd(buf) .. OpStart(buf) - 1 : buf[q] \in White,
         LabelEnd(buf) = OpStart(buf) => OpStart(buf) = Len(text),
         \A q \in OpStart(buf) .. OpEnd(buf) - 1 : buf[q] \notin Delim,
         OpStart(buf) = OpEnd(buf) => OpEnd(buf) = Len(text),
         \A q \in OpEnd(buf) .. OperandStart(buf) - 1 : buf[q] \in White,
         OpEnd(buf) = OperandStart(buf) => OperandStart(buf) = Len(text),
         OperandStart(buf) < Len(text) => buf[OperandStart(buf)] \notin White,
         Stop(buf) \in Nat, Len(text) <= Stop(buf), Len(text) = Stop(buf) \/ buf[Len(text)] = EOS
  PROVE  IsSplit(text, buf)
<1> DEFINE end == Len(text)
           l == LabelEnd(buf)
           o == OpStart(buf)
           p == OpEnd(buf)
           r == OperandStart(buf)
           c == IF l > 0 /\ buf[l - 1] = ":" THEN l - 1 ELSE l
<1>1. /\ end \in Nat /\ l \in Nat /\ o \in Nat /\ p \in Nat /\ r \in Nat
      /\ l <= o /\ o <= p /\ p <= r /\ r <= end
  OBVIOUS
<1> HIDE DEF l, o, p, r
<1>2. \A q \in 0 .. end - 1 : q + 1 \in 1 .. end /\ buf[q] = text[q + 1] /\ buf[q] # EOS
  BY HeldText, SMTT(30)
<1> HIDE DEF end
<1>3. \A q \in 1 .. end : buf[q - 1] = text[q]
  BY DEF end
<1>4. \A q \in 1 .. l : text[q] \notin White
  <2>1. \A q \in 1 .. l : q - 1 \in 0 .. l - 1 /\ q \in 1 .. end
    BY <1>1
  <2> QED
    BY <1>3, <2>1, Newline DEF l
<1>5. \A q \in l + 1 .. o : text[q] \in White
  <2>1. \A q \in l + 1 .. o : q - 1 \in l .. o - 1 /\ q \in 1 .. end
    BY <1>1
  <2> QED
    BY <1>3, <2>1 DEF l, o
<1>6. \A q \in o + 1 .. p : text[q] \notin White
  <2>1. \A q \in o + 1 .. p : q - 1 \in o .. p - 1 /\ q \in 1 .. end
    BY <1>1
  <2> QED
    BY <1>3, <2>1, Newline DEF o, p
<1>7. \A q \in p + 1 .. r : text[q] \in White
  <2>1. \A q \in p + 1 .. r : q - 1 \in p .. r - 1 /\ q \in 1 .. end
    BY <1>1
  <2> QED
    BY <1>3, <2>1 DEF p, r
<1>8. r < end => text[r + 1] \notin White
  <2>1. r < end => r \in 0 .. end - 1
    BY <1>1
  <2> QED
    BY <1>2, <2>1 DEF r, end
<1>9. c \in 0 .. l /\ c = IF Char(text, l) = ":" THEN l - 1 ELSE l
  <2>1. CASE l > 0
    <3>1. l - 1 \in 0 .. end - 1 /\ l \in 1 .. end
      BY <1>1, <2>1
    <3>2. Char(text, l) = text[l] /\ buf[l - 1] = text[l]
      BY <1>3, <3>1 DEF Char, end
    <3> QED
      BY <1>1, <2>1, <3>2
  <2>2. CASE l = 0
    <3>1. Char(text, l) = EOS
      BY <2>2 DEF Char
    <3>2. Char(text, l) # ":"
      BY <3>1 DEF EOS
    <3>3. ~ (l > 0) /\ l \in 0 .. l
      BY <1>1, <2>2
    <3>4. c = l
      BY <3>3
    <3> QED
      BY <3>2, <3>3, <3>4
  <2> QED
    BY <1>1, <2>1, <2>2
<1>10. ASSUME NEW a \in Nat, NEW b \in a .. end
       PROVE  CString(buf, a, b) = SubSeq(text, a + 1, b)
  <2>1. b \in Nat /\ b \in a .. b
    BY <1>1
  <2>2. \A q \in a .. b - 1 : buf[q] # EOS
    <3>1. \A q \in a .. b - 1 : q \in 0 .. end - 1
      BY <1>1
    <3> QED
      BY <1>2, <3>1
  <2>3. CString(buf, a, b) = Cut(buf, a, b)
    BY <2>1, <2>2, CStringIs
  <2>4. a \in 0 .. end
    BY <1>1
  <2>5. SubSeq(text, a + 1, b) = Cut(buf, a, b)
    BY <1>3, <2>4, PartIs, SMTT(30) DEF end
  <2> QED
    BY <2>3, <2>5
<1>11. CString(buf, 0, c) = SubSeq(text, 1, c)
  <2>1. c \in 0 .. end
    BY <1>1, <1>9
  <2> HIDE DEF c
  <2>2. CString(buf, 0, c) = SubSeq(text, 0 + 1, c)
    BY <1>10, <2>1
  <2> QED
    BY <2>2
<1>12. CString(buf, o, p) = SubSeq(text, o + 1, p)
  <2>1. p \in o .. end
    BY <1>1
  <2> QED
    BY <1>1, <1>10, <2>1
<1>13. CString(buf, r, Stop(buf)) = SubSeq(text, r + 1, end)
  <2>1. end \in r .. Stop(buf) /\ end \in r .. end /\ r \in 0 .. end
    BY <1>1 DEF end
  <2>2. \A q \in r .. end - 1 : buf[q] # EOS
    <3>1. \A q \in r .. end - 1 : q \in 0 .. end - 1
      BY <1>1
    <3> QED
      BY <1>2, <3>1
  <2>3. CString(buf, r, Stop(buf)) = Cut(buf, r, end)
    <3>1. end = Stop(buf) \/ buf[end] = EOS
      BY DEF end
    <3> QED
      BY <1>1, <2>1, <2>2, <3>1, CStringIs
  <2>4. SubSeq(text, r + 1, end) = Cut(buf, r, end)
    BY <1>3, <2>1, PartIs, SMTT(30) DEF end
  <2> QED
    BY <2>3, <2>4
<1>14. /\ Split(buf).label = SubSeq(text, 1, c) /\ Split(buf).op = Lowered(SubSeq(text, o + 1, p))
       /\ Split(buf).operand = SubSeq(text, r + 1, end)
  <2>1. /\ Split(buf).label = CString(buf, 0, c) /\ Split(buf).op = Lowered(CString(buf, o, p))
        /\ Split(buf).operand = CString(buf, r, Stop(buf))
    BY SplitIs DEF l, o, p, r
  <2> QED
    BY <1>11, <1>12, <1>13, <2>1
<1>15. IsLine(text, SubSeq(text, 1, IF Char(text, l) = ":" THEN l - 1 ELSE l),
              Lowered(SubSeq(text, o + 1, p)), SubSeq(text, r + 1, end))
  <2>1. l \in 0 .. end /\ o \in l .. end /\ p \in o .. end /\ r \in p .. end
    BY <1>1
  <2>2. (l = o => o = end) /\ (o = p => p = end) /\ (p = r => r = end)
    BY DEF l, o, p, r, end
  <2> QED
    BY <1>4, <1>5, <1>6, <1>7, <1>8, <2>1, <2>2, PlacesMakeALine, Zenon DEF end
<1>16. c \in 0 .. end
  BY <1>1, <1>9
<1>17. IsLine(text, Split(buf).label, Split(buf).op, Split(buf).operand)
  <2>1. c = IF Char(text, l) = ":" THEN l - 1 ELSE l
    BY <1>9
  <2> HIDE DEF c
  <2> QED
    BY <1>14, <1>15, <2>1
<1> HIDE DEF c
<1> QED
  BY <1>14, <1>16, <1>17 DEF IsSplit, end

(* A line that ends with a newline: the scans end there.                   *)
LEMMA WholeSplit ==
  ASSUME MAXBUF \in Nat, NEW text \in Seq(Characters), NEW buf, Len(text) \in 0 .. MAXBUF - 1,
         \A i \in 1 .. Len(text) : buf[i - 1] = text[i] /\ text[i] # NEWLINE, buf[Len(text)] = NEWLINE
  PROVE  IsSplit(text, buf)
<1> DEFINE z == Len(text)
           l == LabelEnd(buf)
           o == OpStart(buf)
           p == OpEnd(buf)
           r == OperandStart(buf)
<1>1. z \in Nat /\ z \in 0 .. MAXBUF - 1
  OBVIOUS
<1>2. /\ l \in 0 .. z /\ buf[l] \in Delim /\ \A q \in 0 .. l - 1 : buf[q] \notin Delim
      /\ o \in l .. z /\ buf[o] \notin White /\ \A q \in l .. o - 1 : buf[q] \in White
      /\ p \in o .. z /\ buf[p] \in Delim /\ \A q \in o .. p - 1 : buf[q] \notin Delim
      /\ r \in p .. z /\ buf[r] \notin White /\ \A q \in p .. r - 1 : buf[q] \in White
      /\ Stop(buf) \in r .. z /\ buf[Stop(buf)] = NEWLINE
  BY <1>1, Scans
<1> HIDE DEF l, o, p, r
<1>3. ASSUME NEW q \in 0 .. z, buf[q] = NEWLINE
      PROVE  q = z
  <2>1. SUFFICES ASSUME q < z PROVE FALSE
    BY <1>1
  <2>2. q + 1 \in 1 .. z /\ q = q + 1 - 1
    BY <1>1, <2>1
  <2>3. buf[q] = text[q + 1] /\ text[q + 1] # NEWLINE
    BY <2>2
  <2> QED
    BY <1>3, <2>3
<1>4. ASSUME NEW q \in 0 .. z, buf[q] \in Delim, buf[q] \notin White
      PROVE  q = z
  BY <1>3, <1>4, Newline
<1>5. Stop(buf) \in 0 .. z /\ l \in 0 .. z /\ o \in 0 .. z /\ p \in 0 .. z /\ r \in 0 .. z
  BY <1>1, <1>2
<1>6. Stop(buf) = z
  BY <1>2, <1>3, <1>5
<1>7. (l = o => o = z) /\ (o = p => p = z) /\ (p = r => r = z)
  BY <1>2, <1>4, <1>5
<1>8. \A i \in 1 .. Len(text) : buf[i - 1] = text[i]
  OBVIOUS
<1>9. Stop(buf) \in Nat /\ Len(text) <= Stop(buf) /\ (Len(text) = Stop(buf) \/ buf[Len(text)] = EOS)
  BY <1>1, <1>6
<1> QED
  BY <1>2, <1>7, <1>8, <1>9, SplitOfText, Zenon DEF l, o, p, r, z

(* A line without one that has an operand: what the buffer holds behind it *)
(* is not part of the operand, which ends at EOS.                          *)
LEMMA PartSplit ==
  ASSUME MAXBUF \in Nat, NEW text \in Seq(Characters), NEW buf, Len(text) \in 0 .. MAXBUF - 2,
         \A i \in 1 .. Len(text) : buf[i - 1] = text[i] /\ text[i] # NEWLINE, buf[Len(text)] = EOS,
         buf[MAXBUF - 1] = NEWLINE, HasOperand(text)
  PROVE  IsSplit(text, buf)
<1> DEFINE n == Len(text)
           z == MAXBUF - 1
           l == LabelEnd(buf)
           o == OpStart(buf)
           p == OpEnd(buf)
           r == OperandStart(buf)
           e == Stop(buf)
<1>1. n \in Nat /\ z \in Nat /\ n <= z - 1 /\ z \in 0 .. MAXBUF - 1 /\ buf[z] = NEWLINE
  OBVIOUS
<1>2. /\ l \in 0 .. z /\ buf[l] \in Delim /\ \A q \in 0 .. l - 1 : buf[q] \notin Delim
      /\ o \in l .. z /\ buf[o] \notin White /\ \A q \in l .. o - 1 : buf[q] \in White
      /\ p \in o .. z /\ buf[p] \in Delim /\ \A q \in o .. p - 1 : buf[q] \notin Delim
      /\ r \in p .. z /\ buf[r] \notin White /\ \A q \in p .. r - 1 : buf[q] \in White
      /\ e \in r .. z /\ buf[e] = NEWLINE
  BY <1>1, Scans
<1> HIDE DEF l, o, p, r, e, z
<1>3. /\ l \in Nat /\ o \in Nat /\ p \in Nat /\ r \in Nat /\ e \in Nat
      /\ l <= o /\ o <= p /\ p <= r /\ r <= e
  BY <1>1, <1>2
<1>4. PICK i \in 1 .. n :
        /\ text[i] \in White
        /\ \E j \in i + 1 .. n - 2 :
             /\ text[j] \notin White /\ text[j + 1] \in White
             /\ \E k \in j + 2 .. n : text[k] \notin White
  BY Zenon DEF HasOperand
<1>5. PICK j \in i + 1 .. n - 2 :
        /\ text[j] \notin White /\ text[j + 1] \in White
        /\ \E k \in j + 2 .. n : text[k] \notin White
  BY <1>4
<1>6. PICK k \in j + 2 .. n : text[k] \notin White
  BY <1>5
<1>7. i \in Nat /\ j \in Nat /\ k \in Nat /\ 1 <= i /\ i < j /\ j + 1 < k /\ k <= n
  BY <1>1
<1> HIDE DEF n
<1>8. /\ buf[i - 1] \in White /\ buf[j - 1] \notin White /\ buf[j] \in White /\ buf[k - 1] \notin White
  <2>1. i \in 1 .. n /\ j \in 1 .. n /\ k \in 1 .. n /\ j + 1 \in 1 .. n /\ j + 1 - 1 = j
    BY <1>1, <1>7
  <2>2. buf[i - 1] = text[i] /\ buf[j - 1] = text[j] /\ buf[k - 1] = text[k] /\ buf[j + 1 - 1] = text[j + 1]
    BY <2>1 DEF n
  <2> QED
    BY <1>4, <1>5, <1>6, <2>1, <2>2
<1>9. l <= i - 1
  <2>1. SUFFICES ASSUME ~ (l <= i - 1) PROVE FALSE
    OBVIOUS
  <2>2. i - 1 \in 0 .. l - 1
    BY <1>3, <1>7, <2>1
  <2> QED
    BY <1>2, <1>8, <2>2, Newline
<1>10. o <= j - 1
  <2>1. SUFFICES ASSUME ~ (o <= j - 1) PROVE FALSE
    OBVIOUS
  <2>2. j - 1 \in l .. o - 1
    BY <1>3, <1>7, <1>9, <2>1
  <2> QED
    BY <1>2, <1>8, <2>2
<1>11. p <= j
  <2>1. SUFFICES ASSUME ~ (p <= j) PROVE FALSE
    OBVIOUS
  <2>2. j \in o .. p - 1
    BY <1>3, <1>7, <1>10, <2>1
  <2> QED
    BY <1>2, <1>8, <2>2, Newline
<1>12. r <= k - 1
  <2>1. SUFFICES ASSUME ~ (r <= k - 1) PROVE FALSE
    OBVIOUS
  <2>2. k - 1 \in p .. r - 1
    BY <1>3, <1>7, <1>11, <2>1
  <2> QED
    BY <1>2, <1>8, <2>2
<1>13. r < n
  BY <1>1, <1>3, <1>7, <1>12
<1>14. \A q \in 0 .. n - 1 : buf[q] # NEWLINE
  <2>1. \A q \in 0 .. n - 1 : q + 1 \in 1 .. n /\ q = q + 1 - 1
    BY <1>1
  <2> QED
    BY <2>1, SMTT(30) DEF n
<1>15. l \in 0 .. n - 1 /\ o \in 0 .. n - 1 /\ p \in 0 .. n - 1 /\ r \in 0 .. n - 1
  BY <1>1, <1>3, <1>13
<1>16. l # o /\ o # p /\ p # r
  <2>1. buf[l] \in White /\ buf[p] \in White
    BY <1>2, <1>14, <1>15, Newline
  <2>2. buf[o] \notin Delim /\ buf[r] \notin White
    BY <1>2, <1>14, <1>15, Newline
  <2> QED
    BY <1>2, <2>1, <2>2
<1>17. n <= e
  <2>1. SUFFICES ASSUME ~ (n <= e) PROVE FALSE
    OBVIOUS
  <2>2. e \in 0 .. n - 1
    BY <1>1, <1>3, <2>1
  <2> QED
    BY <1>2, <1>14, <2>2
<1>18. \A q \in 1 .. Len(text) : buf[q - 1] = text[q]
  OBVIOUS
<1>19. l \in 0 .. n /\ o \in l .. n /\ p \in o .. n /\ r \in p .. n
  BY <1>1, <1>3, <1>13
<1>20. buf[Len(text)] = EOS
  OBVIOUS
<1> QED
  BY <1>2, <1>3, <1>16, <1>17, <1>18, <1>19, <1>20, SplitOfText, Zenon DEF l, o, p, r, e, n

(* One step.                                                               *)
LEMMA GotIs ==
  ASSUME LineTypes, Stopper, ReadLine, NEW k, k = Taken(MAXBUF - 1)
  PROVE  /\ Got \in Seq(Characters) /\ Len(Got) = k /\ k \in Nat \ {0}
         /\ \A i \in 1 .. k : Got[i] = rest[i]
         /\ Got = SubSeq(rest, 1, k)
<1>1. rest # <<>> /\ rest' = SubSeq(rest, k + 1, Len(rest))
  BY DEF ReadLine, Take
<1>2. k \in 1 .. Len(rest) /\ rest \in Seq(Characters) /\ Len(rest) \in Nat
  <2>1. rest \in Seq(Characters)
    BY DEF LineTypes
  <2> QED
    BY <1>1, <2>1, FilledIs
<1>3. k + 1 \in 1 .. Len(rest) + 1 /\ k \in Nat \ {0}
  BY <1>2
<1>4. Len(rest') = Len(rest) - k
  BY <1>1, <1>2, <1>3
<1>5. Len(rest) - Len(rest') = k
  BY <1>2, <1>4
<1>6. Got = SubSeq(rest, 1, k)
  BY <1>5, Zenon DEF Got
<1>7. SubSeq(rest, 1, k) \in Seq(Characters) /\ Len(SubSeq(rest, 1, k)) = k
      /\ \A i \in 1 .. k : SubSeq(rest, 1, k)[i] = rest[i]
  BY <1>2, <1>3, SubSeqProperties
<1> QED
  BY <1>3, <1>6, <1>7

LEMMA LineIsSplit ==
  ASSUME LineInv, ReadLine, Whole \/ HasOperand(Got)
  PROVE  IsSplit(Body, Filled(Taken(MAXBUF - 1)))
<1> DEFINE k == Taken(MAXBUF - 1)
           buf == Filled(k)
<1>1. LineTypes /\ Stopper /\ rest # <<>> /\ MAXBUF \in Nat /\ MAXBUF > 2
  BY BufferSize DEF LineInv, LineTypes, ReadLine
<1>2. /\ k \in 1 .. Len(rest) /\ k <= MAXBUF - 2
      /\ buf[MAXBUF - 1] = NEWLINE /\ buf[k] = EOS
      /\ \A i \in 0 .. k - 1 : buf[i] = rest[i + 1]
      /\ \A i \in 1 .. k - 1 : rest[i] # NEWLINE
  BY <1>1, FilledIs
<1>3. Got \in Seq(Characters) /\ Len(Got) = k /\ k \in Nat \ {0} /\ \A i \in 1 .. k : Got[i] = rest[i]
  BY <1>1, GotIs
<1> HIDE DEF k, buf
<1>4. \A i \in 1 .. k : buf[i - 1] = Got[i]
  <2>1. \A i \in 1 .. k : i - 1 \in 0 .. k - 1 /\ i - 1 + 1 = i
    BY <1>3
  <2> QED
    BY <1>2, <1>3, <2>1
<1>5. Whole <=> Got[k] = NEWLINE
  <2>1. Char(Got, k) = Got[k]
    BY <1>3 DEF Char
  <2> QED
    BY <1>3, <2>1 DEF Whole
<1>6. \A i \in 1 .. k - 1 : Got[i] # NEWLINE
  <2>1. \A i \in 1 .. k - 1 : i \in 1 .. k
    BY <1>3
  <2> QED
    BY <1>2, <1>3, <2>1
<1>7. CASE Whole
  <2>1. Body = SubSeq(Got, 1, k - 1)
    BY <1>3, <1>7 DEF Body
  <2>2. Body \in Seq(Characters) /\ Len(Body) = k - 1 /\ \A i \in 1 .. k - 1 : Body[i] = Got[i]
    <3>1. k - 1 \in 0 .. Len(Got) /\ 1 \in 1 .. Len(Got) + 1
      BY <1>3
    <3>2. SubSeq(Got, 1, k - 1) \in Seq(Characters) /\ Len(SubSeq(Got, 1, k - 1)) = k - 1
          /\ \A i \in 1 .. k - 1 : SubSeq(Got, 1, k - 1)[i] = Got[i]
      BY <1>3, <3>1, SubSeqProperties
    <3> QED
      BY <2>1, <3>2
  <2>3. Len(Body) \in 0 .. MAXBUF - 1
    BY <1>1, <1>2, <1>3, <2>2
  <2>4. buf[Len(Body)] = NEWLINE
    <3>1. k \in 1 .. k
      BY <1>3
    <3> QED
      BY <1>4, <1>5, <1>7, <2>2, <3>1
  <2>5. \A i \in 1 .. Len(Body) : buf[i - 1] = Body[i] /\ Body[i] # NEWLINE
    <3>1. \A i \in 1 .. k - 1 : i \in 1 .. k
      BY <1>3
    <3> QED
      BY <1>4, <1>6, <2>2, <3>1
  <2>6. IsSplit(Body, buf)
    <3>1. ASSUME NEW text, text = Body
          PROVE  IsSplit(text, buf)
      <4>1. /\ text \in Seq(Characters) /\ Len(text) \in 0 .. MAXBUF - 1 /\ buf[Len(text)] = NEWLINE
            /\ \A i \in 1 .. Len(text) : buf[i - 1] = text[i] /\ text[i] # NEWLINE
        BY <2>2, <2>3, <2>4, <2>5, <3>1
      <4> HIDE <3>1
      <4> QED
        BY <1>1, <4>1, WholeSplit
    <3> QED
      BY <3>1
  <2> QED
    BY <2>6 DEF buf, k
<1>8. CASE ~ Whole
  <2>1. Body = Got /\ HasOperand(Got)
    BY <1>8 DEF Body
  <2>2. \A i \in 1 .. k : buf[i - 1] = Got[i] /\ Got[i] # NEWLINE
    <3>1. \A i \in 1 .. k : i \in 1 .. k - 1 \/ i = k
      BY <1>3
    <3> QED
      BY <1>4, <1>5, <1>6, <1>8, <3>1
  <2>3. IsSplit(Got, buf)
    <3>1. ASSUME NEW text, text = Got
          PROVE  IsSplit(text, buf)
      <4>1. /\ text \in Seq(Characters) /\ Len(text) \in 0 .. MAXBUF - 2 /\ buf[Len(text)] = EOS
            /\ \A i \in 1 .. Len(text) : buf[i - 1] = text[i] /\ text[i] # NEWLINE
        BY <1>1, <1>2, <1>3, <2>2, <3>1
      <4>2. HasOperand(text)
        BY <2>1, <3>1
      <4> HIDE <3>1
      <4> QED
        BY <1>1, <1>2, <4>1, <4>2, PartSplit
    <3> QED
      BY <3>1
  <2> QED
    BY <2>1, <2>3 DEF buf, k
<1> QED
  BY <1>7, <1>8

(* parse_line splits a line as the README says, whatever earlier lines have*)
(* left in the buffer; with a label of an earlier line in the place of its *)
(* own when that line had only a label and a comment (as.c 200-265).       *)
THEOREM LinesAreSplit == LineSpec => SplitsTheLine
<1> DEFINE Split1 ==
      Len(rest') < Len(rest) /\ file' = file /\ Char(Got, 1) \notin CommentStart /\ (Whole \/ HasOperand(Got)) =>
       IF cont_prev THEN Label' = hold_lbl /\ \E i \in 0 .. Len(Body) : IsLine(Body, SubSeq(Body, 1, i), Op', Operand')
       ELSE IsLine(Body, Label', Op', Operand')
<1>1. LineInv /\ [LineNext]_lineVars => [Split1]_lineVars
  <2> SUFFICES ASSUME LineInv, LineNext, Len(rest') < Len(rest), file' = file,
                      Char(Got, 1) \notin CommentStart, Whole \/ HasOperand(Got)
               PROVE  IF cont_prev THEN Label' = hold_lbl /\ \E i \in 0 .. Len(Body) : IsLine(Body, SubSeq(Body, 1, i), Op', Operand')
                      ELSE IsLine(Body, Label', Op', Operand')
    OBVIOUS
  <2>1. ReadLine
    <3>1. file \in Int
      BY DEF LineInv, LineTypes
    <3>2. ~ NextFile
      BY <3>1 DEF NextFile
    <3> QED
      BY <3>2 DEF LineNext
  <2> DEFINE k == Taken(MAXBUF - 1)
             buf == Filled(k)
  <2>2. LineTypes /\ Stopper /\ rest # <<>>
    BY <2>1 DEF LineInv, ReadLine
  <2>3. buf[0] = Char(Got, 1)
    <3>1. k \in Nat \ {0} /\ \A i \in 0 .. k - 1 : buf[i] = rest[i + 1]
      BY <2>1, <2>2, GotIs, FilledIs
    <3>2. Len(Got) = k /\ \A i \in 1 .. k : Got[i] = rest[i]
      BY <2>1, <2>2, GotIs
    <3> HIDE DEF k, buf
    <3>3. 0 \in 0 .. k - 1 /\ 1 \in 1 .. k /\ 0 + 1 = 1
      BY <3>1
    <3>4. Char(Got, 1) = Got[1]
      BY <3>2, <3>3 DEF Char
    <3> QED
      BY <3>1, <3>2, <3>3, <3>4
  <2>4. IsSplit(Body, buf)
    BY <2>1, LineIsSplit
  <2>5. /\ Label' = IF cont_prev THEN hold_lbl ELSE Split(buf).label
        /\ Op' = Split(buf).op /\ Operand' = Split(buf).operand
    BY <2>1, <2>3 DEF ReadLine, Take, ParseLine
  <2> HIDE DEF buf, k
  <2>6. /\ IsLine(Body, Split(buf).label, Op', Operand')
        /\ \E i \in 0 .. Len(Body) : Split(buf).label = SubSeq(Body, 1, i)
    BY <2>4, <2>5 DEF IsSplit
  <2>7. PICK i \in 0 .. Len(Body) : Split(buf).label = SubSeq(Body, 1, i)
    BY <2>6
  <2>8. IsLine(Body, SubSeq(Body, 1, i), Op', Operand')
    BY <2>6, <2>7
  <2> QED
    BY <2>5, <2>6, <2>8
<1> QED
  BY <1>1, LineInvariant, PTL DEF LineSpec, SplitsTheLine
=============================================================================
