---------------------------- MODULE ShellProofs -----------------------------
(***************************************************************************)
(* The shell keeps within its buffer and within argv, and is the console   *)
(* of module Console, for every size of both, every list of commands,      *)
(* whatever is typed and whatever the memory holds at first.               *)
(***************************************************************************)
EXTENDS Shell, Integers, FiniteSetTheorems, SequenceTheorems, TLAPS

-----------------------------------------------------------------------------
(* The inductive invariant: where every loop is in the buffer, and then    *)
(* where it is in the line that was entered.                               *)

AtTheEnd == pc = "char" => x = st0

Bounds == TypeOK /\ AtTheEnd /\ ZeroAhead

Starts == Monitor!Starts(entered)
Before(p) == Monitor!Before(entered, p)

(* No argument is counted but while the line is split.                     *)
TypingPlace == pc \notin {"split", "spaceagain"} => st1 = 0

LineKept == entered \in Seq(0 .. 255) /\ Len(entered) < SCMD_MAX

(* What is ahead of X in the buffer is still the line, and the zero that   *)
(* ends it; what is behind held no zero.                                   *)
ScanPlace ==
  pc \in Scans =>
    /\ x <= Len(entered)
    /\ \A i \in 1 .. x : entered[i] # 0
    /\ \A i \in x + 1 .. Len(entered) : scmdbuf[i - 1] = entered[i]
    /\ scmdbuf[Len(entered)] = 0

(* Entry k of argv points to the word with k words before it.              *)
Placed(k) ==
  /\ argv[k] + 1 \in Starts
  /\ Cardinality(Before(argv[k] + 1)) = k + 1

(* The word of l that starts at a is whole in b, with a zero after it, at  *)
(* most at y.                                                              *)
Whole(b, a, l, y) ==
  \E e \in a .. y :
    /\ b[e] = 0
    /\ e = Len(l) \/ l[e + 1] \in {0, Space}
    /\ \A i \in a .. e - 1 : b[i] = l[i + 1] /\ l[i + 1] \notin {0, Space}

Ended(k, y) == Whole(scmdbuf, argv[k], entered, y)

PrespacesPlace == pc = "prespaces" => \A i \in 1 .. x : entered[i] = Space

(* A line without a word, of which the one argument is an empty string.    *)
NoWord == Starts = {} /\ scmdbuf[argv[0]] = 0

SplitPlace ==
  pc = "split" =>
    \/ NoWord /\ st1 = 1 /\ argv[0] = x
    \/ /\ st1 \in 1 .. ARGV_MAX
       /\ Cardinality(Before(x + 1)) = st1
       /\ \A k \in 0 .. st1 - 1 : Placed(k)
       /\ \A k \in 0 .. st1 - 2 : Ended(k, x - 1)
       /\ argv[st1 - 1] <= x
       /\ \A i \in argv[st1 - 1] .. x - 1 : /\ scmdbuf[i] = entered[i + 1]
                                            /\ entered[i + 1] # Space

SpaceagainPlace ==
  pc = "spaceagain" =>
    /\ st1 \in 1 .. ARGV_MAX
    /\ x > 0 /\ entered[x] = Space
    /\ Cardinality(Before(x)) = st1
    /\ \A k \in 0 .. st1 - 1 : Placed(k) /\ Ended(k, x - 1)

ParsedPlace ==
  pc \in {"compare", "command"} =>
    \/ NoWord /\ argc = 1
    \/ /\ Starts # {}
       /\ argc = IF Cardinality(Starts) < ARGV_MAX THEN Cardinality(Starts) ELSE ARGV_MAX
       /\ \A k \in 0 .. argc - 1 : Placed(k) /\ Ended(k, Len(entered))

(* No command of the list that was passed has the name.                    *)
ComparePlace ==
  /\ pc = "compare" => \A i \in 1 .. cmd - 1 : Table[i].name # String(argv[0])
  /\ pc = "command" => Table[cmd].name = String(argv[0])

IInv ==
  /\ Bounds
  /\ TypingPlace /\ LineKept /\ ScanPlace
  /\ PrespacesPlace /\ SplitPlace /\ SpaceagainPlace
  /\ ParsedPlace /\ ComparePlace

-----------------------------------------------------------------------------
(* Within the bounds.                                                      *)

LEMMA Sizes ==
  /\ SCMD_MAX \in Nat \ {0} /\ ARGV_MAX \in Nat \ {0}
  /\ 0 \in Cells /\ SCMD_MAX - 1 \in Cells
  /\ Len(Table) \in Nat \ {0} /\ DOMAIN Table = 1 .. Len(Table)
<1>1. SCMD_MAX \in 1 .. 255 /\ ARGV_MAX \in 1 .. 255
  BY ShellAssumption
<1>2. Table \in Seq([name : Seq(0 .. 255), answer : STRING]) /\ Table # <<>>
  BY ShellAssumption
<1>3. Len(Table) \in Nat \ {0} /\ DOMAIN Table = 1 .. Len(Table)
  BY <1>2
<1> QED
  BY <1>1, <1>3 DEF Cells

LEMMA KeysAreBytes == Keys \subseteq 0 .. 255
BY ShellAssumption

LEMMA BoundedAtFirst == Init => Bounds
<1> SUFFICES ASSUME Init PROVE Bounds
  OBVIOUS
<1> PICK f \in Fill : scmdbuf = [i \in Cells |-> f]
  BY DEF Init
<1>1. f \in 0 .. 255
  BY ShellAssumption
<1>2. scmdbuf \in [Cells -> 0 .. 255] /\ argv \in [0 .. ARGV_MAX - 1 -> Cells]
  BY <1>1, Sizes DEF Init
<1>3. 0 \in 0 .. ARGV_MAX /\ 1 \in DOMAIN Table
  BY Sizes
<1>4. TypeOK
  BY <1>2, <1>3, Sizes DEF Init, TypeOK
<1> QED
  BY <1>4 DEF Init, Bounds, AtTheEnd, ZeroAhead, Scans

(* A character that is not the zero that ends the line is not the last of  *)
(* the buffer, and the zero is further on.                                 *)
LEMMA OneFurther ==
  ASSUME Bounds, pc \in Scans, scmdbuf[x] # 0
  PROVE  x + 1 \in Cells /\ \E i \in x + 1 .. SCMD_MAX - 1 : scmdbuf[i] = 0
<1>1. PICK i \in x .. SCMD_MAX - 1 : scmdbuf[i] = 0
  BY DEF Bounds, ZeroAhead
<1>2. x \in 0 .. SCMD_MAX - 1 /\ SCMD_MAX \in Nat
  BY Sizes DEF Bounds, TypeOK, Cells
<1>3. i \in Int /\ x <= i /\ i <= SCMD_MAX - 1 /\ i # x
  BY <1>1, <1>2
<1>4. i \in x + 1 .. SCMD_MAX - 1
  BY <1>2, <1>3
<1> QED
  BY <1>1, <1>2, <1>3, <1>4 DEF Cells

LEMMA StartKeeps ==
  ASSUME Bounds, StartArg(x)
  PROVE  /\ pc' \in {"split", "compare"}
         /\ argc' \in 0 .. ARGV_MAX /\ st1' \in 0 .. ARGV_MAX
         /\ argv' \in [0 .. ARGV_MAX - 1 -> Cells]
         /\ cmd' \in DOMAIN Table
<1> USE Sizes DEF Bounds, TypeOK
<1>1. CASE st1 = ARGV_MAX
  BY <1>1 DEF StartArg, Parsed
<1>2. CASE st1 # ARGV_MAX
  <2>1. st1 \in 0 .. ARGV_MAX - 1
    BY <1>2
  <2>2. argv' = [argv EXCEPT ![st1] = x] /\ st1' = st1 + 1 /\ pc' = "split"
        /\ UNCHANGED <<argc, cmd>>
    BY <1>2 DEF StartArg
  <2> QED
    BY <2>1, <2>2
<1> QED
  BY <1>1, <1>2

LEMMA Typing ==
  ASSUME Bounds, NEW c \in Keys, Key(c) \/ Backspace(c) \/ Return(c)
  PROVE  Bounds'
<1> USE DEF Bounds
<1>a. pc = "char" /\ x = st0
  BY DEF Key, Backspace, Return, AtTheEnd
<1>b. x \in Cells /\ SCMD_MAX \in Nat
  BY Sizes DEF TypeOK
<1>c. x \in 0 .. SCMD_MAX - 1
  BY <1>b DEF Cells
<1>d. c \in 0 .. 255
  BY KeysAreBytes
<1>0. SCMD_MAX \in Nat /\ x \in 0 .. SCMD_MAX - 1 /\ x = st0 /\ c \in 0 .. 255
  BY <1>a, <1>b, <1>c, <1>d, Zenon
<1>1. CASE Key(c)
  <2>1. CASE st0 = SCMD_MAX - 1
    <3>1. /\ UNCHANGED <<pc, scmdbuf, argc, argv, rlopts, x, st0, st1, cmd>> /\ pc = "char"
      BY <1>1, <2>1 DEF Key
    <3>2. TypeOK' = TypeOK
      BY <3>1, Zenon DEF TypeOK
    <3> QED
      BY <3>1, <3>2 DEF AtTheEnd, ZeroAhead, Scans
  <2>2. CASE st0 # SCMD_MAX - 1
    <3>1. x + 1 \in Cells
      BY <1>0, <2>2 DEF Cells
    <3>2. scmdbuf' = [scmdbuf EXCEPT ![x] = c] /\ st0' = x + 1 /\ x' = x + 1 /\ pc' = pc
          /\ UNCHANGED <<argc, argv, rlopts, st1, cmd>>
      BY <1>0, <1>1, <2>2 DEF Key
    <3>3. scmdbuf' \in [Cells -> 0 .. 255]
      BY <1>0, <3>2 DEF TypeOK
    <3>4. TypeOK'
      BY <3>1, <3>2, <3>3 DEF TypeOK
    <3> QED
      BY <1>1, <3>2, <3>4 DEF Key, AtTheEnd, ZeroAhead, Scans
  <2> QED
    BY <2>1, <2>2
<1>2. CASE Backspace(c)
  <2>1. x # 0 => x - 1 \in Cells
    BY <1>0 DEF Cells
  <2> QED
    BY <1>0, <1>2, <2>1 DEF Backspace, TypeOK, AtTheEnd, ZeroAhead, Scans
<1>3. CASE Return(c)
  <2>1. scmdbuf' = [scmdbuf EXCEPT ![x] = 0] /\ x' = 0 /\ st0' = 0 /\ pc' = "prespaces"
        /\ UNCHANGED <<argc, argv, rlopts, st1, cmd>>
    BY <1>3 DEF Return
  <2>2. scmdbuf \in [Cells -> 0 .. 255] /\ x \in Cells
    BY DEF TypeOK
  <2>3. scmdbuf'[x] = 0 /\ scmdbuf' \in [Cells -> 0 .. 255]
    BY <2>1, <2>2
  <2>4. x \in x' .. SCMD_MAX - 1
    BY <1>0, <2>1
  <2>5. ZeroAhead'
    BY <2>3, <2>4 DEF ZeroAhead
  <2>6. TypeOK'
    BY <2>1, <2>3, Sizes DEF TypeOK, Scans
  <2> QED
    BY <2>1, <2>5, <2>6 DEF AtTheEnd
<1> QED
  BY <1>1, <1>2, <1>3

LEMMA Splitting ==
  ASSUME Bounds, Prespaces \/ Split \/ Spaceagain
  PROVE  Bounds'
<1> USE DEF Bounds
<1>0. pc \in Scans /\ x \in Cells
  BY DEF Prespaces, Split, Spaceagain, Scans, TypeOK
<1>1. CASE x' = x /\ StartArg(x) /\ UNCHANGED <<scmdbuf, rlopts, st0>>
  <2>1. TypeOK'
    BY <1>1, StartKeeps DEF TypeOK, Scans
  <2>2. ZeroAhead'
    BY <1>0, <1>1, StartKeeps DEF ZeroAhead
  <2> QED
    BY <2>1, <2>2, StartKeeps, <1>1 DEF AtTheEnd
<1>2. CASE Parsed(st1) /\ UNCHANGED <<scmdbuf, x, argv, rlopts, st0>>
  BY <1>2, Sizes DEF Parsed, TypeOK, AtTheEnd, ZeroAhead, Scans
<1>3. CASE scmdbuf[x] # 0 /\ x' = x + 1
           /\ UNCHANGED <<pc, scmdbuf, argc, argv, st1, cmd, rlopts, st0>>
  <2>1. x + 1 \in Cells /\ \E i \in x + 1 .. SCMD_MAX - 1 : scmdbuf[i] = 0
    BY <1>0, <1>3, OneFurther
  <2> QED
    BY <1>0, <1>3, <2>1 DEF TypeOK, AtTheEnd, ZeroAhead, Scans
<1>4. CASE Split /\ scmdbuf[x] = Space
  <2>1. scmdbuf' = [scmdbuf EXCEPT ![x] = 0] /\ x' = x + 1 /\ pc' = "spaceagain"
        /\ UNCHANGED <<argc, argv, st1, cmd, rlopts, st0>>
    BY <1>4 DEF Split, Space
  <2>2. PICK i \in x + 1 .. SCMD_MAX - 1 : scmdbuf[i] = 0
    BY <1>0, <1>4, OneFurther DEF Space
  <2>3. x + 1 \in Cells
    BY <1>0, <1>4, OneFurther DEF Space
  <2>4. i \in Cells /\ scmdbuf \in [Cells -> 0 .. 255] /\ x \in Cells
    BY <2>2, <1>0, Sizes DEF Cells, TypeOK
  <2>5. scmdbuf'[i] = 0 /\ scmdbuf' \in [Cells -> 0 .. 255]
    BY <2>1, <2>2, <2>4
  <2>6. ZeroAhead'
    BY <2>1, <2>2, <2>5 DEF ZeroAhead
  <2> QED
    BY <2>1, <2>3, <2>5, <2>6 DEF TypeOK, AtTheEnd, Scans
<1> QED
  <2>1. CASE Prespaces
    BY <2>1, <1>1, <1>3 DEF Prespaces, Space
  <2>2. CASE Split
    BY <2>2, <1>2, <1>3, <1>4 DEF Split
  <2>3. CASE Spaceagain
    BY <2>3, <1>1, <1>2, <1>3 DEF Spaceagain, Space
  <2> QED
    BY <2>1, <2>2, <2>3

LEMMA Executing ==
  ASSUME Bounds, NextCommand \/ NoCommand \/ Found \/ Command
  PROVE  Bounds'
<1> USE DEF Bounds
<1>1. CASE NextCommand
  <2>1. cmd + 1 \in DOMAIN Table
    BY <1>1, Sizes DEF NextCommand, TypeOK
  <2> QED
    BY <1>1, <2>1 DEF NextCommand, TypeOK, AtTheEnd, ZeroAhead, Scans
<1>2. CASE NoCommand
  BY <1>2, Sizes DEF NoCommand, Prompt, TypeOK, AtTheEnd, ZeroAhead, Scans
<1>3. CASE Found
  BY <1>3 DEF Found, TypeOK, AtTheEnd, ZeroAhead, Scans
<1>4. CASE Command
  <2>1. rlopts' \in BOOLEAN
    BY <1>4 DEF Command, TypeOK
  <2> QED
    BY <1>4, <2>1, Sizes DEF Command, Prompt, TypeOK, AtTheEnd, ZeroAhead, Scans
<1> QED
  BY <1>1, <1>2, <1>3, <1>4

LEMMA StepsKeepBounds == Bounds /\ [Next]_vars => Bounds'
<1> SUFFICES ASSUME Bounds, [Next]_vars PROVE Bounds'
  OBVIOUS
<1>1. CASE \E c \in Keys : Key(c) \/ Backspace(c) \/ Return(c)
  BY <1>1, Typing
<1>2. CASE Busy
  BY <1>2, Splitting, Executing DEF Busy
<1>3. CASE UNCHANGED vars
  BY <1>3 DEF vars, Bounds, TypeOK, AtTheEnd, ZeroAhead, Scans
<1> QED
  BY <1>1, <1>2, <1>3 DEF Next

-----------------------------------------------------------------------------
(* The places where the words of a line start.                             *)

LEMMA StartsFinite ==
  ASSUME NEW l \in Seq(0 .. 255), NEW p \in Int
  PROVE  /\ IsFiniteSet(Monitor!Starts(l)) /\ IsFiniteSet(Monitor!Before(l, p))
         /\ Cardinality(Monitor!Starts(l)) \in Nat
         /\ Cardinality(Monitor!Before(l, p)) \in Nat
         /\ Cardinality(Monitor!Before(l, p)) <= Cardinality(Monitor!Starts(l))
<1>1. IsFiniteSet(1 .. Len(l))
  BY FS_Interval
<1>2. Monitor!Starts(l) \subseteq 1 .. Len(l)
  BY DEF Monitor!Starts
<1>3. Monitor!Before(l, p) \subseteq Monitor!Starts(l)
  BY DEF Monitor!Before
<1>4. IsFiniteSet(Monitor!Starts(l))
  BY <1>1, <1>2, FS_Subset
<1> QED
  BY <1>3, <1>4, FS_Subset, FS_CardinalityType

(* A start is one more than there are before it.                           *)
LEMMA OneMore ==
  ASSUME NEW l \in Seq(0 .. 255), NEW p \in Int, p + 1 \in Monitor!Starts(l)
  PROVE  Cardinality(Monitor!Before(l, p + 1)) = Cardinality(Monitor!Before(l, p)) + 1
<1>1. Monitor!Starts(l) \subseteq Int
  BY DEF Monitor!Starts
<1>2. Monitor!Before(l, p + 1) = Monitor!Before(l, p) \cup {p + 1}
  BY <1>1 DEF Monitor!Before
<1>3. p + 1 \notin Monitor!Before(l, p)
  BY DEF Monitor!Before
<1> QED
  BY <1>2, <1>3, StartsFinite, FS_AddElement

LEMMA NoMore ==
  ASSUME NEW l \in Seq(0 .. 255), NEW p \in Int, p + 1 \notin Monitor!Starts(l)
  PROVE  Monitor!Before(l, p + 1) = Monitor!Before(l, p)
<1>1. Monitor!Starts(l) \subseteq Int
  BY DEF Monitor!Starts
<1> QED
  BY <1>1 DEF Monitor!Before

(* A start is known by the number of those up to it.                       *)
LEMMA InOrder ==
  ASSUME NEW l \in Seq(0 .. 255),
         NEW i \in Monitor!Starts(l), NEW j \in Monitor!Starts(l),
         Cardinality(Monitor!Before(l, i)) = Cardinality(Monitor!Before(l, j))
  PROVE  i = j
<1>1. Monitor!Starts(l) \subseteq Int
  BY DEF Monitor!Starts
<1>2. ASSUME NEW a \in Monitor!Starts(l), NEW b \in Monitor!Starts(l), a < b
      PROVE  Cardinality(Monitor!Before(l, a)) < Cardinality(Monitor!Before(l, b))
  <2>0. a \in Int /\ b \in Int /\ b - 1 \in Int /\ (b - 1) + 1 = b
    BY <1>1
  <2>1. Monitor!Before(l, a) \subseteq Monitor!Before(l, b - 1)
    BY <1>1, <1>2, <2>0 DEF Monitor!Before
  <2>2. Cardinality(Monitor!Before(l, a)) <= Cardinality(Monitor!Before(l, b - 1))
    BY <2>0, <2>1, StartsFinite, FS_Subset
  <2>3. Cardinality(Monitor!Before(l, b)) = Cardinality(Monitor!Before(l, b - 1)) + 1
    BY <2>0, OneMore
  <2>4. Cardinality(Monitor!Before(l, a)) \in Nat /\ Cardinality(Monitor!Before(l, b - 1)) \in Nat
    BY <2>0, StartsFinite
  <2> QED
    BY <2>2, <2>3, <2>4
<1>3. i \in Int /\ j \in Int
  BY <1>1
<1>4. Cardinality(Monitor!Before(l, i)) \in Nat
  BY <1>3, StartsFinite
<1>5. ~ (i < j) /\ ~ (j < i)
  BY <1>2, <1>4
<1> QED
  BY <1>3, <1>5

(* No word starts after the end, or after the zero that ends the string.   *)
LEMMA NoneAfter ==
  ASSUME NEW l \in Seq(0 .. 255), NEW p \in 0 .. Len(l), p = Len(l) \/ l[p + 1] = 0
  PROVE  Monitor!Before(l, p) = Monitor!Starts(l)
<1>1. ASSUME NEW i \in Monitor!Starts(l) PROVE i <= p
  <2>1. i \in 1 .. Len(l) /\ \A j \in 1 .. i : l[j] # 0
    BY DEF Monitor!Starts
  <2>2. Len(l) \in Nat /\ p \in Nat
    OBVIOUS
  <2>3. CASE p + 1 <= i
    <3>1. p + 1 \in 1 .. i /\ p # Len(l)
      BY <2>1, <2>2, <2>3
    <3> QED
      BY <2>1, <3>1
  <2> QED
    BY <2>1, <2>2, <2>3
<1> QED
  BY <1>1 DEF Monitor!Before

-----------------------------------------------------------------------------
(* A function on 1 .. n is a sequence of length n.                         *)
LEMMA AsSequence ==
  ASSUME NEW S, NEW n \in Nat, NEW f \in [1 .. n -> S]
  PROVE  f \in Seq(S) /\ Len(f) = n
<1>1. f \in Seq(S)
  BY SeqDef
<1>2. DOMAIN f = 1 .. n /\ DOMAIN f = 1 .. Len(f) /\ Len(f) \in Nat
  BY <1>1, LenProperties
<1> QED
  BY <1>1, <1>2

-----------------------------------------------------------------------------
(* Where the loops are in the line.                                        *)

LEMMA LineFacts ==
  ASSUME IInv
  PROVE  /\ SCMD_MAX \in Int /\ ARGV_MAX \in Int /\ 1 <= ARGV_MAX
         /\ entered \in Seq(0 .. 255) /\ Len(entered) \in Nat /\ Len(entered) < SCMD_MAX
         /\ \A i \in 1 .. Len(entered) : entered[i] \in 0 .. 255
         /\ x \in Int /\ 0 <= x /\ x < SCMD_MAX
         /\ scmdbuf \in [Cells -> 0 .. 255]
         /\ argv \in [0 .. ARGV_MAX - 1 -> Cells]
         /\ st1 \in Int /\ 0 <= st1 /\ st1 <= ARGV_MAX
<1>1. TypeOK /\ LineKept
  BY DEF IInv, Bounds
<1>2. SCMD_MAX \in Nat \ {0} /\ ARGV_MAX \in Nat \ {0}
  BY Sizes
<1>3. entered \in Seq(0 .. 255) /\ Len(entered) < SCMD_MAX
  BY <1>1 DEF LineKept
<1>4. Len(entered) \in Nat
  BY <1>3
<1>6. \A i \in 1 .. Len(entered) : entered[i] \in 0 .. 255
  BY <1>3, ElementOfSeq
<1>5. x \in 0 .. SCMD_MAX - 1 /\ st1 \in 0 .. ARGV_MAX
  BY <1>1 DEF TypeOK, Cells
<1> QED
  BY <1>1, <1>2, <1>3, <1>4, <1>5, <1>6 DEF TypeOK

(* What the character at X says of the line.                               *)
LEMMA AtX ==
  ASSUME IInv, pc \in Scans
  PROVE  /\ x <= Len(entered)
         /\ scmdbuf[x] = 0 => x = Len(entered) \/ entered[x + 1] = 0
         /\ scmdbuf[x] # 0 => x < Len(entered) /\ entered[x + 1] = scmdbuf[x]
         /\ \A i \in 1 .. x : entered[i] # 0
<1>1. /\ x <= Len(entered)
      /\ \A i \in 1 .. x : entered[i] # 0
      /\ \A i \in x + 1 .. Len(entered) : scmdbuf[i - 1] = entered[i]
      /\ scmdbuf[Len(entered)] = 0
  BY DEF IInv, ScanPlace
<1>2. x \in Int /\ 0 <= x /\ Len(entered) \in Nat
  BY LineFacts
<1>3. x # Len(entered) => x < Len(entered) /\ entered[x + 1] = scmdbuf[x]
  <2> SUFFICES ASSUME x # Len(entered) PROVE x < Len(entered) /\ entered[x + 1] = scmdbuf[x]
    OBVIOUS
  <2>1. x < Len(entered) /\ x + 1 \in x + 1 .. Len(entered) /\ (x + 1) - 1 = x
    BY <1>1, <1>2
  <2> QED
    BY <1>1, <2>1
<1> QED
  BY <1>1, <1>3

(* What ScanPlace says after X has moved over a character.                 *)
LEMMA ScanMoves ==
  ASSUME IInv, pc \in Scans, scmdbuf[x] # 0, x' = x + 1, entered' = entered,
         \A i \in Cells \ {x} : scmdbuf'[i] = scmdbuf[i]
  PROVE  ScanPlace'
<1>1. /\ x < Len(entered) /\ entered[x + 1] # 0
      /\ \A i \in 1 .. x : entered[i] # 0
  BY AtX
<1>2. /\ x \in Int /\ 0 <= x /\ Len(entered) \in Nat /\ Len(entered) < SCMD_MAX /\ SCMD_MAX \in Int
  BY LineFacts
<1>3. \A i \in x + 1 .. Len(entered) : scmdbuf[i - 1] = entered[i]
  BY DEF IInv, ScanPlace
<1>4. scmdbuf[Len(entered)] = 0
  BY DEF IInv, ScanPlace
<1>5. \A i \in 1 .. x + 1 : entered[i] # 0
  BY <1>1, <1>2
<1>6. ASSUME NEW i \in x + 2 .. Len(entered) PROVE scmdbuf'[i - 1] = entered[i]
  <2>1. i \in x + 1 .. Len(entered) /\ i - 1 \in Cells \ {x}
    BY <1>2 DEF Cells
  <2> QED
    BY <1>3, <2>1
<1>7. scmdbuf'[Len(entered)] = 0
  <2>1. Len(entered) \in Cells \ {x}
    BY <1>1, <1>2 DEF Cells
  <2> QED
    BY <1>4, <2>1
<1>8. x' <= Len(entered') /\ (\A i \in 1 .. x' : entered'[i] # 0)
      /\ (\A i \in x' + 1 .. Len(entered') : scmdbuf'[i - 1] = entered'[i])
      /\ scmdbuf'[Len(entered')] = 0
  BY <1>1, <1>2, <1>5, <1>6, <1>7
<1> QED
  BY <1>8 DEF ScanPlace

LEMMA ScanStays ==
  ASSUME IInv, pc \in Scans, UNCHANGED <<x, entered, scmdbuf>>
  PROVE  ScanPlace'
BY DEF IInv, ScanPlace

(* A word that was whole in the buffer stays so while none of it changes.  *)
LEMMA StaysEnded ==
  ASSUME IInv, NEW k \in 0 .. ARGV_MAX - 1, NEW y \in Int, NEW z \in Int, y <= z,
         y <= Len(entered),
         Ended(k, y), argv'[k] = argv[k], entered' = entered,
         \A i \in Cells : i <= y => scmdbuf'[i] = scmdbuf[i]
  PROVE  Whole(scmdbuf', argv'[k], entered', z)
<1>1. PICK e \in argv[k] .. y :
        /\ scmdbuf[e] = 0
        /\ e = Len(entered) \/ entered[e + 1] \in {0, Space}
        /\ \A i \in argv[k] .. e - 1 : /\ scmdbuf[i] = entered[i + 1]
                                       /\ entered[i + 1] \notin {0, Space}
  BY DEF Ended, Whole
<1>2. argv[k] \in Cells
  BY LineFacts
<1>3. argv[k] \in Int /\ 0 <= argv[k] /\ e \in Int /\ argv[k] <= e /\ e <= y /\ e < SCMD_MAX
      /\ SCMD_MAX \in Int
  BY <1>1, <1>2, LineFacts DEF Cells
<1>4. e \in Cells /\ e \in argv[k] .. z
  BY <1>3 DEF Cells
<1>5. \A i \in argv[k] .. e - 1 : i \in Cells /\ i <= y
  BY <1>3 DEF Cells
<1> QED
  BY <1>1, <1>3, <1>4, <1>5 DEF Whole

LEMMA TypingPlaces ==
  ASSUME IInv, Bounds', NEW c \in Keys, Key(c) \/ Backspace(c)
  PROVE  IInv'
<1>1. pc' = "char" /\ UNCHANGED <<st1, entered>> /\ pc = "char"
  BY DEF Key, Backspace
<1> QED
  BY <1>1 DEF IInv, TypingPlace, LineKept, ScanPlace, PrespacesPlace, SplitPlace,
              SpaceagainPlace, ParsedPlace, ComparePlace, Scans

(* The line is entered: the buffer holds it, with a zero at its end.       *)
LEMMA ReturnPlaces ==
  ASSUME IInv, Bounds', NEW c \in Keys, Return(c)
  PROVE  IInv'
<1>1. /\ pc = "char" /\ pc' = "prespaces" /\ x' = 0 /\ st1' = st1
      /\ scmdbuf' = [scmdbuf EXCEPT ![x] = 0]
      /\ entered' = [i \in 1 .. st0 |-> scmdbuf[i - 1]]
  BY DEF Return
<1>2. st0 = x /\ st1 = 0
  BY <1>1 DEF IInv, Bounds, AtTheEnd, TypingPlace
<1>3. /\ x \in Int /\ 0 <= x /\ x < SCMD_MAX /\ SCMD_MAX \in Int
      /\ scmdbuf \in [Cells -> 0 .. 255]
  BY LineFacts
<1>4. \A i \in 1 .. x : i - 1 \in Cells /\ i - 1 # x
  BY <1>3 DEF Cells
<1>5. entered' \in [1 .. x -> 0 .. 255]
  BY <1>1, <1>2, <1>3, <1>4
<1>6. entered' \in Seq(0 .. 255) /\ Len(entered') = x
  <2>1. x \in Nat
    BY <1>3
  <2> QED
    BY <1>5, <2>1, AsSequence
<1>7. x \in Cells
  BY <1>3 DEF Cells
<1>8. scmdbuf'[x] = 0 /\ \A i \in 1 .. x : scmdbuf'[i - 1] = entered'[i]
  BY <1>1, <1>2, <1>3, <1>4, <1>7
<1>9. LineKept'
  BY <1>3, <1>6 DEF LineKept
<1>10. ScanPlace'
  <2>1. x' <= Len(entered') /\ 1 .. x' = {} /\ x' + 1 = 1
    <3>1. x' = 0 /\ Len(entered') = x /\ 0 <= x
      BY <1>1, <1>3, <1>6
    <3> QED
      BY <3>1
  <2>2. \A i \in x' + 1 .. Len(entered') : scmdbuf'[i - 1] = entered'[i]
    BY <1>6, <1>8, <2>1
  <2>3. scmdbuf'[Len(entered')] = 0
    BY <1>6, <1>8
  <2> QED
    BY <2>1, <2>2, <2>3 DEF ScanPlace
<1>11. PrespacesPlace' /\ TypingPlace'
  BY <1>1, <1>2 DEF PrespacesPlace, TypingPlace
<1> QED
  BY <1>1, <1>9, <1>10, <1>11
     DEF IInv, SplitPlace, SpaceagainPlace, ParsedPlace, ComparePlace

(* What is left to show when the line is parsed, and while it is not.      *)
LEMMA ParsedPlaces ==
  ASSUME IInv, Bounds', NEW n, Parsed(n), UNCHANGED entered, ParsedPlace'
  PROVE  IInv'
<1>1. pc' = "compare" /\ st1' = 0 /\ cmd' = 1
  BY DEF Parsed
<1>2. 1 .. cmd' - 1 = {}
  BY <1>1
<1>3. ComparePlace'
  BY <1>1, <1>2 DEF ComparePlace
<1> QED
  BY <1>1, <1>3 DEF IInv, TypingPlace, LineKept, ScanPlace, PrespacesPlace, SplitPlace,
                    SpaceagainPlace, Scans

LEMMA ScanningPlaces ==
  ASSUME IInv, Bounds', pc' \in Scans, UNCHANGED entered,
         TypingPlace', ScanPlace', PrespacesPlace', SplitPlace', SpaceagainPlace'
  PROVE  IInv'
BY DEF IInv, LineKept, ParsedPlace, ComparePlace, Scans

LEMMA StaysPlaced ==
  ASSUME NEW k, Placed(k), argv'[k] = argv[k], entered' = entered
  PROVE  Placed(k)'
BY DEF Placed, Starts, Before

LEMMA PrespacesPlaces ==
  ASSUME IInv, Bounds', Prespaces
  PROVE  IInv'
<1>1. /\ pc = "prespaces" /\ pc \in Scans /\ entered' = entered /\ scmdbuf' = scmdbuf
      /\ st1 = 0
  BY DEF Prespaces, Scans, IInv, TypingPlace
<1>2. /\ x \in Int /\ 0 <= x /\ Len(entered) \in Nat /\ entered \in Seq(0 .. 255)
      /\ ARGV_MAX \in Int /\ 1 <= ARGV_MAX /\ argv \in [0 .. ARGV_MAX - 1 -> Cells]
  BY LineFacts
<1>3. \A i \in 1 .. x : entered[i] = Space
  BY <1>1 DEF IInv, PrespacesPlace
<1>4. CASE scmdbuf[x] = Space
  <2>1. x' = x + 1 /\ UNCHANGED <<pc, st1>>
    BY <1>4 DEF Prespaces
  <2>2. x < Len(entered) /\ entered[x + 1] = Space
    BY <1>1, <1>4, AtX DEF Space
  <2>3. ScanPlace'
    BY <1>1, <1>4, <2>1, ScanMoves DEF Space
  <2>4. \A i \in 1 .. x + 1 : entered[i] = Space
    BY <1>2, <1>3, <2>2
  <2>5. PrespacesPlace'
    BY <1>1, <2>1, <2>4 DEF PrespacesPlace
  <2> QED
    BY <1>1, <2>1, <2>3, <2>5, ScanningPlaces DEF TypingPlace, SplitPlace, SpaceagainPlace
<1>5. CASE scmdbuf[x] # Space
  <2>1. /\ x' = x /\ argv' = [argv EXCEPT ![0] = x] /\ st1' = 1 /\ pc' = "split"
    BY <1>1, <1>2, <1>5 DEF Prespaces, StartArg
  <2>2. argv'[0] = x /\ st1' \in 1 .. ARGV_MAX
    BY <1>2, <2>1
  <2>3. ScanPlace'
    BY <1>1, <2>1, <2>2, ScanStays DEF Prespaces
  <2>4. CASE scmdbuf[x] = 0
    <3>1. x = Len(entered) \/ entered[x + 1] = 0
      BY <1>1, <2>4, AtX
    <3>2. x \in 0 .. Len(entered)
      BY <1>1, <1>2, AtX
    <3>3. Before(x) = Starts
      BY <1>2, <3>1, <3>2, NoneAfter DEF Before, Starts
    <3>4. Before(x) = {}
      BY <1>2, <1>3 DEF Before, Monitor!Before, Monitor!Starts, Monitor!Space, Space
    <3>5. NoWord'
      BY <1>1, <2>2, <2>4, <3>3, <3>4 DEF NoWord, Starts
    <3>6. SplitPlace'
      BY <2>1, <2>2, <3>5 DEF SplitPlace
    <3> QED
      BY <1>1, <2>1, <2>3, <3>6, ScanningPlaces
         DEF TypingPlace, PrespacesPlace, SpaceagainPlace, Scans
  <2>5. CASE scmdbuf[x] # 0
    <3>1. x < Len(entered) /\ entered[x + 1] \notin {0, Space} /\ \A i \in 1 .. x : entered[i] # 0
      BY <1>1, <1>5, <2>5, AtX
    <3>2. x + 1 \in Monitor!Starts(entered)
      <4>1. x + 1 \in 1 .. Len(entered)
        BY <1>2, <3>1
      <4>2. \A j \in 1 .. x + 1 : entered[j] # 0
        BY <1>2, <3>1
      <4>3. x + 1 = 1 \/ entered[(x + 1) - 1] = Space
        BY <1>2, <1>3
      <4> QED
        BY <3>1, <4>1, <4>2, <4>3 DEF Monitor!Starts, Monitor!Space, Space
    <3>3. Monitor!Before(entered, x) = {}
      BY <1>2, <1>3 DEF Monitor!Before, Monitor!Starts, Monitor!Space, Space
    <3>4. Cardinality(Monitor!Before(entered, x + 1)) = 1
      <4>1. Cardinality(Monitor!Before(entered, x)) = 0
        BY <3>3, FS_EmptySet
      <4>2. Cardinality(Monitor!Before(entered, x + 1)) = Cardinality(Monitor!Before(entered, x)) + 1
        BY <1>2, <3>2, OneMore
      <4> QED
        BY <4>1, <4>2
    <3>5. Placed(0)'
      BY <1>1, <2>2, <3>2, <3>4 DEF Placed, Starts, Before
    <3>6. 0 .. st1' - 1 = {0} /\ 0 .. st1' - 2 = {} /\ argv'[st1' - 1] = x'
      BY <2>1, <2>2
    <3>7. Cardinality(Before(x + 1))' = st1'
      BY <1>1, <2>1, <3>4 DEF Before
    <3>8. argv'[st1' - 1] .. x' - 1 = {}
      BY <1>2, <2>1, <3>6
    <3>9. argv'[st1' - 1] <= x'
      BY <1>2, <2>1, <3>6
    <3>10. SplitPlace'
      BY <2>1, <2>2, <3>5, <3>6, <3>7, <3>8, <3>9 DEF SplitPlace
    <3> QED
      BY <1>1, <2>1, <2>3, <3>10, ScanningPlaces
         DEF TypingPlace, PrespacesPlace, SpaceagainPlace, Scans
  <2> QED
    BY <2>4, <2>5
<1> QED
  BY <1>4, <1>5

(* The word under way ends at X.                                           *)
LEMMA WordEnds ==
  ASSUME IInv, pc = "split", ~ NoWord,
         x = Len(entered) \/ entered[x + 1] \in {0, Space},
         scmdbuf'[x] = 0, argv' = argv, entered' = entered,
         \A i \in Cells \ {x} : scmdbuf'[i] = scmdbuf[i],
         NEW z \in Int, x <= z, NEW k \in 0 .. st1 - 1
  PROVE  Whole(scmdbuf', argv'[k], entered', z)
<1>1. /\ \A j \in 0 .. st1 - 2 : Ended(j, x - 1)
      /\ argv[st1 - 1] <= x
      /\ \A i \in argv[st1 - 1] .. x - 1 : /\ scmdbuf[i] = entered[i + 1]
                                           /\ entered[i + 1] # Space
      /\ st1 \in 1 .. ARGV_MAX
  BY DEF IInv, SplitPlace
<1>2. /\ x \in Int /\ 0 <= x /\ x < SCMD_MAX /\ SCMD_MAX \in Int /\ ARGV_MAX \in Int
      /\ st1 \in Int /\ argv \in [0 .. ARGV_MAX - 1 -> Cells]
  BY LineFacts
<1>3. x <= Len(entered) /\ \A i \in 1 .. x : entered[i] # 0
  BY AtX DEF Scans
<1>4. k \in Int /\ k \in 0 .. ARGV_MAX - 1 /\ st1 - 1 \in 0 .. ARGV_MAX - 1
  BY <1>1, <1>2
<1>5. CASE k = st1 - 1
  <2>1. argv[k] \in Cells /\ argv[k] <= x
    BY <1>1, <1>2, <1>4, <1>5
  <2>2. argv[k] \in Int /\ 0 <= argv[k]
    BY <1>2, <2>1 DEF Cells
  <2>3. x \in argv'[k] .. z
    BY <1>2, <2>1, <2>2
  <2>4. ASSUME NEW i \in argv[k] .. x - 1
        PROVE  scmdbuf'[i] = entered[i + 1] /\ entered[i + 1] \notin {0, Space}
    <3>1. i \in Int /\ argv[k] <= i /\ i < x
      BY <1>2, <2>2
    <3>2. i \in Cells \ {x} /\ i + 1 \in 1 .. x
      BY <1>2, <2>2, <3>1 DEF Cells
    <3> QED
      BY <1>1, <1>3, <1>5, <3>2
  <2> QED
    BY <2>3, <2>4 DEF Whole
<1>6. CASE k # st1 - 1
  <2>1. k \in 0 .. st1 - 2 /\ x - 1 \in Int /\ x - 1 <= z
    BY <1>2, <1>4, <1>6
  <2>2. Ended(k, x - 1)
    BY <1>1, <2>1
  <2>3. \A i \in Cells : i <= x - 1 => scmdbuf'[i] = scmdbuf[i]
    BY <1>2 DEF Cells
  <2>4. x - 1 <= Len(entered)
    BY <1>2, <1>3, LineFacts
  <2> QED
    BY <1>4, <2>1, <2>2, <2>3, <2>4, StaysEnded
<1> QED
  BY <1>5, <1>6

LEMMA SplitPlaces ==
  ASSUME IInv, Bounds', Split
  PROVE  IInv'
<1>1. /\ pc = "split" /\ pc \in Scans /\ entered' = entered /\ argv' = argv
  BY DEF Split, Scans
<1>2. /\ x \in Int /\ 0 <= x /\ Len(entered) \in Nat /\ entered \in Seq(0 .. 255)
      /\ ARGV_MAX \in Int /\ 1 <= ARGV_MAX /\ argv \in [0 .. ARGV_MAX - 1 -> Cells]
      /\ x < SCMD_MAX /\ SCMD_MAX \in Int /\ scmdbuf \in [Cells -> 0 .. 255]
  BY LineFacts
<1>3. \/ NoWord /\ st1 = 1 /\ argv[0] = x
      \/ /\ st1 \in 1 .. ARGV_MAX
         /\ Cardinality(Before(x + 1)) = st1
         /\ \A k \in 0 .. st1 - 1 : Placed(k)
         /\ argv[st1 - 1] <= x
         /\ \A i \in argv[st1 - 1] .. x - 1 : /\ scmdbuf[i] = entered[i + 1]
                                              /\ entered[i + 1] # Space
  BY <1>1 DEF IInv, SplitPlace
<1>4. x \in Cells /\ x <= Len(entered)
  BY <1>1, <1>2, AtX DEF Cells
<1>5. CASE scmdbuf[x] = 0
  <2>1. Parsed(st1) /\ argc' = st1 /\ scmdbuf' = scmdbuf /\ pc' = "compare"
    BY <1>5 DEF Split, Space, Parsed
  <2>2. x = Len(entered) \/ entered[x + 1] = 0
    BY <1>1, <1>5, AtX
  <2>3. CASE NoWord
    <3>1. Starts = {} => Cardinality(Before(x + 1)) = 0
      BY FS_EmptySet DEF Starts, Before, Monitor!Before
    <3>2. st1 = 1
      BY <1>3, <2>3, <3>1 DEF NoWord
    <3>3. NoWord'
      BY <1>1, <2>1, <2>3 DEF NoWord, Starts
    <3>4. ParsedPlace'
      BY <2>1, <3>2, <3>3 DEF ParsedPlace
    <3> QED
      BY <1>1, <2>1, <3>4, ParsedPlaces
  <2>4. CASE ~ NoWord
    <3>1. /\ st1 \in 1 .. ARGV_MAX /\ Cardinality(Before(x + 1)) = st1
          /\ \A k \in 0 .. st1 - 1 : Placed(k)
      BY <1>3, <2>4
    <3>2. Before(x) = Starts
      <4>1. x \in 0 .. Len(entered)
        BY <1>2, <1>4
      <4> QED
        BY <1>2, <2>2, <4>1, NoneAfter DEF Before, Starts
    <3>3. Before(x + 1) = Starts
      BY <1>2, <3>2 DEF Before, Starts, Monitor!Before, Monitor!Starts
    <3>4. Cardinality(Starts) = st1 /\ Starts # {}
      <4>1. Cardinality(Starts) = st1 /\ st1 # 0
        BY <3>1, <3>3
      <4> QED
        BY <4>1, FS_EmptySet
    <3>5. Starts' = Starts
      BY <1>1 DEF Starts
    <3>6. ASSUME NEW k \in 0 .. st1 - 1
          PROVE  Placed(k)' /\ Ended(k, Len(entered))'
      <4>1. Placed(k)'
        BY <1>1, <3>1, StaysPlaced
      <4>2. Ended(k, Len(entered))'
        <5>1. scmdbuf'[x] = 0 /\ \A i \in Cells \ {x} : scmdbuf'[i] = scmdbuf[i]
          BY <1>5, <2>1
        <5>2. Len(entered) \in Int /\ x <= Len(entered)
          BY <1>2, <1>4
        <5>3. Whole(scmdbuf', argv'[k], entered', Len(entered))
          BY <1>1, <2>2, <2>4, <5>1, <5>2, WordEnds
        <5> QED
          BY <1>1, <5>3 DEF Ended
      <4> QED
        BY <4>1, <4>2
    <3>7. argc' = IF Cardinality(Starts') < ARGV_MAX THEN Cardinality(Starts') ELSE ARGV_MAX
      BY <1>2, <2>1, <3>1, <3>4, <3>5
    <3>8. ParsedPlace'
      BY <2>1, <3>4, <3>5, <3>6, <3>7 DEF ParsedPlace
    <3> QED
      BY <1>1, <2>1, <3>8, ParsedPlaces
  <2> QED
    BY <2>3, <2>4 DEF Whole
<1>6. CASE scmdbuf[x] # 0
  <2>1. ~ NoWord
    BY <1>3, <1>6, FS_EmptySet DEF NoWord, Starts, Before, Monitor!Before, Placed
  <2>2. /\ st1 \in 1 .. ARGV_MAX /\ Cardinality(Before(x + 1)) = st1
        /\ \A k \in 0 .. st1 - 1 : Placed(k)
        /\ argv[st1 - 1] <= x
        /\ \A i \in argv[st1 - 1] .. x - 1 : /\ scmdbuf[i] = entered[i + 1]
                                             /\ entered[i + 1] # Space
    BY <1>3, <2>1
  <2>3. x < Len(entered) /\ entered[x + 1] = scmdbuf[x]
    BY <1>1, <1>6, AtX
  <2>4. \A k \in 0 .. st1 - 1 : Placed(k)'
    BY <1>1, <2>2, StaysPlaced
  <2>5. CASE scmdbuf[x] = Space
    <3>1. /\ scmdbuf' = [scmdbuf EXCEPT ![x] = 0] /\ x' = x + 1 /\ pc' = "spaceagain"
          /\ st1' = st1
      BY <2>5 DEF Split, Space
    <3>2. scmdbuf'[x] = 0 /\ \A i \in Cells \ {x} : scmdbuf'[i] = scmdbuf[i]
      BY <1>2, <1>4, <3>1
    <3>3. ScanPlace'
      BY <1>1, <1>6, <3>1, <3>2, ScanMoves
    <3>4. x' > 0 /\ entered'[x'] = Space /\ x' - 1 = x
      BY <1>1, <1>2, <2>3, <2>5, <3>1
    <3>5. Cardinality(Before(x))' = st1'
      BY <1>1, <2>2, <3>1 DEF Before
    <3>6. ASSUME NEW k \in 0 .. st1 - 1 PROVE Whole(scmdbuf', argv'[k], entered', x' - 1)
      <4>1. x = Len(entered) \/ entered[x + 1] \in {0, Space}
        BY <2>3, <2>5
      <4>2. Whole(scmdbuf', argv'[k], entered', x)
        BY <1>1, <1>2, <2>1, <3>2, <4>1, WordEnds
      <4> QED
        BY <3>4, <4>2
    <3>7. SpaceagainPlace'
      BY <2>2, <2>4, <3>1, <3>4, <3>5, <3>6 DEF SpaceagainPlace, Ended
    <3> QED
      BY <1>1, <3>1, <3>3, <3>7, ScanningPlaces
         DEF TypingPlace, PrespacesPlace, SplitPlace, Scans
  <2>6. CASE scmdbuf[x] # Space
    <3>1. x' = x + 1 /\ UNCHANGED <<pc, scmdbuf, st1>>
      BY <1>6, <2>6 DEF Split
    <3>2. ScanPlace'
      BY <1>1, <1>6, <3>1, ScanMoves
    <3>3. (x + 1) + 1 \notin Monitor!Starts(entered)
      BY <1>2, <2>3, <2>6 DEF Monitor!Starts, Monitor!Space, Space
    <3>4. Monitor!Before(entered, (x + 1) + 1) = Monitor!Before(entered, x + 1)
      BY <1>2, <3>3, NoMore
    <3>5. Cardinality(Before(x + 1))' = st1'
      BY <1>1, <2>2, <3>1, <3>4 DEF Before
    <3>6. ASSUME NEW k \in 0 .. st1' - 2 PROVE Whole(scmdbuf', argv'[k], entered', x' - 1)
      <4>1. k \in 0 .. ARGV_MAX - 1 /\ k \in 0 .. st1 - 2 /\ x - 1 \in Int /\ x' - 1 \in Int
            /\ x - 1 <= x' - 1 /\ x - 1 <= Len(entered)
        BY <1>2, <1>4, <2>2, <3>1
      <4>2. Ended(k, x - 1)
        BY <1>1, <2>1, <4>1 DEF IInv, SplitPlace
      <4> QED
        BY <1>1, <3>1, <4>1, <4>2, StaysEnded
    <3>7. st1 - 1 \in 0 .. ARGV_MAX - 1
      BY <1>2, <2>2
    <3>8. argv[st1 - 1] \in Int
      BY <1>2, <3>7 DEF Cells
    <3>9. argv[st1 - 1] <= x + 1 /\ argv[st1 - 1] .. (x + 1) - 1 = (argv[st1 - 1] .. x - 1) \cup {x}
      BY <1>2, <2>2, <3>8
    <3>10. argv'[st1' - 1] <= x'
      BY <1>1, <3>1, <3>9
    <3>11. \A i \in argv'[st1' - 1] .. x' - 1 : /\ scmdbuf'[i] = entered'[i + 1]
                                                /\ entered'[i + 1] # Space
      BY <1>1, <2>2, <2>3, <2>6, <3>1, <3>9
    <3>12. SplitPlace'
      BY <2>2, <2>4, <3>1, <3>5, <3>6, <3>10, <3>11 DEF SplitPlace, Ended
    <3> QED
      BY <1>1, <3>1, <3>2, <3>12, ScanningPlaces
         DEF TypingPlace, PrespacesPlace, SpaceagainPlace, Scans
  <2> QED
    BY <2>5, <2>6
<1> QED
  BY <1>5, <1>6

LEMMA SpaceagainPlaces ==
  ASSUME IInv, Bounds', Spaceagain
  PROVE  IInv'
<1>1. /\ pc = "spaceagain" /\ pc \in Scans /\ entered' = entered /\ scmdbuf' = scmdbuf
  BY DEF Spaceagain, Scans
<1>2. /\ x \in Int /\ 0 <= x /\ Len(entered) \in Nat /\ entered \in Seq(0 .. 255)
      /\ ARGV_MAX \in Int /\ 1 <= ARGV_MAX /\ argv \in [0 .. ARGV_MAX - 1 -> Cells]
      /\ st1 \in Int /\ x <= Len(entered)
  BY <1>1, LineFacts, AtX
<1>3. /\ st1 \in 1 .. ARGV_MAX /\ x > 0 /\ entered[x] = Space
      /\ Cardinality(Monitor!Before(entered, x)) = st1
      /\ \A k \in 0 .. st1 - 1 : Placed(k) /\ Ended(k, x - 1)
  BY <1>1 DEF IInv, SpaceagainPlace, Before
<1>4. ASSUME NEW k \in 0 .. st1 - 1, argv'[k] = argv[k]
      PROVE  /\ Placed(k)'
             /\ \A z \in Int : x - 1 <= z => Whole(scmdbuf', argv'[k], entered', z)
  <2>1. k \in 0 .. ARGV_MAX - 1 /\ x - 1 \in Int /\ x - 1 <= Len(entered)
    BY <1>2, <1>3
  <2>2. Placed(k)'
    BY <1>1, <1>3, <1>4, StaysPlaced
  <2> QED
    BY <1>1, <1>3, <1>4, <2>1, <2>2, StaysEnded
<1>5. ASSUME UNCHANGED argv, Parsed(st1),
             st1 = IF Cardinality(Starts) < ARGV_MAX THEN Cardinality(Starts) ELSE ARGV_MAX,
             Starts # {}
      PROVE  IInv'
  <2>1. pc' = "compare" /\ argc' = st1 /\ Starts' = Starts
    BY <1>1, <1>5 DEF Parsed, Starts
  <2>2. ASSUME NEW k \in 0 .. argc' - 1 PROVE Placed(k)' /\ Ended(k, Len(entered))'
    <3>1. k \in 0 .. st1 - 1 /\ Len(entered) \in Int /\ x - 1 <= Len(entered)
      BY <1>2, <2>1
    <3> QED
      BY <1>1, <1>4, <1>5, <3>1 DEF Ended
  <2>3. ParsedPlace'
    BY <1>5, <2>1, <2>2 DEF ParsedPlace
  <2> QED
    BY <1>1, <1>5, <2>3, ParsedPlaces
<1>6. CASE scmdbuf[x] = Space
  <2>1. x' = x + 1 /\ UNCHANGED <<pc, argv, st1>>
    BY <1>6 DEF Spaceagain, Space
  <2>2. x < Len(entered) /\ entered[x + 1] = Space
    BY <1>1, <1>6, AtX DEF Space
  <2>3. ScanPlace'
    BY <1>1, <1>6, <2>1, ScanMoves DEF Space
  <2>4. x + 1 \notin Monitor!Starts(entered)
    BY <2>2 DEF Monitor!Starts, Monitor!Space, Space
  <2>5. Monitor!Before(entered, x + 1) = Monitor!Before(entered, x)
    BY <1>2, <2>4, NoMore
  <2>6. x' > 0 /\ entered'[x'] = Space /\ x' - 1 \in Int /\ x - 1 <= x' - 1
    BY <1>1, <1>2, <2>1, <2>2
  <2>7. Cardinality(Before(x))' = st1'
    BY <1>1, <1>3, <2>1, <2>5 DEF Before
  <2>8. \A k \in 0 .. st1' - 1 : Placed(k)' /\ Whole(scmdbuf', argv'[k], entered', x' - 1)
    BY <1>4, <2>1, <2>6
  <2>9. SpaceagainPlace'
    BY <1>3, <2>1, <2>6, <2>7, <2>8 DEF SpaceagainPlace, Ended
  <2> QED
    BY <1>1, <2>1, <2>3, <2>9, ScanningPlaces DEF TypingPlace, PrespacesPlace, SplitPlace
<1>7. CASE scmdbuf[x] = 0
  <2>1. Parsed(st1) /\ UNCHANGED argv
    BY <1>7 DEF Spaceagain, Space
  <2>2. x = Len(entered) \/ entered[x + 1] = 0
    BY <1>1, <1>7, AtX
  <2>3. Cardinality(Starts) = st1
    <3>1. x \in 0 .. Len(entered)
      BY <1>2
    <3> QED
      BY <1>2, <1>3, <2>2, <3>1, NoneAfter DEF Starts
  <2>4. Starts # {}
    <3>1. st1 # 0
      BY <1>3
    <3> QED
      BY <2>3, <3>1, FS_EmptySet
  <2> QED
    BY <1>2, <1>3, <1>5, <2>1, <2>3, <2>4
<1>8. CASE scmdbuf[x] \notin {0, Space}
  <2>1. x' = x /\ StartArg(x)
    BY <1>8 DEF Spaceagain
  <2>2. x < Len(entered) /\ entered[x + 1] \notin {0, Space} /\ \A i \in 1 .. x : entered[i] # 0
    BY <1>1, <1>8, AtX
  <2>3. x + 1 \in Monitor!Starts(entered)
    <3>1. x + 1 \in 1 .. Len(entered) /\ (x + 1) - 1 = x
      BY <1>2, <2>2
    <3>2. \A j \in 1 .. x + 1 : entered[j] # 0
      BY <1>2, <2>2
    <3> QED
      BY <1>3, <2>2, <3>1, <3>2 DEF Monitor!Starts, Monitor!Space, Space
  <2>4. CASE st1 = ARGV_MAX
    <3>1. Parsed(st1) /\ UNCHANGED argv
      BY <2>1, <2>4 DEF StartArg
    <3>2. Starts # {}
      BY <2>3 DEF Starts
    <3>3. /\ Cardinality(Monitor!Starts(entered)) \in Nat
          /\ Cardinality(Monitor!Before(entered, x)) <= Cardinality(Monitor!Starts(entered))
      BY <1>2, StartsFinite
    <3>4. st1 = IF Cardinality(Starts) < ARGV_MAX THEN Cardinality(Starts) ELSE ARGV_MAX
      BY <1>2, <1>3, <2>4, <3>3 DEF Starts
    <3> QED
      BY <1>5, <3>1, <3>2, <3>4
  <2>5. CASE st1 # ARGV_MAX
    <3>1. argv' = [argv EXCEPT ![st1] = x] /\ st1' = st1 + 1 /\ pc' = "split"
      BY <2>1, <2>5 DEF StartArg
    <3>2. st1 \in 0 .. ARGV_MAX - 1 /\ st1' \in 1 .. ARGV_MAX /\ st1' - 1 = st1
          /\ st1' - 2 = st1 - 1 /\ 0 .. st1' - 1 = (0 .. st1 - 1) \cup {st1}
      BY <1>2, <1>3, <2>5, <3>1
    <3>3. argv'[st1] = x
      BY <1>2, <3>1, <3>2
    <3>4. \A k \in 0 .. st1 - 1 : argv'[k] = argv[k]
      BY <1>2, <3>1, <3>2
    <3>5. Cardinality(Monitor!Before(entered, x + 1)) = st1 + 1
      BY <1>2, <1>3, <2>3, OneMore
    <3>7. ASSUME NEW k \in 0 .. st1' - 1 PROVE Placed(k)'
      <4>1. CASE k = st1
        BY <1>1, <2>3, <3>3, <3>5, <4>1 DEF Placed, Starts, Before
      <4>2. CASE k # st1
        BY <1>4, <3>2, <3>4, <4>2
      <4> QED
        BY <4>1, <4>2
    <3>8. ASSUME NEW k \in 0 .. st1' - 2 PROVE Whole(scmdbuf', argv'[k], entered', x' - 1)
      <4>1. k \in 0 .. st1 - 1 /\ argv'[k] = argv[k]
        BY <3>2, <3>4
      <4>2. x' - 1 \in Int /\ x - 1 <= x' - 1
        BY <1>2, <2>1
      <4> QED
        BY <1>4, <4>1, <4>2
    <3>9. Cardinality(Before(x + 1))' = st1'
      BY <1>1, <2>1, <3>1, <3>5 DEF Before
    <3>10. argv'[st1' - 1] <= x' /\ argv'[st1' - 1] .. x' - 1 = {}
      <4>1. argv'[st1' - 1] = x /\ x' = x
        BY <2>1, <3>2, <3>3
      <4>2. x <= x /\ x .. x - 1 = {}
        BY <1>2
      <4> QED
        BY <4>1, <4>2
    <3>11. SplitPlace'
      BY <3>2, <3>7, <3>8, <3>9, <3>10 DEF SplitPlace, Ended
    <3>12. ScanPlace'
      BY <1>1, <2>1, ScanStays
    <3> QED
      BY <1>1, <3>1, <3>11, <3>12, ScanningPlaces
         DEF TypingPlace, PrespacesPlace, SpaceagainPlace, Scans
  <2> QED
    BY <2>4, <2>5
<1> QED
  BY <1>6, <1>7, <1>8

(* The comparison with one command after another.                          *)
LEMMA ExecutingPlaces ==
  ASSUME IInv, Bounds', NextCommand \/ NoCommand \/ Found \/ Command
  PROVE  IInv'
<1>1. CASE NextCommand
  <2>1. /\ cmd' = cmd + 1 /\ Table[cmd].name # String(argv[0])
        /\ UNCHANGED <<pc, scmdbuf, argc, argv, x, st1, entered>> /\ pc = "compare"
    BY <1>1 DEF NextCommand
  <2>2. String(argv[0])' = String(argv[0])
    BY <2>1 DEF String
  <2>3. cmd \in Int
    BY Sizes DEF IInv, Bounds, TypeOK
  <2>4. \A i \in 1 .. cmd - 1 : Table[i].name # String(argv[0])
    BY <2>1 DEF IInv, ComparePlace
  <2>5. \A i \in 1 .. cmd' - 1 : Table[i].name # String(argv[0])
    BY <2>1, <2>3, <2>4
  <2>6. ComparePlace'
    BY <2>1, <2>2, <2>5 DEF ComparePlace
  <2>7. ParsedPlace'
    BY <2>1 DEF IInv, ParsedPlace, Placed, Ended, NoWord, Starts, Before
  <2> QED
    BY <2>1, <2>6, <2>7 DEF IInv, TypingPlace, LineKept, ScanPlace, PrespacesPlace,
                            SplitPlace, SpaceagainPlace, Scans
<1>2. CASE Found
  <2>1. /\ pc' = "command" /\ Table[cmd].name = String(argv[0])
        /\ UNCHANGED <<cmd, scmdbuf, argc, argv, x, st1, entered>> /\ pc = "compare"
    BY <1>2 DEF Found
  <2>2. String(argv[0])' = String(argv[0])
    BY <2>1 DEF String
  <2>3. ComparePlace'
    BY <2>1, <2>2 DEF ComparePlace
  <2>4. ParsedPlace'
    BY <2>1 DEF IInv, ParsedPlace, Placed, Ended, NoWord, Starts, Before
  <2> QED
    BY <2>1, <2>3, <2>4 DEF IInv, TypingPlace, LineKept, ScanPlace, PrespacesPlace,
                            SplitPlace, SpaceagainPlace, Scans
<1>3. CASE NoCommand \/ Command
  <2>1. pc' = "char" /\ entered' = <<>> /\ st1' = st1 /\ pc \in {"compare", "command"}
    BY <1>3 DEF NoCommand, Command, Prompt
  <2>2. st1 = 0
    BY <2>1 DEF IInv, TypingPlace
  <2>3. LineKept'
    <3>1. Len(entered') = 0 /\ entered' \in Seq(0 .. 255)
      BY <2>1, EmptySeq
    <3> QED
      BY <3>1, Sizes DEF LineKept
  <2> QED
    BY <2>1, <2>2, <2>3 DEF IInv, TypingPlace, ScanPlace, PrespacesPlace,
                            SplitPlace, SpaceagainPlace, ParsedPlace, ComparePlace, Scans
<1> QED
  BY <1>1, <1>2, <1>3

THEOREM Initial == Init => IInv
<1> SUFFICES ASSUME Init PROVE IInv
  OBVIOUS
<1>1. pc = "char" /\ st1 = 0 /\ entered = <<>>
  BY DEF Init
<1>2. LineKept
  <2>1. Len(entered) = 0 /\ entered \in Seq(0 .. 255)
    BY <1>1, EmptySeq
  <2> QED
    BY <2>1, Sizes DEF LineKept
<1> QED
  BY <1>1, <1>2, BoundedAtFirst
     DEF IInv, TypingPlace, ScanPlace, PrespacesPlace, SplitPlace, SpaceagainPlace,
         ParsedPlace, ComparePlace, Scans

(* The inductive invariant holds in every state of the shell.              *)
THEOREM Invariance == Spec => []IInv
<1>1. IInv /\ [Next]_vars => IInv'
  <2> SUFFICES ASSUME IInv, [Next]_vars PROVE IInv'
    OBVIOUS
  <2>0. Bounds'
    BY StepsKeepBounds DEF IInv
  <2>1. CASE \E c \in Keys : Key(c) \/ Backspace(c) \/ Return(c)
    BY <2>0, <2>1, TypingPlaces, ReturnPlaces
  <2>2. CASE Busy
    BY <2>0, <2>2, PrespacesPlaces, SplitPlaces, SpaceagainPlaces, ExecutingPlaces DEF Busy
  <2>3. CASE UNCHANGED vars
    <3>1. String(argv[0])' = String(argv[0])
      BY <2>3 DEF vars, String
    <3> QED
      BY <2>0, <2>3, <3>1
         DEF vars, IInv, TypingPlace, LineKept, ScanPlace, PrespacesPlace, SplitPlace,
             SpaceagainPlace, ParsedPlace, ComparePlace, Placed, Ended, NoWord, Starts, Before
  <2> QED
    BY <2>1, <2>2, <2>3 DEF Next
<1> QED
  BY <1>1, Initial, PTL DEF Spec

(* readline and shell_parse never read or write out of the buffer, and     *)
(* never write past the end of argv.                                       *)
THEOREM StaysInBounds == Spec => []TypeOK
<1>1. IInv => TypeOK
  BY DEF IInv, Bounds
<1> QED
  BY <1>1, Invariance, PTL

(* The scans of shell_parse always have a zero to stop at.                 *)
THEOREM ScansEnd == Spec => []ZeroAhead
<1>1. IInv => ZeroAhead
  BY DEF IInv, Bounds
<1> QED
  BY <1>1, Invariance, PTL

-----------------------------------------------------------------------------
(* argv points to the words of the line.                                   *)

(* The string at p ends at its first zero.                                 *)
LEMMA StringUpTo ==
  ASSUME SCMD_MAX \in Int, NEW p \in Cells, NEW e \in Cells, p <= e, scmdbuf[e] = 0,
         \A i \in p .. e - 1 : scmdbuf[i] # 0
  PROVE  String(p) = [i \in 1 .. e - p |-> scmdbuf[p + i - 1]]
<1> DEFINE end == CHOOSE z \in Cells :
                    z >= p /\ scmdbuf[z] = 0 /\ \A i \in p .. z - 1 : scmdbuf[i] # 0
<1>1. p \in Int /\ e \in Int
  BY DEF Cells
<1>2. end \in Cells /\ end >= p /\ scmdbuf[end] = 0 /\ \A i \in p .. end - 1 : scmdbuf[i] # 0
  BY <1>1
<1>3. String(p) = [i \in 1 .. end - p |-> scmdbuf[p + i - 1]]
  BY DEF String
<1> HIDE DEF end
<1>4. end = e
  <2>1. end \in Int
    BY <1>2 DEF Cells
  <2>2. ~ (end < e) /\ ~ (e < end)
    BY <1>1, <1>2, <2>1
  <2> QED
    BY <1>1, <2>1, <2>2
<1> QED
  BY <1>3, <1>4

(* So does the word of a line, at its first space or zero.                 *)
LEMMA WordUpTo ==
  ASSUME NEW l \in Seq(0 .. 255), NEW i \in Int, NEW e \in i .. Len(l) + 1,
         e = Len(l) + 1 \/ l[e] \in {0, Space},
         \A j \in i .. e - 1 : l[j] \notin {0, Space}
  PROVE  Monitor!WordAt(l, i) = [k \in 1 .. e - i |-> l[i + k - 1]]
<1> DEFINE Ends(z) == /\ z = Len(l) + 1 \/ l[z] \in {0, Space}
                      /\ \A j \in i .. z - 1 : l[j] \notin {0, Space}
           end == CHOOSE z \in i .. Len(l) + 1 : Ends(z)
<1>1. e \in Int /\ i <= e /\ e <= Len(l) + 1 /\ Len(l) \in Nat
  OBVIOUS
<1>2. end \in i .. Len(l) + 1 /\ Ends(end)
  OBVIOUS
<1>3. Monitor!WordAt(l, i) = [k \in 1 .. end - i |-> l[i + k - 1]]
  BY DEF Monitor!WordAt, Monitor!Space, Space
<1>4. end \in Int /\ i <= end /\ end <= Len(l) + 1
  BY <1>1, <1>2
<1>5. Ends(end) /\ Ends(e)
  BY <1>2
<1> HIDE DEF end
<1>6. end = e
  <2>1. ~ (end < e) /\ ~ (e < end)
    BY <1>1, <1>4, <1>5
  <2> QED
    BY <1>1, <1>4, <2>1
<1> QED
  BY <1>3, <1>6

(* Console counts as Shell does.                                           *)
LEMMA SameCardinality == \A S : Monitor!Cardinality(S) = Cardinality(S)
BY DEF Monitor!Cardinality, Cardinality

LEMMA WordsCounted ==
  ASSUME NEW l \in Seq(0 .. 255)
  PROVE  /\ Len(Monitor!Words(l)) = Cardinality(Monitor!Starts(l))
         /\ Monitor!Words(l) = <<>> <=> Monitor!Starts(l) = {}
<1> DEFINE N == Cardinality(Monitor!Starts(l))
           w == Monitor!Words(l)
           S == { w[n] : n \in 1 .. N }
<1>1. N \in Nat
  BY StartsFinite
<1>2. w = [n \in 1 .. N |-> w[n]]
  BY SameCardinality DEF Monitor!Words
<1>3. w \in [1 .. N -> S]
  BY <1>2
<1>4. w \in Seq(S) /\ Len(w) = N
  BY <1>1, <1>3, AsSequence
<1>5. w = <<>> <=> N = 0
  BY <1>1, <1>4, EmptySeq
<1>6. N = 0 <=> Monitor!Starts(l) = {}
  <2>1. IsFiniteSet(Monitor!Starts(l))
    BY StartsFinite
  <2> QED
    BY <2>1, FS_EmptySet
<1> QED
  BY <1>4, <1>5, <1>6

LEMMA TheWord ==
  ASSUME NEW l \in Seq(0 .. 255), NEW i \in Monitor!Starts(l),
         NEW n \in 1 .. Cardinality(Monitor!Starts(l)),
         Cardinality(Monitor!Before(l, i)) = n
  PROVE  Monitor!Words(l)[n] = Monitor!WordAt(l, i)
<1>1. /\ Monitor!Nth(l, n) \in Monitor!Starts(l)
      /\ Cardinality(Monitor!Before(l, Monitor!Nth(l, n))) = n
  BY SameCardinality DEF Monitor!Nth
<1>2. Monitor!Words(l)[n] = Monitor!WordAt(l, Monitor!Nth(l, n))
  BY SameCardinality DEF Monitor!Words
<1>3. Monitor!Nth(l, n) = i
  BY <1>1, InOrder
<1> QED
  BY <1>2, <1>3

(* An entry of argv that is placed and ended is a word of the line.        *)
LEMMA ArgumentIsWord ==
  ASSUME IInv, NEW k \in 0 .. ARGV_MAX - 1, Placed(k), Ended(k, Len(entered))
  PROVE  String(argv[k]) = Monitor!Words(entered)[k + 1]
<1> DEFINE p == argv[k]
<1>1. p \in Cells /\ SCMD_MAX \in Int /\ k \in Int /\ 0 <= k /\ entered \in Seq(0 .. 255)
      /\ Len(entered) \in Nat /\ Len(entered) < SCMD_MAX
  BY LineFacts
<1>2. p \in Int /\ 0 <= p
  BY <1>1 DEF Cells
<1>3. PICK e \in p .. Len(entered) :
        /\ scmdbuf[e] = 0
        /\ e = Len(entered) \/ entered[e + 1] \in {0, Space}
        /\ \A i \in p .. e - 1 : /\ scmdbuf[i] = entered[i + 1]
                                 /\ entered[i + 1] \notin {0, Space}
  BY DEF Ended, Whole
<1>4. p + 1 \in Monitor!Starts(entered) /\ Cardinality(Monitor!Before(entered, p + 1)) = k + 1
  BY DEF Placed, Starts, Before
<1> HIDE DEF p
<1>5. e \in Int /\ p <= e /\ e <= Len(entered) /\ e \in Cells
  BY <1>1, <1>2, <1>3 DEF Cells
<1>6. String(p) = [i \in 1 .. e - p |-> scmdbuf[p + i - 1]]
  <2>1. \A i \in p .. e - 1 : scmdbuf[i] # 0
    BY <1>3
  <2> QED
    BY <1>1, <1>3, <1>5, <2>1, StringUpTo
<1>7. Monitor!WordAt(entered, p + 1) = [i \in 1 .. (e + 1) - (p + 1) |-> entered[(p + 1) + i - 1]]
  <2>1. p + 1 \in Int /\ e + 1 \in p + 1 .. Len(entered) + 1
    BY <1>1, <1>2, <1>5
  <2>2. e + 1 = Len(entered) + 1 \/ entered[e + 1] \in {0, Space}
    BY <1>3
  <2>3. ASSUME NEW j \in p + 1 .. (e + 1) - 1 PROVE entered[j] \notin {0, Space}
    <3>1. j - 1 \in p .. e - 1 /\ (j - 1) + 1 = j
      BY <1>2, <1>5
    <3> QED
      BY <1>3, <3>1
  <2> QED
    BY <1>1, <2>1, <2>2, <2>3, WordUpTo
<1>8. (e + 1) - (p + 1) = e - p
  BY <1>2, <1>5
<1>9. ASSUME NEW i \in 1 .. e - p
      PROVE  scmdbuf[p + i - 1] = entered[(p + 1) + i - 1]
  <2>1. p + i - 1 \in p .. e - 1 /\ (p + i - 1) + 1 = (p + 1) + i - 1
    BY <1>2, <1>5
  <2> QED
    BY <1>3, <2>1
<1>10. String(p) = Monitor!WordAt(entered, p + 1)
  BY <1>6, <1>7, <1>8, <1>9
<1>11. k + 1 \in 1 .. Cardinality(Monitor!Starts(entered))
  <2>1. /\ Cardinality(Monitor!Before(entered, p + 1)) <= Cardinality(Monitor!Starts(entered))
        /\ Cardinality(Monitor!Starts(entered)) \in Nat
    BY <1>1, <1>2, StartsFinite
  <2> QED
    BY <1>1, <1>4, <2>1
<1>12. Monitor!Words(entered)[k + 1] = Monitor!WordAt(entered, p + 1)
  BY <1>1, <1>4, <1>11, TheWord
<1>13. String(p) = Monitor!Words(entered)[k + 1]
  BY <1>10, <1>12
<1> QED
  BY <1>13 DEF p

(* What argc and argv are when the line is split.                          *)
LEMMA Arguments ==
  ASSUME IInv, pc \in {"compare", "command"}
  PROVE  LET words == Monitor!Words(entered)
         IN  /\ argc = IF words = <<>> THEN 1
                       ELSE IF Len(words) < ARGV_MAX THEN Len(words) ELSE ARGV_MAX
             /\ \A i \in 1 .. argc :
                  String(argv[i - 1]) = IF words = <<>> THEN <<>> ELSE words[i]
             /\ 1 <= argc
<1>1. /\ SCMD_MAX \in Int /\ ARGV_MAX \in Int /\ 1 <= ARGV_MAX /\ entered \in Seq(0 .. 255)
      /\ argv \in [0 .. ARGV_MAX - 1 -> Cells]
  BY LineFacts
<1>2. /\ Len(Monitor!Words(entered)) = Cardinality(Starts)
      /\ Monitor!Words(entered) = <<>> <=> Starts = {}
      /\ Cardinality(Starts) \in Nat
  BY <1>1, WordsCounted, StartsFinite DEF Starts
<1>3. CASE NoWord /\ argc = 1
  <2>1. argv[0] \in Cells /\ scmdbuf[argv[0]] = 0
    BY <1>1, <1>3 DEF NoWord
  <2>2. argv[0] \in Int
    BY <2>1 DEF Cells
  <2>3. String(argv[0]) = [i \in 1 .. argv[0] - argv[0] |-> scmdbuf[argv[0] + i - 1]]
    BY <1>1, <2>1, <2>2, StringUpTo
  <2>4. 1 .. argv[0] - argv[0] = {}
    BY <2>2
  <2>5. String(argv[0]) = <<>>
    BY <2>3, <2>4
  <2>6. Starts = {} /\ 1 .. argc = {1} /\ 1 - 1 = 0
    BY <1>3 DEF NoWord
  <2> QED
    BY <1>2, <1>3, <2>5, <2>6
<1>4. CASE /\ Starts # {}
           /\ argc = IF Cardinality(Starts) < ARGV_MAX THEN Cardinality(Starts) ELSE ARGV_MAX
           /\ \A k \in 0 .. argc - 1 : Placed(k) /\ Ended(k, Len(entered))
  <2>1. Cardinality(Starts) # 0
    <3>1. IsFiniteSet(Starts)
      BY <1>1, StartsFinite DEF Starts
    <3> QED
      BY <1>4, <3>1, FS_EmptySet
  <2>2. argc \in Int /\ 1 <= argc /\ argc <= ARGV_MAX
    BY <1>1, <1>2, <1>4, <2>1
  <2>3. ASSUME NEW i \in 1 .. argc PROVE String(argv[i - 1]) = Monitor!Words(entered)[i]
    <3>1. i - 1 \in 0 .. argc - 1 /\ i - 1 \in 0 .. ARGV_MAX - 1 /\ (i - 1) + 1 = i
      BY <1>1, <2>2
    <3> QED
      BY <1>4, <3>1, ArgumentIsWord
  <2> QED
    BY <1>2, <1>4, <2>2, <2>3
<1> QED
  BY <1>3, <1>4 DEF IInv, ParsedPlace

(* When the line is split, argv points to its words, in order, as many as  *)
(* fit, and to an empty string when there is none.                         *)
THEOREM WordsAreFound == Spec => []WordsFound
<1>1. IInv => WordsFound
  BY Arguments DEF WordsFound
<1> QED
  BY <1>1, Invariance, PTL

-----------------------------------------------------------------------------
(* The shell is a console.                                                 *)

LEMMA LineTyped ==
  ASSUME TypeOK, pc = "char"
  PROVE  /\ Line = [i \in 1 .. st0 |-> scmdbuf[i - 1]]
         /\ Line \in Seq(0 .. 255) /\ Len(Line) = st0
         /\ st0 \in Int /\ 0 <= st0 /\ st0 < SCMD_MAX /\ SCMD_MAX \in Int
<1>1. st0 \in Int /\ 0 <= st0 /\ st0 < SCMD_MAX /\ SCMD_MAX \in Int
  BY Sizes DEF TypeOK, Cells
<1>2. Line = [i \in 1 .. st0 |-> scmdbuf[i - 1]]
  BY DEF Line
<1>3. \A i \in 1 .. st0 : i - 1 \in Cells
  BY <1>1 DEF Cells
<1>4. Line \in [1 .. st0 -> 0 .. 255]
  BY <1>2, <1>3 DEF TypeOK
<1>5. Line \in Seq(0 .. 255) /\ Len(Line) = st0
  <2>1. st0 \in Nat
    BY <1>1
  <2> QED
    BY <1>4, <2>1, AsSequence
<1> QED
  BY <1>1, <1>2, <1>5

LEMMA KeyIsType ==
  ASSUME IInv, IInv', NEW c \in Keys, Key(c)
  PROVE  Monitor!Next
<1>1. /\ pc = "char" /\ pc' = "char" /\ UNCHANGED <<rlopts, said>>
      /\ c \in Keys \ (Backspaces \cup {CR})
  BY DEF Key
<1>2. TypeOK /\ TypeOK' /\ x = st0
  BY <1>1 DEF IInv, Bounds, AtTheEnd
<1>3. /\ Line = [i \in 1 .. st0 |-> scmdbuf[i - 1]]
      /\ Line \in Seq(0 .. 255) /\ Len(Line) = st0
      /\ st0 \in Int /\ 0 <= st0 /\ st0 < SCMD_MAX /\ SCMD_MAX \in Int
  BY <1>1, <1>2, LineTyped
<1>4. /\ Line' = [i \in 1 .. st0' |-> scmdbuf'[i - 1]]
      /\ Line' \in Seq(0 .. 255) /\ Len(Line') = st0'
  <2>1. Line' = [i \in 1 .. st0' |-> scmdbuf'[i - 1]]
    BY <1>1 DEF Line
  <2>2. st0' \in 0 .. SCMD_MAX - 1 /\ scmdbuf' \in [Cells -> 0 .. 255]
    BY <1>2 DEF TypeOK, Cells
  <2>3. st0' \in Nat /\ \A i \in 1 .. st0' : i - 1 \in Cells
    BY <1>3, <2>2 DEF Cells
  <2>4. Line' \in [1 .. st0' -> 0 .. 255]
    BY <2>1, <2>2, <2>3
  <2>5. Line' \in Seq(0 .. 255) /\ Len(Line') = st0'
    <3>1. st0' \in Nat
      BY <2>3
    <3> QED
      BY <2>4, <3>1, AsSequence
  <2> QED
    BY <2>1, <2>5
<1>5. Line' = IF Len(Line) < SCMD_MAX - 1 THEN Append(Line, c) ELSE Line
  <2>1. CASE st0 = SCMD_MAX - 1
    BY <1>1, <1>3, <2>1 DEF Key, Line
  <2>2. CASE st0 # SCMD_MAX - 1
    <3>1. scmdbuf' = [scmdbuf EXCEPT ![st0] = c] /\ st0' = st0 + 1
      BY <1>2, <2>2 DEF Key
    <3>2. c \in 0 .. 255
      BY ShellAssumption
    <3>3. /\ Append(Line, c) \in Seq(0 .. 255) /\ Len(Append(Line, c)) = st0 + 1
          /\ Append(Line, c)[st0 + 1] = c
          /\ \A i \in 1 .. st0 : Append(Line, c)[i] = Line[i]
      BY <1>3, <3>2
    <3>4. st0 \in Cells /\ \A i \in 1 .. st0 : i - 1 \in Cells /\ i - 1 # st0
      BY <1>3 DEF Cells
    <3>5. scmdbuf \in [Cells -> 0 .. 255]
      BY <1>2 DEF TypeOK
    <3>6. scmdbuf'[st0] = c /\ \A i \in 1 .. st0 : scmdbuf'[i - 1] = scmdbuf[i - 1]
      BY <3>1, <3>4, <3>5
    <3>7. ASSUME NEW i \in 1 .. st0 + 1 PROVE Line'[i] = Append(Line, c)[i]
      <4>1. Line'[i] = scmdbuf'[i - 1]
        BY <1>4, <3>1
      <4>2. CASE i = st0 + 1
        <5>1. i - 1 = st0
          BY <1>3, <4>2
        <5> QED
          BY <3>3, <3>6, <4>1, <4>2, <5>1
      <4>3. CASE i # st0 + 1
        <5>1. i \in 1 .. st0
          BY <1>3, <4>3
        <5> QED
          BY <1>3, <3>3, <3>6, <4>1, <5>1
      <4> QED
        BY <4>2, <4>3
    <3>8. Line' = Append(Line, c)
      <4>1. Len(Line') = st0 + 1
        BY <1>4, <3>1
      <4>2. Line' \in Seq(0 .. 255)
        BY <1>4
      <4> QED
        BY <3>3, <3>7, <4>1, <4>2, SeqEqual
    <3>9. Len(Line) < SCMD_MAX - 1
      BY <1>3, <2>2
    <3> QED
      BY <3>8, <3>9
  <2> QED
    BY <2>1, <2>2
<1>6. Monitor!Type(c)
  BY <1>1, <1>5 DEF Monitor!Type
<1> QED
  BY <1>1, <1>6 DEF Monitor!Next

LEMMA BackspaceIsErase ==
  ASSUME IInv, NEW c, Backspace(c)
  PROVE  Monitor!Next
<1>1. pc = "char" /\ pc' = "char" /\ UNCHANGED <<rlopts, said, scmdbuf>>
  BY DEF Backspace
<1>2. TypeOK
  BY DEF IInv, Bounds
<1>3. /\ Line = [i \in 1 .. st0 |-> scmdbuf[i - 1]]
      /\ Line \in Seq(0 .. 255) /\ Len(Line) = st0
      /\ st0 \in Int /\ 0 <= st0
  BY <1>1, <1>2, LineTyped
<1>4. Line' = [i \in 1 .. st0' |-> scmdbuf[i - 1]]
  BY <1>1 DEF Line
<1>5. Line' = IF Line = <<>> THEN Line ELSE SubSeq(Line, 1, Len(Line) - 1)
  <2>1. Line = <<>> <=> st0 = 0
    BY <1>3, EmptySeq
  <2>2. CASE st0 = 0
    <3>1. st0' = st0
      BY <2>2 DEF Backspace
    <3> QED
      BY <1>3, <1>4, <2>1, <2>2, <3>1
  <2>3. CASE st0 # 0
    <3>1. st0' = st0 - 1
      BY <2>3 DEF Backspace
    <3>2. SubSeq(Line, 1, st0 - 1) = [i \in 1 .. st0 - 1 |-> Line[i]]
      <4>1. SubSeq(Line, 1, st0 - 1) = [i \in 1 .. ((st0 - 1) - 1) + 1 |-> Line[(i + 1) - 1]]
        BY <1>3
      <4>2. ((st0 - 1) - 1) + 1 = st0 - 1 /\ \A i \in 1 .. st0 - 1 : (i + 1) - 1 = i
        BY <1>3
      <4> QED
        BY <4>1, <4>2
    <3>3. \A i \in 1 .. st0 - 1 : Line[i] = scmdbuf[i - 1]
      BY <1>3
    <3>4. Line' = [i \in 1 .. st0 - 1 |-> scmdbuf[i - 1]]
      BY <1>4, <3>1
    <3>5. Line' = SubSeq(Line, 1, st0 - 1)
      BY <3>2, <3>3, <3>4
    <3> QED
      BY <1>3, <2>1, <2>3, <3>5
  <2> QED
    BY <2>2, <2>3
<1>6. Monitor!Erase
  BY <1>1, <1>5 DEF Monitor!Erase
<1> QED
  BY <1>6 DEF Monitor!Next

LEMMA ReturnIsEnter ==
  ASSUME NEW c, Return(c)
  PROVE  Monitor!Next
<1>1. /\ pc = "char" /\ pc' = "prespaces" /\ UNCHANGED <<rlopts, said>>
      /\ entered' = [i \in 1 .. st0 |-> scmdbuf[i - 1]]
  BY DEF Return
<1>2. Line' = Line
  BY <1>1 DEF Line
<1>3. Monitor!Enter
  BY <1>1, <1>2 DEF Monitor!Enter
<1> QED
  BY <1>3 DEF Monitor!Next

(* The shell at work on a line shows nothing until it answers.             *)
LEMMA WorkIsHidden ==
  ASSUME Prespaces \/ Split \/ Spaceagain \/ NextCommand \/ Found
  PROVE  UNCHANGED Monitor!vars
<1>1. pc # "char" /\ UNCHANGED <<rlopts, said, entered>>
  BY DEF Prespaces, Split, Spaceagain, NextCommand, Found
<1>2. pc' # "char"
  BY DEF Prespaces, Split, Spaceagain, NextCommand, Found, StartArg, Parsed
<1>3. Line' = Line
  BY <1>1, <1>2 DEF Line
<1> QED
  BY <1>1, <1>2, <1>3 DEF Monitor!vars

(* The command compared with the list is the first word of the line.       *)
LEMMA Named ==
  ASSUME IInv, pc \in {"compare", "command"}
  PROVE  Monitor!FirstWord(Line) = String(argv[0])
<1>1. Line = entered
  BY DEF Line
<1>2. /\ 1 <= argc /\ argc \in Int
      /\ \A i \in 1 .. argc :
           String(argv[i - 1]) = IF Monitor!Words(entered) = <<>> THEN <<>>
                                 ELSE Monitor!Words(entered)[i]
  BY Arguments DEF IInv, Bounds, TypeOK
<1>3. 1 \in 1 .. argc /\ 1 - 1 = 0
  BY <1>2
<1>4. String(argv[0]) = IF Monitor!Words(entered) = <<>> THEN <<>>
                        ELSE Monitor!Words(entered)[1]
  BY <1>2, <1>3
<1> QED
  BY <1>1, <1>4 DEF Monitor!FirstWord

LEMMA AnswerIsRun ==
  ASSUME IInv, NoCommand \/ Command
  PROVE  Monitor!Next
<1>1. /\ pc \in {"compare", "command"} /\ pc # "char" /\ pc' = "char" /\ st0' = 0
  BY DEF NoCommand, Command, Prompt
<1>2. Line' = <<>>
  BY <1>1 DEF Line
<1>3. Monitor!FirstWord(Line) = String(argv[0])
  BY <1>1, Named
<1>4. CASE NoCommand
  <2>1. /\ Table[cmd].name # String(argv[0]) /\ cmd = Len(Table)
        /\ said' = "???" /\ rlopts' = rlopts /\ pc = "compare"
    BY <1>4 DEF NoCommand
  <2>2. \A i \in DOMAIN Table : Table[i].name # String(argv[0])
    <3>1. \A i \in 1 .. cmd - 1 : Table[i].name # String(argv[0])
      BY <2>1 DEF IInv, ComparePlace
    <3>2. DOMAIN Table = (1 .. cmd - 1) \cup {cmd}
      BY <2>1, Sizes
    <3> QED
      BY <2>1, <3>1, <3>2
  <2>3. \A r \in { Table[i] : i \in DOMAIN Table } : r.name # Monitor!FirstWord(Line)
    BY <1>3, <2>2
  <2>4. Monitor!Run
    BY <1>1, <1>2, <2>1, <2>3, Zenon DEF Monitor!Run
  <2> QED
    BY <2>4 DEF Monitor!Next
<1>5. CASE Command
  <2>1. pc = "command"
    BY <1>5 DEF Command
  <2>2. Table[cmd].name = Monitor!FirstWord(Line) /\ cmd \in DOMAIN Table
    BY <1>3, <2>1 DEF IInv, ComparePlace, Bounds, TypeOK
  <2>3. Table[cmd] \in { Table[i] : i \in DOMAIN Table }
    BY <2>2
  <2>4. rlopts' = IF Table[cmd].answer = "ECHO" THEN ~ rlopts ELSE rlopts
    BY <1>5, Zenon DEF Command
  <2>5. said' = IF Table[cmd].answer # "ECHO" THEN Table[cmd].answer
                ELSE IF rlopts' THEN "ON" ELSE "OFF"
    BY <1>5, Zenon DEF Command
  <2>6. Monitor!Run
    BY <1>1, <1>2, <2>2, <2>3, <2>4, <2>5, Zenon DEF Monitor!Run
  <2> QED
    BY <2>6 DEF Monitor!Next
<1> QED
  BY <1>4, <1>5

(* What the user sees of the shell is what a Console shows: the command    *)
(* that runs is the one named by the first word of the edited line.        *)
THEOREM Implements == Spec => IsAConsole
<1>1. Init => Monitor!Init
  <2> SUFFICES ASSUME Init PROVE Monitor!Init
    OBVIOUS
  <2>1. pc = "char" /\ st0 = 0
    BY DEF Init
  <2>2. Line = <<>>
    BY <2>1 DEF Line
  <2>3. (pc # "char") = FALSE
    BY <2>1
  <2>4. rlopts = TRUE /\ said = ""
    BY DEF Init
  <2> QED
    BY <2>2, <2>3, <2>4 DEF Monitor!Init
<1>2. IInv /\ IInv' /\ [Next]_vars => [Monitor!Next]_(Monitor!vars)
  <2> SUFFICES ASSUME IInv, IInv', [Next]_vars PROVE [Monitor!Next]_(Monitor!vars)
    OBVIOUS
  <2>1. CASE \E c \in Keys : Key(c) \/ Backspace(c) \/ Return(c)
    BY <2>1, KeyIsType, BackspaceIsErase, ReturnIsEnter
  <2>2. CASE Busy
    BY <2>2, WorkIsHidden, AnswerIsRun DEF Busy
  <2>3. CASE UNCHANGED vars
    <3>1. Line' = Line
      BY <2>3 DEF vars, Line
    <3> QED
      BY <2>3, <3>1 DEF vars, Monitor!vars
  <2> QED
    BY <2>1, <2>2, <2>3 DEF Next
<1> QED
  BY <1>1, <1>2, Invariance, PTL DEF Spec, IsAConsole, Monitor!Safety
=============================================================================
