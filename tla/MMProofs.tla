------------------------------ MODULE MMProofs ------------------------------
(***************************************************************************)
(* Proofs about MM, for every heap and every program that is Careful: it   *)
(* keeps to sizes of 2 modulo 4 and, of the liberties, takes only the one  *)
(* to free above the first free zone.  The lemmas are about one action     *)
(* each: it preserves the inductive invariant IInv.                        *)
(***************************************************************************)
EXTENDS MM, HeapMemoryProofs

-----------------------------------------------------------------------------
(* The inductive invariant.                                                *)

MMTypeOK ==
  /\ pc \in {"idle", "again", "browse", "coalesce"}
  /\ mem \in [HEAP -> Byte]
  /\ sp0 \in Word
  /\ {head, st0, st1, st3, x} \subseteq Word
  /\ live \in SUBSET [ptr : Word, size : Word]
  /\ free \subseteq HEAP /\ lost \subseteq HEAP

(* A zone has one use, and the size in its header is the one asked for.    *)
Owners ==
  /\ \A b \in live : SizeIn(mem, b.ptr - 2) = b.size
  /\ \A b, c \in live : b.ptr = c.ptr => b = c
  /\ free \cap Held = {} /\ lost \cap (free \cup Held) = {}
  /\ Moving \cap (free \cup Held \cup lost) = {}

(* The zones behind st3 are too small; st0 is the one just behind it; st1  *)
(* holds what a zone of the very size needs.                               *)
ScanPlace ==
  pc = "again" =>
    /\ sp0 \in Sizes
    /\ st3 \in free
    /\ st3 = head \/ (st0 \in free /\ NextIn(mem, st0) = st3)
    /\ \A a \in free : a < st3 => SizeIn(mem, a) < sp0
    /\ \A a \in free : Fits(sp0, a) /\ SizeIn(mem, a) = sp0 => st1 = NextIn(mem, a)

BrowsePlace == pc = "browse" => x \in free /\ x < sp0

(* No zone behind x touches the next one.  The zone just freed is listed,  *)
(* or lost.                                                                *)
CoalescePlace ==
  pc = "coalesce" =>
    /\ x \in free \cup {EOL}
    /\ \A a \in free : a < x => a + 2 + SizeIn(mem, a) \notin free

ApartUntilFreed == pc # "coalesce" => Apart(mem, free)

IInv ==
  /\ MMTypeOK
  /\ Layout(mem, Zones)
  /\ Owners
  /\ FreeListOrdered
  /\ ScanPlace
  /\ BrowsePlace
  /\ CoalescePlace
  /\ ApartUntilFreed

-----------------------------------------------------------------------------

(* What IInv says of the values the actions use.                           *)
LEMMA Facts ==
  ASSUME IInv
  PROVE  /\ mem \in Memory /\ Layout(mem, Zones)
         /\ free \in SUBSET HEAP /\ free \subseteq Zones /\ lost \subseteq HEAP
         /\ head \in Word /\ sp0 \in Word /\ x \in Word
         /\ st0 \in Word /\ st1 \in Word /\ st3 \in Word
         /\ ListOf(mem, head, free)
         /\ head = EOL <=> free = {}
         /\ head \in free \cup {EOL}
         /\ \A a \in free : head <= a
         /\ \A a \in free : a \in Int /\ 0 <= a /\ a < EOL
         /\ \A b \in live : /\ b.ptr \in Word /\ b.size \in Word
                            /\ b.ptr - 2 \in Zones /\ b.ptr - 2 \in Held
                            /\ b.ptr - 2 \notin free
                            /\ SizeIn(mem, b.ptr - 2) = b.size
<1>1. MMTypeOK /\ FreeListOrdered /\ Owners /\ Layout(mem, Zones)
  BY DEF IInv
<1>2. /\ mem \in Memory
      /\ free \in SUBSET HEAP /\ free \subseteq Zones /\ lost \subseteq HEAP
      /\ head \in Word /\ sp0 \in Word /\ x \in Word
      /\ st0 \in Word /\ st1 \in Word /\ st3 \in Word
  BY <1>1 DEF MMTypeOK, Memory, Zones
<1>3. ListOf(mem, head, free)
  BY <1>1 DEF FreeListOrdered
<1>4. /\ head = EOL <=> free = {}
      /\ head \in free \cup {EOL} /\ \A a \in free : head <= a
  BY <1>2, <1>3, HeadSmallest
<1>5. ASSUME NEW b \in live
      PROVE  /\ b.ptr \in Word /\ b.size \in Word
             /\ b.ptr - 2 \in Zones /\ b.ptr - 2 \in Held
             /\ b.ptr - 2 \notin free
             /\ SizeIn(mem, b.ptr - 2) = b.size
  BY <1>1 DEF MMTypeOK, Owners, Held, Zones
<1>6. \A a \in free : a \in Int /\ 0 <= a /\ a < EOL
  BY <1>2, HeapBounds
<1> QED
  BY <1>1, <1>2, <1>3, <1>4, <1>5, <1>6

-----------------------------------------------------------------------------
LEMMA InitIInv ==
  ASSUME Careful, Init
  PROVE  IInv
<1> DEFINE z  == [a \in HEAP |-> 0]
           m1 == POKE(z, MEMSTART + SIZE, MEMSIZE - 2)
<1>1. z \in Memory /\ BlockAt(MEMSTART) /\ mem = POKE(m1, MEMSTART + NEXT, EOL)
  <2>1. 0 \in Byte
    BY DEF Byte
  <2>2. BlockAt(MEMSTART)
    BY HeapBounds DEF BlockAt
  <2> QED
    BY <2>1, <2>2 DEF Init, OneBlock, Memory
<1>2. MEMSIZE - 2 \in Word /\ MEMSIZE \in Int /\ MEMSIZE >= 4
  <2>1. MEMSIZE \in Int /\ MEMSIZE >= 4 /\ MEMSTART \in Nat /\ MEMEND = MEMSTART + MEMSIZE
    BY HeapAssumption DEF MEMEND
  <2>2. MEMSIZE - 2 \in Int /\ 0 <= MEMSIZE - 2 /\ MEMSIZE - 2 <= EOL
    BY <2>1, HeapBounds
  <2> QED
    BY <2>1, <2>2, WordRange
<1>3. m1 \in Memory /\ SizeIn(m1, MEMSTART) = MEMSIZE - 2
  BY <1>1, <1>2, SetSize
<1> HIDE DEF z, m1
<1>4. EOL \in Word /\ 0 \in Word
  BY WordRange, HeapBounds
<1>5. mem \in Memory /\ SizeIn(mem, MEMSTART) = MEMSIZE - 2 /\ NextIn(mem, MEMSTART) = EOL
  BY <1>1, <1>3, <1>4, SetNext
<1>6. Zones = {MEMSTART}
  BY DEF Init, Zones, Held, Moving
<1>7. MEMSTART \in HEAP
  BY HeapBounds
<1>8. MMTypeOK
  <2>1. st0 \in Word /\ st1 \in Word /\ st3 \in Word
    BY ProgramAssumption DEF Init
  <2>2. head \in Word /\ free \subseteq HEAP /\ lost \subseteq HEAP
    BY <1>7, WordRange DEF Init
  <2> QED
    BY <1>4, <1>5, <2>1, <2>2 DEF Init, MMTypeOK, Memory
<1>9. Layout(mem, Zones)
  <2>1. MEMEND = MEMSTART + MEMSIZE /\ MEMSIZE % 4 = 0
    BY DEF MEMEND, Careful
  <2>2. (MEMSIZE - 2) % 4 = 2
    BY <1>2, <2>1
  <2>3. MEMSTART + 2 + (MEMSIZE - 2) = MEMEND
    BY <1>2, <2>1, HeapBounds
  <2> QED
    BY <1>1, <1>5, <1>6, <2>2, <2>3, HeapBounds DEF Layout
<1>10. FreeListOrdered
  <2>1. free = {MEMSTART} /\ head = MEMSTART
    BY DEF Init
  <2> QED
    BY <1>5, <2>1, HeapBounds DEF FreeListOrdered, ListOf, Follows
<1>11. Owners
  BY DEF Init, Owners, Held, Moving
<1>12. ApartUntilFreed
  <2>1. MEMSTART + 2 + (MEMSIZE - 2) # MEMSTART
    BY <1>2, HeapBounds
  <2> QED
    BY <1>5, <2>1 DEF Init, ApartUntilFreed, Apart
<1> QED
  BY <1>8, <1>9, <1>10, <1>11, <1>12
     DEF Init, IInv, ScanPlace, BrowsePlace, CoalescePlace

LEMMA StutterIInv ==
  ASSUME IInv, UNCHANGED vars
  PROVE  IInv'
<1>1. Zones' = Zones /\ Held' = Held /\ Moving' = Moving
  BY DEF vars, Zones, Held, Moving
<1>2. MMTypeOK' /\ Layout(mem, Zones)' /\ Owners' /\ FreeListOrdered'
  BY <1>1 DEF vars, IInv, MMTypeOK, Owners, FreeListOrdered
<1>3. ScanPlace' /\ BrowsePlace' /\ CoalescePlace' /\ ApartUntilFreed'
  BY DEF vars, IInv, ScanPlace, Fits, BrowsePlace, CoalescePlace, ApartUntilFreed
<1> QED
  BY <1>2, <1>3 DEF IInv

-----------------------------------------------------------------------------
(* Steps that leave the memory, the list and the owners as they were: only *)
(* the place of a loop changes.                                            *)
LEMMA MoveOnly ==
  ASSUME IInv, UNCHANGED <<mem, head, live, free, lost>>, Zones' = Zones,
         (Moving \cap (free \cup Held \cup lost) = {})',
         MMTypeOK', ScanPlace', BrowsePlace', CoalescePlace', ApartUntilFreed'
  PROVE  IInv'
<1>1. Layout(mem, Zones)'
  BY DEF IInv
<1>2. Owners' /\ FreeListOrdered'
  BY DEF IInv, Owners, Held, FreeListOrdered
<1> QED
  BY <1>1, <1>2 DEF IInv

(* The only way to call mm_alloc is with a zone free, and with in st1 what *)
(* the exact fit needs.                                                    *)
LEMMA AllocCallIInv ==
  ASSUME Careful, IInv, NEW n \in Sizes, AllocCall(n)
  PROVE  IInv'
<1>1. /\ pc = "idle" /\ pc' = "again" /\ sp0' = n /\ st3' = head
      /\ UNCHANGED <<mem, head, x, live, free, lost>>
      /\ st0' \in {st0} \cup Junk /\ st1' \in {st1} \cup Junk
      /\ free # {}
      /\ \A a \in free : Fits(n, a) /\ SizeIn(mem, a) = n => st1' = NextIn(mem, a)
  BY DEF AllocCall, Careful
<1>2. Zones' = Zones /\ Moving' = {}
  BY <1>1 DEF Zones, Held, Moving
<1>3. n \in Word /\ st0' \in Word /\ st1' \in Word /\ st3' \in Word
  BY <1>1, Facts, ProgramAssumption
<1>4. MMTypeOK'
  BY <1>1, <1>3 DEF IInv, MMTypeOK
<1>5. ScanPlace'
  <2>1. head \in free
    BY <1>1, Facts
  <2>2. \A a \in free : ~ (a < head)
    BY Facts, WordRange
  <2>3. \A a : Fits(n, a)' <=> Fits(n, a)
    BY <1>1 DEF Fits
  <2> QED
    BY <1>1, <2>1, <2>2, <2>3 DEF ScanPlace, Fits
<1>6. ApartUntilFreed'
  BY <1>1 DEF IInv, ApartUntilFreed
<1> QED
  BY <1>1, <1>2, <1>4, <1>5, <1>6, MoveOnly DEF BrowsePlace, CoalescePlace

LEMMA ReturnType ==
  ASSUME MMTypeOK, Return, mem' \in Memory, head' \in Word,
         st0' \in Word, st1' \in Word, st3' \in Word,
         free' \subseteq HEAP, lost' \subseteq HEAP,
         live' \in SUBSET [ptr : Word, size : Word]
  PROVE  MMTypeOK'
<1>1. EOL \in Word /\ 0 \in Word
  BY WordRange, HeapBounds
<1> QED
  BY <1>1 DEF MMTypeOK, Return, Memory

LEMMA AllocFailIInv ==
  ASSUME IInv, AllocFail
  PROVE  IInv'
<1>1. /\ pc = "again" /\ pc' = "idle" /\ Return /\ st0' = st3
      /\ UNCHANGED <<mem, head, st1, st3, live, free, lost>>
  BY DEF AllocFail, Return
<1>2. Zones' = Zones /\ Moving' = {}
  BY <1>1 DEF Zones, Held, Moving
<1>3. MMTypeOK'
  BY <1>1, Facts, ReturnType DEF IInv, MMTypeOK
<1>4. ApartUntilFreed'
  BY <1>1 DEF IInv, ApartUntilFreed
<1> QED
  BY <1>1, <1>2, <1>3, <1>4, MoveOnly DEF ScanPlace, BrowsePlace, CoalescePlace

LEMMA FreeReturnIInv ==
  ASSUME IInv, FreeReturn
  PROVE  IInv'
<1>1. /\ pc = "coalesce" /\ x = EOL /\ pc' = "idle" /\ Return
      /\ UNCHANGED <<mem, head, st0, st1, st3, live, free, lost>>
  BY DEF FreeReturn, Return
<1>2. Zones' = Zones /\ Moving' = {}
  BY <1>1 DEF Zones, Held, Moving
<1>3. MMTypeOK'
  BY <1>1, Facts, ReturnType DEF IInv, MMTypeOK
<1>4. Apart(mem, free)
  BY <1>1, Facts DEF IInv, CoalescePlace, Apart
<1> QED
  BY <1>1, <1>2, <1>3, <1>4, MoveOnly
     DEF ScanPlace, BrowsePlace, CoalescePlace, ApartUntilFreed

(* The zone after a in the list.                                           *)
LEMMA NextZone ==
  ASSUME IInv, NEW a \in free
  PROVE  /\ NextIn(mem, a) \in Word /\ NextIn(mem, a) \in Int
         /\ NextIn(mem, a) \in free \cup {EOL}
         /\ a < NextIn(mem, a)
         /\ \A b \in free : b <= a \/ NextIn(mem, a) <= b
<1>1. mem \in Memory /\ a \in Zones /\ Layout(mem, Zones)
  BY Facts
<1>2. NextIn(mem, a) \in Word /\ NextIn(mem, a) \in Int
  BY <1>1, LayoutBlock
<1>3. Follows(free, a, NextIn(mem, a))
  BY DEF IInv, FreeListOrdered, ListOf
<1> QED
  BY <1>2, <1>3, Facts DEF Follows

LEMMA AllocNextIInv ==
  ASSUME IInv, AllocNext
  PROVE  IInv'
<1>1. /\ pc = "again" /\ SizeIn(mem, st3) < sp0 /\ NextIn(mem, st3) # EOL
      /\ st0' = st3 /\ st3' = NextIn(mem, st3)
      /\ UNCHANGED <<pc, mem, head, sp0, st1, x, live, free, lost>>
  BY DEF AllocNext
<1>2. Zones' = Zones /\ Moving' = {}
  BY <1>1 DEF Zones, Held, Moving
<1>3. st3 \in free /\ \A a \in free : a < st3 => SizeIn(mem, a) < sp0
  BY <1>1 DEF IInv, ScanPlace
<1>4. st3' \in free /\ st3' \in Word
  BY <1>1, <1>3, NextZone
<1>5. MMTypeOK'
  BY <1>1, <1>4, Facts DEF IInv, MMTypeOK
<1>6. ScanPlace'
  <2>1. ASSUME NEW a \in free, a < NextIn(mem, st3)
        PROVE  SizeIn(mem, a) < sp0
    <3>1. a \in Int /\ st3 \in Int /\ NextIn(mem, st3) \in Int
      BY <1>3, Facts, NextZone
    <3>2. a <= st3
      BY <1>3, <2>1, <3>1, NextZone
    <3> QED
      BY <1>1, <1>3, <3>1, <3>2
  <2>2. \A a : Fits(sp0, a)' <=> Fits(sp0, a)
    BY <1>1 DEF Fits
  <2> QED
    BY <1>1, <1>3, <1>4, <2>1, <2>2 DEF IInv, ScanPlace
<1>7. ApartUntilFreed'
  BY <1>1 DEF IInv, ApartUntilFreed
<1> QED
  BY <1>1, <1>2, <1>5, <1>6, <1>7, MoveOnly DEF BrowsePlace, CoalescePlace

LEMMA BrowseNextIInv ==
  ASSUME IInv, BrowseNext
  PROVE  IInv'
<1>1. /\ pc = "browse" /\ NextIn(mem, x) <= sp0 /\ x' = NextIn(mem, x)
      /\ UNCHANGED <<pc, mem, head, sp0, st0, st1, st3, live, free, lost>>
  BY DEF BrowseNext
<1>2. Zones' = Zones /\ Moving' = Moving /\ Held' = Held
  BY <1>1 DEF Zones, Held, Moving
<1>3. x \in free /\ sp0 \notin free /\ sp0 \in Zones
  BY <1>1 DEF IInv, BrowsePlace, Owners, Moving, Zones
<1>4. MMTypeOK'
  BY <1>1, <1>3, NextZone DEF IInv, MMTypeOK
<1>5. BrowsePlace'
  <2>1. sp0 \in Int /\ sp0 < EOL /\ NextIn(mem, x) \in Int
    BY <1>3, LayoutBlock, HeapBounds, NextZone, Facts
  <2>2. NextIn(mem, x) \in free
    BY <1>1, <1>3, <2>1, NextZone, HeapBounds
  <2>3. NextIn(mem, x) < sp0
    BY <1>1, <1>3, <2>1, <2>2
  <2> QED
    BY <1>1, <2>2, <2>3 DEF BrowsePlace
<1>6. ApartUntilFreed' /\ (Moving \cap (free \cup Held \cup lost) = {})'
  BY <1>1, <1>2 DEF IInv, ApartUntilFreed, Owners
<1> QED
  BY <1>1, <1>2, <1>4, <1>5, <1>6, MoveOnly DEF ScanPlace, CoalescePlace(* The end of a zone does not wrap: the heap ends below the end marker.    *)
LEMMA JoinedExact ==
  ASSUME IInv, x \in free
  PROVE  Joined <=> NextIn(mem, x) = x + 2 + SizeIn(mem, x)
<1>1. /\ x \in Int /\ 0 <= x /\ SizeIn(mem, x) \in Int /\ SizeIn(mem, x) >= 2
      /\ x + 2 + SizeIn(mem, x) <= MEMEND
  BY Facts, LayoutBlock
<1>2. x + 2 + SizeIn(mem, x) \in Int /\ 0 <= x + 2 + SizeIn(mem, x)
      /\ x + 2 + SizeIn(mem, x) <= EOL
  BY <1>1, HeapBounds
<1>3. W16(x + 2 + SizeIn(mem, x)) = x + 2 + SizeIn(mem, x)
  BY <1>2, W16Range
<1> QED
  BY <1>3 DEF Joined

(* A zone of the list that does not touch the next one touches none.       *)
LEMMA TouchesNone ==
  ASSUME IInv, NEW a \in free, NextIn(mem, a) # a + 2 + SizeIn(mem, a)
  PROVE  a + 2 + SizeIn(mem, a) \notin free
<1> SUFFICES ASSUME a + 2 + SizeIn(mem, a) \in free
             PROVE  FALSE
  OBVIOUS
<1> DEFINE e == a + 2 + SizeIn(mem, a)
           n == NextIn(mem, a)
<1>1. /\ a \in Zones /\ SizeIn(mem, a) \in Int /\ SizeIn(mem, a) >= 2
      /\ a \in Int /\ e \in Int /\ n \in Int
  BY Facts, LayoutBlock, NextZone
<1>2. n <= e /\ n # e /\ a < n
  BY <1>1, NextZone
<1>3. n \in free
  BY <1>1, <1>2, NextZone, Facts
<1>4. e <= n
  BY <1>1, <1>2, <1>3, Facts DEF Layout
<1> QED
  BY <1>1, <1>2, <1>4

(* .Lcoalnext: the two zones do not touch.                                 *)
LEMMA CoalesceMovesIInv ==
  ASSUME IInv, Coalesce, ~ Joined
  PROVE  IInv'
<1>1. /\ pc = "coalesce" /\ x # EOL /\ x' = NextIn(mem, x)
      /\ st1' = NextIn(mem, x) /\ st0' = SizeIn(mem, x)
      /\ UNCHANGED <<pc, mem, head, sp0, st3, live, free, lost>>
  BY DEF Coalesce
<1>2. Zones' = Zones /\ Moving' = {}
  BY <1>1 DEF Zones, Held, Moving
<1>3. x \in free /\ \A a \in free : a < x => a + 2 + SizeIn(mem, a) \notin free
  BY <1>1 DEF IInv, CoalescePlace
<1>4. NextIn(mem, x) \in Word /\ SizeIn(mem, x) \in Word
  BY <1>3, Facts, LayoutBlock
<1>5. MMTypeOK'
  BY <1>1, <1>4 DEF IInv, MMTypeOK
<1>6. x + 2 + SizeIn(mem, x) \notin free
  BY <1>3, JoinedExact, TouchesNone
<1>7. CoalescePlace'
  <2>1. ASSUME NEW a \in free, a < NextIn(mem, x)
        PROVE  a + 2 + SizeIn(mem, a) \notin free
    <3>1. a \in Int /\ x \in Int /\ NextIn(mem, x) \in Int
      BY <1>3, Facts, NextZone
    <3>2. a <= x
      BY <1>3, <2>1, <3>1, NextZone
    <3> QED
      BY <1>3, <1>6, <3>1, <3>2
  <2> QED
    BY <1>1, <1>3, <2>1, NextZone DEF CoalescePlace
<1> QED
  BY <1>1, <1>2, <1>5, <1>7, MoveOnly DEF ScanPlace, BrowsePlace, ApartUntilFreed

(* The zone that follows x in memory and in the list becomes part of x.    *)
LEMMA CoalesceJoinsIInv ==
  ASSUME IInv, Coalesce, Joined
  PROVE  IInv'
<1> DEFINE nxt == NextIn(mem, x)
<1>1. /\ pc = "coalesce" /\ x # EOL
      /\ st1' = nxt /\ st0' = SizeIn(mem, x)
      /\ mem' = Absorb(mem, x, nxt)
      /\ free' = free \ {nxt} /\ x' = head
      /\ UNCHANGED <<pc, head, sp0, st3, live, lost>>
  BY DEF Coalesce
<1>2. x \in free
  BY <1>1 DEF IInv, CoalescePlace
<1>3. /\ mem \in Memory /\ Layout(mem, Zones) /\ free \in SUBSET HEAP
      /\ head \in Word /\ head \in free \cup {EOL} /\ ListOf(mem, head, free)
      /\ free \subseteq Zones /\ x \in Zones
      /\ free \cap Held = {} /\ Moving = {} /\ lost \cap (free \cup Held) = {}
      /\ SizeIn(mem, x) \in Word /\ nxt \in Word
  BY <1>1, <1>2, Facts, LayoutBlock DEF IInv, Owners, Moving
<1>4. nxt = x + 2 + SizeIn(mem, x)
  BY <1>2, JoinedExact
<1>5. nxt \in free /\ x < nxt /\ nxt \in Zones /\ nxt \in Int
      /\ nxt = x + SizeIn(mem, x) + 2
  <2>1. /\ x \in Int /\ SizeIn(mem, x) \in Int /\ x + 2 + SizeIn(mem, x) <= MEMEND
    BY <1>3, LayoutBlock
  <2>2. nxt # EOL
    BY <1>4, <2>1, HeapBounds
  <2>3. nxt \in free /\ x < nxt /\ nxt \in Int
    BY <1>2, <2>2, NextZone
  <2> QED
    BY <1>3, <1>4, <2>1, <2>3
<1>6. /\ mem' \in Memory /\ Layout(mem', Zones \ {nxt})
      /\ NextIn(mem', x) = NextIn(mem, nxt)
      /\ \A b \in Zones \ {x} : SameBlock(mem, mem', b)
  BY <1>1, <1>3, <1>5, AbsorbLayout
<1> HIDE DEF nxt
<1>7. Zones' = Zones \ {nxt} /\ Moving' = {} /\ Held' = Held
  <2>1. Held' = Held /\ Moving' = {}
    BY <1>1 DEF Held, Moving
  <2> QED
    BY <1>1, <1>3, <1>5, <2>1 DEF Zones
<1>8. FreeListOrdered'
  <2>1. NextIn(mem, nxt) \in Word /\ NextIn(mem, x) = nxt
    BY <1>5, NextZone DEF nxt
  <2>2. \A b \in free \ {nxt, x} : NextIn(mem', b) = NextIn(mem, b)
    BY <1>3, <1>6 DEF SameBlock
  <2>3. ListOf(mem', head', free \ {nxt})
    BY <1>1, <1>2, <1>3, <1>5, <1>6, <2>1, <2>2, ListRemove
  <2> QED
    BY <1>1, <2>3 DEF FreeListOrdered
<1>9. MMTypeOK'
  BY <1>1, <1>3, <1>6 DEF IInv, MMTypeOK, Memory
<1>10. Owners'
  <2>1. ASSUME NEW b \in live PROVE SizeIn(mem', b.ptr - 2) = b.size
    BY <1>2, <1>6, Facts DEF SameBlock
  <2>2. (free \cap Held)' = {} /\ (lost \cap (free \cup Held))' = {}
    BY <1>1, <1>3, <1>7
  <2> QED
    BY <1>1, <1>7, <2>1, <2>2 DEF IInv, Owners
<1>11. CoalescePlace'
  <2>1. \A b \in free : ~ (b < head)
    BY <1>3, Facts, WordRange
  <2>2. head \in free /\ head # nxt
    <3>1. head \in free
      BY <1>2, Facts
    <3>2. head <= x /\ head \in Int /\ x \in Int
      BY <1>2, Facts, WordRange
    <3> QED
      BY <1>5, <3>1, <3>2
  <2> QED
    BY <1>1, <2>1, <2>2 DEF CoalescePlace
<1> QED
  BY <1>1, <1>6, <1>7, <1>8, <1>9, <1>10, <1>11
     DEF IInv, ScanPlace, BrowsePlace, ApartUntilFreed

-----------------------------------------------------------------------------
(* Steps of mm_alloc that give a zone.                                     *)

(* The exact fit: what st1 holds is the next of the zone.                  *)
LEMMA AllocExactIInv ==
  ASSUME IInv, AllocExact
  PROVE  IInv'
<1> DEFINE nxt == NextIn(mem, st3)
           new == [ptr |-> st3 + NEXT, size |-> sp0]
<1>1. /\ pc = "again" /\ SizeIn(mem, st3) = sp0
      /\ IF st3 = head
         THEN head' = st1 /\ mem' = mem
         ELSE head' = head /\ mem' = POKE(mem, st0 + NEXT, st1)
      /\ free' = free \ {st3} /\ live' = live \cup {new}
      /\ Return /\ pc' = "idle"
      /\ UNCHANGED <<st0, st1, st3, lost>>
  BY DEF AllocExact, Take, Return
<1>2. /\ st3 \in free /\ sp0 \in Sizes
      /\ st3 = head \/ (st0 \in free /\ NextIn(mem, st0) = st3)
      /\ \A a \in free : a < st3 => SizeIn(mem, a) < sp0
      /\ \A a \in free : Fits(sp0, a) /\ SizeIn(mem, a) = sp0 => st1 = NextIn(mem, a)
  BY <1>1 DEF IInv, ScanPlace
<1>3. /\ mem \in Memory /\ Layout(mem, Zones) /\ st3 \in Zones /\ free \in SUBSET HEAP
      /\ nxt \in Word /\ sp0 \in Word /\ ListOf(mem, head, free) /\ head \in Word
      /\ free \subseteq Zones /\ st0 \in Word /\ st1 \in Word /\ st3 \in Word
      /\ lost \subseteq HEAP
  BY <1>2, Facts, NextZone
<1>4. st1 = nxt
  <2>1. SizeIn(mem, st3) >= sp0
    BY <1>1, <1>3, WordRange
  <2> QED
    BY <1>1, <1>2, <2>1 DEF Fits
<1>5. st3 \in Int /\ BlockAt(st3) /\ st3 + NEXT = st3 + 2 /\ st3 + 2 \in Word
  BY <1>3, LayoutBlock, HeapBounds, WordRange DEF NEXT, BlockAt
<1>6. new.ptr - 2 = st3 /\ new.size = sp0 /\ new.ptr \in Word
  BY <1>5
<1>7. new \in [ptr : Word, size : Word]
  BY <1>3, <1>5
<1> HIDE DEF new
<1>8. Held' = Held \cup {st3} /\ Moving' = {} /\ Zones' = Zones
  <2>1. Held' = Held \cup {new.ptr - 2}
    BY <1>1 DEF Held
  <2>2. Moving' = {} /\ Moving = {}
    BY <1>1 DEF Moving
  <2> QED
    BY <1>1, <1>2, <1>6, <2>1, <2>2 DEF Zones
<1>9. /\ mem' \in Memory /\ Layout(mem', Zones)
      /\ \A b \in Zones : SizeIn(mem', b) = SizeIn(mem, b)
      /\ \/ st3 = head /\ head' = nxt /\ \A b \in Zones : NextIn(mem', b) = NextIn(mem, b)
         \/ /\ head' = head /\ st0 \in free /\ NextIn(mem, st0) = st3
            /\ NextIn(mem', st0) = nxt
            /\ \A b \in Zones \ {st0} : NextIn(mem', b) = NextIn(mem, b)
  <2>1. CASE st3 = head
    BY <1>1, <1>3, <1>4, <2>1
  <2>2. CASE st3 # head
    <3>1. st0 \in Zones /\ st0 \in free /\ NextIn(mem, st0) = st3
          /\ mem' = POKE(mem, st0 + NEXT, nxt) /\ head' = head
      BY <1>1, <1>2, <1>4, <2>2, Facts
    <3> QED
      BY <1>3, <3>1, LayoutSetNext
  <2> QED
    BY <2>1, <2>2
<1>10. FreeListOrdered'
  <2>1. ListOf(mem', head', free \ {st3})
    BY <1>2, <1>3, <1>9, ListRemove
  <2> QED
    BY <1>1, <2>1 DEF FreeListOrdered
<1>11. MMTypeOK'
  <2>1. head' \in Word
    BY <1>1, <1>3
  <2> QED
    BY <1>1, <1>3, <1>7, <1>9, <2>1, ReturnType DEF IInv, MMTypeOK
<1>12. Owners'
  <2>1. ASSUME NEW b \in live' PROVE SizeIn(mem', b.ptr - 2) = b.size
    <3>1. CASE b \in live
      BY <1>9, <3>1, Facts
    <3>2. CASE b = new
      BY <1>1, <1>3, <1>6, <1>9, <3>2
    <3> QED
      BY <1>1, <3>1, <3>2
  <2>2. ASSUME NEW b \in live PROVE b.ptr # new.ptr
    BY <1>2, <1>6, Facts
  <2>3. \A b, c \in live' : b.ptr = c.ptr => b = c
    BY <1>1, <2>2 DEF IInv, Owners
  <2>4. (free \cap Held)' = {} /\ (lost \cap (free \cup Held))' = {}
    BY <1>1, <1>2, <1>8 DEF IInv, Owners
  <2> QED
    BY <1>8, <2>1, <2>3, <2>4 DEF Owners
<1>13. ApartUntilFreed'
  <2>1. Apart(mem, free)
    BY <1>1 DEF IInv, ApartUntilFreed
  <2> QED
    BY <1>1, <1>3, <1>9, <2>1 DEF ApartUntilFreed, Apart
<1> QED
  BY <1>1, <1>8, <1>9, <1>10, <1>11, <1>12, <1>13
     DEF IInv, ScanPlace, BrowsePlace, CoalescePlace
(* The split: the rest of the zone takes its place in the list.            *)
LEMMA AllocSplitIInv ==
  ASSUME Careful, IInv, AllocSplit
  PROVE  IInv'
<1> DEFINE new == [ptr |-> st3 + NEXT, size |-> sp0]
           r   == st3 + 2 + sp0
           k   == SplitAt(mem, st3, r, sp0)
<1>1. pc = "again" /\ SizeIn(mem, st3) > sp0
  BY DEF AllocSplit
<1>2. /\ st3 \in free /\ sp0 \in Sizes
      /\ st3 = head \/ (st0 \in free /\ NextIn(mem, st0) = st3)
  BY <1>1 DEF IInv, ScanPlace
<1>3. /\ mem \in Memory /\ Layout(mem, Zones) /\ st3 \in Zones /\ free \in SUBSET HEAP
      /\ sp0 \in Word /\ sp0 % 4 = 2 /\ sp0 \in Int /\ 0 <= sp0
      /\ ListOf(mem, head, free) /\ head \in Word
      /\ NextIn(mem, st3) \in Word /\ free \subseteq Zones
      /\ st0 \in Word /\ st3 \in Word /\ lost \subseteq HEAP
  BY <1>2, Facts, NextZone, WordRange DEF Careful
<1>4. /\ st3 \in Int /\ BlockAt(st3) /\ st3 + NEXT = st3 + 2 /\ st3 + 2 \in Word
      /\ SizeIn(mem, st3) \in Int /\ st3 + 2 + SizeIn(mem, st3) <= MEMEND /\ 0 <= st3
  BY <1>3, LayoutBlock, HeapBounds, WordRange DEF NEXT, BlockAt
<1>5. W16(sp0 + 2 + st3) = r /\ r \in Word
  <2>1. r \in Int /\ 0 <= r /\ r <= EOL /\ sp0 + 2 + st3 = r
    BY <1>1, <1>3, <1>4, HeapBounds
  <2> QED
    BY <2>1, W16Range, WordRange
<1>6. /\ IF st3 = head
         THEN head' = r /\ mem' = k
         ELSE head' = head /\ mem' = POKE(k, st0 + NEXT, r)
      /\ free' = (free \ {st3}) \cup {r} /\ live' = live \cup {new}
      /\ Return /\ pc' = "idle" /\ st1' = r
      /\ UNCHANGED <<st0, st3, lost>>
  BY <1>5 DEF AllocSplit, Take, Return
<1>7. new.ptr - 2 = st3 /\ new.size = sp0 /\ new.ptr \in Word
  BY <1>4
<1>8. new \in [ptr : Word, size : Word]
  BY <1>3, <1>4
<1>9. r = st3 + 2 + sp0 /\ k = SplitAt(mem, st3, r, sp0)
  OBVIOUS
<1> HIDE DEF new, k, r
<1>10. /\ k \in Memory /\ r \in HEAP /\ r \notin Zones /\ st3 < r
       /\ \A b \in Zones : st3 < b => r < b
       /\ Layout(k, Zones \cup {r})
       /\ SizeIn(k, st3) = sp0 /\ NextIn(k, st3) = r
       /\ SizeIn(k, r) = SizeIn(mem, st3) - 2 - sp0 /\ NextIn(k, r) = NextIn(mem, st3)
       /\ \A b \in Zones \ {st3} : SameBlock(mem, k, b)
  <2>1. mem \in Memory /\ Layout(mem, Zones) /\ st3 \in Zones
    BY <1>3
  <2>2. sp0 \in Word /\ sp0 % 4 = 2
    BY <1>3
  <2>3. sp0 < SizeIn(mem, st3)
    BY <1>1, <1>3, <1>4
  <2> QED
    BY <1>9, <2>1, <2>2, <2>3, SplitLayout
<1>11. Held' = Held \cup {st3} /\ Moving' = {} /\ Moving = {} /\ Zones' = Zones \cup {r}
  <2>1. Held' = Held \cup {new.ptr - 2}
    BY <1>6 DEF Held
  <2>2. Moving' = {} /\ Moving = {}
    BY <1>1, <1>6 DEF Moving
  <2> QED
    BY <1>6, <1>2, <1>7, <2>1, <2>2 DEF Zones
<1>12. /\ mem' \in Memory /\ Layout(mem', Zones \cup {r})
       /\ \A b \in Zones \cup {r} : SizeIn(mem', b) = SizeIn(k, b)
       /\ \/ /\ st3 = head /\ head' = r
             /\ \A b \in Zones \cup {r} : NextIn(mem', b) = NextIn(k, b)
          \/ /\ head' = head /\ st0 \in free /\ NextIn(mem, st0) = st3
             /\ NextIn(mem', st0) = r
             /\ \A b \in (Zones \cup {r}) \ {st0} : NextIn(mem', b) = NextIn(k, b)
  <2>1. CASE st3 = head
    BY <1>6, <1>10, <2>1
  <2>2. CASE st3 # head
    <3>1. /\ st0 \in Zones \cup {r} /\ st0 \in free /\ NextIn(mem, st0) = st3
          /\ mem' = POKE(k, st0 + NEXT, r) /\ head' = head
      BY <1>2, <1>3, <1>6, <2>2
    <3> QED
      BY <1>5, <1>10, <3>1, LayoutSetNext
  <2> QED
    BY <2>1, <2>2
<1>13. FreeListOrdered'
  <2>1. r \notin free /\ \A b \in free : st3 < b => r < b
    BY <1>3, <1>10
  <2>2. NextIn(mem', r) = NextIn(mem, st3)
    BY <1>10, <1>12, <2>1
  <2>3. \/ st3 = head /\ head' = r /\ \A b \in free \ {st3} : NextIn(mem', b) = NextIn(mem, b)
        \/ /\ head' = head
           /\ st0 \in free /\ NextIn(mem, st0) = st3 /\ NextIn(mem', st0) = r
           /\ \A b \in free \ {st3, st0} : NextIn(mem', b) = NextIn(mem, b)
    BY <1>3, <1>10, <1>12 DEF SameBlock
  <2>4. ListOf(mem', head', (free \ {st3}) \cup {r})
    BY <1>2, <1>3, <1>10, <2>1, <2>2, <2>3, ListReplace
  <2> QED
    BY <1>6, <2>4 DEF FreeListOrdered
<1>14. MMTypeOK'
  <2>1. head' \in Word /\ free' \subseteq HEAP /\ st1' \in Word /\ lost' \subseteq HEAP
    BY <1>3, <1>5, <1>6, <1>10
  <2>2. live' \in SUBSET [ptr : Word, size : Word]
    BY <1>6, <1>8 DEF IInv, MMTypeOK
  <2> QED
    BY <1>3, <1>6, <1>12, <2>1, <2>2, ReturnType DEF IInv
<1>15. Owners'
  <2>1. ASSUME NEW b \in live' PROVE SizeIn(mem', b.ptr - 2) = b.size
    <3>1. CASE b \in live
      <4>1. b.ptr - 2 \in Zones \ {st3} /\ SizeIn(mem, b.ptr - 2) = b.size
        BY <1>2, <3>1, Facts
      <4> QED
        BY <1>10, <1>12, <4>1 DEF SameBlock
    <3>2. CASE b = new
      BY <1>3, <1>7, <1>10, <1>12, <3>2
    <3> QED
      BY <1>6, <3>1, <3>2
  <2>2. ASSUME NEW b \in live PROVE b.ptr # new.ptr
    BY <1>2, <1>7, Facts
  <2>3. \A b, c \in live' : b.ptr = c.ptr => b = c
    BY <1>6, <2>2 DEF IInv, Owners
  <2>4. Held \cup lost \subseteq Zones /\ free \cap Held = {} /\ lost \cap (free \cup Held) = {}
    BY DEF IInv, Owners, Zones
  <2>5. r \notin Held /\ r # st3 /\ r \notin lost
    BY <1>3, <1>10, <2>4
  <2>6. free' \cap Held' = {} /\ lost' \cap (free' \cup Held') = {}
    BY <1>2, <1>6, <1>11, <2>4, <2>5
  <2> QED
    BY <1>11, <2>1, <2>3, <2>6 DEF Owners
<1>16. ApartUntilFreed'
  <2>1. Apart(mem, free)
    BY <1>1 DEF IInv, ApartUntilFreed
  <2>2. ASSUME NEW b \in free \ {st3}
        PROVE  b + 2 + SizeIn(mem', b) # r /\ b + 2 + SizeIn(mem', b) \notin free
    <3>1. /\ SizeIn(mem', b) = SizeIn(mem, b) /\ b \in Zones \cup {r}
          /\ b \in Int /\ SizeIn(mem, b) \in Int
      BY <1>3, <1>10, <1>12, LayoutBlock DEF SameBlock
    <3>2. b + 2 + SizeIn(mem, b) \notin free
      BY <2>1 DEF Apart
    <3>3. CASE b < st3
      <4>1. b + 2 + SizeIn(mem', b) <= st3
        BY <1>3, <1>12, <3>1, <3>3 DEF Layout
      <4> QED
        BY <1>3, <1>4, <1>10, <3>1, <3>2, <4>1, HeapBounds
    <3>4. CASE st3 < b
      BY <1>3, <1>10, <3>1, <3>2, <3>4, LayoutBlock, HeapBounds
    <3> QED
      BY <1>4, <3>1, <3>3, <3>4
  <2>3. /\ r + 2 + SizeIn(mem', r) \notin free
        /\ r + 2 + SizeIn(mem', r) # r
    <3>1. SizeIn(mem', r) = SizeIn(mem, st3) - 2 - sp0
      BY <1>10, <1>12
    <3>2. r + 2 + SizeIn(mem', r) = st3 + 2 + SizeIn(mem, st3)
      BY <1>3, <1>4, <1>9, <3>1
    <3>3. st3 + 2 + SizeIn(mem, st3) \notin free
      BY <1>2, <2>1 DEF Apart
    <3>4. st3 + 2 + SizeIn(mem, st3) # r
      BY <1>1, <1>3, <1>4, <1>9
    <3> QED
      BY <3>2, <3>3, <3>4
  <2> QED
    BY <1>6, <2>2, <2>3 DEF ApartUntilFreed, Apart
<1>17. Layout(mem, Zones)'
  BY <1>11, <1>12
<1> QED
  BY <1>6, <1>13, <1>14, <1>15, <1>16, <1>17
     DEF IInv, ScanPlace, BrowsePlace, CoalescePlace

-----------------------------------------------------------------------------
(* mm_free                                                                 *)

(* The zone of b is no longer the program's.                               *)
LEMMA FreeCallFrame ==
  ASSUME IInv, NEW b \in live, live' = live \ {b}
  PROVE  Held' = Held \ {b.ptr - 2}
<1>1. ASSUME NEW c \in live, c # b PROVE c.ptr - 2 # b.ptr - 2
  <2>1. c.ptr # b.ptr
    BY <1>1 DEF IInv, Owners
  <2> QED
    BY <2>1, Facts, WordRange
<1> QED
  BY <1>1 DEF Held

LEMMA FreeCallIInv ==
  ASSUME IInv, NEW b \in live, FreeCall(b)
  PROVE  IInv'
<1> DEFINE a == b.ptr - 2
<1>1. /\ pc = "idle" /\ live' = live \ {b} /\ sp0' = a /\ x' = head'
      /\ UNCHANGED <<st0, st1, st3, lost>>
      /\ \/ /\ a < head /\ mem' = POKE(mem, a + NEXT, head) /\ head' = a
            /\ free' = free \cup {a} /\ pc' = "coalesce"
         \/ /\ ~ (a < head) /\ pc' = "browse" /\ UNCHANGED <<mem, head, free>>
  BY DEF FreeCall
<1>2. /\ a \in Zones /\ a \in Held /\ a \notin free /\ Held' = Held \ {a}
  BY <1>1, Facts, FreeCallFrame
<1> HIDE DEF a
<1>3. /\ mem \in Memory /\ Layout(mem, Zones) /\ free \in SUBSET HEAP
      /\ head \in Word /\ head \in free \cup {EOL} /\ ListOf(mem, head, free)
      /\ free \subseteq Zones /\ Moving = {} /\ free \cap Held = {}
      /\ lost \cap (free \cup Held) = {} /\ Apart(mem, free) /\ head \in Int
  BY <1>1, Facts, WordRange DEF IInv, Moving, Owners, ApartUntilFreed
<1>4. a \in HEAP /\ a \in Word /\ a \in Int /\ a < EOL
  BY <1>2, <1>3, LayoutBlock, HeapBounds
<1>5. ASSUME mem' \in Memory, \A c \in Zones : SizeIn(mem', c) = SizeIn(mem, c)
      PROVE  /\ \A c \in live' : SizeIn(mem', c.ptr - 2) = c.size
             /\ \A c, d \in live' : c.ptr = d.ptr => c = d
  BY <1>1, <1>5, Facts DEF IInv, Owners
<1>6. CASE /\ a < head /\ mem' = POKE(mem, a + NEXT, head) /\ head' = a
           /\ free' = free \cup {a} /\ pc' = "coalesce"
  <2>1. /\ mem' \in Memory /\ Layout(mem', Zones)
        /\ NextIn(mem', a) = head
        /\ \A c \in Zones : SizeIn(mem', c) = SizeIn(mem, c)
        /\ \A c \in Zones \ {a} : NextIn(mem', c) = NextIn(mem, c)
    BY <1>2, <1>3, <1>6, LayoutSetNext
  <2>2. Zones' = Zones /\ Moving' = {}
    BY <1>1, <1>2, <1>3, <1>6 DEF Zones, Moving
  <2>3. FreeListOrdered'
    <3>1. \A c \in free : NextIn(mem', c) = NextIn(mem, c)
      BY <1>2, <1>3, <2>1
    <3>2. ListOf(mem', head', free \cup {a})
      BY <1>2, <1>3, <1>4, <1>6, <2>1, <3>1, ListInsert
    <3> QED
      BY <1>6, <3>2 DEF FreeListOrdered
  <2>4. MMTypeOK'
    BY <1>1, <1>4, <1>6, <2>1 DEF IInv, MMTypeOK, Memory
  <2>5. Owners'
    <3>1. free' \cap Held' = {} /\ lost' \cap (free' \cup Held') = {}
      BY <1>1, <1>2, <1>3, <1>6
    <3> QED
      BY <1>5, <2>1, <2>2, <3>1 DEF Owners
  <2>6. CoalescePlace'
    <3>1. \A c \in free \cup {a} : ~ (c < a)
      BY <1>3, <1>4, <1>6, Facts
    <3> QED
      BY <1>1, <1>6, <3>1 DEF CoalescePlace
  <2> QED
    BY <1>6, <2>1, <2>2, <2>3, <2>4, <2>5, <2>6
       DEF IInv, ScanPlace, BrowsePlace, ApartUntilFreed
<1>7. CASE ~ (a < head) /\ pc' = "browse" /\ UNCHANGED <<mem, head, free>>
  <2>1. head \in free /\ head < a
    BY <1>2, <1>3, <1>4, <1>7
  <2>2. Zones' = Zones /\ Moving' = {a}
    BY <1>1, <1>2, <1>3, <1>7 DEF Zones, Moving
  <2>3. MMTypeOK'
    BY <1>1, <1>3, <1>4, <1>7 DEF IInv, MMTypeOK
  <2>4. Owners'
    <3>1. free' \cap Held' = {} /\ lost' \cap (free' \cup Held') = {}
          /\ {a} \cap (free' \cup Held' \cup lost') = {}
      BY <1>1, <1>2, <1>3, <1>7
    <3>2. /\ \A c \in live' : SizeIn(mem', c.ptr - 2) = c.size
          /\ \A c, d \in live' : c.ptr = d.ptr => c = d
      BY <1>3, <1>5, <1>7
    <3> QED
      BY <2>2, <3>1, <3>2 DEF Owners
  <2>5. FreeListOrdered' /\ ApartUntilFreed' /\ Layout(mem, Zones)'
    BY <1>3, <1>7, <2>2 DEF FreeListOrdered, ApartUntilFreed
  <2> QED
    BY <1>1, <1>7, <2>1, <2>3, <2>4, <2>5
       DEF IInv, ScanPlace, BrowsePlace, CoalescePlace
<1> QED
  BY <1>1, <1>6, <1>7

(* .Leol writes back a link as it was, and the link of the zone that the   *)
(* list does not get: the zone is lost.                                    *)
LEMMA FreeInsertIInv ==
  ASSUME IInv, FreeInsert
  PROVE  IInv'
<1> DEFINE nxt == NextIn(mem, x)
           k   == POKE(mem, x + NEXT, nxt)
<1>1. /\ pc = "browse" /\ mem' = POKE(k, sp0 + NEXT, x)
      /\ lost' = lost \cup {sp0} /\ pc' = "coalesce" /\ x' = head
      /\ UNCHANGED <<head, sp0, st0, st1, st3, live, free>>
  BY DEF FreeInsert
<1>2. /\ x \in free /\ x < sp0 /\ Moving = {sp0} /\ sp0 \in Zones
      /\ sp0 \notin free /\ sp0 \notin Held /\ free \cap Held = {}
      /\ lost \cap (free \cup Held) = {}
  BY <1>1 DEF IInv, BrowsePlace, Moving, Zones, Owners
<1>3. /\ mem \in Memory /\ Layout(mem, Zones) /\ free \in SUBSET HEAP
      /\ head \in Word /\ head \in free \cup {EOL}
      /\ free \subseteq Zones /\ nxt \in Word /\ x \in Zones /\ x \in Word
      /\ sp0 \in HEAP /\ sp0 \in Word /\ lost \subseteq HEAP
  BY <1>2, Facts, NextZone, LayoutBlock
<1>4. /\ k \in Memory /\ Layout(k, Zones)
      /\ \A b \in Zones : SizeIn(k, b) = SizeIn(mem, b)
      /\ \A b \in Zones : NextIn(k, b) = NextIn(mem, b)
  <2>1. /\ k \in Memory /\ Layout(k, Zones) /\ NextIn(k, x) = nxt
        /\ \A b \in Zones : SizeIn(k, b) = SizeIn(mem, b)
        /\ \A b \in Zones \ {x} : NextIn(k, b) = NextIn(mem, b)
    BY <1>3, LayoutSetNext
  <2> QED
    BY <2>1
<1> HIDE DEF k, nxt
<1>5. /\ mem' \in Memory /\ Layout(mem', Zones)
      /\ \A b \in Zones : SizeIn(mem', b) = SizeIn(mem, b)
      /\ \A b \in Zones \ {sp0} : NextIn(mem', b) = NextIn(mem, b)
  <2>1. /\ mem' \in Memory /\ Layout(mem', Zones)
        /\ \A b \in Zones : SizeIn(mem', b) = SizeIn(k, b)
        /\ \A b \in Zones \ {sp0} : NextIn(mem', b) = NextIn(k, b)
    BY <1>1, <1>2, <1>3, <1>4, LayoutSetNext
  <2> QED
    BY <1>4, <2>1
<1>6. Zones' = Zones /\ Moving' = {} /\ Held' = Held
  BY <1>1, <1>2 DEF Zones, Held, Moving
<1>7. FreeListOrdered'
  <2>1. \A b \in free : NextIn(mem', b) = NextIn(mem, b)
    BY <1>2, <1>3, <1>5
  <2> QED
    BY <1>1, <2>1 DEF IInv, FreeListOrdered, ListOf
<1>8. MMTypeOK'
  BY <1>1, <1>3, <1>5 DEF IInv, MMTypeOK, Memory
<1>9. Owners'
  <2>1. \A b \in live' : SizeIn(mem', b.ptr - 2) = b.size
    BY <1>1, <1>5, Facts
  <2>2. free' \cap Held' = {} /\ lost' \cap (free' \cup Held') = {}
    BY <1>1, <1>2, <1>6
  <2> QED
    BY <1>1, <1>6, <2>1, <2>2 DEF IInv, Owners
<1>10. CoalescePlace'
  <2>1. \A b \in free : ~ (b < head)
    BY Facts, WordRange
  <2> QED
    BY <1>1, <1>3, <2>1 DEF CoalescePlace
<1> QED
  BY <1>1, <1>5, <1>6, <1>7, <1>8, <1>9, <1>10
     DEF IInv, ScanPlace, BrowsePlace, ApartUntilFreed

(* What the program writes into its zone leaves every header, and the link *)
(* of every other zone, as it was.                                         *)
LEMMA StoreIInv ==
  ASSUME IInv, NEW b \in live, NEW bytes \in [Payload(b) -> UserBytes], Store(b, bytes)
  PROVE  IInv'
<1> DEFINE o == b.ptr - 2
<1>1. /\ pc = "idle"
      /\ mem' = [a \in HEAP |-> IF a \in Payload(b) THEN bytes[a] ELSE mem[a]]
      /\ UNCHANGED <<pc, head, sp0, st0, st1, st3, x, live, free, lost>>
  BY Facts DEF Store, Memory
<1>2. /\ mem \in Memory /\ Layout(mem, Zones) /\ o \in Zones /\ o \notin free
      /\ free \subseteq Zones /\ SizeIn(mem, o) = b.size
  BY Facts
<1>3. mem' \in Memory
  BY <1>1, <1>2, ProgramAssumption DEF Memory
<1>4. /\ o \in Int /\ BlockAt(o) /\ b.size \in Int /\ b.size >= 2
      /\ o + 2 + b.size <= MEMEND /\ b.ptr = o + 2
  BY <1>2, LayoutBlock, Facts, WordRange
<1>5. \A y \in HEAP : (y < o + 2 \/ o + 2 + b.size <= y) => mem'[y] = mem[y]
  BY <1>1, <1>4, HeapBounds DEF Payload
<1> HIDE DEF o
<1>6. ASSUME NEW c \in Zones
      PROVE  SizeIn(mem', c) = SizeIn(mem, c) /\ (c # o => NextIn(mem', c) = NextIn(mem, c))
  <2>1. /\ BlockAt(c) /\ c \in Int /\ c \in HEAP
        /\ c + 1 \in HEAP /\ c + 2 \in HEAP /\ c + 3 \in HEAP
        /\ SizeIn(mem, c) \in Int /\ SizeIn(mem, c) >= 2
    BY <1>2, LayoutBlock, HeapBounds DEF BlockAt
  <2>2. c < o => c + 4 <= o
    BY <1>2, <1>4, <2>1, LayoutClear DEF Clear
  <2>3. o < c => o + 2 + b.size <= c
    BY <1>2 DEF Layout
  <2>4. mem'[c] = mem[c] /\ mem'[c + 1] = mem[c + 1]
    BY <1>4, <1>5, <2>1, <2>2, <2>3
  <2>5. c # o => mem'[c + 2] = mem[c + 2] /\ mem'[c + 3] = mem[c + 3]
    BY <1>4, <1>5, <2>1, <2>2, <2>3
  <2>6. c + 2 + 1 = c + 3
    BY <2>1
  <2> QED
    BY <2>1, <2>4, <2>5, <2>6, Fields DEF PEEK
<1>7. Zones' = Zones /\ Held' = Held /\ Moving' = Moving
  BY <1>1 DEF Zones, Held, Moving
<1>8. Layout(mem, Zones)'
  BY <1>2, <1>6, <1>7, LayoutSameSizes
<1>9. MMTypeOK'
  BY <1>1, <1>3 DEF IInv, MMTypeOK, Memory
<1>10. FreeListOrdered' /\ ApartUntilFreed'
  BY <1>1, <1>2, <1>6 DEF IInv, FreeListOrdered, ListOf, ApartUntilFreed, Apart
<1>11. Owners'
  <2>1. \A c \in live' : SizeIn(mem', c.ptr - 2) = c.size
    BY <1>1, <1>6, Facts
  <2> QED
    BY <1>1, <1>7, <2>1 DEF IInv, Owners
<1> QED
  BY <1>1, <1>8, <1>9, <1>10, <1>11
     DEF IInv, ScanPlace, BrowsePlace, CoalescePlace

-----------------------------------------------------------------------------
LEMMA NextIInv ==
  ASSUME Careful, IInv, [Next]_vars
  PROVE  IInv'
<1>1. ASSUME NEW n \in Sizes, AllocCall(n) PROVE IInv'
  BY <1>1, AllocCallIInv
<1>2. CASE Alloc
  BY <1>2, AllocExactIInv, AllocSplitIInv, AllocNextIInv, AllocFailIInv DEF Alloc
<1>3. ASSUME NEW b \in live, FreeCall(b) PROVE IInv'
  BY <1>3, FreeCallIInv
<1>4. CASE Free
  BY <1>4, BrowseNextIInv, FreeInsertIInv, CoalesceJoinsIInv, CoalesceMovesIInv,
     FreeReturnIInv DEF Free
<1>5. ASSUME NEW b \in live, NEW bytes \in [Payload(b) -> UserBytes], Store(b, bytes)
      PROVE  IInv'
  BY <1>5, StoreIInv
<1>6. CASE UNCHANGED vars
  BY <1>6, StutterIInv
<1> QED
  BY <1>1, <1>2, <1>3, <1>4, <1>5, <1>6 DEF Next

(* The inductive invariant holds for every heap and every careful program. *)
THEOREM Invariance ==
  ASSUME Careful
  PROVE  Spec => []IInv
<1>1. Init => IInv
  BY InitIInv
<1>2. IInv /\ [Next]_vars => IInv'
  BY NextIInv
<1> QED
  BY <1>1, <1>2, PTL DEF Spec

(* README.md: the free list of mm_alloc and mm_free stays sorted by        *)
(* address, and holds every zone that is neither held nor lost once, at    *)
(* every step of every call.                                               *)
THEOREM ListStaysOrdered ==
  ASSUME Careful
  PROVE  Spec => []FreeListOrdered
<1>1. IInv => FreeListOrdered
  BY DEF IInv
<1> QED
  BY <1>1, Invariance, PTL

(* No step of mm_alloc or mm_free makes two zones overlap or leaves a byte *)
(* of the heap outside every zone.  A zone freed above the first free one  *)
(* is lost, whole, and no other zone ever takes a byte of it.              *)
THEOREM NoZoneOverlaps ==
  ASSUME Careful
  PROVE  Spec => []Tiled
<1>1. IInv => Tiled
  BY Facts, LayoutTiles DEF Tiled
<1> QED
  BY <1>1, Invariance, PTL

(* mm_free joins every pair of zones of the list that touch before it      *)
(* returns: it starts again at the head after each join.                   *)
THEOREM FreeSpaceJoined ==
  ASSUME Careful
  PROVE  Spec => []Coalesced
<1>1. IInv => Coalesced
  BY DEF IInv, ApartUntilFreed, Coalesced
<1> QED
  BY <1>1, Invariance, PTL

(* When some zone is free, the search of mm_alloc goes through the zones of*)
(* the list in their order, with st0 one behind st3, and stops at the first*)
(* that is large enough.  Careful leaves out the search of an empty list.  *)
THEOREM SearchIsFirstFit ==
  ASSUME Careful
  PROVE  Spec => []FirstFit
<1>1. IInv => FirstFit
  BY DEF IInv, ScanPlace, FirstFit
<1> QED
  BY <1>1, Invariance, PTL-----------------------------------------------------------------------------
(* MM implements Heap.                                                     *)

Shown == UNION { Payload(b) : b \in live }

(* Memory k has, in the zones that are held or lost, the bytes of mem.     *)
Untouched(k) ==
  \A z \in Held \cup lost : \A y \in Span(mem, z) : k[y] = mem[y]

LEMMA ZoneSpan ==
  ASSUME IInv, NEW z \in Zones
  PROVE  /\ z \in Int /\ BlockAt(z) /\ SizeIn(mem, z) \in Int /\ SizeIn(mem, z) >= 2
         /\ \A y : y \in Span(mem, z) <=> y \in Int /\ z <= y /\ y < z + 2 + SizeIn(mem, z)
         /\ Span(mem, z) \subseteq HEAP
<1>1. /\ z \in Int /\ BlockAt(z) /\ SizeIn(mem, z) \in Int /\ SizeIn(mem, z) >= 2
      /\ z + 2 + SizeIn(mem, z) <= MEMEND /\ MEMSTART <= z
  BY Facts, LayoutBlock DEF BlockAt
<1>2. \A y : y \in Span(mem, z) <=> y \in Int /\ z <= y /\ y < z + 2 + SizeIn(mem, z)
  BY <1>1 DEF Span
<1>3. Span(mem, z) \subseteq HEAP
  BY <1>1, <1>2, HeapBounds
<1> QED
  BY <1>1, <1>2, <1>3

(* Two zones have no byte in common.                                       *)
LEMMA SpansApart ==
  ASSUME IInv, NEW z \in Zones, NEW c \in Zones, c # z, NEW y \in Span(mem, z)
  PROVE  y \in HEAP /\ y \in Int /\ (y < c \/ c + 2 + SizeIn(mem, c) <= y)
<1>1. /\ z \in Int /\ c \in Int /\ SizeIn(mem, z) \in Int /\ SizeIn(mem, c) \in Int
      /\ y \in HEAP /\ y \in Int /\ z <= y /\ y < z + 2 + SizeIn(mem, z)
  BY ZoneSpan
<1>2. c < z => c + 2 + SizeIn(mem, c) <= z
  BY Facts DEF Layout
<1>3. z < c => z + 2 + SizeIn(mem, z) <= c
  BY Facts DEF Layout
<1> QED
  BY <1>1, <1>2, <1>3

(* Stores to the header and link of zone c disturb no other zone.          *)
LEMMA StoresApart ==
  ASSUME IInv, NEW c \in Zones, c \notin Held \cup lost,
         NEW k, NEW m, Untouched(m), KeepsAllBut(m, k, c)
  PROVE  Untouched(k)
<1> SUFFICES ASSUME NEW z \in Held \cup lost, NEW y \in Span(mem, z)
             PROVE  k[y] = mem[y]
  BY DEF Untouched
<1>1. z \in Zones /\ z # c
  BY DEF Zones
<1>2. c \in Int /\ SizeIn(mem, c) \in Int /\ SizeIn(mem, c) >= 2
  BY ZoneSpan
<1>3. y \in HEAP /\ y \in Int /\ (y < c \/ c + 2 + SizeIn(mem, c) <= y)
  BY <1>1, SpansApart
<1>4. y < c \/ c + 4 <= y
  BY <1>2, <1>3
<1>5. k[y] = m[y]
  BY <1>3, <1>4 DEF KeepsAllBut
<1> QED
  BY <1>5 DEF Untouched

LEMMA UntouchedSelf == Untouched(mem)
BY DEF Untouched

LEMMA UntouchedSpans ==
  ASSUME IInv, NEW k, Untouched(k), NEW z \in Held \cup lost
  PROVE  SizeIn(k, z) = SizeIn(mem, z) /\ Span(k, z) = Span(mem, z)
<1>1. z \in Zones
  BY DEF Zones
<1>2. /\ z \in Int /\ BlockAt(z) /\ SizeIn(mem, z) \in Int /\ SizeIn(mem, z) >= 2
      /\ \A y : y \in Span(mem, z) <=> y \in Int /\ z <= y /\ y < z + 2 + SizeIn(mem, z)
  BY <1>1, ZoneSpan
<1>3. z \in Span(mem, z) /\ z + 1 \in Span(mem, z)
  BY <1>2
<1>4. k[z] = mem[z] /\ k[z + 1] = mem[z + 1]
  BY <1>3 DEF Untouched
<1>5. SizeIn(k, z) = SizeIn(mem, z)
  BY <1>2, <1>4, Fields DEF PEEK
<1> QED
  BY <1>5 DEF Span

(* The header and the payload of a zone the program holds are that zone.   *)
LEMMA HeldExtent ==
  ASSUME IInv, NEW b \in live
  PROVE  /\ Abstract!Extent(b) = Span(mem, b.ptr - 2)
         /\ Payload(b) \subseteq Span(mem, b.ptr - 2)
         /\ Payload(b) \subseteq HEAP
         /\ b.ptr - 2 \in Held /\ b.ptr - 2 \in Zones
<1>1. /\ b.ptr \in Int /\ b.size \in Int /\ b.ptr - 2 \in Zones /\ b.ptr - 2 \in Held
      /\ SizeIn(mem, b.ptr - 2) = b.size /\ b.ptr - 2 \in Int
  BY Facts, WordRange
<1>2. (b.ptr - 2) + 1 + b.size = b.ptr + b.size - 1
  BY <1>1
<1>3. Abstract!Extent(b) = Span(mem, b.ptr - 2)
  BY <1>1, <1>2 DEF Abstract!Extent, Span
<1>4. \A y \in Payload(b) : y \in Int /\ b.ptr - 2 <= y /\ y < (b.ptr - 2) + 2 + b.size
  BY <1>1 DEF Payload
<1>5. Payload(b) \subseteq Span(mem, b.ptr - 2)
  BY <1>1, <1>4, ZoneSpan
<1> QED
  BY <1>1, <1>3, <1>5, ZoneSpan

LEMMA ShownInHeap ==
  ASSUME IInv
  PROVE  Shown \subseteq HEAP
BY HeldExtent DEF Shown

(* The bytes that cannot be given are those of the zones held and leaked.  *)
LEMMA TakenZones ==
  ASSUME IInv
  PROVE  \A y : y \in Abstract!Taken(live)
                  <=> \E z \in Held \cup Leaked : y \in Span(mem, z)
<1>1. \A y : y \in LeakedBytes <=> \E z \in Leaked : y \in Span(mem, z)
  BY DEF LeakedBytes
<1>2. ASSUME NEW y, NEW b \in live, y \in Abstract!Extent(b)
      PROVE  \E z \in Held : y \in Span(mem, z)
  BY <1>2, HeldExtent
<1>3. ASSUME NEW y, NEW z \in Held, y \in Span(mem, z)
      PROVE  \E b \in live : y \in Abstract!Extent(b)
  <2>1. PICK b \in live : z = b.ptr - 2
    BY DEF Held
  <2> QED
    BY <1>3, <2>1, HeldExtent
<1>4. \A y : y \in Abstract!Taken(live)
               <=> y \in LeakedBytes \/ \E b \in live : y \in Abstract!Extent(b)
  BY DEF Abstract!Taken
<1> QED
  BY <1>1, <1>2, <1>3, <1>4

(* Zones that stay leaked keep the program from the same bytes.            *)
LEMMA LeakKept ==
  ASSUME IInv, Untouched(mem'), Leaked' = Leaked
  PROVE  LeakedBytes' = LeakedBytes
<1>1. \A z \in Leaked : Span(mem', z) = Span(mem, z)
  BY UntouchedSpans DEF Leaked
<1> QED
  BY <1>1 DEF LeakedBytes

LEMMA PayloadsKept ==
  ASSUME IInv, Untouched(mem')
  PROVE  \A y \in Shown : mem'[y] = mem[y]
BY HeldExtent DEF Untouched, Shown

(* A step inside a call, which the program does not see.                   *)
LEMMA HiddenStep ==
  ASSUME IInv, UNCHANGED live, CallShown' = CallShown, WantShown' = WantShown,
         Untouched(mem'), Leaked' = Leaked
  PROVE  UNCHANGED Abstract!vars
<1>1. \A y \in Shown : mem'[y] = mem[y]
  BY PayloadsKept
<1>2. Contents' = Contents
  BY <1>1 DEF Contents, Shown
<1> QED
  BY <1>2, LeakKept DEF Abstract!vars
LEMMA InitShown ==
  ASSUME Init
  PROVE  Abstract!Init
<1>1. CallShown = "none" /\ WantShown = 0 /\ live = {} /\ lost = {}
  BY DEF Init, CallShown, WantShown
<1>2. UNION { Payload(b) : b \in live } = {} /\ LeakedBytes = {}
  BY <1>1 DEF LeakedBytes, Leaked
<1>3. Contents = [a \in {} |-> 0]
  BY <1>2 DEF Contents
<1> QED
  BY <1>1, <1>2, <1>3 DEF Abstract!Init

LEMMA AllocCallShown ==
  ASSUME IInv, NEW n \in Sizes, AllocCall(n)
  PROVE  Abstract!Next
<1>1. /\ pc = "idle" /\ pc' = "again" /\ sp0' = n /\ live' = live /\ mem' = mem
      /\ lost' = lost
  BY DEF AllocCall
<1>2. CallShown = "none" /\ CallShown' = "alloc" /\ WantShown' = n
  BY <1>1 DEF CallShown, WantShown
<1>3. Contents' = Contents /\ LeakedBytes' = LeakedBytes
  BY <1>1 DEF Contents, LeakedBytes, Leaked
<1>4. Abstract!Alloc(n)
  BY <1>1, <1>2, <1>3 DEF Abstract!Alloc
<1> QED
  BY <1>4 DEF Abstract!Next

(* What a step that gives zone o to the program has to keep.               *)
LEMMA GrantShown ==
  ASSUME IInv, pc = "again", pc' = "idle", lost' = lost, NEW o \in free,
         sp0 \in Sizes, sp0 <= SizeIn(mem, o),
         live' = live \cup {[ptr |-> o + NEXT, size |-> sp0]}, mem' \in Memory,
         Untouched(mem')
  PROVE  Abstract!Next
<1> DEFINE new == [ptr |-> o + NEXT, size |-> sp0]
<1>1. /\ o \in Int /\ BlockAt(o) /\ o + NEXT = o + 2 /\ o \in Zones /\ sp0 \in Int
      /\ SizeIn(mem, o) \in Int /\ o + 2 + SizeIn(mem, o) <= MEMEND
      /\ MEMSTART <= o
  BY Facts, LayoutBlock, WordRange DEF NEXT, BlockAt
<1>2. new.ptr = o + 2 /\ new.size = sp0 /\ live' = live \cup {new} /\ o + 2 \in HEAP
  BY <1>1, HeapBounds DEF BlockAt
<1> HIDE DEF new
<1>3. CallShown = "alloc" /\ CallShown' = "none" /\ WantShown = sp0 /\ WantShown' = 0
  BY DEF CallShown, WantShown
<1>4. /\ \A y : y \in Abstract!Extent(new) <=> y \in Int /\ o <= y /\ y < o + 2 + sp0
      /\ Abstract!Extent(new) \subseteq HEAP
  <2>1. new.ptr - 2 = o /\ new.ptr + new.size - 1 = o + 1 + sp0
    BY <1>1, <1>2
  <2>2. \A y : y \in Abstract!Extent(new) <=> y \in Int /\ o <= y /\ y < o + 2 + sp0
    BY <1>1, <2>1 DEF Abstract!Extent
  <2> QED
    BY <1>1, <2>2, HeapBounds
<1>5. \A y \in Payload(new) : y \in HEAP
  BY <1>1, <1>2, HeapBounds DEF Payload
<1>6. Abstract!Extent(new) \cap Abstract!Taken(live) = {}
  <2> SUFFICES ASSUME NEW y \in Abstract!Extent(new), NEW z \in Held \cup Leaked,
                      y \in Span(mem, z)
               PROVE  FALSE
    BY TakenZones
  <2>1. z \in Zones /\ z # o
    BY DEF IInv, Owners, Leaked, Zones
  <2>2. y \in Int /\ (y < o \/ o + 2 + SizeIn(mem, o) <= y)
    BY <1>1, <2>1, SpansApart
  <2>3. o <= y /\ y < o + 2 + sp0
    BY <1>4
  <2> QED
    BY <1>1, <2>2, <2>3
<1>7. Shown' \subseteq HEAP /\ Shown \subseteq Shown'
  BY <1>2, <1>5, ShownInHeap DEF Shown
<1>8. /\ Contents' = [y \in Shown' |-> mem'[y]] /\ Contents = [y \in Shown |-> mem[y]]
      /\ Abstract!Owned(live') = Shown' /\ Abstract!Owned(live) = Shown
      /\ Abstract!Bytes = Byte
  BY DEF Contents, Shown, Abstract!Owned, Abstract!Payload, Payload, Byte, Abstract!Bytes
<1>9. Contents' \in [Abstract!Owned(live') -> Abstract!Bytes]
  <2>1. \A y \in Shown' : mem'[y] \in Byte
    BY <1>7 DEF Memory
  <2> QED
    BY <1>8, <2>1
<1>10. \A y \in Abstract!Owned(live) : Contents'[y] = Contents[y]
  BY <1>7, <1>8, PayloadsKept
<1>11. LeakedBytes' = LeakedBytes
  <2>1. Leaked' = Leaked
    BY DEF Leaked
  <2> QED
    BY <2>1, LeakKept
<1>12. Abstract!HEAP = HEAP
  BY DEF Abstract!HEAP, HEAP
<1>13. Abstract!Grant(new)
  BY <1>2, <1>3, <1>4, <1>6, <1>9, <1>10, <1>11, <1>12 DEF Abstract!Grant
<1>14. new = [ptr |-> o + 2, size |-> sp0] /\ o + 2 \in Abstract!HEAP
  BY <1>1, <1>2, <1>12 DEF new
<1> QED
  BY <1>13, <1>14 DEF Abstract!Next

LEMMA AllocExactShown ==
  ASSUME IInv, AllocExact
  PROVE  Abstract!Next
<1>1. /\ pc = "again" /\ SizeIn(mem, st3) = sp0
      /\ IF st3 = head
         THEN mem' = mem
         ELSE mem' = POKE(mem, st0 + NEXT, st1)
      /\ live' = live \cup {[ptr |-> st3 + NEXT, size |-> sp0]}
      /\ pc' = "idle" /\ lost' = lost
  BY DEF AllocExact, Take, Return
<1>2. /\ st3 \in free /\ sp0 \in Sizes
      /\ st3 = head \/ st0 \in free
  BY <1>1 DEF IInv, ScanPlace
<1>3. mem \in Memory /\ st1 \in Word /\ sp0 <= SizeIn(mem, st3)
  BY <1>1, <1>2, Facts, WordRange
<1>4. mem' \in Memory /\ Untouched(mem')
  <2>1. CASE st3 = head
    BY <1>1, <1>3, <2>1, UntouchedSelf
  <2>2. CASE st3 # head
    <3>1. st0 \in Zones /\ st0 \notin Held \cup lost /\ mem' = POKE(mem, st0 + NEXT, st1)
      BY <1>1, <1>2, <2>2, Facts DEF IInv, Owners
    <3>2. BlockAt(st0)
      BY <3>1, ZoneSpan
    <3>3. KeepsAllBut(mem, mem', st0)
      BY <1>3, <3>1, <3>2, FieldStore
    <3> QED
      BY <3>1, <3>3, StoresApart, UntouchedSelf DEF KeepsAllBut
  <2> QED
    BY <2>1, <2>2
<1> QED
  BY <1>1, <1>2, <1>3, <1>4, GrantShown

LEMMA AllocSplitShown ==
  ASSUME Careful, IInv, AllocSplit
  PROVE  Abstract!Next
<1> DEFINE r == st3 + 2 + sp0
           k == SplitAt(mem, st3, r, sp0)
<1>1. pc = "again" /\ SizeIn(mem, st3) > sp0
  BY DEF AllocSplit
<1>2. /\ st3 \in free /\ sp0 \in Sizes
      /\ st3 = head \/ st0 \in free
  BY <1>1 DEF IInv, ScanPlace
<1>3. /\ mem \in Memory /\ Layout(mem, Zones) /\ st3 \in Zones
      /\ sp0 \in Word /\ sp0 % 4 = 2 /\ sp0 \in Int /\ 0 <= sp0
  BY <1>2, Facts, WordRange DEF Careful
<1>4. /\ st3 \in Int /\ 0 <= st3 /\ BlockAt(st3) /\ SizeIn(mem, st3) \in Int
      /\ SizeIn(mem, st3) % 4 = 2 /\ st3 + 2 + SizeIn(mem, st3) <= MEMEND
      /\ st3 < MEMEND
  BY <1>3, LayoutBlock, WordRange
<1>5. W16(sp0 + 2 + st3) = r /\ r \in Word
  <2>1. r \in Int /\ 0 <= r /\ r <= EOL /\ sp0 + 2 + st3 = r
    BY <1>1, <1>3, <1>4, HeapBounds
  <2> QED
    BY <2>1, W16Range, WordRange
<1>6. /\ IF st3 = head THEN mem' = k ELSE mem' = POKE(k, st0 + NEXT, r)
      /\ live' = live \cup {[ptr |-> st3 + NEXT, size |-> sp0]}
      /\ pc' = "idle" /\ lost' = lost
  BY <1>5 DEF AllocSplit, Take, Return
<1>7. r = st3 + 2 + sp0 /\ k = SplitAt(mem, st3, r, sp0)
  OBVIOUS
<1> HIDE DEF k, r
<1>8. k \in Memory /\ BlockAt(r)
  <2>1. k \in Memory /\ Layout(k, Zones \cup {r})
    BY <1>1, <1>3, <1>7, SplitLayout
  <2>2. r \in Zones \cup {r}
    OBVIOUS
  <2>3. BlockAt(r)
    BY <2>1, <2>2 DEF Layout
  <2> QED
    BY <2>1, <2>3
<1>9. Untouched(k)
  <2> SUFFICES ASSUME NEW z \in Held \cup lost, NEW y \in Span(mem, z)
               PROVE  k[y] = mem[y]
    BY DEF Untouched
  <2>1. z \in Zones /\ z # st3
    BY <1>2 DEF Zones, IInv, Owners
  <2>2. y \in HEAP /\ y \in Int /\ (y < st3 \/ st3 + 2 + SizeIn(mem, st3) <= y)
    BY <1>3, <2>1, SpansApart
  <2>3. sp0 + 4 <= SizeIn(mem, st3)
    BY <1>1, <1>3, <1>4
  <2>4. (y < st3 \/ st3 + 4 <= y) /\ (y < r \/ r + 4 <= y)
    BY <1>3, <1>4, <1>7, <2>2, <2>3
  <2> QED
    BY <1>3, <1>4, <1>5, <1>7, <1>8, <2>2, <2>4, SplitStores
<1>10. mem' \in Memory /\ Untouched(mem')
  <2>1. CASE st3 = head
    BY <1>6, <1>8, <1>9, <2>1
  <2>2. CASE st3 # head
    <3>1. st0 \in Zones /\ st0 \notin Held \cup lost /\ mem' = POKE(k, st0 + NEXT, r)
      BY <1>2, <1>6, <2>2, Facts DEF IInv, Owners
    <3>2. BlockAt(st0)
      BY <3>1, ZoneSpan
    <3>3. KeepsAllBut(k, mem', st0)
      BY <1>5, <1>8, <3>1, <3>2, FieldStore
    <3> QED
      BY <1>9, <3>1, <3>3, StoresApart DEF KeepsAllBut
  <2> QED
    BY <2>1, <2>2
<1>11. sp0 <= SizeIn(mem, st3)
  BY <1>1, <1>3, <1>4
<1> QED
  BY <1>1, <1>2, <1>6, <1>10, <1>11, GrantShown
(* At the end of the list, a hole for the request would have to start in a *)
(* free zone, all of which are too small, and to go on into the next zone, *)
(* which is held or leaked as no two free zones touch.                     *)
LEMMA AllocFailShown ==
  ASSUME IInv, AllocFail
  PROVE  Abstract!Next
<1>1. /\ pc = "again" /\ SizeIn(mem, st3) < sp0 /\ NextIn(mem, st3) = EOL
      /\ pc' = "idle" /\ UNCHANGED <<mem, live, lost>>
  BY DEF AllocFail, Return
<1>2. /\ Zones = free \cup Held \cup lost /\ Leaked = lost /\ Leaked' = lost
      /\ Apart(mem, free) /\ sp0 \in Int /\ 0 <= sp0 /\ Layout(mem, Zones)
  BY <1>1, Facts, WordRange DEF IInv, Moving, Zones, Leaked, ApartUntilFreed
<1>3. ASSUME NEW a \in free
      PROVE  SizeIn(mem, a) < sp0
  <2>1. st3 \in free /\ \A c \in free : c < st3 => SizeIn(mem, c) < sp0
    BY <1>1 DEF IInv, ScanPlace
  <2>2. a \in Int /\ a < EOL /\ st3 \in Int /\ EOL \in Int
    BY <2>1, Facts, HeapBounds
  <2>3. a <= st3
    BY <1>1, <2>1, <2>2, NextZone
  <2> QED
    BY <1>1, <2>1, <2>2, <2>3
<1>4. Abstract!HEAP = HEAP
  BY DEF Abstract!HEAP, HEAP
<1>5. ASSUME NEW a \in HEAP, a + sp0 + 1 \in HEAP,
             \A y \in a .. a + sp0 + 1 : y \notin Abstract!Taken(live)
      PROVE  FALSE
  <2>1. a \in Int /\ a <= a + sp0 + 1 /\ a + sp0 + 1 < MEMEND
    BY <1>2, <1>5, HeapBounds
  <2>2. ASSUME NEW z \in Held \cup lost, NEW y \in Span(mem, z), y \in Int,
               a <= y, y <= a + sp0 + 1
        PROVE  FALSE
    <3>1. y \in Abstract!Taken(live)
      BY <1>2, <2>2, TakenZones
    <3> QED
      BY <1>2, <1>5, <2>1, <2>2, <3>1
  <2>3. PICK c \in Zones : c <= a /\ a < c + 2 + SizeIn(mem, c)
    BY <1>2 DEF Layout
  <2>4. c \in Int /\ SizeIn(mem, c) \in Int /\ SizeIn(mem, c) >= 2 /\ a \in Span(mem, c)
    BY <2>1, <2>3, ZoneSpan
  <2>5. c \in free
    BY <1>2, <2>1, <2>2, <2>4
  <2> DEFINE e == c + 2 + SizeIn(mem, c)
  <2>6. e \in Int /\ a < e /\ e <= a + sp0 + 1 /\ e \in HEAP /\ e \notin free
    <3>1. SizeIn(mem, c) < sp0
      BY <1>3, <2>5
    <3>2. e \in Int /\ a < e /\ e <= a + sp0 + 1
      BY <1>2, <2>1, <2>3, <2>4, <3>1
    <3>3. MEMSTART <= a /\ MEMSTART \in Int /\ MEMEND \in Int
      BY HeapBounds
    <3>4. e \in HEAP
      BY <1>2, <2>1, <3>2, <3>3, HeapBounds
    <3> QED
      BY <1>2, <2>5, <3>2, <3>4 DEF Apart
  <2>7. PICK d \in Zones : d <= e /\ e < d + 2 + SizeIn(mem, d)
    BY <1>2, <2>6 DEF Layout
  <2>8. d \in Int /\ SizeIn(mem, d) \in Int /\ e \in Span(mem, d)
    BY <2>6, <2>7, ZoneSpan
  <2>9. d # c /\ (d < c => d + 2 + SizeIn(mem, d) <= c) /\ (c < d => e <= d)
    BY <1>2, <2>4, <2>7, <2>8 DEF Layout
  <2>10. d = e
    BY <2>4, <2>6, <2>7, <2>8, <2>9
  <2> HIDE DEF e
  <2>11. d \in Held \cup lost
    BY <1>2, <2>6, <2>10
  <2> QED
    BY <2>2, <2>6, <2>8, <2>11
<1>6. Abstract!NoRoom(live, sp0)
  <2> SUFFICES ASSUME NEW a \in HEAP, a + sp0 + 1 \in HEAP
               PROVE  Abstract!Taken(live) \cap (a .. a + sp0 + 1) # {}
    BY <1>4 DEF Abstract!NoRoom
  <2> QED
    BY <1>5
<1>7. /\ CallShown = "alloc" /\ CallShown' = "none"
      /\ WantShown = sp0 /\ WantShown' = 0
  BY <1>1 DEF CallShown, WantShown
<1>8. Contents' = Contents /\ LeakedBytes' = LeakedBytes
  BY <1>1, <1>2 DEF Contents, LeakedBytes
<1> QED
  BY <1>1, <1>6, <1>7, <1>8 DEF Abstract!Refuse, Abstract!Next

LEMMA FreeCallShown ==
  ASSUME IInv, NEW b \in live, FreeCall(b)
  PROVE  Abstract!Next
<1> DEFINE a == b.ptr - 2
<1>1. /\ pc = "idle" /\ live' = live \ {b} /\ sp0' = a /\ lost' = lost
      /\ \/ mem' = POKE(mem, a + NEXT, head) /\ pc' = "coalesce"
         \/ mem' = mem /\ pc' = "browse"
  BY DEF FreeCall
<1>2. /\ CallShown = "none" /\ CallShown' = "free"
      /\ WantShown = 0 /\ WantShown' = 0
  BY <1>1 DEF CallShown, WantShown
<1>3. /\ a \in Zones /\ a \in Held /\ a \notin lost /\ BlockAt(a)
      /\ mem \in Memory /\ head \in Word
  BY Facts, ZoneSpan DEF IInv, Owners
<1> HIDE DEF a
<1>4. Leaked = lost /\ Leaked' = lost
  BY <1>1, <1>3 DEF Leaked
<1>5. \A y \in HEAP : y < a \/ a + 4 <= y => mem'[y] = mem[y]
  <2>1. CASE mem' = POKE(mem, a + NEXT, head)
    <3>1. KeepsAllBut(mem, mem', a)
      BY <1>3, <2>1, FieldStore
    <3> QED
      BY <3>1 DEF KeepsAllBut
  <2> QED
    BY <1>1, <2>1
<1>6. ASSUME NEW z \in Zones, z # a, NEW y \in Span(mem, z)
      PROVE  mem'[y] = mem[y]
  <2>1. a \in Int /\ SizeIn(mem, a) \in Int /\ SizeIn(mem, a) >= 2
    BY <1>3, ZoneSpan
  <2>2. y \in HEAP /\ y \in Int /\ (y < a \/ a + 2 + SizeIn(mem, a) <= y)
    BY <1>3, <1>6, SpansApart
  <2>3. y < a \/ a + 4 <= y
    BY <2>1, <2>2
  <2> QED
    BY <1>5, <2>2, <2>3
<1>7. ASSUME NEW c \in live', NEW y \in Payload(c)
      PROVE  mem'[y] = mem[y]
  <2>1. c \in live /\ c.ptr - 2 # a
    <3>1. c \in live /\ c.ptr # b.ptr
      BY <1>1 DEF IInv, Owners
    <3> QED
      BY <3>1, Facts, WordRange DEF a
  <2> QED
    BY <1>6, <2>1, HeldExtent
<1>8. ASSUME NEW z \in lost
      PROVE  Span(mem', z) = Span(mem, z)
  <2>1. z \in Zones /\ z # a
    BY <1>3 DEF Zones
  <2>2. /\ z \in Int /\ BlockAt(z) /\ SizeIn(mem, z) \in Int /\ SizeIn(mem, z) >= 2
        /\ \A y : y \in Span(mem, z) <=> y \in Int /\ z <= y /\ y < z + 2 + SizeIn(mem, z)
    BY <2>1, ZoneSpan
  <2>3. z \in Span(mem, z) /\ z + 1 \in Span(mem, z)
    BY <2>2
  <2>4. mem'[z] = mem[z] /\ mem'[z + 1] = mem[z + 1]
    BY <1>6, <2>1, <2>3
  <2>5. SizeIn(mem', z) = SizeIn(mem, z)
    BY <2>2, <2>4, Fields DEF PEEK
  <2> QED
    BY <2>5 DEF Span
<1>9. LeakedBytes' = LeakedBytes
  BY <1>4, <1>8 DEF LeakedBytes
<1>10. Contents' = [y \in Abstract!Owned(live') |-> Contents[y]]
  <2>1. Shown' \subseteq Shown /\ \A y \in Shown' : mem'[y] = mem[y]
    BY <1>1, <1>7 DEF Shown
  <2>2. \A y \in Shown' : mem'[y] = Contents[y]
    BY <2>1 DEF Shown, Contents
  <2>3. Abstract!Owned(live') = Shown'
    BY DEF Abstract!Owned, Abstract!Payload, Payload, Shown
  <2>4. Contents' = [y \in Shown' |-> mem'[y]]
    BY DEF Contents, Shown
  <2> QED
    BY <2>2, <2>3, <2>4
<1>11. Abstract!Free(b)
  BY <1>1, <1>2, <1>9, <1>10 DEF Abstract!Free
<1> QED
  BY <1>11 DEF Abstract!Next

(* The zone that the list did not get is leaked when the call returns, and *)
(* no byte of it is a byte of the program.                                 *)
LEMMA FreeReturnShown ==
  ASSUME IInv, FreeReturn
  PROVE  Abstract!Next
<1>1. pc = "coalesce" /\ pc' = "idle" /\ UNCHANGED <<mem, live, lost>>
  BY DEF FreeReturn, Return
<1>2. /\ CallShown = "free" /\ CallShown' = "none" /\ Contents' = Contents
      /\ WantShown = 0 /\ WantShown' = 0
  BY <1>1 DEF CallShown, WantShown, Contents
<1>3. Leaked \subseteq Leaked' /\ Leaked' = lost /\ LeakedBytes \subseteq LeakedBytes'
  BY <1>1 DEF Leaked, LeakedBytes
<1>4. ASSUME NEW y \in LeakedBytes', y \in Abstract!Taken(live)
      PROVE  y \in LeakedBytes
  <2>1. PICK z \in lost : y \in Span(mem, z)
    BY <1>1, <1>3 DEF LeakedBytes
  <2>2. PICK c \in Held \cup Leaked : y \in Span(mem, c)
    BY <1>4, TakenZones
  <2>3. CASE c \in Leaked
    BY <2>2, <2>3 DEF LeakedBytes
  <2>4. CASE c \in Held
    <3>1. z \in Zones /\ c \in Zones /\ z # c
      BY <2>4 DEF IInv, Owners, Zones
    <3>2. /\ y < c \/ c + 2 + SizeIn(mem, c) <= y
          /\ c <= y /\ y < c + 2 + SizeIn(mem, c)
          /\ y \in Int /\ c \in Int /\ SizeIn(mem, c) \in Int
      BY <2>1, <2>2, <3>1, SpansApart, ZoneSpan
    <3> QED
      BY <3>2
  <2> QED
    BY <2>2, <2>3, <2>4
<1>5. Abstract!Freed
  BY <1>1, <1>2, <1>3, <1>4 DEF Abstract!Freed
<1> QED
  BY <1>5 DEF Abstract!Next

(* The steps of the loops that the program does not see.                   *)
LEMMA WalkShown ==
  ASSUME IInv, AllocNext \/ BrowseNext \/ (Coalesce /\ ~ Joined)
  PROVE  UNCHANGED Abstract!vars
<1>1. UNCHANGED <<pc, mem, sp0, live, lost>>
  BY DEF AllocNext, BrowseNext, Coalesce
<1>2. CallShown' = CallShown /\ WantShown' = WantShown /\ Leaked' = Leaked
  BY <1>1 DEF CallShown, WantShown, Leaked
<1>3. Untouched(mem')
  BY <1>1, UntouchedSelf
<1> QED
  BY <1>1, <1>2, <1>3, HiddenStep

LEMMA FreeInsertShown ==
  ASSUME IInv, FreeInsert
  PROVE  UNCHANGED Abstract!vars
<1> DEFINE nxt == NextIn(mem, x)
           k   == POKE(mem, x + NEXT, nxt)
<1>1. /\ pc = "browse" /\ pc' = "coalesce" /\ UNCHANGED <<sp0, live>>
      /\ lost' = lost \cup {sp0} /\ mem' = POKE(k, sp0 + NEXT, x)
  BY DEF FreeInsert
<1>2. /\ x \in free /\ x \notin Held \cup lost
      /\ sp0 \in Zones /\ sp0 \notin Held \cup lost
  BY <1>1 DEF IInv, BrowsePlace, Moving, Zones, Owners
<1>3. /\ mem \in Memory /\ nxt \in Word /\ x \in Word /\ x \in Zones
      /\ BlockAt(x) /\ BlockAt(sp0)
  BY <1>2, Facts, NextZone, ZoneSpan
<1>4. KeepsAllBut(mem, k, x)
  BY <1>3, FieldStore
<1>5. k \in Memory
  BY <1>4 DEF KeepsAllBut
<1> HIDE DEF k, nxt
<1>6. KeepsAllBut(k, mem', sp0)
  BY <1>1, <1>3, <1>5, FieldStore
<1>7. Untouched(k)
  BY <1>2, <1>3, <1>4, UntouchedSelf, StoresApart
<1>8. Untouched(mem')
  BY <1>2, <1>6, <1>7, StoresApart
<1>9. CallShown' = CallShown /\ WantShown' = WantShown /\ Leaked' = Leaked
  BY <1>1, <1>2 DEF CallShown, WantShown, Leaked
<1> QED
  BY <1>1, <1>8, <1>9, HiddenStep

LEMMA CoalesceShown ==
  ASSUME IInv, Coalesce, Joined
  PROVE  UNCHANGED Abstract!vars
<1> DEFINE nxt == NextIn(mem, x)
<1>1. /\ pc = "coalesce" /\ x # EOL
      /\ mem' = Absorb(mem, x, nxt) /\ UNCHANGED <<pc, sp0, live, lost>>
  BY DEF Coalesce
<1>2. x \in free /\ x \in Zones /\ mem \in Memory /\ x \notin Held \cup lost
  BY <1>1, Facts DEF IInv, CoalescePlace, Owners
<1>3. BlockAt(x) /\ BlockAt(nxt)
  <2>1. nxt # EOL
    <3>1. nxt = x + 2 + SizeIn(mem, x) /\ x + 2 + SizeIn(mem, x) <= MEMEND
      BY <1>2, JoinedExact, Facts, LayoutBlock
    <3> QED
      BY <3>1, HeapBounds
  <2>2. nxt \in Zones
    BY <1>2, <2>1, NextZone, Facts
  <2> QED
    BY <1>2, <2>2, ZoneSpan
<1>4. KeepsAllBut(mem, mem', x)
  BY <1>1, <1>2, <1>3, AbsorbStores
<1>5. Untouched(mem')
  BY <1>2, <1>4, StoresApart, UntouchedSelf
<1>6. CallShown' = CallShown /\ WantShown' = WantShown /\ Leaked' = Leaked
  BY <1>1 DEF CallShown, WantShown, Leaked
<1> QED
  BY <1>1, <1>5, <1>6, HiddenStep

LEMMA StoreShown ==
  ASSUME IInv, NEW b \in live, NEW bytes \in [Payload(b) -> UserBytes], Store(b, bytes)
  PROVE  Abstract!Next
<1>1. /\ pc = "idle" /\ UNCHANGED <<pc, sp0, live, lost>> /\ mem \in Memory
      /\ mem' = [a \in HEAP |-> IF a \in Payload(b) THEN bytes[a] ELSE mem[a]]
  BY Facts DEF Store, Memory
<1>2. mem' \in Memory
  BY <1>1, ProgramAssumption DEF Memory
<1>3. CallShown = "none" /\ CallShown' = CallShown /\ WantShown' = WantShown
  BY <1>1 DEF CallShown, WantShown
<1>4. /\ Contents' = [y \in Shown |-> mem'[y]] /\ Contents = [y \in Shown |-> mem[y]]
      /\ Abstract!Owned(live) = Shown /\ Abstract!Payload(b) = Payload(b)
      /\ Abstract!Bytes = Byte
  BY <1>1 DEF Contents, Shown, Abstract!Owned, Abstract!Payload, Payload, Byte,
              Abstract!Bytes
<1>5. Contents' \in [Abstract!Owned(live) -> Abstract!Bytes]
  BY <1>2, <1>4, ShownInHeap DEF Memory
<1>6. \A y \in Abstract!Owned(live) \ Abstract!Payload(b) : Contents'[y] = Contents[y]
  BY <1>1, <1>4, ShownInHeap
<1>7. Leaked' = Leaked /\ Leaked = lost
  BY <1>1 DEF Leaked
<1>8. ASSUME NEW z \in lost
      PROVE  Span(mem', z) = Span(mem, z)
  <2>1. z \in Zones /\ b.ptr - 2 \in Zones /\ z # b.ptr - 2
    BY HeldExtent DEF IInv, Owners, Zones
  <2>2. /\ z \in Int /\ BlockAt(z) /\ SizeIn(mem, z) \in Int /\ SizeIn(mem, z) >= 2
        /\ \A y : y \in Span(mem, z) <=> y \in Int /\ z <= y /\ y < z + 2 + SizeIn(mem, z)
        /\ Span(mem, z) \subseteq HEAP
    BY <2>1, ZoneSpan
  <2>3. z \in Span(mem, z) /\ z + 1 \in Span(mem, z)
    BY <2>2
  <2>4. \A y \in Span(mem, z) : y \notin Payload(b)
    <3>1. SUFFICES ASSUME NEW y \in Span(mem, z), y \in Span(mem, b.ptr - 2)
                   PROVE  FALSE
      BY HeldExtent
    <3>2. y \in Int /\ z <= y /\ y < z + 2 + SizeIn(mem, z)
      BY <2>2
    <3>3. y < z \/ z + 2 + SizeIn(mem, z) <= y
      BY <2>1, <3>1, SpansApart
    <3> QED
      BY <2>2, <3>2, <3>3
  <2>5. mem'[z] = mem[z] /\ mem'[z + 1] = mem[z + 1]
    BY <1>1, <2>2, <2>3, <2>4
  <2>6. SizeIn(mem', z) = SizeIn(mem, z)
    BY <2>2, <2>5, Fields DEF PEEK
  <2> QED
    BY <2>6 DEF Span
<1>9. LeakedBytes' = LeakedBytes
  BY <1>7, <1>8 DEF LeakedBytes
<1>10. Abstract!Store(b)
  BY <1>1, <1>3, <1>5, <1>6, <1>9 DEF Abstract!Store
<1> QED
  BY <1>10 DEF Abstract!Next

LEMMA NextShown ==
  ASSUME Careful, IInv, [Next]_vars
  PROVE  [Abstract!Next]_(Abstract!vars)
<1>1. ASSUME NEW n \in Sizes, AllocCall(n) PROVE Abstract!Next
  BY <1>1, AllocCallShown
<1>2. CASE Alloc
  BY <1>2, AllocExactShown, AllocSplitShown, AllocFailShown, WalkShown DEF Alloc
<1>3. ASSUME NEW b \in live, FreeCall(b) PROVE Abstract!Next
  BY <1>3, FreeCallShown
<1>4. CASE Free
  BY <1>4, WalkShown, FreeInsertShown, CoalesceShown, FreeReturnShown DEF Free
<1>5. ASSUME NEW b \in live, NEW bytes \in [Payload(b) -> UserBytes], Store(b, bytes)
      PROVE  Abstract!Next
  BY <1>5, StoreShown
<1>6. CASE UNCHANGED vars
  <2>1. UNCHANGED <<pc, mem, sp0, live, lost>>
    BY <1>6 DEF vars
  <2>2. CallShown' = CallShown /\ WantShown' = WantShown /\ Leaked' = Leaked
    BY <2>1 DEF CallShown, WantShown, Leaked
  <2>3. Untouched(mem')
    BY <2>1, UntouchedSelf
  <2> QED
    BY <2>1, <2>2, <2>3, HiddenStep
<1> QED
  BY <1>1, <1>2, <1>3, <1>4, <1>5, <1>6 DEF Next

(* monitor/mm.asm implements Heap for every careful program: each step of  *)
(* mm_alloc and mm_free is a step Heap allows, or one the program cannot   *)
(* see.  A zone given lies in the heap and meets none that is held or was  *)
(* leaked, a refusal means no hole has room, the contents of a zone change *)
(* only by its owner's stores, and what a faulty mm_free does is to leak   *)
(* the bytes it was given.                                                 *)
THEOREM Implements ==
  ASSUME Careful
  PROVE  Spec => IsAHeap
<1>1. Init => Abstract!Init
  BY InitShown
<1>2. IInv /\ [Next]_vars => [Abstract!Next]_(Abstract!vars)
  BY NextShown
<1> QED
  BY <1>1, <1>2, Invariance, PTL DEF Spec, IsAHeap, Abstract!Safety
=============================================================================
