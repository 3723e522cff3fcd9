---------------------------- MODULE MallocProofs ----------------------------
(***************************************************************************)
(* Proofs about Malloc, for every heap and every program that keeps to     *)
(* sizes of 2 modulo 4 (Granular).  The lemmas are about one action each:  *)
(* it preserves the inductive invariant IInv, and it is a step of Heap or  *)
(* one that the program does not see.                                      *)
(***************************************************************************)
EXTENDS Malloc, HeapMemoryProofs

-----------------------------------------------------------------------------
(* The inductive invariant: what the loops of a call know of their place   *)
(* in the list, with the layout of the heap and the order of the list.     *)

Owners ==
  /\ HeadersKept
  /\ free \cap Held = {}
  /\ Moving \cap (free \cup Held) = {}

(* The blocks behind adr are too small; prv is the one just behind it.     *)
ScanPlace ==
  pc = "scan" =>
    /\ size \in Sizes
    /\ adr \in free \cup {EOL}
    /\ adr = head \/ (prv \in free /\ NextIn(mem, prv) = adr)
    /\ \A a \in free : a < adr => SizeIn(mem, a) < size

(* No block behind cur touches the next one.                               *)
CoalescePlace ==
  pc = "coalesce" =>
    /\ cur \in free \cup {EOL}
    /\ \A a \in free : a < cur => a + 2 + SizeIn(mem, a) \notin free

ApartUntilFreed == pc # "coalesce" => Apart(mem, free)

IInv ==
  /\ TypeOK
  /\ Layout(mem, Blocks)
  /\ Owners
  /\ FreeListOrdered
  /\ ScanPlace
  /\ BrowseFinds
  /\ CoalescePlace
  /\ ApartUntilFreed

-----------------------------------------------------------------------------

LEMMA MemoryType == TypeOK => mem \in Memory
BY DEF TypeOK, Memory

(* What IInv says of the values the actions use.                           *)
LEMMA Facts ==
  ASSUME IInv
  PROVE  /\ mem \in Memory
         /\ free \subseteq HEAP /\ free \subseteq Blocks
         /\ head \in Word /\ adr \in Word /\ prv \in Word /\ cur \in Word
         /\ size \in Word
         /\ head \in free \cup {EOL}
         /\ \A a \in free : head <= a
         /\ \A b \in live : /\ b.ptr \in Word /\ b.size \in Word
                            /\ b.ptr - 2 \in Blocks /\ b.ptr - 2 \in Held
                            /\ b.ptr - 2 \notin free
                            /\ SizeIn(mem, b.ptr - 2) = b.size
<1>1. TypeOK /\ FreeListOrdered /\ Owners
  BY DEF IInv
<1>2. /\ mem \in Memory
      /\ free \in SUBSET HEAP /\ free \subseteq Blocks
      /\ head \in Word /\ adr \in Word /\ prv \in Word /\ cur \in Word
      /\ size \in Word
  BY <1>1 DEF TypeOK, Memory, Blocks
<1>3. head \in free \cup {EOL} /\ \A a \in free : head <= a
  BY <1>1, <1>2, HeadSmallest DEF FreeListOrdered
<1>4. ASSUME NEW b \in live
      PROVE  /\ b.ptr \in Word /\ b.size \in Word
             /\ b.ptr - 2 \in Blocks /\ b.ptr - 2 \in Held
             /\ b.ptr - 2 \notin free
             /\ SizeIn(mem, b.ptr - 2) = b.size
  BY <1>1 DEF TypeOK, Owners, HeadersKept, Held, Blocks
<1> QED
  BY <1>2, <1>3, <1>4

LEMMA EolNotFree ==
  ASSUME NEW F \in SUBSET HEAP
  PROVE  EOL \notin F /\ \A a \in F : a < EOL /\ a \in Int
BY HeapBounds

-----------------------------------------------------------------------------
LEMMA InitIInv ==
  ASSUME Granular, Init
  PROVE  IInv
<1> DEFINE z  == [a \in HEAP |-> 0]
           m1 == POKE(z, MEMSTART + SIZE, MEMSIZE - 2)
<1>1. z \in Memory /\ BlockAt(MEMSTART) /\ mem = POKE(m1, MEMSTART + NEXT, EOL)
  <2>1. 0 \in Byte
    BY DEF Byte
  <2>2. BlockAt(MEMSTART)
    BY HeapBounds DEF BlockAt
  <2> QED
    BY <2>1, <2>2 DEF Init, OneBlock, Memory
<1>2. MEMSIZE - 2 \in Word /\ MEMSIZE \in Int /\ MEMSIZE >= 4
  <2>1. MEMSIZE \in Int /\ MEMSIZE >= 4 /\ MEMSTART \in Nat /\ MEMEND = MEMSTART + MEMSIZE
    BY HeapAssumption DEF MEMEND
  <2>2. MEMSIZE - 2 \in Int /\ 0 <= MEMSIZE - 2 /\ MEMSIZE - 2 <= EOL
    BY <2>1, HeapBounds
  <2> QED
    BY <2>1, <2>2, WordRange
<1>3. m1 \in Memory /\ SizeIn(m1, MEMSTART) = MEMSIZE - 2
  BY <1>1, <1>2, SetSize
<1> HIDE DEF z, m1
<1>4. EOL \in Word
  BY WordRange, HeapBounds
<1>5. mem \in Memory /\ SizeIn(mem, MEMSTART) = MEMSIZE - 2 /\ NextIn(mem, MEMSTART) = EOL
  BY <1>1, <1>3, <1>4, SetNext
<1>6. Blocks = {MEMSTART}
  BY DEF Init, Blocks, Held, Moving
<1>7. MEMSTART \in HEAP
  BY HeapBounds
<1>8. TypeOK
  <2>1. 0 \in Word
    BY WordRange, HeapBounds
  <2> QED
    BY <1>4, <1>5, <1>7, <2>1, WordRange DEF Init, TypeOK, Memory
<1>9. Layout(mem, Blocks)
  <2>1. MEMEND = MEMSTART + MEMSIZE /\ MEMSIZE % 4 = 0
    BY DEF MEMEND, Granular
  <2>2. (MEMSIZE - 2) % 4 = 2
    BY <1>2, <2>1
  <2>3. MEMSTART + 2 + (MEMSIZE - 2) = MEMEND
    BY <1>2, <2>1, HeapBounds
  <2> QED
    BY <1>1, <1>5, <1>6, <2>2, <2>3, HeapBounds DEF Layout
<1>10. FreeListOrdered
  <2>1. free = {MEMSTART} /\ head = MEMSTART
    BY DEF Init
  <2> QED
    BY <1>5, <2>1, HeapBounds DEF FreeListOrdered, ListOf, Follows
<1>11. Owners
  BY DEF Init, Owners, HeadersKept, Held, Moving
<1>12. ApartUntilFreed
  <2>1. MEMSTART + 2 + (MEMSIZE - 2) # MEMSTART
    BY <1>2, HeapBounds
  <2> QED
    BY <1>5, <2>1 DEF Init, ApartUntilFreed, Apart
<1> QED
  BY <1>8, <1>9, <1>10, <1>11, <1>12
     DEF Init, IInv, ScanPlace, BrowseFinds, CoalescePlace

LEMMA StutterIInv ==
  ASSUME IInv, UNCHANGED vars
  PROVE  IInv'
BY DEF vars, IInv, TypeOK, Blocks, Held, Moving, Owners, HeadersKept,
       FreeListOrdered, ScanPlace, BrowseFinds, CoalescePlace, ApartUntilFreed

-----------------------------------------------------------------------------
(* Steps that leave the memory, the list and the owners as they were: only *)
(* the place of a loop changes.                                            *)
LEMMA MoveOnly ==
  ASSUME IInv, UNCHANGED <<mem, head, live, free>>, Blocks' = Blocks,
         (Moving \cap (free \cup Held) = {})',
         TypeOK', ScanPlace', BrowseFinds', CoalescePlace', ApartUntilFreed'
  PROVE  IInv'
<1>1. Layout(mem, Blocks)'
  BY DEF IInv
<1>2. Owners' /\ FreeListOrdered'
  BY DEF IInv, Owners, HeadersKept, Held, FreeListOrdered
<1> QED
  BY <1>1, <1>2 DEF IInv

LEMMA AllocCallIInv ==
  ASSUME IInv, NEW n \in Sizes, AllocCall(n)
  PROVE  IInv'
<1>1. pc = "idle" /\ pc' = "scan" /\ size' = n /\ adr' = head /\ prv' = EOL
      /\ UNCHANGED <<mem, head, cur, live, free>>
  BY DEF AllocCall
<1>2. Blocks' = Blocks /\ Moving' = {}
  BY <1>1 DEF Blocks, Held, Moving
<1>3. EOL \in Word /\ n \in Word
  BY WordRange, HeapBounds, ProgramAssumption
<1>4. TypeOK'
  BY <1>1, <1>3 DEF IInv, TypeOK
<1>5. ScanPlace'
  <2>1. \A a \in free : ~ (a < head)
    BY Facts, EolNotFree, WordRange
  <2> QED
    BY <1>1, <2>1, Facts DEF ScanPlace
<1>6. ApartUntilFreed'
  BY <1>1 DEF IInv, ApartUntilFreed
<1> QED
  BY <1>1, <1>2, <1>4, <1>5, <1>6, MoveOnly DEF BrowseFinds, CoalescePlace

LEMMA ReturnType ==
  ASSUME TypeOK, Return, mem' \in Memory, head' \in Word, free' \subseteq HEAP,
         live' \in SUBSET [ptr : Word, size : Word]
  PROVE  TypeOK'
<1>1. EOL \in Word /\ 0 \in Word
  BY WordRange, HeapBounds
<1> QED
  BY <1>1 DEF TypeOK, Return, Memory

LEMMA AllocFailIInv ==
  ASSUME IInv, AllocFail
  PROVE  IInv'
<1>1. pc = "scan" /\ pc' = "idle" /\ UNCHANGED <<mem, head, live, free>> /\ Return
  BY DEF AllocFail, Return
<1>2. Blocks' = Blocks /\ Moving' = {}
  BY <1>1 DEF Blocks, Held, Moving
<1>3. TypeOK'
  BY <1>1, Facts, ReturnType DEF IInv, TypeOK
<1>4. ApartUntilFreed'
  BY <1>1 DEF IInv, ApartUntilFreed
<1> QED
  BY <1>1, <1>2, <1>3, <1>4, MoveOnly DEF ScanPlace, BrowseFinds, CoalescePlace

LEMMA FreeReturnIInv ==
  ASSUME IInv, FreeReturn
  PROVE  IInv'
<1>1. /\ pc = "coalesce" /\ cur = EOL /\ pc' = "idle" /\ Return
      /\ UNCHANGED <<mem, head, live, free>>
  BY DEF FreeReturn, Return
<1>2. Blocks' = Blocks /\ Moving' = {}
  BY <1>1 DEF Blocks, Held, Moving
<1>3. TypeOK'
  BY <1>1, Facts, ReturnType DEF IInv, TypeOK
<1>4. Apart(mem, free)
  BY <1>1, Facts, EolNotFree DEF IInv, CoalescePlace, Apart
<1> QED
  BY <1>1, <1>2, <1>3, <1>4, MoveOnly
     DEF ScanPlace, BrowseFinds, CoalescePlace, ApartUntilFreed

(* The block after a in the list.                                          *)
LEMMA NextBlock ==
  ASSUME IInv, NEW a \in free
  PROVE  /\ NextIn(mem, a) \in Word /\ NextIn(mem, a) \in Int
         /\ NextIn(mem, a) \in free \cup {EOL}
         /\ a < NextIn(mem, a)
         /\ \A b \in free : b <= a \/ NextIn(mem, a) <= b
<1>1. mem \in Memory /\ free \in SUBSET HEAP /\ a \in Blocks /\ Layout(mem, Blocks)
  BY Facts DEF IInv
<1>2. NextIn(mem, a) \in Word /\ NextIn(mem, a) \in Int
  BY <1>1, LayoutBlock
<1>3. Follows(free, a, NextIn(mem, a))
  BY DEF IInv, FreeListOrdered, ListOf
<1> QED
  BY <1>1, <1>2, <1>3, EolNotFree DEF Follows

LEMMA AllocNextIInv ==
  ASSUME IInv, AllocNext
  PROVE  IInv'
<1>1. /\ pc = "scan" /\ adr # EOL /\ SizeIn(mem, adr) < size
      /\ prv' = adr /\ adr' = NextIn(mem, adr)
      /\ UNCHANGED <<pc, mem, head, size, cur, live, free>>
  BY DEF AllocNext
<1>2. Blocks' = Blocks /\ Moving' = {}
  BY <1>1 DEF Blocks, Held, Moving
<1>3. adr \in free /\ \A a \in free : a < adr => SizeIn(mem, a) < size
  BY <1>1 DEF IInv, ScanPlace
<1>4. TypeOK'
  BY <1>1, <1>3, NextBlock DEF IInv, TypeOK
<1>5. ScanPlace'
  <2>1. ASSUME NEW a \in free, a < NextIn(mem, adr)
        PROVE  SizeIn(mem, a) < size
    <3>1. a \in Int /\ adr \in Int /\ NextIn(mem, adr) \in Int
      BY <1>3, Facts, EolNotFree, NextBlock
    <3>2. a <= adr
      BY <1>3, <2>1, <3>1, NextBlock
    <3> QED
      BY <1>1, <1>3, <3>1, <3>2
  <2> QED
    BY <1>1, <1>3, <2>1, NextBlock DEF IInv, ScanPlace
<1>6. ApartUntilFreed'
  BY <1>1 DEF IInv, ApartUntilFreed
<1> QED
  BY <1>1, <1>2, <1>4, <1>5, <1>6, MoveOnly DEF BrowseFinds, CoalescePlace

LEMMA BrowseNextIInv ==
  ASSUME IInv, BrowseNext
  PROVE  IInv'
<1>1. /\ pc = "browse" /\ NextIn(mem, cur) <= adr /\ cur' = NextIn(mem, cur)
      /\ UNCHANGED <<pc, mem, head, size, adr, prv, live, free>>
  BY DEF BrowseNext
<1>2. Blocks' = Blocks /\ Moving' = Moving /\ Held' = Held
  BY <1>1 DEF Blocks, Held, Moving
<1>3. cur \in free /\ adr \notin free /\ adr \in Blocks
  BY <1>1 DEF IInv, BrowseFinds, Owners, Moving, Blocks
<1>4. TypeOK'
  BY <1>1, <1>3, NextBlock DEF IInv, TypeOK
<1>5. BrowseFinds'
  <2>1. adr \in Int /\ adr < EOL /\ NextIn(mem, cur) \in Int
    BY <1>3, LayoutBlock, HeapBounds, NextBlock, Facts DEF IInv
  <2>2. NextIn(mem, cur) \in free
    BY <1>1, <1>3, <2>1, NextBlock, HeapBounds
  <2>3. NextIn(mem, cur) < adr
    BY <1>1, <1>3, <2>1, <2>2
  <2> QED
    BY <1>1, <2>2, <2>3 DEF BrowseFinds
<1>6. ApartUntilFreed' /\ (Moving \cap (free \cup Held) = {})'
  BY <1>1, <1>2 DEF IInv, ApartUntilFreed, Owners
<1> QED
  BY <1>1, <1>2, <1>4, <1>5, <1>6, MoveOnly DEF ScanPlace, CoalescePlace

LEMMA MergeNextIInv ==
  ASSUME IInv, MergeNext
  PROVE  IInv'
<1>1. /\ pc = "coalesce" /\ cur # EOL /\ cur' = NextIn(mem, cur)
      /\ NextIn(mem, cur) # cur + SizeIn(mem, cur) + 2
      /\ UNCHANGED <<pc, mem, head, size, adr, prv, live, free>>
  BY DEF MergeNext, Joined
<1>2. Blocks' = Blocks /\ Moving' = {}
  BY <1>1 DEF Blocks, Held, Moving
<1>3. cur \in free /\ \A a \in free : a < cur => a + 2 + SizeIn(mem, a) \notin free
  BY <1>1 DEF IInv, CoalescePlace
<1>4. TypeOK'
  BY <1>1, <1>3, NextBlock DEF IInv, TypeOK
<1>5. cur + 2 + SizeIn(mem, cur) \notin free
  <2> SUFFICES ASSUME cur + 2 + SizeIn(mem, cur) \in free
               PROVE  FALSE
    OBVIOUS
  <2> DEFINE e == cur + 2 + SizeIn(mem, cur)
             n == NextIn(mem, cur)
  <2>1. /\ cur \in Blocks /\ SizeIn(mem, cur) \in Int /\ SizeIn(mem, cur) >= 2
        /\ cur \in Int /\ e \in Int /\ n \in Int /\ e = cur + SizeIn(mem, cur) + 2
    BY <1>3, Facts, LayoutBlock, NextBlock DEF IInv
  <2>2. n <= e /\ n # e /\ cur < n
    BY <1>1, <1>3, <2>1, NextBlock
  <2>3. n \in free
    BY <1>3, <2>1, <2>2, NextBlock, Facts, EolNotFree
  <2>4. e <= n
    BY <1>3, <2>1, <2>2, <2>3, Facts DEF IInv, Layout
  <2> QED
    BY <2>1, <2>2, <2>4
<1>6. CoalescePlace'
  <2>1. ASSUME NEW a \in free, a < NextIn(mem, cur)
        PROVE  a + 2 + SizeIn(mem, a) \notin free
    <3>1. a \in Int /\ cur \in Int /\ NextIn(mem, cur) \in Int
      BY <1>3, Facts, EolNotFree, NextBlock
    <3>2. a <= cur
      BY <1>3, <2>1, <3>1, NextBlock
    <3> QED
      BY <1>3, <1>5, <3>1, <3>2
  <2> QED
    BY <1>1, <1>3, <2>1, NextBlock DEF CoalescePlace
<1> QED
  BY <1>1, <1>2, <1>4, <1>6, MoveOnly DEF ScanPlace, BrowseFinds, ApartUntilFreed

-----------------------------------------------------------------------------
(* Steps that write to the memory.                                         *)

LEMMA AllocTakeIInv ==
  ASSUME IInv, AllocTake
  PROVE  IInv'
<1> DEFINE nxt == NextIn(mem, adr)
           new == [ptr |-> adr + NEXT, size |-> size]
<1>1. /\ pc = "scan" /\ adr # EOL /\ SizeIn(mem, adr) = size
      /\ IF adr = head
         THEN head' = nxt /\ mem' = mem
         ELSE head' = head /\ mem' = POKE(mem, prv + NEXT, nxt)
      /\ free' = free \ {adr} /\ live' = live \cup {new}
      /\ Return /\ pc' = "idle"
  BY DEF AllocTake, Unlink, Return
<1>2. /\ adr \in free /\ size \in Sizes
      /\ adr = head \/ (prv \in free /\ NextIn(mem, prv) = adr)
  BY <1>1 DEF IInv, ScanPlace
<1>3. /\ mem \in Memory /\ Layout(mem, Blocks) /\ adr \in Blocks /\ free \in SUBSET HEAP
      /\ nxt \in Word /\ size \in Word /\ ListOf(mem, head, free) /\ head \in Word
  BY <1>2, Facts, NextBlock DEF IInv, FreeListOrdered
<1>4. adr \in Int /\ BlockAt(adr) /\ adr + NEXT = adr + 2 /\ adr + 2 \in Word
  BY <1>3, LayoutBlock, HeapBounds, WordRange DEF NEXT, BlockAt
<1>5. new.ptr - 2 = adr /\ new.size = size /\ new.ptr \in Word
  BY <1>4
<1> HIDE DEF new
<1>6. Held' = Held \cup {adr} /\ Moving' = {} /\ Blocks' = Blocks
  <2>1. Held' = Held \cup {new.ptr - 2}
    BY <1>1 DEF Held
  <2>2. Moving' = {} /\ Moving = {}
    BY <1>1 DEF Moving
  <2> QED
    BY <1>1, <1>2, <1>5, <2>1, <2>2 DEF Blocks
<1>7. /\ mem' \in Memory /\ Layout(mem', Blocks)
      /\ \A b \in Blocks : SizeIn(mem', b) = SizeIn(mem, b)
      /\ \/ adr = head /\ head' = nxt /\ \A b \in Blocks : NextIn(mem', b) = NextIn(mem, b)
         \/ /\ head' = head /\ prv \in free /\ NextIn(mem, prv) = adr
            /\ NextIn(mem', prv) = nxt
            /\ \A b \in Blocks \ {prv} : NextIn(mem', b) = NextIn(mem, b)
  <2>1. CASE adr = head
    BY <1>1, <1>3, <2>1
  <2>2. CASE adr # head
    <3>1. prv \in Blocks /\ prv \in free /\ NextIn(mem, prv) = adr
          /\ mem' = POKE(mem, prv + NEXT, nxt) /\ head' = head
      BY <1>1, <1>2, <2>2, Facts
    <3> QED
      BY <1>3, <3>1, LayoutSetNext
  <2> QED
    BY <2>1, <2>2
<1>8. FreeListOrdered'
  <2>1. free \subseteq Blocks
    BY Facts
  <2>2. ListOf(mem', head', free \ {adr})
    BY <1>2, <1>3, <1>7, <2>1, ListRemove
  <2> QED
    BY <1>1, <2>2 DEF FreeListOrdered
<1>9. TypeOK'
  <2>1. new \in [ptr : Word, size : Word]
    BY <1>3, <1>4 DEF new
  <2>2. head' \in Word
    BY <1>1, <1>3
  <2> QED
    BY <1>1, <1>7, <2>1, <2>2, ReturnType DEF IInv, TypeOK
<1>10. Owners'
  <2>1. ASSUME NEW b \in live' PROVE SizeIn(mem', b.ptr - 2) = b.size
    <3>1. CASE b \in live
      BY <1>7, <3>1, Facts
    <3>2. CASE b = new
      BY <1>1, <1>3, <1>5, <1>7, <3>2
    <3> QED
      BY <1>1, <3>1, <3>2
  <2>2. ASSUME NEW b \in live PROVE b.ptr # new.ptr
    BY <1>2, <1>5, Facts
  <2>3. HeadersKept'
    BY <1>1, <2>1, <2>2 DEF IInv, Owners, HeadersKept
  <2>4. (free \cap Held)' = {} /\ Moving' = {}
    BY <1>1, <1>6 DEF IInv, Owners
  <2> QED
    BY <2>3, <2>4 DEF Owners
<1>11. ApartUntilFreed'
  <2>1. Apart(mem, free) /\ free \subseteq Blocks
    BY <1>1, Facts DEF IInv, ApartUntilFreed
  <2> QED
    BY <1>1, <1>7, <2>1 DEF ApartUntilFreed, Apart
<1> QED
  BY <1>1, <1>6, <1>7, <1>8, <1>9, <1>10, <1>11
     DEF IInv, ScanPlace, BrowseFinds, CoalescePlace

LEMMA AllocSplitIInv ==
  ASSUME Granular, IInv, AllocSplit
  PROVE  IInv'
<1> DEFINE new == [ptr |-> adr + NEXT, size |-> size]
           k   == SplitAt(mem, adr, Rest, size)
           r   == adr + 2 + size
<1>1. /\ pc = "scan" /\ adr # EOL /\ SizeIn(mem, adr) > size
      /\ IF adr = head
         THEN head' = NextIn(k, adr) /\ mem' = k
         ELSE head' = head /\ mem' = POKE(k, prv + NEXT, NextIn(k, adr))
      /\ free' = (free \ {adr}) \cup {Rest} /\ live' = live \cup {new}
      /\ Return /\ pc' = "idle"
  BY DEF AllocSplit, Unlink, Return
<1>2. /\ adr \in free /\ size \in Sizes
      /\ adr = head \/ (prv \in free /\ NextIn(mem, prv) = adr)
  BY <1>1 DEF IInv, ScanPlace
<1>3. /\ mem \in Memory /\ Layout(mem, Blocks) /\ adr \in Blocks /\ free \in SUBSET HEAP
      /\ size \in Word /\ size % 4 = 2 /\ size \in Int /\ 0 <= size
      /\ ListOf(mem, head, free) /\ head \in Word
      /\ NextIn(mem, adr) \in Word /\ free \subseteq Blocks
  BY <1>2, Facts, NextBlock, WordRange DEF IInv, FreeListOrdered, Granular
<1>4. /\ adr \in Int /\ BlockAt(adr) /\ adr + NEXT = adr + 2 /\ adr + 2 \in Word
      /\ SizeIn(mem, adr) \in Int /\ adr + 2 + SizeIn(mem, adr) <= MEMEND /\ 0 <= adr
  BY <1>3, LayoutBlock, HeapBounds, WordRange DEF NEXT, BlockAt
<1>5. Rest = r
  <2>1. r \in Int /\ 0 <= r /\ r <= EOL
    BY <1>1, <1>3, <1>4, HeapBounds
  <2> QED
    BY <2>1, W16Range DEF Rest
<1>6. new.ptr - 2 = adr /\ new.size = size /\ new.ptr \in Word
  BY <1>4
<1>7. /\ k \in Memory /\ r \in HEAP /\ r \notin Blocks /\ adr < r
      /\ \A b \in Blocks : adr < b => r < b
      /\ Layout(k, Blocks \cup {r})
      /\ SizeIn(k, adr) = size /\ NextIn(k, adr) = r
      /\ SizeIn(k, r) = SizeIn(mem, adr) - 2 - size /\ NextIn(k, r) = NextIn(mem, adr)
      /\ \A b \in Blocks \ {adr} : SameBlock(mem, k, b)
  BY <1>1, <1>3, <1>5, SplitLayout
<1> HIDE DEF new, k, r
<1>8. Held' = Held \cup {adr} /\ Moving' = {} /\ Moving = {} /\ Blocks' = Blocks \cup {r}
  <2>1. Held' = Held \cup {new.ptr - 2}
    BY <1>1 DEF Held
  <2>2. Moving' = {} /\ Moving = {}
    BY <1>1 DEF Moving
  <2> QED
    BY <1>1, <1>2, <1>5, <1>6, <2>1, <2>2 DEF Blocks
<1>9. /\ mem' \in Memory /\ Layout(mem', Blocks \cup {r})
      /\ \A b \in Blocks \cup {r} : SizeIn(mem', b) = SizeIn(k, b)
      /\ \/ /\ adr = head /\ head' = r
            /\ \A b \in Blocks \cup {r} : NextIn(mem', b) = NextIn(k, b)
         \/ /\ head' = head /\ prv \in free /\ NextIn(mem, prv) = adr
            /\ NextIn(mem', prv) = r
            /\ \A b \in (Blocks \cup {r}) \ {prv} : NextIn(mem', b) = NextIn(k, b)
  <2>1. CASE adr = head
    BY <1>1, <1>7, <2>1
  <2>2. CASE adr # head
    <3>1. /\ prv \in Blocks \cup {r} /\ prv \in free /\ NextIn(mem, prv) = adr
          /\ mem' = POKE(k, prv + NEXT, r) /\ head' = head
      BY <1>1, <1>2, <1>7, <2>2, Facts
    <3>2. r \in Word
      BY <1>7, WordRange
    <3> QED
      BY <1>7, <3>1, <3>2, LayoutSetNext
  <2> QED
    BY <2>1, <2>2
<1>10. FreeListOrdered'
  <2>1. r \notin free /\ \A b \in free : adr < b => r < b
    BY <1>3, <1>7
  <2>2. NextIn(mem', r) = NextIn(mem, adr)
    BY <1>7, <1>9, <2>1
  <2>3. \/ adr = head /\ head' = r /\ \A b \in free \ {adr} : NextIn(mem', b) = NextIn(mem, b)
        \/ /\ head' = head
           /\ prv \in free /\ NextIn(mem, prv) = adr /\ NextIn(mem', prv) = r
           /\ \A b \in free \ {adr, prv} : NextIn(mem', b) = NextIn(mem, b)
    BY <1>3, <1>7, <1>9 DEF SameBlock
  <2>4. ListOf(mem', head', (free \ {adr}) \cup {r})
    BY <1>2, <1>3, <1>7, <2>1, <2>2, <2>3, ListReplace
  <2> QED
    BY <1>1, <1>5, <2>4 DEF FreeListOrdered
<1>11. TypeOK'
  <2>1. new \in [ptr : Word, size : Word]
    BY <1>3, <1>4 DEF new
  <2>2. head' \in Word /\ free' \subseteq HEAP
    BY <1>1, <1>3, <1>5, <1>7, <1>9, WordRange
  <2> QED
    BY <1>1, <1>9, <2>1, <2>2, ReturnType DEF IInv, TypeOK
<1>12. Owners'
  <2>1. ASSUME NEW b \in live' PROVE SizeIn(mem', b.ptr - 2) = b.size
    <3>1. CASE b \in live
      <4>1. b.ptr - 2 \in Blocks \ {adr} /\ SizeIn(mem, b.ptr - 2) = b.size
        BY <1>2, <3>1, Facts
      <4> QED
        BY <1>7, <1>9, <4>1 DEF SameBlock
    <3>2. CASE b = new
      BY <1>3, <1>6, <1>7, <1>9, <3>2
    <3> QED
      BY <1>1, <3>1, <3>2
  <2>2. ASSUME NEW b \in live PROVE b.ptr # new.ptr
    BY <1>2, <1>6, Facts
  <2>3. HeadersKept'
    BY <1>1, <2>1, <2>2 DEF IInv, Owners, HeadersKept
  <2>4. Held \subseteq Blocks /\ free \cap Held = {}
    BY DEF IInv, Owners, Blocks
  <2>5. r \notin Held /\ r # adr
    BY <1>3, <1>7, <2>4
  <2>6. free' = (free \ {adr}) \cup {r} /\ Held' = Held \cup {adr}
    BY <1>1, <1>5, <1>8
  <2>7. free' \cap Held' = {} /\ Moving' = {}
    BY <1>8, <2>4, <2>5, <2>6
  <2> QED
    BY <2>3, <2>7 DEF Owners
<1>13. ApartUntilFreed'
  <2>1. Apart(mem, free)
    BY <1>1 DEF IInv, ApartUntilFreed
  <2>2. ASSUME NEW b \in free \ {adr}
        PROVE  b + 2 + SizeIn(mem', b) # r /\ b + 2 + SizeIn(mem', b) \notin free
    <3>1. /\ SizeIn(mem', b) = SizeIn(mem, b) /\ b \in Blocks \cup {r}
          /\ b \in Int /\ SizeIn(mem, b) \in Int
      BY <1>3, <1>7, <1>9, LayoutBlock DEF SameBlock
    <3>2. b + 2 + SizeIn(mem, b) \notin free
      BY <2>1 DEF Apart
    <3>3. CASE b < adr
      <4>1. b + 2 + SizeIn(mem', b) <= adr
        BY <1>3, <1>9, <3>1, <3>3 DEF Layout
      <4> QED
        BY <1>3, <1>4, <1>7, <3>1, <3>2, <4>1, HeapBounds
    <3>4. CASE adr < b
      BY <1>3, <1>7, <3>1, <3>2, <3>4, LayoutBlock, HeapBounds
    <3> QED
      BY <1>4, <3>1, <3>3, <3>4
  <2>3. /\ r + 2 + SizeIn(mem', r) \notin free
        /\ r + 2 + SizeIn(mem', r) # r
    <3>1. SizeIn(mem', r) = SizeIn(mem, adr) - 2 - size
      BY <1>7, <1>9
    <3>2. r + 2 + SizeIn(mem', r) = adr + 2 + SizeIn(mem, adr)
      BY <1>3, <1>4, <3>1 DEF r
    <3>3. adr + 2 + SizeIn(mem, adr) \notin free
      BY <1>2, <2>1 DEF Apart
    <3>4. adr + 2 + SizeIn(mem, adr) # r
      BY <1>1, <1>3, <1>4 DEF r
    <3> QED
      BY <3>2, <3>3, <3>4
  <2> QED
    BY <1>1, <1>5, <2>2, <2>3 DEF ApartUntilFreed, Apart
<1>14. Layout(mem, Blocks)'
  BY <1>8, <1>9
<1> QED
  BY <1>1, <1>10, <1>11, <1>12, <1>13, <1>14
     DEF IInv, ScanPlace, BrowseFinds, CoalescePlace

(* Removing block b of the program makes it the block being freed.         *)
LEMMA FreeCallFrame ==
  ASSUME IInv, NEW b \in live, live' = live \ {b}
  PROVE  /\ b.ptr - 2 \in Blocks /\ b.ptr - 2 \in Held /\ b.ptr - 2 \notin free
         /\ Held' = Held \ {b.ptr - 2}
<1>1. b.ptr - 2 \in Blocks /\ b.ptr - 2 \in Held /\ b.ptr - 2 \notin free
  BY Facts
<1>2. ASSUME NEW c \in live, c # b PROVE c.ptr - 2 # b.ptr - 2
  <2>1. c.ptr # b.ptr
    BY <1>2 DEF IInv, Owners, HeadersKept
  <2> QED
    BY <2>1, Facts, WordRange
<1>3. Held' = Held \ {b.ptr - 2}
  BY <1>2 DEF Held
<1> QED
  BY <1>1, <1>3

LEMMA FreeCallIInv ==
  ASSUME IInv, NEW b \in live, FreeCall(b)
  PROVE  IInv'
<1> DEFINE a == b.ptr - 2
<1>1. /\ pc = "idle" /\ live' = live \ {b} /\ adr' = a /\ cur' = head'
      /\ UNCHANGED <<size, prv>>
      /\ \/ /\ a < head /\ mem' = POKE(mem, a + NEXT, head) /\ head' = a
            /\ free' = free \cup {a} /\ pc' = "coalesce"
         \/ /\ ~ (a < head) /\ pc' = "browse" /\ UNCHANGED <<mem, head, free>>
  BY DEF FreeCall
<1>2. /\ a \in Blocks /\ a \in Held /\ a \notin free /\ Held' = Held \ {a}
  BY <1>1, FreeCallFrame
<1> HIDE DEF a
<1>3. /\ mem \in Memory /\ Layout(mem, Blocks) /\ free \in SUBSET HEAP
      /\ head \in Word /\ head \in free \cup {EOL} /\ ListOf(mem, head, free)
      /\ free \subseteq Blocks /\ Moving = {} /\ free \cap Held = {}
      /\ Apart(mem, free)
  BY <1>1, Facts DEF IInv, FreeListOrdered, Moving, Owners, ApartUntilFreed
<1>4. a \in HEAP /\ a \in Word /\ a \in Int /\ a < EOL
  BY <1>2, <1>3, LayoutBlock, HeapBounds
<1>5. ASSUME mem' \in Memory, \A c \in Blocks : SizeIn(mem', c) = SizeIn(mem, c)
      PROVE  HeadersKept'
  BY <1>1, <1>5, Facts DEF IInv, Owners, HeadersKept
<1>6. CASE /\ a < head /\ mem' = POKE(mem, a + NEXT, head) /\ head' = a
           /\ free' = free \cup {a} /\ pc' = "coalesce"
  <2>1. /\ mem' \in Memory /\ Layout(mem', Blocks)
        /\ NextIn(mem', a) = head
        /\ \A c \in Blocks : SizeIn(mem', c) = SizeIn(mem, c)
        /\ \A c \in Blocks \ {a} : NextIn(mem', c) = NextIn(mem, c)
    BY <1>2, <1>3, <1>6, LayoutSetNext
  <2>2. Blocks' = Blocks /\ Moving' = {}
    BY <1>2, <1>3, <1>6 DEF Blocks, Moving
  <2>3. FreeListOrdered'
    <3>1. \A c \in free : NextIn(mem', c) = NextIn(mem, c)
      BY <1>2, <1>3, <2>1
    <3>2. ListOf(mem', head', free \cup {a})
      BY <1>2, <1>3, <1>4, <1>6, <2>1, <3>1, ListInsert
    <3> QED
      BY <1>6, <3>2 DEF FreeListOrdered
  <2>4. TypeOK'
    BY <1>1, <1>4, <1>6, <2>1 DEF IInv, TypeOK, Memory
  <2>5. Owners'
    BY <1>2, <1>3, <1>5, <1>6, <2>1, <2>2 DEF Owners
  <2>6. CoalescePlace'
    <3>1. \A c \in free \cup {a} : ~ (c < a)
      BY <1>3, <1>4, <1>6, Facts, EolNotFree, WordRange
    <3> QED
      BY <1>1, <1>6, <3>1 DEF CoalescePlace
  <2> QED
    BY <1>6, <2>1, <2>2, <2>3, <2>4, <2>5, <2>6
       DEF IInv, ScanPlace, BrowseFinds, ApartUntilFreed
<1>7. CASE ~ (a < head) /\ pc' = "browse" /\ UNCHANGED <<mem, head, free>>
  <2>1. head \in free /\ head < a
    BY <1>2, <1>3, <1>4, <1>7, EolNotFree
  <2>2. Blocks' = Blocks /\ Moving' = {a}
    BY <1>1, <1>2, <1>3, <1>7 DEF Blocks, Moving
  <2>3. TypeOK'
    BY <1>1, <1>3, <1>4, <1>7 DEF IInv, TypeOK
  <2>4. HeadersKept'
    BY <1>3, <1>5, <1>7
  <2>5. Owners'
    BY <1>2, <1>3, <1>7, <2>2, <2>4 DEF Owners
  <2>6. FreeListOrdered' /\ ApartUntilFreed' /\ Layout(mem, Blocks)'
    BY <1>3, <1>7, <2>2 DEF FreeListOrdered, ApartUntilFreed
  <2> QED
    BY <1>1, <1>7, <2>1, <2>3, <2>5, <2>6
       DEF IInv, ScanPlace, BrowseFinds, CoalescePlace
<1> QED
  BY <1>1, <1>6, <1>7

LEMMA FreeInsertIInv ==
  ASSUME IInv, FreeInsert
  PROVE  IInv'
<1> DEFINE nxt == NextIn(mem, cur)
           k   == POKE(mem, adr + NEXT, nxt)
<1>1. /\ pc = "browse" /\ nxt > adr
      /\ mem' = POKE(k, cur + NEXT, adr)
      /\ free' = free \cup {adr} /\ pc' = "coalesce" /\ cur' = head
      /\ UNCHANGED <<head, size, adr, prv, live>>
  BY DEF FreeInsert
<1>2. /\ cur \in free /\ cur < adr /\ Moving = {adr} /\ adr \in Blocks
      /\ adr \notin free /\ adr \notin Held /\ free \cap Held = {}
  BY <1>1 DEF IInv, BrowseFinds, Moving, Blocks, Owners
<1>3. /\ mem \in Memory /\ Layout(mem, Blocks) /\ free \in SUBSET HEAP
      /\ head \in Word /\ head \in free \cup {EOL} /\ ListOf(mem, head, free)
      /\ free \subseteq Blocks /\ nxt \in Word /\ cur \in Blocks
      /\ adr \in HEAP /\ adr \in Word
  BY <1>2, Facts, NextBlock, LayoutBlock DEF IInv, FreeListOrdered
<1>4. /\ k \in Memory /\ Layout(k, Blocks) /\ NextIn(k, adr) = nxt
      /\ \A b \in Blocks : SizeIn(k, b) = SizeIn(mem, b)
      /\ \A b \in Blocks \ {adr} : NextIn(k, b) = NextIn(mem, b)
  BY <1>2, <1>3, LayoutSetNext
<1> HIDE DEF k
<1>5. /\ mem' \in Memory /\ Layout(mem', Blocks) /\ NextIn(mem', cur) = adr
      /\ \A b \in Blocks : SizeIn(mem', b) = SizeIn(k, b)
      /\ \A b \in Blocks \ {cur} : NextIn(mem', b) = NextIn(k, b)
  BY <1>1, <1>3, <1>4, LayoutSetNext
<1>6. Blocks' = Blocks /\ Moving' = {} /\ Held' = Held
  BY <1>1, <1>2 DEF Blocks, Held, Moving
<1>7. FreeListOrdered'
  <2>1. NextIn(mem', adr) = nxt
    BY <1>2, <1>4, <1>5
  <2>2. \A b \in free \ {cur} : NextIn(mem', b) = NextIn(mem, b)
    BY <1>2, <1>3, <1>4, <1>5
  <2>3. ListOf(mem', head', free \cup {adr})
    BY <1>1, <1>2, <1>3, <1>5, <2>1, <2>2, ListInsert
  <2> QED
    BY <1>1, <2>3 DEF FreeListOrdered
<1>8. TypeOK'
  BY <1>1, <1>3, <1>5 DEF IInv, TypeOK, Memory
<1>9. Owners'
  <2>1. HeadersKept'
    BY <1>1, <1>4, <1>5, Facts DEF IInv, Owners, HeadersKept
  <2> QED
    BY <1>1, <1>2, <1>6, <2>1 DEF Owners
<1>10. CoalescePlace'
  <2>1. \A b \in free \cup {adr} : ~ (b < head)
    BY <1>2, <1>3, Facts, EolNotFree, WordRange
  <2>2. head \in free
    BY <1>2, <1>3, HeadSmallest
  <2> QED
    BY <1>1, <2>1, <2>2 DEF CoalescePlace
<1> QED
  BY <1>1, <1>5, <1>6, <1>7, <1>8, <1>9, <1>10
     DEF IInv, ScanPlace, BrowseFinds, ApartUntilFreed

LEMMA MergeIInv ==
  ASSUME IInv, Merge
  PROVE  IInv'
<1> DEFINE nxt == NextIn(mem, cur)
<1>1. /\ pc = "coalesce" /\ cur # EOL /\ nxt = cur + SizeIn(mem, cur) + 2
      /\ mem' = Absorb(mem, cur, nxt)
      /\ free' = free \ {nxt} /\ cur' = head
      /\ UNCHANGED <<pc, head, size, adr, prv, live>>
  BY DEF Merge, Joined
<1>2. cur \in free
  BY <1>1 DEF IInv, CoalescePlace
<1>3. /\ mem \in Memory /\ Layout(mem, Blocks) /\ free \in SUBSET HEAP
      /\ head \in Word /\ head \in free \cup {EOL} /\ ListOf(mem, head, free)
      /\ free \subseteq Blocks /\ cur \in Blocks
      /\ free \cap Held = {} /\ Moving = {}
  BY <1>1, <1>2, Facts DEF IInv, FreeListOrdered, Owners, Moving
<1>4. nxt \in free /\ cur < nxt /\ nxt \in Blocks /\ nxt \in Int
  <2>1. nxt # EOL
    BY <1>1, <1>3, LayoutBlock, HeapBounds
  <2> QED
    BY <1>2, <1>3, <2>1, NextBlock
<1>5. /\ mem' \in Memory /\ Layout(mem', Blocks \ {nxt})
      /\ NextIn(mem', cur) = NextIn(mem, nxt)
      /\ \A b \in Blocks \ {cur} : SameBlock(mem, mem', b)
  BY <1>1, <1>3, <1>4, AbsorbLayout
<1>6. Blocks' = Blocks \ {nxt} /\ Moving' = {} /\ Held' = Held
  BY <1>1, <1>3, <1>4 DEF Blocks, Held, Moving
<1>7. FreeListOrdered'
  <2>1. NextIn(mem, nxt) \in Word
    BY <1>4, NextBlock
  <2>2. \A b \in free \ {nxt, cur} : NextIn(mem', b) = NextIn(mem, b)
    BY <1>3, <1>5 DEF SameBlock
  <2>3. ListOf(mem', head', free \ {nxt})
    BY <1>1, <1>2, <1>3, <1>4, <1>5, <2>1, <2>2, ListRemove
  <2> QED
    BY <1>1, <2>3 DEF FreeListOrdered
<1>8. TypeOK'
  BY <1>1, <1>3, <1>5 DEF IInv, TypeOK, Memory
<1>9. Owners'
  <2>1. ASSUME NEW b \in live PROVE SizeIn(mem', b.ptr - 2) = b.size
    BY <1>2, <1>5, Facts DEF SameBlock
  <2>2. HeadersKept'
    BY <1>1, <2>1 DEF IInv, Owners, HeadersKept
  <2> QED
    BY <1>1, <1>3, <1>6, <2>2 DEF Owners
<1>10. CoalescePlace'
  <2>1. \A b \in free : ~ (b < head)
    BY <1>3, Facts, EolNotFree, WordRange
  <2>2. head \in free /\ head # nxt
    BY <1>2, <1>3, <1>4, <2>1, HeadSmallest
  <2> QED
    BY <1>1, <2>1, <2>2 DEF CoalescePlace
<1> QED
  BY <1>1, <1>5, <1>6, <1>7, <1>8, <1>9, <1>10
     DEF IInv, ScanPlace, BrowseFinds, ApartUntilFreed

(* What the program writes into its block leaves every header, and the     *)
(* link of every free block, as it was.                                    *)
LEMMA StoreIInv ==
  ASSUME IInv, NEW b \in live, NEW bytes \in [Payload(b) -> UserBytes], Store(b, bytes)
  PROVE  IInv'
<1> DEFINE o == b.ptr - 2
<1>1. /\ pc = "idle"
      /\ mem' = [a \in HEAP |-> IF a \in Payload(b) THEN bytes[a] ELSE mem[a]]
      /\ UNCHANGED <<pc, head, size, adr, prv, cur, live, free>>
  BY Facts DEF Store, Memory
<1>2. /\ mem \in Memory /\ Layout(mem, Blocks) /\ o \in Blocks /\ o \notin free
      /\ free \subseteq Blocks /\ SizeIn(mem, o) = b.size
  BY Facts DEF IInv
<1>3. mem' \in Memory
  BY <1>1, <1>2, ProgramAssumption DEF Memory
<1>4. /\ o \in Int /\ BlockAt(o) /\ b.size \in Int /\ b.size >= 2
      /\ o + 2 + b.size <= MEMEND /\ b.ptr = o + 2
  BY <1>2, LayoutBlock, Facts, WordRange
<1>5. \A x \in HEAP : (x < o + 2 \/ o + 2 + b.size <= x) => mem'[x] = mem[x]
  BY <1>1, <1>4, HeapBounds DEF Payload
<1> HIDE DEF o
<1>6. ASSUME NEW c \in Blocks
      PROVE  SizeIn(mem', c) = SizeIn(mem, c) /\ (c # o => NextIn(mem', c) = NextIn(mem, c))
  <2>1. /\ BlockAt(c) /\ c \in Int /\ c \in HEAP
        /\ c + 1 \in HEAP /\ c + 2 \in HEAP /\ c + 3 \in HEAP
        /\ SizeIn(mem, c) \in Int /\ SizeIn(mem, c) >= 2
    BY <1>2, LayoutBlock, HeapBounds DEF BlockAt
  <2>2. c < o => c + 4 <= o
    BY <1>2, <1>4, <2>1, LayoutClear DEF Clear
  <2>3. o < c => o + 2 + b.size <= c
    BY <1>2 DEF Layout
  <2>4. mem'[c] = mem[c] /\ mem'[c + 1] = mem[c + 1]
    BY <1>4, <1>5, <2>1, <2>2, <2>3
  <2>5. c # o => mem'[c + 2] = mem[c + 2] /\ mem'[c + 3] = mem[c + 3]
    BY <1>4, <1>5, <2>1, <2>2, <2>3
  <2>6. c + 2 + 1 = c + 3
    BY <2>1
  <2> QED
    BY <2>1, <2>4, <2>5, <2>6, Fields DEF PEEK
<1>7. Blocks' = Blocks /\ Held' = Held /\ Moving' = {}
  BY <1>1 DEF Blocks, Held, Moving
<1>8. Layout(mem, Blocks)'
  BY <1>2, <1>6, <1>7, LayoutSameSizes
<1>9. TypeOK'
  BY <1>1, <1>3 DEF IInv, TypeOK, Memory
<1>10. FreeListOrdered' /\ ApartUntilFreed'
  BY <1>1, <1>2, <1>6 DEF IInv, FreeListOrdered, ListOf, ApartUntilFreed, Apart
<1>11. Owners'
  <2>1. HeadersKept'
    BY <1>1, <1>6, Facts DEF IInv, Owners, HeadersKept
  <2> QED
    BY <1>1, <1>7, <2>1 DEF IInv, Owners
<1> QED
  BY <1>1, <1>8, <1>9, <1>10, <1>11
     DEF IInv, ScanPlace, BrowseFinds, CoalescePlace

-----------------------------------------------------------------------------
LEMMA NextIInv ==
  ASSUME Granular, IInv, [Next]_vars
  PROVE  IInv'
<1>1. ASSUME NEW n \in Sizes, AllocCall(n) PROVE IInv'
  BY <1>1, AllocCallIInv
<1>2. CASE Alloc
  BY <1>2, AllocTakeIInv, AllocSplitIInv, AllocNextIInv, AllocFailIInv DEF Alloc
<1>3. ASSUME NEW b \in live, FreeCall(b) PROVE IInv'
  BY <1>3, FreeCallIInv
<1>4. CASE Free
  BY <1>4, BrowseNextIInv, FreeInsertIInv, MergeIInv, MergeNextIInv, FreeReturnIInv
     DEF Free
<1>5. ASSUME NEW b \in live, NEW bytes \in [Payload(b) -> UserBytes], Store(b, bytes)
      PROVE  IInv'
  BY <1>5, StoreIInv
<1>6. CASE UNCHANGED vars
  BY <1>6, StutterIInv
<1> QED
  BY <1>1, <1>2, <1>3, <1>4, <1>5, <1>6 DEF Next

(* The inductive invariant holds for every heap and every program that     *)
(* keeps to sizes of 2 modulo 4.                                           *)
THEOREM Invariance ==
  ASSUME Granular
  PROVE  Spec => []IInv
<1>1. Init => IInv
  BY InitIInv
<1>2. IInv /\ [Next]_vars => IInv'
  BY NextIInv
<1> QED
  BY <1>1, <1>2, PTL DEF Spec

(* Type correctness: addresses stay 16 bits wide, memory holds bytes.      *)
THEOREM TypeCorrect ==
  ASSUME Granular
  PROVE  Spec => []TypeOK
<1>1. IInv => TypeOK
  BY DEF IInv
<1> QED
  BY <1>1, Invariance, PTL

(* No byte of the heap is lost and none is in two blocks, at every step of *)
(* mem_alloc and mem_free: what the program gets never overlaps what it    *)
(* already holds, nor the allocator's own list.                            *)
THEOREM NoLeakNoOverlap ==
  ASSUME Granular
  PROVE  Spec => []Tiled
<1>1. IInv => Tiled
  BY Facts, LayoutTiles DEF IInv, Tiled
<1> QED
  BY <1>1, Invariance, PTL

(* The free list of mem_alloc and mem_free stays sorted by address, and    *)
(* holds every free block once.                                            *)
THEOREM ListStaysOrdered ==
  ASSUME Granular
  PROVE  Spec => []FreeListOrdered
<1>1. IInv => FreeListOrdered
  BY DEF IInv
<1> QED
  BY <1>1, Invariance, PTL

(* mem_free joins every pair of free neighbours before it returns.         *)
THEOREM FreeSpaceJoined ==
  ASSUME Granular
  PROVE  Spec => []Coalesced
<1>1. IInv => Coalesced
  BY DEF IInv, ApartUntilFreed, Coalesced
<1> QED
  BY <1>1, Invariance, PTL

(* The header of a block the program holds is never written by another     *)
(* call, and no block is given twice.                                      *)
THEOREM HeadersSafe ==
  ASSUME Granular
  PROVE  Spec => []HeadersKept
<1>1. IInv => HeadersKept
  BY DEF IInv, Owners
<1> QED
  BY <1>1, Invariance, PTL

(* The search of mem_free for its place in the list always breaks before   *)
(* the end of the list, so nxt is never used unset.                        *)
THEOREM BrowseAlwaysFinds ==
  ASSUME Granular
  PROVE  Spec => []BrowseFinds
<1>1. IInv => BrowseFinds
  BY DEF IInv
<1> QED
  BY <1>1, Invariance, PTL
-----------------------------------------------------------------------------
(* Malloc implements Heap.                                                 *)

(* The size of a request is gone when the call that made it returns.       *)
NoSizeLeft == pc # "scan" => size = 0

Shown == UNION { Payload(b) : b \in live }

LEMMA PayloadRange ==
  ASSUME IInv, NEW b \in live
  PROVE  /\ b.ptr - 2 \in Int /\ b.size \in Int /\ b.size >= 2
         /\ b.ptr = (b.ptr - 2) + 2 /\ MEMSTART <= b.ptr - 2
         /\ b.ptr + b.size <= MEMEND
         /\ \A x : x \in Payload(b) <=> x \in Int /\ b.ptr <= x /\ x < b.ptr + b.size
         /\ Payload(b) \subseteq HEAP
<1>1. /\ b.ptr \in Int /\ b.size \in Int /\ b.ptr - 2 \in Blocks
      /\ SizeIn(mem, b.ptr - 2) = b.size
  BY Facts, WordRange
<1>2. /\ MEMSTART <= b.ptr - 2 /\ b.size >= 2
      /\ b.ptr - 2 + 2 + b.size <= MEMEND
  BY <1>1, Facts, LayoutBlock DEF IInv, BlockAt
<1>3. \A x : x \in Payload(b) <=> x \in Int /\ b.ptr <= x /\ x < b.ptr + b.size
  BY <1>1 DEF Payload
<1>4. Payload(b) \subseteq HEAP
  BY <1>1, <1>2, <1>3, HeapBounds
<1> QED
  BY <1>1, <1>2, <1>3, <1>4, HeapBounds

LEMMA ShownInHeap ==
  ASSUME IInv
  PROVE  Shown \subseteq HEAP
BY PayloadRange DEF Shown

(* The bytes the program sees lie outside every block but their own.       *)
LEMMA PayloadOutside ==
  ASSUME IInv, NEW b \in live, NEW c \in Blocks, c # b.ptr - 2,
         NEW x \in Payload(b)
  PROVE  x \in HEAP /\ x \in Int /\ (x < c \/ c + 2 + SizeIn(mem, c) <= x)
<1>1. /\ c \in Int /\ SizeIn(mem, c) \in Int
      /\ b.ptr - 2 \in Blocks /\ SizeIn(mem, b.ptr - 2) = b.size
  BY Facts, LayoutBlock DEF IInv
<1>2. x \in HEAP /\ x \in Int /\ b.ptr <= x /\ x < b.ptr + b.size
  BY PayloadRange
<1>3. b.ptr - 2 \in Int /\ b.size \in Int /\ b.ptr = (b.ptr - 2) + 2
  BY PayloadRange
<1>4. c < b.ptr - 2 => c + 2 + SizeIn(mem, c) <= b.ptr - 2
  BY <1>1 DEF IInv, Layout
<1>5. b.ptr - 2 < c => b.ptr - 2 + 2 + b.size <= c
  BY <1>1 DEF IInv, Layout
<1> QED
  BY <1>1, <1>2, <1>3, <1>4, <1>5

LEMMA KeptOutside ==
  ASSUME IInv, NEW b \in live, NEW c \in Blocks, c # b.ptr - 2,
         NEW k, KeepsAllBut(mem, k, c), NEW x \in Payload(b)
  PROVE  k[x] = mem[x]
<1>1. SizeIn(mem, c) \in Int /\ SizeIn(mem, c) >= 2 /\ c \in Int
  BY Facts, LayoutBlock DEF IInv
<1>2. x \in HEAP /\ x \in Int /\ (x < c \/ c + 2 + SizeIn(mem, c) <= x)
  BY PayloadOutside
<1>3. x < c \/ c + 4 <= x
  BY <1>1, <1>2
<1> QED
  BY <1>2, <1>3 DEF KeepsAllBut

(* A step inside a call, which the program does not see.                   *)
LEMMA HiddenStep ==
  ASSUME IInv, UNCHANGED <<size, live>>, CallShown' = CallShown,
         \A b \in live : \A x \in Payload(b) : mem'[x] = mem[x]
  PROVE  UNCHANGED Abstract!vars
<1>1. \A x \in Shown : mem'[x] = mem[x]
  BY DEF Shown
<1>2. Shown' = Shown
  BY DEF Shown
<1>3. Contents' = Contents
  BY <1>1, <1>2 DEF Contents, Shown
<1> QED
  BY <1>3 DEF Abstract!vars
LEMMA HeldExtent ==
  ASSUME IInv, NEW b \in live
  PROVE  /\ Abstract!Extent(b) \subseteq HEAP
         /\ \A x : x \in Abstract!Extent(b) <=>
                     x \in Int /\ b.ptr - 2 <= x /\ x < b.ptr + b.size
<1>1. /\ b.ptr - 2 \in Int /\ b.size \in Int /\ b.ptr = (b.ptr - 2) + 2
      /\ MEMSTART <= b.ptr - 2 /\ b.ptr + b.size <= MEMEND
  BY PayloadRange
<1>2. \A x : x \in Abstract!Extent(b) <=>
               x \in Int /\ b.ptr - 2 <= x /\ x < b.ptr + b.size
  BY <1>1 DEF Abstract!Extent
<1> QED
  BY <1>1, <1>2, HeapBounds

LEMMA InitShown ==
  ASSUME Init
  PROVE  Abstract!Init
<1>1. CallShown = "none" /\ size = 0 /\ live = {}
  BY DEF Init, CallShown
<1>2. UNION { Payload(b) : b \in live } = {}
  BY <1>1
<1>3. Contents = [a \in {} |-> 0]
  BY <1>2 DEF Contents
<1> QED
  BY <1>1, <1>3 DEF Abstract!Init

LEMMA AllocCallShown ==
  ASSUME IInv, NEW n \in Sizes, AllocCall(n)
  PROVE  Abstract!Next
<1>1. /\ pc = "idle" /\ pc' = "scan" /\ size' = n /\ live' = live /\ mem' = mem
  BY DEF AllocCall
<1>2. CallShown = "none" /\ CallShown' = "alloc"
  BY <1>1 DEF CallShown
<1>3. Contents' = Contents
  BY <1>1 DEF Contents
<1>4. Abstract!Alloc(n)
  BY <1>1, <1>2, <1>3 DEF Abstract!Alloc
<1> QED
  BY <1>4 DEF Abstract!Next

(* What a step that gives block o to the program has to keep.              *)
LEMMA GrantShown ==
  ASSUME IInv, pc = "scan", pc' = "idle", size' = 0, NEW o \in free,
         size \in Sizes, size <= SizeIn(mem, o),
         live' = live \cup {[ptr |-> o + NEXT, size |-> size]}, mem' \in Memory,
         \A b \in live : \A x \in Payload(b) : mem'[x] = mem[x]
  PROVE  Abstract!Next
<1> DEFINE new == [ptr |-> o + NEXT, size |-> size]
<1>1. /\ o \in Int /\ BlockAt(o) /\ o + NEXT = o + 2 /\ o \in Blocks /\ size \in Int
      /\ SizeIn(mem, o) \in Int /\ o + 2 + SizeIn(mem, o) <= MEMEND
      /\ MEMSTART <= o
  BY Facts, LayoutBlock, WordRange DEF IInv, NEXT, BlockAt
<1>2. new.ptr = o + 2 /\ new.size = size /\ live' = live \cup {new} /\ new.ptr \in HEAP
  BY <1>1, HeapBounds DEF BlockAt
<1> HIDE DEF new
<1>3. CallShown = "alloc" /\ CallShown' = "none"
  BY DEF CallShown
<1>4. /\ \A x : x \in Abstract!Extent(new) <=> x \in Int /\ o <= x /\ x < o + 2 + size
      /\ Abstract!Extent(new) \subseteq HEAP
  <2>1. (new.ptr - 2) = o /\ (new.ptr + new.size - 1) = o + 1 + size
    BY <1>1, <1>2
  <2>2. \A x : x \in Abstract!Extent(new) <=> x \in Int /\ o <= x /\ x < o + 2 + size
    BY <1>1, <2>1 DEF Abstract!Extent
  <2> QED
    BY <1>1, <2>2, HeapBounds
<1>5. \A x \in Payload(new) : x \in HEAP
  BY <1>1, <1>2, HeapBounds DEF Payload
<1>6. Abstract!Extent(new) \cap Abstract!Taken(live) = {}
  <2> SUFFICES ASSUME NEW x \in Abstract!Extent(new), NEW b \in live,
                      x \in Abstract!Extent(b)
               PROVE  FALSE
    BY DEF Abstract!Taken
  <2>1. /\ b.ptr - 2 \in Blocks /\ b.ptr - 2 # o /\ b.ptr - 2 \in Int /\ b.size \in Int
        /\ SizeIn(mem, b.ptr - 2) = b.size /\ b.ptr = (b.ptr - 2) + 2
    BY Facts, PayloadRange
  <2>2. x \in Int /\ b.ptr - 2 <= x /\ x < b.ptr + b.size
    BY HeldExtent
  <2>3. b.ptr - 2 < o => b.ptr - 2 + 2 + b.size <= o
    BY <1>1, <2>1 DEF IInv, Layout
  <2>4. o < b.ptr - 2 => o + 2 + SizeIn(mem, o) <= b.ptr - 2
    BY <1>1, <2>1 DEF IInv, Layout
  <2>5. o <= x /\ x < o + 2 + size
    BY <1>4
  <2> QED
    BY <1>1, <2>1, <2>2, <2>3, <2>4, <2>5
<1>7. Shown' \subseteq HEAP /\ Shown \subseteq Shown'
  BY <1>2, <1>5, ShownInHeap DEF Shown
<1>8. Contents' \in [Abstract!Owned(live') -> Abstract!Bytes]
  <2>1. \A x \in Shown' : mem'[x] \in Byte
    BY <1>7 DEF Memory
  <2> QED
    BY <2>1 DEF Contents, Shown, Abstract!Owned, Abstract!Payload, Payload, Byte, Abstract!Bytes
<1>9. \A x \in Abstract!Owned(live) : Contents'[x] = Contents[x]
  <2>1. \A x \in Shown : mem'[x] = mem[x]
    BY DEF Shown
  <2>2. Abstract!Owned(live) = Shown
    BY DEF Abstract!Owned, Abstract!Payload, Payload, Shown
  <2>3. \A x \in Shown : Contents'[x] = mem'[x] /\ Contents[x] = mem[x]
    BY <1>7 DEF Contents, Shown
  <2> QED
    BY <2>1, <2>2, <2>3
<1>10. Abstract!Grant(new)
  <2>1. Abstract!HEAP = HEAP
    BY DEF Abstract!HEAP, HEAP
  <2> QED
    BY <1>2, <1>3, <1>4, <1>6, <1>8, <1>9, <2>1 DEF Abstract!Grant
<1>11. new = [ptr |-> o + 2, size |-> size] /\ o + 2 \in Abstract!HEAP
  BY <1>1, <1>2 DEF new, Abstract!HEAP, HEAP
<1> QED
  BY <1>10, <1>11 DEF Abstract!Next

LEMMA AllocTakeShown ==
  ASSUME IInv, AllocTake
  PROVE  Abstract!Next
<1> DEFINE nxt == NextIn(mem, adr)
<1>1. /\ pc = "scan" /\ adr # EOL /\ SizeIn(mem, adr) = size
      /\ IF adr = head
         THEN mem' = mem
         ELSE mem' = POKE(mem, prv + NEXT, nxt)
      /\ live' = live \cup {[ptr |-> adr + NEXT, size |-> size]}
      /\ pc' = "idle" /\ size' = 0
  BY DEF AllocTake, Unlink, Return
<1>2. /\ adr \in free /\ size \in Sizes
      /\ adr = head \/ prv \in free
  BY <1>1 DEF IInv, ScanPlace
<1>3. mem \in Memory /\ nxt \in Word /\ size <= SizeIn(mem, adr) /\ size \in Int
  BY <1>1, <1>2, Facts, NextBlock, WordRange
<1>4. mem' \in Memory /\ \A b \in live : \A x \in Payload(b) : mem'[x] = mem[x]
  <2>1. CASE adr = head
    BY <1>1, <1>3, <2>1
  <2>2. CASE adr # head
    <3>1. prv \in Blocks /\ BlockAt(prv) /\ mem' = POKE(mem, prv + NEXT, nxt)
      BY <1>1, <1>2, <2>2, Facts, LayoutBlock DEF IInv
    <3>2. KeepsAllBut(mem, mem', prv)
      BY <1>3, <3>1, FieldStore
    <3>3. \A b \in live : prv # b.ptr - 2
      BY <1>2, <2>2, Facts
    <3> QED
      BY <3>1, <3>2, <3>3, KeptOutside DEF KeepsAllBut
  <2> QED
    BY <2>1, <2>2
<1> QED
  BY <1>1, <1>2, <1>3, <1>4, GrantShown
LEMMA AllocSplitShown ==
  ASSUME Granular, IInv, AllocSplit
  PROVE  Abstract!Next
<1> DEFINE r == adr + 2 + size
           k == SplitAt(mem, adr, r, size)
<1>1. /\ pc = "scan" /\ adr # EOL /\ SizeIn(mem, adr) > size
      /\ Unlink(SplitAt(mem, adr, Rest, size))
      /\ live' = live \cup {[ptr |-> adr + NEXT, size |-> size]}
      /\ pc' = "idle" /\ size' = 0
  BY DEF AllocSplit, Return
<1>2. /\ adr \in free /\ size \in Sizes
      /\ adr = head \/ prv \in free
  BY <1>1 DEF IInv, ScanPlace
<1>3. /\ mem \in Memory /\ Layout(mem, Blocks) /\ adr \in Blocks
      /\ size \in Word /\ size % 4 = 2 /\ size \in Int /\ 0 <= size
  BY <1>2, Facts, WordRange DEF IInv, Granular
<1>4. /\ adr \in Int /\ 0 <= adr /\ BlockAt(adr) /\ SizeIn(mem, adr) \in Int
      /\ SizeIn(mem, adr) % 4 = 2 /\ adr + 2 + SizeIn(mem, adr) <= MEMEND
      /\ adr < MEMEND
  BY <1>3, LayoutBlock, WordRange
<1>5. Rest = r
  <2>1. r \in Int /\ 0 <= r /\ r <= EOL
    BY <1>1, <1>3, <1>4, HeapBounds
  <2> QED
    BY <2>1, W16Range DEF Rest
<1>6. /\ k \in Memory /\ r \in HEAP /\ r \in Word /\ BlockAt(r)
      /\ NextIn(k, adr) = r
  <2>1. k \in Memory /\ r \in HEAP /\ NextIn(k, adr) = r /\ Layout(k, Blocks \cup {r})
    BY <1>1, <1>3, SplitLayout
  <2>2. r \in Blocks \cup {r}
    OBVIOUS
  <2>3. BlockAt(r)
    BY <2>1, <2>2 DEF Layout
  <2> QED
    BY <2>1, <2>3, WordRange
<1>7. ASSUME NEW b \in live, NEW x \in Payload(b)
      PROVE  k[x] = mem[x] /\ x \in HEAP
  <2>1. x \in HEAP /\ x \in Int /\ (x < adr \/ adr + 2 + SizeIn(mem, adr) <= x)
    BY <1>2, <1>3, Facts, PayloadOutside
  <2>2. size + 4 <= SizeIn(mem, adr)
    BY <1>1, <1>3, <1>4
  <2>3. (x < adr \/ adr + 4 <= x) /\ (x < r \/ r + 4 <= x)
    BY <1>3, <1>4, <2>1, <2>2
  <2> QED
    BY <1>3, <1>4, <1>6, <2>1, <2>3, SplitStores
<1>8. /\ adr = head => mem' = k
      /\ adr # head => mem' = POKE(k, prv + NEXT, r)
  BY <1>1, <1>5, <1>6 DEF Unlink
<1> HIDE DEF k, r
<1>9. mem' \in Memory /\ \A b \in live : \A x \in Payload(b) : mem'[x] = mem[x]
  <2>1. CASE adr = head
    BY <1>6, <1>7, <1>8, <2>1
  <2>2. CASE adr # head
    <3>1. prv \in Blocks /\ BlockAt(prv)
      BY <1>2, <2>2, Facts, LayoutBlock DEF IInv
    <3>2. KeepsAllBut(k, mem', prv)
      BY <1>6, <1>8, <2>2, <3>1, FieldStore
    <3>3. ASSUME NEW b \in live, NEW x \in Payload(b)
          PROVE  mem'[x] = k[x]
      <4>1. prv # b.ptr - 2 /\ prv \in Int /\ SizeIn(mem, prv) \in Int /\ SizeIn(mem, prv) >= 2
        BY <1>2, <2>2, <3>1, Facts, LayoutBlock DEF IInv
      <4>2. x \in Int /\ (x < prv \/ prv + 2 + SizeIn(mem, prv) <= x)
        BY <3>1, <4>1, PayloadOutside
      <4>3. x < prv \/ prv + 4 <= x
        BY <4>1, <4>2
      <4> QED
        BY <1>7, <3>2, <4>3 DEF KeepsAllBut
    <3> QED
      BY <1>7, <3>2, <3>3 DEF KeepsAllBut
  <2> QED
    BY <2>1, <2>2
<1>10. size <= SizeIn(mem, adr)
  BY <1>1, <1>3, <1>4
<1> QED
  BY <1>1, <1>2, <1>9, <1>10, GrantShown

(* When the scan reaches the end of the list, a hole for the request would *)
(* have to start inside a free block, all of which are too small, and to   *)
(* go on into the next block, which no free block has next to it.          *)
LEMMA AllocFailShown ==
  ASSUME IInv, AllocFail
  PROVE  Abstract!Next
<1>1. /\ pc = "scan" /\ adr = EOL /\ pc' = "idle" /\ size' = 0
      /\ UNCHANGED <<mem, live>>
  BY DEF AllocFail, Return
<1>2. /\ Moving = {} /\ Blocks = free \cup Held /\ Layout(mem, Blocks)
      /\ mem \in Memory /\ Apart(mem, free) /\ size \in Int
  BY <1>1, Facts, WordRange DEF IInv, Moving, Blocks, ApartUntilFreed
<1>3. \A a \in free : SizeIn(mem, a) < size
  BY <1>1, Facts, EolNotFree DEF IInv, ScanPlace
<1>4. Abstract!HEAP = HEAP
  BY DEF Abstract!HEAP, HEAP
<1>5. ASSUME NEW a \in HEAP, a + size + 1 \in HEAP,
             \A x \in a .. a + size + 1 : x \notin Abstract!Taken(live)
      PROVE  FALSE
  <2>1. ASSUME NEW b \in live, NEW x \in Abstract!Extent(b), x \in Int,
               a <= x, x <= a + size + 1
        PROVE  FALSE
    <3>1. x \in Abstract!Taken(live)
      BY <2>1 DEF Abstract!Taken
    <3>2. a \in Int
      BY HeapBounds
    <3> QED
      BY <1>2, <1>5, <2>1, <3>1, <3>2
  <2>2. PICK c \in Blocks : a <= c + 1 + SizeIn(mem, c) /\ c <= a
    <3>1. PICK c \in Blocks : c <= a /\ a < c + 2 + SizeIn(mem, c)
      BY <1>2 DEF Layout
    <3>2. c \in Int /\ SizeIn(mem, c) \in Int /\ a \in Int
      BY <1>2, LayoutBlock, HeapBounds
    <3> QED
      BY <3>1, <3>2
  <2>3. c \in Int /\ SizeIn(mem, c) \in Int /\ SizeIn(mem, c) >= 2 /\ a \in Int
    BY <1>2, LayoutBlock, HeapBounds
  <2>4. ASSUME NEW d \in Held
        PROVE  d \in Int /\ ~ (\E x \in Int : /\ d <= x /\ x < d + 2 + SizeIn(mem, d)
                                              /\ a <= x /\ x <= a + size + 1)
    <3>1. PICK b \in live : d = b.ptr - 2
      BY DEF Held
    <3>2. /\ SizeIn(mem, d) = b.size /\ b.ptr = d + 2 /\ d \in Int /\ b.size \in Int
      BY <3>1, Facts, PayloadRange
    <3>3. \A x : x \in Abstract!Extent(b) <=> x \in Int /\ d <= x /\ x < d + 2 + b.size
      BY <3>1, <3>2, HeldExtent
    <3> QED
      BY <2>1, <3>2, <3>3
  <2>5. a <= a + size + 1
    <3>1. size \in Word
      BY Facts
    <3> QED
      BY <2>3, <3>1, WordRange
  <2>6. c \in free
    <3>1. CASE c \in Held
      BY <2>2, <2>3, <2>4, <2>5, <3>1
    <3> QED
      BY <1>2, <3>1
  <2> DEFINE e == c + 2 + SizeIn(mem, c)
  <2>7. e \in Int /\ a < e /\ e <= a + size + 1 /\ e \in HEAP /\ e \notin free
    <3>1. SizeIn(mem, c) < size
      BY <1>3, <2>6
    <3>2. e \in Int /\ a < e /\ e <= a + size + 1
      BY <1>2, <2>2, <2>3, <3>1
    <3>3. e \in HEAP
      BY <1>2, <1>5, <2>3, <3>2, HeapBounds
    <3> QED
      BY <1>2, <2>6, <3>2, <3>3 DEF Apart
  <2>8. PICK d \in Blocks : d <= e /\ e < d + 2 + SizeIn(mem, d)
    BY <1>2, <2>7 DEF Layout
  <2>9. d \in Int /\ SizeIn(mem, d) \in Int
    BY <1>2, LayoutBlock
  <2>10. d # c /\ (d < c => d + 2 + SizeIn(mem, d) <= c) /\ (c < d => e <= d)
    BY <1>2, <2>3, <2>8, <2>9 DEF Layout
  <2>11. d = e
    BY <2>3, <2>7, <2>8, <2>9, <2>10
  <2>12. d \in Held
    BY <1>2, <2>7, <2>8, <2>11
  <2>13. a <= d /\ d <= a + size + 1 /\ d < d + 2 + SizeIn(mem, d)
    BY <2>3, <2>7, <2>8, <2>9, <2>11
  <2> QED
    BY <2>4, <2>9, <2>12, <2>13
<1>6. Abstract!NoRoom(live, size)
  <2> SUFFICES ASSUME NEW a \in HEAP, a + size + 1 \in HEAP
               PROVE  Abstract!Taken(live) \cap (a .. a + size + 1) # {}
    BY <1>4 DEF Abstract!NoRoom
  <2> QED
    BY <1>5
<1>7. CallShown = "alloc" /\ CallShown' = "none" /\ Contents' = Contents
  BY <1>1 DEF CallShown, Contents
<1> QED
  BY <1>1, <1>6, <1>7 DEF Abstract!Refuse, Abstract!Next

LEMMA FreeCallShown ==
  ASSUME IInv, NEW b \in live, FreeCall(b)
  PROVE  Abstract!Next
<1> DEFINE a == b.ptr - 2
<1>1. /\ pc = "idle" /\ live' = live \ {b} /\ size' = size
      /\ \/ mem' = POKE(mem, a + NEXT, head) /\ pc' = "coalesce"
         \/ mem' = mem /\ pc' = "browse"
  BY DEF FreeCall
<1>2. CallShown = "none" /\ CallShown' = "free"
  BY <1>1 DEF CallShown
<1>3. a \in Blocks /\ BlockAt(a) /\ mem \in Memory /\ head \in Word
  BY Facts, LayoutBlock DEF IInv
<1>4. ASSUME NEW c \in live', NEW x \in Payload(c)
      PROVE  mem'[x] = mem[x]
  <2>1. c \in live /\ a # c.ptr - 2
    <3>1. c \in live /\ c.ptr # b.ptr
      BY <1>1 DEF IInv, Owners, HeadersKept
    <3> QED
      BY <3>1, Facts, WordRange
  <2>2. CASE mem' = POKE(mem, a + NEXT, head)
    <3>1. KeepsAllBut(mem, mem', a)
      BY <1>3, <2>2, FieldStore
    <3> QED
      BY <1>3, <2>1, <3>1, KeptOutside
  <2> QED
    BY <1>1, <2>2
<1>5. Contents' = [x \in Abstract!Owned(live') |-> Contents[x]]
  <2>1. Shown' \subseteq Shown /\ \A x \in Shown' : mem'[x] = mem[x]
    BY <1>1, <1>4 DEF Shown
  <2>2. \A x \in Shown' : mem'[x] = Contents[x]
    BY <2>1 DEF Shown, Contents
  <2>3. Abstract!Owned(live') = Shown'
    BY DEF Abstract!Owned, Abstract!Payload, Payload, Shown
  <2>4. Contents' = [x \in Shown' |-> mem'[x]]
    BY DEF Contents, Shown
  <2> QED
    BY <2>2, <2>3, <2>4
<1>6. Abstract!Free(b)
  BY <1>1, <1>2, <1>5 DEF Abstract!Free
<1> QED
  BY <1>6 DEF Abstract!Next

LEMMA FreeReturnShown ==
  ASSUME IInv, NoSizeLeft, FreeReturn
  PROVE  Abstract!Next
<1>1. pc = "coalesce" /\ pc' = "idle" /\ size' = 0 /\ UNCHANGED <<mem, live>>
  BY DEF FreeReturn, Return
<1>2. CallShown = "free" /\ CallShown' = "none" /\ Contents' = Contents
  BY <1>1 DEF CallShown, Contents<1> QED
  BY <1>1, <1>2 DEF NoSizeLeft, Abstract!Freed, Abstract!Next, Abstract!Taken

(* The steps of the loops that the program does not see.                   *)
LEMMA WalkShown ==
  ASSUME IInv, AllocNext \/ BrowseNext \/ MergeNext
  PROVE  UNCHANGED Abstract!vars
<1>1. UNCHANGED <<pc, mem, size, live>>
  BY DEF AllocNext, BrowseNext, MergeNext
<1>2. CallShown' = CallShown
  BY <1>1 DEF CallShown
<1> QED
  BY <1>1, <1>2, HiddenStep

LEMMA FreeInsertShown ==
  ASSUME IInv, FreeInsert
  PROVE  UNCHANGED Abstract!vars
<1> DEFINE nxt == NextIn(mem, cur)
           k   == POKE(mem, adr + NEXT, nxt)
<1>1. /\ pc = "browse" /\ pc' = "coalesce" /\ UNCHANGED <<size, live>>
      /\ mem' = POKE(k, cur + NEXT, adr)
  BY DEF FreeInsert
<1>2. /\ cur \in free /\ adr \in Blocks /\ adr \notin Held
  BY <1>1 DEF IInv, BrowseFinds, Moving, Blocks, Owners
<1>3. /\ mem \in Memory /\ nxt \in Word /\ adr \in Word /\ cur \in Blocks
      /\ BlockAt(adr) /\ BlockAt(cur)
  BY <1>2, Facts, NextBlock, LayoutBlock DEF IInv
<1>4. KeepsAllBut(mem, k, adr)
  BY <1>3, FieldStore
<1>5. k \in Memory
  BY <1>4 DEF KeepsAllBut
<1> HIDE DEF k, nxt
<1>6. KeepsAllBut(k, mem', cur)
  BY <1>1, <1>3, <1>5, FieldStore
<1>7. ASSUME NEW b \in live, NEW x \in Payload(b)
      PROVE  mem'[x] = mem[x]
  <2>1. adr # b.ptr - 2 /\ cur # b.ptr - 2
    BY <1>2, Facts
  <2>2. k[x] = mem[x]
    BY <1>2, <1>4, <2>1, KeptOutside
  <2>3. x \in HEAP /\ x \in Int /\ (x < cur \/ cur + 2 + SizeIn(mem, cur) <= x)
    BY <1>3, <2>1, PayloadOutside
  <2>4. SizeIn(mem, cur) \in Int /\ SizeIn(mem, cur) >= 2 /\ cur \in Int
    BY <1>3, LayoutBlock DEF IInv
  <2>5. x < cur \/ cur + 4 <= x
    BY <2>3, <2>4
  <2> QED
    BY <1>6, <2>2, <2>3, <2>5 DEF KeepsAllBut
<1>8. CallShown' = CallShown
  BY <1>1 DEF CallShown
<1> QED
  BY <1>1, <1>7, <1>8, HiddenStep

LEMMA MergeShown ==
  ASSUME IInv, Merge
  PROVE  UNCHANGED Abstract!vars
<1> DEFINE nxt == NextIn(mem, cur)
<1>1. /\ pc = "coalesce" /\ cur # EOL /\ nxt = cur + SizeIn(mem, cur) + 2
      /\ mem' = Absorb(mem, cur, nxt) /\ UNCHANGED <<pc, size, live>>
  BY DEF Merge, Joined
<1>2. cur \in free /\ cur \in Blocks /\ mem \in Memory
  BY <1>1, Facts DEF IInv, CoalescePlace
<1>3. BlockAt(cur) /\ BlockAt(nxt)
  <2>1. nxt # EOL
    BY <1>1, <1>2, LayoutBlock, HeapBounds DEF IInv
  <2>2. nxt \in Blocks
    BY <1>2, <2>1, NextBlock, Facts
  <2> QED
    BY <1>2, <2>2, LayoutBlock DEF IInv
<1>4. KeepsAllBut(mem, mem', cur)
  BY <1>1, <1>2, <1>3, AbsorbStores
<1>5. ASSUME NEW b \in live, NEW x \in Payload(b)
      PROVE  mem'[x] = mem[x]
  <2>1. cur # b.ptr - 2
    BY <1>2, Facts
  <2> QED
    BY <1>2, <1>4, <2>1, KeptOutside
<1>6. CallShown' = CallShown
  BY <1>1 DEF CallShown
<1> QED
  BY <1>1, <1>5, <1>6, HiddenStep

LEMMA StoreShown ==
  ASSUME IInv, NEW b \in live, NEW bytes \in [Payload(b) -> UserBytes], Store(b, bytes)
  PROVE  Abstract!Next
<1>1. /\ pc = "idle" /\ UNCHANGED <<pc, size, live>> /\ mem \in Memory
      /\ mem' = [a \in HEAP |-> IF a \in Payload(b) THEN bytes[a] ELSE mem[a]]
  BY Facts DEF Store, Memory
<1>2. mem' \in Memory
  BY <1>1, ProgramAssumption DEF Memory
<1>3. CallShown = "none" /\ CallShown' = CallShown
  BY <1>1 DEF CallShown
<1>4. /\ Contents' = [x \in Shown |-> mem'[x]]
      /\ Contents  = [x \in Shown |-> mem[x]]
      /\ Abstract!Owned(live) = Shown /\ Abstract!Payload(b) = Payload(b)
      /\ Abstract!Bytes = Byte
  BY <1>1 DEF Contents, Shown, Abstract!Owned, Abstract!Payload, Payload, Byte,
              Abstract!Bytes
<1>5. Contents' \in [Abstract!Owned(live) -> Abstract!Bytes]
  BY <1>2, <1>4, ShownInHeap DEF Memory
<1>6. \A x \in Abstract!Owned(live) \ Abstract!Payload(b) : Contents'[x] = Contents[x]
  BY <1>1, <1>4, ShownInHeap
<1>7. Abstract!Store(b)
  BY <1>1, <1>3, <1>5, <1>6 DEF Abstract!Store
<1> QED
  BY <1>7 DEF Abstract!Next

LEMMA NextShown ==
  ASSUME Granular, IInv, NoSizeLeft, [Next]_vars
  PROVE  [Abstract!Next]_(Abstract!vars)
<1>1. ASSUME NEW n \in Sizes, AllocCall(n) PROVE Abstract!Next
  BY <1>1, AllocCallShown
<1>2. CASE Alloc
  BY <1>2, AllocTakeShown, AllocSplitShown, AllocFailShown, WalkShown DEF Alloc
<1>3. ASSUME NEW b \in live, FreeCall(b) PROVE Abstract!Next
  BY <1>3, FreeCallShown
<1>4. CASE Free
  BY <1>4, WalkShown, FreeInsertShown, MergeShown, FreeReturnShown DEF Free
<1>5. ASSUME NEW b \in live, NEW bytes \in [Payload(b) -> UserBytes], Store(b, bytes)
      PROVE  Abstract!Next
  BY <1>5, StoreShown
<1>6. CASE UNCHANGED vars
  <2>1. UNCHANGED <<pc, mem, size, live>>
    BY <1>6 DEF vars
  <2>2. CallShown' = CallShown
    BY <2>1 DEF CallShown
  <2> QED
    BY <2>1, <2>2, HiddenStep
<1> QED
  BY <1>1, <1>2, <1>3, <1>4, <1>5, <1>6 DEF Next

LEMMA SizeCleared ==
  Spec => []NoSizeLeft
<1>1. Init => NoSizeLeft
  BY DEF Init, NoSizeLeft
<1>2. NoSizeLeft /\ [Next]_vars => NoSizeLeft'
  BY DEF NoSizeLeft, Next, vars, AllocCall, Alloc, AllocTake, AllocSplit, AllocNext,
         AllocFail, Return, FreeCall, Free, BrowseNext, FreeInsert, Merge, MergeNext,
         FreeReturn, Store
<1> QED
  BY <1>1, <1>2, PTL DEF Spec

(* tests/malloc.c implements Heap: each step of mem_alloc and mem_free is a*)
(* step Heap allows, or one the program cannot see.  A block given lies in *)
(* the heap and meets no other, a refusal means no hole has room, and the  *)
(* contents of a block change only by its owner's stores.                  *)
THEOREM Implements ==
  ASSUME Granular
  PROVE  Spec => IsAHeap
<1>1. Init => Abstract!Init
  BY InitShown
<1>2. IInv /\ NoSizeLeft /\ [Next]_vars => [Abstract!Next]_(Abstract!vars)
  BY NextShown
<1> QED
  BY <1>1, <1>2, Invariance, SizeCleared, PTL DEF Spec, IsAHeap, Abstract!Safety
=============================================================================
