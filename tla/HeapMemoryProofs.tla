-------------------------- MODULE HeapMemoryProofs --------------------------
(***************************************************************************)
(* Lemmas about the memory of the two allocators, for every heap: what the *)
(* stores to a header or a link change, and what splitting and joining     *)
(* blocks does to a heap that is cut in blocks without gap or overlap.     *)
(***************************************************************************)
EXTENDS HeapMemory, TLAPS

Memory == [HEAP -> Byte]

(* Address a and the next one lie in the heap.                             *)
WordAt(a) == a \in HEAP /\ a + 1 \in HEAP

-----------------------------------------------------------------------------
(* Words of memory: what a POKE writes, a PEEK reads back, and it disturbs *)
(* no word it does not meet.                                               *)

LEMMA HeapBounds ==
  /\ MEMSTART \in Nat /\ MEMEND \in Nat /\ EOL \in Nat
  /\ MEMSTART + 4 <= MEMEND /\ MEMEND < EOL
  /\ \A a : a \in HEAP <=> a \in Int /\ MEMSTART <= a /\ a < MEMEND
BY HeapAssumption DEF MEMEND, HEAP, EOL

LEMMA WordRange ==
  /\ \A v : v \in Word <=> v \in Int /\ 0 <= v /\ v <= EOL
  /\ HEAP \subseteq Word
<1>1. EOL \in Int
  BY DEF EOL
<1>2. \A v : v \in Word <=> v \in Int /\ 0 <= v /\ v <= EOL
  BY <1>1 DEF Word
<1> QED
  BY <1>2, HeapBounds

LEMMA WordAtRange ==
  ASSUME NEW a, WordAt(a)
  PROVE  /\ a \in Int /\ MEMSTART <= a /\ a + 1 < MEMEND
         /\ a \in HEAP /\ a + 1 \in HEAP
<1>1. a \in HEAP /\ a + 1 \in HEAP
  BY DEF WordAt
<1>2. a \in Int
  BY <1>1, HeapBounds
<1> QED
  BY <1>1, <1>2, HeapBounds

(* Two bytes make a word, and a word splits into its two bytes.            *)
LEMMA BytesToWord ==
  ASSUME NEW x \in Byte, NEW y \in Byte
  PROVE  x * 256 + y \in Word
<1>1. x \in Int /\ y \in Int /\ 0 <= x /\ x <= 255 /\ 0 <= y /\ y <= 255
  BY DEF Byte
<1>2. x * 256 + y \in Int /\ 0 <= x * 256 + y /\ x * 256 + y <= 65535
  BY <1>1
<1> QED
  BY <1>2, WordRange DEF EOL

LEMMA WordToBytes ==
  ASSUME NEW v \in Word
  PROVE  /\ v \div 256 \in Byte /\ v % 256 \in Byte
         /\ (v \div 256) * 256 + (v % 256) = v
<1>1. v \in Int /\ 0 <= v /\ v <= 65535
  BY WordRange DEF EOL
<1>2. v \div 256 \in Int /\ 0 <= v \div 256 /\ v \div 256 <= 255
  BY <1>1
<1>3. v % 256 \in Int /\ 0 <= v % 256 /\ v % 256 <= 255
  BY <1>1
<1>4. (v \div 256) * 256 + (v % 256) = v
  BY <1>1
<1>5. \A x : x \in Int /\ 0 <= x /\ x <= 255 => x \in Byte
  BY DEF Byte
<1>6. v \div 256 \in Byte
  BY <1>2, <1>5
<1>7. v % 256 \in Byte
  BY <1>3, <1>5
<1> QED
  BY <1>4, <1>6, <1>7

LEMMA PeekType ==
  ASSUME NEW m \in Memory, NEW a, WordAt(a)
  PROVE  PEEK(m, a) \in Word
<1>1. m[a] \in Byte /\ m[a + 1] \in Byte
  BY WordAtRange DEF Memory
<1> QED
  BY <1>1, BytesToWord DEF PEEK

LEMMA TwoUpdates ==
  ASSUME NEW S, NEW B, NEW m \in [S -> B], NEW i \in S, NEW j \in S, i # j,
         NEW p \in B, NEW q \in B, NEW f, f = [m EXCEPT ![i] = p, ![j] = q]
  PROVE  /\ f \in [S -> B] /\ f[i] = p /\ f[j] = q
         /\ \A b \in S : b # i /\ b # j => f[b] = m[b]
OBVIOUS

(* POKE as a function: its two bytes, and every other one as it was.       *)
LEMMA PokeAt ==
  ASSUME NEW m \in Memory, NEW a, WordAt(a), NEW v \in Word
  PROVE  /\ POKE(m, a, v) \in Memory
         /\ POKE(m, a, v)[a] = v \div 256
         /\ POKE(m, a, v)[a + 1] = v % 256
         /\ \A b \in HEAP : b # a /\ b # a + 1 => POKE(m, a, v)[b] = m[b]
<1>1. a \in HEAP /\ a + 1 \in HEAP /\ a # a + 1
  BY WordAtRange
<1>2. v \div 256 \in Byte /\ v % 256 \in Byte
  BY WordToBytes
<1>3. POKE(m, a, v) = [m EXCEPT ![a] = v \div 256, ![a + 1] = v % 256]
  BY DEF POKE
<1> QED
  BY <1>1, <1>2, <1>3, TwoUpdates DEF Memory

LEMMA PeekSame ==
  ASSUME NEW m \in Memory, NEW a, WordAt(a), NEW v \in Word
  PROVE  PEEK(POKE(m, a, v), a) = v
<1>1. POKE(m, a, v)[a] = v \div 256 /\ POKE(m, a, v)[a + 1] = v % 256
  BY PokeAt
<1>2. (v \div 256) * 256 + (v % 256) = v
  BY WordToBytes
<1>3. PEEK(POKE(m, a, v), a) = (v \div 256) * 256 + (v % 256)
  BY <1>1 DEF PEEK
<1> QED
  BY <1>2, <1>3

LEMMA PeekOther ==
  ASSUME NEW m \in Memory, NEW a, WordAt(a), NEW v \in Word,
         NEW b, WordAt(b), b + 1 < a \/ a + 1 < b
  PROVE  PEEK(POKE(m, a, v), b) = PEEK(m, b)
<1>1. /\ b \in HEAP /\ b + 1 \in HEAP
      /\ b # a /\ b # a + 1 /\ b + 1 # a /\ b + 1 # a + 1
  BY WordAtRange
<1>2. POKE(m, a, v)[b] = m[b] /\ POKE(m, a, v)[b + 1] = m[b + 1]
  BY <1>1, PokeAt
<1> QED
  BY <1>2 DEF PEEK
-----------------------------------------------------------------------------
(* Headers and links.                                                      *)

(* Blocks a and b do not share the bytes of a header or a link.            *)
Clear(a, b) == a + 4 <= b \/ b + 4 <= a

(* Memories m and k hold the same header and link at b.                    *)
SameBlock(m, k, b) == SizeIn(k, b) = SizeIn(m, b) /\ NextIn(k, b) = NextIn(m, b)

LEMMA Fields ==
  ASSUME NEW m, NEW a, BlockAt(a)
  PROVE  /\ SizeIn(m, a) = PEEK(m, a) /\ NextIn(m, a) = PEEK(m, a + 2)
         /\ a + SIZE = a /\ a + NEXT = a + 2
         /\ WordAt(a) /\ WordAt(a + 2)
<1>1. a + SIZE = a /\ a + NEXT = a + 2
  BY DEF BlockAt, SIZE, NEXT
<1>2. a \in HEAP /\ a + 1 \in HEAP /\ a + 2 \in HEAP /\ a + 3 \in HEAP
  BY HeapBounds DEF BlockAt
<1>3. a + 2 + 1 = a + 3
  BY DEF BlockAt
<1> QED
  BY <1>1, <1>2, <1>3 DEF SizeIn, NextIn, WordAt

LEMMA FieldTypes ==
  ASSUME NEW m \in Memory, NEW a, BlockAt(a)
  PROVE  /\ SizeIn(m, a) \in Word /\ NextIn(m, a) \in Word
         /\ SizeIn(m, a) \in Int /\ 0 <= SizeIn(m, a)
         /\ NextIn(m, a) \in Int /\ 0 <= NextIn(m, a)
BY Fields, PeekType, WordRange

LEMMA SetSize ==
  ASSUME NEW m \in Memory, NEW a, BlockAt(a), NEW v \in Word,
         NEW k, k = POKE(m, a + SIZE, v)
  PROVE  /\ k \in Memory
         /\ SizeIn(k, a) = v /\ NextIn(k, a) = NextIn(m, a)
         /\ \A b : BlockAt(b) /\ Clear(a, b) => SameBlock(m, k, b)
<1>1. k = POKE(m, a, v) /\ WordAt(a) /\ WordAt(a + 2)
  BY Fields
<1>2. k \in Memory
  BY <1>1, PokeAt
<1>3. SizeIn(k, a) = v
  BY <1>1, PeekSame, Fields
<1>4. NextIn(k, a) = NextIn(m, a)
  <2>1. a + 1 < a + 2
    BY DEF BlockAt
  <2> QED
    BY <1>1, <2>1, PeekOther, Fields
<1>5. ASSUME NEW b, BlockAt(b), Clear(a, b)
      PROVE  SameBlock(m, k, b)
  <2>1. WordAt(b) /\ WordAt(b + 2)
    BY <1>5, Fields
  <2>2. b + 1 < a \/ a + 1 < b
    BY <1>5 DEF BlockAt, Clear
  <2>3. b + 2 + 1 < a \/ a + 1 < b + 2
    BY <1>5 DEF BlockAt, Clear
  <2>4. PEEK(k, b) = PEEK(m, b)
    BY <1>1, <2>1, <2>2, PeekOther
  <2>5. PEEK(k, b + 2) = PEEK(m, b + 2)
    BY <1>1, <2>1, <2>3, PeekOther
  <2> QED
    BY <1>5, <2>4, <2>5, Fields DEF SameBlock
<1> QED
  BY <1>2, <1>3, <1>4, <1>5

LEMMA SetNext ==
  ASSUME NEW m \in Memory, NEW a, BlockAt(a), NEW v \in Word,
         NEW k, k = POKE(m, a + NEXT, v)
  PROVE  /\ k \in Memory
         /\ NextIn(k, a) = v /\ SizeIn(k, a) = SizeIn(m, a)
         /\ \A b : BlockAt(b) /\ Clear(a, b) => SameBlock(m, k, b)
<1>1. k = POKE(m, a + 2, v) /\ WordAt(a) /\ WordAt(a + 2)
  BY Fields
<1>2. k \in Memory
  BY <1>1, PokeAt
<1>3. NextIn(k, a) = v
  BY <1>1, PeekSame, Fields
<1>4. SizeIn(k, a) = SizeIn(m, a)
  <2>1. a + 1 < a + 2
    BY DEF BlockAt
  <2> QED
    BY <1>1, <2>1, PeekOther, Fields
<1>5. ASSUME NEW b, BlockAt(b), Clear(a, b)
      PROVE  SameBlock(m, k, b)
  <2>1. WordAt(b) /\ WordAt(b + 2)
    BY <1>5, Fields
  <2>2. b + 1 < a + 2 \/ a + 2 + 1 < b
    BY <1>5 DEF BlockAt, Clear
  <2>3. b + 2 + 1 < a + 2 \/ a + 2 + 1 < b + 2
    BY <1>5 DEF BlockAt, Clear
  <2>4. PEEK(k, b) = PEEK(m, b)
    BY <1>1, <2>1, <2>2, PeekOther
  <2>5. PEEK(k, b + 2) = PEEK(m, b + 2)
    BY <1>1, <2>1, <2>3, PeekOther
  <2> QED
    BY <1>5, <2>4, <2>5, Fields DEF SameBlock
<1> QED
  BY <1>2, <1>3, <1>4, <1>5

LEMMA W16Range ==
  ASSUME NEW v \in Int
  PROVE  /\ W16(v) \in Word
         /\ 0 <= v /\ v <= EOL => W16(v) = v
<1>1. W16(v) \in Int /\ 0 <= W16(v) /\ W16(v) <= 65535
  BY DEF W16
<1>2. 0 <= v /\ v <= 65535 => W16(v) = v
  BY DEF W16
<1> QED
  BY <1>1, <1>2, WordRange DEF EOL

(* The four stores of a split.                                             *)
LEMMA SplitFields ==
  ASSUME NEW m \in Memory, NEW a, NEW r, NEW n \in Word, NEW k,
         BlockAt(a), BlockAt(r), r \in Word, a + 4 <= r,
         SizeIn(m, a) - 2 - n \in Word, k = SplitAt(m, a, r, n)
  PROVE  /\ k \in Memory
         /\ SizeIn(k, a) = n /\ NextIn(k, a) = r
         /\ SizeIn(k, r) = SizeIn(m, a) - 2 - n /\ NextIn(k, r) = NextIn(m, a)
         /\ \A b : BlockAt(b) /\ Clear(a, b) /\ Clear(r, b) => SameBlock(m, k, b)
<1> DEFINE s  == SizeIn(m, a) - 2 - n
           m1 == POKE(m,  r + SIZE, W16(s))
           m2 == POKE(m1, r + NEXT, NextIn(m1, a))
           m3 == POKE(m2, a + NEXT, r)
<1>0. k = POKE(m3, a + SIZE, n)
  BY DEF SplitAt
<1>1. W16(s) = s /\ s \in Word
  BY W16Range, WordRange
<1>2. Clear(a, r) /\ Clear(r, a)
  BY DEF Clear
<1>3. /\ m1 \in Memory
      /\ SizeIn(m1, r) = s
      /\ \A b : BlockAt(b) /\ Clear(r, b) => SameBlock(m, m1, b)
  BY <1>1, SetSize
<1>4. NextIn(m1, a) = NextIn(m, a) /\ NextIn(m1, a) \in Word
  BY <1>2, <1>3, FieldTypes DEF SameBlock
<1> HIDE DEF m1
<1>5. /\ m2 \in Memory
      /\ NextIn(m2, r) = NextIn(m, a) /\ SizeIn(m2, r) = s
      /\ \A b : BlockAt(b) /\ Clear(r, b) => SameBlock(m1, m2, b)
  BY <1>3, <1>4, SetNext
<1> HIDE DEF m2
<1>6. /\ m3 \in Memory
      /\ NextIn(m3, a) = r
      /\ \A b : BlockAt(b) /\ Clear(a, b) => SameBlock(m2, m3, b)
  BY <1>5, SetNext
<1> HIDE DEF m3
<1>7. /\ k \in Memory
      /\ SizeIn(k, a) = n /\ NextIn(k, a) = NextIn(m3, a)
      /\ \A b : BlockAt(b) /\ Clear(a, b) => SameBlock(m3, k, b)
  BY <1>0, <1>6, SetSize
<1>8. SizeIn(k, r) = s /\ NextIn(k, r) = NextIn(m, a)
  BY <1>2, <1>5, <1>6, <1>7 DEF SameBlock
<1>9. ASSUME NEW b, BlockAt(b), Clear(a, b), Clear(r, b)
      PROVE  SameBlock(m, k, b)
  BY <1>3, <1>5, <1>6, <1>7, <1>9 DEF SameBlock
<1> QED
  BY <1>6, <1>7, <1>8, <1>9

(* The two stores of a merge.                                              *)
LEMMA AbsorbFields ==
  ASSUME NEW m \in Memory, NEW a, NEW nxt, NEW k,
         BlockAt(a), BlockAt(nxt), a + 4 <= nxt,
         SizeIn(m, a) + SizeIn(m, nxt) + 2 \in Word, k = Absorb(m, a, nxt)
  PROVE  /\ k \in Memory
         /\ SizeIn(k, a) = SizeIn(m, a) + SizeIn(m, nxt) + 2
         /\ NextIn(k, a) = NextIn(m, nxt)
         /\ \A b : BlockAt(b) /\ Clear(a, b) => SameBlock(m, k, b)
<1> DEFINE s  == SizeIn(m, a) + SizeIn(m, nxt) + 2
           m1 == POKE(m, a + SIZE, W16(s))
<1>0. k = POKE(m1, a + NEXT, NextIn(m1, nxt))
  BY DEF Absorb
<1>1. W16(s) = s /\ s \in Word
  BY W16Range, WordRange
<1>2. Clear(a, nxt)
  BY DEF Clear
<1>3. /\ m1 \in Memory
      /\ SizeIn(m1, a) = s
      /\ \A b : BlockAt(b) /\ Clear(a, b) => SameBlock(m, m1, b)
  BY <1>1, SetSize
<1>4. NextIn(m1, nxt) = NextIn(m, nxt) /\ NextIn(m1, nxt) \in Word
  BY <1>2, <1>3, FieldTypes DEF SameBlock
<1> HIDE DEF m1
<1>5. /\ k \in Memory
      /\ NextIn(k, a) = NextIn(m, nxt) /\ SizeIn(k, a) = s
      /\ \A b : BlockAt(b) /\ Clear(a, b) => SameBlock(m1, k, b)
  BY <1>0, <1>3, <1>4, SetNext
<1> QED
  BY <1>3, <1>5 DEF SameBlock

-----------------------------------------------------------------------------
(* The bytes that the stores to headers and links leave alone.             *)

(* A store to a field of block a changes no byte but those of its header   *)
(* and its link.                                                           *)
KeepsAllBut(m, k, a) ==
  k \in Memory /\ \A x \in HEAP : x < a \/ a + 4 <= x => k[x] = m[x]

LEMMA FieldStore ==
  ASSUME NEW m \in Memory, NEW a, BlockAt(a), NEW v \in Word,
         NEW k, k = POKE(m, a + SIZE, v) \/ k = POKE(m, a + NEXT, v)
  PROVE  KeepsAllBut(m, k, a)
<1>1. /\ a + SIZE = a /\ a + NEXT = a + 2
      /\ WordAt(a) /\ WordAt(a + 2) /\ a \in Int
  BY Fields DEF BlockAt
<1>2. CASE k = POKE(m, a, v)
  <2>1. k \in Memory /\ \A x \in HEAP : x # a /\ x # a + 1 => k[x] = m[x]
    BY <1>1, <1>2, PokeAt
  <2>2. \A x \in HEAP : x < a \/ a + 4 <= x => x # a /\ x # a + 1
    BY <1>1, HeapBounds
  <2> QED
    BY <2>1, <2>2 DEF KeepsAllBut
<1>3. CASE k = POKE(m, a + 2, v)
  <2>1. k \in Memory /\ \A x \in HEAP : x # a + 2 /\ x # a + 2 + 1 => k[x] = m[x]
    BY <1>1, <1>3, PokeAt
  <2>2. \A x \in HEAP : x < a \/ a + 4 <= x => x # a + 2 /\ x # a + 2 + 1
    BY <1>1, HeapBounds
  <2> QED
    BY <2>1, <2>2 DEF KeepsAllBut
<1> QED
  BY <1>1, <1>2, <1>3

LEMMA SplitStores ==
  ASSUME NEW m \in Memory, NEW a, NEW r, NEW n \in Word, NEW k,
         BlockAt(a), BlockAt(r), r \in Word, k = SplitAt(m, a, r, n),
         NEW x \in HEAP, x < a \/ a + 4 <= x, x < r \/ r + 4 <= x
  PROVE  k[x] = m[x]
<1> DEFINE m1 == POKE(m,  r + SIZE, W16(SizeIn(m, a) - 2 - n))
           m2 == POKE(m1, r + NEXT, NextIn(m1, a))
           m3 == POKE(m2, a + NEXT, r)
<1>0. k = POKE(m3, a + SIZE, n)
  BY DEF SplitAt
<1>1. W16(SizeIn(m, a) - 2 - n) \in Word
  <2>1. SizeIn(m, a) - 2 - n \in Int
    BY FieldTypes, WordRange
  <2> QED
    BY <2>1, W16Range
<1>2. KeepsAllBut(m, m1, r)
  BY <1>1, FieldStore
<1>3. NextIn(m1, a) \in Word /\ m1 \in Memory
  BY <1>2, FieldTypes DEF KeepsAllBut
<1> HIDE DEF m1
<1>4. KeepsAllBut(m1, m2, r)
  BY <1>3, FieldStore
<1>5. m2 \in Memory
  BY <1>4 DEF KeepsAllBut
<1> HIDE DEF m2
<1>6. KeepsAllBut(m2, m3, a)
  BY <1>5, FieldStore
<1>7. m3 \in Memory
  BY <1>6 DEF KeepsAllBut
<1> HIDE DEF m3
<1>8. KeepsAllBut(m3, k, a)
  BY <1>0, <1>7, FieldStore
<1> QED
  BY <1>2, <1>4, <1>6, <1>8 DEF KeepsAllBut

LEMMA AbsorbStores ==
  ASSUME NEW m \in Memory, NEW a, NEW nxt, NEW k,
         BlockAt(a), BlockAt(nxt), k = Absorb(m, a, nxt)
  PROVE  KeepsAllBut(m, k, a)
<1> DEFINE m1 == POKE(m, a + SIZE, W16(SizeIn(m, a) + SizeIn(m, nxt) + 2))
<1>0. k = POKE(m1, a + NEXT, NextIn(m1, nxt))
  BY DEF Absorb
<1>1. W16(SizeIn(m, a) + SizeIn(m, nxt) + 2) \in Word
  <2>1. SizeIn(m, a) + SizeIn(m, nxt) + 2 \in Int
    BY FieldTypes
  <2> QED
    BY <2>1, W16Range
<1>2. KeepsAllBut(m, m1, a)
  BY <1>1, FieldStore
<1>3. NextIn(m1, nxt) \in Word /\ m1 \in Memory
  BY <1>2, FieldTypes DEF KeepsAllBut
<1> HIDE DEF m1
<1>4. KeepsAllBut(m1, k, a)
  BY <1>0, <1>3, FieldStore
<1> QED
  BY <1>2, <1>4 DEF KeepsAllBut

-----------------------------------------------------------------------------
(* The heap cut in blocks.                                                 *)

LEMMA LayoutBlock ==
  ASSUME NEW m \in Memory, NEW B, Layout(m, B), NEW a \in B
  PROVE  /\ BlockAt(a) /\ a \in Int /\ a \in HEAP /\ a \in Word /\ a < MEMEND
         /\ SizeIn(m, a) \in Int /\ SizeIn(m, a) >= 2 /\ SizeIn(m, a) \in Word
         /\ SizeIn(m, a) % 4 = 2
         /\ a + 2 + SizeIn(m, a) <= MEMEND
         /\ NextIn(m, a) \in Word /\ NextIn(m, a) \in Int
<1>1. BlockAt(a) /\ SizeIn(m, a) % 4 = 2 /\ a + 2 + SizeIn(m, a) <= MEMEND
  BY DEF Layout
<1>2. SizeIn(m, a) \in Int /\ 0 <= SizeIn(m, a) /\ SizeIn(m, a) \in Word
  BY <1>1, FieldTypes
<1>3. SizeIn(m, a) >= 2
  BY <1>1, <1>2
<1>4. a \in Int /\ a \in HEAP /\ a \in Word /\ a < MEMEND
  BY <1>1, HeapBounds, WordRange DEF BlockAt
<1> QED
  BY <1>1, <1>2, <1>3, <1>4, FieldTypes

LEMMA LayoutClear ==
  ASSUME NEW m \in Memory, NEW B, Layout(m, B), NEW a \in B, NEW b \in B, a # b
  PROVE  Clear(a, b)
<1>1. a \in Int /\ b \in Int /\ SizeIn(m, a) >= 2 /\ SizeIn(m, b) >= 2
      /\ SizeIn(m, a) \in Int /\ SizeIn(m, b) \in Int
  BY LayoutBlock
<1>2. CASE a < b
  <2>1. a + 2 + SizeIn(m, a) <= b
    BY <1>2 DEF Layout
  <2> QED
    BY <1>1, <2>1 DEF Clear
<1>3. CASE b < a
  <2>1. b + 2 + SizeIn(m, b) <= a
    BY <1>3 DEF Layout
  <2> QED
    BY <1>1, <2>1 DEF Clear
<1> QED
  BY <1>1, <1>2, <1>3

(* Only sizes matter to the layout.                                        *)
LEMMA LayoutSameSizes ==
  ASSUME NEW m, NEW k, NEW B, Layout(m, B),
         \A a \in B : SizeIn(k, a) = SizeIn(m, a)
  PROVE  Layout(k, B)
BY DEF Layout

(* A store to a link changes no size, and no other link.                   *)
LEMMA LayoutSetNext ==
  ASSUME NEW m \in Memory, NEW B, Layout(m, B), NEW a \in B, NEW v \in Word,
         NEW k, k = POKE(m, a + NEXT, v)
  PROVE  /\ k \in Memory /\ Layout(k, B)
         /\ NextIn(k, a) = v
         /\ \A b \in B : SizeIn(k, b) = SizeIn(m, b)
         /\ \A b \in B \ {a} : NextIn(k, b) = NextIn(m, b)
<1>1. BlockAt(a)
  BY LayoutBlock
<1>2. /\ k \in Memory
      /\ NextIn(k, a) = v /\ SizeIn(k, a) = SizeIn(m, a)
      /\ \A b : BlockAt(b) /\ Clear(a, b) => SameBlock(m, k, b)
  BY <1>1, SetNext
<1>3. \A b \in B \ {a} : SameBlock(m, k, b)
  BY <1>2, LayoutBlock, LayoutClear
<1>4. \A b \in B : SizeIn(k, b) = SizeIn(m, b)
  BY <1>2, <1>3 DEF SameBlock
<1> QED
  BY <1>2, <1>3, <1>4, LayoutSameSizes DEF SameBlock

LEMMA LayoutTiles ==
  ASSUME NEW m \in Memory, NEW B, Layout(m, B)
  PROVE  Tiles(m, B)
<1>1. ASSUME NEW a \in B PROVE Span(m, a) \subseteq HEAP
  BY LayoutBlock, HeapBounds DEF Span
<1>2. ASSUME NEW a \in B, NEW b \in B, a < b
      PROVE  Span(m, a) \cap Span(m, b) = {}
  <2>1. a + 2 + SizeIn(m, a) <= b
    BY <1>2 DEF Layout
  <2> QED
    BY <2>1, LayoutBlock DEF Span
<1>3. ASSUME NEW a \in B, NEW b \in B, a # b
      PROVE  Span(m, a) \cap Span(m, b) = {}
  <2>1. a < b \/ b < a
    BY <1>3, LayoutBlock
  <2> QED
    BY <1>2, <2>1
<1>4. ASSUME NEW x \in HEAP PROVE \E a \in B : x \in Span(m, a)
  <2>1. PICK a \in B : a <= x /\ x < a + 2 + SizeIn(m, a)
    BY DEF Layout
  <2>2. x \in Span(m, a)
    BY <2>1, LayoutBlock, HeapBounds DEF Span
  <2> QED
    BY <2>2
<1> QED
  BY <1>1, <1>3, <1>4 DEF Tiles

(* Block a of the layout becomes block a, of size n, and block r.          *)
LEMMA SplitLayout ==
  ASSUME NEW m \in Memory, NEW B, Layout(m, B), NEW a \in B, NEW n \in Word,
         n % 4 = 2, n < SizeIn(m, a),
         NEW r, r = a + 2 + n, NEW k, k = SplitAt(m, a, r, n)
  PROVE  /\ k \in Memory /\ r \in HEAP /\ r \notin B /\ a < r
         /\ \A b \in B : a < b => r < b
         /\ Layout(k, B \cup {r})
         /\ SizeIn(k, a) = n /\ NextIn(k, a) = r
         /\ SizeIn(k, r) = SizeIn(m, a) - 2 - n /\ NextIn(k, r) = NextIn(m, a)
         /\ \A b \in B \ {a} : SameBlock(m, k, b)
<1> DEFINE s == SizeIn(m, a)
<1>1. /\ a \in Int /\ BlockAt(a) /\ s \in Int /\ s % 4 = 2 /\ a + 2 + s <= MEMEND
      /\ n \in Int /\ 0 <= n
  BY LayoutBlock, WordRange
<1>2. n >= 2 /\ s - 2 - n >= 2 /\ (s - 2 - n) % 4 = 2
  BY <1>1
<1>3. BlockAt(r) /\ r \in Int /\ a + 4 <= r /\ r \in HEAP /\ r \in Word
  BY <1>1, <1>2, HeapBounds, WordRange DEF BlockAt
<1>4. s - 2 - n \in Word
  <2>1. s - 2 - n \in Int /\ 0 <= s - 2 - n /\ s - 2 - n <= EOL
    BY <1>1, <1>2, HeapBounds DEF BlockAt
  <2> QED
    BY <2>1, WordRange
<1>5. /\ k \in Memory
      /\ SizeIn(k, a) = n /\ NextIn(k, a) = r
      /\ SizeIn(k, r) = s - 2 - n /\ NextIn(k, r) = NextIn(m, a)
      /\ \A b : BlockAt(b) /\ Clear(a, b) /\ Clear(r, b) => SameBlock(m, k, b)
  BY <1>1, <1>3, <1>4, SplitFields
<1>6. ASSUME NEW b \in B, b # a
      PROVE  /\ b \in Int /\ BlockAt(b) /\ Clear(a, b) /\ Clear(r, b) /\ b # r
             /\ a < b => r + 4 <= b /\ a + 2 + s <= b
             /\ b < a => b + 2 + SizeIn(m, b) <= a
             /\ SizeIn(m, b) \in Int /\ SizeIn(m, b) >= 2
  <2>1. BlockAt(b) /\ b \in Int /\ SizeIn(m, b) \in Int /\ SizeIn(m, b) >= 2
    BY LayoutBlock
  <2>2. Clear(a, b)
    BY <1>6, LayoutClear
  <2>3. a < b => a + 2 + s <= b
    BY DEF Layout
  <2>4. b < a => b + 2 + SizeIn(m, b) <= a
    BY DEF Layout
  <2>5. a < b \/ b < a
    BY <1>1, <1>6, <2>1
  <2>6. a < b => r + 4 <= b
    BY <1>1, <1>2, <2>1, <2>3
  <2>7. Clear(r, b) /\ b # r
    BY <1>1, <1>3, <2>1, <2>4, <2>5, <2>6 DEF Clear
  <2> QED
    BY <2>1, <2>2, <2>3, <2>4, <2>6, <2>7
<1>7. \A b \in B \ {a} : SameBlock(m, k, b)
  BY <1>5, <1>6
<1>8. r \notin B /\ a < r
  BY <1>1, <1>3, <1>6
<1>9. \A b \in B : a < b => r < b
  BY <1>1, <1>3, <1>6
<1>10. Layout(k, B \cup {r})
  <2>1. ASSUME NEW b \in B \cup {r}
        PROVE  BlockAt(b) /\ SizeIn(k, b) % 4 = 2 /\ b + 2 + SizeIn(k, b) <= MEMEND
    <3>1. SizeIn(k, r) % 4 = 2 /\ r + 2 + SizeIn(k, r) <= MEMEND
      BY <1>1, <1>2, <1>3, <1>5, HeapBounds
    <3>2. SizeIn(k, a) % 4 = 2 /\ a + 2 + SizeIn(k, a) <= MEMEND
      BY <1>1, <1>2, <1>5, HeapBounds
    <3>3. CASE b = r
      BY <1>3, <3>1, <3>3
    <3>4. CASE b = a
      BY <1>1, <3>2, <3>4
    <3>5. CASE b \in B \ {a}
      BY <1>7, <3>5, LayoutBlock DEF SameBlock
    <3> QED
      BY <3>3, <3>4, <3>5
  <2>2. ASSUME NEW b \in B \cup {r}, NEW c \in B \cup {r}, b < c
        PROVE  b + 2 + SizeIn(k, b) <= c
    <3>1. CASE b = r
      <4>1. c \in B \ {a}
        BY <1>1, <1>3, <2>2, <3>1
      <4>2. a < c /\ a + 2 + s <= c
        BY <1>1, <1>3, <1>6, <2>2, <3>1, <4>1
      <4> QED
        BY <1>1, <1>3, <1>5, <1>6, <3>1, <4>1, <4>2
    <3>2. CASE b = a
      <4>1. CASE c = r
        BY <1>1, <1>3, <1>5, <3>2, <4>1
      <4>2. CASE c \in B \ {a}
        <5>1. r + 4 <= c /\ c \in Int
          BY <1>6, <2>2, <3>2, <4>2
        <5> QED
          BY <1>1, <1>3, <1>5, <3>2, <5>1
      <4> QED
        BY <1>1, <2>2, <3>2, <4>1, <4>2
    <3>3. CASE b \in B \ {a}
      <4>1. SizeIn(k, b) = SizeIn(m, b)
        BY <1>7, <3>3 DEF SameBlock
      <4>2. CASE c = r
        <5>1. b < a
          BY <1>1, <1>3, <1>6, <2>2, <3>3, <4>2
        <5> QED
          BY <1>1, <1>3, <1>6, <3>3, <4>1, <4>2, <5>1
      <4>3. CASE c \in B
        BY <2>2, <3>3, <4>1, <4>3 DEF Layout
      <4> QED
        BY <4>2, <4>3
    <3> QED
      BY <3>1, <3>2, <3>3
  <2>3. ASSUME NEW x \in HEAP
        PROVE  \E b \in B \cup {r} : b <= x /\ x < b + 2 + SizeIn(k, b)
    <3>1. PICK b \in B : b <= x /\ x < b + 2 + SizeIn(m, b)
      BY DEF Layout
    <3>2. CASE b # a
      BY <1>7, <3>1, <3>2 DEF SameBlock
    <3>3. CASE b = a /\ x < r
      BY <1>1, <1>5, <3>1, <3>3
    <3>4. CASE b = a /\ r <= x
      BY <1>1, <1>3, <1>5, <3>1, <3>4, HeapBounds
    <3> QED
      BY <1>3, <3>2, <3>3, <3>4, HeapBounds
  <2> QED
    BY <2>1, <2>2, <2>3 DEF Layout
<1> QED
  BY <1>3, <1>5, <1>7, <1>8, <1>9, <1>10

(* Block a takes in the block nxt that starts where it ends.               *)
LEMMA AbsorbLayout ==
  ASSUME NEW m \in Memory, NEW B, Layout(m, B), NEW a \in B, NEW nxt \in B,
         nxt = a + SizeIn(m, a) + 2, NEW k, k = Absorb(m, a, nxt)
  PROVE  /\ k \in Memory
         /\ Layout(k, B \ {nxt})
         /\ SizeIn(k, a) = SizeIn(m, a) + SizeIn(m, nxt) + 2
         /\ NextIn(k, a) = NextIn(m, nxt)
         /\ \A b \in B \ {a} : SameBlock(m, k, b)
<1> DEFINE s == SizeIn(m, a)
           t == SizeIn(m, nxt)
<1>1. /\ a \in Int /\ BlockAt(a) /\ s \in Int /\ s >= 2 /\ s % 4 = 2
      /\ nxt \in Int /\ BlockAt(nxt) /\ t \in Int /\ t >= 2 /\ t % 4 = 2
      /\ nxt + 2 + t <= MEMEND /\ a + 4 <= nxt
  BY LayoutBlock
<1>2. s + t + 2 \in Word
  <2>1. s + t + 2 \in Int /\ 0 <= s + t + 2 /\ s + t + 2 <= EOL
    BY <1>1, HeapBounds DEF BlockAt
  <2> QED
    BY <2>1, WordRange
<1>3. /\ k \in Memory
      /\ SizeIn(k, a) = s + t + 2
      /\ NextIn(k, a) = NextIn(m, nxt)
      /\ \A b : BlockAt(b) /\ Clear(a, b) => SameBlock(m, k, b)
  BY <1>1, <1>2, AbsorbFields
<1>4. \A b \in B \ {a} : SameBlock(m, k, b)
  BY <1>3, LayoutBlock, LayoutClear
<1>5. a \in B \ {nxt}
  BY <1>1
<1>6. Layout(k, B \ {nxt})
  <2>1. ASSUME NEW b \in B \ {nxt}
        PROVE  BlockAt(b) /\ SizeIn(k, b) % 4 = 2 /\ b + 2 + SizeIn(k, b) <= MEMEND
    <3>1. CASE b = a
      BY <1>1, <1>3, <3>1
    <3>2. CASE b # a
      BY <1>4, <3>2, LayoutBlock DEF SameBlock
    <3> QED
      BY <3>1, <3>2
  <2>2. ASSUME NEW b \in B \ {nxt}, NEW c \in B \ {nxt}, b < c
        PROVE  b + 2 + SizeIn(k, b) <= c
    <3>1. CASE b # a
      BY <1>4, <2>2, <3>1 DEF SameBlock, Layout
    <3>2. CASE b = a
      <4>1. c \in Int /\ a + 2 + s <= c /\ c # nxt
        BY <2>2, <3>2, LayoutBlock DEF Layout
      <4>2. nxt < c
        BY <1>1, <4>1
      <4>3. nxt + 2 + t <= c
        BY <4>2 DEF Layout
      <4> QED
        BY <1>1, <1>3, <3>2, <4>1, <4>3
    <3> QED
      BY <3>1, <3>2
  <2>3. ASSUME NEW x \in HEAP
        PROVE  \E b \in B \ {nxt} : b <= x /\ x < b + 2 + SizeIn(k, b)
    <3>1. PICK b \in B : b <= x /\ x < b + 2 + SizeIn(m, b)
      BY DEF Layout
    <3>2. CASE b # a /\ b # nxt
      BY <1>4, <3>1, <3>2 DEF SameBlock
    <3>3. CASE b = a \/ b = nxt
      <4>1. a <= x /\ x < a + 2 + SizeIn(k, a)
        BY <1>1, <1>3, <3>1, <3>3, HeapBounds
      <4> QED
        BY <1>5, <4>1
    <3> QED
      BY <3>2, <3>3
  <2> QED
    BY <2>1, <2>2, <2>3 DEF Layout
<1> QED
  BY <1>3, <1>4, <1>6

-----------------------------------------------------------------------------
(* The list of free blocks: F is the set of its blocks, h its head.        *)

LEMMA HeadSmallest ==
  ASSUME NEW m, NEW h, NEW F \in SUBSET HEAP, ListOf(m, h, F), h \in Word
  PROVE  /\ h = EOL <=> F = {}
         /\ h # EOL => h \in F
         /\ \A a \in F : h <= a
<1>1. Follows(F, -1, h)
  BY DEF ListOf
<1>2. \A a \in F : a \in Int /\ 0 <= a /\ a < EOL
  BY HeapBounds
<1>3. h = EOL => F = {}
  BY <1>1, <1>2 DEF Follows
<1> QED
  BY <1>1, <1>2, <1>3 DEF Follows

(* Block a leaves the list: the block before it, if any, skips it.         *)
LEMMA ListRemove ==
  ASSUME NEW m, NEW h, NEW F \in SUBSET HEAP, ListOf(m, h, F), h \in Word,
         NEW a \in F, NextIn(m, a) \in Word, NEW k, NEW g,
         \/ /\ a = h /\ g = NextIn(m, a)
            /\ \A b \in F \ {a} : NextIn(k, b) = NextIn(m, b)
         \/ /\ g = h
            /\ \E p \in F : /\ NextIn(m, p) = a /\ NextIn(k, p) = NextIn(m, a)
                           /\ \A b \in F \ {a, p} : NextIn(k, b) = NextIn(m, b)
  PROVE  ListOf(k, g, F \ {a})
<1> DEFINE nxt == NextIn(m, a)
<1>1. \A b \in F : b \in Int /\ 0 <= b /\ b < EOL
  BY HeapBounds
<1>2. /\ Follows(F, a, nxt)
      /\ Follows(F, -1, h)
      /\ \A b \in F : Follows(F, b, NextIn(m, b))
  BY DEF ListOf
<1>3. nxt \in Int /\ 0 <= nxt /\ h \in Int /\ EOL \in Int
  BY WordRange, HeapBounds
<1>4. ASSUME NEW b \in Int, -1 <= b, Follows(F, b, a)
      PROVE  Follows(F \ {a}, b, nxt)
  BY <1>1, <1>2, <1>3, <1>4 DEF Follows
<1>5. ASSUME NEW b \in F \ {a}, NEW c, Follows(F, b, c), c # a
      PROVE  Follows(F \ {a}, b, c)
  BY <1>5 DEF Follows
<1>6. CASE /\ a = h /\ g = nxt
           /\ \A b \in F \ {a} : NextIn(k, b) = NextIn(m, b)
  <2>1. Follows(F \ {a}, -1, g)
    BY <1>2, <1>4, <1>6
  <2>2. ASSUME NEW b \in F \ {a} PROVE NextIn(m, b) # a
    BY <1>1, <1>2, <1>3, <1>6 DEF Follows
  <2> QED
    BY <1>2, <1>5, <1>6, <2>1, <2>2 DEF ListOf
<1>7. CASE /\ g = h
           /\ \E p \in F : /\ NextIn(m, p) = a /\ NextIn(k, p) = nxt
                          /\ \A b \in F \ {a, p} : NextIn(k, b) = NextIn(m, b)
  <2>1. PICK p \in F : /\ NextIn(m, p) = a /\ NextIn(k, p) = nxt
                       /\ \A b \in F \ {a, p} : NextIn(k, b) = NextIn(m, b)
    BY <1>7
  <2>2. p # a /\ p < a /\ Follows(F, p, a)
    BY <1>1, <1>2, <2>1 DEF Follows
  <2>3. Follows(F \ {a}, p, nxt)
    BY <1>1, <1>4, <2>2
  <2>4. h # a /\ Follows(F \ {a}, -1, h)
    BY <1>1, <1>2, <1>3, <2>2 DEF Follows
  <2>5. ASSUME NEW b \in F \ {a, p} PROVE NextIn(m, b) # a
    <3>1. b < p \/ p < b
      BY <1>1
    <3> QED
      BY <1>1, <1>2, <2>2, <3>1 DEF Follows
  <2>6. ASSUME NEW b \in F \ {a} PROVE Follows(F \ {a}, b, NextIn(k, b))
    <3>1. CASE b = p
      BY <2>1, <2>3, <3>1
    <3>2. CASE b # p
      BY <1>2, <1>5, <2>1, <2>5, <3>2
    <3> QED
      BY <3>1, <3>2
  <2> QED
    BY <1>7, <2>4, <2>6 DEF ListOf
<1> QED
  BY <1>6, <1>7

(* Block a joins the list after block c, or before every block.            *)
LEMMA ListInsert ==
  ASSUME NEW m, NEW h, NEW F \in SUBSET HEAP, ListOf(m, h, F), h \in Word,
         NEW a \in HEAP, a \notin F, NEW k, NEW g,
         \/ /\ a < h /\ g = a /\ NextIn(k, a) = h
            /\ \A b \in F : NextIn(k, b) = NextIn(m, b)
         \/ /\ g = h
            /\ \E c \in F : /\ c < a /\ a < NextIn(m, c) /\ NextIn(m, c) \in Word
                           /\ NextIn(k, a) = NextIn(m, c) /\ NextIn(k, c) = a
                           /\ \A b \in F \ {c} : NextIn(k, b) = NextIn(m, b)
  PROVE  ListOf(k, g, F \cup {a})
<1>1. \A b \in F \cup {a} : b \in Int /\ 0 <= b /\ b < EOL
  BY HeapBounds
<1>2. /\ Follows(F, -1, h)
      /\ \A b \in F : Follows(F, b, NextIn(m, b))
  BY DEF ListOf
<1>3. h \in Int /\ 0 <= h /\ EOL \in Int
  BY WordRange, HeapBounds
<1>4. CASE /\ a < h /\ g = a /\ NextIn(k, a) = h
           /\ \A b \in F : NextIn(k, b) = NextIn(m, b)
  <2>1. \A b \in F : a < b
    BY <1>1, <1>2, <1>3, <1>4 DEF Follows
  <2>2. Follows(F \cup {a}, -1, a)
    BY <1>1, <2>1 DEF Follows
  <2>3. Follows(F \cup {a}, a, h)
    BY <1>1, <1>2, <1>3, <1>4, <2>1 DEF Follows
  <2>4. ASSUME NEW b \in F PROVE Follows(F \cup {a}, b, NextIn(k, b))
    BY <1>1, <1>2, <1>4, <2>1 DEF Follows
  <2> QED
    BY <1>4, <2>2, <2>3, <2>4 DEF ListOf
<1>5. CASE /\ g = h
           /\ \E c \in F : /\ c < a /\ a < NextIn(m, c) /\ NextIn(m, c) \in Word
                          /\ NextIn(k, a) = NextIn(m, c) /\ NextIn(k, c) = a
                          /\ \A b \in F \ {c} : NextIn(k, b) = NextIn(m, b)
  <2>1. PICK c \in F : /\ c < a /\ a < NextIn(m, c) /\ NextIn(m, c) \in Word
                       /\ NextIn(k, a) = NextIn(m, c) /\ NextIn(k, c) = a
                       /\ \A b \in F \ {c} : NextIn(k, b) = NextIn(m, b)
    BY <1>5
  <2> DEFINE n == NextIn(m, c)
  <2>2. n \in Int /\ Follows(F, c, n)
    BY <1>2, <2>1, WordRange
  <2>3. \A b \in F : b <= c \/ n <= b
    BY <1>1, <2>1, <2>2 DEF Follows
  <2>4. Follows(F \cup {a}, -1, h)
    BY <1>1, <1>2, <1>3, <2>1 DEF Follows
  <2>5. Follows(F \cup {a}, a, n)
    BY <1>1, <2>1, <2>2, <2>3 DEF Follows
  <2>6. Follows(F \cup {a}, c, a)
    BY <1>1, <2>1, <2>2, <2>3 DEF Follows
  <2>7. ASSUME NEW b \in F \ {c} PROVE Follows(F \cup {a}, b, NextIn(m, b))
    <3>1. CASE b < c
      <4>1. NextIn(m, b) # EOL /\ NextIn(m, b) \in F /\ NextIn(m, b) <= c
        BY <1>1, <1>2, <3>1 DEF Follows
      <4> QED
        BY <1>1, <1>2, <2>1, <3>1, <4>1 DEF Follows
    <3>2. CASE c < b
      BY <1>1, <1>2, <2>1, <2>2, <2>3, <3>2 DEF Follows
    <3> QED
      BY <1>1, <3>1, <3>2
  <2> QED
    BY <1>5, <2>1, <2>4, <2>5, <2>6, <2>7 DEF ListOf
<1> QED
  BY <1>4, <1>5

(* Block r, between a and the block after it, takes the place of a.        *)
LEMMA ListReplace ==
  ASSUME NEW m, NEW h, NEW F \in SUBSET HEAP, ListOf(m, h, F), h \in Word,
         NEW a \in F, NEW r \in HEAP, a < r, r \notin F,
         \A b \in F : a < b => r < b,
         NEW k, NEW g, NextIn(k, r) = NextIn(m, a), NextIn(m, a) \in Word,
         \/ /\ a = h /\ g = r
            /\ \A b \in F \ {a} : NextIn(k, b) = NextIn(m, b)
         \/ /\ g = h
            /\ \E p \in F : /\ NextIn(m, p) = a /\ NextIn(k, p) = r
                           /\ \A b \in F \ {a, p} : NextIn(k, b) = NextIn(m, b)
  PROVE  ListOf(k, g, (F \ {a}) \cup {r})
<1> DEFINE G == (F \ {a}) \cup {r}
<1>1. \A b \in F \cup {r} : b \in Int /\ 0 <= b /\ b < EOL
  BY HeapBounds
<1>2. /\ Follows(F, -1, h)
      /\ \A b \in F : Follows(F, b, NextIn(m, b))
  BY DEF ListOf
<1>3. h \in Int /\ 0 <= h /\ EOL \in Int /\ NextIn(m, a) \in Int
  BY WordRange, HeapBounds
<1>4. Follows(G, r, NextIn(k, r))
  BY <1>1, <1>2, <1>3 DEF Follows
<1>5. ASSUME NEW b \in F \ {a}, NEW c, Follows(F, b, c), c # a
      PROVE  Follows(G, b, c)
  BY <1>1, <1>5 DEF Follows
<1>6. CASE /\ a = h /\ g = r
           /\ \A b \in F \ {a} : NextIn(k, b) = NextIn(m, b)
  <2>1. Follows(G, -1, r)
    BY <1>1, <1>2, <1>3, <1>6 DEF Follows
  <2>2. ASSUME NEW b \in F \ {a} PROVE NextIn(m, b) # a
    BY <1>1, <1>2, <1>3, <1>6 DEF Follows
  <2> QED
    BY <1>2, <1>4, <1>5, <1>6, <2>1, <2>2 DEF ListOf
<1>7. CASE /\ g = h
           /\ \E p \in F : /\ NextIn(m, p) = a /\ NextIn(k, p) = r
                          /\ \A b \in F \ {a, p} : NextIn(k, b) = NextIn(m, b)
  <2>1. PICK p \in F : /\ NextIn(m, p) = a /\ NextIn(k, p) = r
                       /\ \A b \in F \ {a, p} : NextIn(k, b) = NextIn(m, b)
    BY <1>7
  <2>2. p # a /\ p < a /\ Follows(F, p, a)
    BY <1>1, <1>2, <2>1 DEF Follows
  <2>3. Follows(G, p, r)
    BY <1>1, <2>2 DEF Follows
  <2>4. h # a /\ Follows(G, -1, h)
    BY <1>1, <1>2, <1>3, <2>2 DEF Follows
  <2>5. ASSUME NEW b \in F \ {a, p} PROVE NextIn(m, b) # a
    <3>1. b < p \/ p < b
      BY <1>1
    <3> QED
      BY <1>1, <1>2, <2>2, <3>1 DEF Follows
  <2>6. ASSUME NEW b \in F \ {a} PROVE Follows(G, b, NextIn(k, b))
    <3>1. CASE b = p
      BY <2>1, <2>3, <3>1
    <3>2. CASE b # p
      BY <1>2, <1>5, <2>1, <2>5, <3>2
    <3> QED
      BY <3>1, <3>2
  <2> QED
    BY <1>4, <1>7, <2>4, <2>6 DEF ListOf
<1> QED
  BY <1>6, <1>7
=============================================================================
