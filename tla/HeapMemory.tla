----------------------------- MODULE HeapMemory -----------------------------
(***************************************************************************)
(* The memory both allocators of sys11 work on: the bytes of the heap, a   *)
(* 16-bit big-endian word being two of them, and the layout of a block.    *)
(* Every block starts with its SIZE; a free block keeps the address of the *)
(* NEXT free block in the first two bytes of its payload.                  *)
(***************************************************************************)
EXTENDS Integers

CONSTANTS
  MEMSTART,    \* address of the heap
  MEMSIZE      \* its size in bytes

MEMEND == MEMSTART + MEMSIZE
HEAP   == MEMSTART .. MEMEND - 1
EOL    == 65535
SIZE   == 0
NEXT   == 2

ASSUME HeapAssumption ==
  /\ MEMSTART \in Nat
  /\ MEMSIZE \in Nat
  /\ MEMSIZE >= 4
  /\ MEMEND < EOL

Byte == 0 .. 255
Word == 0 .. EOL

W16(v) == v % 65536

PEEK(m, a) == m[a] * 256 + m[a + 1]

POKE(m, a, v) == [m EXCEPT ![a] = v \div 256, ![a + 1] = v % 256]

(* The block that starts at a in memory m.                                 *)
SizeIn(m, a) == PEEK(m, a + SIZE)
NextIn(m, a) == PEEK(m, a + NEXT)
Span(m, a)   == a .. a + 1 + SizeIn(m, a)

(* What the program sees of a block it holds.                              *)
Payload(b) == b.ptr .. (b.ptr + b.size - 1)

(* One large free block (mem_init and mm_init).                            *)
OneBlock(m) ==
  POKE(POKE(m, MEMSTART + SIZE, MEMSIZE - 2), MEMSTART + NEXT, EOL)

(* The larger block at a becomes two, of which the second, free, starts    *)
(* at r: the four stores of the split, in the order of the code.           *)
SplitAt(m, a, r, n) ==
  LET m1 == POKE(m,  r + SIZE, W16(SizeIn(m, a) - 2 - n))
      m2 == POKE(m1, r + NEXT, NextIn(m1, a))
      m3 == POKE(m2, a + NEXT, r)
  IN  POKE(m3, a + SIZE, n)

(* The free block at a takes in the free block nxt that follows it.        *)
Absorb(m, a, nxt) ==
  LET m1 == POKE(m, a + SIZE, W16(SizeIn(m, a) + SizeIn(m, nxt) + 2))
  IN  POKE(m1, a + NEXT, NextIn(m1, nxt))

-----------------------------------------------------------------------------
(* The vocabulary of the properties of the two allocators.                 *)

(* s is the address that follows a in the set of addresses S.              *)
Follows(S, a, s) ==
  IF s = EOL THEN \A x \in S : x <= a
             ELSE s \in S /\ s > a /\ \A x \in S : x <= a \/ s <= x

(* From h, the links visit the blocks of S, each once, by increasing       *)
(* address, and end.                                                       *)
ListOf(m, h, S) ==
  /\ Follows(S, -1, h)
  /\ \A a \in S : Follows(S, a, NextIn(m, a))

(* Every byte of the heap belongs to exactly one of the blocks S.          *)
Tiles(m, S) ==
  /\ \A a \in S : Span(m, a) \subseteq HEAP
  /\ \A a, b \in S : a # b => Span(m, a) \cap Span(m, b) = {}
  /\ \A x \in HEAP : \E a \in S : x \in Span(m, a)

(* No two blocks of S touch.                                               *)
Apart(m, S) == \A a \in S : a + 2 + SizeIn(m, a) \notin S

(* The form of Tiles that a step preserves.  Sizes of 2 modulo 4 leave room*)
(* in every block, and in what a split leaves of it, for a header and a    *)
(* link.                                                                   *)
BlockAt(a) == a \in Int /\ MEMSTART <= a /\ a + 4 <= MEMEND

Layout(m, S) ==
  /\ \A a \in S : /\ BlockAt(a)
                 /\ SizeIn(m, a) % 4 = 2
                 /\ a + 2 + SizeIn(m, a) <= MEMEND
  /\ \A a, b \in S : a < b => a + 2 + SizeIn(m, a) <= b
  /\ \A x \in HEAP : \E a \in S : a <= x /\ x < a + 2 + SizeIn(m, a)
=============================================================================
