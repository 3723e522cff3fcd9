------------------------------- MODULE Malloc -------------------------------
(***************************************************************************)
(* tests/malloc.c, the reference algorithm of the monitor's heap: a list of*)
(* free blocks kept in the heap itself.  Every block starts with a 16-bit  *)
(* big-endian SIZE; a free one keeps the address of the NEXT free block in *)
(* its first two payload bytes.  An action is one iteration of a loop of   *)
(* the code, with the straight-line code that follows the iteration that   *)
(* leaves the loop.                                                        *)
(***************************************************************************)
EXTENDS HeapMemory

CONSTANTS
  Sizes,       \* the sizes the program asks for
  UserBytes    \* the bytes it writes into its blocks

ASSUME ProgramAssumption == Sizes \subseteq Word /\ UserBytes \subseteq Byte

(* The program asks for sizes that keep every block, header included, a    *)
(* multiple of four bytes long: the room a free block's header and link    *)
(* need.  malloc.c neither rounds a request nor refuses one.               *)
Granular ==
  /\ MEMSIZE % 4 = 0
  /\ \A n \in Sizes : n % 4 = 2

VARIABLES
  pc,          \* "idle", or the loop the call in progress is in
  mem,         \* memory[], over the bytes of the heap
  head,        \* head
  size,        \* the argument of mem_alloc in progress
  adr,         \* adr, in mem_alloc and mem_free
  prv,         \* prvadr
  cur,         \* cur
  live,        \* the blocks the program holds: records [ptr, size]
  free         \* history: the addresses of the blocks on the free list

vars == <<pc, mem, head, size, adr, prv, cur, live, free>>

-----------------------------------------------------------------------------
(* mem_init                                                                *)
Init ==
  /\ mem = OneBlock([a \in HEAP |-> 0])
  /\ head = MEMSTART
  /\ free = {MEMSTART}
  /\ live = {}
  /\ pc = "idle"
  /\ size = 0
  /\ adr = EOL /\ prv = EOL /\ cur = EOL

(* The locals of a call are gone when it returns.                          *)
Return ==
  /\ pc' = "idle"
  /\ size' = 0
  /\ adr' = EOL /\ prv' = EOL /\ cur' = EOL

-----------------------------------------------------------------------------
(* mem_alloc: the loop walks adr, and prv behind it, down the free list.   *)

AllocCall(n) ==
  /\ pc = "idle"
  /\ pc' = "scan"
  /\ size' = n
  /\ adr' = head
  /\ prv' = EOL
  /\ UNCHANGED <<mem, head, cur, live, free>>

(* Mutant: the header of the block that is given is forgotten.             *)
RestWithoutHeader == W16(adr + size)

Rest == W16(adr + 2 + size)

(* Mutant: a block that is not the head stays on the list.                 *)
UnlinkHeadOnly(m) ==
  /\ head' = IF adr = head THEN NextIn(m, adr) ELSE head
  /\ mem' = m

(* Block adr, of the right size in m, leaves the list.                     *)
Unlink(m) ==
  LET nxt == NextIn(m, adr)
  IN  IF adr = head
      THEN head' = nxt /\ mem' = m
      ELSE head' = head /\ mem' = POKE(m, prv + NEXT, nxt)

AllocTake ==
  /\ pc = "scan"
  /\ adr # EOL
  /\ SizeIn(mem, adr) = size
  /\ Unlink(mem)
  /\ free' = free \ {adr}
  /\ live' = live \cup {[ptr |-> adr + NEXT, size |-> size]}
  /\ Return

(* Mutant: an exact fit is split too.                                      *)
AllocSplitExact ==
  /\ pc = "scan"
  /\ adr # EOL
  /\ SizeIn(mem, adr) >= size
  /\ Unlink(SplitAt(mem, adr, Rest, size))
  /\ free' = (free \ {adr}) \cup {Rest}
  /\ live' = live \cup {[ptr |-> adr + NEXT, size |-> size]}
  /\ Return

AllocSplit ==
  /\ pc = "scan"
  /\ adr # EOL
  /\ SizeIn(mem, adr) > size
  /\ Unlink(SplitAt(mem, adr, Rest, size))
  /\ free' = (free \ {adr}) \cup {Rest}
  /\ live' = live \cup {[ptr |-> adr + NEXT, size |-> size]}
  /\ Return

(* Mutant: the search gives up at the first block that is too small.       *)
AllocNextGivesUp ==
  /\ pc = "scan"
  /\ adr # EOL
  /\ SizeIn(mem, adr) < size
  /\ prv' = adr
  /\ adr' = EOL
  /\ UNCHANGED <<pc, mem, head, size, cur, live, free>>

AllocNext ==
  /\ pc = "scan"
  /\ adr # EOL
  /\ SizeIn(mem, adr) < size
  /\ prv' = adr
  /\ adr' = NextIn(mem, adr)
  /\ UNCHANGED <<pc, mem, head, size, cur, live, free>>

AllocFail ==
  /\ pc = "scan"
  /\ adr = EOL
  /\ Return
  /\ UNCHANGED <<mem, head, live, free>>

-----------------------------------------------------------------------------
(* mem_free: link the block at its place, then merge neighbours until no   *)
(* pair is left.                                                           *)

(* Mutant: a block below the head is searched for like the others.         *)
FreeCallBrowses(b) ==
  /\ pc = "idle"
  /\ live' = live \ {b}
  /\ adr' = b.ptr - 2
  /\ cur' = head
  /\ pc' = "browse"
  /\ UNCHANGED <<mem, head, free, size, prv>>

FreeCall(b) ==
  LET a == b.ptr - 2 IN
  /\ pc = "idle"
  /\ live' = live \ {b}
  /\ adr' = a
  /\ IF a < head
     THEN /\ mem' = POKE(mem, a + NEXT, head)
          /\ head' = a
          /\ free' = free \cup {a}
          /\ pc' = "coalesce"
     ELSE /\ pc' = "browse"
          /\ UNCHANGED <<mem, head, free>>
  /\ cur' = head'
  /\ UNCHANGED <<size, prv>>

(* The loop's own exit, cur = EOL, would leave nxt unset; BrowseFinds says *)
(* the break always comes first.                                           *)
BrowseNext ==
  LET nxt == NextIn(mem, cur) IN
  /\ pc = "browse"
  /\ cur # EOL
  /\ nxt <= adr
  /\ cur' = nxt
  /\ UNCHANGED <<pc, mem, head, size, adr, prv, live, free>>

(* Mutant: the two links are written the wrong way round.                  *)
FreeInsertSwapped ==
  LET nxt == NextIn(mem, cur) IN
  /\ pc = "browse"
  /\ cur # EOL
  /\ nxt > adr
  /\ mem' = POKE(POKE(mem, cur + NEXT, nxt), adr + NEXT, cur)
  /\ free' = free \cup {adr}
  /\ pc' = "coalesce"
  /\ cur' = head
  /\ UNCHANGED <<head, size, adr, prv, live>>

FreeInsert ==
  LET nxt == NextIn(mem, cur) IN
  /\ pc = "browse"
  /\ cur # EOL
  /\ nxt > adr
  /\ mem' = POKE(POKE(mem, adr + NEXT, nxt), cur + NEXT, adr)
  /\ free' = free \cup {adr}
  /\ pc' = "coalesce"
  /\ cur' = head
  /\ UNCHANGED <<head, size, adr, prv, live>>

(* The comparison is in int: cur + siz + 2 does not wrap.                  *)
Joined(c) == NextIn(mem, c) = c + SizeIn(mem, c) + 2

(* Mutant: after a merge the scan goes on from the next block.             *)
MergeGoesOn ==
  LET nxt == NextIn(mem, cur) IN
  /\ pc = "coalesce"
  /\ cur # EOL
  /\ Joined(cur)
  /\ mem' = Absorb(mem, cur, nxt)
  /\ free' = free \ {nxt}
  /\ cur' = NextIn(mem', cur)
  /\ UNCHANGED <<pc, head, size, adr, prv, live>>

Merge ==
  LET nxt == NextIn(mem, cur) IN
  /\ pc = "coalesce"
  /\ cur # EOL
  /\ Joined(cur)
  /\ mem' = Absorb(mem, cur, nxt)
  /\ free' = free \ {nxt}
  /\ cur' = head
  /\ UNCHANGED <<pc, head, size, adr, prv, live>>

(* Mutant: the scan starts again whether or not a pair was merged.         *)
MergeNextAgain ==
  /\ pc = "coalesce"
  /\ cur # EOL
  /\ ~ Joined(cur)
  /\ cur' = head
  /\ UNCHANGED <<pc, mem, head, size, adr, prv, live, free>>

MergeNext ==
  /\ pc = "coalesce"
  /\ cur # EOL
  /\ ~ Joined(cur)
  /\ cur' = NextIn(mem, cur)
  /\ UNCHANGED <<pc, mem, head, size, adr, prv, live, free>>

FreeReturn ==
  /\ pc = "coalesce"
  /\ cur = EOL
  /\ Return
  /\ UNCHANGED <<mem, head, live, free>>

-----------------------------------------------------------------------------
(* The program that owns the blocks writes to them between its calls.      *)
Store(b, bytes) ==
  /\ pc = "idle"
  /\ mem' = [a \in DOMAIN mem |-> IF a \in Payload(b) THEN bytes[a] ELSE mem[a]]
  /\ UNCHANGED <<pc, head, size, adr, prv, cur, live, free>>

Alloc == AllocTake \/ AllocSplit \/ AllocNext \/ AllocFail
Free  == BrowseNext \/ FreeInsert \/ Merge \/ MergeNext \/ FreeReturn

Next ==
  \/ \E n \in Sizes : AllocCall(n)
  \/ Alloc
  \/ \E b \in live : FreeCall(b)
  \/ Free
  \/ \E b \in live : \E bytes \in [Payload(b) -> UserBytes] : Store(b, bytes)

(* The processor runs the code of a call: nothing else is needed for its   *)
(* next step.  Whether the program calls at all is left open.              *)
Fairness == WF_vars(Alloc) /\ WF_vars(Free)

Spec     == Init /\ [][Next]_vars
FairSpec == Spec /\ Fairness

-----------------------------------------------------------------------------
(* The block mem_free is about to link is on no list and with no owner.    *)
Moving == IF pc = "browse" THEN {adr} ELSE {}
Held   == { b.ptr - 2 : b \in live }
Blocks == free \cup Held \cup Moving

(* Type invariant: addresses are 16 bits wide and memory, of which the     *)
(* allocator uses the bytes of the heap, holds bytes.                      *)
TypeOK ==
  /\ pc \in {"idle", "scan", "browse", "coalesce"}
  /\ mem \in [HEAP -> Byte]
  /\ size \in Word
  /\ {head, adr, prv, cur} \subseteq Word
  /\ live \in SUBSET [ptr : Word, size : Word]
  /\ free \subseteq HEAP

(* README.md: the list of free blocks is kept ordered by increasing        *)
(* address.  At every step of every call it runs through the free blocks,  *)
(* each once and in that order, and ends.                                  *)
FreeListOrdered == ListOf(mem, head, free)

(* No byte is lost and none has two uses: every byte of the heap belongs   *)
(* to exactly one block, free, held by the program or being freed.         *)
Tiled == Tiles(mem, Blocks)

(* Between calls no two free blocks touch: mem_free left no pair to merge. *)
Coalesced == pc \in {"idle", "scan"} => Apart(mem, free)

(* The header of a block the program holds is the size it asked for, and   *)
(* no two blocks of the program share a header, until it frees the block.  *)
HeadersKept ==
  /\ \A b \in live : SizeIn(mem, b.ptr - 2) = b.size
  /\ \A b, c \in live : b.ptr = c.ptr => b = c

(* The loop of mem_free that looks for the insertion point ends by its     *)
(* break, so nxt is set when it is used.                                   *)
BrowseFinds == pc = "browse" => cur \in free /\ cur < adr

(* Every call of mem_alloc and of mem_free returns.                        *)
CallsReturn == (pc # "idle") ~> (pc = "idle")

(* The refinement mapping: the call in progress and the bytes of the       *)
(* blocks the program holds.                                               *)
CallShown == CASE pc = "idle" -> "none"
               [] pc = "scan" -> "alloc"
               [] OTHER       -> "free"

Contents == [a \in UNION { Payload(b) : b \in live } |-> mem[a]]

(* What the program sees of its calls, and of the bytes it owns, is what   *)
(* a Heap shows: the list, the headers and the loops implement it.         *)
Abstract == INSTANCE Heap WITH
  HEAPSTART <- MEMSTART,
  HEAPEND   <- MEMEND,
  call   <- CallShown,
  want   <- size,
  leaked <- {},
  data   <- Contents

IsAHeap == Abstract!Safety
=============================================================================
