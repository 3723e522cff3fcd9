--------------------------------- MODULE MM ---------------------------------
(***************************************************************************)
(* monitor/mm.asm, the 68HC11 version of the heap's allocator, with the    *)
(* registers its behaviour depends on.  An action is one turn of a loop of *)
(* the code (.Lagain, .Lbrowsenext, .Lcoalloop), with the straight-line    *)
(* code that follows the turn that leaves it.                              *)
(* The code goes wrong where tests/malloc.c (module Malloc) does not, when *)
(* the program takes one of three liberties:                               *)
(*   "stale"  it asks for exactly the size of a zone while scratch register*)
(*            st1 does not hold the next of that zone;                     *)
(*   "above"  it frees a zone above the first free one;                    *)
(*   "empty"  it asks for a zone when none is free.                        *)
(***************************************************************************)
EXTENDS HeapMemory

CONSTANTS
  Sizes,       \* the sizes the program asks for
  UserBytes,   \* the bytes it writes into its blocks
  Junk,        \* what other code leaves in a scratch register
  Liberties    \* what the program does that the code is not made for

ASSUME ProgramAssumption ==
  /\ Sizes \subseteq Word
  /\ UserBytes \subseteq Byte
  /\ Junk \subseteq Word
  /\ Liberties \subseteq {"stale", "above", "empty"}

VARIABLES
  pc,          \* "idle", or the loop the call in progress is in
  mem,         \* the bytes of the heap
  head,        \* head
  sp0,         \* the parameter: a size, or the address of the zone to free
  st0,         \* mm_alloc: the zone before st3
  st1,         \* mm_alloc: nxtadr; mm_free leaves the last nxt there
  st3,         \* mm_alloc: the zone the loop is at
  x,           \* X in the loops of mm_free: cur
  live,        \* the zones the program holds: records [ptr, size]
  free,        \* history: the addresses of the zones on the free list
  lost         \* history: the zones mm_free was given and did not list

vars == <<pc, mem, head, sp0, st0, st1, st3, x, live, free, lost>>

-----------------------------------------------------------------------------
(* mm_init.  No code sets the soft registers.                              *)
Init ==
  /\ mem = OneBlock([a \in HEAP |-> 0])
  /\ head = MEMSTART
  /\ free = {MEMSTART}
  /\ live = {}
  /\ lost = {}
  /\ pc = "idle"
  /\ sp0 = 0
  /\ st0 \in Junk /\ st1 \in Junk /\ st3 \in Junk
  /\ x = EOL

(* st1 is read later even when the call has not written it; sp0 is not.    *)
Return ==
  /\ pc' = "idle"
  /\ sp0' = 0
  /\ x' = EOL

-----------------------------------------------------------------------------
(* mm_alloc                                                                *)

(* Zone a is the one the scan for n stops at.                              *)
Fits(n, a) ==
  /\ SizeIn(mem, a) >= n
  /\ \A b \in free : b < a => SizeIn(mem, b) < n

(* Soft registers st0 to st3 belong to any code that runs between calls.   *)
AllocCall(n) ==
  /\ pc = "idle"
  /\ st0' \in {st0} \cup Junk
  /\ st1' \in {st1} \cup Junk
  /\ \/ "stale" \in Liberties
     \/ \A a \in free : Fits(n, a) /\ SizeIn(mem, a) = n => st1' = NextIn(mem, a)
  /\ "empty" \in Liberties \/ free # {}
  /\ pc' = "again"
  /\ sp0' = n
  /\ st3' = head
  /\ UNCHANGED <<mem, head, x, live, free, lost>>

(* .Lalloc, with nxtadr in st1: drop zone st3 from the list in m.          *)
Take(m, nxtadr) ==
  /\ IF st3 = head
     THEN head' = nxtadr /\ mem' = m
     ELSE head' = head /\ mem' = POKE(m, st0 + NEXT, nxtadr)
  /\ live' = live \cup {[ptr |-> st3 + NEXT, size |-> sp0]}
  /\ Return
  /\ UNCHANGED <<st0, st3, lost>>

(* beq .Lalloc: st1 is what it was before the call.                        *)
AllocExact ==
  /\ pc = "again"
  /\ SizeIn(mem, st3) = sp0
  /\ Take(mem, st1)
  /\ free' = free \ {st3}
  /\ UNCHANGED st1

(* Mutant: the split forgets the header of the zone that is given.         *)
AllocSplitWithoutHeader ==
  LET nxtadr == W16(sp0 + st3) IN
  /\ pc = "again"
  /\ SizeIn(mem, st3) > sp0
  /\ st1' = nxtadr
  /\ Take(SplitAt(mem, st3, nxtadr, sp0), nxtadr)
  /\ free' = (free \ {st3}) \cup {nxtadr}

AllocSplit ==
  LET nxtadr == W16(sp0 + 2 + st3) IN
  /\ pc = "again"
  /\ SizeIn(mem, st3) > sp0
  /\ st1' = nxtadr
  /\ Take(SplitAt(mem, st3, nxtadr, sp0), nxtadr)
  /\ free' = (free \ {st3}) \cup {nxtadr}

(* Mutant: the end of the list is not tested.                              *)
AllocNextBlind ==
  /\ pc = "again"
  /\ SizeIn(mem, st3) < sp0
  /\ st0' = st3
  /\ st3' = NextIn(mem, st3)
  /\ UNCHANGED <<pc, mem, head, sp0, st1, x, live, free, lost>>

AllocNext ==
  /\ pc = "again"
  /\ SizeIn(mem, st3) < sp0
  /\ NextIn(mem, st3) # EOL
  /\ st0' = st3
  /\ st3' = NextIn(mem, st3)
  /\ UNCHANGED <<pc, mem, head, sp0, st1, x, live, free, lost>>

(* Mutant: mm_alloc returns NULL at the first zone that is too small.      *)
AllocFailEarly ==
  /\ pc = "again"
  /\ SizeIn(mem, st3) < sp0
  /\ st0' = st3
  /\ Return
  /\ UNCHANGED <<mem, head, st1, st3, live, free, lost>>

AllocFail ==
  /\ pc = "again"
  /\ SizeIn(mem, st3) < sp0
  /\ NextIn(mem, st3) = EOL
  /\ st0' = st3
  /\ Return
  /\ UNCHANGED <<mem, head, st1, st3, live, free, lost>>

-----------------------------------------------------------------------------
(* mm_free                                                                 *)

FreeCall(b) ==
  LET adr == b.ptr - 2 IN
  /\ pc = "idle"
  /\ "above" \in Liberties \/ adr < head
  /\ sp0' = adr
  /\ live' = live \ {b}
  /\ IF adr < head
     THEN /\ mem' = POKE(mem, adr + NEXT, head)
          /\ head' = adr
          /\ free' = free \cup {adr}
          /\ pc' = "coalesce"
     ELSE /\ pc' = "browse"
          /\ UNCHANGED <<mem, head, free>>
  /\ x' = head'
  /\ UNCHANGED <<st0, st1, st3, lost>>

BrowseNext ==
  /\ pc = "browse"
  /\ x # EOL
  /\ NextIn(mem, x) <= sp0
  /\ x' = NextIn(mem, x)
  /\ UNCHANGED <<pc, mem, head, sp0, st0, st1, st3, live, free, lost>>

(* Mutant: only the link of the zone before is written.                    *)
FreeInsertHalf ==
  /\ pc = "browse"
  /\ x # EOL
  /\ NextIn(mem, x) > sp0
  /\ mem' = POKE(mem, x + NEXT, sp0)
  /\ lost' = lost \cup {sp0}
  /\ pc' = "coalesce"
  /\ x' = head
  /\ UNCHANGED <<head, sp0, st0, st1, st3, live, free>>

(* .Leol stores nxt where it was read, and cur as the next of the zone.    *)
FreeInsert ==
  /\ pc = "browse"
  /\ x # EOL
  /\ NextIn(mem, x) > sp0
  /\ mem' = POKE(POKE(mem, x + NEXT, NextIn(mem, x)), sp0 + NEXT, x)
  /\ lost' = lost \cup {sp0}
  /\ pc' = "coalesce"
  /\ x' = head
  /\ UNCHANGED <<head, sp0, st0, st1, st3, live, free>>

(* Mutant: the two incs, for the header of cur, are missing.               *)
JoinedWithoutHeader == W16(x + SizeIn(mem, x)) = NextIn(mem, x)

(* cpd compares 16 bits: cur + 2 + siz wraps.                              *)
Joined == W16(x + 2 + SizeIn(mem, x)) = NextIn(mem, x)

(* Mutant: .Lcoalnext goes back to .Lcoalesce.                             *)
CoalesceAgain ==
  /\ pc = "coalesce"
  /\ x # EOL
  /\ st1' = NextIn(mem, x)
  /\ st0' = SizeIn(mem, x)
  /\ IF Joined
     THEN /\ mem' = Absorb(mem, x, NextIn(mem, x))
          /\ free' = free \ {NextIn(mem, x)}
     ELSE UNCHANGED <<mem, free>>
  /\ x' = head
  /\ UNCHANGED <<pc, head, sp0, st3, live, lost>>

Coalesce ==
  /\ pc = "coalesce"
  /\ x # EOL
  /\ st1' = NextIn(mem, x)
  /\ st0' = SizeIn(mem, x)
  /\ IF Joined
     THEN /\ mem' = Absorb(mem, x, NextIn(mem, x))
          /\ free' = free \ {NextIn(mem, x)}
          /\ x' = head
     ELSE /\ x' = NextIn(mem, x)
          /\ UNCHANGED <<mem, free>>
  /\ UNCHANGED <<pc, head, sp0, st3, live, lost>>

FreeReturn ==
  /\ pc = "coalesce"
  /\ x = EOL
  /\ Return
  /\ UNCHANGED <<mem, head, st0, st1, st3, live, free, lost>>

-----------------------------------------------------------------------------
Store(b, bytes) ==
  /\ pc = "idle"
  /\ mem' = [a \in DOMAIN mem |-> IF a \in Payload(b) THEN bytes[a] ELSE mem[a]]
  /\ UNCHANGED <<pc, head, sp0, st0, st1, st3, x, live, free, lost>>

Alloc == AllocExact \/ AllocSplit \/ AllocNext \/ AllocFail
Free  == BrowseNext \/ FreeInsert \/ Coalesce \/ FreeReturn

Next ==
  \/ \E n \in Sizes : AllocCall(n)
  \/ Alloc
  \/ \E b \in live : FreeCall(b)
  \/ Free
  \/ \E b \in live : \E bytes \in [Payload(b) -> UserBytes] : Store(b, bytes)

(* The processor runs the code of a call; the program need not call.       *)
Spec     == Init /\ [][Next]_vars
FairSpec == Spec /\ WF_vars(Alloc) /\ WF_vars(Free)
-----------------------------------------------------------------------------
Moving == IF pc = "browse" THEN {sp0} ELSE {}
Held   == { b.ptr - 2 : b \in live }
Zones  == free \cup Held \cup Moving \cup lost

(* README.md: the list of free zones is kept ordered by increasing address,*)
(* at every step of every call.                                            *)
FreeListOrdered == ListOf(mem, head, free)

(* Every byte of the heap is in exactly one zone: free, held by the        *)
(* program, being freed, or lost by an earlier mm_free.                    *)
Tiled == Tiles(mem, Zones)

(* Between calls no two zones of the free list touch.                      *)
Coalesced == pc \in {"idle", "again"} => Apart(mem, free)

(* mm.asm:10, head is the pointer to the first free zone.                  *)
HeadIsFirstFree == Follows(free, -1, head)

(* mm.asm:147 and README.md, mm_free inserts the zone into the free list.  *)
FreedIsListed == lost = {}

(* mm.asm 42-85 and 97-105: at every turn of the search the zone in st3 is *)
(* one of the list, every zone before it is too small, and st0 is the one  *)
(* before it, whose link .Lremlist will write, so what is given is the     *)
(* first zone that fits.  The search of an empty list, which reads the end *)
(* marker as a zone (46-49), is left out with the liberty "empty".         *)
FirstFit ==
  pc = "again" =>
    /\ st3 \in free
    /\ \A a \in free : a < st3 => SizeIn(mem, a) < sp0
    /\ st3 = head \/ (st0 \in free /\ NextIn(mem, st0) = st3)

(* Every call of mm_alloc and of mm_free returns.                          *)
CallsReturn == (pc # "idle") ~> (pc = "idle")

(* The zones of the calls that have returned, and were lost.               *)
Leaked == lost \ (IF pc = "coalesce" THEN {sp0} ELSE {})

CallShown == CASE pc = "idle"  -> "none"
               [] pc = "again" -> "alloc"
               [] OTHER        -> "free"

WantShown == IF pc = "again" THEN sp0 ELSE 0

LeakedBytes == UNION { Span(mem, z) : z \in Leaked }

Contents == [a \in UNION { Payload(b) : b \in live } |-> mem[a]]

(* A program that takes no liberty, but for frees above the first free     *)
(* zone, sees a Heap that may leak what it freed, and nothing else.        *)
Abstract == INSTANCE Heap WITH
  HEAPSTART <- MEMSTART,
  HEAPEND   <- MEMEND,
  call   <- CallShown,
  want   <- WantShown,
  leaked <- LeakedBytes,
  data   <- Contents

IsAHeap == Abstract!Safety

-----------------------------------------------------------------------------
(* A program that keeps to the sizes of 2 modulo 4 and takes no liberty    *)
(* but to free above the first free zone.                                  *)
Careful ==
  /\ MEMSIZE % 4 = 0
  /\ \A n \in Sizes : n % 4 = 2
  /\ Liberties \subseteq {"above"}
=============================================================================
