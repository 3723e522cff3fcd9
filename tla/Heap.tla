-------------------------------- MODULE Heap --------------------------------
(***************************************************************************)
(* What the sys11 allocator promises to the program that calls it, whatever*)
(* free list it keeps inside: blocks that lie in the heap, that never      *)
(* overlap, whose contents only their owner changes, and a refusal only    *)
(* when no hole of the heap has room for the request.  An allocator that   *)
(* never leaks keeps leaked empty.                                         *)
(* tests/malloc.c (module Malloc) and monitor/mm.asm (module MM) are the   *)
(* two programs compared with it.                                          *)
(***************************************************************************)
EXTENDS Naturals

CONSTANTS
  HEAPSTART,   \* address of the first byte of the heap
  HEAPEND,     \* address of the first byte after the heap
  Sizes        \* the sizes a program asks for

VARIABLES
  call,        \* the call in progress: "none", "alloc" or "free"
  want,        \* the size asked for by the alloc in progress, else 0
  live,        \* the blocks the program owns: records [ptr, size]
  data,        \* the contents of the bytes the program owns
  leaked       \* the bytes a faulty free has put out of use for good

vars == <<call, want, live, data, leaked>>

HEAP  == HEAPSTART .. HEAPEND - 1
Bytes == 0 .. 255

(* A block costs its two byte size header besides its payload.             *)
Extent(b)  == (b.ptr - 2) .. (b.ptr + b.size - 1)
Payload(b) == b.ptr .. (b.ptr + b.size - 1)
Owned(bs)  == UNION { Payload(b) : b \in bs }

(* The bytes that cannot be given.                                         *)
Taken(bs) == leaked \cup UNION { Extent(b) : b \in bs }

(* No hole holds n bytes and their header.                                 *)
NoRoom(bs, n) ==
  \A a \in HEAP :
    a + n + 1 \in HEAP => Taken(bs) \cap (a .. a + n + 1) # {}

-----------------------------------------------------------------------------
Init ==
  /\ call = "none"
  /\ want = 0
  /\ live = {}
  /\ data = [a \in {} |-> 0]
  /\ leaked = {}

Alloc(n) ==
  /\ call = "none"
  /\ call' = "alloc"
  /\ want' = n
  /\ UNCHANGED <<live, data, leaked>>

(* The new block lies in the heap and meets no other; its contents are     *)
(* whatever was there, those of the other blocks are kept.                 *)
Grant(b) ==
  /\ call = "alloc"
  /\ b.size = want
  /\ Extent(b) \subseteq HEAP
  /\ Extent(b) \cap Taken(live) = {}
  /\ call' = "none"
  /\ want' = 0
  /\ live' = live \cup {b}
  /\ data' \in [Owned(live') -> Bytes]
  /\ \A a \in Owned(live) : data'[a] = data[a]
  /\ UNCHANGED leaked

Refuse ==
  /\ call = "alloc"
  /\ NoRoom(live, want)
  /\ call' = "none"
  /\ want' = 0
  /\ UNCHANGED <<live, data, leaked>>

Free(b) ==
  /\ call = "none"
  /\ call' = "free"
  /\ live' = live \ {b}
  /\ data' = [a \in Owned(live') |-> data[a]]
  /\ UNCHANGED <<want, leaked>>

Freed ==
  /\ call = "free"
  /\ call' = "none"
  /\ leaked \subseteq leaked' /\ leaked' \cap Taken(live) \subseteq leaked
  /\ UNCHANGED <<want, live, data>>

(* The program overwrites a block of its own, between two calls.           *)
Store(b) ==
  /\ call = "none"
  /\ data' \in [Owned(live) -> Bytes]
  /\ \A a \in Owned(live) \ Payload(b) : data'[a] = data[a]
  /\ UNCHANGED <<call, want, live, leaked>>

Next ==
  \/ \E n \in Sizes : Alloc(n)
  \/ \E n \in Sizes, p \in HEAP : Grant([ptr |-> p, size |-> n])
  \/ Refuse
  \/ \E b \in live : Free(b) \/ Store(b)
  \/ Freed

Safety == Init /\ [][Next]_vars
=============================================================================
