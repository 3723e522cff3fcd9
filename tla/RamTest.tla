------------------------------ MODULE RamTest ------------------------------
(***************************************************************************)
(* bootloader/ramtest.asm, with xramtest.asm and romtest.asm, which differ *)
(* from it in START and END only: for every bit, a byte with only that bit *)
(* and a byte with all others are written to the whole memory and read     *)
(* back, around the registers; an address that reads another byte is       *)
(* printed with the bits that differ, and a Z at the end.  An action is a  *)
(* turn of a loop.  A byte is the set of its bits that are one.            *)
(***************************************************************************)
EXTENDS Integers, FiniteSets, Sequences

CONSTANTS
  BITS,        \* 8
  ADDRS,       \* 65536
  REGS, AFTER, \* where the registers begin, and the first address past them
  Layouts,     \* the programs: START and END of each
  Wirings,     \* how addresses may reach the cells of a memory: functions
  Stuck        \* what bits may be stuck: sets of [addr, bit, one]

Bits == 0 .. BITS - 1
Address == 0 .. ADDRS - 1
Registers == REGS .. AFTER - 1

ASSUME RamTestAssumption ==
  /\ BITS \in Nat \ {0} /\ ADDRS \in Nat \ {0}
  /\ REGS \in Address /\ AFTER \in Address /\ REGS < AFTER
  /\ \A l \in Layouts : {l.start, l.end} \subseteq Address \ Registers
  /\ \A w \in Wirings : Address \subseteq DOMAIN w
  /\ \A f \in Stuck : \A d, e \in f :
       d.addr \in Address /\ d.bit \in Bits /\ (d.addr = e.addr /\ d.bit = e.bit => d.one = e.one)

(* The programs test upward to END, which is 0 past the last address.      *)
ASSUME LayoutAssumption == \A l \in Layouts : l.start < l.end \/ l.end = 0

VARIABLES
  layout, wiring, stuck,   \* the program, and the memory it runs on
  pc,          \* the loop
  b,           \* B: the byte written
  k,           \* which call of testram it is
  y,           \* Y: the address
  cells,       \* what the cells hold
  printed      \* the lines printed: the byte written, the address, and the bits that differ

vars == <<layout, wiring, stuck, pc, b, k, y, cells, printed>>
memory == <<layout, wiring, stuck>>

(* B at the i-th call of testram.                                          *)
Pattern(i) ==
  LET bit == (i + 1) \div 2 - 1 IN IF i % 2 = 1 THEN {bit} ELSE Bits \ {bit}

Init ==
  /\ layout \in Layouts /\ wiring \in Wirings /\ stuck \in Stuck
  /\ pc = "fill" /\ k = 1 /\ b = Pattern(1) /\ y = layout.start
  /\ cells = [c \in {wiring[a] : a \in Address} |-> {}]
  /\ printed = {}

-----------------------------------------------------------------------------
Differ(u, v) == (u \ v) \cup (v \ u)

(* A bit that is stuck is so for its address, when it is read.             *)
Read(a) ==
  (cells[wiring[a]] \cup {d.bit : d \in {e \in stuck : e.addr = a /\ e.one}})
     \ {d.bit : d \in {e \in stuck : e.addr = a /\ ~ e.one}}

(* Mutants: 0x1040 is taken for the last register, or a digit dropped.     *)
FollowingPast(a) ==
  LET z == (a + 1) % ADDRS IN IF z = REGS THEN AFTER + 1 ELSE z
FollowingTypo(a) ==
  LET z == (a + 1) % ADDRS IN IF z = REGS THEN layout.start ELSE z

(* iny, and over the registers.                                            *)
Following(a) ==
  LET z == (a + 1) % ADDRS IN IF z = REGS THEN AFTER ELSE z

Fill ==
  /\ pc = "fill"
  /\ cells' = [cells EXCEPT ![wiring[y]] = b]
  /\ LET z == Following(y)
     IN  IF z = layout.end THEN pc' = "check" /\ y' = layout.start
                           ELSE pc' = pc /\ y' = z
  /\ UNCHANGED <<memory, b, k, printed>>

(* eora leaves in A the bits that differ.                                  *)
Fail(a, x) ==
  printed' = IF x = {} THEN printed ELSE printed \cup {[byte |-> b, addr |-> a, bits |-> x]}

CheckReadsAll ==
  /\ pc = "check"
  /\ Fail(y, IF Read(y) = b THEN {} ELSE Bits)
  /\ LET z == Following(y)
     IN  IF z # layout.end THEN y' = z /\ UNCHANGED <<pc, b, k>>
         ELSE /\ y' = layout.start
              /\ IF k = 2 * BITS THEN pc' = "done" /\ UNCHANGED <<b, k>>
                                 ELSE pc' = "fill" /\ k' = k + 1 /\ b' = Pattern(k + 1)
  /\ UNCHANGED <<memory, cells>>

Check ==
  /\ pc = "check"
  /\ Fail(y, Differ(Read(y), b))
  /\ LET z == Following(y)
     IN  IF z # layout.end THEN y' = z /\ UNCHANGED <<pc, b, k>>
         ELSE /\ y' = layout.start
              /\ IF k = 2 * BITS THEN pc' = "done" /\ UNCHANGED <<b, k>>
                                 ELSE pc' = "fill" /\ k' = k + 1 /\ b' = Pattern(k + 1)
  /\ UNCHANGED <<memory, cells>>

Next == Fill \/ Check

Spec == Init /\ [][Next]_vars /\ WF_vars(Next)
-----------------------------------------------------------------------------
(* The addresses the program's header says it tests (ramtest.asm 8-9,      *)
(* romtest.asm 8): from START to the one before END, but the registers.    *)
Tested ==
  LET last == (layout.end + ADDRS - 1) % ADDRS IN (layout.start .. last) \ Registers

(* Every line printed names a bit stuck at that address, at the value that *)
(* the byte written does not have there, and all such bits: a memory that  *)
(* has none is never complained of, also when its address lines are joined *)
(* or cut, which this test does not find, and the registers are not taken  *)
(* for memory (ramtest.asm 9).                                             *)
PrintedAreStuck ==
  \A p \in printed :
    /\ p.addr \in Tested
    /\ p.bits = {d.bit : d \in {e \in stuck : e.addr = p.addr /\ (e.one <=> e.bit \notin p.byte)}}
    /\ p.bits # {}

(* When the test is done, every bit stuck at an address that the program's *)
(* header names was printed.                                               *)
StuckArePrinted ==
  pc = "done" =>
    \A d \in stuck : d.addr \in Tested => \E p \in printed : p.addr = d.addr /\ d.bit \in p.bits

(* Every program comes to its Z, also romtest, whose END is past the last  *)
(* address.                                                                *)
TestEnds == <>(pc = "done")
=============================================================================
