----------------------------- MODULE MCRamTest ------------------------------
(* Model checking instance of RamTest: 16 addresses, with the registers in *)
(* the middle of what ramtest tests, and the end of the memory at that of  *)
(* romtest; one address line at a time cut, or all; up to two stuck bits.  *)
EXTENDS RamTest

MCLayouts == { [start |-> 1, end |-> 8], [start |-> 8, end |-> 12], [start |-> 12, end |-> 0] }

MCWirings ==
  { [a \in 0 .. 15 |-> a], [a \in 0 .. 15 |-> a - (a % 2)], [a \in 0 .. 15 |-> IF (a \div 2) % 2 = 1 THEN a - 2 ELSE a],
    [a \in 0 .. 15 |-> 0] }

Defects == [addr : {1, 3, 5, 6, 7, 8, 11, 12, 15}, bit : 0 .. 2, one : BOOLEAN]
MCStuck ==
  { f \in {{d, e} : d \in Defects, e \in Defects} :
      \A d, e \in f : d.addr = e.addr /\ d.bit = e.bit => d = e } \cup {{}}
=============================================================================
