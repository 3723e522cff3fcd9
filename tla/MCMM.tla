------------------------------ MODULE MCMM ------------------------------
(* Model checking instances of MM: programs that keep to sizes of 2 modulo *)
(* 4, on a heap of a few granules, and take the liberties of the .cfg.     *)
EXTENDS MM

ASSUME MEMSIZE % 4 = 0 /\ \A n \in Sizes : n % 4 = 2
=============================================================================
