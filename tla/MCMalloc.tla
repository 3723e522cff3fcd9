------------------------------ MODULE MCMalloc ------------------------------
(* Model checking instance of Malloc: a program that keeps to sizes of 2   *)
(* modulo 4, on a heap of a few granules.                                  *)
EXTENDS Malloc

ASSUME Granular
=============================================================================
