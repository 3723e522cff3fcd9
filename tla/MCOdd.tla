------------------------------- MODULE MCOdd --------------------------------
(* Model checking instance of Malloc: a program whose sizes leave less than *)
(* the room of a header and a link when a block is split.                  *)
EXTENDS Malloc


=============================================================================
