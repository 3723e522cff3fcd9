------------------------------ MODULE MCHdlcRx ------------------------------
(* Model checking instance of HdlcRx: SOF and ESC, the two bytes they are  *)
(* sent as, and one that is on neither side, in a buffer of three bytes.   *)
EXTENDS HdlcRx

MCByte == {SOF, ESC, 94, 93, 200}
=============================================================================
