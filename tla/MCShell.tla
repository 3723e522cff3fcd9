------------------------------- MODULE MCShell -------------------------------
(* Model checking instance of Shell: a buffer of five bytes, two arguments,*)
(* two letters, a space, a zero, the keys that edit and the one that ends. *)
EXTENDS Shell

MCKeys == {97, 98, 32, 0, 8, 13}
MCTable == << [name |-> <<97>>, answer |-> "ECHO"],
              [name |-> <<97, 98>>, answer |-> "AS11 TODO"] >>
MCFill == {97}
=============================================================================
