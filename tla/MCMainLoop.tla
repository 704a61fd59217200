----------------------------- MODULE MCMainLoop -----------------------------
(***************************************************************************)
(* A small instance of MainLoop for TLC.                                   *)
(***************************************************************************)
EXTENDS MainLoop

Delays == {-1, 0, 1, 2}
=============================================================================
