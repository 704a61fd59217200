------------------------------- MODULE MCKaodv ------------------------------
(***************************************************************************)
(* Small instances of Kaodv for TLC: packets are interchangeable.          *)
(***************************************************************************)
EXTENDS Kaodv, TLC

KaodvSymmetry == Permutations(Packet)
=============================================================================
