---------------------------- MODULE MCAodvDaemon ----------------------------
(***************************************************************************)
(* Small instances of AodvDaemon for TLC.                                  *)
(***************************************************************************)
EXTENDS AodvDaemon, TLC

AllRoutes == {p \in Addr \X Addr : p[1] # p[2]}

PeerSymmetry == Permutations(Addr \ {Self})
=============================================================================
