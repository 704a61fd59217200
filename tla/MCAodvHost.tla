----------------------------- MODULE MCAodvHost -----------------------------
(***************************************************************************)
(* Small instances of AodvHost for TLC.                                    *)
(***************************************************************************)
EXTENDS AodvHost

CONSTANTS a, b   \* the two other hosts

\* RREQs and RREPs are about a route to a, of this host or of b
ToA == {<<a, Self>>, <<a, b>>}
=============================================================================
