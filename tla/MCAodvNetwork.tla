--------------------------- MODULE MCAodvNetwork ----------------------------
(***************************************************************************)
(* Three hosts in a line, a - b - c, for TLC: a and c reach each other     *)
(* only through b.                                                         *)
(***************************************************************************)
EXTENDS AodvNetwork

CONSTANTS a, b, c   \* the hosts

Hosts == {a, b, c}

Line == {<<a, b>>, <<b, a>>, <<b, c>>, <<c, b>>}

AtoC == {<<a, c>>}
=============================================================================
