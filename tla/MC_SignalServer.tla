--------------------------- MODULE MC_SignalServer ---------------------------
(***************************************************************************)
(* Model values for SignalServer: three client connections, so that one    *)
(* can be registered before Stop, one closed by a failed write and one     *)
(* still in flight when Stop ranges; two published signals.                *)
(***************************************************************************)
EXTENDS SignalServer

CONSTANTS c1, c2, c3

MCConns == {c1, c2, c3}
=============================================================================
