------------------------------ MODULE MCWatch ------------------------------
(* Two keys, of which a subscription watches one or both.                   *)
EXTENDS Watch

CONSTANTS k1, k2
=============================================================================
