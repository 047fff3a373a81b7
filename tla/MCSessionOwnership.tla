------------------------- MODULE MCSessionOwnership -------------------------
(* Small instance of SessionOwnership for TLC: two processes, two sessions. *)
EXTENDS SessionOwnership, TLC
CONSTANTS p1, p2, s1, s2
\* One process that may be stopped, and one that changes its session once.
LoadsOf == (p1 :> 1) @@ (p2 :> 2)
=============================================================================
