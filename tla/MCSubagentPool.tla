--------------------------- MODULE MCSubagentPool ---------------------------
(* Small instances of SubagentPool for TLC: see the .cfg files.             *)
EXTENDS SubagentPool, TLC

CONSTANTS d1, d2, d3, k1, k2, k3, t1

\* Three (agent, task) pairs.
MCTaskOf == (d1 :> k1) @@ (d2 :> k2) @@ (d3 :> k3)

=============================================================================
