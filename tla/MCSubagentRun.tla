---------------------------- MODULE MCSubagentRun ----------------------------
(* Small instances of SubagentRun for TLC: see the .cfg files.              *)
EXTENDS SubagentRun, TLC

CONSTANTS c1, c2, c3

\* A tool that is abandoned, one that is killed, one that is dropped.
MCKinds == (c1 :> "local") @@ (c2 :> "shell") @@ (c3 :> "network")

=============================================================================
