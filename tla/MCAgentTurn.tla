----------------------------- MODULE MCAgentTurn -----------------------------
(* Small instances of AgentTurn for TLC: see the .cfg files.                *)
EXTENDS AgentTurn, TLC

CONSTANTS c1, c2, c3, c4

\* A chat turn: a dispatch, a question, a tool that is killed and one that is
\* abandoned.
MCChatKinds == (c1 :> "dispatch") @@ (c2 :> "shell") @@ (c3 :> "ask")
                 @@ (c4 :> "local")

=============================================================================
