----------------------------- MODULE MCChatLoop -----------------------------
(* Small instances of ChatLoop for TLC: see the .cfg files.                 *)
EXTENDS ChatLoop, TLC

CONSTANTS s1, s2, t1, t2, t3, a1

=============================================================================
