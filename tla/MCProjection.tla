---------------------------- MODULE MCProjection ----------------------------
(* The projection over short logs with a streamed text and a call or two.   *)
EXTENDS Projection
=============================================================================
