---------------------------- MODULE MCContextLog ----------------------------
(* Small instances of ContextLog for TLC: one file, and sizes in characters. *)
EXTENDS ContextLog

CONSTANT f
MCOutputSizes == {18}
MCDeltaSizes == {4}
MCAnswerSizes == {6}
MCReportSizes == {9}
MCRatios == {150}
None == {}
=============================================================================
