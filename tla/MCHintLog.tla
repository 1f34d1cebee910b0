----------------------------- MODULE MCHintLog -----------------------------
(* Small instances of the hint log.                                        *)
EXTENDS HintLog
=============================================================================
