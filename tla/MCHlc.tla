------------------------------- MODULE MCHlc -------------------------------
(* One node's clock with 3 wall values and a counter of 3 values, so that  *)
(* the counter fills up, carries and saturates within a few calls.         *)
EXTENDS Hlc
=============================================================================
