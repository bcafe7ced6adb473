----------------------------- MODULE MCReceiver -----------------------------
(* Model values for checking Receiver.                                      *)
EXTENDS Receiver

CONSTANTS main, other, RES1, RES2, R1_FUN1, res1
=============================================================================
