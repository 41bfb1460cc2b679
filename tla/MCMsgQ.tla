-------------------------------- MODULE MCMsgQ --------------------------------
(***************************************************************************)
(* A small instance of the message queue for TLC.                          *)
(***************************************************************************)
EXTENDS MsgQ

CONSTANTS t1, t2, t3, m1, m2

ThreeThreads == {t1, t2, t3}
TwoMessages  == {m1, m2}
=============================================================================
