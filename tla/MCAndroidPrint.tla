--------------------------- MODULE MCAndroidPrint ---------------------------
(***************************************************************************)
(* AndroidPrint on one job.                                                *)
(***************************************************************************)
EXTENDS AndroidPrint

CONSTANTS j1

OneJob == {j1}
=============================================================================
