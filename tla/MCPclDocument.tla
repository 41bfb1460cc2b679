----------------------------- MODULE MCPclDocument -----------------------------
(***************************************************************************)
(* Small instances of the PCL plugin with its generators for TLC.          *)
(***************************************************************************)
EXTENDS PclDocument

(* Pages that use only one buffer of a few, or each and one of them twice. *)
MixedPages == {1, 4}

(* With eight buffers: the shortest page of which any number leaves room   *)
(* in the queue, two having more stripes than there are buffers, and one   *)
(* that uses a buffer twice.                                               *)
RealPages == {5, 9}

AllLanguages == {"PCLm", "PWG"}
=============================================================================
