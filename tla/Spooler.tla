-------------------------------- MODULE Spooler --------------------------------
(***************************************************************************)
(* What the spooler of jni/wprint/lib/lib_wprint.c promises to its         *)
(* clients, without threads, messages, pages or printers: a job waits in   *)
(* its slot until it is withdrawn or served, one job is served at a time,  *)
(* and the client of a job is told once that it is over, when it is.       *)
(***************************************************************************)
EXTENDS Naturals

CONSTANT Places   (* the slots of the job table                            *)

VARIABLES
  phase,          (* of the job in each slot                               *)
  told            (* how often its client has been told that it is over    *)

svars == <<phase, told>>

Phases == {"free", "queued", "served", "over"}

SpoolerInit ==
  /\ phase = [p \in Places |-> "free"]
  /\ told = [p \in Places |-> 0]

Submit(p) ==
  /\ phase[p] = "free"
  /\ phase' = [phase EXCEPT ![p] = "queued"]
  /\ UNCHANGED told

Serve(p) ==
  /\ phase[p] = "queued"
  /\ \A o \in Places : phase[o] # "served"
  /\ phase' = [phase EXCEPT ![p] = "served"]
  /\ UNCHANGED told

(* A queued job that is withdrawn, or a served one that has come to its    *)
(* end.                                                                    *)
Conclude(p) ==
  /\ phase[p] \in {"queued", "served"}
  /\ phase' = [phase EXCEPT ![p] = "over"]
  /\ told' = [told EXCEPT ![p] = @ + 1]

Release(p) ==
  /\ phase[p] = "over"
  /\ phase' = [phase EXCEPT ![p] = "free"]
  /\ told' = [told EXCEPT ![p] = 0]

SpoolerNext ==
  \E p \in Places : Submit(p) \/ Serve(p) \/ Conclude(p) \/ Release(p)

SpoolerSpec == SpoolerInit /\ [][SpoolerNext]_svars
=============================================================================
