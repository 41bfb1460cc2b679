---------------------------- MODULE MCIppRequests ----------------------------
(***************************************************************************)
(* IppRequests with two threads on one printer: one asks for capabilities  *)
(* and the state or sends a job, the other asks for the state or cancels.  *)
(***************************************************************************)
EXTENDS IppRequests

CONSTANTS p1, c1, c2

OnePrinter   == {p1}
TwoCallers   == {c1, c2}
OldVersions  == [p \in OnePrinter |-> {V10, V11}]
TheirCalls   == [c \in TwoCallers |-> IF c = c1 THEN {"caps", "state", "job"} ELSE {"state", "cancel"}]
FewCalls     == [c \in TwoCallers |-> IF c = c1 THEN 2 ELSE 1]
SamePrinter  == {[c \in TwoCallers |-> p1]}
=============================================================================
