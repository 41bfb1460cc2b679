---------------------------- MODULE IppRequests ----------------------------
(***************************************************************************)
(* The IPP requests of ipphelper.c, ippstatus_capabilities.c,              *)
(* ippstatus_monitor.c and ipp_print.c: threads that ask printers for      *)
(* their capabilities and state, cancel a job or send one, with their      *)
(* retries, and with the version of IPP, which is one pair of globals that *)
(* all of them read and set.                                               *)
(***************************************************************************)
EXTENDS Integers, Sequences, FiniteSets

CONSTANTS
  Callers,      (* the threads that make requests                          *)
  Does,         (* the calls each of them makes                            *)
  Printers,
  Supports,     (* the versions each printer supports                      *)
  Follows,      (* which printer each caller may be concerned with         *)
  UnavailableMax,     (* IPP_SERVICE_UNAVAILBLE_MAX_RETRIES, 3 in the code *)
  BadMax,             (* IPP_BAD_REQUEST_MAX_RETRIES, 2 in the code        *)
  MaxCalls      (* bounds on the calls each caller makes                   *)

Nobody == "nobody"

ASSUME IppAssumption ==
  /\ Nobody \notin Callers
  /\ Does \in [Callers -> SUBSET {"caps", "state", "cancel", "job"}]
  /\ Supports \in [Printers -> SUBSET ((1 .. 2) \X (0 .. 1))]
  /\ Follows \subseteq [Callers -> Printers]
  /\ UnavailableMax \in Nat /\ BadMax \in Nat /\ MaxCalls \in [Callers -> Nat]

VARIABLES
  follows,      (* the printer of each caller                              *)
  version,      (* __ipp_version_major and __ipp_version_minor             *)
  call,         (* the call each caller makes                              *)
  left,         (* the calls it may still make: a bound                    *)
  mutex,        (* the caller that holds the mutex of a printer's monitor  *)
  stop,         (* stop_monitor of each printer's monitor                  *)
  known         (* the last result of asking each printer's capabilities   *)

vars == <<follows, version, call, left, mutex, stop, known>>

Versions == (1 .. 2) \X (0 .. 1)
V10 == <<1, 0>>
V11 == <<1, 1>>
V20 == <<2, 0>>

(* A call: the operation, where it is, the state of the version, both      *)
(* counters of retries and those of a probe, which probe, the version to   *)
(* set and the major number read, the response, was it freed twice, could  *)
(* no version be determined, and has a job to cancel been found.  odd is   *)
(* history: the last request was refused for a version the printer has.    *)
Idle == [op |-> "none", pc |-> "idle", vs |-> "resolved", un |-> 0, bad |-> 0,
         probe |-> 0, pun |-> 0, pbad |-> 0, set |-> V20, major |-> 1,
         resp |-> "none", twice |-> FALSE, failed |-> FALSE,
         jobId |-> FALSE, odd |-> FALSE]

Monitors(op) == op \in {"state", "cancel"}

Init ==
  /\ follows \in Follows
  /\ version = V20
  /\ call = [c \in Callers |-> Idle]
  /\ left = MaxCalls
  /\ mutex = [p \in Printers |-> Nobody]
  /\ stop = [p \in Printers |-> FALSE]
  /\ known = [p \in Printers |-> "none"]

At(c, pc)   == call[c].pc = pc
Step(c, r)  == call' = [call EXCEPT ![c] = r]
Same(c)     == UNCHANGED <<follows, left, mutex, stop, known>>

WriteMajor(c, r, v) == /\ version' = [version EXCEPT ![1] = v[1]]
                       /\ Step(c, [r EXCEPT !.pc = "minor", !.set = v])

(* A call starts: with the mutex of the monitor, or at once.               *)
Begin(c) ==
  /\ At(c, "idle") /\ left[c] > 0
  /\ \E op \in Does[c] :
       Step(c, [Idle EXCEPT !.op = op,
                            !.vs = IF op = "caps" THEN "new" ELSE "resolved",
                            !.pc = IF Monitors(op) THEN "lock" ELSE "set"])
  /\ left' = [left EXCEPT ![c] = @ - 1]
  /\ UNCHANGED <<follows, version, mutex, stop, known>>

(* Mutant: does not wait for the mutex.                                    *)
LockTaken(c) ==
  /\ At(c, "lock")
  /\ mutex' = [mutex EXCEPT ![follows[c]] = c]
  /\ Step(c, [call[c] EXCEPT !.pc = "set"])
  /\ UNCHANGED <<follows, version, left, stop, known>>

(* _cancel looks at stop_monitor before every attempt to get the job id.   *)
Lock(c) ==
  /\ At(c, "lock")
  /\ mutex[follows[c]] = Nobody
  /\ mutex' = [mutex EXCEPT ![follows[c]] = c]
  /\ Step(c, [call[c] EXCEPT !.pc = "set"])
  /\ UNCHANGED <<follows, version, left, stop, known>>

StopMonitor(p) ==
  /\ ~stop[p]
  /\ \E c \in Callers : follows[c] = p /\ Monitors(call[c].op)
  /\ stop' = [stop EXCEPT ![p] = TRUE]
  /\ UNCHANGED <<follows, version, call, left, mutex, known>>

(* Ends of a call, well or not: get_PrinterState deletes its response.     *)
Done(r, ok) ==
  [Idle EXCEPT !.op = r.op, !.pc = IF ok THEN "good" ELSE "error",
               !.twice = r.op = "state" /\ r.resp = "freed",
               !.failed = r.failed]

(* Another attempt, which determines the version first if it was refused.  *)
Again(r) == IF r.vs = "refused"
            THEN [r EXCEPT !.pc = "probe", !.probe = 1, !.major = 1]
            ELSE [r EXCEPT !.pc = "set", !.major = 1]

(***************************************************************************)
(* set_ipp_version and determine_ipp_version.  The globals are set one     *)
(* after the other, and read so.                                           *)
(***************************************************************************)
SetVersion(c) ==
  /\ At(c, "set")
  /\ LET r == call[c] IN
     CASE r.op = "cancel" /\ ~r.jobId /\ stop[follows[c]] ->
            Step(c, Done(r, FALSE)) /\ UNCHANGED version
       [] r.vs = "new" -> WriteMajor(c, r, V20)
       [] OTHER -> Step(c, [r EXCEPT !.pc = "send", !.major = version[1]])
                   /\ UNCHANGED version
  /\ Same(c)

WriteMinor(c) ==
  /\ At(c, "minor")
  /\ version' = [version EXCEPT ![2] = call[c].set[2]]
  /\ Step(c, [call[c] EXCEPT !.pc = "read", !.set = V20])
  /\ Same(c)

ReadMajor(c) ==
  /\ At(c, "read")
  /\ Step(c, [call[c] EXCEPT !.pc = "send", !.major = version[1]])
  /\ UNCHANGED version
  /\ Same(c)

(* What a printer answers to a request of a version: no response with the  *)
(* status of an unavailable service, a bad request or another error, or a  *)
(* response.  It may refuse any version, even one it supports, but accepts *)
(* no other.                                                               *)
Answers(p, v) ==
  {"unavailable", "badNone", "error", "version"}
    \cup IF v \in Supports[p] THEN {"bad", "ok"} ELSE {}

(* The tests of determine_ipp_version, in their order.                     *)
Probes == <<V11, V10, V20>>
Best(vs) == IF V20 \in vs THEN V20 ELSE IF V11 \in vs THEN V11 ELSE V10

(* A test that finds no version is followed by the next one; after the     *)
(* last one set_ipp_version fails.                                         *)
NextProbe(r) ==
  IF r.probe < Len(Probes)
  THEN [r EXCEPT !.probe = @ + 1, !.pun = 0, !.pbad = 0]
  ELSE Done([r EXCEPT !.failed = TRUE], FALSE)

Probe(c) ==
  /\ At(c, "probe")
  /\ \E a \in Answers(follows[c], Probes[call[c].probe]) :
     \E told \in {Supports[follows[c]]} \cup (IF a = "version" THEN {{}} ELSE {}) :
       LET r     == call[c]
           fresh == [r EXCEPT !.probe = 0, !.pun = 0, !.pbad = 0] IN
       IF a \in {"ok", "version"} /\ told \cap {V10, V11, V20} # {}
       THEN WriteMajor(c, fresh, Best(told))
       ELSE /\ Step(c, CASE a = "unavailable" /\ r.pun < UnavailableMax ->
                             [r EXCEPT !.pun = @ + 1]
                        [] a \in {"badNone", "bad"} /\ r.pbad <= BadMax ->
                             [r EXCEPT !.pbad = @ + 1]
                        [] OTHER -> NextProbe(r))
            /\ UNCHANGED version
  /\ Same(c)

(***************************************************************************)
(* Requests and their retries.                                             *)
(***************************************************************************)
(* Mutant: takes a refused version for a response.                         *)
AskedAnyVersion(r, a) ==
  CASE a \in {"ok", "version"} -> Done([r EXCEPT !.resp = "live"], TRUE)
    [] a = "unavailable" /\ r.un < UnavailableMax ->
         Again([r EXCEPT !.un = @ + 1, !.resp = "none"])
    [] a = "badNone" /\ r.bad <= BadMax ->
         Again([r EXCEPT !.bad = @ + 1, !.resp = "none"])
    [] a = "bad" /\ r.bad <= BadMax ->
         Again([r EXCEPT !.bad = @ + 1, !.resp = "freed"])
    [] a = "bad" /\ r.bad > BadMax -> Done([r EXCEPT !.resp = "live"], FALSE)
    [] OTHER -> Done([r EXCEPT !.resp = "none"], FALSE)

(* Mutant: does not count the bad requests, like get_printerAttributes,    *)
(* which counts them as unavailable services.                              *)
AskedUncounted(r, a) ==
  CASE a = "ok" -> Done([r EXCEPT !.resp = "live"], TRUE)
    [] a = "version" -> Again([r EXCEPT !.vs = "refused", !.resp = "freed"])
    [] a = "unavailable" /\ r.un < UnavailableMax ->
         Again([r EXCEPT !.un = @ + 1, !.resp = "none"])
    [] a = "badNone" /\ r.bad <= BadMax ->
         Again([r EXCEPT !.resp = "none"])
    [] a = "bad" /\ r.bad <= BadMax ->
         Again([r EXCEPT !.bad = @ + 1, !.resp = "freed"])
    [] a = "bad" /\ r.bad > BadMax -> Done([r EXCEPT !.resp = "live"], FALSE)
    [] OTHER -> Done([r EXCEPT !.resp = "none"], FALSE)

(* After an answer: capabilities and state.  A refused version is not      *)
(* counted: the request is made again as often as it is refused.           *)
Asked(r, a) ==
  CASE a = "ok" -> Done([r EXCEPT !.resp = "live"], TRUE)
    [] a = "version" -> Again([r EXCEPT !.vs = "refused", !.resp = "freed"])
    [] a = "unavailable" /\ r.un < UnavailableMax ->
         Again([r EXCEPT !.un = @ + 1, !.resp = "none"])
    [] a = "badNone" /\ r.bad <= BadMax ->
         Again([r EXCEPT !.bad = @ + 1, !.resp = "none"])
    [] a = "bad" /\ r.bad <= BadMax ->
         Again([r EXCEPT !.bad = @ + 1, !.resp = "freed"])
    [] a = "bad" /\ r.bad > BadMax -> Done([r EXCEPT !.resp = "live"], FALSE)
    [] OTHER -> Done([r EXCEPT !.resp = "none"], FALSE)

(* _validate_job, whose result nobody looks at: the job is started next.   *)
Validated(r, a) ==
  CASE a = "unavailable" /\ r.un < UnavailableMax -> Again([r EXCEPT !.un = @ + 1])
    [] a \in {"bad", "badNone"} /\ r.bad <= BadMax -> Again([r EXCEPT !.bad = @ + 1])
    [] OTHER -> [Idle EXCEPT !.op = r.op, !.pc = "start"]

(* _cancel: first the jobs, one of which may be ours, then the request to  *)
(* cancel it, for which the retries are counted anew.  found: the response *)
(* carries what is looked for in it, first the number of the job, then the *)
(* reasons of its state.  The loop over these never ends, as its condition *)
(* is their number and not the index: the call stays there, with the mutex.*)
Cancelled(r, a, found) ==
  CASE a = "unavailable" /\ r.un + 1 < UnavailableMax -> Again([r EXCEPT !.un = @ + 1])
    [] a = "badNone" /\ r.bad <= BadMax -> Again([r EXCEPT !.bad = @ + 1])
    [] a = "bad" /\ ~r.jobId /\ r.bad <= BadMax -> Again([r EXCEPT !.bad = @ + 1])
    [] a \in {"ok", "version"} /\ ~r.jobId /\ found ->
         [r EXCEPT !.pc = "set", !.jobId = TRUE, !.un = 0, !.bad = 0]
    [] a \in {"ok", "bad", "version"} /\ r.jobId /\ found ->
         [r EXCEPT !.pc = "reading"]
    [] OTHER -> Done(r, r.jobId /\ a \in {"ok", "bad", "version"})

Answered(r, a, found) ==
  CASE r.op = "cancel" -> Cancelled(r, a, found)
    [] r.op = "job"    -> Validated(r, a)
    [] OTHER           -> Asked(r, a)

Request(c) ==
  /\ At(c, "send")
  /\ LET p == follows[c]
         v == <<call[c].major, version[2]>>
     IN  \E a \in Answers(p, v), found \in BOOLEAN :
           Step(c, [Answered(call[c], a, found) EXCEPT
                      !.odd = a = "version" /\ v \in Supports[p]])
  /\ UNCHANGED version
  /\ Same(c)

(* _start_job sends the request of the job, which is not repeated,         *)
(* _send_data sends nothing after a failure, and _end_job succeeds when    *)
(* the end of the data was sent, whatever the printer answers.             *)
PrintJob(c) ==
  /\ At(c, "start")
  /\ \E ended \in BOOLEAN : Step(c, Done(call[c], ended))
  /\ UNCHANGED version
  /\ Same(c)

(* The end of a call: the mutex is released, the result is returned.       *)
Return(c) ==
  /\ call[c].pc \in {"good", "error"}
  /\ LET p == follows[c] IN
     /\ mutex' = IF mutex[p] = c THEN [mutex EXCEPT ![p] = Nobody] ELSE mutex
     /\ known' = IF call[c].op = "caps" THEN [known EXCEPT ![p] = call[c].pc] ELSE known
  /\ Step(c, Idle)
  /\ UNCHANGED <<follows, version, left, stop>>

CallStep(c) == \/ Lock(c) \/ SetVersion(c) \/ WriteMinor(c) \/ ReadMajor(c)
               \/ Probe(c) \/ Request(c) \/ PrintJob(c) \/ Return(c)

Next == \/ \E c \in Callers : Begin(c) \/ CallStep(c)
        \/ \E p \in Printers : StopMonitor(p)

(* Requests have a timeout, so every thread goes on; as calls are finite,  *)
(* a mutex is free for good in the end.                                    *)
Fairness == \A c \in Callers : WF_vars(CallStep(c))

Spec     == Init /\ [][Next]_vars
FairSpec == Spec /\ Fairness

(***************************************************************************)
(* Properties.                                                             *)
(***************************************************************************)
(* The state is well typed; the counters of retries have their limits.     *)
TypeOK ==
  /\ follows \in [Callers -> Printers]
  /\ version \in Versions
  /\ left \in [Callers -> Nat]
  /\ mutex \in [Printers -> Callers \cup {Nobody}]
  /\ stop \in [Printers -> BOOLEAN]
  /\ known \in [Printers -> {"none", "good", "error"}]
  /\ \A c \in Callers :
       /\ call[c].un \in 0 .. UnavailableMax /\ call[c].bad \in 0 .. BadMax + 1
       /\ call[c].pun \in 0 .. UnavailableMax /\ call[c].pbad \in 0 .. BadMax + 1
       /\ call[c].probe \in 0 .. Len(Probes) /\ call[c].set \in Versions
       /\ call[c].resp \in {"none", "live", "freed"}

(* The connection of a monitor carries one request at a time: a poll and a *)
(* cancellation exclude each other from their first request to their last. *)
OneOnConnection ==
  \A c, d \in Callers :
    /\ Monitors(call[c].op) /\ call[c].pc \notin {"idle", "lock"}
    /\ Monitors(call[d].op) /\ call[d].pc \notin {"idle", "lock"}
    /\ follows[c] = follows[d]
    => c = d

(* A response is deleted once, except that get_PrinterState deletes the    *)
(* refused one again when no version can be determined.                    *)
FreedOnce == \A c \in Callers : call[c].twice => call[c].failed

(* Connections and responses have one user at a time.                      *)
RequestsAreSafe == TypeOK /\ OneOnConnection /\ FreedOnce

(* While one printer is in use: once its capabilities are known, the       *)
(* version that the next request takes is one it supports, unless a thread *)
(* is asking for its capabilities anew or is setting the version.          *)
VersionSettles ==
  (\A c, d \in Callers : follows[c] = follows[d]) =>
    \A c \in Callers :
      (/\ known[follows[c]] = "good"
       /\ \A d \in Callers : call[d].op # "caps" /\ call[d].pc # "minor")
      => version \in Supports[follows[c]]

(* The two answers that keep a call from its end: a printer that refuses a *)
(* version it supports again and again (each refusal is followed by one    *)
(* more attempt, which nobody counts), and a response to the cancellation  *)
(* of a job that gives reasons for its state, over which _cancel loops for *)
(* ever.                                                                   *)
AcceptsItsVersions == \A c \in Callers : ~call[c].odd
NoReasonsToRead    == \A c \in Callers : ~At(c, "reading")

(* While one printer is in use that at last accepts the versions it        *)
(* supports, and gives no reasons with a cancelled job, every call ends    *)
(* whatever else it answers: the retries of a request and of the probes of *)
(* a version are bounded together, and a version that another thread sets  *)
(* meanwhile does not keep them going.  (Threads of two printers can reset *)
(* the version for each other for ever.)                                   *)
EveryCallEnds ==
  /\ \A c, d \in Callers : follows[c] = follows[d]
  /\ <>[]AcceptsItsVersions
  /\ []NoReasonsToRead
  => \A c \in Callers : []<>(call[c].pc = "idle")
=============================================================================
