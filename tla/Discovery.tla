------------------------------ MODULE Discovery ------------------------------
(***************************************************************************)
(* The discovery of printers: the session of the print framework in        *)
(* ServiceAndroidPrint with its WPrintDiscovery tasks, the task            *)
(* LocalPrinterDiscoveryTask of the service, which asks the local network  *)
(* and listens with a timeout, and the parsers of the answers.             *)
(***************************************************************************)
EXTENDS Integers, Sequences, SequencesExt, FiniteSets, Subsequences

CONSTANTS
  Responders,     (* the hosts that answer a query                           *)
  Packet,         (* the services in the answer of each                      *)
  Addresses,      (* the addresses of printers                               *)
  Names,          (* their names                                             *)
  MaxSessions,    (* bound on the discoveries started                        *)
  MaxLosses,      (* bound on the answers lost                               *)
  SendFails       (* may a query fail with an IOException                    *)

(* A service as its records describe it: has it all its records, can the   *)
(* plugin print on it, does it name a model.                               *)
Service == [address : Addresses, name : Names, complete : BOOLEAN,
            supported : BOOLEAN, model : BOOLEAN]

ASSUME DiscoveryAssumption ==
  /\ Packet \in [Responders -> Seq(Service)]
  /\ IsFiniteSet(Responders)
  /\ MaxSessions \in Nat /\ MaxLosses \in Nat /\ SendFails \in BOOLEAN

VARIABLES
  current,        (* mDiscoveryTask                                          *)
  mPrinters,      (* the printers of the session                             *)
  shown,          (* the printers the framework shows                        *)
  mainQ,          (* messages to the main thread                             *)
  bound,          (* is mPrintServiceMessenger set                           *)
  tasks,          (* the WPrintDiscovery tasks                               *)
  requests,       (* their LocalPrinterDiscoveryTasks in the service         *)
  losses,         (* answers lost: a bound                                   *)
  swallowed,      (* history: tasks whose sleep took the interrupt           *)
  finder          (* history: the task that found each printer               *)

svars == <<current, mPrinters, shown, finder>>
vars  == <<svars, mainQ, bound, tasks, requests, losses, swallowed>>

(***************************************************************************)
(* Data.                                                                   *)
(***************************************************************************)
Ids      == 1 .. MaxSessions
NoTask   == 0
NoInfo   == [name |-> "none", status |-> "none"]
Statuses == {"idle", "busy"}   (* busy stands for all others *)
Info     == [name : Names, status : Statuses]

NewTask  == [pc |-> "new", list |-> << >>, interrupted |-> FALSE, cancelled |-> FALSE]
NoRequest == [pc |-> "none", timeout |-> 0, decay |-> 0, net |-> {}, told |-> {},
              failed |-> FALSE]

Found(t, s)    == [what |-> "found", task |-> t, address |-> s.address, name |-> s.name]
Progress(t, d) == [what |-> "progress", task |-> t, address |-> d.address, name |-> d.name]

(* In seconds, as set with setSoTimeout.                                   *)
DEFAULT_INITIAL_TIMEOUT     == 8
DEFAULT_TIMEOUT_DECAY       == 2
DEFAULT_TIMEOUT_AFTER_FOUND == 5

(* The printers of a packet.  A service without all its records is         *)
(* skipped, and so is one that cannot be printed on; one that can but      *)
(* names no model throws, and what follows it in the packet is lost.       *)
Complete(services) == {i \in DOMAIN services : services[i].complete}
Throws(s)          == s.supported /\ ~s.model
PrintersIn(services) ==
  Kept(services, {i \in Complete(services) :
                    /\ services[i].supported
                    /\ \A k \in Complete(services) : k <= i => ~Throws(services[k])})

(***************************************************************************)
(* The session, on the main thread.                                        *)
(***************************************************************************)
Init ==
  /\ current = NoTask
  /\ mPrinters = [a \in Addresses |-> NoInfo]
  /\ shown = [a \in Addresses |-> NoInfo]
  /\ finder = [a \in Addresses |-> NoTask]
  /\ mainQ = << >>
  /\ bound = FALSE
  /\ tasks = [t \in Ids |-> NewTask]
  /\ requests = [t \in Ids |-> NoRequest]
  /\ losses = 0
  /\ swallowed = {}

(* cancel(true): a task that no pool thread has taken never runs.          *)
Cancelled(task) ==
  IF task.pc = "queued" THEN [task EXCEPT !.pc = "ended", !.cancelled = TRUE]
  ELSE [task EXCEPT !.cancelled = TRUE, !.interrupted = TRUE]

(* Mutant: does not stop the discovery that runs.                          *)
StartOver(t) ==
  /\ tasks[t].pc = "new"
  /\ \A u \in Ids : u < t => tasks[u].pc # "new"
  /\ tasks' = [tasks EXCEPT ![t].pc = "queued"]
  /\ current' = t
  /\ UNCHANGED <<mPrinters, shown, finder, mainQ, bound, requests, losses, swallowed>>

(* onStartPrinterDiscovery: stops what runs, starts a new task.            *)
Start(t) ==
  /\ tasks[t].pc = "new"
  /\ \A u \in Ids : u < t => tasks[u].pc # "new"
  /\ tasks' = [u \in Ids |-> IF u = t THEN [tasks[t] EXCEPT !.pc = "queued"]
                             ELSE IF u = current THEN Cancelled(tasks[u])
                             ELSE tasks[u]]
  /\ current' = t
  /\ mPrinters' = [a \in Addresses |-> NoInfo]
  /\ UNCHANGED <<shown, finder, mainQ, bound, requests, losses, swallowed>>

(* onStopPrinterDiscovery.                                                 *)
Stop ==
  /\ current # NoTask
  /\ tasks' = [tasks EXCEPT ![current] = Cancelled(@)]
  /\ current' = NoTask
  /\ mPrinters' = [a \in Addresses |-> NoInfo]
  /\ UNCHANGED <<shown, finder, mainQ, bound, requests, losses, swallowed>>

(* addPrinters, after mPrinters.put.                                       *)
Report(a, info) ==
  /\ mPrinters' = [mPrinters EXCEPT ![a] = info]
  /\ shown' = [shown EXCEPT ![a] = info]

(* handleMessage of the task: the list gets the printer, a waiting task    *)
(* is notified.                                                            *)
HandleFound ==
  /\ mainQ # << >> /\ Head(mainQ).what = "found"
  /\ LET t == Head(mainQ).task IN
     tasks' = [tasks EXCEPT ![t].list = Append(@, [address |-> Head(mainQ).address,
                                                   name |-> Head(mainQ).name]),
                            ![t].pc = IF @ = "waiting" THEN "notified" ELSE @]
  /\ mainQ' = Tail(mainQ)
  /\ UNCHANGED <<svars, bound, requests, losses, swallowed>>

(* onReceiveTaskProgress: only an attached task has a callback.  What is   *)
(* as it was is not reported.                                              *)
HandleProgress ==
  /\ mainQ # << >> /\ Head(mainQ).what = "progress"
  /\ LET m    == Head(mainQ)
         info == [name |-> m.name, status |-> "idle"]
     IN  IF m.task = current
         THEN /\ finder' = [finder EXCEPT ![m.address] = m.task]
              /\ IF info = mPrinters[m.address] THEN UNCHANGED <<mPrinters, shown>>
                 ELSE Report(m.address, info)
         ELSE UNCHANGED <<mPrinters, shown, finder>>
  /\ mainQ' = Tail(mainQ)
  /\ UNCHANGED <<current, bound, tasks, requests, losses, swallowed>>

(* onProgressUpdate of a task that tracks the printer: a printer of the    *)
(* session gets the status.                                                *)
TrackerReports(a, s) ==
  /\ mPrinters[a] # NoInfo
  /\ mPrinters[a].status # s
  /\ Report(a, [mPrinters[a] EXCEPT !.status = s])
  /\ UNCHANGED <<current, finder, mainQ, bound, tasks, requests, losses, swallowed>>

(* onServiceConnected.                                                     *)
Bind ==
  /\ ~bound
  /\ bound' = TRUE
  /\ UNCHANGED <<svars, mainQ, tasks, requests, losses, swallowed>>

(***************************************************************************)
(* doInBackground of WPrintDiscovery, in a pool thread.                    *)
(***************************************************************************)
Run(t) ==
  /\ tasks[t].pc = "queued"
  /\ tasks' = [tasks EXCEPT ![t].pc = "start"]
  /\ UNCHANGED <<svars, mainQ, bound, requests, losses, swallowed>>

(* waitForPrintServiceMessenger: sleeps until the service is bound; an     *)
(* interrupt ends one sleep and is forgotten.                              *)
Sleep(t) ==
  /\ tasks[t].pc = "start" /\ ~bound
  /\ tasks[t].interrupted
  /\ tasks' = [tasks EXCEPT ![t].interrupted = FALSE]
  /\ swallowed' = swallowed \cup {t}
  /\ UNCHANGED <<svars, mainQ, bound, requests, losses>>

(* The request: the service starts its task.                               *)
Ask(t) ==
  /\ tasks[t].pc = "start" /\ bound
  /\ tasks' = [tasks EXCEPT ![t].pc = "list"]
  /\ requests' = [requests EXCEPT ![t].pc = "query"]
  /\ UNCHANGED <<svars, mainQ, bound, losses, swallowed>>

(* Mutant: waits without a look at the list.                               *)
WaitAnyway(t) ==
  /\ tasks[t].pc = "list"
  /\ ~tasks[t].interrupted
  /\ tasks' = [tasks EXCEPT ![t].pc = "waiting"]
  /\ UNCHANGED <<svars, mainQ, bound, requests, losses, swallowed>>

(* A task with nothing on its list waits for the handler.                  *)
Wait(t) ==
  /\ tasks[t].pc = "list" /\ tasks[t].list = << >>
  /\ ~tasks[t].interrupted
  /\ tasks' = [tasks EXCEPT ![t].pc = "waiting"]
  /\ UNCHANGED <<svars, mainQ, bound, requests, losses, swallowed>>

(* wait() throws.                                                          *)
Interrupted(t) ==
  /\ tasks[t].interrupted
  /\ \/ tasks[t].pc = "list" /\ tasks[t].list = << >>
     \/ tasks[t].pc \in {"waiting", "notified"}
  /\ tasks' = [tasks EXCEPT ![t].pc = "check", ![t].interrupted = FALSE]
  /\ UNCHANGED <<svars, mainQ, bound, requests, losses, swallowed>>

(* publishProgress of the whole list, which posts for a task that is not   *)
(* cancelled.                                                              *)
Publish(t) ==
  /\ \/ tasks[t].pc = "list" /\ tasks[t].list # << >>
     \/ tasks[t].pc = "notified"
  /\ LET list == tasks[t].list
         posts == [i \in 1 .. Len(list) |-> Progress(t, list[i])]
     IN  mainQ' = IF tasks[t].cancelled THEN mainQ ELSE mainQ \o posts
  /\ tasks' = [tasks EXCEPT ![t].list = << >>, ![t].pc = "check"]
  /\ UNCHANGED <<svars, bound, requests, losses, swallowed>>

Check(t) ==
  /\ tasks[t].pc = "check"
  /\ tasks' = [tasks EXCEPT ![t].pc = IF tasks[t].cancelled THEN "ended" ELSE "list"]
  /\ UNCHANGED <<svars, mainQ, bound, requests, losses, swallowed>>

TaskStep(t) ==
  Run(t) \/ Sleep(t) \/ Ask(t) \/ Wait(t) \/ Interrupted(t) \/ Publish(t) \/ Check(t)

(***************************************************************************)
(* LocalPrinterDiscoveryTask of the service.                               *)
(***************************************************************************)
(* sendQueryPacket: every responder answers, but for those whose query or  *)
(* answer is lost.                                                         *)
Query(t, r) ==
  \E lost \in SUBSET Responders :
    /\ losses + Cardinality(lost) <= MaxLosses
    /\ losses' = losses + Cardinality(lost)
    /\ requests' = [requests EXCEPT ![t] = [r EXCEPT !.net = Responders \ lost]]

FirstQuery(t) ==
  /\ requests[t].pc = "query"
  /\ Query(t, [requests[t] EXCEPT !.pc = "receive", !.timeout = DEFAULT_INITIAL_TIMEOUT,
                                  !.decay = DEFAULT_TIMEOUT_DECAY])
  /\ UNCHANGED <<svars, mainQ, bound, tasks, swallowed>>

(* receiveResponsePackets.  The printers of a packet are told to the       *)
(* client, and with one of them the last wait begins; otherwise the same   *)
(* wait begins again.                                                      *)
Receive(t) ==
  /\ requests[t].pc = "receive"
  /\ \E r \in requests[t].net :
       LET printers == PrintersIn(Packet[r])
           rest     == [requests[t] EXCEPT !.net = @ \ {r}]
       IN  IF printers = << >>
           THEN /\ requests' = [requests EXCEPT ![t] = rest]
                /\ UNCHANGED mainQ
           ELSE /\ requests' = [requests EXCEPT ![t] =
                     [rest EXCEPT !.timeout = DEFAULT_TIMEOUT_AFTER_FOUND,
                                  !.decay = DEFAULT_TIMEOUT_AFTER_FOUND,
                                  !.told = @ \cup {s.address : s \in ToSet(printers)}]]
                /\ mainQ' = mainQ \o [i \in 1 .. Len(printers) |-> Found(t, printers[i])]
  /\ UNCHANGED <<svars, bound, tasks, losses, swallowed>>

(* Mutant: only listens again, without asking.                             *)
TimeOutUnasked(t) ==
  /\ requests[t].pc = "receive" /\ requests[t].net = {}
  /\ LET r == [requests[t] EXCEPT !.timeout = @ - requests[t].decay] IN
     requests' = [requests EXCEPT ![t] =
                    IF r.timeout > 0 THEN r ELSE [r EXCEPT !.pc = "ended"]]
  /\ UNCHANGED <<svars, mainQ, bound, tasks, losses, swallowed>>

(* SocketTimeoutException: nothing came in time.  The query is sent again, *)
(* and once more when nobody listens any longer.                           *)
TimeOut(t) ==
  /\ requests[t].pc = "receive" /\ requests[t].net = {}
  /\ LET r == [requests[t] EXCEPT !.timeout = @ - requests[t].decay] IN
     IF r.timeout > 0 THEN Query(t, r)
     ELSE /\ requests' = [requests EXCEPT ![t] = [r EXCEPT !.pc = "ended"]]
          /\ UNCHANGED losses
  /\ UNCHANGED <<svars, mainQ, bound, tasks, swallowed>>

(* An IOException of a query ends the task.                                *)
QueryFails(t) ==
  /\ SendFails
  /\ \/ requests[t].pc = "query"
     \/ requests[t].pc = "receive" /\ requests[t].net = {}
  /\ requests' = [requests EXCEPT ![t].pc = "ended", ![t].failed = TRUE]
  /\ UNCHANGED <<svars, mainQ, bound, tasks, losses, swallowed>>

RequestStep(t) == FirstQuery(t) \/ Receive(t) \/ TimeOut(t) \/ QueryFails(t)

MainStep == HandleFound \/ HandleProgress

User ==
  \/ \E t \in Ids : Start(t)
  \/ Stop
  \/ \E a \in Addresses, s \in Statuses : TrackerReports(a, s)

Next ==
  \/ User \/ MainStep \/ Bind
  \/ \E t \in Ids : TaskStep(t) \/ RequestStep(t)

Spec == Init /\ [][Next]_vars

(* Each thread goes on; the framework and the trackers do as they like.    *)
FairSpec ==
  /\ Spec
  /\ WF_vars(MainStep)
  /\ \A t \in Ids : WF_vars(TaskStep(t)) /\ WF_vars(RequestStep(t))

(***************************************************************************)
(* Properties.                                                             *)
(***************************************************************************)
Task    == [pc : {"new", "queued", "start", "list", "waiting", "notified", "check", "ended"},
            list : Seq([address : Addresses, name : Names]),
            interrupted : BOOLEAN, cancelled : BOOLEAN]
Request == [pc : {"none", "query", "receive", "ended"}, timeout : -2 .. 8,
            decay : {0, 2, 5}, net : SUBSET Responders, told : SUBSET Addresses,
            failed : BOOLEAN]

(* The values of all variables.                                            *)
DiscoveryTypeOK ==
  /\ current \in Ids \cup {NoTask}
  /\ mPrinters \in [Addresses -> Info \cup {NoInfo}]
  /\ shown \in [Addresses -> Info \cup {NoInfo}]
  /\ \A i \in 1 .. Len(mainQ) :
       mainQ[i] \in [what : {"found", "progress"}, task : Ids, address : Addresses, name : Names]
  /\ bound \in BOOLEAN
  /\ tasks \in [Ids -> Task]
  /\ requests \in [Ids -> Request]
  /\ losses \in 0 .. MaxLosses
  /\ swallowed \subseteq Ids
  /\ finder \in [Addresses -> Ids \cup {NoTask}]

(* The session only keeps what the discovery that runs has found, although *)
(* answers to older ones still come; what it keeps is what is shown,       *)
(* although discovery and trackers both change it.                         *)
SessionIsTrue ==
  /\ DiscoveryTypeOK
  /\ \A a \in Addresses :
       mPrinters[a] # NoInfo =>
         /\ current # NoTask /\ finder[a] = current
         /\ shown[a] = mPrinters[a]

(* A printer the service has told the running discovery gets to the        *)
(* session, through handler, list, task and progress, unless the discovery *)
(* is stopped: no notification is lost.                                    *)
AnswerIsShown ==
  \A t \in Ids, a \in Addresses :
    (current = t /\ a \in requests[t].told) ~>
      (current # t \/ mPrinters[a] # NoInfo)

(* A cancelled task ends and frees its pool thread.  The exception is a    *)
(* task whose sleep for the service took the interrupt: it waits for the   *)
(* first printer.                                                          *)
StoppedEnds ==
  \A t \in Ids :
    (tasks[t].cancelled /\ (t \notin swallowed \/ requests[t].told # {})) ~>
      (tasks[t].pc = "ended" \/ (t \in swallowed /\ requests[t].told = {}))

(* No found printer gets lost on its way, and no stopped task stays.       *)
DiscoveryServes == AnswerIsShown /\ StoppedEnds

(* A task of the service ends, whatever answers.  The query is repeated:   *)
(* when at most MaxLosses answers are lost, a printer that is there has    *)
(* been found by then, unless a query could not be sent.                   *)
ListeningFinds ==
  \A t \in Ids :
    (requests[t].pc = "query") ~>
      /\ requests[t].pc = "ended"
      /\ \/ requests[t].told # {} \/ requests[t].failed
         \/ \A r \in Responders : PrintersIn(Packet[r]) = << >>

(* Does not hold.  LocalPrinterDiscoveryTask.java:99:  "If no printer is   *)
(* found, the socket timeout is decreased by 2s until it reaches 0": each  *)
(* wait that follows another without a printer is shorter.                 *)
WaitsGetShorter ==
  [][\A t \in Ids :
       (/\ requests[t].pc = "receive" /\ requests'[t].pc = "receive"
        /\ requests[t] # requests'[t] /\ requests'[t].told = {})
         => requests'[t].timeout < requests[t].timeout]_vars
=============================================================================
