----------------------------- MODULE AndroidPrint -----------------------------
(***************************************************************************)
(* The adapter to the print framework of Android                           *)
(* (src/com/android/wfds/printplugin/ServiceAndroidPrint.java) as the      *)
(* client of PrintService: it binds the service, hands it the framework's  *)
(* print jobs and their cancellations, and moves the framework's jobs      *)
(* through their states as the service reports.                            *)
(*                                                                         *)
(* The service runs in a process of its own, which may die: its library    *)
(* and its queues are gone, what it has sent stays sent, and the adapter   *)
(* is bound to a new one.                                                  *)
(***************************************************************************)
EXTENDS PrintService

VARIABLES
  fw,           (* the state the framework shows for a job                   *)
  holder,       (* the entry of a job in mPrintJobs                          *)
  toSend,       (* jobs whose task still copies the document or waits        *)
  toCancel,     (* cancel requests not yet sent by their task                *)
  adapter,      (* the connection to the service                             *)
  died          (* has the service's process been killed                     *)

avars == <<fw, holder, toSend, toCancel, adapter, died>>
vars  == <<svars, avars>>

Over   == {"completed", "failed", "cancelled"}
Active == {"queued", "started", "blocked"}

(* PrintInfoHolder: is it in the map, mUserCancelled, and is the copy of   *)
(* the document there.                                                     *)
NoHolder == [kept |-> FALSE, user |-> FALSE, file |-> FALSE]
Holder   == [kept : BOOLEAN, user : BOOLEAN, file : BOOLEAN]

(* android.printservice.PrintJob: what the framework makes of a call.      *)
FwStart(s)    == IF s \in {"queued", "blocked"} THEN "started" ELSE s
FwBlock(s)    == IF s \in {"started", "blocked"} THEN "blocked" ELSE s
FwComplete(s) == IF s = "started" THEN "completed" ELSE s
FwFail(s)     == IF s \in Active THEN "failed" ELSE s
FwCancel(s)   == IF s \in Active THEN "cancelled" ELSE s

Init ==
  /\ ServiceInit
  /\ fw = [j \in Jobs |-> "none"]
  /\ holder = [j \in Jobs |-> NoHolder]
  /\ toSend = {}
  /\ toCancel = {}
  /\ adapter = "created"
  /\ died = FALSE

Live == crash # "adapter" /\ adapter # "destroyed"

(* A message to the service: an exception if its process has died.         *)
Send(m) ==
  /\ svcQ' = IF crash = "no" THEN Append(svcQ, m) ELSE svcQ
  /\ UNCHANGED <<jobQ, scan, tasks, jobVars, registered, isBound, quitPosted,
                 life, native, inbox>>

(* onCreate asks the system to bind the service; onServiceConnected then   *)
(* registers for the status of the jobs.                                   *)
Bind ==
  /\ Live
  /\ adapter = "created"
  /\ adapter' = "binding"
  /\ OnBind
  /\ UNCHANGED <<fw, holder, toSend, toCancel, died>>

Connected ==
  /\ Live
  /\ adapter = "binding"
  /\ adapter' = "connected"
  /\ Send(Plain("register"))
  /\ UNCHANGED <<crash, fw, holder, toSend, toCancel, died, extras>>

(* onPrintJobQueued: a task copies the document, waits for the connection, *)
(* keeps the job and asks the service to print it.                         *)
QueueJob(j) ==
  /\ Live
  /\ fw[j] = "none"
  /\ fw' = [fw EXCEPT ![j] = "queued"]
  /\ toSend' = toSend \cup {j}
  /\ UNCHANGED <<svars, holder, toCancel, adapter, died>>

SendJob(j) ==
  /\ Live
  /\ j \in toSend
  /\ adapter = "connected"
  /\ toSend' = toSend \ {j}
  /\ holder' = [holder EXCEPT ![j] = [kept |-> crash = "no", user |-> FALSE,
                                      file |-> TRUE]]
  /\ fw' = [fw EXCEPT ![j] = IF crash = "no" THEN @ ELSE FwFail(@)]
  /\ Send(Request("print", j))
  /\ UNCHANGED <<crash, toCancel, adapter, died, extras>>

(* onRequestCancelPrintJob marks the holder of the job, which there is     *)
(* none of while the document is copied, before it looks whether there is  *)
(* one.                                                                    *)
RequestCancel(j) ==
  /\ Live
  /\ fw[j] \in Active
  /\ ~holder[j].user
  /\ IF holder[j].kept
     THEN /\ holder' = [holder EXCEPT ![j].user = TRUE]
          /\ toCancel' = toCancel \cup {j}
          /\ UNCHANGED crash
     ELSE /\ crash' = "adapter"
          /\ UNCHANGED <<holder, toCancel>>
  /\ UNCHANGED <<svcQ, jobQ, scan, tasks, jobVars, registered, isBound,
                 quitPosted, life, native, inbox, fw, toSend, adapter,
                 died, extras>>

SendCancel(j) ==
  /\ Live
  /\ j \in toCancel
  /\ adapter = "connected"
  /\ toCancel' = toCancel \ {j}
  /\ Send(Request("cancel", j))
  /\ UNCHANGED <<crash, fw, holder, toSend, adapter, died, extras>>

(* Mutant: forgets that the user has cancelled.                            *)
AfterDoneUnasked(s, h, result) ==
  LET c == s
  IN IF result = "OK"
     THEN LET d == FwComplete(c)
          IN FwComplete(IF d = "blocked" THEN FwStart(d) ELSE d)
     ELSE FwFail(c)

(* What a DONE status makes of the framework's job: a cancellation the     *)
(* framework has not heard of comes first, then the result; a blocked job  *)
(* that is done well is started once more to be completed.                 *)
AfterDone(s, h, result) ==
  LET c == IF h.user THEN FwCancel(s) ELSE s
  IN IF result = "OK"
     THEN LET d == FwComplete(c)
          IN FwComplete(IF d = "blocked" THEN FwStart(d) ELSE d)
     ELSE FwFail(c)

(* handleMessage of PrintServiceCallbackHandler, and of the handler of a   *)
(* cancel request.  Nothing is done for a job that is not in mPrintJobs,   *)
(* except for the answer to a cancel request.                              *)
OnNews ==
  LET m == Head(inbox)
      j == m.job
      h == holder[j]
  IN /\ m.what = "news"
     /\ \/ /\ ~h.kept \/ m.now.state = "none"
           /\ UNCHANGED <<fw, holder>>
        \/ /\ h.kept /\ m.now.state = "running"
           /\ fw' = [fw EXCEPT ![j] = FwStart(@)]
           /\ UNCHANGED holder
        \/ /\ h.kept /\ m.now.state = "blocked"
           /\ fw' = [fw EXCEPT ![j] = FwBlock(IF @ = "queued" THEN FwStart(@)
                                              ELSE @)]
           /\ UNCHANGED holder
        \/ /\ h.kept /\ m.now.state = "done"
           /\ fw' = [fw EXCEPT ![j] = AfterDone(@, h, m.now.result)]
           /\ holder' = [holder EXCEPT ![j].kept = FALSE, ![j].file = FALSE]

(* A job that could not be started fails, one that is cancelled is so.     *)
OnReply ==
  LET m == Head(inbox)
      j == m.job
  IN /\ m.what # "news"
     /\ fw' = CASE m.what = "printError" /\ holder[j].kept ->
                     [fw EXCEPT ![j] = FwFail(@)]
                [] m.what = "cancelled" -> [fw EXCEPT ![j] = FwCancel(@)]
                [] OTHER -> fw
     /\ UNCHANGED holder

Hear ==
  /\ Live
  /\ inbox # << >>
  /\ inbox' = Tail(inbox)
  /\ OnNews \/ OnReply
  /\ UNCHANGED <<svcQ, jobQ, scan, tasks, jobVars, registered, isBound,
                 quitPosted, life, native, crash, toSend, toCancel, adapter,
                 died, extras>>

(* onDestroy, when the framework has no job left: unregister, unbind, and  *)
(* delete the copies of all documents.                                     *)
Destroy ==
  /\ Live
  /\ adapter = "connected"
  /\ \A j \in Jobs : fw[j] \notin Active
  /\ adapter' = "destroyed"
  /\ holder' = [j \in Jobs |-> [holder[j] EXCEPT !.file = FALSE]]
  /\ Send(Plain("unregister"))
  /\ UNCHANGED <<crash, fw, toSend, toCancel, died, extras>>

Unbind ==
  /\ adapter = "destroyed"
  /\ OnUnbind
  /\ UNCHANGED avars

(* The service's process is killed, and onServiceDisconnected is called:   *)
(* the system makes a new service and binds it again.                      *)
Die ==
  /\ crash = "no"
  /\ life.made
  /\ extras < MaxExtras
  /\ extras' = extras + 1
  /\ died' = TRUE
  /\ crash' = "service"
  /\ UNCHANGED <<svcQ, jobQ, scan, tasks, jobVars, registered, isBound,
                 quitPosted, life, native, inbox, fw, holder, toSend, toCancel,
                 adapter>>

Disconnected ==
  /\ Live
  /\ adapter \in {"binding", "connected"}
  /\ crash = "service"
  /\ adapter' = "created"
  /\ crash' = "no"
  /\ svcQ' = << >> /\ jobQ' = << >> /\ scan' = Idle /\ tasks' = {}
  /\ jobList' = << >> /\ pending' = << >>
  /\ canceled' = [j \in Jobs |-> FALSE]
  /\ jobStatus' = [j \in Jobs |-> NoStatus]
  /\ registered' = FALSE /\ isBound' = FALSE /\ quitPosted' = FALSE
  /\ life' = [made |-> FALSE, started |-> FALSE, bound |-> FALSE, gone |-> "no"]
  /\ native' = [j \in Jobs |-> NoNative]
  /\ UNCHANGED <<inbox, extras, fw, holder, toSend, toCancel, died>>

(* Another client of the service cancels all jobs.                         *)
OtherClient ==
  /\ crash = "no"
  /\ life.bound
  /\ extras < MaxExtras
  /\ extras' = extras + 1
  /\ Send(Plain("cancelAll"))
  /\ UNCHANGED <<crash, fw, holder, toSend, toCancel, adapter, died>>

Client == \/ Bind \/ Connected \/ Disconnected \/ Hear \/ Destroy \/ Unbind
          \/ \E j \in Jobs : \/ QueueJob(j) \/ SendJob(j)
                             \/ RequestCancel(j) \/ SendCancel(j)
          \/ OtherClient \/ Die

Next == Client \/ (ServiceNext /\ UNCHANGED avars)

(* Every thread goes on: the looper of the main thread and of the job      *)
(* thread, the pool of the tasks, the library and the adapter.  Nothing    *)
(* has to happen that only users, the system or other clients do.          *)
Fairness ==
  /\ WF_vars(SvcStep /\ UNCHANGED avars)
  /\ WF_vars(JobStep /\ UNCHANGED avars)
  /\ WF_vars((\E t \in tasks : TaskStep(t)) /\ UNCHANGED avars)
  /\ \A j \in Jobs : /\ WF_vars(LibStep(j) /\ UNCHANGED avars)
                     /\ WF_vars(SendJob(j))
                     /\ WF_vars(SendCancel(j))
  /\ WF_vars(Bind \/ Connected \/ Disconnected)
  /\ WF_vars(Hear)

Spec     == Init /\ [][Next]_vars
FairSpec == Spec /\ Fairness

(***************************************************************************)
(* Properties.                                                             *)
(***************************************************************************)
Msgs == [what : {"init", "bind", "unbind", "register", "unregister",
                 "cancelAll", "exit", "taskComplete", "none"}]
        \cup [what : {"print", "cancel", "printError", "cancelled"}, job : Jobs]
        \cup [what : {"news"}, job : Jobs, now : JobStates \cup {NoStatus}]

(* Every variable of the service and of the adapter is what its Java field *)
(* or the message of its queue can be.                                     *)
TypeOK ==
  /\ svcQ \in Seq(Msgs \cup [what : {"result"}, reply : Msgs])
  /\ jobQ \in Seq(Msgs \cup Status)
  /\ inbox \in Seq(Msgs)
  /\ \/ scan = Idle
     \/ scan.at \in 1 .. Len(pending) + 1 /\ scan.msg \in Msgs \cup Status
        /\ scan.found \subseteq DOMAIN pending
  /\ \A t \in tasks :
       /\ t.what \in {"print", "cancel", "cancelAll"}
       /\ t.pc \in {"start", "pages", "add", "abort", "end", "find",
                   "cancel", "all"}
  /\ jobList \in Seq(Jobs)
  /\ pending \in Seq(Status)
  /\ canceled \in [Jobs -> BOOLEAN]
  /\ jobStatus \in [Jobs -> JobStates \cup {NoStatus}]
  /\ {registered, isBound, quitPosted} \subseteq BOOLEAN
  /\ life \in Lives
  /\ native \in [Jobs -> NativeJob]
  /\ crash \in {"no", "adapter", "service"}
  /\ fw \in [Jobs -> Active \cup Over \cup {"none"}]
  /\ holder \in [Jobs -> Holder]
  /\ toSend \subseteq Jobs /\ toCancel \subseteq Jobs
  /\ adapter \in {"created", "binding", "connected", "destroyed"}
  /\ extras \in 0 .. MaxExtras
  /\ died \in BOOLEAN

(* A job in mJobList is a job of the library that has not been ended: its  *)
(* handle, with which the tasks cancel it, is never that of a slot the     *)
(* library has given to another job.                                       *)
HandlesAreLive ==
  \A j \in Jobs : InList(j) => native[j].phase \in {"queued", "served", "over"}

(* A job the user has asked to cancel is never shown as completed, however *)
(* the request, its answer and the reports of the job cross.               *)
CancelIsShown == \A j \in Jobs : holder[j].user => fw[j] # "completed"

(* The copy of the document is there as long as the library prints from    *)
(* it, unless the job is being cancelled.                                  *)
DocumentOutlivesJob ==
  \A j \in Jobs :
    (native[j].phase \in {"queued", "served"} /\ ~native[j].cancel
      /\ crash = "no" /\ life.gone = "no")
    => holder[j].file

(* Once a job has been heard of, unregistering is the last word: a         *)
(* priority message does not overtake the registration it takes back.      *)
UnregisterIsLast ==
  ( /\ adapter = "destroyed" /\ crash = "no"
    /\ \E j \in Jobs : fw[j] = "completed"  /\ ~died
    /\ \A q \in {svcQ, jobQ} : ~Contains(q, Plain("unregister")) )
  => ~registered

(* What one process holds of another's is still good: the handles of the   *)
(* service, the documents of the adapter, the registration of its client.  *)
ServiceIsSafe == TypeOK /\ HandlesAreLive /\ DocumentOutlivesJob /\ UnregisterIsLast

(* A job that is done is told so last: no report follows it, though a late *)
(* one may still be pending, and its status never changes again.           *)
DoneIsLast ==
  [][\A j \in Jobs :
       jobStatus[j].state = "done"  /\ ~died
       => /\ jobStatus'[j] = jobStatus[j]
          /\ ~ \E n \in Jobs, s \in JobStates :
                 n = j /\ inbox' = Append(inbox, News(j, s))]_vars

Unlucky == crash = "adapter" \/ died

(* Every job of the framework comes to an end, even when its reports come  *)
(* before the service has it in its list, unless a process dies.  The one  *)
(* exception is a job that is told as done without having been told as     *)
(* running: see DoneEndsJob.                                               *)
EveryJobEnds ==
  \A j \in Jobs :
    fw[j] \in Active
    ~> \/ fw[j] \in Over \/ Unlucky
       \/ fw[j] = "queued" /\ jobStatus[j].state = "done"

(* What the adapter sets out to do when a job is done ("handle the case    *)
(* where the job is blocked and then finishes"): the framework's job ends, *)
(* whatever state it was in.                                               *)
DoneEndsJob ==
  \A j \in Jobs : (fw[j] \in Active /\ jobStatus[j].state = "done")
                  ~> (fw[j] \in Over \/ Unlucky)

(* The library gets the slot of a finished job back, if the service knows  *)
(* its handle and is not destroyed.                                        *)
SlotsReturn ==
  \A j \in Jobs :
    (native[j].phase = "over" /\ native[j].kept)
    ~> (native[j].phase = "free" \/ ~native[j].kept \/ Unlucky
        \/ life.gone # "no" \/ crash # "no")
=============================================================================
