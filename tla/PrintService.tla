----------------------------- MODULE PrintService -----------------------------
(***************************************************************************)
(* The print service (src/com/android/wfds/printservice): WPrintService    *)
(* with its ServiceHandler on the main thread and its JobHandler on the    *)
(* job thread, the background tasks the JobHandler starts, the calls of    *)
(* these tasks into the library (jni/wprint/lib/wprintJNI.c), and the jobs *)
(* of the library as Spooler promises them.                                *)
(*                                                                         *)
(* A job stands for its UUID and for the handle the library gives it.  The *)
(* service runs in a process of its own; its clients (AndroidPrint) send   *)
(* to its queue and read from theirs.                                      *)
(***************************************************************************)
EXTENDS Naturals, Sequences, SequencesExt, Subsequences

CONSTANTS
  Jobs,         (* the print jobs                                            *)
  MaxExtras     (* bound on what may happen besides the life of the jobs:    *)
                (* further reports, requests of other clients, deaths        *)

ASSUME ServiceAssumption == MaxExtras \in Nat

VARIABLES
  svcQ,         (* the queue of the main thread: intents and task results    *)
  jobQ,         (* the queue of the JobHandler                               *)
  scan,         (* how far the JobHandler is in a status message             *)
  tasks,        (* the tasks that are running                                *)
  jobList,      (* mJobList                                                  *)
  canceled,     (* mCanceled of the jobs                                     *)
  jobStatus,    (* mJobStatus of the jobs                                    *)
  pending,      (* mPendingStatus                                            *)
  registered,   (* is the client in mStatusCallbacks                         *)
  isBound,      (* mIsServiceBound                                           *)
  quitPosted,   (* is mQuitRunnable posted                                   *)
  life,         (* of the service: what the system does with it              *)
  native,       (* the jobs of the library                                   *)
  inbox,        (* what the service has sent to its client                   *)
  extras,       (* how much has happened besides: a bound                    *)
  crash         (* the process that has died of an uncaught exception        *)

jobVars == <<jobList, canceled, jobStatus, pending>>
svars == <<svcQ, jobQ, scan, tasks, jobList, canceled, jobStatus, pending,
           registered, isBound, quitPosted, life, native, inbox, extras, crash>>

(***************************************************************************)
(* Data.                                                                   *)
(***************************************************************************)
Results == {"OK", "ERROR", "CANCELLED"}

(* wPrintCallbackParams: the state of the job, or the report of a page.    *)
JobStates == [state : {"running", "blocked"}, result : {"none"}]
               \cup [state : {"done"}, result : Results]
NoStatus  == [state |-> "none", result |-> "none"]
Status    == [what : {"status"}, job : Jobs, page : {FALSE}, now : JobStates]
               \cup [what : {"status"}, job : Jobs, page : {TRUE},
                     now : {NoStatus}]
StatusMsg(j, s) == [what |-> "status", job |-> j, page |-> FALSE, now |-> s]
PageMsg(j)      == [what |-> "status", job |-> j, page |-> TRUE,
                    now |-> NoStatus]
IsDone(s)       == s.now.state = "done"

Plain(w)     == [what |-> w]
Request(w,j) == [what |-> w, job |-> j]

(* What is told of a job to the status receivers, and the answers of tasks *)
(* the adapter does not look at.                                           *)
News(j, now) == [what |-> "news", job |-> j, now |-> now]
NoReply      == Plain("none")

(* A task: its request, its program counter, and what it will answer.      *)
Task(w, j, pc)  == [what |-> w, job |-> j, pc |-> pc]

Idle == [at |-> 0]

(* The life of the service: created by the first bind, started by onBind,  *)
(* bound until the system unbinds it, destroyed when neither, and exited   *)
(* when the JobHandler has handled the last message.                       *)
Lives == [made : BOOLEAN, started : BOOLEAN, bound : BOOLEAN,
          gone : {"no", "destroyed", "exited"}]

(* A job of the library: its state, was it asked to stop, its result, has  *)
(* it been started on the printer, has it all its pages, and is its handle *)
(* known to the service.                                                   *)
NativeJob == [phase : {"none", "queued", "served", "over", "free"},
              cancel : BOOLEAN, result : Results \cup {"none"},
              begun : BOOLEAN, full : BOOLEAN, kept : BOOLEAN]
NoNative  == [phase |-> "none", cancel |-> FALSE, result |-> "none",
              begun |-> FALSE, full |-> FALSE, kept |-> TRUE]

InList(j)  == Contains(jobList, j)
Running    == crash = "no" /\ life.gone # "exited"

ServiceInit ==
  /\ svcQ = << >>
  /\ jobQ = << >>
  /\ scan = Idle
  /\ tasks = {}
  /\ jobList = << >>
  /\ canceled = [j \in Jobs |-> FALSE]
  /\ jobStatus = [j \in Jobs |-> NoStatus]
  /\ pending = << >>
  /\ registered = FALSE
  /\ isBound = FALSE
  /\ quitPosted = FALSE
  /\ life = [made |-> FALSE, started |-> FALSE, bound |-> FALSE, gone |-> "no"]
  /\ native = [j \in Jobs |-> NoNative]
  /\ inbox = << >>
  /\ extras = 0
  /\ crash = "no"

(***************************************************************************)
(* The service and the system.                                             *)
(***************************************************************************)
IsBinding(m)   == m.what \in {"bind", "unbind"}
WithoutBinds(q) == Kept(q, {i \in DOMAIN q : ~IsBinding(q[i])})

(* onCreate, the first time, and onBind: the service is started as well,   *)
(* and a bind message goes before all others.                              *)
OnBind ==
  /\ Running
  /\ ~life.bound /\ life.gone = "no"
  /\ life' = [life EXCEPT !.made = TRUE, !.bound = TRUE, !.started = TRUE]
  /\ svcQ' = <<Plain("bind")>> \o WithoutBinds(svcQ)
  /\ jobQ' = IF life.made THEN jobQ ELSE <<Plain("init")>>
  /\ UNCHANGED <<scan, tasks, jobVars, registered, isBound, quitPosted, native,
                 inbox, crash, extras>>

(* onUnbind; a service that has stopped itself is destroyed as well:       *)
(* onDestroy sends the last message and gives up the handler.              *)
OnUnbind ==
  /\ Running
  /\ life.bound
  /\ svcQ' = <<Plain("unbind")>> \o WithoutBinds(svcQ)
  /\ IF life.started
     THEN /\ life' = [life EXCEPT !.bound = FALSE]
          /\ UNCHANGED jobQ
     ELSE /\ life' = [life EXCEPT !.bound = FALSE, !.gone = "destroyed"]
          /\ jobQ' = Append(jobQ, Plain("exit"))
  /\ UNCHANGED <<scan, tasks, jobVars, registered, isBound, quitPosted, native,
                 inbox, crash, extras>>

(* mQuitRunnable: stopSelf, and onDestroy if nobody is bound.              *)
QuitDelayOver ==
  /\ Running
  /\ quitPosted
  /\ quitPosted' = FALSE
  /\ IF life.bound \/ life.gone # "no"
     THEN /\ life' = [life EXCEPT !.started = FALSE]
          /\ UNCHANGED jobQ
     ELSE /\ life' = [life EXCEPT !.started = FALSE, !.gone = "destroyed"]
          /\ jobQ' = Append(jobQ, Plain("exit"))
  /\ UNCHANGED <<svcQ, scan, tasks, jobVars, registered, isBound, native,
                 inbox, crash, extras>>

(***************************************************************************)
(* The main thread.                                                        *)
(***************************************************************************)
Priority == {"bind", "unregister"}

(* handleMessage of the ServiceHandler: a message without an object, which *)
(* the unbind message is, asks for a stop; the others go on to the         *)
(* JobHandler, two of them to the front.  After onDestroy there is no      *)
(* handler to send to.                                                     *)
SvcIntent ==
  /\ Running
  /\ svcQ # << >>
  /\ LET m == Head(svcQ) IN
     /\ m.what # "result"
     /\ svcQ' = Tail(svcQ)
     /\ IF m.what = "unbind"
        THEN quitPosted' = TRUE /\ UNCHANGED <<jobQ, crash>>
        ELSE /\ UNCHANGED quitPosted
             /\ IF life.gone # "no"
                THEN crash' = "service" /\ UNCHANGED jobQ
                ELSE /\ jobQ' = IF m.what \in Priority THEN <<m>> \o jobQ
                                ELSE Append(jobQ, m)
                     /\ UNCHANGED crash
  /\ UNCHANGED <<scan, tasks, jobVars, registered, isBound, life, native,
                 inbox, extras>>

(* Mutant: does not tell the JobHandler that a task is complete.           *)
SvcResultOnly ==
  /\ Running
  /\ svcQ # << >>
  /\ Head(svcQ).what = "result"
  /\ svcQ' = Tail(svcQ)
  /\ LET r == Head(svcQ).reply IN
     inbox' = IF r = NoReply THEN inbox ELSE Append(inbox, r)
  /\ UNCHANGED jobQ
  /\ UNCHANGED <<scan, tasks, jobVars, registered, isBound, quitPosted, life,
                 native, crash, extras>>

(* onPostExecute of a task: the reply to the client, and a message for the *)
(* JobHandler the task was given.                                          *)
SvcResult ==
  /\ Running
  /\ svcQ # << >>
  /\ Head(svcQ).what = "result"
  /\ svcQ' = Tail(svcQ)
  /\ LET r == Head(svcQ).reply IN
     inbox' = IF r = NoReply THEN inbox ELSE Append(inbox, r)
  /\ jobQ' = Append(jobQ, Plain("taskComplete"))
  /\ UNCHANGED <<scan, tasks, jobVars, registered, isBound, quitPosted, life,
                 native, crash, extras>>

(***************************************************************************)
(* The JobHandler.  removeStopRequest comes first in every message, and a  *)
(* message that leaves nothing to do posts the request again.  mNumTasks   *)
(* is never incremented, so the running tasks do not count.                *)
(***************************************************************************)
NothingToDo(list, bnd) == ~bnd /\ list = << >>

JobMsg(w) ==
  /\ Running
  /\ scan = Idle
  /\ jobQ # << >>
  /\ Head(jobQ).what = w
  /\ jobQ' = Tail(jobQ)

FirstPc(w) == CASE w = "print"     -> "start"
                [] w = "cancel"    -> "find"
                [] w = "cancelAll" -> "all"

JobInit ==
  /\ JobMsg("init")
  /\ quitPosted' = NothingToDo(jobList, isBound)
  /\ UNCHANGED <<svcQ, scan, tasks, jobVars, registered, isBound, life, native,
                 inbox, crash, extras>>

(* START_JOB, CANCEL_JOB and CANCEL_ALL: a task on the thread pool.        *)
JobExecute(w) ==
  /\ JobMsg(w)
  /\ LET m == Head(jobQ) IN
     tasks' = tasks \cup {IF w \in {"print", "cancel"}
                          THEN Task(w, m.job, FirstPc(w))
                          ELSE [what |-> w, pc |-> FirstPc(w)]}
  /\ quitPosted' = NothingToDo(jobList, isBound)
  /\ UNCHANGED <<svcQ, scan, jobVars, registered, isBound, life, native, inbox,
                 crash, extras>>

(* REGISTER_STATUS_RECEIVER and UNREGISTER_STATUS_RECEIVER.                *)
JobRegister(w) ==
  /\ JobMsg(w)
  /\ registered' = (w = "register")
  /\ quitPosted' = NothingToDo(jobList, isBound)
  /\ UNCHANGED <<svcQ, scan, tasks, jobVars, isBound, life, native, inbox,
                 crash, extras>>

(* SERVICE_BIND: the case of SERVICE_UNBIND is never reached.              *)
JobBind ==
  /\ JobMsg("bind")
  /\ isBound' = TRUE
  /\ quitPosted' = NothingToDo(jobList, TRUE)
  /\ UNCHANGED <<svcQ, scan, tasks, jobVars, registered, life, native, inbox,
                 crash, extras>>

(* EXIT: the library exits and the looper drops what it still has.         *)
JobExit ==
  /\ Running
  /\ scan = Idle
  /\ jobQ # << >>
  /\ Head(jobQ).what = "exit"
  /\ jobQ' = << >>
  /\ quitPosted' = FALSE
  /\ life' = [life EXCEPT !.gone = "exited"]
  /\ UNCHANGED <<svcQ, scan, tasks, jobVars, registered, isBound, native,
                 inbox, crash, extras>>

(* wprintEndJob gives the slot of a job back when the job is over.         *)
EndJob(n) == IF n.phase = "over" THEN [n EXCEPT !.phase = "free"] ELSE n

(* Mutant: leaves a job that is done in the list.                          *)
ProcessKeeping(s) ==
  LET j   == s.job
      now == IF s.page THEN jobStatus[j] ELSE s.now
  IN /\ jobStatus' = [jobStatus EXCEPT ![j] = now]
     /\ IF IsDone(s)
        THEN /\ native' = [native EXCEPT ![j] = EndJob(@)]
             /\ UNCHANGED jobList
        ELSE UNCHANGED <<native, jobList>>
     /\ inbox' = IF registered THEN Append(inbox, News(j, now)) ELSE inbox

(* Mutant: does not end a job that is done.                                *)
ProcessForgetting(s) ==
  LET j   == s.job
      now == IF s.page THEN jobStatus[j] ELSE s.now
  IN /\ jobStatus' = [jobStatus EXCEPT ![j] = now]
     /\ IF IsDone(s)
        THEN /\ UNCHANGED native
             /\ jobList' = Without(jobList, j)
        ELSE UNCHANGED <<native, jobList>>
     /\ inbox' = IF registered THEN Append(inbox, News(j, now)) ELSE inbox

(* processStatus for a job in the list: the status is kept in the job, a   *)
(* job that is done is ended and leaves the list, and the receivers are    *)
(* told; a page report comes with the last job status.                     *)
Process(s) ==
  LET j   == s.job
      now == IF s.page THEN jobStatus[j] ELSE s.now
  IN /\ jobStatus' = [jobStatus EXCEPT ![j] = now]
     /\ IF IsDone(s)
        THEN /\ native' = [native EXCEPT ![j] = EndJob(@)]
             /\ jobList' = Without(jobList, j)
        ELSE UNCHANGED <<native, jobList>>
     /\ inbox' = IF registered THEN Append(inbox, News(j, now)) ELSE inbox

Ignore == UNCHANGED <<jobStatus, native, jobList, inbox>>

(* The message itself, after the pending statuses: a status of a job that  *)
(* is not in the list stays pending.                                       *)
Conclude(m, left) ==
  /\ IF m.what = "status" /\ InList(m.job)
     THEN Process(m) /\ pending' = left
     ELSE /\ Ignore
          /\ pending' = IF m.what = "status" THEN Append(left, m) ELSE left
  /\ scan' = Idle
  /\ quitPosted' = NothingToDo(jobList', isBound)

(* JOB_STATUS and TASK_COMPLETE start with processPendingStatus, which     *)
(* looks up the jobs of the pending statuses one by one, while the tasks   *)
(* may add them.                                                           *)
JobStatusMsg(w) ==
  /\ JobMsg(w)
  /\ IF pending = << >>
     THEN Conclude(Head(jobQ), << >>)
     ELSE /\ scan' = [at |-> 1, msg |-> Head(jobQ), found |-> {}]
          /\ quitPosted' = FALSE
          /\ Ignore /\ UNCHANGED pending
  /\ UNCHANGED <<svcQ, tasks, canceled, registered, isBound, life, crash,
                 extras>>

JobScan ==
  /\ Running
  /\ scan # Idle
  /\ scan.at \in DOMAIN pending
  /\ IF InList(pending[scan.at].job)
     THEN /\ Process(pending[scan.at])
          /\ scan' = [scan EXCEPT !.at = @ + 1, !.found = @ \cup {scan.at}]
     ELSE /\ Ignore
          /\ scan' = [scan EXCEPT !.at = @ + 1]
  /\ UNCHANGED <<svcQ, jobQ, tasks, canceled, pending, registered, isBound,
                 quitPosted, life, crash, extras>>

(* The pending statuses whose job was not found.                           *)
StillPending == Kept(pending, {n \in DOMAIN pending : n \notin scan.found})

JobStatusEnd ==
  /\ Running
  /\ scan # Idle
  /\ scan.at \notin DOMAIN pending
  /\ Conclude(scan.msg, StillPending)
  /\ UNCHANGED <<svcQ, jobQ, tasks, canceled, registered, isBound, life, crash,
                 extras>>

(***************************************************************************)
(* The library.  A status of a job is a message for the JobHandler.        *)
(***************************************************************************)
ToHandler(m) == jobQ' = Append(jobQ, m)

Serve(j) ==
  /\ Running
  /\ native[j].phase = "queued"
  /\ \A o \in Jobs : native[o].phase # "served"
  /\ native' = [native EXCEPT ![j].phase = "served"]
  /\ UNCHANGED <<svcQ, jobQ, scan, tasks, jobVars, registered, isBound,
                 quitPosted, life, inbox, crash, extras>>

(* The job starts on the printer, or was blocked before.                   *)
Begin(j) ==
  /\ Running
  /\ native[j].phase = "served" /\ ~native[j].begun
  /\ native' = [native EXCEPT ![j].begun = TRUE]
  /\ ToHandler(StatusMsg(j, [state |-> "running", result |-> "none"]))
  /\ UNCHANGED <<svcQ, scan, tasks, jobVars, registered, isBound, quitPosted,
                 life, inbox, crash, extras>>

Report(j) ==
  /\ Running
  /\ native[j].phase = "served" /\ extras < MaxExtras
  /\ extras' = extras + 1
  /\ \/ ToHandler(StatusMsg(j, [state |-> "blocked", result |-> "none"]))
     \/ /\ native[j].begun
        /\ \/ ToHandler(StatusMsg(j, [state |-> "running", result |-> "none"]))
           \/ ToHandler(PageMsg(j))
  /\ UNCHANGED <<svcQ, scan, tasks, jobVars, registered, isBound, quitPosted,
                 life, inbox, crash, native>>

DoneMsg(j, r) == StatusMsg(j, [state |-> "done", result |-> r])

(* All is well with a job that was started and has got its last page.      *)
Finish(j) ==
  /\ Running
  /\ native[j].phase = "served"
  /\ \E r \in Results :
       /\ (r = "CANCELLED") = native[j].cancel
       /\ r = "OK" => native[j].begun /\ native[j].full
       /\ native' = [native EXCEPT ![j].phase = "over", ![j].result = r]
       /\ ToHandler(DoneMsg(j, r))
  /\ UNCHANGED <<svcQ, scan, tasks, jobVars, registered, isBound, quitPosted,
                 life, inbox, crash, extras>>

(* wprintCancelJob: a waiting job is over at once, a running one is asked  *)
(* to stop.                                                                *)
CancelNative(n) ==
  CASE n.phase = "queued" -> [n EXCEPT !.phase = "over", !.cancel = TRUE,
                                       !.result = "CANCELLED"]
    [] n.phase = "served" -> [n EXCEPT !.cancel = TRUE]
    [] OTHER -> n

CancelRefused(n) == \/ n.phase \in {"none", "free"}
                    \/ n.phase = "over" /\ n.result # "CANCELLED"

TellsCancelled(j) == native[j].phase = "queued"

(***************************************************************************)
(* The tasks.                                                              *)
(***************************************************************************)
Step(t, pc)    == tasks' = (tasks \ {t}) \cup {[t EXCEPT !.pc = pc]}
Return(t, r)   == /\ tasks' = tasks \ {t}
                  /\ svcQ' = Append(svcQ, [what |-> "result", reply |-> r])
TaskAt(t, pc)  == Running /\ t \in tasks /\ t.pc = pc

(* StartJobTask: no answer from the printer, or no library job.            *)
StartRefused(t) ==
  /\ TaskAt(t, "start")
  /\ Return(t, Request("printError", t.job))
  /\ UNCHANGED <<jobQ, scan, jobVars, registered, isBound, quitPosted, life,
                 native, inbox, crash, extras>>

(* nativeStartJob: wprintStartJob queues the job ...                       *)
StartNative(t) ==
  /\ TaskAt(t, "start")
  /\ native' = [native EXCEPT ![t.job].phase = "queued"]
  /\ Step(t, "pages")
  /\ UNCHANGED <<svcQ, jobQ, scan, jobVars, registered, isBound, quitPosted,
                 life, inbox, crash, extras>>

(* ... its pages are added, the last one even if some page could not be    *)
(* added ...                                                               *)
StartPages(t) ==
  /\ TaskAt(t, "pages")
  /\ native' = [native EXCEPT ![t.job].full = TRUE]
  /\ \E pc \in {"add", "abort"} : Step(t, pc)
  /\ UNCHANGED <<svcQ, jobQ, scan, jobVars, registered, isBound, quitPosted,
                 life, inbox, crash, extras>>

(* Mutant: does not cancel the job whose page could not be added.          *)
StartAbandoned(t) ==
  /\ TaskAt(t, "abort")
  /\ UNCHANGED native
  /\ UNCHANGED jobQ
  /\ Step(t, "end")
  /\ UNCHANGED <<svcQ, scan, jobVars, registered, isBound, quitPosted, life,
                 inbox, crash, extras>>

(* ... and then the job is cancelled ...                                   *)
StartAborted(t) ==
  /\ TaskAt(t, "abort")
  /\ native' = [native EXCEPT ![t.job] = CancelNative(@)]
  /\ jobQ' = IF TellsCancelled(t.job)
             THEN Append(jobQ, DoneMsg(t.job, "CANCELLED")) ELSE jobQ
  /\ Step(t, "end")
  /\ UNCHANGED <<svcQ, scan, jobVars, registered, isBound, quitPosted, life,
                 inbox, crash, extras>>

(* ... ended, if it is over by now, and forgotten.                         *)
StartForgotten(t) ==
  /\ TaskAt(t, "end")
  /\ native' = [native EXCEPT ![t.job] = [EndJob(@) EXCEPT !.kept = FALSE]]
  /\ Return(t, Request("printError", t.job))
  /\ UNCHANGED <<jobQ, scan, jobVars, registered, isBound, quitPosted, life,
                 inbox, crash, extras>>

(* addJobToList, by the handler the service no longer has once it is       *)
(* destroyed.                                                              *)
StartAdd(t) ==
  /\ TaskAt(t, "add")
  /\ IF life.gone # "no"
     THEN crash' = "service" /\ UNCHANGED <<jobList, tasks, svcQ>>
     ELSE /\ jobList' = Append(jobList, t.job)
          /\ Return(t, NoReply)
          /\ UNCHANGED crash
  /\ UNCHANGED <<jobQ, scan, canceled, jobStatus, pending, registered, isBound,
                 quitPosted, life, native, inbox, extras>>

(* CancelJobTask: a job that is not in the list cannot be cancelled, one   *)
(* that is cancelled already need not be.                                  *)
CancelFind(t) ==
  /\ TaskAt(t, "find")
  /\ IF life.gone # "no"
     THEN crash' = "service" /\ UNCHANGED <<tasks, svcQ>>
     ELSE /\ UNCHANGED crash
          /\ CASE ~InList(t.job) -> Return(t, NoReply)
               [] InList(t.job) /\ canceled[t.job] ->
                    Return(t, Request("cancelled", t.job))
               [] OTHER -> Step(t, "cancel") /\ UNCHANGED svcQ
  /\ UNCHANGED <<jobQ, scan, jobVars, registered, isBound, quitPosted, life,
                 native, inbox, extras>>

CancelCall(t) ==
  /\ TaskAt(t, "cancel")
  /\ LET j == t.job IN
     /\ native' = [native EXCEPT ![j] = CancelNative(@)]
     /\ jobQ' = IF TellsCancelled(j) THEN Append(jobQ, DoneMsg(j, "CANCELLED"))
                ELSE jobQ
     /\ canceled' = [canceled EXCEPT ![j] = TRUE]
     /\ Return(t, IF CancelRefused(native[j]) THEN NoReply
                   ELSE Request("cancelled", j))
  /\ UNCHANGED <<scan, jobList, jobStatus, pending, registered, isBound,
                 quitPosted, life, inbox, crash, extras>>

(* CancelAllTask: the jobs of the list that are not cancelled, from the    *)
(* last to the first, in one critical section of mJobList.                 *)
CancelAll(t) ==
  /\ TaskAt(t, "all")
  /\ IF life.gone # "no"
     THEN crash' = "service" /\ UNCHANGED <<tasks, svcQ, native, jobQ, canceled>>
     ELSE LET back     == Reverse(jobList)
              toCancel == Kept(back, {n \in DOMAIN back : ~canceled[back[n]]})
              told     == Kept(toCancel, {n \in DOMAIN toCancel : TellsCancelled(toCancel[n])})
          IN /\ native' = [j \in Jobs |-> IF Contains(toCancel, j)
                                          THEN CancelNative(native[j])
                                          ELSE native[j]]
             /\ jobQ' = jobQ \o [n \in DOMAIN told |->
                                   DoneMsg(told[n], "CANCELLED")]
             /\ canceled' = [j \in Jobs |-> canceled[j] \/ Contains(toCancel, j)]
             /\ Return(t, NoReply)
             /\ UNCHANGED crash
  /\ UNCHANGED <<scan, jobList, jobStatus, pending, registered, isBound,
                 quitPosted, life, inbox, extras>>

TaskStep(t) == \/ StartRefused(t) \/ StartNative(t)
               \/ StartPages(t) \/ StartAborted(t) \/ StartForgotten(t)
               \/ StartAdd(t)
               \/ CancelFind(t) \/ CancelCall(t) \/ CancelAll(t)

JobStep == \/ JobInit
           \/ \E w \in {"print", "cancel", "cancelAll"} : JobExecute(w)
           \/ \E w \in {"register", "unregister"} : JobRegister(w)
           \/ JobBind
           \/ JobExit
           \/ \E w \in {"status", "taskComplete"} : JobStatusMsg(w)
           \/ JobScan
           \/ JobStatusEnd

SvcStep == SvcIntent \/ SvcResult

LibStep(j) == Serve(j) \/ Begin(j) \/ Finish(j)

ServiceNext == \/ SvcStep
               \/ JobStep
               \/ \E t \in tasks : TaskStep(t)
               \/ \E j \in Jobs : LibStep(j) \/ Report(j)
               \/ QuitDelayOver
=============================================================================
