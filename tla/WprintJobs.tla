------------------------------ MODULE WprintJobs ------------------------------
(***************************************************************************)
(* The spooler of the print library (jni/wprint/lib/lib_wprint.c): the     *)
(* table of spooled jobs, the job thread that runs them one at a time, the *)
(* status thread that watches the printer for the running job, and the     *)
(* client calls wprintStartJob, wprintPage, wprintCancelJob, wprintEndJob  *)
(* and wprintExit.                                                         *)
(*                                                                         *)
(* The recursive mutex _q_lock is not a variable.  A critical section of a *)
(* client or of the status thread is one action.  A critical section of    *)
(* the job thread may be several actions: while th.pc is in Held the job   *)
(* thread owns the mutex and every other critical section is disabled.     *)
(***************************************************************************)
EXTENDS Integers, Sequences

CONSTANTS
  MaxSpooledJobs,   (* _MAX_SPOOLED_JOBS: the slots of the job table         *)
  MaxMsgs,          (* _MAX_MSGS: the capacity of the job message queue      *)
  MaxPagesPerJob,   (* _MAX_PAGES_PER_JOB: the capacity of a page queue      *)
  MaxIdleWait,      (* MAX_IDLE_WAIT: retries while the printer is busy      *)
  HandleSpace,      (* 2^24: the running numbers a handle can hold           *)
  JobKinds,         (* the job parameters clients may ask for                *)
  Reports,          (* the printer states the status interface may report    *)
  StartFails,       (* may start_job of the plugin fail under a status thread*)
  MaxStarts,        (* bound on the jobs started in one behaviour            *)
  MaxPages          (* bound on the pages a client hands in for one job      *)

(* The job parameters: pages handed in one by one (the path name is a      *)
(* directory), copies, a status interface (IPP) or none (port or file),    *)
(* duplex, and a PDF, whose copies the printer makes.                      *)
JobKind == [isDir : BOOLEAN, copies : Nat \ {0}, monitored : BOOLEAN,
            duplex : BOOLEAN, pdf : BOOLEAN]

(* printer_status together with the first of printer_reasons.              *)
Report == {"unknown", "offline", "idle", "printing", "stopped", "needsCare",
           "unreachable", "cancelled", "cancelledOffline"}

ASSUME WprintAssumption ==
  /\ MaxSpooledJobs \in Nat \ {0}
  /\ MaxMsgs \in Nat \ {0}
  /\ MaxPagesPerJob \in Nat \ {0}
  /\ MaxIdleWait \in Nat
  /\ HandleSpace \in Nat \ {0}
  /\ JobKinds \subseteq JobKind
  /\ Reports \subseteq Report
  /\ StartFails \in BOOLEAN
  /\ MaxStarts \in Nat
  /\ MaxPages \in Nat

VARIABLES
  jobs,      (* _job_queue: a record for every slot                          *)
  msgQ,      (* _msgQ: the run and quit messages for the job thread          *)
  running,   (* _running_number                                              *)
  th,        (* the job thread: program counter and locals                   *)
  mon,       (* the status thread of the current job                         *)
  sem,       (* is _job_start_wait_sem (_job_end_wait_sem) positive          *)
  exit       (* how far wprintExit has come                                  *)

vars == <<jobs, msgQ, running, th, mon, sem, exit>>

(***************************************************************************)
(* Data.                                                                   *)
(***************************************************************************)
Slots   == 0 .. (MaxSpooledJobs - 1)
Handles == [num : 0 .. (HandleSpace - 1), slot : Slots]

Active    == {"RUNNING", "BLOCKED", "CANCEL_REQUEST"}
Final     == {"CANCELLED", "COMPLETED", "ERROR", "CORRUPTED"}
JobStates == {"FREE", "QUEUED"} \cup Active \cup Final
Results   == {"OK", "ERROR", "CANCELLED", "CORRUPT"}

(* _page_t: a page without a name only ends the job.                       *)
Page    == [named : BOOLEAN, last : BOOLEAN, corrupted : BOOLEAN]
EndPage == [named |-> FALSE, last |-> TRUE, corrupted |-> FALSE]

(* What the client has heard through cb_fn: how often JOB_DONE came, is a  *)
(* page open (PAGE_START_INFO without its PAGE_INFO), and was any callback *)
(* out of order.  A history of the calls, not state of the program.        *)
Heard    == [done : Nat, open : BOOLEAN, bad : BOOLEAN]
Unheard  == [done |-> 0, open |-> FALSE, bad |-> FALSE]

Tell(c, what) ==
  [done |-> IF what = "done" THEN c.done + 1 ELSE c.done,
   open |-> what = "pageStart" \/ (c.open /\ what # "pageInfo"),
   bad  |-> \/ c.bad
            \/ c.done > 0
            \/ what \in {"pageInfo", "pageTotal"} /\ ~c.open
            \/ what \in {"pageStart", "done"} /\ c.open]

(* _job_queue_t.  paper: blocked_reasons holds out of paper, jammed or     *)
(* door open.  failed is history: print_page has returned ERROR.           *)
Job == [state : JobStates, handle : Handles, kind : JobKind,
        cancelled : BOOLEAN, paper : BOOLEAN,
        lastSeen : BOOLEAN, numPages : Nat, pageNum : Nat,
        printing : BOOLEAN, pageQ : Seq(Page), saveQ : Seq(Page),
        client : Heard, failed : BOOLEAN]

Held == {"check", "launch", "copy", "after", "single", "end", "stop", "finish"}
Busy == Held \cup {"sleep", "recvPage", "gotPage", "print", "blank",
                   "waitStart", "waitDone", "lastTry", "join"}
LockFree == th.pc \notin Held

(* The job thread: program counter, the handle it was given, the slot of   *)
(* that job, and locals.  corrupted: has a page been corrupted; copy and   *)
(* retry: loop counters; odd, back: per_copy_page_num is odd, and was so   *)
(* at the last page (page_backside).                                       *)
Thread == [pc : Busy \cup {"receive", "lookup", "exited"}, hand : Handles,
           cur : Slots, result : Results, corrupted : BOOLEAN,
           copy : Nat \ {0}, retry : Nat, odd : BOOLEAN, back : BOOLEAN,
           page : Page]

(* The status thread: last_status and curr_status of _start, stop_monitor, *)
(* and whether its loop is over.  lost is history: _start has forgotten a  *)
(* stop that was asked for before it ran.                                  *)
Monitor == [pc : {"off", "born", "head", "poll", "call", "apply"},
            last : Report, new : Report, stop : BOOLEAN, lost : BOOLEAN,
            ending : BOOLEAN]

NoThread == [pc |-> "off", last |-> "unknown", new |-> "unreachable",
             stop |-> FALSE, lost |-> FALSE, ending |-> FALSE]

QuitMsg == [id |-> "quit"]
RunMsg(h) == [id |-> "run", job |-> h]
Message == {QuitMsg} \cup {RunMsg(h) : h \in Handles}

HasRoom(q, cap) == Len(q) < cap

(* _get_job_desc: the slot of a handle, when it still holds that job.      *)
Names(h, s) == /\ s = h.slot
               /\ jobs[s].handle = h
               /\ jobs[s].state # "FREE"

NoKind == [isDir |-> FALSE, copies |-> 1, monitored |-> FALSE,
           duplex |-> FALSE, pdf |-> FALSE]

FreeJob(s) ==
  [state |-> "FREE", handle |-> [num |-> 0, slot |-> s], kind |-> NoKind,
   cancelled |-> FALSE, paper |-> FALSE,
   lastSeen |-> FALSE, numPages |-> 0, pageNum |-> 0, printing |-> FALSE,
   pageQ |-> << >>, saveQ |-> << >>, client |-> Unheard, failed |-> FALSE]

(* The locals of the job thread are assigned anew for every job.           *)
IdleThread == [pc |-> "receive", hand |-> [num |-> 0, slot |-> 0], cur |-> 0,
               result |-> "OK", corrupted |-> FALSE, copy |-> 1, retry |-> 0,
               odd |-> FALSE, back |-> FALSE, page |-> EndPage]

(* wprintInit: an empty table, an empty queue, a job thread that waits.    *)
Init ==
  /\ jobs = [s \in Slots |-> FreeJob(s)]
  /\ msgQ = << >>
  /\ running = 0
  /\ th = IdleThread
  /\ mon = NoThread
  /\ sem = [start |-> FALSE, end |-> FALSE]
  /\ exit = "none"

(***************************************************************************)
(* Client calls.  The library must not be used once wprintExit has         *)
(* returned: it destroys the mutex.                                        *)
(***************************************************************************)
MayCall == LockFree /\ exit # "done"

(* _get_handle: the first free slot, scanning from the running number.     *)
NextFree(s) ==
  LET at(i) == (i + running) % MaxSpooledJobs
  IN  \E i \in 0 .. (MaxSpooledJobs - 1) :
        /\ s = at(i)
        /\ jobs[s].state = "FREE"
        /\ \A k \in 0 .. (i - 1) : jobs[at(k)].state # "FREE"

(* Mutant: the running number is not masked.                               *)
UnmaskedHandle(s) == [num |-> running + 1, slot |-> s]

(* _ENCODE_HANDLE                                                          *)
NewHandle(s) == [num |-> (running + 1) % HandleSpace, slot |-> s]

(* Mutant: the result of msgQSend is ignored.                              *)
StartUnsent(s, k) ==
  /\ MayCall
  /\ running < MaxStarts
  /\ NextFree(s)
  /\ running' = running + 1
  /\ msgQ' = IF HasRoom(msgQ, MaxMsgs)
               THEN Append(msgQ, RunMsg(NewHandle(s))) ELSE msgQ
  /\ jobs' = [jobs EXCEPT ![s] =
       [FreeJob(s) EXCEPT !.state = "QUEUED", !.handle = NewHandle(s),
                          !.kind = k, !.numPages = IF k.isDir THEN 0 ELSE 1]]
  /\ UNCHANGED <<th, mon, sem, exit>>

(* wprintStartJob.  When the run message cannot be queued the job goes     *)
(* through ERROR to _recycle_handle and leaves only its running number.    *)
StartJob(s, k) ==
  /\ MayCall
  /\ running < MaxStarts
  /\ NextFree(s)
  /\ running' = running + 1
  /\ IF HasRoom(msgQ, MaxMsgs)
       THEN /\ msgQ' = Append(msgQ, RunMsg(NewHandle(s)))
            /\ jobs' = [jobs EXCEPT ![s] =
                 [FreeJob(s) EXCEPT !.state = "QUEUED", !.handle = NewHandle(s),
                                    !.kind = k,
                                    !.numPages = IF k.isDir THEN 0 ELSE 1]]
       ELSE UNCHANGED <<msgQ, jobs>>
  /\ UNCHANGED <<th, mon, sem, exit>>

(* The body of wprintPage: last_page_seen is set, and a page in progress   *)
(* is told the total, before msgQSend is tried on the page queue.          *)
TakesPages(j) == j.kind.isDir /\ ~j.lastSeen

WithPage(j, p) ==
  LET sent == HasRoom(j.pageQ, MaxPagesPerJob)
      tell == p.last /\ j.pageNum > 0 /\ j.printing
  IN  IF ~TakesPages(j) THEN j ELSE
      [j EXCEPT !.lastSeen = p.last,
                !.client = IF tell THEN Tell(@, "pageTotal") ELSE @,
                !.pageQ = IF sent THEN Append(@, p) ELSE @,
                !.numPages = IF sent /\ p.named THEN @ + 1 ELSE @]

(* wprintPage with a file name, or without one to end the job.             *)
SendPage(h, p) ==
  /\ MayCall
  /\ \E s \in Slots :
       /\ Names(h, s)
       /\ TakesPages(jobs[s])
       /\ p.named => jobs[s].numPages < MaxPages
       /\ jobs' = [jobs EXCEPT ![s] = WithPage(@, p)]
  /\ UNCHANGED <<msgQ, running, th, mon, sem, exit>>

(* Mutant: no dummy page.                                                  *)
CancelQuietly(j) == [j EXCEPT !.cancelled = TRUE, !.state = "CANCEL_REQUEST"]

(* wprintCancelJob of a job that runs: a dummy last page wakes the job     *)
(* thread.  What status_ifc->cancel answers (cancel_ok) only shortens the  *)
(* wait of the job thread below, and is left out.                          *)
CancelRunning(j) ==
  [WithPage([j EXCEPT !.cancelled = TRUE], EndPage) EXCEPT
     !.state = "CANCEL_REQUEST"]

(* wprintCancelJob of a queued job: it is over, and the client is told so. *)
CancelQueued(j) ==
  [j EXCEPT !.cancelled = TRUE, !.state = "CANCELLED",
            !.client = Tell(@, "done")]

CancelJob(h) ==
  /\ MayCall
  /\ \E s \in Slots :
       /\ Names(h, s)
       /\ jobs[s].state \in {"RUNNING", "BLOCKED", "QUEUED"}
       /\ jobs' = [jobs EXCEPT ![s] = IF jobs[s].state = "QUEUED"
                                        THEN CancelQueued(@)
                                        ELSE CancelRunning(@)]
  /\ UNCHANGED <<msgQ, running, th, mon, sem, exit>>

(* Mutant: a job may be ended in any state.                                *)
EndAnyJob(h) ==
  /\ MayCall
  /\ \E s \in Slots : Names(h, s) /\ jobs' = [jobs EXCEPT ![s] = FreeJob(s)]
  /\ UNCHANGED <<msgQ, running, th, mon, sem, exit>>

(* wprintEndJob and _recycle_handle: a job that is over gives its slot up. *)
(* Nobody reads a free slot, and _get_handle clears it before its next use:*)
(* here it is cleared at once.                                             *)
EndJob(h) ==
  /\ MayCall
  /\ \E s \in Slots :
       /\ Names(h, s)
       /\ jobs[s].state \in Final
       /\ jobs' = [jobs EXCEPT ![s] = FreeJob(s)]
  /\ UNCHANGED <<msgQ, running, th, mon, sem, exit>>

(* wprintExit: toss the messages, send the quit message, join the job      *)
(* thread, destroy the queue.  Only the queue has a lock of its own.       *)
ExitBegin ==
  /\ exit = "none"
  /\ exit' = "drain"
  /\ UNCHANGED <<jobs, msgQ, running, th, mon, sem>>

ExitDrain ==
  /\ exit = "drain"
  /\ IF msgQ # << >>
       THEN msgQ' = Tail(msgQ) /\ UNCHANGED exit
       ELSE exit' = "quit" /\ UNCHANGED msgQ
  /\ UNCHANGED <<jobs, running, th, mon, sem>>

ExitQuit ==
  /\ exit = "quit"
  /\ msgQ' = IF HasRoom(msgQ, MaxMsgs) THEN Append(msgQ, QuitMsg) ELSE msgQ
  /\ exit' = "join"
  /\ UNCHANGED <<jobs, running, th, mon, sem>>

(* Mutant: the job thread is not joined.                                   *)
ExitAtOnce ==
  /\ exit = "join"
  /\ exit' = "done"
  /\ msgQ' = << >>
  /\ sem' = [start |-> FALSE, end |-> FALSE]
  /\ UNCHANGED <<jobs, running, th, mon>>

ExitJoin ==
  /\ exit = "join"
  /\ th.pc = "exited"
  /\ exit' = "done"
  /\ msgQ' = << >>
  /\ sem' = [start |-> FALSE, end |-> FALSE]
  /\ UNCHANGED <<jobs, running, th, mon>>

(***************************************************************************)
(* The job thread, _job_thread.  Cur is the job it works on.               *)
(***************************************************************************)
Cur == jobs[th.cur]
Goto(pc) == th' = [th EXCEPT !.pc = pc]
UpdateCur(j) == jobs' = [jobs EXCEPT ![th.cur] = j]

(* msgQReceive on the message queue; the quit message ends the thread.     *)
ReceiveMsg ==
  /\ th.pc = "receive"
  /\ msgQ # << >>
  /\ msgQ' = Tail(msgQ)
  /\ IF Head(msgQ).id = "quit"
       THEN Goto("exited") /\ sem' = [sem EXCEPT !.end = TRUE]
       ELSE /\ th' = [th EXCEPT !.pc = "lookup", !.hand = Head(msgQ).job]
            /\ UNCHANGED sem
  /\ UNCHANGED <<jobs, running, mon, exit>>

(* Mutant: the job is run whatever its state is.                           *)
LookupAnyJob ==
  /\ th.pc = "lookup"
  /\ \/ /\ \A s \in Slots : ~Names(th.hand, s)
        /\ th' = IdleThread
        /\ UNCHANGED sem
     \/ \E s \in Slots :
          /\ Names(th.hand, s)
          /\ th' = [th EXCEPT !.cur = s,
                              !.pc = IF jobs[s].kind.monitored
                                       THEN "check" ELSE "launch"]
          /\ sem' = [start |-> FALSE, end |-> FALSE]
  /\ UNCHANGED <<jobs, msgQ, running, mon, exit>>

(* The job may have been cancelled, and even replaced, since it was queued.*)
(* If not, the semaphores are cleared of what the last job left in them.   *)
LookupJob ==
  /\ th.pc = "lookup"
  /\ \/ /\ \A s \in Slots : ~(Names(th.hand, s) /\ jobs[s].state = "QUEUED")
        /\ th' = IdleThread
        /\ UNCHANGED sem
     \/ \E s \in Slots :
          /\ Names(th.hand, s)
          /\ jobs[s].state = "QUEUED"
          /\ th' = [th EXCEPT !.cur = s,
                              !.pc = IF jobs[s].kind.monitored
                                       THEN "check" ELSE "launch"]
          /\ sem' = [start |-> FALSE, end |-> FALSE]
  /\ UNCHANGED <<jobs, msgQ, running, mon, exit>>

(* One round of the wait for an idle printer: get_status says idle, or it  *)
(* leaves hope (the state is unknown, or the printer is blocked but has    *)
(* its idle bit set).                                                      *)
PrinterReady(idle) ==
  /\ th.pc = "check"
  /\ UpdateCur([Cur EXCEPT !.paper = @ /\ ~idle])
  /\ Goto("launch")
  /\ UNCHANGED <<msgQ, running, mon, sem, exit>>

(* It says that there is no connection.                                    *)
PrinterGone ==
  /\ th.pc = "check"
  /\ UpdateCur([Cur EXCEPT !.paper = FALSE])
  /\ th' = [th EXCEPT !.pc = "stop", !.result = "ERROR"]
  /\ UNCHANGED <<msgQ, running, mon, sem, exit>>

(* It says anything else.  care: the reasons are such that the job later   *)
(* waits for the user.  The client is told only of a change; that it may   *)
(* be told again does no harm to the properties below.                     *)
PrinterBusy(care) ==
  /\ th.pc = "check"
  /\ th.retry < MaxIdleWait
  /\ UpdateCur([Cur EXCEPT !.state = "BLOCKED", !.paper = care,
                           !.client = Tell(@, "state")])
  /\ Goto("sleep")
  /\ UNCHANGED <<msgQ, running, mon, sem, exit>>

PrinterTooBusy ==
  /\ th.pc = "check"
  /\ th.retry >= MaxIdleWait
  /\ th' = [th EXCEPT !.pc = "stop", !.result = "ERROR"]
  /\ UNCHANGED <<jobs, msgQ, running, mon, sem, exit>>

(* The sleep is over: a cancelled job stops here.                          *)
WakeUp ==
  /\ th.pc = "sleep"
  /\ th' = IF Cur.cancelled
             THEN [th EXCEPT !.pc = "stop", !.result = "CANCELLED"]
             ELSE [th EXCEPT !.pc = "check", !.retry = @ + 1]
  /\ UNCHANGED <<jobs, msgQ, running, mon, sem, exit>>

(* print_ifc->init, the status thread, JOB_RUNNING, and start_job of the   *)
(* plugin.                                                                 *)
Launch(connects, starts) ==
  /\ th.pc = "launch"
  /\ ~connects => starts
  /\ starts \/ StartFails \/ ~Cur.kind.monitored
  /\ IF connects
       THEN /\ mon' = IF Cur.kind.monitored
                        THEN [NoThread EXCEPT !.pc = "born"] ELSE mon
            /\ UpdateCur([Cur EXCEPT !.client = Tell(@, "state")])
       ELSE /\ UpdateCur([Cur EXCEPT !.paper = FALSE])
            /\ UNCHANGED mon
  /\ th' = IF connects /\ starts
             THEN [th EXCEPT !.pc = IF Cur.kind.isDir THEN "copy" ELSE "single"]
             ELSE [th EXCEPT !.pc = "stop", !.result = "ERROR"]
  /\ UNCHANGED <<msgQ, running, sem, exit>>

(* Mutant: off by one.                                                     *)
FewerCopies == th.copy < Cur.kind.copies

AnotherCopy == th.copy <= Cur.kind.copies

(* The head of the loop over the copies of a multi-page job.               *)
BeginCopy ==
  /\ th.pc = "copy"
  /\ IF /\ AnotherCopy
        /\ th.result \in {"OK", "CORRUPT"}
        /\ ~Cur.cancelled
       THEN /\ UpdateCur([Cur EXCEPT !.state = "RUNNING"])
            /\ th' = [th EXCEPT !.pc = "recvPage", !.odd = FALSE]
       ELSE Goto("end") /\ UNCHANGED jobs
  /\ UNCHANGED <<msgQ, running, mon, sem, exit>>

(* msgQReceive on the page queue: without the mutex, for as long as it     *)
(* takes.                                                                  *)
ReceivePage ==
  /\ th.pc = "recvPage"
  /\ Cur.pageQ # << >>
  /\ th' = [th EXCEPT !.pc = "gotPage", !.page = Head(Cur.pageQ)]
  /\ UpdateCur([Cur EXCEPT !.pageQ = Tail(@)])
  /\ UNCHANGED <<msgQ, running, mon, sem, exit>>

(* Duplex jobs print an even number of sides.                              *)
NeedsBlank == th.page.last /\ Cur.kind.duplex /\ th.back /\ ~Cur.kind.pdf
AfterPrint == Goto(IF NeedsBlank THEN "blank" ELSE "after")

(* The page has arrived.  check_status is a method of the port and file    *)
(* interfaces only.  odd: the page is an odd one of its copy, so that a    *)
(* duplex sheet has a blank side left.                                     *)
TakePage(good) ==
  /\ th.pc = "gotPage"
  /\ \/ /\ ~good /\ ~Cur.kind.monitored
        /\ th' = [th EXCEPT !.pc = "copy", !.copy = @ + 1,
                            !.result = "ERROR", !.page = EndPage]
        /\ UNCHANGED jobs
     \/ /\ good /\ th.page.named
        /\ th' = [th EXCEPT !.pc = "print", !.odd = ~@, !.back = ~th.odd]
        /\ UpdateCur([Cur EXCEPT !.pageNum = @ + 1, !.printing = TRUE,
                                 !.client = Tell(@, "pageStart")])
     \/ /\ good /\ ~th.page.named
        /\ AfterPrint
        /\ UNCHANGED jobs
  /\ UNCHANGED <<msgQ, running, mon, sem, exit>>

(* print_page of the plugin, without the mutex.  A page that was corrupted *)
(* in an earlier copy is not printed again.                                *)
PageResults == IF Cur.kind.pdf THEN {"OK", "ERROR"}
               ELSE IF Cur.cancelled THEN Results ELSE Results \ {"CANCELLED"}

Printed(res) ==
  UpdateCur([Cur EXCEPT !.printing = FALSE, !.client = Tell(@, "pageInfo"),
                        !.failed = @ \/ res = "ERROR"])

PrintPage(res) ==
  /\ th.pc = "print" /\ Cur.kind.isDir
  /\ res \in IF th.page.corrupted THEN {"CORRUPT"} ELSE PageResults
  /\ Printed(res)
  /\ th' = [th EXCEPT !.pc = IF NeedsBlank THEN "blank" ELSE "after",
                      !.result = res, !.corrupted = @ \/ res = "CORRUPT",
                      !.page.corrupted = res = "CORRUPT"]
  /\ UNCHANGED <<msgQ, running, mon, sem, exit>>

(* print_blank_page, again without the mutex.                              *)
PrintBlank ==
  /\ th.pc = "blank"
  /\ Goto("after")
  /\ UNCHANGED <<jobs, msgQ, running, mon, sem, exit>>

(* The page is kept for the next copy; after the last page of a copy the   *)
(* queues are swapped and the old one is emptied.  The result of the print *)
(* is overwritten by that of msgQSend.  th.page is dead from here on.      *)
AfterPage ==
  LET saves == Cur.kind.copies > 1 /\ ~Cur.cancelled /\ th.result # "ERROR"
      sent  == HasRoom(Cur.saveQ, MaxPagesPerJob)
      saved == IF sent THEN Append(Cur.saveQ, th.page) ELSE Cur.saveQ
      swaps == th.page.last /\ th.copy # Cur.kind.copies
      ends  == th.page.last \/ Cur.cancelled
  IN  /\ th.pc = "after"
      /\ th' = [th EXCEPT !.pc = IF ends THEN "copy" ELSE "recvPage",
                          !.copy = IF ends THEN @ + 1 ELSE @,
                          !.page = EndPage,
                          !.result = IF ~saves THEN @
                                     ELSE IF sent THEN "OK" ELSE "ERROR"]
      /\ UpdateCur([Cur EXCEPT
           !.pageQ = IF saves /\ swaps THEN saved ELSE @,
           !.saveQ = IF ~saves THEN @ ELSE IF swaps THEN << >> ELSE saved])
      /\ UNCHANGED <<msgQ, running, mon, sem, exit>>

AnotherSingle == /\ AnotherCopy
                 /\ th.result = "OK"
                 /\ ~(th.copy > 1 /\ Cur.kind.pdf)

(* A single-page job: the head of its loop over the copies, and print_page *)
(* with the blank page that may follow it.                                 *)
BeginSingle(good) ==
  /\ th.pc = "single"
  /\ \/ /\ ~AnotherSingle
        /\ good
        /\ Goto("end")
        /\ UNCHANGED jobs
     \/ /\ AnotherSingle
        /\ ~good /\ ~Cur.kind.monitored
        /\ th' = [th EXCEPT !.pc = "end", !.result = "ERROR"]
        /\ UNCHANGED jobs
     \/ /\ AnotherSingle
        /\ good
        /\ Goto("print")
        /\ UpdateCur([Cur EXCEPT !.state = "RUNNING", !.pageNum = @ + 1,
                                 !.printing = TRUE,
                                 !.client = Tell(@, "pageStart")])
  /\ UNCHANGED <<msgQ, running, mon, sem, exit>>

PrintSingle(res) ==
  /\ th.pc = "print" /\ ~Cur.kind.isDir
  /\ res \in PageResults
  /\ Printed(res)
  /\ th' = [th EXCEPT !.pc = "single", !.copy = @ + 1, !.result = res,
                      !.corrupted = @ \/ res = "CORRUPT"]
  /\ UNCHANGED <<msgQ, running, mon, sem, exit>>

(* end_job of the plugin and of the print interface; good: the answer of   *)
(* the latter.                                                             *)
EndPrinting(good) ==
  /\ th.pc = "end"
  /\ th' = [th EXCEPT !.pc = IF Cur.pageNum > 0 /\ Cur.kind.monitored
                               THEN "waitStart" ELSE "stop",
                      !.result = IF @ = "OK" /\ ~good THEN "ERROR" ELSE @]
  /\ UNCHANGED <<jobs, msgQ, running, mon, sem, exit>>

(* The wait for the printer to start: the semaphore is polled once a       *)
(* second, at most MAX_START_WAIT times; the count is left out.            *)
WaitStart ==
  /\ th.pc = "waitStart"
  /\ Goto(IF sem.start THEN "waitDone" ELSE "stop")
  /\ sem' = [sem EXCEPT !.start = FALSE]
  /\ UNCHANGED <<jobs, msgQ, running, mon, exit>>

(* The wait for the printer to become idle, MAX_DONE_WAIT seconds: given   *)
(* up at once when a cancel did not go through, never while the printer    *)
(* needs the user and the job is not cancelled.                            *)
WaitDone ==
  /\ th.pc = "waitDone"
  /\ IF sem.end THEN Goto("stop") ELSE /\ Cur.cancelled \/ ~Cur.paper
                                       /\ Goto("lastTry")
  /\ sem' = [sem EXCEPT !.end = FALSE]
  /\ UNCHANGED <<jobs, msgQ, running, mon, exit>>

LastTry ==
  /\ th.pc = "lastTry"
  /\ Goto("stop")
  /\ sem' = [sem EXCEPT !.end = FALSE]
  /\ UNCHANGED <<jobs, msgQ, running, mon, exit>>

(* Mutants: the status thread is not joined; it is not told to stop.       *)
StopUnjoined ==
  /\ th.pc = "stop"
  /\ mon' = IF mon.pc # "off" THEN [mon EXCEPT !.stop = TRUE] ELSE mon
  /\ Goto("finish")
  /\ UNCHANGED <<jobs, msgQ, running, sem, exit>>

StopUnsaid ==
  /\ th.pc = "stop"
  /\ Goto(IF mon.pc # "off" THEN "join" ELSE "finish")
  /\ UNCHANGED <<jobs, msgQ, running, mon, sem, exit>>

(* _stop_status_thread: the status thread is stopped, whether it has begun *)
(* to run or not, and joined without the mutex.                            *)
StopStatus ==
  /\ th.pc = "stop"
  /\ IF mon.pc # "off"
       THEN mon' = [mon EXCEPT !.stop = TRUE] /\ Goto("join")
       ELSE Goto("finish") /\ UNCHANGED mon
  /\ UNCHANGED <<jobs, msgQ, running, sem, exit>>

JoinStatus ==
  /\ th.pc = "join"
  /\ mon.pc = "off"
  /\ Goto("finish")
  /\ UNCHANGED <<jobs, msgQ, running, mon, sem, exit>>

(* The result of the job, its last callback, and back to the queue.        *)
Outcome ==
  IF th.corrupted \/ th.result = "CORRUPT" THEN "CORRUPTED"
  ELSE IF th.result = "ERROR" THEN "ERROR"
  ELSE IF th.result = "OK" /\ ~Cur.cancelled THEN "COMPLETED"
  ELSE "CANCELLED"

Finish ==
  /\ th.pc = "finish"
  /\ UpdateCur([Cur EXCEPT !.state = Outcome,
                          !.client = Tell(@, "done")])
  /\ th' = IdleThread
  /\ UNCHANGED <<msgQ, running, mon, sem, exit>>

(***************************************************************************)
(* The status thread: _start of the status interface and its callback,     *)
(* _job_status_callback.                                                   *)
(***************************************************************************)
Blocking == {"stopped", "needsCare", "unreachable"}
AboveIdle == {"printing", "stopped", "needsCare"}
CancelSeen == {"cancelled", "cancelledOffline"}

(* _start forgets whatever was asked of it before: it clears stop_monitor  *)
(* when its thread gets to run.  Its first callback, with the status       *)
(* INITIALIZING, does nothing.                                             *)
MonitorBegin ==
  /\ mon.pc = "born"
  /\ mon' = [mon EXCEPT !.pc = "head", !.stop = FALSE, !.lost = mon.stop]
  /\ UNCHANGED <<jobs, msgQ, running, th, sem, exit>>

(* The loop over get_status; when it is stopped, the callback is called a  *)
(* last time with the last status.                                         *)
MonitorHead ==
  /\ mon.pc = "head"
  /\ mon' = IF mon.stop THEN [mon EXCEPT !.pc = "call", !.ending = TRUE]
                        ELSE [mon EXCEPT !.pc = "poll"]
  /\ UNCHANGED <<jobs, msgQ, running, th, sem, exit>>

(* Only a change of status is reported.                                    *)
MonitorPoll(r) ==
  /\ mon.pc = "poll"
  /\ mon' = [mon EXCEPT !.pc = IF r = mon.last THEN "head" ELSE "call",
                         !.new = r]
  /\ UNCHANGED <<jobs, msgQ, running, th, sem, exit>>

(* The callback posts the semaphores before it takes the mutex.            *)
MonitorPost ==
  /\ mon.pc = "call"
  /\ sem' = [start |-> \/ sem.start
                       \/ mon.new \in Blocking \cup CancelSeen
                                        \cup {"printing", "offline"},
             end |-> sem.end \/ mon.new \in {"offline", "cancelledOffline"}]
  /\ mon' = [mon EXCEPT !.pc = "apply"]
  /\ UNCHANGED <<jobs, msgQ, running, th, exit>>

Noted(j) ==
  CASE mon.new = "printing" ->
         [j EXCEPT !.state = "RUNNING", !.paper = FALSE,
                   !.client = Tell(@, "state")]
    [] mon.new \in Blocking ->
         [j EXCEPT !.state = "BLOCKED", !.paper = mon.new = "needsCare",
                   !.client = Tell(@, "state")]
    [] mon.new \in CancelSeen ->
         [j EXCEPT !.cancelled = @ \/ mon.last \notin CancelSeen]
    [] OTHER -> j

(* Mutant: the statuses above IDLE do not count.                           *)
IdleAfterCancel == mon.new = "idle" /\ mon.last \in CancelSeen

BecameIdle == mon.new = "idle" /\ mon.last \in AboveIdle \cup CancelSeen

NeedsLock == /\ mon.new # "unknown"
             /\ mon.new = "idle" => BecameIdle /\ TakesPages(Cur)

(* The rest of the callback.  A printer that has become idle ends the job: *)
(* a job that still waits for pages gets the dummy last page.              *)
MonitorApply ==
  /\ mon.pc = "apply"
  /\ NeedsLock => LockFree
  /\ IF BecameIdle
       THEN /\ UpdateCur(WithPage(Cur, EndPage))
            /\ sem' = [sem EXCEPT !.end = TRUE]
       ELSE /\ UpdateCur(Noted(Cur))
            /\ UNCHANGED sem
  /\ mon' = IF mon.ending THEN NoThread
                          ELSE [mon EXCEPT !.pc = "head", !.last = mon.new]
  /\ UNCHANGED <<msgQ, running, th, exit>>

-----------------------------------------------------------------------------
Client ==
  \/ \E s \in Slots, k \in JobKinds : StartJob(s, k)
  \/ \E h \in Handles : \/ \E last \in BOOLEAN :
                             SendPage(h, [EndPage EXCEPT !.named = TRUE,
                                                         !.last = last])
                        \/ SendPage(h, EndPage)
                        \/ CancelJob(h)
                        \/ EndJob(h)
  \/ ExitBegin \/ ExitDrain \/ ExitQuit \/ ExitJoin

JobThread ==
  \/ ReceiveMsg \/ LookupJob \/ WakeUp
  \/ PrinterGone \/ PrinterTooBusy
  \/ \E connects, starts \in BOOLEAN : Launch(connects, starts)
  \/ BeginCopy \/ ReceivePage \/ PrintBlank \/ AfterPage
  \/ \E good \in BOOLEAN : \/ PrinterReady(good)
                           \/ PrinterBusy(good)
                           \/ TakePage(good)
                           \/ BeginSingle(good)
                           \/ EndPrinting(good)
  \/ \E res \in Results : PrintPage(res) \/ PrintSingle(res)
  \/ WaitStart \/ WaitDone \/ LastTry \/ StopStatus \/ JoinStatus \/ Finish

StatusThread ==
  MonitorBegin \/ MonitorHead \/ MonitorPost \/ MonitorApply \/ \E r \in Reports : MonitorPoll(r)

Next == Client \/ JobThread \/ StatusThread

Spec == Init /\ [][Next]_vars

(* The state of the abstract spooler.                                      *)
Phase(s) == CASE jobs[s].state = "FREE"                -> "free"
              [] jobs[s].state \in Final               -> "over"
              [] th.pc \in Busy /\ th.cur = s         -> "served"
              [] OTHER                                 -> "queued"

Promise == INSTANCE Spooler WITH
  Places <- Slots,
  phase  <- [s \in Slots |-> Phase(s)],
  told   <- [s \in Slots |-> jobs[s].client.done]

(***************************************************************************)
(* Fairness.  Both threads run whenever they can.  Some properties hold    *)
(* only when the printer reports idle again and again (it is never stuck   *)
(* for good) and a client hands in the last page of its job at some time.  *)
(***************************************************************************)
ThreadsRun == WF_vars(JobThread) /\ WF_vars(StatusThread)
PrinterRecovers == SF_vars(MonitorPoll("idle"))
PagesEnd == \A h \in Handles : WF_vars(SendPage(h, EndPage))

FairSpec == Spec /\ ThreadsRun

-----------------------------------------------------------------------------
(***************************************************************************)
(* Properties.                                                             *)
(***************************************************************************)
TypeOK ==
  /\ jobs \in [Slots -> Job]
  /\ msgQ \in Seq(Message)
  /\ running \in Nat
  /\ th \in Thread
  /\ mon \in Monitor
  /\ sem \in [start : BOOLEAN, end : BOOLEAN]
  /\ exit \in {"none", "drain", "quit", "join", "done"}

(* The job the job thread works on keeps its slot, across all the times    *)
(* the thread gives up the mutex: no client can end the job under it, and  *)
(* the slot is never given to another job.  Without the mutex, the job is  *)
(* running, blocked, or being cancelled.                                   *)
JobKeepsItsSlot ==
  th.pc \in Busy => /\ Cur.handle = th.hand
                    /\ Cur.state \in Active \cup {"QUEUED"}
                    /\ LockFree => Cur.state \in Active

(* The only job in a running, blocked or cancelling state is the one the   *)
(* job thread works on: the printer serves one job at a time.              *)
OneJobAtATime ==
  \A s \in Slots : jobs[s].state \in Active => th.pc \in Busy /\ th.cur = s

(* A client hears JOB_DONE exactly when its job is over, once, as the last *)
(* callback of the job, and never in the middle of a page; it hears the    *)
(* end of a page only after its start.                                     *)
CallbacksInOrder ==
  \A s \in Slots : LET j == jobs[s] IN
    j.state # "FREE" => /\ ~j.client.bad
                        /\ j.client.done = (IF j.state \in Final THEN 1 ELSE 0)
                        /\ j.client.open = j.printing

(* Until wprintExit tosses the messages, a queued job has its run message: *)
(* in the queue, or in the hand of the job thread.                         *)
QueuedJobWillRun ==
  exit = "none" =>
    \A s \in Slots : jobs[s].state = "QUEUED" =>
      \/ th.pc \in Busy \cup {"lookup"} /\ th.hand = jobs[s].handle
      \/ \E i \in 1 .. Len(msgQ) : msgQ[i] = RunMsg(jobs[s].handle)

(* The status thread lives only while the job thread is at work on the     *)
(* monitored job whose slot is the thread's parameter: its callback never  *)
(* touches a slot that is free or belongs to another job.                  *)
MonitorWatchesItsJob ==
  mon.pc # "off" =>
    /\ th.pc \in Busy \ {"check", "sleep", "launch", "finish"}
    /\ Cur.handle = th.hand
    /\ Cur.kind.monitored

(* Why the three hold: the inductive invariant behind them, for a print    *)
(* library in which start_job does not fail under a status thread.  A      *)
(* queued job has not been cancelled; the job thread takes a job up with   *)
(* an empty history; and a job that is still queued while the job thread   *)
(* has it in hand is on one of the short ways to its end on which the      *)
(* mutex is never given up.                                                *)
SlotsAreSafe ==
  /\ JobKeepsItsSlot /\ OneJobAtATime /\ MonitorWatchesItsJob
  /\ \A s \in Slots : jobs[s].state = "QUEUED" => ~jobs[s].cancelled
  /\ th.pc \in {"receive", "lookup", "check", "sleep", "launch"}
       => th.copy = 1 /\ th.result = "OK"
  /\ th.pc \in Busy /\ Cur.state = "QUEUED" =>
       /\ th.pc \in {"copy", "single"} => th.copy = 1 /\ th.result = "OK"
       /\ th.pc = "end" => ~Cur.kind.monitored
       /\ th.pc = "stop" => mon.pc = "off"
       /\ th.pc # "after"

(* Unless a page of it failed, a job is reported as completed only when    *)
(* every page it was handed has been put through print_page once for every *)
(* copy, and neither the user nor the printer has cancelled it.            *)
CompletedPrintsAll ==
  \A s \in Slots : LET j == jobs[s] IN
    j.state = "COMPLETED" /\ ~j.failed =>
      /\ ~j.cancelled
      /\ j.pageNum = j.numPages * (IF j.kind.pdf /\ ~j.kind.isDir
                                     THEN 1 ELSE j.kind.copies)

(* A last page has nothing behind it, so that the queue the job thread     *)
(* swaps away after a copy is empty and no page is thrown away.            *)
LastPageIsLast ==
  /\ \A s \in Slots : LET q == jobs[s].pageQ IN
       \A i \in 1 .. Len(q) : q[i].last => i = Len(q)
  /\ th.pc \in {"gotPage", "print", "blank", "after"} /\ Cur.kind.isDir
       => (th.page.last => Cur.pageQ = << >>)

(* A job thread that waits for a page of a job that is being cancelled has *)
(* a page to receive: wprintCancelJob wakes it up.                         *)
CancelWakesReceiver ==
  th.pc = "recvPage" /\ Cur.state = "CANCEL_REQUEST" => Cur.pageQ # << >>

(* While the job thread waits for the status thread to end, the status     *)
(* thread has been told to stop, even if it has forgotten it.              *)
StopIsAsked ==
  th.pc = "join" => mon.pc = "off" \/ mon.stop \/ mon.lost

(* The two threads and the page queues go together: the slots are safe, a  *)
(* status thread is never joined unasked, and no page comes after the last.*)
ThreadsAgree == SlotsAreSafe /\ StopIsAsked /\ LastPageIsLast

(* What _stop says it does, "request a stop": a status thread that is being*)
(* joined knows that it has to stop.  _start, which clears stop_monitor in *)
(* its own thread, breaks this.                                            *)
StopIsHeard ==
  th.pc = "join" => mon.pc = "off" \/ mon.stop

(* JOB_DONE is the end of a job: it does not come twice.                   *)
DoneAtMostOnce ==
  \A s \in Slots : jobs[s].client.done <= 1

(* A job of which a page failed is not reported as completed successfully. *)
CompletedIsSuccess ==
  \A s \in Slots : jobs[s].state = "COMPLETED" => ~jobs[s].failed

(* When wprintExit has returned both threads are gone and no job is left   *)
(* between its start and its end.                                          *)
ExitIsClean ==
  exit = "done" => /\ th.pc = "exited" /\ mon.pc = "off"
                   /\ \A s \in Slots : jobs[s].state \notin Active
                   /\ msgQ = << >>

(* What is over stays over: no step of a thread or a client changes the    *)
(* state of a finished job, nor what its client was told, except           *)
(* wprintEndJob, which frees the slot.                                     *)
FinalIsFinal ==
  [][\A s \in Slots : jobs[s].state \in Final =>
       \/ jobs'[s].state = "FREE"
       \/ /\ jobs'[s].state = jobs[s].state
          /\ jobs'[s].handle = jobs[s].handle
          /\ jobs'[s].client.done = jobs[s].client.done
     ]_vars

(* The spooler keeps its promise: every step of the two threads and of the *)
(* clients is a step of the abstract spooler, or none at all.              *)
KeepsPromise == Promise!SpoolerSpec

Over(h) == \A s \in Slots : Names(h, s) => jobs[s].state \in Final

(* The two defects that keep a job from its end, put as what a behaviour   *)
(* without them always satisfies: no status thread forgets a stop, and no  *)
(* page queue fills up, so that every page, the last one included, is      *)
(* accepted.                                                               *)
NoStopLost == ~mon.lost
PagesFit   == \A s \in Slots : Len(jobs[s].pageQ) < MaxPagesPerJob

(* With a printer that recovers and clients that hand in a last page,      *)
(* every queued job is over at some time, unless the library is shut down: *)
(* its run message is taken, its pages are printed, the status thread is   *)
(* joined, the printer is waited for.  This needs that no stop is lost and *)
(* that the page queues suffice.                                           *)
EveryJobEnds ==
  PrinterRecovers /\ PagesEnd /\ []NoStopLost /\ []PagesFit =>
    \A h \in Handles :
      (\E s \in Slots : Names(h, s) /\ jobs[s].state = "QUEUED")
        ~> (Over(h) \/ exit # "none")

(* Where no stop is lost and no page queue fills up, a job that is being   *)
(* cancelled comes to an end though its client hands in nothing more and   *)
(* the printer never recovers.  Without the first condition the job thread *)
(* joins a status thread that never ends (StopIsHeard); without the second *)
(* it may wait for a page that was refused (CancelWakesReceiver).          *)
CancelledJobEnds ==
  []NoStopLost /\ []PagesFit =>
    \A h \in Handles :
      (\E s \in Slots : Names(h, s) /\ jobs[s].state = "CANCEL_REQUEST")
        ~> Over(h)
=============================================================================
