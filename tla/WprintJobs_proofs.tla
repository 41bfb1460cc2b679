--------------------------- MODULE WprintJobs_proofs ---------------------------
(***************************************************************************)
(* The spooler, for every size of its tables and queues, any number of     *)
(* jobs and pages, and every order of steps: its states are well typed,    *)
(* its slots are safe, and it implements the abstract spooler; callbacks,  *)
(* run messages and pages get where they are to go.                        *)
(***************************************************************************)
EXTENDS WprintJobs, TLAPS

-----------------------------------------------------------------------------
(* Lemmas about the data.                                                  *)

(* A new handle is a handle, whatever the running number has come to.      *)
LEMMA NewHandleType ==
  ASSUME running \in Nat, NEW s \in Slots
  PROVE  NewHandle(s) \in Handles
<1>1. (running + 1) % HandleSpace \in 0 .. (HandleSpace - 1)
  BY WprintAssumption
<1> QED  BY <1>1 DEF NewHandle, Handles

LEMMA FreeJobType ==
  ASSUME NEW s \in Slots
  PROVE  FreeJob(s) \in Job
<1>1. NoKind \in JobKind
  BY DEF NoKind, JobKind
<1>2. [num |-> 0, slot |-> s] \in Handles
  BY WprintAssumption DEF Handles
<1>3. Unheard \in Heard
  BY DEF Unheard, Heard
<1> QED  BY <1>1, <1>2, <1>3 DEF FreeJob, Job, JobStates

LEMMA EndPageType == EndPage \in Page
BY DEF EndPage, Page

LEMMA IdleThreadType == IdleThread \in Thread
<1>1. [num |-> 0, slot |-> 0] \in Handles /\ 0 \in Slots
  BY WprintAssumption DEF Handles, Slots
<1> QED  BY <1>1, EndPageType DEF IdleThread, Thread, Results

LEMMA NoThreadType == NoThread \in Monitor
BY DEF NoThread, Monitor, Report

(* What a callback or a page leaves of a job is a job.                     *)
LEMMA JobParts ==
  ASSUME NEW j \in Job
  PROVE  /\ \A what : Tell(j.client, what) \in Heard
         /\ j.pageNum + 1 \in Nat
         /\ j.numPages + 1 \in Nat
         /\ \A p \in Page : /\ Append(j.pageQ, p) \in Seq(Page)
                            /\ Append(j.saveQ, p) \in Seq(Page)
<1>1. ASSUME NEW what PROVE Tell(j.client, what) \in Heard
  BY DEF Tell, Heard, Job
<1> QED  BY <1>1 DEF Job

LEMMA WithPageType ==
  ASSUME NEW j \in Job, NEW p \in Page
  PROVE  WithPage(j, p) \in Job
<1>1. p.last \in BOOLEAN
  BY DEF Page
<1> QED  BY <1>1, JobParts DEF WithPage, Job

LEMMA CancelType ==
  ASSUME NEW j \in Job
  PROVE  CancelQueued(j) \in Job /\ CancelRunning(j) \in Job
<1>1. [j EXCEPT !.cancelled = TRUE] \in Job
  BY DEF Job
<1> DEFINE c == WithPage([j EXCEPT !.cancelled = TRUE], EndPage)
<1>2. c \in Job
  BY <1>1, WithPageType, EndPageType
<1> HIDE DEF c
<1>3. [c EXCEPT !.state = "CANCEL_REQUEST"] \in Job
  BY <1>2 DEF Job, JobStates, Active
<1>4. CancelQueued(j) \in Job
  BY JobParts DEF CancelQueued, Job, JobStates, Final
<1> QED  BY <1>3, <1>4 DEF CancelRunning, c

LEMMA NotedType ==
  ASSUME NEW j \in Job
  PROVE  Noted(j) \in Job
<1>1. [j EXCEPT !.state = "RUNNING", !.paper = FALSE,
                !.client = Tell(@, "state")] \in Job
  BY JobParts DEF Job, JobStates, Active
<1>2. [j EXCEPT !.state = "BLOCKED", !.paper = mon.new = "needsCare",
                !.client = Tell(@, "state")] \in Job
  BY JobParts DEF Job, JobStates, Active
<1>3. [j EXCEPT !.cancelled = @ \/ mon.last \notin CancelSeen] \in Job
  BY DEF Job
<1> QED  BY <1>1, <1>2, <1>3 DEF Noted

(* A step of the job thread on the job it works on.                        *)
LEMMA ThreadStepType ==
  ASSUME TypeOK, NEW j \in Job, UpdateCur(j) \/ UNCHANGED jobs,
         th' \in Thread, UNCHANGED <<msgQ, running, exit>>,
         mon' \in Monitor, sem' \in [start : BOOLEAN, end : BOOLEAN]
  PROVE  TypeOK'
BY DEF TypeOK, UpdateCur

-----------------------------------------------------------------------------
LEMMA TypeInit == Init => TypeOK
<1> SUFFICES ASSUME Init PROVE TypeOK
  OBVIOUS
<1>1. jobs \in [Slots -> Job]
  BY FreeJobType DEF Init
<1>2. msgQ \in Seq(Message)
  BY DEF Init
<1> QED  BY <1>1, <1>2, IdleThreadType, NoThreadType DEF Init, TypeOK

LEMMA ClientType ==
  ASSUME TypeOK, Client
  PROVE  TypeOK'
<1>1. ASSUME NEW s \in Slots, NEW k \in JobKinds, StartJob(s, k)
      PROVE  TypeOK'
  <2>1. NewHandle(s) \in Handles
    BY NewHandleType DEF TypeOK
  <2>2. FreeJob(s) \in Job /\ k \in JobKind
    BY FreeJobType, WprintAssumption
  <2> DEFINE f == FreeJob(s)
             h == NewHandle(s)
             n == IF k.isDir THEN 0 ELSE 1
  <2>3. n \in Nat
    OBVIOUS
  <2> HIDE DEF f, h, n
  <2>4. [f EXCEPT !.state = "QUEUED", !.handle = h, !.kind = k,
                  !.numPages = n] \in Job
    BY <2>1, <2>2, <2>3 DEF Job, JobStates, f, h
  <2> DEFINE j == [f EXCEPT !.state = "QUEUED", !.handle = h, !.kind = k,
                            !.numPages = n]
  <2>5. jobs' \in [Slots -> Job]
    <3>1. jobs' = jobs \/ jobs' = [jobs EXCEPT ![s] = j]
      BY <1>1 DEF StartJob, f, h, n
    <3>2. j \in Job
      BY <2>4
    <3> HIDE DEF j
    <3> QED  BY <3>1, <3>2 DEF TypeOK
  <2>6. msgQ' \in Seq(Message)
    <3>1. RunMsg(h) \in Message
      BY <2>1 DEF Message, h
    <3>2. msgQ' = msgQ \/ msgQ' = Append(msgQ, RunMsg(h))
      BY <1>1 DEF StartJob, h
    <3> QED  BY <3>1, <3>2 DEF TypeOK
  <2> QED  BY <1>1, <2>5, <2>6 DEF StartJob, TypeOK
<1>2. ASSUME NEW h \in Handles, NEW p \in Page, SendPage(h, p)
      PROVE  TypeOK'
  BY <1>2, WithPageType DEF SendPage, TypeOK
<1>3. ASSUME NEW h \in Handles, CancelJob(h)
      PROVE  TypeOK'
  BY <1>3, CancelType DEF CancelJob, TypeOK
<1>4. ASSUME NEW h \in Handles, EndJob(h)
      PROVE  TypeOK'
  BY <1>4, FreeJobType DEF EndJob, TypeOK
<1>5. CASE ExitBegin
  BY <1>5 DEF ExitBegin, TypeOK
<1>6. CASE ExitDrain
  <2>1. msgQ' \in Seq(Message)
    <3>1. msgQ # << >> => Tail(msgQ) \in Seq(Message)
      BY DEF TypeOK
    <3> QED  BY <1>6, <3>1 DEF ExitDrain, TypeOK
  <2>2. exit' \in {"drain", "quit"}
    BY <1>6 DEF ExitDrain
  <2> QED  BY <1>6, <2>1, <2>2 DEF ExitDrain, TypeOK
<1>7. CASE ExitQuit
  <2>1. Append(msgQ, QuitMsg) \in Seq(Message)
    BY DEF Message, TypeOK
  <2>2. msgQ' \in Seq(Message)
    BY <1>7, <2>1 DEF ExitQuit, TypeOK
  <2> QED  BY <1>7, <2>2 DEF ExitQuit, TypeOK
<1>8. CASE ExitJoin
  BY <1>8 DEF ExitJoin, TypeOK
<1>9. \A last \in BOOLEAN :
        [EndPage EXCEPT !.named = TRUE, !.last = last] \in Page
  BY DEF EndPage, Page
<1> QED  BY <1>1, <1>2, <1>3, <1>4, <1>5, <1>6, <1>7, <1>8, <1>9, EndPageType
  DEF Client

LEMMA JobThreadType ==
  ASSUME TypeOK, JobThread
  PROVE  TypeOK'
<1>t. /\ th \in Thread /\ mon \in Monitor /\ Cur \in Job
      /\ sem \in [start : BOOLEAN, end : BOOLEAN]
      /\ jobs \in [Slots -> Job] /\ msgQ \in Seq(Message)
  BY DEF TypeOK, Cur, Thread
<1>p. \A pc \in Busy \cup {"receive", "lookup", "exited"} :
        [th EXCEPT !.pc = pc] \in Thread
  BY <1>t DEF Thread
<1>e. [th EXCEPT !.pc = "stop", !.result = "ERROR"] \in Thread
  BY <1>t DEF Thread, Busy, Held, Results
<1>n. th.copy + 1 \in Nat \ {0} /\ th.retry + 1 \in Nat
  BY <1>t DEF Thread
<1>1. CASE ReceiveMsg
  <2>1. Head(msgQ) \in Message /\ Tail(msgQ) \in Seq(Message)
    BY <1>1, <1>t DEF ReceiveMsg
  <2>2. Head(msgQ).id # "quit" => Head(msgQ).job \in Handles
    BY <2>1 DEF Message, QuitMsg, RunMsg
  <2>3. \A h \in Handles : [th EXCEPT !.pc = "lookup", !.hand = h] \in Thread
    BY <1>t DEF Thread
  <2>4. th' \in Thread
    BY <1>1, <1>p, <2>2, <2>3 DEF ReceiveMsg, Goto
  <2>5. sem' \in [start : BOOLEAN, end : BOOLEAN]
    BY <1>1, <1>t DEF ReceiveMsg
  <2> QED  BY <1>1, <2>1, <2>4, <2>5 DEF ReceiveMsg, TypeOK
<1>2. CASE LookupJob
  <2>1. \A s \in Slots, pc \in {"check", "launch"} :
          [th EXCEPT !.cur = s, !.pc = pc] \in Thread
    BY <1>t DEF Thread, Busy, Held
  <2>2. th' \in Thread
    BY <1>2, <2>1, IdleThreadType DEF LookupJob
  <2>3. sem' \in [start : BOOLEAN, end : BOOLEAN]
    <3>1. sem' = sem \/ sem' = [start |-> FALSE, end |-> FALSE]
      BY <1>2 DEF LookupJob
    <3>2. [start |-> FALSE, end |-> FALSE] \in [start : BOOLEAN, end : BOOLEAN]
      OBVIOUS
    <3> QED  BY <1>t, <3>1, <3>2
  <2> QED  BY <1>2, <2>2, <2>3 DEF LookupJob, TypeOK
<1>3. CASE WakeUp
  <2>1. [th EXCEPT !.pc = "stop", !.result = "CANCELLED"] \in Thread
    BY <1>t DEF Thread, Busy, Held, Results
  <2>2. [th EXCEPT !.pc = "check", !.retry = @ + 1] \in Thread
    BY <1>t, <1>n DEF Thread, Busy, Held
  <2> QED  BY <1>3, <2>1, <2>2 DEF WakeUp, TypeOK
<1>4. ASSUME NEW good \in BOOLEAN, PrinterReady(good)
      PROVE  TypeOK'
  <2>1. [Cur EXCEPT !.paper = @ /\ ~good] \in Job
    BY <1>t DEF Job
  <2> QED  BY <1>4, <1>p, <1>t, <2>1, ThreadStepType
           DEF PrinterReady, Goto, Busy, Held
<1>5. CASE PrinterGone \/ PrinterTooBusy
  <2>1. [Cur EXCEPT !.paper = FALSE] \in Job
    BY <1>t DEF Job
  <2> QED  BY <1>5, <1>e, <1>t, <2>1, ThreadStepType
           DEF PrinterGone, PrinterTooBusy
<1>6. ASSUME NEW good \in BOOLEAN, PrinterBusy(good)
      PROVE  TypeOK'
  <2>1. [Cur EXCEPT !.state = "BLOCKED", !.paper = good,
                    !.client = Tell(@, "state")] \in Job
    BY <1>t, JobParts DEF Job, JobStates, Active
  <2> QED  BY <1>6, <1>p, <1>t, <2>1, ThreadStepType
           DEF PrinterBusy, Goto, Busy
<1>7. ASSUME NEW connects \in BOOLEAN, NEW starts \in BOOLEAN,
             Launch(connects, starts)
      PROVE  TypeOK'
  <2>1. [Cur EXCEPT !.client = Tell(@, "state")] \in Job
    BY <1>t, JobParts DEF Job
  <2>2. [Cur EXCEPT !.paper = FALSE] \in Job
    BY <1>t DEF Job
  <2>3. [NoThread EXCEPT !.pc = "born"] \in Monitor
    BY NoThreadType DEF Monitor
  <2>4. mon' \in Monitor
    BY <1>7, <1>t, <2>3 DEF Launch
  <2>5. th' \in Thread
    BY <1>7, <1>p, <1>e DEF Launch, Busy, Held
  <2> QED  BY <1>7, <1>t, <2>1, <2>2, <2>4, <2>5, ThreadStepType DEF Launch
<1>8. CASE BeginCopy
  <2>1. [Cur EXCEPT !.state = "RUNNING"] \in Job
    BY <1>t DEF Job, JobStates, Active
  <2>2. [th EXCEPT !.pc = "recvPage", !.odd = FALSE] \in Thread
    BY <1>t DEF Thread, Busy
  <2> QED  BY <1>8, <1>p, <1>t, <2>1, <2>2, ThreadStepType
           DEF BeginCopy, Goto, Busy, Held
<1>9. CASE ReceivePage
  <2>1. Head(Cur.pageQ) \in Page /\ Tail(Cur.pageQ) \in Seq(Page)
    BY <1>9, <1>t DEF ReceivePage, Job
  <2>2. [Cur EXCEPT !.pageQ = Tail(@)] \in Job
    BY <1>t, <2>1 DEF Job
  <2>3. [th EXCEPT !.pc = "gotPage", !.page = Head(Cur.pageQ)] \in Thread
    BY <1>t, <2>1 DEF Thread, Busy
  <2> QED  BY <1>9, <1>t, <2>2, <2>3, ThreadStepType DEF ReceivePage
<1>10. CASE PrintBlank
  BY <1>10, <1>p, <1>t DEF PrintBlank, Goto, Busy, Held, TypeOK
<1>11. CASE AfterPage
  <2> DEFINE saves == Cur.kind.copies > 1 /\ ~Cur.cancelled /\ th.result # "ERROR"
             sent  == HasRoom(Cur.saveQ, MaxPagesPerJob)
             saved == IF sent THEN Append(Cur.saveQ, th.page) ELSE Cur.saveQ
             swaps == th.page.last /\ th.copy # Cur.kind.copies
             ends  == th.page.last \/ Cur.cancelled
             pq    == IF saves /\ swaps THEN saved ELSE Cur.pageQ
             sq    == IF ~saves THEN Cur.saveQ ELSE IF swaps THEN << >> ELSE saved
             c     == IF ends THEN th.copy + 1 ELSE th.copy
             pc    == IF ends THEN "copy" ELSE "recvPage"
             r     == IF ~saves THEN th.result ELSE IF sent THEN "OK" ELSE "ERROR"
  <2>1. pq \in Seq(Page) /\ sq \in Seq(Page)
    <3>1. saved \in Seq(Page) /\ Cur.pageQ \in Seq(Page) /\ Cur.saveQ \in Seq(Page)
      BY <1>t, JobParts DEF Job, Thread
    <3> HIDE DEF saved, saves, swaps
    <3> QED  BY <3>1
  <2>2. c \in Nat \ {0} /\ r \in Results /\ pc \in Busy
    BY <1>t, <1>n DEF Thread, Results, Busy, Held
  <2>3. /\ th' = [th EXCEPT !.pc = pc, !.copy = c, !.page = EndPage, !.result = r]
        /\ UpdateCur([Cur EXCEPT !.pageQ = pq, !.saveQ = sq])
    BY <1>11 DEF AfterPage
  <2> HIDE DEF pq, sq, c, pc, r
  <2>4. [Cur EXCEPT !.pageQ = pq, !.saveQ = sq] \in Job
    BY <1>t, <2>1 DEF Job
  <2>5. th' \in Thread
    BY <1>t, <2>2, <2>3, EndPageType DEF Thread
  <2> QED  BY <1>11, <1>t, <2>3, <2>4, <2>5, ThreadStepType DEF AfterPage
<1>12. ASSUME NEW good \in BOOLEAN, TakePage(good)
       PROVE  TypeOK'
  <2>1. [th EXCEPT !.pc = "copy", !.copy = @ + 1, !.result = "ERROR",
                   !.page = EndPage] \in Thread
    BY <1>t, <1>n, EndPageType DEF Thread, Busy, Held, Results
  <2>2. [th EXCEPT !.pc = "print", !.odd = ~@, !.back = ~th.odd] \in Thread
    BY <1>t DEF Thread, Busy
  <2>3. [Cur EXCEPT !.pageNum = @ + 1, !.printing = TRUE,
                    !.client = Tell(@, "pageStart")] \in Job
    BY <1>t, JobParts DEF Job
  <2>4. [th EXCEPT !.pc = "blank"] \in Thread /\ [th EXCEPT !.pc = "after"] \in Thread
    BY <1>p DEF Busy, Held
  <2>5. th' \in Thread
    BY <1>12, <2>1, <2>2, <2>4 DEF TakePage, AfterPrint, Goto
  <2>6. \/ UNCHANGED jobs
        \/ UpdateCur([Cur EXCEPT !.pageNum = @ + 1, !.printing = TRUE,
                                 !.client = Tell(@, "pageStart")])
    BY <1>12 DEF TakePage
  <2> QED  BY <1>12, <1>t, <2>3, <2>5, <2>6, ThreadStepType DEF TakePage
<1>13. ASSUME NEW res \in Results
       PROVE  [Cur EXCEPT !.printing = FALSE, !.client = Tell(@, "pageInfo"),
                          !.failed = @ \/ res = "ERROR"] \in Job
  BY <1>t, JobParts DEF Job
<1>14. ASSUME NEW res \in Results, PrintPage(res)
       PROVE  TypeOK'
  <2> DEFINE pc == IF NeedsBlank THEN "blank" ELSE "after"
  <2>1. pc \in Busy
    BY DEF Busy, Held
  <2>2. [th.page EXCEPT !.corrupted = res = "CORRUPT"] \in Page
    BY <1>t DEF Thread, Page
  <2>3. th' = [th EXCEPT !.pc = pc, !.result = res,
                         !.corrupted = @ \/ res = "CORRUPT",
                         !.page = [th.page EXCEPT !.corrupted = res = "CORRUPT"]]
    BY <1>14 DEF PrintPage
  <2> HIDE DEF pc
  <2>4. th' \in Thread
    BY <1>t, <2>1, <2>2, <2>3 DEF Thread
  <2> QED  BY <1>13, <1>14, <1>t, <2>4, ThreadStepType DEF PrintPage, Printed
<1>15. ASSUME NEW res \in Results, PrintSingle(res)
       PROVE  TypeOK'
  <2>1. [th EXCEPT !.pc = "single", !.copy = @ + 1, !.result = res,
                   !.corrupted = @ \/ res = "CORRUPT"] \in Thread
    BY <1>t, <1>n DEF Thread, Busy, Held
  <2> QED  BY <1>13, <1>15, <1>t, <2>1, ThreadStepType DEF PrintSingle, Printed
<1>16. ASSUME NEW good \in BOOLEAN, BeginSingle(good)
       PROVE  TypeOK'
  <2>1. [th EXCEPT !.pc = "end", !.result = "ERROR"] \in Thread
    BY <1>t DEF Thread, Busy, Held, Results
  <2>2. [Cur EXCEPT !.state = "RUNNING", !.pageNum = @ + 1, !.printing = TRUE,
                    !.client = Tell(@, "pageStart")] \in Job
    BY <1>t, JobParts DEF Job, JobStates, Active
  <2>3. [th EXCEPT !.pc = "end"] \in Thread /\ [th EXCEPT !.pc = "print"] \in Thread
    BY <1>p DEF Busy, Held
  <2>4. th' \in Thread
    BY <1>16, <2>1, <2>3 DEF BeginSingle, Goto
  <2>5. \/ UNCHANGED jobs
        \/ UpdateCur([Cur EXCEPT !.state = "RUNNING", !.pageNum = @ + 1,
                                 !.printing = TRUE,
                                 !.client = Tell(@, "pageStart")])
    BY <1>16 DEF BeginSingle
  <2> QED  BY <1>16, <1>t, <2>2, <2>4, <2>5, ThreadStepType DEF BeginSingle
<1>17. ASSUME NEW good \in BOOLEAN, EndPrinting(good)
       PROVE  TypeOK'
  <2>1. \A pc \in {"waitStart", "stop"}, r \in Results :
          [th EXCEPT !.pc = pc, !.result = r] \in Thread
    BY <1>t DEF Thread, Busy, Held
  <2>2. (IF th.result = "OK" /\ ~good THEN "ERROR" ELSE th.result) \in Results
    BY <1>t DEF Thread, Results
  <2>3. th' \in Thread
    BY <1>17, <2>1, <2>2 DEF EndPrinting
  <2> QED  BY <1>17, <2>3 DEF EndPrinting, TypeOK
<1>18. CASE WaitStart \/ WaitDone \/ LastTry
  <2>1. th' \in Thread
    <3>1. \E pc \in {"waitDone", "stop", "lastTry"} : Goto(pc)
      BY <1>18 DEF WaitStart, WaitDone, LastTry
    <3> QED  BY <3>1, <1>p DEF Goto, Busy, Held
  <2>2. sem' \in [start : BOOLEAN, end : BOOLEAN]
    BY <1>18, <1>t DEF WaitStart, WaitDone, LastTry
  <2> QED  BY <1>18, <2>1, <2>2 DEF WaitStart, WaitDone, LastTry, TypeOK
<1>19. CASE StopStatus \/ JoinStatus
  <2>1. th' \in Thread
    BY <1>19, <1>p DEF StopStatus, JoinStatus, Goto, Busy, Held
  <2>2. mon' \in Monitor
    BY <1>19, <1>t DEF StopStatus, JoinStatus, Monitor
  <2> QED  BY <1>19, <2>1, <2>2 DEF StopStatus, JoinStatus, TypeOK
<1>20. CASE Finish
  <2>1. Outcome \in JobStates
    BY DEF Outcome, JobStates, Final
  <2>2. [Cur EXCEPT !.state = Outcome, !.client = Tell(@, "done")] \in Job
    BY <1>t, <2>1, JobParts DEF Job
  <2> QED  BY <1>20, <1>t, <2>2, IdleThreadType, ThreadStepType DEF Finish
<1> QED
  BY <1>1, <1>2, <1>3, <1>4, <1>5, <1>6, <1>7, <1>8, <1>9, <1>10, <1>11, <1>12,
     <1>14, <1>15, <1>16, <1>17, <1>18, <1>19, <1>20 DEF JobThread

LEMMA StatusThreadType ==
  ASSUME TypeOK, StatusThread
  PROVE  TypeOK'
<1>t. /\ mon \in Monitor /\ Cur \in Job
      /\ sem \in [start : BOOLEAN, end : BOOLEAN]
  BY DEF TypeOK, Cur, Thread
<1>1. CASE MonitorBegin \/ MonitorHead
  <2>1. mon' \in Monitor
    BY <1>1, <1>t DEF MonitorBegin, MonitorHead, Monitor
  <2> QED  BY <1>1, <2>1 DEF MonitorBegin, MonitorHead, TypeOK
<1>2. ASSUME NEW r \in Reports, MonitorPoll(r)
      PROVE  TypeOK'
  <2>1. mon' \in Monitor
    BY <1>2, <1>t, WprintAssumption DEF MonitorPoll, Monitor
  <2> QED  BY <1>2, <2>1 DEF MonitorPoll, TypeOK
<1>3. CASE MonitorPost
  <2>1. mon' \in Monitor /\ sem' \in [start : BOOLEAN, end : BOOLEAN]
    BY <1>3, <1>t DEF MonitorPost, Monitor
  <2> QED  BY <1>3, <2>1 DEF MonitorPost, TypeOK
<1>4. CASE MonitorApply
  <2>1. mon' \in Monitor
    BY <1>4, <1>t, NoThreadType DEF MonitorApply, Monitor
  <2>2. sem' \in [start : BOOLEAN, end : BOOLEAN]
    BY <1>4, <1>t DEF MonitorApply
  <2>3. jobs' \in [Slots -> Job]
    BY <1>4, <1>t, WithPageType, EndPageType, NotedType
       DEF MonitorApply, UpdateCur, TypeOK
  <2> QED  BY <1>4, <2>1, <2>2, <2>3 DEF MonitorApply, TypeOK
<1> QED  BY <1>1, <1>2, <1>3, <1>4 DEF StatusThread

LEMMA TypeStep == TypeOK /\ [Next]_vars => TypeOK'
<1>1. TypeOK /\ UNCHANGED vars => TypeOK'
  BY DEF TypeOK, vars
<1> QED  BY <1>1, ClientType, JobThreadType, StatusThreadType DEF Next

(* Every reachable state is well typed.                                    *)
THEOREM TypeCorrect == Spec => []TypeOK
BY TypeInit, TypeStep, PTL DEF Spec

-----------------------------------------------------------------------------
(* The slots are safe.  The steps fall into three classes: those that      *)
(* leave the table and the job thread alone, those of a client on a slot   *)
(* while nobody holds the mutex, and those on the job in work.             *)

LEMMA SlotsInit == Init => SlotsAreSafe
BY DEF Init, SlotsAreSafe, JobKeepsItsSlot, OneJobAtATime,
       MonitorWatchesItsJob, IdleThread, NoThread, FreeJob, Busy, Held, Active

LEMMA QuietStep ==
  ASSUME SlotsAreSafe, UNCHANGED <<jobs, th>>,
         mon'.pc # "off" => mon.pc # "off"
  PROVE  SlotsAreSafe'
BY DEF SlotsAreSafe, JobKeepsItsSlot, OneJobAtATime, MonitorWatchesItsJob,
       Cur, LockFree

(* A client changes the job in one slot.  If it is the job in work, it     *)
(* stays so; if not, it does not get among the active ones.                *)
LEMMA ClientStep ==
  ASSUME TypeOK, SlotsAreSafe, LockFree, UNCHANGED <<th, mon>>,
         NEW s \in Slots, NEW j \in Job,
         jobs' = [jobs EXCEPT ![s] = j],
         j.state = "QUEUED" => ~j.cancelled,
         th.pc \in Busy /\ th.cur = s
           => /\ j.handle = Cur.handle
              /\ j.kind = Cur.kind
              /\ j.state \in Active,
         ~(th.pc \in Busy /\ th.cur = s) => j.state \notin Active
  PROVE  SlotsAreSafe'
<1>1. /\ jobs'[s] = j
      /\ \A o \in Slots : o # s => jobs'[o] = jobs[o]
      /\ th' = th /\ mon' = mon /\ th.cur \in Slots
  BY DEF TypeOK, Thread
<1>2. th.pc \in Busy => /\ jobs'[th.cur].handle = th.hand
                        /\ jobs'[th.cur].kind = Cur.kind
                        /\ jobs'[th.cur].state \in Active
  BY <1>1 DEF SlotsAreSafe, JobKeepsItsSlot, Cur
<1>3. JobKeepsItsSlot'
  BY <1>1, <1>2 DEF JobKeepsItsSlot, Cur, LockFree
<1>4. OneJobAtATime'
  BY <1>1 DEF OneJobAtATime, SlotsAreSafe
<1>5. MonitorWatchesItsJob'
  BY <1>1, <1>2 DEF SlotsAreSafe, MonitorWatchesItsJob, Cur
<1>6. \A o \in Slots : jobs'[o].state = "QUEUED" => ~jobs'[o].cancelled
  BY <1>1 DEF SlotsAreSafe
<1>7. ~(th'.pc \in Busy /\ Cur'.state = "QUEUED")
  BY <1>1, <1>2 DEF Cur, Active
<1> QED  BY <1>1, <1>3, <1>4, <1>5, <1>6, <1>7 DEF SlotsAreSafe

(* One of the two threads changes the job in work.                         *)
LEMMA WorkStep ==
  ASSUME TypeOK, SlotsAreSafe, th.pc \in Busy,
         th'.pc \in Busy, th'.cur = th.cur, th'.hand = th.hand,
         NEW j \in Job,
         jobs' = [jobs EXCEPT ![th.cur] = j] \/ (jobs' = jobs /\ j = Cur),
         j.handle = Cur.handle,
         j.kind = Cur.kind,
         \/ j.state = Cur.state /\ j.cancelled = Cur.cancelled
         \/ j.state \in Active,
         th'.pc \notin Held => j.state \in Active,
         mon'.pc # "off" => /\ j.kind.monitored
                            /\ th'.pc \notin {"check", "sleep", "launch", "finish"},
         th'.pc \in {"check", "sleep", "launch"}
           => th'.copy = 1 /\ th'.result = "OK",
         j.state = "QUEUED" =>
           /\ th'.pc \in {"copy", "single"} => th'.copy = 1 /\ th'.result = "OK"
           /\ th'.pc = "end" => ~j.kind.monitored
           /\ th'.pc = "stop" => mon'.pc = "off"
           /\ th'.pc # "after"
  PROVE  SlotsAreSafe'
<1>1. /\ jobs'[th.cur] = j
      /\ \A o \in Slots : o # th.cur => jobs'[o] = jobs[o]
      /\ th.cur \in Slots
  BY DEF TypeOK, Thread, Cur
<1>2. /\ Cur' = j
      /\ j.handle = th'.hand
      /\ j.state \in Active \cup {"QUEUED"}
  BY <1>1 DEF SlotsAreSafe, JobKeepsItsSlot, Cur
<1>3. JobKeepsItsSlot'
  BY <1>2 DEF JobKeepsItsSlot, LockFree
<1>4. OneJobAtATime'
  BY <1>1 DEF OneJobAtATime, SlotsAreSafe
<1>5. MonitorWatchesItsJob'
  BY <1>2 DEF MonitorWatchesItsJob
<1>6. \A o \in Slots : jobs'[o].state = "QUEUED" => ~jobs'[o].cancelled
  BY <1>1 DEF SlotsAreSafe, Active, Cur
<1>7. th'.pc \notin {"receive", "lookup"}
  BY DEF Busy, Held
<1> QED  BY <1>2, <1>3, <1>4, <1>5, <1>6, <1>7 DEF SlotsAreSafe

(* A page changes neither what a job is nor what state it is in.           *)
LEMMA WithPageKeeps ==
  ASSUME NEW j \in Job, NEW p \in Page
  PROVE  LET k == WithPage(j, p) IN
           /\ k.handle = j.handle /\ k.kind = j.kind
           /\ k.state = j.state /\ k.cancelled = j.cancelled
BY DEF WithPage, Job

LEMMA ClientSlots ==
  ASSUME TypeOK, SlotsAreSafe, Client
  PROVE  SlotsAreSafe'
<1>t. jobs \in [Slots -> Job]
  BY DEF TypeOK
<1>c. ASSUME NEW s \in Slots
      PROVE  /\ th.pc \in Busy /\ th.cur = s /\ LockFree => jobs[s].state \in Active
             /\ jobs[s].state \in Active => th.pc \in Busy /\ th.cur = s
  BY DEF SlotsAreSafe, JobKeepsItsSlot, OneJobAtATime, Cur
<1>1. ASSUME NEW s \in Slots, NEW k \in JobKinds, StartJob(s, k)
      PROVE  SlotsAreSafe'
  <2> DEFINE j == [FreeJob(s) EXCEPT !.state = "QUEUED", !.handle = NewHandle(s),
                     !.kind = k, !.numPages = IF k.isDir THEN 0 ELSE 1]
  <2>1. CASE UNCHANGED jobs
    BY <1>1, <2>1, QuietStep DEF StartJob
  <2>2. CASE jobs' = [jobs EXCEPT ![s] = j]
    <3>1. j.state = "QUEUED" /\ ~j.cancelled
      BY DEF FreeJob
    <3>2. j \in Job
      <4>1. jobs'[s] = j
        BY <1>t, <2>2
      <4>2. jobs' \in [Slots -> Job]
        BY ClientType DEF TypeOK
      <4> QED  BY <4>1, <4>2
    <3>3. jobs[s].state = "FREE" /\ LockFree
      BY <1>1 DEF StartJob, NextFree, MayCall
    <3>4. ~(th.pc \in Busy /\ th.cur = s)
      BY <1>c, <3>3 DEF Active
    <3>5. UNCHANGED <<th, mon>>
      BY <1>1 DEF StartJob
    <3> HIDE DEF j
    <3> QED  BY <2>2, <3>1, <3>2, <3>3, <3>4, <3>5, ClientStep DEF Active
  <2> QED  BY <1>1, <2>1, <2>2 DEF StartJob
<1>2. ASSUME NEW h \in Handles, NEW p \in Page, SendPage(h, p)
      PROVE  SlotsAreSafe'
  <2>1. PICK s \in Slots : jobs' = [jobs EXCEPT ![s] = WithPage(jobs[s], p)]
    BY <1>2 DEF SendPage
  <2>2. WithPage(jobs[s], p) \in Job
    BY <1>t, WithPageType
  <2>3. LockFree /\ UNCHANGED <<th, mon>>
    BY <1>2 DEF SendPage, MayCall
  <2>4. jobs[s].state = "QUEUED" => ~jobs[s].cancelled
    BY DEF SlotsAreSafe
  <2> DEFINE j == WithPage(jobs[s], p)
  <2>5. /\ j.handle = jobs[s].handle /\ j.kind = jobs[s].kind
        /\ j.state = jobs[s].state /\ j.cancelled = jobs[s].cancelled
    BY <1>t, WithPageKeeps
  <2> HIDE DEF j
  <2>6. jobs' = [jobs EXCEPT ![s] = j] /\ j \in Job
    BY <2>1, <2>2 DEF j
  <2> QED  BY <1>c, <2>3, <2>4, <2>5, <2>6, ClientStep DEF Cur
<1>3. ASSUME NEW h \in Handles, CancelJob(h)
      PROVE  SlotsAreSafe'
  <2>1. PICK s \in Slots :
          /\ jobs[s].state \in {"RUNNING", "BLOCKED", "QUEUED"}
          /\ jobs' = [jobs EXCEPT ![s] = IF jobs[s].state = "QUEUED"
                                           THEN CancelQueued(jobs[s])
                                           ELSE CancelRunning(jobs[s])]
    BY <1>3 DEF CancelJob
  <2>2. LockFree /\ UNCHANGED <<th, mon>>
    BY <1>3 DEF CancelJob, MayCall
  <2>3. CASE jobs[s].state = "QUEUED"
    <3>1. CancelQueued(jobs[s]) \in Job
      BY <1>t, CancelType
    <3>2. CancelQueued(jobs[s]).state = "CANCELLED"
      BY <1>t DEF CancelQueued, Job
    <3>3. ~(th.pc \in Busy /\ th.cur = s)
      BY <1>c, <2>2, <2>3 DEF Active
    <3> QED  BY <2>1, <2>2, <2>3, <3>1, <3>2, <3>3, ClientStep DEF Active
  <2>4. CASE jobs[s].state # "QUEUED"
    <3>1. CancelRunning(jobs[s]) \in Job
      BY <1>t, CancelType
    <3>2. /\ CancelRunning(jobs[s]).state = "CANCEL_REQUEST"
          /\ CancelRunning(jobs[s]).handle = jobs[s].handle
          /\ CancelRunning(jobs[s]).kind = jobs[s].kind
      <4>1. [jobs[s] EXCEPT !.cancelled = TRUE] \in Job
        BY <1>t DEF Job
      <4> DEFINE w == WithPage([jobs[s] EXCEPT !.cancelled = TRUE], EndPage)
      <4>2. w \in Job /\ w.handle = jobs[s].handle /\ w.kind = jobs[s].kind
        BY <1>t, <4>1, EndPageType, WithPageType, WithPageKeeps DEF Job
      <4> HIDE DEF w
      <4>3. CancelRunning(jobs[s]) = [w EXCEPT !.state = "CANCEL_REQUEST"]
        BY DEF CancelRunning, w
      <4> QED  BY <4>2, <4>3 DEF Job
    <3>3. th.pc \in Busy /\ th.cur = s
      BY <1>c, <2>1, <2>4 DEF Active
    <3> QED  BY <2>1, <2>2, <2>4, <3>1, <3>2, <3>3, ClientStep DEF Active, Cur
  <2> QED  BY <2>3, <2>4
<1>4. ASSUME NEW h \in Handles, EndJob(h)
      PROVE  SlotsAreSafe'
  <2>1. PICK s \in Slots : /\ jobs[s].state \in Final
                           /\ jobs' = [jobs EXCEPT ![s] = FreeJob(s)]
    BY <1>4 DEF EndJob
  <2>2. LockFree /\ UNCHANGED <<th, mon>>
    BY <1>4 DEF EndJob, MayCall
  <2>3. ~(th.pc \in Busy /\ th.cur = s)
    BY <1>c, <2>1, <2>2 DEF Active, Final
  <2>4. FreeJob(s).state = "FREE"
    BY DEF FreeJob
  <2> QED  BY <2>1, <2>2, <2>3, <2>4, FreeJobType, ClientStep DEF Active
<1>5. CASE ExitBegin \/ ExitDrain \/ ExitQuit \/ ExitJoin
  BY <1>5, QuietStep DEF ExitBegin, ExitDrain, ExitQuit, ExitJoin
<1>6. \A last \in BOOLEAN :
        [EndPage EXCEPT !.named = TRUE, !.last = last] \in Page
  BY DEF EndPage, Page
<1> QED  BY <1>1, <1>2, <1>3, <1>4, <1>5, <1>6, EndPageType DEF Client

LEMMA StatusThreadSlots ==
  ASSUME TypeOK, SlotsAreSafe, StatusThread
  PROVE  SlotsAreSafe'
<1>t. Cur \in Job /\ mon \in Monitor
  BY DEF TypeOK, Cur, Thread
<1>1. CASE MonitorBegin \/ MonitorHead \/ MonitorPost
  BY <1>1, QuietStep DEF MonitorBegin, MonitorHead, MonitorPost
<1>2. ASSUME NEW r \in Reports, MonitorPoll(r)
      PROVE  SlotsAreSafe'
  BY <1>2, QuietStep DEF MonitorPoll
<1>3. CASE MonitorApply
  <2>1. /\ th.pc \in Busy \ {"check", "sleep", "launch", "finish"}
        /\ Cur.kind.monitored
        /\ LockFree => Cur.state \in Active
        /\ th' = th
    BY <1>3 DEF MonitorApply, SlotsAreSafe, MonitorWatchesItsJob, JobKeepsItsSlot
  <2>2. CASE LockFree
    <3> DEFINE j == IF BecameIdle THEN WithPage(Cur, EndPage) ELSE Noted(Cur)
    <3>1. j \in Job
      BY <1>t, EndPageType, WithPageType, NotedType
    <3>2. /\ Noted(Cur).handle = Cur.handle /\ Noted(Cur).kind = Cur.kind
          /\ Noted(Cur).state \in Active
      BY <1>t, <2>1, <2>2 DEF Noted, Job, Active
    <3>3. j.handle = Cur.handle /\ j.kind = Cur.kind /\ j.state \in Active
      BY <1>t, <2>1, <2>2, <3>2, EndPageType, WithPageKeeps
    <3>4. jobs' = [jobs EXCEPT ![th.cur] = j]
      BY <1>3 DEF MonitorApply, UpdateCur
    <3> HIDE DEF j
    <3> QED  BY <2>1, <2>2, <3>1, <3>3, <3>4, WorkStep DEF LockFree, Active, Held
  <2>3. CASE ~LockFree
    <3>1. ~NeedsLock
      BY <1>3, <2>3 DEF MonitorApply
    <3>2. CASE BecameIdle
      <4>1. WithPage(Cur, EndPage) = Cur
        BY <3>1, <3>2 DEF NeedsLock, BecameIdle, WithPage
      <4>2. UNCHANGED jobs
        BY <1>3, <3>2, <4>1 DEF MonitorApply, UpdateCur, Cur, TypeOK
      <4> QED  BY <1>3, <2>1, <4>2, QuietStep DEF MonitorApply
    <3>3. CASE ~BecameIdle
      <4>1. Noted(Cur) = Cur
        BY <3>1, <3>3 DEF NeedsLock, Noted, Blocking, CancelSeen
      <4>2. UNCHANGED jobs
        BY <1>3, <3>3, <4>1 DEF MonitorApply, UpdateCur, Cur, TypeOK
      <4> QED  BY <1>3, <2>1, <4>2, QuietStep DEF MonitorApply
    <3> QED  BY <3>2, <3>3
  <2> QED  BY <2>2, <2>3
<1> QED  BY <1>1, <1>2, <1>3 DEF StatusThread

LEMMA JobThreadSlots ==
  ASSUME TypeOK, SlotsAreSafe, ~StartFails, JobThread
  PROVE  SlotsAreSafe'
<1>t. /\ th \in Thread /\ mon \in Monitor /\ Cur \in Job
      /\ jobs \in [Slots -> Job]
  BY DEF TypeOK, Cur, Thread
<1>w. ASSUME th.pc \in Busy
      PROVE  /\ Cur.handle = th.hand
             /\ Cur.state \in Active \cup {"QUEUED"}
             /\ th.pc \notin Held => Cur.state \in Active
             /\ mon.pc # "off" => /\ Cur.kind.monitored
                                  /\ th.pc \notin {"check", "sleep", "launch", "finish"}
             /\ th.pc \in {"check", "sleep", "launch"}
                  => th.copy = 1 /\ th.result = "OK"
             /\ Cur.state = "QUEUED" =>
                  /\ ~Cur.cancelled
                  /\ th.pc \in {"copy", "single"} => th.copy = 1 /\ th.result = "OK"
                  /\ th.pc = "end" => ~Cur.kind.monitored
                  /\ th.pc = "stop" => mon.pc = "off"
                  /\ th.pc # "after"
  BY <1>w, <1>t DEF SlotsAreSafe, JobKeepsItsSlot, MonitorWatchesItsJob,
                    LockFree, Cur, Thread
<1>1. CASE ReceiveMsg
  <2>1. /\ th.pc = "receive" /\ th'.pc \in {"lookup", "exited"}
        /\ th'.copy = th.copy /\ th'.result = th.result
        /\ jobs' = jobs /\ mon' = mon
    BY <1>1, <1>t DEF ReceiveMsg, Goto, Thread
  <2> QED  BY <2>1 DEF SlotsAreSafe, JobKeepsItsSlot, OneJobAtATime,
                       MonitorWatchesItsJob, Busy, Held
<1>2. CASE LookupJob
  <2>1. /\ th.pc = "lookup" /\ mon.pc = "off" /\ jobs' = jobs /\ mon' = mon
        /\ \A s \in Slots : jobs[s].state \notin Active
        /\ th.copy = 1 /\ th.result = "OK"
    BY <1>2 DEF LookupJob, SlotsAreSafe, OneJobAtATime, MonitorWatchesItsJob,
                Busy, Held
  <2>2. CASE th' = IdleThread
    BY <2>1, <2>2 DEF SlotsAreSafe, JobKeepsItsSlot, OneJobAtATime,
                      MonitorWatchesItsJob, Busy, Held, IdleThread
  <2>3. CASE th' # IdleThread
    <3>1. PICK s \in Slots :
            /\ Names(th.hand, s)
            /\ jobs[s].state = "QUEUED"
            /\ th' = [th EXCEPT !.cur = s,
                                !.pc = IF jobs[s].kind.monitored
                                         THEN "check" ELSE "launch"]
      BY <1>2, <2>3 DEF LookupJob
    <3>2. /\ th'.pc \in {"check", "launch"} /\ th'.cur = s /\ th'.hand = th.hand
          /\ th'.copy = 1 /\ th'.result = "OK"
      BY <1>t, <2>1, <3>1 DEF Thread
    <3>3. Cur' = jobs[s] /\ jobs[s].handle = th.hand
      BY <2>1, <3>1, <3>2 DEF Cur, Names
    <3>4. JobKeepsItsSlot'
      BY <3>1, <3>2, <3>3 DEF JobKeepsItsSlot, LockFree, Held
    <3>5. OneJobAtATime' /\ MonitorWatchesItsJob'
      BY <2>1 DEF OneJobAtATime, MonitorWatchesItsJob
    <3> QED  BY <2>1, <3>2, <3>4, <3>5 DEF SlotsAreSafe
  <2> QED  BY <2>2, <2>3
<1>3. CASE WakeUp
  <2>1. /\ th.pc = "sleep" /\ th'.pc \in {"check", "stop"}
        /\ th'.cur = th.cur /\ th'.hand = th.hand /\ th'.copy = th.copy
        /\ th'.pc = "check" => th'.result = th.result
        /\ jobs' = jobs /\ mon' = mon
    BY <1>3, <1>t DEF WakeUp, Thread
  <2> QED  BY <1>t, <1>w, <2>1, WorkStep DEF Busy, Held, Active
<1>4. ASSUME NEW good \in BOOLEAN, PrinterReady(good)
      PROVE  SlotsAreSafe'
  <2> DEFINE j == [Cur EXCEPT !.paper = @ /\ ~good]
  <2>1. /\ j \in Job /\ j.handle = Cur.handle /\ j.kind = Cur.kind
        /\ j.state = Cur.state /\ j.cancelled = Cur.cancelled
    BY <1>t DEF Job
  <2>2. /\ th.pc = "check" /\ th'.pc = "launch"
        /\ th'.cur = th.cur /\ th'.hand = th.hand
        /\ th'.copy = th.copy /\ th'.result = th.result
        /\ jobs' = [jobs EXCEPT ![th.cur] = j] /\ mon' = mon
    BY <1>4, <1>t DEF PrinterReady, Goto, UpdateCur, Thread
  <2> HIDE DEF j
  <2> QED  BY <1>w, <2>1, <2>2, WorkStep DEF Busy, Held, Active
<1>5. CASE PrinterGone
  <2> DEFINE j == [Cur EXCEPT !.paper = FALSE]
  <2>1. /\ j \in Job /\ j.handle = Cur.handle /\ j.kind = Cur.kind
        /\ j.state = Cur.state /\ j.cancelled = Cur.cancelled
    BY <1>t DEF Job
  <2>2. /\ th.pc = "check" /\ th'.pc = "stop"
        /\ th'.cur = th.cur /\ th'.hand = th.hand
        /\ jobs' = [jobs EXCEPT ![th.cur] = j] /\ mon' = mon
    BY <1>5, <1>t DEF PrinterGone, UpdateCur, Thread
  <2> HIDE DEF j
  <2> QED  BY <1>w, <2>1, <2>2, WorkStep DEF Busy, Held, Active
<1>6. CASE PrinterTooBusy
  <2>1. /\ th.pc = "check" /\ th'.pc = "stop"
        /\ th'.cur = th.cur /\ th'.hand = th.hand
        /\ jobs' = jobs /\ mon' = mon
    BY <1>6, <1>t DEF PrinterTooBusy, Thread
  <2> QED  BY <1>t, <1>w, <2>1, WorkStep DEF Busy, Held, Active
<1>7. ASSUME NEW good \in BOOLEAN, PrinterBusy(good)
      PROVE  SlotsAreSafe'
  <2> DEFINE j == [Cur EXCEPT !.state = "BLOCKED", !.paper = good,
                              !.client = Tell(@, "state")]
  <2>1. /\ j.handle = Cur.handle /\ j.kind = Cur.kind /\ j.state = "BLOCKED"
    BY <1>t DEF Job
  <2>2. j \in Job
    BY <1>t, JobParts DEF Job, JobStates, Active
  <2>3. /\ th.pc = "check" /\ th'.pc = "sleep"
        /\ th'.cur = th.cur /\ th'.hand = th.hand
        /\ th'.copy = th.copy /\ th'.result = th.result
        /\ jobs' = [jobs EXCEPT ![th.cur] = j] /\ mon' = mon
    BY <1>7, <1>t DEF PrinterBusy, Goto, UpdateCur, Thread
  <2> HIDE DEF j
  <2> QED  BY <1>w, <2>1, <2>2, <2>3, WorkStep DEF Busy, Held, Active
<1>8. ASSUME NEW connects \in BOOLEAN, NEW starts \in BOOLEAN,
             Launch(connects, starts)
      PROVE  SlotsAreSafe'
  <2> DEFINE j == IF connects THEN [Cur EXCEPT !.client = Tell(@, "state")]
                              ELSE [Cur EXCEPT !.paper = FALSE]
  <2>1. /\ j.handle = Cur.handle /\ j.kind = Cur.kind
        /\ j.state = Cur.state /\ j.cancelled = Cur.cancelled
    BY <1>t DEF Job
  <2>2. j \in Job
    <3>1. [Cur EXCEPT !.client = Tell(@, "state")] \in Job
      BY <1>t, JobParts DEF Job
    <3>2. [Cur EXCEPT !.paper = FALSE] \in Job
      BY <1>t DEF Job
    <3> QED  BY <3>1, <3>2
  <2>3. jobs' = [jobs EXCEPT ![th.cur] = j]
    BY <1>8 DEF Launch, UpdateCur
  <2>4. /\ th.pc = "launch" /\ th'.pc \in {"copy", "single", "stop"}
        /\ th'.cur = th.cur /\ th'.hand = th.hand
        /\ th'.pc # "stop" => th'.copy = th.copy /\ th'.result = th.result
    BY <1>8, <1>t DEF Launch, Thread
  <2>5. /\ mon'.pc # "off" => Cur.kind.monitored
        /\ th'.pc = "stop" => mon'.pc = "off"
    BY <1>8, <1>t, <1>w, <2>4 DEF Launch, NoThread, Busy, Held
  <2> HIDE DEF j
  <2> QED  BY <1>w, <2>1, <2>2, <2>3, <2>4, <2>5, WorkStep DEF Busy, Held, Active
<1>9. CASE BeginCopy
  <2>1. CASE AnotherCopy /\ th.result \in {"OK", "CORRUPT"} /\ ~Cur.cancelled
    <3> DEFINE j == [Cur EXCEPT !.state = "RUNNING"]
    <3>1. /\ j \in Job /\ j.handle = Cur.handle /\ j.kind = Cur.kind
          /\ j.state = "RUNNING"
      BY <1>t DEF Job, JobStates, Active
    <3>2. /\ th.pc = "copy" /\ th'.pc = "recvPage"
          /\ th'.cur = th.cur /\ th'.hand = th.hand
          /\ jobs' = [jobs EXCEPT ![th.cur] = j] /\ mon' = mon
      BY <1>9, <1>t, <2>1 DEF BeginCopy, UpdateCur, Thread
    <3> HIDE DEF j
    <3> QED  BY <1>w, <3>1, <3>2, WorkStep DEF Busy, Held, Active
  <2>2. CASE ~(AnotherCopy /\ th.result \in {"OK", "CORRUPT"} /\ ~Cur.cancelled)
    <3>1. /\ th.pc = "copy" /\ th'.pc = "end"
          /\ th'.cur = th.cur /\ th'.hand = th.hand
          /\ jobs' = jobs /\ mon' = mon
      BY <1>9, <1>t, <2>2 DEF BeginCopy, Goto, Thread
    <3>2. Cur.kind.copies \in Nat \ {0}
      BY <1>t DEF Job, JobKind
    <3>3. Cur.state # "QUEUED"
      BY <1>w, <2>2, <3>1, <3>2 DEF AnotherCopy, Busy, Held
    <3> QED  BY <1>t, <1>w, <3>1, <3>3, WorkStep DEF Busy, Held, Active
  <2> QED  BY <2>1, <2>2
<1>10. CASE ReceivePage
  <2> DEFINE j == [Cur EXCEPT !.pageQ = Tail(@)]
  <2>1. /\ j.handle = Cur.handle /\ j.kind = Cur.kind
        /\ j.state = Cur.state /\ j.cancelled = Cur.cancelled
    BY <1>t DEF Job
  <2>2. j \in Job
    <3>1. Tail(Cur.pageQ) \in Seq(Page)
      BY <1>10, <1>t DEF ReceivePage, Job
    <3> QED  BY <1>t, <3>1 DEF Job
  <2>3. /\ th.pc = "recvPage" /\ th'.pc = "gotPage"
        /\ th'.cur = th.cur /\ th'.hand = th.hand
        /\ jobs' = [jobs EXCEPT ![th.cur] = j] /\ mon' = mon
    BY <1>10, <1>t DEF ReceivePage, UpdateCur, Thread
  <2> HIDE DEF j
  <2> QED  BY <1>w, <2>1, <2>2, <2>3, WorkStep DEF Busy, Held, Active
<1>11. CASE PrintBlank
  <2>1. /\ th.pc = "blank" /\ th'.pc = "after"
        /\ th'.cur = th.cur /\ th'.hand = th.hand
        /\ jobs' = jobs /\ mon' = mon
    BY <1>11, <1>t DEF PrintBlank, Goto, Thread
  <2> QED  BY <1>t, <1>w, <2>1, WorkStep DEF Busy, Held, Active
<1>12. CASE AfterPage
  <2>1. PICK pq \in Seq(Page), sq \in Seq(Page) :
          UpdateCur([Cur EXCEPT !.pageQ = pq, !.saveQ = sq])
    <3> DEFINE saves == Cur.kind.copies > 1 /\ ~Cur.cancelled /\ th.result # "ERROR"
               saved == IF HasRoom(Cur.saveQ, MaxPagesPerJob)
                          THEN Append(Cur.saveQ, th.page) ELSE Cur.saveQ
               swaps == th.page.last /\ th.copy # Cur.kind.copies
               pq    == IF saves /\ swaps THEN saved ELSE Cur.pageQ
               sq    == IF ~saves THEN Cur.saveQ
                        ELSE IF swaps THEN << >> ELSE saved
    <3>1. saved \in Seq(Page) /\ Cur.pageQ \in Seq(Page) /\ Cur.saveQ \in Seq(Page)
      BY <1>t, JobParts DEF Job, Thread
    <3>2. pq \in Seq(Page) /\ sq \in Seq(Page)
      <4> HIDE DEF saved, saves, swaps
      <4> QED  BY <3>1
    <3>3. UpdateCur([Cur EXCEPT !.pageQ = pq, !.saveQ = sq])
      BY <1>12 DEF AfterPage
    <3> QED  BY <3>2, <3>3
  <2> DEFINE j == [Cur EXCEPT !.pageQ = pq, !.saveQ = sq]
  <2>2. /\ j \in Job /\ j.handle = Cur.handle /\ j.kind = Cur.kind
        /\ j.state = Cur.state /\ j.cancelled = Cur.cancelled
    BY <1>t DEF Job
  <2>3. jobs' = [jobs EXCEPT ![th.cur] = j]
    BY <2>1 DEF UpdateCur
  <2>4. /\ th.pc = "after" /\ th'.pc \in {"copy", "recvPage"}
        /\ th'.cur = th.cur /\ th'.hand = th.hand /\ mon' = mon
    BY <1>12, <1>t DEF AfterPage, Thread
  <2> HIDE DEF j
  <2> QED  BY <1>w, <2>2, <2>3, <2>4, WorkStep DEF Busy, Held, Active
<1>13. ASSUME NEW good \in BOOLEAN, TakePage(good)
       PROVE  SlotsAreSafe'
  <2>1. /\ th.pc = "gotPage" /\ th'.pc \in {"copy", "print", "blank", "after"}
        /\ th'.cur = th.cur /\ th'.hand = th.hand /\ mon' = mon
    BY <1>13, <1>t DEF TakePage, AfterPrint, Goto, Thread
  <2>2. CASE UNCHANGED jobs
    BY <1>t, <1>w, <2>1, <2>2, WorkStep DEF Busy, Held, Active
  <2>3. CASE ~UNCHANGED jobs
    <3> DEFINE j == [Cur EXCEPT !.pageNum = @ + 1, !.printing = TRUE,
                                !.client = Tell(@, "pageStart")]
    <3>1. j \in Job
      BY <1>t, JobParts DEF Job
    <3>2. /\ j.handle = Cur.handle /\ j.kind = Cur.kind
          /\ j.state = Cur.state /\ j.cancelled = Cur.cancelled
      BY <1>t DEF Job
    <3>3. jobs' = [jobs EXCEPT ![th.cur] = j]
      BY <1>13, <2>3 DEF TakePage, UpdateCur
    <3> HIDE DEF j
    <3> QED  BY <1>w, <2>1, <3>1, <3>2, <3>3, WorkStep DEF Busy, Held, Active
  <2> QED  BY <2>2, <2>3
<1>14. ASSUME NEW res \in Results, PrintPage(res) \/ PrintSingle(res)
       PROVE  SlotsAreSafe'
  <2> DEFINE j == [Cur EXCEPT !.printing = FALSE, !.client = Tell(@, "pageInfo"),
                              !.failed = @ \/ res = "ERROR"]
  <2>1. j \in Job
    BY <1>t, JobParts DEF Job
  <2>2. /\ j.handle = Cur.handle /\ j.kind = Cur.kind
        /\ j.state = Cur.state /\ j.cancelled = Cur.cancelled
    BY <1>t DEF Job
  <2>3. jobs' = [jobs EXCEPT ![th.cur] = j]
    BY <1>14 DEF PrintPage, PrintSingle, Printed, UpdateCur
  <2>4. /\ th.pc = "print" /\ th'.pc \in {"blank", "after", "single"}
        /\ th'.cur = th.cur /\ th'.hand = th.hand /\ mon' = mon
    BY <1>14, <1>t DEF PrintPage, PrintSingle, Thread
  <2> HIDE DEF j
  <2> QED  BY <1>w, <2>1, <2>2, <2>3, <2>4, WorkStep DEF Busy, Held, Active
<1>15. ASSUME NEW good \in BOOLEAN, BeginSingle(good)
       PROVE  SlotsAreSafe'
  <2>1. /\ th.pc = "single" /\ th'.pc \in {"end", "print"}
        /\ th'.cur = th.cur /\ th'.hand = th.hand /\ mon' = mon
    BY <1>15, <1>t DEF BeginSingle, Goto, Thread
  <2>2. CASE th'.pc = "print"
    <3> DEFINE j == [Cur EXCEPT !.state = "RUNNING", !.pageNum = @ + 1,
                                !.printing = TRUE,
                                !.client = Tell(@, "pageStart")]
    <3>1. j \in Job
      BY <1>t, JobParts DEF Job, JobStates, Active
    <3>2. j.handle = Cur.handle /\ j.kind = Cur.kind /\ j.state = "RUNNING"
      BY <1>t DEF Job
    <3>3. jobs' = [jobs EXCEPT ![th.cur] = j]
      BY <1>15, <1>t, <2>2 DEF BeginSingle, Goto, UpdateCur, Thread
    <3> HIDE DEF j
    <3> QED  BY <1>w, <2>1, <2>2, <3>1, <3>2, <3>3, WorkStep DEF Busy, Held, Active
  <2>3. CASE th'.pc = "end"
    <3>1. /\ UNCHANGED jobs
          /\ AnotherSingle => ~Cur.kind.monitored
      BY <1>15, <1>t, <2>3 DEF BeginSingle, Goto, Thread
    <3>2. Cur.kind.copies \in Nat \ {0}
      BY <1>t DEF Job, JobKind
    <3>3. Cur.state = "QUEUED" => ~Cur.kind.monitored
      BY <1>w, <2>1, <3>1, <3>2 DEF AnotherSingle, AnotherCopy, Busy, Held
    <3> QED  BY <1>t, <1>w, <2>1, <2>3, <3>1, <3>3, WorkStep DEF Busy, Held, Active
  <2> QED  BY <2>1, <2>2, <2>3
<1>16. ASSUME NEW good \in BOOLEAN, EndPrinting(good)
       PROVE  SlotsAreSafe'
  <2>1. /\ th.pc = "end" /\ th'.pc \in {"waitStart", "stop"}
        /\ th'.pc = "waitStart" => Cur.kind.monitored
        /\ th'.cur = th.cur /\ th'.hand = th.hand
        /\ jobs' = jobs /\ mon' = mon
    BY <1>16, <1>t DEF EndPrinting, Thread
  <2> QED  BY <1>t, <1>w, <2>1, WorkStep DEF Busy, Held, Active
<1>17. CASE WaitStart \/ WaitDone \/ LastTry
  <2>1. /\ th.pc \in {"waitStart", "waitDone", "lastTry"}
        /\ th'.pc \in {"waitDone", "lastTry", "stop"}
        /\ th'.cur = th.cur /\ th'.hand = th.hand
        /\ jobs' = jobs /\ mon' = mon
    BY <1>17, <1>t DEF WaitStart, WaitDone, LastTry, Goto, Thread
  <2> QED  BY <1>t, <1>w, <2>1, WorkStep DEF Busy, Held, Active
<1>18. CASE StopStatus
  <2>1. /\ th.pc = "stop" /\ th'.pc \in {"join", "finish"}
        /\ th'.pc = "join" => mon.pc # "off"
        /\ th'.pc = "finish" => mon.pc = "off"
        /\ mon'.pc = mon.pc
        /\ th'.cur = th.cur /\ th'.hand = th.hand /\ jobs' = jobs
    BY <1>18, <1>t DEF StopStatus, Goto, Thread, Monitor
  <2> QED  BY <1>t, <1>w, <2>1, WorkStep DEF Busy, Held, Active
<1>19. CASE JoinStatus
  <2>1. /\ th.pc = "join" /\ th'.pc = "finish" /\ mon.pc = "off"
        /\ th'.cur = th.cur /\ th'.hand = th.hand
        /\ jobs' = jobs /\ mon' = mon
    BY <1>19, <1>t DEF JoinStatus, Goto, Thread
  <2> QED  BY <1>t, <1>w, <2>1, WorkStep DEF Busy, Held, Active
<1>20. CASE Finish
  <2> DEFINE j == [Cur EXCEPT !.state = Outcome, !.client = Tell(@, "done")]
  <2>1. j.state \in Final
    BY <1>t DEF Outcome, Final, Job
  <2>2. /\ th.pc = "finish" /\ th' = IdleThread /\ mon' = mon
        /\ jobs' = [jobs EXCEPT ![th.cur] = j]
    BY <1>20 DEF Finish, UpdateCur
  <2> HIDE DEF j
  <2>3. mon.pc = "off"
    BY <2>2 DEF SlotsAreSafe, MonitorWatchesItsJob
  <2>4. /\ jobs'[th.cur] = j
        /\ \A s \in Slots : s # th.cur => jobs'[s] = jobs[s]
    BY <1>t, <2>2 DEF Thread
  <2>5. \A s \in Slots : jobs'[s].state \notin Active
    BY <2>1, <2>4 DEF SlotsAreSafe, OneJobAtATime, Final, Active
  <2>6. \A s \in Slots : jobs'[s].state = "QUEUED" => ~jobs'[s].cancelled
    BY <2>1, <2>4 DEF SlotsAreSafe, Final
  <2>7. /\ th'.pc = "receive" /\ th'.copy = 1 /\ th'.result = "OK"
        /\ mon'.pc = "off"
    BY <2>2, <2>3 DEF IdleThread
  <2> QED  BY <2>5, <2>6, <2>7 DEF SlotsAreSafe, JobKeepsItsSlot, OneJobAtATime,
                                   MonitorWatchesItsJob, Busy, Held
<1> QED
  BY <1>1, <1>2, <1>3, <1>4, <1>5, <1>6, <1>7, <1>8, <1>9, <1>10, <1>11, <1>12,
     <1>13, <1>14, <1>15, <1>16, <1>17, <1>18, <1>19, <1>20 DEF JobThread

LEMMA SlotsStep ==
  ASSUME ~StartFails
  PROVE  TypeOK /\ SlotsAreSafe /\ [Next]_vars => SlotsAreSafe'
<1>1. SlotsAreSafe /\ UNCHANGED vars => SlotsAreSafe'
  BY QuietStep DEF vars
<1> QED  BY <1>1, ClientSlots, JobThreadSlots, StatusThreadSlots DEF Next

(* The job in work keeps its slot, it is the only active one, and the      *)
(* status thread lives no longer than it is in work.                       *)
THEOREM SlotSafety ==
  ASSUME ~StartFails
  PROVE  Spec => [](JobKeepsItsSlot /\ OneJobAtATime /\ MonitorWatchesItsJob)
<1>1. Spec => []SlotsAreSafe
  BY SlotsInit, SlotsStep, TypeInit, TypeStep, PTL DEF Spec
<1>2. SlotsAreSafe => JobKeepsItsSlot /\ OneJobAtATime /\ MonitorWatchesItsJob
  BY DEF SlotsAreSafe
<1> QED  BY <1>1, <1>2, PTL

-----------------------------------------------------------------------------
(* The spooler implements its abstract specification: every step of the    *)
(* clients and of the two threads is a step of Spooler or leaves its state *)
(* alone.                                                                  *)


(* The steps of the threads, by what they do to the abstract state: they   *)
(* leave it alone, work on the job in hand, take a job up, or finish it.   *)
OnlyCur == \A s \in Slots : s # th.cur => jobs'[s] = jobs[s]

Idles    == /\ jobs' = jobs
            /\ th.pc \notin Busy /\ th'.pc \notin Busy
Works    == /\ th.pc \in Busy /\ th'.pc \in Busy /\ th'.cur = th.cur
            /\ OnlyCur
            /\ Cur'.client.done = Cur.client.done
TakesUp  == /\ jobs' = jobs
            /\ th.pc \notin Busy /\ th'.pc \in Busy
            /\ th'.cur \in Slots
            /\ jobs[th'.cur].state = "QUEUED"
Finishes == /\ th.pc \in Busy /\ th'.pc \notin Busy
            /\ OnlyCur
            /\ jobs'[th.cur].state \in Final
            /\ jobs'[th.cur].client.done = Cur.client.done + 1

(* What a step that does not finish the job may make of it.                *)
LEMMA UpdateDone ==
  ASSUME TypeOK, th.pc \in Busy, th'.pc \in Busy, th'.cur = th.cur,
         \/ UNCHANGED jobs
         \/ \E j \in Job : /\ jobs' = [jobs EXCEPT ![th.cur] = j]
                           /\ j.client.done = Cur.client.done
  PROVE  Works
BY DEF TypeOK, Thread, Works, OnlyCur, Cur

LEMMA TellDone ==
  ASSUME NEW c \in Heard, NEW what, what # "done"
  PROVE  Tell(c, what).done = c.done
BY DEF Tell, Heard

LEMMA WithPageDone ==
  ASSUME NEW j \in Job, NEW p \in Page
  PROVE  WithPage(j, p).client.done = j.client.done
<1>1. j.client \in Heard
  BY DEF Job
<1>2. Tell(j.client, "pageTotal").done = j.client.done
  BY <1>1, TellDone
<1> QED  BY <1>2 DEF WithPage, Job

LEMMA NotedDone ==
  ASSUME NEW j \in Job
  PROVE  Noted(j).client.done = j.client.done
<1>1. j.client \in Heard
  BY DEF Job
<1>2. Tell(j.client, "state").done = j.client.done
  BY <1>1, TellDone
<1> QED  BY <1>2 DEF Noted, Job

LEMMA StatusThreadPromise ==
  ASSUME TypeOK, SlotsAreSafe, StatusThread
  PROVE  Idles \/ Works
<1>t. Cur \in Job /\ jobs \in [Slots -> Job] /\ th.cur \in Slots
  BY DEF TypeOK, Cur, Thread
<1>1. CASE UNCHANGED <<jobs, th>>
  BY <1>1 DEF Idles, Works, OnlyCur, Cur
<1>2. CASE MonitorApply
  <2>1. th.pc \in Busy /\ th' = th
    BY <1>2 DEF MonitorApply, SlotsAreSafe, MonitorWatchesItsJob
  <2> DEFINE j == IF BecameIdle THEN WithPage(Cur, EndPage) ELSE Noted(Cur)
  <2>2. j \in Job /\ j.client.done = Cur.client.done
    BY <1>t, EndPageType, WithPageType, NotedType, WithPageDone, NotedDone
  <2>3. jobs' = [jobs EXCEPT ![th.cur] = j]
    BY <1>2 DEF MonitorApply, UpdateCur
  <2> HIDE DEF j
  <2> QED  BY <2>1, <2>2, <2>3, UpdateDone
<1> QED  BY <1>1, <1>2 DEF StatusThread, MonitorBegin, MonitorHead, MonitorPoll,
                           MonitorPost

LEMMA JobThreadPromise ==
  ASSUME TypeOK, SlotsAreSafe, JobThread
  PROVE  Idles \/ Works \/ TakesUp \/ Finishes
<1>t. /\ Cur \in Job /\ Cur.client \in Heard /\ jobs \in [Slots -> Job]
      /\ th \in Thread /\ th.cur \in Slots
  BY DEF TypeOK, Cur, Thread, Job
<1>tell. /\ Tell(Cur.client, "state").done = Cur.client.done
         /\ Tell(Cur.client, "pageStart").done = Cur.client.done
         /\ Tell(Cur.client, "pageInfo").done = Cur.client.done
         /\ Tell(Cur.client, "done").done = Cur.client.done + 1
  BY <1>t, TellDone DEF Tell, Heard
<1>1. CASE ReceiveMsg
  <2>1. /\ th.pc = "receive" /\ jobs' = jobs
        /\ \/ Goto("exited")
           \/ \E h : th' = [th EXCEPT !.pc = "lookup", !.hand = h]
    BY <1>1 DEF ReceiveMsg
  <2>2. th'.pc \in {"exited", "lookup"}
    BY <1>t, <2>1 DEF Goto, Thread
  <2> QED  BY <2>1, <2>2 DEF Idles, Busy, Held
<1>2. CASE LookupJob
  <2>1. CASE th' = IdleThread
    BY <1>2, <2>1 DEF LookupJob, IdleThread, Idles, Busy, Held
  <2>2. CASE th' # IdleThread
    <3>1. PICK s \in Slots :
            /\ jobs[s].state = "QUEUED"
            /\ th' = [th EXCEPT !.cur = s,
                                !.pc = IF jobs[s].kind.monitored
                                         THEN "check" ELSE "launch"]
      BY <1>2, <2>2 DEF LookupJob
    <3>2. th.pc = "lookup" /\ jobs' = jobs
      BY <1>2 DEF LookupJob
    <3>3. th'.pc \in {"check", "launch"} /\ th'.cur = s
      BY <1>t, <3>1 DEF Thread
    <3> QED  BY <3>1, <3>2, <3>3 DEF TakesUp, Busy, Held
  <2> QED  BY <2>1, <2>2
<1>3. CASE WakeUp \/ PrinterTooBusy \/ PrintBlank \/ WaitStart \/ WaitDone
           \/ LastTry \/ StopStatus \/ JoinStatus
  <2>1. th.pc \in Busy /\ th'.pc \in Busy /\ th'.cur = th.cur /\ jobs' = jobs
    <3>1. th.pc \in {"sleep", "check", "blank", "waitStart", "waitDone", "lastTry", "stop", "join"}
          /\ jobs' = jobs
      BY <1>3 DEF WakeUp, PrinterTooBusy, PrintBlank, WaitStart, WaitDone, LastTry, StopStatus,
         JoinStatus
    <3>2. \/ WakeUp \/ PrinterTooBusy
          \/ \E pc \in {"after", "waitDone", "stop", "lastTry", "join", "finish"} : Goto(pc)
      BY <1>3 DEF PrintBlank, WaitStart, WaitDone, LastTry, StopStatus, JoinStatus
    <3>3. /\ th'.pc \in {"stop", "check", "after", "waitDone", "lastTry", "join", "finish"}
          /\ th'.cur = th.cur
      <4>1. CASE WakeUp
        BY <1>t, <4>1 DEF WakeUp, Thread
      <4>2. CASE PrinterTooBusy
        BY <1>t, <4>2 DEF PrinterTooBusy, Thread
      <4>3. CASE \E pc \in {"after", "waitDone", "stop", "lastTry", "join", "finish"} : Goto(pc)
        BY <1>t, <4>3 DEF Goto, Thread
      <4> QED  BY <3>2, <4>1, <4>2, <4>3
    <3> QED  BY <3>1, <3>3 DEF Busy, Held
  <2> QED  BY <2>1 DEF Works, OnlyCur, Cur
<1>4. ASSUME NEW good \in BOOLEAN, EndPrinting(good)
      PROVE  Works
  <2>1. th.pc \in Busy /\ th'.pc \in Busy /\ th'.cur = th.cur /\ jobs' = jobs
    BY <1>4, <1>t DEF EndPrinting, Thread, Busy, Held
  <2> QED  BY <2>1 DEF Works, OnlyCur, Cur
<1>5. ASSUME NEW j, UpdateCur(j), j.client.done = Cur.client.done,
             th.pc \in Busy, th'.pc \in Busy, th'.cur = th.cur
      PROVE  Works
  BY <1>5, <1>t DEF UpdateCur, Works, OnlyCur, Cur
<1>6. ASSUME NEW good \in BOOLEAN, PrinterReady(good) \/ PrinterBusy(good)
      PROVE  Works
  <2>1. th.pc \in Busy /\ th'.pc \in Busy /\ th'.cur = th.cur
    BY <1>6, <1>t DEF PrinterReady, PrinterBusy, Goto, Thread, Busy, Held
  <2>2. [Cur EXCEPT !.paper = @ /\ ~good].client.done = Cur.client.done
    BY <1>t DEF Job
  <2>3. [Cur EXCEPT !.state = "BLOCKED", !.paper = good,
                    !.client = Tell(@, "state")].client.done = Cur.client.done
    BY <1>t, <1>tell DEF Job
  <2> QED  BY <1>5, <1>6, <2>1, <2>2, <2>3 DEF PrinterReady, PrinterBusy
<1>7. CASE PrinterGone
  <2>1. th.pc \in Busy /\ th'.pc \in Busy /\ th'.cur = th.cur
    BY <1>7, <1>t DEF PrinterGone, Thread, Busy, Held
  <2>2. [Cur EXCEPT !.paper = FALSE].client.done = Cur.client.done
    BY <1>t DEF Job
  <2> QED  BY <1>5, <1>7, <2>1, <2>2 DEF PrinterGone
<1>8. ASSUME NEW connects \in BOOLEAN, NEW starts \in BOOLEAN,
             Launch(connects, starts)
      PROVE  Works
  <2>1. th.pc \in Busy /\ th'.pc \in Busy /\ th'.cur = th.cur
    BY <1>8, <1>t DEF Launch, Thread, Busy, Held
  <2>2. [Cur EXCEPT !.client = Tell(@, "state")].client.done = Cur.client.done
    BY <1>t, <1>tell DEF Job
  <2>3. [Cur EXCEPT !.paper = FALSE].client.done = Cur.client.done
    BY <1>t DEF Job
  <2> QED  BY <1>5, <1>8, <2>1, <2>2, <2>3 DEF Launch
<1>9. CASE BeginCopy
  <2>1. th.pc \in Busy /\ th'.pc \in Busy /\ th'.cur = th.cur
    BY <1>9, <1>t DEF BeginCopy, Goto, Thread, Busy, Held
  <2>2. [Cur EXCEPT !.state = "RUNNING"].client.done = Cur.client.done
    BY <1>t DEF Job
  <2>3. CASE UNCHANGED jobs
    BY <2>1, <2>3 DEF Works, OnlyCur, Cur
  <2> QED  BY <1>5, <1>9, <2>1, <2>2, <2>3 DEF BeginCopy
<1>10. CASE ReceivePage
  <2>1. th.pc \in Busy /\ th'.pc \in Busy /\ th'.cur = th.cur
    BY <1>10, <1>t DEF ReceivePage, Thread, Busy
  <2>2. [Cur EXCEPT !.pageQ = Tail(@)].client.done = Cur.client.done
    BY <1>t DEF Job
  <2> QED  BY <1>5, <1>10, <2>1, <2>2 DEF ReceivePage
<1>11. CASE AfterPage
  <2>1. th.pc \in Busy /\ th'.pc \in Busy /\ th'.cur = th.cur
    BY <1>11, <1>t DEF AfterPage, Thread, Busy, Held
  <2>2. \E pq, sq : UpdateCur([Cur EXCEPT !.pageQ = pq, !.saveQ = sq])
    BY <1>11 DEF AfterPage
  <2>3. \A pq, sq : [Cur EXCEPT !.pageQ = pq, !.saveQ = sq].client.done
                      = Cur.client.done
    BY <1>t DEF Job
  <2> QED  BY <1>5, <2>1, <2>2, <2>3
<1>12. ASSUME NEW good \in BOOLEAN, TakePage(good) \/ BeginSingle(good)
       PROVE  Works
  <2>1. th.pc \in Busy /\ th'.pc \in Busy /\ th'.cur = th.cur
    BY <1>12, <1>t DEF TakePage, BeginSingle, AfterPrint, Goto, Thread, Busy, Held
  <2>2. [Cur EXCEPT !.pageNum = @ + 1, !.printing = TRUE,
                    !.client = Tell(@, "pageStart")].client.done = Cur.client.done
    BY <1>t, <1>tell DEF Job
  <2>3. [Cur EXCEPT !.state = "RUNNING", !.pageNum = @ + 1, !.printing = TRUE,
                    !.client = Tell(@, "pageStart")].client.done = Cur.client.done
    BY <1>t, <1>tell DEF Job
  <2>4. CASE UNCHANGED jobs
    BY <2>1, <2>4 DEF Works, OnlyCur, Cur
  <2> QED  BY <1>5, <1>12, <2>1, <2>2, <2>3, <2>4 DEF TakePage, BeginSingle
<1>13. ASSUME NEW res \in Results, PrintPage(res) \/ PrintSingle(res)
       PROVE  Works
  <2>1. th.pc \in Busy /\ th'.pc \in Busy /\ th'.cur = th.cur
    BY <1>13, <1>t DEF PrintPage, PrintSingle, Thread, Busy, Held
  <2>2. [Cur EXCEPT !.printing = FALSE, !.client = Tell(@, "pageInfo"),
                    !.failed = @ \/ res = "ERROR"].client.done = Cur.client.done
    BY <1>t, <1>tell DEF Job
  <2> QED  BY <1>5, <1>13, <2>1, <2>2 DEF PrintPage, PrintSingle, Printed
<1>14. CASE Finish
  <2> DEFINE j == [Cur EXCEPT !.state = Outcome, !.client = Tell(@, "done")]
  <2>1. j.state \in Final /\ j.client.done = Cur.client.done + 1
    BY <1>t, <1>tell DEF Outcome, Final, Job
  <2>2. /\ th.pc = "finish" /\ th' = IdleThread
        /\ jobs' = [jobs EXCEPT ![th.cur] = j]
    BY <1>14 DEF Finish, UpdateCur
  <2> HIDE DEF j
  <2> QED  BY <1>t, <2>1, <2>2 DEF Finishes, OnlyCur, IdleThread, Busy, Held
<1> QED
  BY <1>1, <1>2, <1>3, <1>4, <1>6, <1>7, <1>8, <1>9, <1>10, <1>11, <1>12, <1>13,
     <1>14 DEF JobThread

-----------------------------------------------------------------------------
(* A free slot has told nothing.                                           *)
FreeIsUntold == \A s \in Slots : jobs[s].state = "FREE" => jobs[s].client.done = 0

PromiseInv == TypeOK /\ SlotsAreSafe /\ FreeIsUntold

(* A client changes one slot: it submits a job to a free one, withdraws a  *)
(* queued job, frees a slot, or leaves the abstract state alone.           *)
OnlySlot(s) == /\ UNCHANGED th
               /\ \A o \in Slots : o # s => jobs'[o] = jobs[o]

Stays(s)     == /\ \/ jobs'[s].state = jobs[s].state
                   \/ jobs[s].state \in Active /\ jobs'[s].state \in Active
                /\ jobs'[s].handle = jobs[s].handle
                /\ jobs'[s].client.done = jobs[s].client.done
Submits(s)   == /\ jobs[s].state = "FREE" /\ jobs'[s].state = "QUEUED"
                /\ jobs'[s].client.done = 0
Withdraws(s) == /\ jobs[s].state = "QUEUED" /\ jobs'[s].state = "CANCELLED"
                /\ ~(th.pc \in Busy /\ th.cur = s)
                /\ jobs'[s].client.done = jobs[s].client.done + 1
Frees(s)     == /\ jobs[s].state \in Final /\ jobs'[s].state = "FREE"
                /\ jobs'[s].client.done = 0

LEMMA ClientPromise ==
  ASSUME TypeOK, SlotsAreSafe, Client
  PROVE  \E s \in Slots :
           /\ OnlySlot(s)
           /\ Stays(s) \/ Submits(s) \/ Withdraws(s) \/ Frees(s)
<1>t. jobs \in [Slots -> Job]
  BY DEF TypeOK
<1>f. ASSUME NEW s \in Slots
      PROVE  FreeJob(s).state = "FREE" /\ FreeJob(s).client.done = 0
  BY DEF FreeJob, Unheard
<1>1. ASSUME NEW s \in Slots, NEW k \in JobKinds, StartJob(s, k)
      PROVE  OnlySlot(s) /\ (Stays(s) \/ Submits(s))
  <2> DEFINE j == [FreeJob(s) EXCEPT !.state = "QUEUED", !.handle = NewHandle(s),
                     !.kind = k, !.numPages = IF k.isDir THEN 0 ELSE 1]
  <2>1. jobs' = jobs \/ jobs' = [jobs EXCEPT ![s] = j]
    BY <1>1 DEF StartJob
  <2>2. j.state = "QUEUED" /\ j.client.done = 0
    BY DEF FreeJob, Unheard
  <2>3. jobs[s].state = "FREE" /\ th' = th
    BY <1>1 DEF StartJob, NextFree
  <2> HIDE DEF j
  <2>4. CASE jobs' = jobs
    BY <2>3, <2>4 DEF OnlySlot, Stays
  <2>5. CASE jobs' = [jobs EXCEPT ![s] = j]
    <3>1. jobs'[s] = j /\ \A o \in Slots : o # s => jobs'[o] = jobs[o]
      BY <1>t, <2>5
    <3> QED  BY <2>2, <2>3, <3>1 DEF OnlySlot, Submits
  <2> QED  BY <2>1, <2>4, <2>5
<1>2. ASSUME NEW h \in Handles, NEW p \in Page, SendPage(h, p)
      PROVE  \E s \in Slots : OnlySlot(s) /\ Stays(s)
  <2>1. PICK s \in Slots : jobs' = [jobs EXCEPT ![s] = WithPage(jobs[s], p)]
    BY <1>2 DEF SendPage
  <2> DEFINE j == WithPage(jobs[s], p)
  <2>2. /\ j.state = jobs[s].state /\ j.client.done = jobs[s].client.done
        /\ j.handle = jobs[s].handle
    BY <1>t, WithPageKeeps, WithPageDone
  <2>3. jobs' = [jobs EXCEPT ![s] = j] /\ th' = th
    BY <1>2, <2>1 DEF SendPage
  <2> HIDE DEF j
  <2>4. jobs'[s] = j /\ \A o \in Slots : o # s => jobs'[o] = jobs[o]
    BY <1>t, <2>3
  <2>5. OnlySlot(s) /\ Stays(s)
    BY <2>2, <2>3, <2>4 DEF OnlySlot, Stays
  <2> QED  BY <2>5
<1>3. ASSUME NEW h \in Handles, CancelJob(h)
      PROVE  \E s \in Slots : OnlySlot(s) /\ (Stays(s) \/ Withdraws(s))
  <2>1. PICK s \in Slots :
          /\ jobs[s].state \in {"RUNNING", "BLOCKED", "QUEUED"}
          /\ jobs' = [jobs EXCEPT ![s] = IF jobs[s].state = "QUEUED"
                                           THEN CancelQueued(jobs[s])
                                           ELSE CancelRunning(jobs[s])]
    BY <1>3 DEF CancelJob
  <2>2. LockFree /\ th' = th
    BY <1>3 DEF CancelJob, MayCall
  <2>3. CASE jobs[s].state = "QUEUED"
    <3>1. jobs' = [jobs EXCEPT ![s] = CancelQueued(jobs[s])]
      BY <2>1, <2>3
    <3>2. jobs[s].client \in Heard
      BY <1>t DEF Job
    <3>3. Tell(jobs[s].client, "done").done = jobs[s].client.done + 1
      BY <3>2 DEF Tell, Heard
    <3>4. /\ CancelQueued(jobs[s]).state = "CANCELLED"
          /\ CancelQueued(jobs[s]).client.done = jobs[s].client.done + 1
      BY <1>t, <3>3 DEF CancelQueued, Job
    <3>5. ~(th.pc \in Busy /\ th.cur = s)
      BY <2>2, <2>3 DEF SlotsAreSafe, JobKeepsItsSlot, Cur, Active
    <3>6. OnlySlot(s) /\ Withdraws(s)
      BY <1>t, <2>2, <2>3, <3>1, <3>4, <3>5 DEF OnlySlot, Withdraws
    <3> QED  BY <3>6
  <2>4. CASE jobs[s].state # "QUEUED"
    <3> DEFINE c == [jobs[s] EXCEPT !.cancelled = TRUE]
               w == WithPage(c, EndPage)
    <3>1. /\ c \in Job
          /\ c.client = jobs[s].client /\ c.handle = jobs[s].handle
      BY <1>t DEF Job
    <3> HIDE DEF c
    <3>2. /\ w \in Job
          /\ w.client.done = jobs[s].client.done /\ w.handle = jobs[s].handle
      <4>1. w \in Job
        BY <3>1, EndPageType, WithPageType
      <4>2. w.client.done = c.client.done
        BY <3>1, EndPageType, WithPageDone
      <4>3. w.handle = c.handle
        BY <3>1, EndPageType, WithPageKeeps
      <4> QED  BY <3>1, <4>1, <4>2, <4>3
    <3>3. CancelRunning(jobs[s]) = [w EXCEPT !.state = "CANCEL_REQUEST"]
      BY DEF CancelRunning, c
    <3> HIDE DEF w
    <3>4. /\ CancelRunning(jobs[s]).state = "CANCEL_REQUEST"
          /\ CancelRunning(jobs[s]).client.done = jobs[s].client.done
          /\ CancelRunning(jobs[s]).handle = jobs[s].handle
      BY <3>2, <3>3 DEF Job
    <3>5. jobs' = [jobs EXCEPT ![s] = CancelRunning(jobs[s])]
      BY <2>1, <2>4
    <3>6. OnlySlot(s) /\ Stays(s)
      BY <1>t, <2>1, <2>2, <2>4, <3>4, <3>5 DEF OnlySlot, Stays, Active
    <3> QED  BY <3>6
  <2> QED  BY <2>3, <2>4
<1>4. ASSUME NEW h \in Handles, EndJob(h)
      PROVE  \E s \in Slots : OnlySlot(s) /\ Frees(s)
  <2>1. PICK s \in Slots : /\ jobs[s].state \in Final
                           /\ jobs' = [jobs EXCEPT ![s] = FreeJob(s)]
    BY <1>4 DEF EndJob
  <2>2. th' = th
    BY <1>4 DEF EndJob
  <2> QED  BY <1>f, <1>t, <2>1, <2>2 DEF OnlySlot, Frees
<1>5. CASE ExitBegin \/ ExitDrain \/ ExitQuit \/ ExitJoin
  <2>1. jobs' = jobs /\ th' = th
    BY <1>5 DEF ExitBegin, ExitDrain, ExitQuit, ExitJoin
  <2>2. 0 \in Slots
    BY WprintAssumption DEF Slots
  <2>3. OnlySlot(0) /\ Stays(0)
    BY <2>1, <2>2 DEF OnlySlot, Stays
  <2> QED  BY <2>2, <2>3
<1>6. \A last \in BOOLEAN :
        [EndPage EXCEPT !.named = TRUE, !.last = last] \in Page
  BY DEF EndPage, Page
<1> QED  BY <1>1, <1>2, <1>3, <1>4, <1>5, <1>6, EndPageType DEF Client

-----------------------------------------------------------------------------
(* The promise, step by step.                                              *)
LEMMA PromiseInit == Init => Promise!SpoolerInit
<1> SUFFICES ASSUME Init PROVE Promise!SpoolerInit
  OBVIOUS
<1>1. ASSUME NEW s \in Slots
      PROVE  jobs[s].state = "FREE" /\ jobs[s].client.done = 0
  BY DEF Init, FreeJob, Unheard
<1>2. ASSUME NEW s \in Slots
      PROVE  Phase(s) = "free"
  <2>1. jobs[s].state = "FREE" /\ jobs[s].state \notin Final
    BY <1>1 DEF Final
  <2>2. th.pc \notin Busy
    BY DEF Init, IdleThread, Busy, Held
  <2> QED  BY <2>1, <2>2 DEF Phase
<1> QED  BY <1>1, <1>2 DEF Promise!SpoolerInit

PhaseByWork ==
  \A s \in Slots :
    /\ th.pc \in Busy /\ th.cur = s => Phase(s) = "served"
    /\ ~(th.pc \in Busy /\ th.cur = s) =>
         Phase(s) = IF jobs[s].state = "FREE" THEN "free"
                    ELSE IF jobs[s].state \in Final THEN "over"
                    ELSE "queued"

LEMMA PhaseOfWork == SlotsAreSafe => PhaseByWork
<1> SUFFICES ASSUME SlotsAreSafe, NEW s \in Slots
             PROVE  /\ th.pc \in Busy /\ th.cur = s => Phase(s) = "served"
                    /\ ~(th.pc \in Busy /\ th.cur = s) =>
                         Phase(s) = IF jobs[s].state = "FREE" THEN "free"
                                    ELSE IF jobs[s].state \in Final THEN "over"
                                    ELSE "queued"
  BY DEF PhaseByWork
<1>1. CASE th.pc \in Busy /\ th.cur = s
  <2>1. jobs[s].state # "FREE" /\ jobs[s].state \notin Final
    BY <1>1 DEF SlotsAreSafe, JobKeepsItsSlot, Cur, Active, Final
  <2> QED  BY <1>1, <2>1 DEF Phase
<1>2. CASE ~(th.pc \in Busy /\ th.cur = s)
  <2>1. CASE jobs[s].state = "FREE"
    <3>1. jobs[s].state \notin Final
      BY <2>1 DEF Final
    <3> QED  BY <1>2, <2>1, <3>1 DEF Phase
  <2>2. CASE jobs[s].state \in Final
    <3>1. jobs[s].state # "FREE"
      BY <2>2 DEF Final
    <3> QED  BY <1>2, <2>2, <3>1 DEF Phase
  <2>3. CASE jobs[s].state # "FREE" /\ jobs[s].state \notin Final
    BY <1>2, <2>3 DEF Phase
  <2> QED  BY <1>2, <2>1, <2>2, <2>3
<1> QED  BY <1>1, <1>2

(* The abstract state of one slot, and what a step may do to it.           *)
Told(s) == jobs[s].client.done

LEMMA AbstractSame ==
  ASSUME \A s \in Slots : Phase(s)' = Phase(s) /\ Told(s)' = Told(s)
  PROVE  UNCHANGED Promise!svars
<1>1. [s \in Slots |-> Phase(s)]' = [s \in Slots |-> Phase(s)]
  OBVIOUS
<1>2. [s \in Slots |-> jobs[s].client.done]' = [s \in Slots |-> jobs[s].client.done]
  BY DEF Told
<1> QED  BY <1>1, <1>2 DEF Promise!svars

LEMMA AbstractOne ==
  ASSUME NEW s \in Slots,
         \A o \in Slots : o # s => Phase(o)' = Phase(o) /\ Told(o)' = Told(o),
         \/ Phase(s) = "free" /\ Phase(s)' = "queued" /\ Told(s)' = Told(s)
         \/ /\ Phase(s) = "queued" /\ Phase(s)' = "served" /\ Told(s)' = Told(s)
            /\ \A o \in Slots : Phase(o) # "served"
         \/ /\ Phase(s) \in {"queued", "served"} /\ Phase(s)' = "over"
            /\ Told(s)' = Told(s) + 1
         \/ Phase(s) = "over" /\ Phase(s)' = "free" /\ Told(s)' = 0
  PROVE  Promise!SpoolerNext
<1> DEFINE p == [o \in Slots |-> Phase(o)]
           t == [o \in Slots |-> jobs[o].client.done]
<1>1. /\ p' = [p EXCEPT ![s] = Phase(s)']
      /\ t' = [t EXCEPT ![s] = Told(s)']
      /\ p[s] = Phase(s) /\ t[s] = Told(s)
      /\ \A o \in Slots : p[o] = Phase(o)
  BY DEF Told
<1>2. Told(s)' = Told(s) => t' = t
  BY DEF Told
<1>3. ASSUME Phase(s) = "free", Phase(s)' = "queued", Told(s)' = Told(s)
      PROVE  Promise!Submit(s)
  BY <1>1, <1>2, <1>3 DEF Promise!Submit
<1>4. ASSUME Phase(s) = "queued", Phase(s)' = "served", Told(s)' = Told(s),
             \A o \in Slots : Phase(o) # "served"
      PROVE  Promise!Serve(s)
  BY <1>1, <1>2, <1>4 DEF Promise!Serve
<1>5. ASSUME Phase(s) \in {"queued", "served"}, Phase(s)' = "over",
             Told(s)' = Told(s) + 1
      PROVE  Promise!Conclude(s)
  BY <1>1, <1>5 DEF Promise!Conclude
<1>6. ASSUME Phase(s) = "over", Phase(s)' = "free", Told(s)' = 0
      PROVE  Promise!Release(s)
  BY <1>1, <1>6 DEF Promise!Release
<1> QED  BY <1>3, <1>4, <1>5, <1>6 DEF Promise!SpoolerNext

LEMMA PromiseStep ==
  ASSUME PromiseInv, SlotsAreSafe', PhaseByWork, PhaseByWork', [Next]_vars
  PROVE  [Promise!SpoolerNext]_(Promise!svars) /\ FreeIsUntold'
<1>1. ASSUME NEW s \in Slots, OnlySlot(s),
             Stays(s) \/ Submits(s) \/ Withdraws(s) \/ Frees(s)
      PROVE  [Promise!SpoolerNext]_(Promise!svars) /\ FreeIsUntold'
  <2>1. \A o \in Slots : o # s => Phase(o)' = Phase(o) /\ Told(o)' = Told(o)
    BY <1>1 DEF OnlySlot, PhaseByWork, Told
  <2>2. FreeIsUntold'
    BY <1>1 DEF OnlySlot, Stays, Submits, Withdraws, Frees, PromiseInv,
                FreeIsUntold, Active
  <2>3. CASE Stays(s)
    <3>1. Phase(s)' = Phase(s) /\ Told(s)' = Told(s)
      BY <1>1, <2>3 DEF OnlySlot, Stays, PhaseByWork, Told, Active, Final
    <3> QED  BY <2>1, <2>2, <3>1, AbstractSame
  <2>4. CASE Submits(s)
    <3>1. ~(th.pc \in Busy /\ th.cur = s)
      BY <2>4 DEF Submits, PromiseInv, SlotsAreSafe, JobKeepsItsSlot, Cur, Active
    <3>2. Phase(s) = "free" /\ Phase(s)' = "queued" /\ Told(s)' = Told(s)
      BY <1>1, <2>4, <3>1 DEF OnlySlot, Submits, PhaseByWork, Told, PromiseInv,
                              FreeIsUntold, Final
    <3> QED  BY <2>1, <2>2, <3>2, AbstractOne
  <2>5. CASE Withdraws(s)
    <3>1. Phase(s) = "queued" /\ Phase(s)' = "over" /\ Told(s)' = Told(s) + 1
      BY <1>1, <2>5 DEF OnlySlot, Withdraws, PhaseByWork, Told, Final
    <3> QED  BY <2>1, <2>2, <3>1, AbstractOne
  <2>6. CASE Frees(s)
    <3>1. ~(th.pc \in Busy /\ th.cur = s)
      BY <2>6 DEF Frees, PromiseInv, SlotsAreSafe, JobKeepsItsSlot, Cur, Active,
                  Final
    <3>2. Phase(s) = "over" /\ Phase(s)' = "free" /\ Told(s)' = 0
      BY <1>1, <2>6, <3>1 DEF OnlySlot, Frees, PhaseByWork, Told, Final
    <3> QED  BY <2>1, <2>2, <3>2, AbstractOne
  <2> QED  BY <1>1, <2>3, <2>4, <2>5, <2>6
<1>2. CASE Idles
  <2>1. \A s \in Slots : Phase(s)' = Phase(s) /\ Told(s)' = Told(s)
    BY <1>2 DEF Idles, PhaseByWork, Told
  <2>2. FreeIsUntold'
    BY <1>2 DEF Idles, PromiseInv, FreeIsUntold
  <2> QED  BY <2>1, <2>2, AbstractSame
<1>3. CASE Works
  <2>1. \A s \in Slots : Phase(s)' = Phase(s) /\ Told(s)' = Told(s)
    BY <1>3 DEF Works, OnlyCur, PhaseByWork, Told, Cur
  <2>2. Cur'.state # "FREE"
    BY <1>3 DEF Works, SlotsAreSafe, JobKeepsItsSlot, Active
  <2>3. FreeIsUntold'
    BY <1>3, <2>2 DEF Works, OnlyCur, Cur, PromiseInv, FreeIsUntold
  <2> QED  BY <2>1, <2>3, AbstractSame
<1>4. CASE TakesUp
  <2>1. PICK s \in Slots : s = th'.cur
    BY <1>4 DEF TakesUp
  <2>2. \A o \in Slots : o # s => Phase(o)' = Phase(o) /\ Told(o)' = Told(o)
    BY <1>4, <2>1 DEF TakesUp, PhaseByWork, Told
  <2>3. Phase(s) = "queued" /\ Phase(s)' = "served" /\ Told(s)' = Told(s)
    BY <1>4, <2>1 DEF TakesUp, PhaseByWork, Told, Final
  <2>4. \A o \in Slots : Phase(o) # "served"
    BY <1>4 DEF TakesUp, PhaseByWork
  <2>5. FreeIsUntold'
    BY <1>4 DEF TakesUp, PromiseInv, FreeIsUntold
  <2> QED  BY <2>2, <2>3, <2>4, <2>5, AbstractOne
<1>5. CASE Finishes
  <2>1. PICK s \in Slots : s = th.cur
    BY DEF PromiseInv, TypeOK, Thread
  <2>2. \A o \in Slots : o # s => Phase(o)' = Phase(o) /\ Told(o)' = Told(o)
    BY <1>5, <2>1 DEF Finishes, OnlyCur, PhaseByWork, Told
  <2>3. Phase(s) = "served" /\ Phase(s)' = "over" /\ Told(s)' = Told(s) + 1
    BY <1>5, <2>1 DEF Finishes, PhaseByWork, Told, Cur, Final
  <2>4. FreeIsUntold'
    BY <1>5, <2>1 DEF Finishes, OnlyCur, PromiseInv, FreeIsUntold, Final
  <2> QED  BY <2>2, <2>3, <2>4, AbstractOne
<1>6. CASE UNCHANGED vars
  <2>1. Idles \/ Works
    BY <1>6 DEF vars, Idles, Works, OnlyCur, Cur
  <2> QED  BY <1>2, <1>3, <2>1
<1> QED
  BY <1>1, <1>2, <1>3, <1>4, <1>5, <1>6, ClientPromise, JobThreadPromise,
     StatusThreadPromise DEF Next, PromiseInv

(* What the clients of the spooler see is what Spooler promises them: a    *)
(* job is served only after it was queued and while no other is, it is     *)
(* over once, and its client is told so once.                              *)
THEOREM PromiseKept ==
  ASSUME ~StartFails
  PROVE  Spec => KeepsPromise
<1>1. Init => PromiseInv
  BY TypeInit, SlotsInit DEF PromiseInv, FreeIsUntold, Init, FreeJob, Unheard
<1>2. PromiseInv /\ [Next]_vars
        => PromiseInv' /\ [Promise!SpoolerNext]_(Promise!svars)
  <2> SUFFICES ASSUME PromiseInv, [Next]_vars
               PROVE  PromiseInv' /\ [Promise!SpoolerNext]_(Promise!svars)
    OBVIOUS
  <2>1. TypeOK' /\ SlotsAreSafe'
    BY TypeStep, SlotsStep DEF PromiseInv
  <2>2. PhaseByWork
    BY PhaseOfWork DEF PromiseInv
  <2>3. PhaseByWork'
    <3>1. SlotsAreSafe' => PhaseByWork'
      BY PhaseOfWork, PTL
    <3> QED  BY <2>1, <3>1
  <2> QED  BY <2>1, <2>2, <2>3, PromiseStep DEF PromiseInv
<1> QED  BY <1>1, <1>2, PromiseInit, PTL DEF Spec, KeepsPromise, Promise!SpoolerSpec

-----------------------------------------------------------------------------
LEMMA FinalStep ==
  ASSUME TypeOK, SlotsAreSafe, [Next]_vars,
         NEW s \in Slots, jobs[s].state \in Final
  PROVE  \/ jobs'[s].state = "FREE"
         \/ /\ jobs'[s].state = jobs[s].state
            /\ jobs'[s].handle = jobs[s].handle
            /\ jobs'[s].client.done = jobs[s].client.done
<1>1. ~(th.pc \in Busy /\ th.cur = s)
  BY DEF SlotsAreSafe, JobKeepsItsSlot, Cur, Active, Final
<1>2. CASE Client
  <2>1. PICK o \in Slots : /\ OnlySlot(o)
                           /\ Stays(o) \/ Submits(o) \/ Withdraws(o) \/ Frees(o)
    BY <1>2, ClientPromise
  <2>2. CASE o # s
    BY <2>1, <2>2 DEF OnlySlot
  <2>3. CASE o = s
    BY <2>1, <2>3 DEF Stays, Submits, Withdraws, Frees, Active, Final
  <2> QED  BY <2>2, <2>3
<1>3. CASE JobThread
  BY <1>1, <1>3, JobThreadPromise DEF Idles, Works, TakesUp, Finishes, OnlyCur
<1>4. CASE StatusThread
  BY <1>1, <1>4, StatusThreadPromise DEF Idles, Works, OnlyCur
<1>5. CASE UNCHANGED vars
  BY <1>5 DEF vars
<1> QED  BY <1>2, <1>3, <1>4, <1>5 DEF Next

(* A finished job keeps its state, its handle and what its client was told *)
(* until wprintEndJob frees its slot.                                      *)
THEOREM FinalStays ==
  ASSUME ~StartFails
  PROVE  Spec => FinalIsFinal
<1>1. TypeOK /\ SlotsAreSafe /\ [Next]_vars =>
        [\A s \in Slots : jobs[s].state \in Final =>
           \/ jobs'[s].state = "FREE"
           \/ /\ jobs'[s].state = jobs[s].state
              /\ jobs'[s].handle = jobs[s].handle
              /\ jobs'[s].client.done = jobs[s].client.done]_vars
  BY FinalStep
<1> QED  BY <1>1, TypeInit, TypeStep, SlotsInit, SlotsStep, PTL
         DEF Spec, FinalIsFinal

-----------------------------------------------------------------------------
(***************************************************************************)
(* What the jobs of the spooler go through: their callbacks, their run     *)
(* messages, the end of the library, the join of the status thread, and    *)
(* the pages in the two queues of a job.                                   *)
(***************************************************************************)
(* The callbacks.  What the client of a job has heard when all came in     *)
(* order: how often JOB_DONE, and whether a page is open.                  *)
Hears(c, done, open) == ~c.bad /\ c.done = done /\ (c.open <=> open)

(* A job is in the middle of a page exactly while the job thread prints    *)
(* it.                                                                     *)
ToldInOrder(j) ==
  j.state # "FREE" => Hears(j.client, IF j.state \in Final THEN 1 ELSE 0, j.printing)

Printing(t, s) == t.pc = "print" /\ t.cur = s

CallbacksInv ==
  \A s \in Slots : /\ ToldInOrder(jobs[s])
                   /\ jobs[s].printing <=> Printing(th, s)

(* What a callback makes of the history of a client that has heard all in  *)
(* order.                                                                  *)
LEMMA TellInOrder ==
  ASSUME NEW c \in Heard, NEW open \in BOOLEAN, Hears(c, 0, open)
  PROVE  /\ Hears(Tell(c, "state"), 0, open)
         /\ open => Hears(Tell(c, "pageTotal"), 0, TRUE)
         /\ open => Hears(Tell(c, "pageInfo"), 0, FALSE)
         /\ ~open => Hears(Tell(c, "pageStart"), 0, TRUE)
         /\ ~open => Hears(Tell(c, "done"), 1, FALSE)
<1>1. ~c.bad /\ c.done = 0 /\ (c.open <=> open)
  BY DEF Hears
<1>2. ASSUME NEW what
      PROVE  Tell(c, what).done = (IF what = "done" THEN 1 ELSE 0)
  BY <1>1 DEF Tell
<1>3. ASSUME NEW what
      PROVE  Tell(c, what).open
               <=> (what = "pageStart" \/ (open /\ what # "pageInfo"))
  BY <1>1 DEF Tell
<1>4. ASSUME NEW what, what \in {"pageInfo", "pageTotal"} => open,
             what \in {"pageStart", "done"} => ~open
      PROVE  ~Tell(c, what).bad
  BY <1>1, <1>4 DEF Tell
<1> QED  BY <1>2, <1>3, <1>4 DEF Hears

(* One job has changed.                                                    *)
LEMMA CallbacksOne ==
  ASSUME TypeOK, CallbacksInv, NEW s \in Slots, NEW j \in Job,
         jobs' = [jobs EXCEPT ![s] = j],
         ToldInOrder(j), j.printing <=> Printing(th', s),
         \A o \in Slots : o # s => Printing(th', o) <=> Printing(th, o)
  PROVE  CallbacksInv'
<1>1. jobs'[s] = j /\ \A o \in Slots : o # s => jobs'[o] = jobs[o]
  BY DEF TypeOK
<1> QED  BY <1>1 DEF CallbacksInv

(* No job has changed.                                                     *)
LEMMA CallbacksSame ==
  ASSUME CallbacksInv, jobs' = jobs,
         \A o \in Slots : Printing(th', o) <=> Printing(th, o)
  PROVE  CallbacksInv'
BY DEF CallbacksInv

(* A page for a job is announced only while a page of it is printed.       *)
LEMMA WithPageCallbacks ==
  ASSUME NEW j \in Job, NEW p \in Page, ToldInOrder(j), j.state # "FREE",
         j.printing => j.state \notin Final
  PROVE  /\ ToldInOrder(WithPage(j, p))
         /\ WithPage(j, p).printing <=> j.printing
         /\ WithPage(j, p).state = j.state
<1>1. j.client \in Heard /\ j.printing \in BOOLEAN
  BY DEF Job
<1>2. j.printing => Hears(Tell(j.client, "pageTotal"), 0, TRUE)
  BY <1>1, TellInOrder DEF ToldInOrder
<1>3. /\ WithPage(j, p).printing <=> j.printing
      /\ WithPage(j, p).state = j.state
      /\ \/ WithPage(j, p).client = j.client
         \/ j.printing /\ WithPage(j, p).client = Tell(j.client, "pageTotal")
  BY DEF WithPage, Job
<1> QED  BY <1>1, <1>2, <1>3 DEF ToldInOrder, Hears

(* At the start no job has a client.                                       *)
LEMMA CallbacksInit == Init => CallbacksInv
BY DEF Init, CallbacksInv, ToldInOrder, Printing, IdleThread, FreeJob

(* The calls of a client: a new job has heard nothing; a page, or a cancel,*)
(* announces the total only within a page; a queued job that is cancelled  *)
(* hears its end.                                                          *)
LEMMA ClientCallbacks ==
  ASSUME TypeOK, SlotsAreSafe, CallbacksInv, Client
  PROVE  CallbacksInv'
<1>t. jobs \in [Slots -> Job] /\ jobs' \in [Slots -> Job]
  BY ClientType DEF TypeOK
<1>c. ASSUME NEW s \in Slots
      PROVE  /\ ToldInOrder(jobs[s])
             /\ jobs[s].printing <=> Printing(th, s)
             /\ LockFree /\ jobs[s].printing => jobs[s].state \in Active
  BY DEF CallbacksInv, Printing, SlotsAreSafe, JobKeepsItsSlot, Busy, Cur
<1>1. ASSUME NEW s \in Slots, NEW k \in JobKinds, StartJob(s, k)
      PROVE  CallbacksInv'
  <2> DEFINE j == [FreeJob(s) EXCEPT !.state = "QUEUED", !.handle = NewHandle(s),
                     !.kind = k, !.numPages = IF k.isDir THEN 0 ELSE 1]
  <2>1. CASE UNCHANGED jobs
    BY <1>1, <2>1, CallbacksSame DEF StartJob
  <2>2. CASE jobs' = [jobs EXCEPT ![s] = j]
    <3>1. jobs'[s] = j /\ j \in Job
      BY <1>t, <2>2
    <3>2. ~j.printing /\ Hears(j.client, 0, FALSE) /\ j.state = "QUEUED"
      BY DEF FreeJob, Unheard, Hears
    <3>3. jobs[s].state = "FREE" /\ LockFree /\ UNCHANGED th
      BY <1>1 DEF StartJob, NextFree, MayCall
    <3>4. ~Printing(th, s)
      BY <1>c, <3>3 DEF Active
    <3> HIDE DEF j
    <3>5. ToldInOrder(j)
      BY <3>2 DEF ToldInOrder, Hears, Final
    <3> QED  BY <2>2, <3>1, <3>2, <3>3, <3>4, <3>5, CallbacksOne
  <2> QED  BY <1>1, <2>1, <2>2 DEF StartJob
<1>2. ASSUME NEW h \in Handles, NEW p \in Page, SendPage(h, p)
      PROVE  CallbacksInv'
  <2>1. PICK s \in Slots : /\ Names(h, s)
                           /\ jobs' = [jobs EXCEPT ![s] = WithPage(jobs[s], p)]
    BY <1>2 DEF SendPage
  <2>2. LockFree /\ UNCHANGED th
    BY <1>2 DEF SendPage, MayCall
  <2>3. jobs[s].state # "FREE" /\ (jobs[s].printing => jobs[s].state \notin Final)
    BY <1>c, <2>1, <2>2 DEF Names, Active, Final
  <2>4. WithPage(jobs[s], p) \in Job
    BY <1>t, WithPageType
  <2> DEFINE j == WithPage(jobs[s], p)
  <2>5. /\ jobs[s] \in Job /\ ToldInOrder(jobs[s])
        /\ jobs[s].printing <=> Printing(th, s)
    BY <1>c, <1>t DEF CallbacksInv, TypeOK
  <2>6. ToldInOrder(j) /\ (j.printing <=> jobs[s].printing)
    BY <2>3, <2>5, WithPageCallbacks
  <2>7. jobs' = [jobs EXCEPT ![s] = j] /\ j \in Job
    BY <2>1, <2>4
  <2> HIDE DEF j
  <2>8. /\ j.printing <=> Printing(th', s)
        /\ \A o \in Slots : o # s => Printing(th', o) <=> Printing(th, o)
    BY <2>2, <2>5, <2>6
  <2> QED  BY <1>c, <1>t, <2>6, <2>7, <2>8, CallbacksOne
<1>3. ASSUME NEW h \in Handles, CancelJob(h)
      PROVE  CallbacksInv'
  <2>1. PICK s \in Slots :
          /\ jobs[s].state \in {"RUNNING", "BLOCKED", "QUEUED"}
          /\ jobs' = [jobs EXCEPT ![s] = IF jobs[s].state = "QUEUED"
                                           THEN CancelQueued(jobs[s])
                                           ELSE CancelRunning(jobs[s])]
    BY <1>3 DEF CancelJob
  <2>2. LockFree /\ UNCHANGED th
    BY <1>3 DEF CancelJob, MayCall
  <2>t. jobs[s] \in Job /\ jobs[s].client \in Heard /\ jobs[s].printing \in BOOLEAN
    BY <1>t DEF Job
  <2>h. Hears(jobs[s].client, 0, jobs[s].printing)
    BY <1>c, <2>1 DEF ToldInOrder, Final
  <2>3. CASE jobs[s].state = "QUEUED"
    <3> DEFINE j == CancelQueued(jobs[s])
    <3>1. j \in Job
      BY <1>t, CancelType
    <3>2. ~jobs[s].printing
      BY <1>c, <2>2, <2>3 DEF Active
    <3>3. /\ j.state = "CANCELLED" /\ ~j.printing
          /\ j.client = Tell(jobs[s].client, "done")
      BY <2>t, <3>2 DEF CancelQueued, Job
    <3>4. Hears(j.client, 1, FALSE)
      BY <2>t, <2>h, <3>2, <3>3, TellInOrder
    <3>5. jobs' = [jobs EXCEPT ![s] = j]
      BY <2>1, <2>3
    <3> HIDE DEF j
    <3>6. ToldInOrder(j)
      BY <3>3, <3>4 DEF ToldInOrder, Hears, Final
    <3> QED  BY <1>c, <2>2, <3>1, <3>2, <3>3, <3>5, <3>6, CallbacksOne
  <2>4. CASE jobs[s].state # "QUEUED"
    <3> DEFINE c == [jobs[s] EXCEPT !.cancelled = TRUE]
               w == WithPage(c, EndPage)
               j == CancelRunning(jobs[s])
    <3>1. j \in Job /\ c \in Job /\ w \in Job
      <4>1. j \in Job /\ c \in Job
        BY <2>t, CancelType DEF Job
      <4> HIDE DEF c
      <4> QED  BY <4>1, WithPageType, EndPageType
    <3>2. /\ c.state = jobs[s].state /\ c.client = jobs[s].client
          /\ c.printing = jobs[s].printing
      BY <2>t DEF Job
    <3>3. ToldInOrder(c) /\ c.state \notin Final \cup {"FREE"}
      BY <1>c, <2>1, <2>4, <3>2 DEF ToldInOrder, Final
    <3> HIDE DEF c
    <3>4. /\ ToldInOrder(w) /\ (w.printing <=> jobs[s].printing)
          /\ w.state \notin Final \cup {"FREE"}
      BY <3>1, <3>2, <3>3, EndPageType, WithPageCallbacks
    <3>5. j = [w EXCEPT !.state = "CANCEL_REQUEST"]
      BY DEF CancelRunning, c
    <3>6. jobs' = [jobs EXCEPT ![s] = j]
      BY <2>1, <2>4
    <3> HIDE DEF w, j
    <3>7. /\ j.state = "CANCEL_REQUEST" /\ j.client = w.client
          /\ j.printing = w.printing
      BY <3>1, <3>5 DEF Job
    <3>8. ToldInOrder(j) /\ (j.printing <=> jobs[s].printing)
      BY <3>4, <3>7 DEF ToldInOrder, Final
    <3> QED  BY <1>c, <2>2, <3>1, <3>6, <3>8, CallbacksOne
  <2> QED  BY <2>3, <2>4
<1>4. ASSUME NEW h \in Handles, EndJob(h)
      PROVE  CallbacksInv'
  <2>1. PICK s \in Slots : /\ jobs[s].state \in Final
                           /\ jobs' = [jobs EXCEPT ![s] = FreeJob(s)]
    BY <1>4 DEF EndJob
  <2>2. LockFree /\ UNCHANGED th
    BY <1>4 DEF EndJob, MayCall
  <2>3. ~Printing(th, s)
    BY <1>c, <2>1, <2>2 DEF Active, Final
  <2>4. FreeJob(s).state = "FREE" /\ ~FreeJob(s).printing
    BY DEF FreeJob
  <2> QED  BY <2>1, <2>2, <2>3, <2>4, FreeJobType, CallbacksOne DEF ToldInOrder
<1>5. CASE ExitBegin \/ ExitDrain \/ ExitQuit \/ ExitJoin
  BY <1>5, CallbacksSame DEF ExitBegin, ExitDrain, ExitQuit, ExitJoin
<1>6. \A last \in BOOLEAN :
        [EndPage EXCEPT !.named = TRUE, !.last = last] \in Page
  BY DEF EndPage, Page
<1> QED  BY <1>1, <1>2, <1>3, <1>4, <1>5, <1>6, EndPageType DEF Client

(* The status thread tells the job in work of its state, and may end it    *)
(* with the dummy page.                                                    *)
LEMMA StatusThreadCallbacks ==
  ASSUME TypeOK, SlotsAreSafe, CallbacksInv, StatusThread
  PROVE  CallbacksInv'
<1>t. Cur \in Job /\ th \in Thread /\ jobs \in [Slots -> Job]
  BY DEF TypeOK, Cur, Thread
<1>1. CASE MonitorBegin \/ MonitorHead \/ MonitorPost
  BY <1>1, CallbacksSame DEF MonitorBegin, MonitorHead, MonitorPost
<1>2. ASSUME NEW r \in Reports, MonitorPoll(r)
      PROVE  CallbacksInv'
  BY <1>2, CallbacksSame DEF MonitorPoll
<1>3. CASE MonitorApply
  <2>1. /\ th' = th /\ th.cur \in Slots
        /\ th.pc \in Busy
        /\ Cur.state \in Active \cup {"QUEUED"}
        /\ LockFree => Cur.state \in Active
    BY <1>3, <1>t DEF MonitorApply, SlotsAreSafe, MonitorWatchesItsJob,
                      JobKeepsItsSlot, Thread
  <2>2. ToldInOrder(Cur) /\ (Cur.printing <=> Printing(th, th.cur))
    BY <2>1 DEF CallbacksInv, Cur
  <2>3. CASE BecameIdle
    <3> DEFINE j == WithPage(Cur, EndPage)
    <3>1. ToldInOrder(j) /\ (j.printing <=> Cur.printing) /\ j \in Job
      BY <1>t, <2>1, <2>2, EndPageType, WithPageType, WithPageCallbacks
         DEF Active, Final
    <3>2. jobs' = [jobs EXCEPT ![th.cur] = j]
      BY <1>3, <2>3 DEF MonitorApply, UpdateCur
    <3> HIDE DEF j
    <3> QED  BY <2>1, <2>2, <3>1, <3>2, CallbacksOne
  <2>4. CASE ~BecameIdle
    <3> DEFINE j == Noted(Cur)
    <3>0. Cur.client \in Heard /\ Cur.printing \in BOOLEAN
      BY <1>t DEF Job
    <3>1. Hears(Cur.client, 0, Cur.printing)
      BY <2>1, <2>2 DEF ToldInOrder, Active, Final
    <3>2. Hears(Tell(Cur.client, "state"), 0, Cur.printing)
      BY <3>0, <3>1, TellInOrder
    <3>3. /\ j.printing = Cur.printing
          /\ j.state \in Active \cup {Cur.state}
          /\ j.client = Cur.client \/ j.client = Tell(Cur.client, "state")
      BY <1>t DEF Noted, Job, Active
    <3>4. j \in Job
      BY <1>t, NotedType
    <3>5. jobs' = [jobs EXCEPT ![th.cur] = j]
      BY <1>3, <2>4 DEF MonitorApply, UpdateCur
    <3> HIDE DEF j
    <3>6. ToldInOrder(j)
      BY <2>1, <3>1, <3>2, <3>3 DEF ToldInOrder, Active, Final
    <3> QED  BY <2>1, <2>2, <3>3, <3>4, <3>5, <3>6, CallbacksOne
  <2> QED  BY <2>3, <2>4
<1> QED  BY <1>1, <1>2, <1>3 DEF StatusThread

(* A finished page leaves two queues.                                      *)
LEMMA AfterPageQueues ==
  ASSUME TypeOK, AfterPage
  PROVE  \E pq, sq \in Seq(Page) :
           UpdateCur([Cur EXCEPT !.pageQ = pq, !.saveQ = sq])
<1>t. th \in Thread /\ Cur \in Job
  BY DEF TypeOK, Cur, Thread
<1> DEFINE saves == Cur.kind.copies > 1 /\ ~Cur.cancelled /\ th.result # "ERROR"
           saved == IF HasRoom(Cur.saveQ, MaxPagesPerJob)
                      THEN Append(Cur.saveQ, th.page) ELSE Cur.saveQ
           swaps == th.page.last /\ th.copy # Cur.kind.copies
           pq    == IF saves /\ swaps THEN saved ELSE Cur.pageQ
           sq    == IF ~saves THEN Cur.saveQ
                    ELSE IF swaps THEN << >> ELSE saved
<1>1. saved \in Seq(Page) /\ Cur.pageQ \in Seq(Page) /\ Cur.saveQ \in Seq(Page)
  BY <1>t, JobParts DEF Job, Thread
<1>2. pq \in Seq(Page) /\ sq \in Seq(Page)
  <2> HIDE DEF saved, saves, swaps
  <2> QED  BY <1>1
<1>3. UpdateCur([Cur EXCEPT !.pageQ = pq, !.saveQ = sq])
  BY DEF AfterPage
<1> QED  BY <1>2, <1>3

(* The job in hand has changed.                                            *)
LEMMA CurCallbacks ==
  ASSUME TypeOK, CallbacksInv, NEW j \in Job,
         jobs' = [jobs EXCEPT ![th.cur] = j], th'.cur = th.cur,
         j.state # "FREE", Hears(j.client, 0, j.printing),
         j.state \notin Final,
         j.printing <=> th'.pc = "print"
  PROVE  CallbacksInv'
<1>1. th.cur \in Slots
  BY DEF TypeOK, Thread
<1>2. ToldInOrder(j)
  BY DEF ToldInOrder
<1> QED  BY <1>1, <1>2, CallbacksOne DEF Printing

(* A message taken leads back to the queue, or to the start of its job.    *)
LEMMA LookupPc ==
  ASSUME TypeOK, LookupJob
  PROVE  th'.pc \in {"receive", "check", "launch"}
<1>t. th \in Thread
  BY DEF TypeOK
<1>1. \/ th' = IdleThread
      \/ \E s \in Slots, pc \in {"check", "launch"} :
           th' = [th EXCEPT !.cur = s, !.pc = pc]
  BY DEF LookupJob
<1>2. CASE th' = IdleThread
  BY <1>2 DEF IdleThread
<1>3. ASSUME NEW s \in Slots, NEW pc \in {"check", "launch"},
             th' = [th EXCEPT !.cur = s, !.pc = pc]
      PROVE  th'.pc = pc
  BY <1>t, <1>3 DEF Thread
<1> QED  BY <1>1, <1>2, <1>3

(* The job thread: one case for every step that tells the client something.*)
LEMMA JobThreadCallbacks ==
  ASSUME TypeOK, SlotsAreSafe, CallbacksInv, JobThread
  PROVE  CallbacksInv'
<1>t. /\ th \in Thread /\ Cur \in Job /\ th.cur \in Slots
      /\ jobs \in [Slots -> Job]
      /\ Cur.client \in Heard /\ Cur.printing \in BOOLEAN
  BY DEF TypeOK, Cur, Thread, Job
<1>w. ASSUME th.pc \in Busy
      PROVE  /\ Cur.state \in Active \cup {"QUEUED"}
             /\ Cur.state # "FREE" /\ Cur.state \notin Final
             /\ Hears(Cur.client, 0, Cur.printing)
             /\ Cur.printing <=> th.pc = "print"
  <2>1. Cur.state \in Active \cup {"QUEUED"}
    BY <1>w DEF SlotsAreSafe, JobKeepsItsSlot
  <2>2. Cur.state # "FREE" /\ Cur.state \notin Final
    BY <2>1 DEF Active, Final
  <2> QED  BY <1>t, <2>1, <2>2 DEF CallbacksInv, ToldInOrder, Printing, Cur
<1>n. ASSUME th.pc \in Busy, th.pc # "print"
      PROVE  /\ Hears(Tell(Cur.client, "state"), 0, FALSE)
             /\ Hears(Tell(Cur.client, "pageStart"), 0, TRUE)
             /\ Hears(Tell(Cur.client, "done"), 1, FALSE)
             /\ ~Cur.printing
  BY <1>t, <1>w, <1>n, TellInOrder
<1>1. CASE UNCHANGED jobs /\ th.pc # "print" /\ th'.pc # "print"
  BY <1>1, CallbacksSame DEF Printing
<1>2. CASE \/ ReceiveMsg \/ LookupJob \/ WakeUp \/ PrinterTooBusy \/ PrintBlank
           \/ WaitStart \/ WaitDone \/ LastTry \/ StopStatus \/ JoinStatus
           \/ \E good \in BOOLEAN : EndPrinting(good)
  <2>1. UNCHANGED jobs
    BY <1>2 DEF ReceiveMsg, LookupJob, WakeUp, PrinterTooBusy, PrintBlank,
       WaitStart, WaitDone, LastTry, StopStatus, JoinStatus, EndPrinting
  <2>2. th.pc # "print"
    BY <1>2 DEF ReceiveMsg, LookupJob, WakeUp, PrinterTooBusy, PrintBlank,
       WaitStart, WaitDone, LastTry, StopStatus, JoinStatus, EndPrinting
  <2>3. th'.pc # "print"
    <3>1. CASE WakeUp
      BY <1>t, <3>1 DEF WakeUp, Thread
    <3>7. CASE PrinterTooBusy
      BY <1>t, <3>7 DEF PrinterTooBusy, Thread
    <3>5. CASE ReceiveMsg
      BY <1>t, <3>5 DEF ReceiveMsg, Goto, Thread
    <3>6. CASE LookupJob
      BY <3>6, LookupPc
    <3>2. CASE PrintBlank \/ StopStatus \/ JoinStatus
      BY <1>t, <3>2 DEF PrintBlank, StopStatus, JoinStatus, Goto, Thread
    <3>3. CASE WaitStart \/ WaitDone \/ LastTry
      BY <1>t, <3>3 DEF WaitStart, WaitDone, LastTry, Goto, Thread
    <3>4. ASSUME NEW good \in BOOLEAN, EndPrinting(good)
          PROVE  th'.pc # "print"
      BY <1>t, <3>4 DEF EndPrinting, Thread
    <3> QED  BY <1>2, <3>1, <3>2, <3>3, <3>4, <3>5, <3>6, <3>7
  <2> QED  BY <1>1, <2>1, <2>2, <2>3
<1>3. ASSUME NEW good \in BOOLEAN, PrinterReady(good)
      PROVE  CallbacksInv'
  <2> DEFINE j == [Cur EXCEPT !.paper = @ /\ ~good]
  <2>1. /\ j \in Job /\ j.state = Cur.state
        /\ j.client = Cur.client /\ j.printing = Cur.printing
    BY <1>t DEF Job
  <2>2. /\ th.pc = "check" /\ th'.pc = "launch" /\ th'.cur = th.cur
        /\ jobs' = [jobs EXCEPT ![th.cur] = j]
    BY <1>3, <1>t DEF PrinterReady, Goto, UpdateCur, Thread
  <2> HIDE DEF j
  <2> QED  BY <1>w, <1>n, <2>1, <2>2, CurCallbacks DEF Busy, Held
<1>4. CASE PrinterGone
  <2> DEFINE j == [Cur EXCEPT !.paper = FALSE]
  <2>1. /\ j \in Job /\ j.state = Cur.state
        /\ j.client = Cur.client /\ j.printing = Cur.printing
    BY <1>t DEF Job
  <2>2. /\ th.pc = "check" /\ th'.pc = "stop" /\ th'.cur = th.cur
        /\ jobs' = [jobs EXCEPT ![th.cur] = j]
    BY <1>4, <1>t DEF PrinterGone, UpdateCur, Thread
  <2> HIDE DEF j
  <2> QED  BY <1>w, <1>n, <2>1, <2>2, CurCallbacks DEF Busy, Held
<1>5. ASSUME NEW good \in BOOLEAN, PrinterBusy(good)
      PROVE  CallbacksInv'
  <2> DEFINE j == [Cur EXCEPT !.state = "BLOCKED", !.paper = good,
                              !.client = Tell(@, "state")]
  <2>1. j \in Job
    BY <1>t, JobParts DEF Job, JobStates, Active
  <2>2. /\ j.state = "BLOCKED" /\ j.client = Tell(Cur.client, "state")
        /\ j.printing = Cur.printing
    BY <1>t DEF Job
  <2>3. /\ th.pc = "check" /\ th'.pc = "sleep" /\ th'.cur = th.cur
        /\ jobs' = [jobs EXCEPT ![th.cur] = j]
    BY <1>5, <1>t DEF PrinterBusy, Goto, UpdateCur, Thread
  <2> HIDE DEF j
  <2>4. Hears(j.client, 0, j.printing) /\ ~j.printing
    BY <1>n, <2>2, <2>3 DEF Hears, Busy, Held
  <2> QED  BY <2>1, <2>2, <2>3, <2>4, CurCallbacks DEF Final
<1>6. ASSUME NEW connects \in BOOLEAN, NEW starts \in BOOLEAN,
             Launch(connects, starts)
      PROVE  CallbacksInv'
  <2> DEFINE j == IF connects THEN [Cur EXCEPT !.client = Tell(@, "state")]
                              ELSE [Cur EXCEPT !.paper = FALSE]
  <2>1. j \in Job
    <3>1. [Cur EXCEPT !.client = Tell(@, "state")] \in Job
      BY <1>t, JobParts DEF Job
    <3>2. [Cur EXCEPT !.paper = FALSE] \in Job
      BY <1>t DEF Job
    <3> QED  BY <3>1, <3>2
  <2>2. /\ j.state = Cur.state /\ j.printing = Cur.printing
        /\ j.client \in {Cur.client, Tell(Cur.client, "state")}
    BY <1>t DEF Job
  <2>3. jobs' = [jobs EXCEPT ![th.cur] = j]
    BY <1>6 DEF Launch, UpdateCur
  <2>4. th.pc = "launch" /\ th'.pc # "print" /\ th'.cur = th.cur
    BY <1>6, <1>t DEF Launch, Thread
  <2> HIDE DEF j
  <2>5. Hears(j.client, 0, j.printing) /\ ~j.printing
    BY <1>n, <1>w, <2>2, <2>4 DEF Hears, Busy, Held
  <2> QED  BY <1>w, <2>1, <2>2, <2>3, <2>4, <2>5, CurCallbacks DEF Busy, Held
<1>7. CASE BeginCopy
  <2>1. th.pc = "copy" /\ th'.pc # "print" /\ th'.cur = th.cur
    BY <1>7, <1>t DEF BeginCopy, Goto, Thread
  <2>2. CASE UNCHANGED jobs
    BY <1>1, <2>1, <2>2
  <2>3. CASE ~UNCHANGED jobs
    <3> DEFINE j == [Cur EXCEPT !.state = "RUNNING"]
    <3>1. /\ j \in Job /\ j.state = "RUNNING"
          /\ j.client = Cur.client /\ j.printing = Cur.printing
      BY <1>t DEF Job, JobStates, Active
    <3>2. jobs' = [jobs EXCEPT ![th.cur] = j]
      BY <1>7, <2>3 DEF BeginCopy, UpdateCur
    <3> HIDE DEF j
    <3> QED  BY <1>w, <1>n, <2>1, <3>1, <3>2, CurCallbacks DEF Busy, Held, Final
  <2> QED  BY <2>2, <2>3
<1>8. CASE ReceivePage
  <2> DEFINE j == [Cur EXCEPT !.pageQ = Tail(@)]
  <2>1. j \in Job
    <3>1. Tail(Cur.pageQ) \in Seq(Page)
      BY <1>8, <1>t DEF ReceivePage, Job
    <3> QED  BY <1>t, <3>1 DEF Job
  <2>2. /\ j.state = Cur.state
        /\ j.client = Cur.client /\ j.printing = Cur.printing
    BY <1>t DEF Job
  <2>3. /\ th.pc = "recvPage" /\ th'.pc = "gotPage" /\ th'.cur = th.cur
        /\ jobs' = [jobs EXCEPT ![th.cur] = j]
    BY <1>8, <1>t DEF ReceivePage, UpdateCur, Thread
  <2> HIDE DEF j
  <2> QED  BY <1>w, <1>n, <2>1, <2>2, <2>3, CurCallbacks DEF Busy, Held
<1>9. CASE AfterPage
  <2>1. PICK pq \in Seq(Page), sq \in Seq(Page) :
          UpdateCur([Cur EXCEPT !.pageQ = pq, !.saveQ = sq])
    BY <1>9, AfterPageQueues
  <2> DEFINE j == [Cur EXCEPT !.pageQ = pq, !.saveQ = sq]
  <2>2. /\ j \in Job /\ j.state = Cur.state
        /\ j.client = Cur.client /\ j.printing = Cur.printing
    BY <1>t DEF Job
  <2>3. jobs' = [jobs EXCEPT ![th.cur] = j]
    BY <2>1 DEF UpdateCur
  <2>4. th.pc = "after" /\ th'.pc # "print" /\ th'.cur = th.cur
    BY <1>9, <1>t DEF AfterPage, Thread
  <2> HIDE DEF j
  <2> QED  BY <1>w, <1>n, <2>2, <2>3, <2>4, CurCallbacks DEF Busy, Held
<1>10. ASSUME NEW good \in BOOLEAN, TakePage(good) \/ BeginSingle(good)
       PROVE  CallbacksInv'
  <2>1. /\ th.pc \in {"gotPage", "single"} /\ th'.cur = th.cur
        /\ th'.pc # "print" => UNCHANGED jobs
    BY <1>10, <1>t DEF TakePage, BeginSingle, AfterPrint, Goto, Thread
  <2>2. CASE th'.pc # "print"
    BY <1>1, <2>1, <2>2
  <2>3. CASE th'.pc = "print"
    <3>1. PICK st \in {Cur.state, "RUNNING"} :
            jobs' = [jobs EXCEPT ![th.cur] =
                       [Cur EXCEPT !.state = st, !.pageNum = @ + 1, !.printing = TRUE,
                                   !.client = Tell(@, "pageStart")]]
      <4>1. [Cur EXCEPT !.pageNum = @ + 1, !.printing = TRUE,
                        !.client = Tell(@, "pageStart")]
            = [Cur EXCEPT !.state = Cur.state, !.pageNum = @ + 1,
                          !.printing = TRUE, !.client = Tell(@, "pageStart")]
        BY <1>t DEF Job
      <4>2. UpdateCur([Cur EXCEPT !.pageNum = @ + 1, !.printing = TRUE,
                                  !.client = Tell(@, "pageStart")])
              \/ UpdateCur([Cur EXCEPT !.state = "RUNNING", !.pageNum = @ + 1,
                                       !.printing = TRUE,
                                       !.client = Tell(@, "pageStart")])
        BY <1>10, <1>t, <2>3 DEF TakePage, BeginSingle, AfterPrint, Goto, Thread
      <4> QED  BY <4>1, <4>2 DEF UpdateCur
    <3> DEFINE j == [Cur EXCEPT !.state = st, !.pageNum = @ + 1, !.printing = TRUE,
                                !.client = Tell(@, "pageStart")]
    <3>2. j \in Job
      BY <1>t, JobParts DEF Job, JobStates, Active
    <3>3. /\ j.state = st /\ j.printing = TRUE
          /\ j.client = Tell(Cur.client, "pageStart")
      BY <1>t DEF Job
    <3>4. jobs' = [jobs EXCEPT ![th.cur] = j]
      BY <3>1
    <3> HIDE DEF j
    <3>5. Hears(j.client, 0, j.printing) /\ j.printing
      BY <1>n, <2>1, <3>3 DEF Busy, Held
    <3> QED  BY <1>w, <2>1, <2>3, <3>2, <3>3, <3>4, <3>5, CurCallbacks
             DEF Busy, Held, Final
  <2> QED  BY <2>2, <2>3
<1>11. ASSUME NEW res \in Results, PrintPage(res) \/ PrintSingle(res)
       PROVE  CallbacksInv'
  <2> DEFINE j == [Cur EXCEPT !.printing = FALSE, !.client = Tell(@, "pageInfo"),
                              !.failed = @ \/ res = "ERROR"]
  <2>1. j \in Job
    BY <1>t, JobParts DEF Job
  <2>2. /\ j.state = Cur.state /\ j.printing = FALSE
        /\ j.client = Tell(Cur.client, "pageInfo")
    BY <1>t DEF Job
  <2>3. jobs' = [jobs EXCEPT ![th.cur] = j]
    BY <1>11 DEF PrintPage, PrintSingle, Printed, UpdateCur
  <2>4. th.pc = "print" /\ th'.pc # "print" /\ th'.cur = th.cur
    BY <1>11, <1>t DEF PrintPage, PrintSingle, Thread
  <2>5. Hears(Tell(Cur.client, "pageInfo"), 0, FALSE)
    BY <1>t, <1>w, <2>4, TellInOrder DEF Busy
  <2> HIDE DEF j
  <2> QED  BY <1>w, <2>1, <2>2, <2>3, <2>4, <2>5, CurCallbacks DEF Busy
<1>12. CASE Finish
  <2> DEFINE j == [Cur EXCEPT !.state = Outcome, !.client = Tell(@, "done")]
  <2>1. Outcome \in Final
    BY DEF Outcome, Final
  <2>2. j \in Job
    BY <1>t, <2>1, JobParts DEF Job, JobStates
  <2>3. /\ j.state = Outcome /\ j.client = Tell(Cur.client, "done")
        /\ j.printing = Cur.printing
    BY <1>t DEF Job
  <2>4. th.pc = "finish" /\ th'.pc = "receive"
        /\ jobs' = [jobs EXCEPT ![th.cur] = j]
    BY <1>12 DEF Finish, UpdateCur, IdleThread
  <2> HIDE DEF j
  <2>5. ~j.printing /\ ToldInOrder(j)
    BY <1>n, <2>1, <2>3, <2>4 DEF ToldInOrder, Hears, Busy, Held
  <2> QED  BY <1>t, <2>2, <2>4, <2>5, CallbacksOne DEF Printing
<1> QED
  BY <1>2, <1>3, <1>4, <1>5, <1>6, <1>7, <1>8, <1>9, <1>10, <1>11, <1>12
  DEF JobThread

(* Every step.                                                             *)
LEMMA CallbacksStep == TypeOK /\ SlotsAreSafe /\ CallbacksInv /\ [Next]_vars => CallbacksInv'
<1>1. CallbacksInv /\ UNCHANGED vars => CallbacksInv'
  BY CallbacksSame DEF vars
<1> QED  BY <1>1, ClientCallbacks, JobThreadCallbacks, StatusThreadCallbacks DEF Next

(* Clients hear the callbacks of a job in order: JOB_DONE once and last,   *)
(* the end of a page only after its start.                                 *)
THEOREM CallbackOrder ==
  ASSUME ~StartFails
  PROVE  Spec => []CallbacksInOrder
<1>1. Spec => []CallbacksInv
  BY TypeInit, TypeStep, SlotsInit, SlotsStep, CallbacksInit, CallbacksStep, PTL DEF Spec
<1>2. TypeOK /\ CallbacksInv => CallbacksInOrder
  BY DEF CallbacksInv, CallbacksInOrder, ToldInOrder, Hears, TypeOK, Job, Heard
<1> QED  BY <1>1, <1>2, TypeCorrect, PTL

-----------------------------------------------------------------------------
(* The run messages.  A handle names its slot, and until wprintExit sends  *)
(* the quit message the queue holds nothing but run messages.              *)
HandlesFit == \A s \in Slots : jobs[s].handle.slot = s
OnlyRuns   == exit \in {"none", "drain", "quit"} =>
                \A i \in 1 .. Len(msgQ) : msgQ[i].id = "run"
WaitsInQ(h) == \E i \in 1 .. Len(msgQ) : msgQ[i] = RunMsg(h)

QueueInv == HandlesFit /\ OnlyRuns /\ QueuedJobWillRun

(* At the start no job is queued.                                          *)
LEMMA QueueInit == Init => QueueInv
BY DEF Init, QueueInv, HandlesFit, OnlyRuns, QueuedJobWillRun, FreeJob

(* What the status thread and the job thread do to handles and to the      *)
(* queue.                                                                  *)
LEMMA HandlesStay ==
  ASSUME TypeOK, JobThread \/ StatusThread
  PROVE  /\ \A s \in Slots : jobs'[s].handle = jobs[s].handle
         /\ ~ReceiveMsg => UNCHANGED msgQ
         /\ UNCHANGED exit
<1>t. Cur \in Job /\ th.cur \in Slots /\ jobs \in [Slots -> Job]
  BY DEF TypeOK, Cur, Thread
<1>j. ASSUME NEW j, UpdateCur(j) \/ UNCHANGED jobs, j.handle = Cur.handle
      PROVE  \A s \in Slots : jobs'[s].handle = jobs[s].handle
  BY <1>t, <1>j DEF UpdateCur, Cur
<1>q. (~ReceiveMsg => UNCHANGED msgQ) /\ UNCHANGED exit
  <2>1. StatusThread => UNCHANGED <<msgQ, exit>>
    BY DEF StatusThread, MonitorBegin, MonitorHead, MonitorPoll, MonitorPost, MonitorApply
  <2>2. JobThread => (~ReceiveMsg => UNCHANGED msgQ) /\ UNCHANGED exit
    BY DEF JobThread, ReceiveMsg, LookupJob, WakeUp, PrinterGone, PrinterTooBusy,
       Launch, BeginCopy, ReceivePage, PrintBlank, AfterPage, PrinterReady,
       PrinterBusy, TakePage, BeginSingle, EndPrinting, PrintPage, PrintSingle,
       WaitStart, WaitDone, LastTry, StopStatus, JoinStatus, Finish
  <2> QED  BY <2>1, <2>2
<1>1. CASE StatusThread
  <2>1. CASE UNCHANGED jobs
    BY <1>q, <2>1
  <2>2. CASE MonitorApply
    <3>1. WithPage(Cur, EndPage).handle = Cur.handle
      BY <1>t, EndPageType, WithPageKeeps
    <3>2. Noted(Cur).handle = Cur.handle
      BY <1>t DEF Noted, Job
    <3> QED  BY <1>j, <1>q, <2>2, <3>1, <3>2 DEF MonitorApply
  <2> QED  BY <1>1, <2>1, <2>2
           DEF StatusThread, MonitorBegin, MonitorHead, MonitorPoll, MonitorPost
<1>2. CASE JobThread
  <2>1. CASE UNCHANGED jobs
    BY <1>q, <2>1
  <2>2. ASSUME PrinterGone \/ \E good \in BOOLEAN : PrinterReady(good) \/ PrinterBusy(good)
        PROVE  \A s \in Slots : jobs'[s].handle = jobs[s].handle
    BY <1>j, <1>t, <2>2 DEF PrinterGone, PrinterReady, PrinterBusy, Job
  <2>3. ASSUME NEW connects \in BOOLEAN, NEW starts \in BOOLEAN,
               Launch(connects, starts)
        PROVE  \A s \in Slots : jobs'[s].handle = jobs[s].handle
    BY <1>j, <1>t, <2>3 DEF Launch, Job
  <2>4. ASSUME BeginCopy \/ ReceivePage \/ Finish
        PROVE  \A s \in Slots : jobs'[s].handle = jobs[s].handle
    BY <1>j, <1>t, <2>4 DEF BeginCopy, ReceivePage, Finish, Job
  <2>5. ASSUME AfterPage
        PROVE  \A s \in Slots : jobs'[s].handle = jobs[s].handle
    <3>1. PICK pq \in Seq(Page), sq \in Seq(Page) :
            UpdateCur([Cur EXCEPT !.pageQ = pq, !.saveQ = sq])
      BY <2>5, AfterPageQueues
    <3> QED  BY <1>j, <1>t, <3>1 DEF Job
  <2>6. ASSUME NEW good \in BOOLEAN, TakePage(good) \/ BeginSingle(good)
        PROVE  \A s \in Slots : jobs'[s].handle = jobs[s].handle
    BY <1>j, <1>t, <2>6 DEF TakePage, BeginSingle, Job
  <2>7. ASSUME NEW res \in Results, PrintPage(res) \/ PrintSingle(res)
        PROVE  \A s \in Slots : jobs'[s].handle = jobs[s].handle
    BY <1>j, <1>t, <2>7 DEF PrintPage, PrintSingle, Printed, Job
  <2> QED
    BY <1>2, <1>q, <2>1, <2>2, <2>3, <2>4, <2>5, <2>6, <2>7
    DEF JobThread, ReceiveMsg, LookupJob, WakeUp, PrinterTooBusy, PrintBlank,
        EndPrinting, WaitStart, WaitDone, LastTry, StopStatus, JoinStatus
<1> QED  BY <1>1, <1>2, <1>q

(* Nothing is queued that was not queued, and no run message is lost: the  *)
(* jobs that wait in the queue go on waiting.                              *)
LEMMA ClientQueue ==
  ASSUME TypeOK, SlotsAreSafe, QueueInv, Client
  PROVE  QueueInv'
<1>t. /\ jobs \in [Slots -> Job] /\ jobs' \in [Slots -> Job] /\ msgQ \in Seq(Message)
      /\ msgQ' \in Seq(Message)
  BY ClientType DEF TypeOK
<1>s. ASSUME exit' = exit, msgQ' = msgQ, UNCHANGED th,
             \A s \in Slots : /\ jobs'[s].handle.slot = s
                              /\ jobs'[s].state = "QUEUED" =>
                                   /\ jobs[s].state = "QUEUED"
                                   /\ jobs'[s].handle = jobs[s].handle
      PROVE  QueueInv'
  <2>1. HandlesFit' /\ OnlyRuns'
    BY <1>s DEF QueueInv, HandlesFit, OnlyRuns
  <2>2. QueuedJobWillRun'
    BY <1>s DEF QueueInv, QueuedJobWillRun
  <2> QED  BY <2>1, <2>2 DEF QueueInv
<1>o. ASSUME NEW s \in Slots, NEW j, jobs' = [jobs EXCEPT ![s] = j],
             exit' = exit, msgQ' = msgQ, UNCHANGED th,
             j.handle.slot = s,
             j.state = "QUEUED" => jobs[s].state = "QUEUED" /\ j.handle = jobs[s].handle
      PROVE  QueueInv'
  <2>1. jobs'[s] = j /\ \A o \in Slots : o # s => jobs'[o] = jobs[o]
    BY <1>o, <1>t
  <2> QED  BY <1>o, <1>s, <2>1 DEF QueueInv, HandlesFit
<1>1. ASSUME NEW s \in Slots, NEW k \in JobKinds, StartJob(s, k)
      PROVE  QueueInv'
  <2> DEFINE j == [FreeJob(s) EXCEPT !.state = "QUEUED", !.handle = NewHandle(s),
                     !.kind = k, !.numPages = IF k.isDir THEN 0 ELSE 1]
  <2>1. CASE ~HasRoom(msgQ, MaxMsgs)
    BY <1>1, <1>s, <2>1 DEF StartJob, QueueInv, HandlesFit
  <2>2. CASE HasRoom(msgQ, MaxMsgs)
    <3> DEFINE m == RunMsg(NewHandle(s))
    <3>1. /\ jobs' = [jobs EXCEPT ![s] = j] /\ msgQ' = Append(msgQ, m)
          /\ UNCHANGED <<th, exit>>
      BY <1>1, <2>2 DEF StartJob
    <3>2. jobs'[s] = j /\ \A o \in Slots : o # s => jobs'[o] = jobs[o]
      BY <1>t, <3>1
    <3>3. j.handle = NewHandle(s) /\ NewHandle(s).slot = s
      BY DEF FreeJob, NewHandle
    <3>4. NewHandle(s) \in Handles
      BY NewHandleType DEF TypeOK
    <3>5. m.id = "run" /\ m \in Message
      BY <3>4 DEF RunMsg, Message
    <3> HIDE DEF j, m
    <3>6. /\ Len(msgQ') = Len(msgQ) + 1 /\ Len(msgQ) \in Nat
          /\ msgQ'[Len(msgQ) + 1] = m
          /\ \A i \in 1 .. Len(msgQ) : msgQ'[i] = msgQ[i]
      BY <1>t, <3>1, <3>5
    <3>7. HandlesFit'
      BY <3>2, <3>3 DEF QueueInv, HandlesFit
    <3>8. OnlyRuns'
      BY <3>1, <3>5, <3>6 DEF QueueInv, OnlyRuns
    <3>9. QueuedJobWillRun'
      <4> SUFFICES ASSUME exit' = "none", NEW o \in Slots, jobs'[o].state = "QUEUED"
                   PROVE  \/ th'.pc \in Busy \cup {"lookup"} /\ th'.hand = jobs'[o].handle
                          \/ \E i \in 1 .. Len(msgQ') : msgQ'[i] = RunMsg(jobs'[o].handle)
        BY DEF QueuedJobWillRun
      <4>1. CASE o = s
        BY <3>2, <3>3, <3>6, <4>1 DEF m
      <4>2. CASE o # s
        <5>1. \/ th.pc \in Busy \cup {"lookup"} /\ th.hand = jobs[o].handle
              \/ \E i \in 1 .. Len(msgQ) : msgQ[i] = RunMsg(jobs[o].handle)
          BY <3>1, <3>2, <4>2 DEF QueueInv, QueuedJobWillRun
        <5> QED  BY <3>1, <3>2, <3>6, <4>2, <5>1
      <4> QED  BY <4>1, <4>2
    <3> QED  BY <3>7, <3>8, <3>9 DEF QueueInv
  <2> QED  BY <2>1, <2>2
<1>2. ASSUME NEW h \in Handles, NEW p \in Page, SendPage(h, p)
      PROVE  QueueInv'
  <2>1. PICK s \in Slots : jobs' = [jobs EXCEPT ![s] = WithPage(jobs[s], p)]
    BY <1>2 DEF SendPage
  <2>2. /\ WithPage(jobs[s], p).handle = jobs[s].handle
        /\ WithPage(jobs[s], p).state = jobs[s].state
    BY <1>t, WithPageKeeps
  <2> QED  BY <1>2, <1>o, <2>1, <2>2 DEF SendPage, QueueInv, HandlesFit
<1>3. ASSUME NEW h \in Handles, CancelJob(h)
      PROVE  QueueInv'
  <2>1. PICK s \in Slots :
          jobs' = [jobs EXCEPT ![s] = IF jobs[s].state = "QUEUED"
                                        THEN CancelQueued(jobs[s])
                                        ELSE CancelRunning(jobs[s])]
    BY <1>3 DEF CancelJob
  <2>2. /\ CancelQueued(jobs[s]).handle = jobs[s].handle
        /\ CancelQueued(jobs[s]).state # "QUEUED"
    BY <1>t DEF CancelQueued, Job
  <2>3. /\ CancelRunning(jobs[s]).handle = jobs[s].handle
        /\ CancelRunning(jobs[s]).state # "QUEUED"
    <3> DEFINE c == [jobs[s] EXCEPT !.cancelled = TRUE]
    <3>1. c \in Job /\ c.handle = jobs[s].handle
      <4>1. jobs[s] \in Job
        BY <1>t
      <4> QED  BY <4>1 DEF Job
    <3> HIDE DEF c
    <3>2. WithPage(c, EndPage) \in Job /\ WithPage(c, EndPage).handle = jobs[s].handle
      BY <3>1, EndPageType, WithPageType, WithPageKeeps
    <3>3. CancelRunning(jobs[s]) = [WithPage(c, EndPage) EXCEPT !.state = "CANCEL_REQUEST"]
      BY DEF CancelRunning, c
    <3> QED  BY <3>2, <3>3 DEF Job
  <2> QED  BY <1>3, <1>o, <2>1, <2>2, <2>3 DEF CancelJob, QueueInv, HandlesFit
<1>4. ASSUME NEW h \in Handles, EndJob(h)
      PROVE  QueueInv'
  <2>1. PICK s \in Slots : jobs' = [jobs EXCEPT ![s] = FreeJob(s)]
    BY <1>4 DEF EndJob
  <2>2. FreeJob(s).state = "FREE" /\ FreeJob(s).handle.slot = s
    BY DEF FreeJob
  <2> QED  BY <1>4, <1>o, <2>1, <2>2 DEF EndJob
<1>5. CASE ExitBegin \/ ExitDrain \/ ExitQuit \/ ExitJoin
  <2>1. UNCHANGED jobs /\ exit' # "none"
    BY <1>5 DEF ExitBegin, ExitDrain, ExitQuit, ExitJoin
  <2>2. HandlesFit' /\ QueuedJobWillRun'
    BY <2>1 DEF QueueInv, HandlesFit, QueuedJobWillRun
  <2>3. OnlyRuns'
    <3>1. CASE ExitBegin
      BY <3>1 DEF ExitBegin, QueueInv, OnlyRuns
    <3>2. CASE ExitDrain
      <4>1. CASE msgQ = << >>
        BY <3>2, <4>1 DEF ExitDrain, QueueInv, OnlyRuns
      <4>2. CASE msgQ # << >>
        <5>1. msgQ' = Tail(msgQ) /\ exit = "drain"
          BY <3>2, <4>2 DEF ExitDrain
        <5>2. \A i \in 1 .. Len(msgQ') : i + 1 \in 1 .. Len(msgQ) /\ msgQ'[i] = msgQ[i + 1]
          BY <1>t, <4>2, <5>1
        <5> QED  BY <5>1, <5>2 DEF QueueInv, OnlyRuns
      <4> QED  BY <4>1, <4>2
    <3>3. CASE ExitQuit \/ ExitJoin
      BY <3>3 DEF ExitQuit, ExitJoin, OnlyRuns
    <3> QED  BY <1>5, <3>1, <3>2, <3>3
  <2> QED  BY <2>2, <2>3 DEF QueueInv
<1>6. \A last \in BOOLEAN :
        [EndPage EXCEPT !.named = TRUE, !.last = last] \in Page
  BY DEF EndPage, Page
<1> QED  BY <1>1, <1>2, <1>3, <1>4, <1>5, <1>6, EndPageType DEF Client

(* The message that is received, and the job that is taken up, worked on or*)
(* finished, leave the messages of the other jobs where they were.         *)
LEMMA ThreadsQueue ==
  ASSUME TypeOK, SlotsAreSafe, SlotsAreSafe', QueueInv, JobThread \/ StatusThread
  PROVE  QueueInv'
<1>t. /\ th \in Thread /\ th.cur \in Slots /\ jobs \in [Slots -> Job]
      /\ msgQ \in Seq(Message)
  BY DEF TypeOK, Thread
<1>h. /\ \A s \in Slots : jobs'[s].handle = jobs[s].handle
      /\ ~ReceiveMsg => UNCHANGED msgQ
      /\ UNCHANGED exit
  BY HandlesStay
<1>1. HandlesFit'
  BY <1>h DEF QueueInv, HandlesFit
<1>q. ASSUME exit = "none", NEW s \in Slots, jobs[s].state = "QUEUED"
      PROVE  \/ th.pc \in Busy \cup {"lookup"} /\ th.hand = jobs[s].handle
             \/ WaitsInQ(jobs[s].handle)
  BY <1>q DEF QueueInv, QueuedJobWillRun, WaitsInQ
<1>2. CASE ReceiveMsg
  <2>1. /\ th.pc = "receive" /\ msgQ # << >> /\ msgQ' = Tail(msgQ)
        /\ UNCHANGED <<jobs, exit>>
    BY <1>2 DEF ReceiveMsg
  <2>2. /\ \A i \in 1 .. Len(msgQ') : i + 1 \in 1 .. Len(msgQ) /\ msgQ'[i] = msgQ[i + 1]
        /\ \A i \in 1 .. Len(msgQ) : i = 1 \/ (i - 1 \in 1 .. Len(msgQ') /\ msgQ'[i - 1] = msgQ[i])
        /\ Head(msgQ) = msgQ[1] /\ 1 \in 1 .. Len(msgQ)
    BY <1>t, <2>1
  <2>3. OnlyRuns'
    BY <2>1, <2>2 DEF QueueInv, OnlyRuns
  <2>4. QueuedJobWillRun'
    <3> SUFFICES ASSUME exit = "none", NEW s \in Slots, jobs[s].state = "QUEUED"
                 PROVE  \/ th'.pc \in Busy \cup {"lookup"} /\ th'.hand = jobs[s].handle
                        \/ \E i \in 1 .. Len(msgQ') : msgQ'[i] = RunMsg(jobs[s].handle)
      BY <2>1 DEF QueuedJobWillRun
    <3>1. PICK i \in 1 .. Len(msgQ) : msgQ[i] = RunMsg(jobs[s].handle)
      BY <1>q, <2>1 DEF WaitsInQ, Busy, Held
    <3>2. CASE i = 1
      <4>1. Head(msgQ).id # "quit" /\ Head(msgQ).job = jobs[s].handle
        BY <2>2, <3>1, <3>2 DEF RunMsg
      <4>2. th' = [th EXCEPT !.pc = "lookup", !.hand = Head(msgQ).job]
        BY <1>2, <4>1 DEF ReceiveMsg
      <4> QED  BY <1>t, <4>1, <4>2 DEF Thread
    <3>3. CASE i # 1
      BY <2>2, <3>1, <3>3
    <3> QED  BY <3>2, <3>3
  <2> QED  BY <1>1, <2>3, <2>4 DEF QueueInv
<1>3. CASE ~ReceiveMsg
  <2>1. OnlyRuns'
    BY <1>3, <1>h DEF QueueInv, OnlyRuns
  <2>2. ASSUME exit' = "none", NEW s \in Slots, jobs'[s].state = "QUEUED"
        PROVE  \/ th'.pc \in Busy \cup {"lookup"} /\ th'.hand = jobs'[s].handle
               \/ WaitsInQ(jobs[s].handle)
    <3>1. CASE Works
      <4>1. th'.pc \in Busy /\ th'.cur = th.cur /\ Cur'.handle = th'.hand
        BY <3>1 DEF Works, SlotsAreSafe, JobKeepsItsSlot
      <4>2. CASE s = th.cur
        BY <4>1, <4>2 DEF Cur
      <4>3. CASE s # th.cur
        <5>1. jobs'[s] = jobs[s] /\ th.pc \in Busy
          BY <3>1, <4>3 DEF Works, OnlyCur
        <5>2. th.hand # jobs[s].handle
          BY <1>t, <4>3, <5>1 DEF SlotsAreSafe, JobKeepsItsSlot, Cur, QueueInv, HandlesFit
        <5> QED  BY <1>h, <1>q, <2>2, <5>1, <5>2
      <4> QED  BY <4>2, <4>3
    <3>2. CASE Finishes
      <4>1. s # th.cur
        BY <2>2, <3>2 DEF Finishes, Final
      <4>2. jobs'[s] = jobs[s] /\ th.pc \in Busy
        BY <3>2, <4>1 DEF Finishes, OnlyCur
      <4>3. th.hand # jobs[s].handle
        BY <1>t, <4>1, <4>2 DEF SlotsAreSafe, JobKeepsItsSlot, Cur, QueueInv, HandlesFit
      <4> QED  BY <1>h, <1>q, <2>2, <4>2, <4>3
    <3>3. CASE LookupJob
      <4>1. th.pc = "lookup" /\ jobs' = jobs
        BY <3>3 DEF LookupJob
      <4>2. CASE th.hand # jobs[s].handle
        BY <1>h, <1>q, <2>2, <4>1, <4>2
      <4>3. CASE th.hand = jobs[s].handle
        <5>1. Names(th.hand, s) /\ jobs[s].state = "QUEUED"
          BY <2>2, <4>1, <4>3 DEF Names, QueueInv, HandlesFit
        <5>2. PICK o \in Slots, pc \in {"check", "launch"} :
                th' = [th EXCEPT !.cur = o, !.pc = pc]
          BY <3>3, <5>1 DEF LookupJob
        <5>3. th'.pc = pc /\ th'.hand = th.hand
          BY <1>t, <5>2 DEF Thread
        <5> QED  BY <4>1, <4>3, <5>3 DEF Busy, Held
      <4> QED  BY <4>2, <4>3
    <3>4. CASE StatusThread
      <4>1. UNCHANGED th
        BY <3>4 DEF StatusThread, MonitorBegin, MonitorHead, MonitorPoll,
                    MonitorPost, MonitorApply
      <4>2. CASE Idles
        BY <1>h, <1>q, <2>2, <4>1, <4>2 DEF Idles
      <4> QED  BY <3>1, <3>4, <4>2, StatusThreadPromise
    <3>5. CASE JobThread /\ ~LookupJob
      <4>1. th.pc \in Busy
        BY <1>3, <3>5 DEF JobThread, WakeUp, PrinterGone, PrinterTooBusy,
           Launch, BeginCopy, ReceivePage, PrintBlank, AfterPage, PrinterReady,
           PrinterBusy, TakePage, BeginSingle, EndPrinting, PrintPage, PrintSingle,
           WaitStart, WaitDone, LastTry, StopStatus, JoinStatus, Finish, Busy, Held
      <4>2. Works \/ Finishes
        BY <3>5, <4>1, JobThreadPromise DEF Idles, TakesUp
      <4> QED  BY <3>1, <3>2, <4>2
    <3> QED  BY <3>3, <3>4, <3>5
  <2>3. QueuedJobWillRun'
    BY <1>3, <1>h, <2>2 DEF QueuedJobWillRun, WaitsInQ
  <2> QED  BY <1>1, <2>1, <2>3 DEF QueueInv
<1> QED  BY <1>2, <1>3

(* Until wprintExit tosses the messages, every queued job has its run      *)
(* message in the queue or in the hand of the job thread.                  *)
THEOREM RunMessages ==
  ASSUME ~StartFails
  PROVE  Spec => []QueuedJobWillRun
<1>1. TypeOK /\ SlotsAreSafe /\ SlotsAreSafe' /\ QueueInv /\ [Next]_vars => QueueInv'
  <2>1. QueueInv /\ UNCHANGED vars => QueueInv'
    BY DEF QueueInv, HandlesFit, OnlyRuns, QueuedJobWillRun, vars
  <2> QED  BY <2>1, ClientQueue, ThreadsQueue DEF Next
<1>2. QueueInv => QueuedJobWillRun
  BY DEF QueueInv
<1> QED
  BY <1>1, <1>2, TypeInit, TypeStep, SlotsInit, SlotsStep, QueueInit, PTL DEF Spec

-----------------------------------------------------------------------------
(* The end of the library.                                                 *)
Exited == exit = "done" => th.pc = "exited" /\ msgQ = << >>

(* Nothing happens once wprintExit has returned.                           *)
LEMMA ExitedStep == TypeOK /\ Exited /\ [Next]_vars => Exited'
<1> SUFFICES ASSUME TypeOK, Exited, Next PROVE Exited'
  BY DEF Exited, vars
<1>1. CASE Client
  BY <1>1 DEF Client, Exited, StartJob, SendPage, CancelJob, EndJob, MayCall,
              ExitBegin, ExitDrain, ExitQuit, ExitJoin
<1>2. CASE JobThread \/ StatusThread
  <2>1. exit' = exit
    BY <1>2, HandlesStay
  <2>2. CASE exit = "done"
    <3>1. th.pc = "exited"
      BY <2>2 DEF Exited
    <3>2. ~JobThread
      BY <3>1 DEF JobThread, ReceiveMsg, LookupJob, WakeUp, PrinterGone, PrinterTooBusy,
         Launch, BeginCopy, ReceivePage, PrintBlank, AfterPage, PrinterReady,
         PrinterBusy, TakePage, BeginSingle, EndPrinting, PrintPage, PrintSingle,
         WaitStart, WaitDone, LastTry, StopStatus, JoinStatus, Finish
    <3>3. UNCHANGED <<th, msgQ>>
      BY <1>2, <3>2 DEF StatusThread, MonitorBegin, MonitorHead, MonitorPoll,
                        MonitorPost, MonitorApply
    <3> QED  BY <2>2, <3>3 DEF Exited
  <2> QED  BY <2>1, <2>2 DEF Exited
<1> QED  BY <1>1, <1>2 DEF Next

(* When wprintExit has returned, both threads are gone and no job is left  *)
(* between its start and its end.                                          *)
THEOREM CleanExit ==
  ASSUME ~StartFails
  PROVE  Spec => []ExitIsClean
<1>1. Init => Exited
  BY DEF Init, Exited
<1>2. SlotsAreSafe /\ Exited => ExitIsClean
  BY DEF SlotsAreSafe, OneJobAtATime, MonitorWatchesItsJob, Exited, ExitIsClean,
         Busy, Held
<1> QED
  BY <1>1, <1>2, TypeInit, TypeStep, SlotsInit, SlotsStep, ExitedStep, PTL DEF Spec

-----------------------------------------------------------------------------
(* The join of the status thread.  It has been told to stop; only when it  *)
(* begins after that has it forgotten that it was told.                    *)
StopAsked ==
  th.pc = "join" => mon.pc = "off" \/ mon.stop \/ (mon.pc # "born" /\ mon.lost)

(* Only StopStatus leads to the join, and it asks for the stop.            *)
LEMMA StopStep == TypeOK /\ StopAsked /\ [Next]_vars => StopAsked'
<1> SUFFICES ASSUME TypeOK, StopAsked, Next PROVE StopAsked'
  BY DEF StopAsked, vars
<1>t. th \in Thread /\ mon \in Monitor
  BY DEF TypeOK
<1>1. CASE Client
  BY <1>1 DEF Client, StopAsked, StartJob, SendPage, CancelJob, EndJob,
              ExitBegin, ExitDrain, ExitQuit, ExitJoin
<1>2. CASE JobThread
  <2>1. CASE StopStatus
    BY <1>t, <2>1 DEF StopStatus, StopAsked, Goto, Monitor, Thread
  <2>2. CASE ~StopStatus
    <3>1. th'.pc # "join"
      <4>1. CASE ReceiveMsg \/ PrintBlank \/ JoinStatus \/ WaitStart \/ WaitDone \/ LastTry
        BY <1>t, <4>1 DEF ReceiveMsg, PrintBlank, JoinStatus, WaitStart, WaitDone,
                          LastTry, Goto, Thread
      <4>2. CASE LookupJob
        BY <4>2, LookupPc
      <4>3. CASE WakeUp
        BY <1>t, <4>3 DEF WakeUp, Thread
      <4>4. CASE PrinterGone \/ PrinterTooBusy
        BY <1>t, <4>4 DEF PrinterGone, PrinterTooBusy, Thread
      <4>5. ASSUME NEW good \in BOOLEAN, PrinterReady(good) \/ PrinterBusy(good)
            PROVE  th'.pc # "join"
        BY <1>t, <4>5 DEF PrinterReady, PrinterBusy, Goto, Thread
      <4>6. ASSUME NEW connects \in BOOLEAN, NEW starts \in BOOLEAN,
                   Launch(connects, starts)
            PROVE  th'.pc # "join"
        BY <1>t, <4>6 DEF Launch, Thread
      <4>7. CASE BeginCopy
        BY <1>t, <4>7 DEF BeginCopy, Goto, Thread
      <4>8. CASE ReceivePage
        BY <1>t, <4>8 DEF ReceivePage, Thread
      <4>9. CASE AfterPage
        BY <1>t, <4>9 DEF AfterPage, Thread
      <4>10. ASSUME NEW good \in BOOLEAN, TakePage(good)
             PROVE  th'.pc # "join"
        BY <1>t, <4>10 DEF TakePage, AfterPrint, Goto, Thread
      <4>11. ASSUME NEW good \in BOOLEAN, BeginSingle(good)
             PROVE  th'.pc # "join"
        BY <1>t, <4>11 DEF BeginSingle, Goto, Thread
      <4>12. ASSUME NEW good \in BOOLEAN, EndPrinting(good)
             PROVE  th'.pc # "join"
        BY <1>t, <4>12 DEF EndPrinting, Thread
      <4>13. ASSUME NEW res \in Results, PrintPage(res)
             PROVE  th'.pc # "join"
        BY <1>t, <4>13 DEF PrintPage, Thread
      <4>14. ASSUME NEW res \in Results, PrintSingle(res)
             PROVE  th'.pc # "join"
        BY <1>t, <4>14 DEF PrintSingle, Thread
      <4>15. CASE Finish
        BY <4>15 DEF Finish, IdleThread
      <4> QED
        BY <1>2, <2>2, <4>1, <4>2, <4>3, <4>4, <4>5, <4>6, <4>7, <4>8, <4>9, <4>10,
           <4>11, <4>12, <4>13, <4>14, <4>15 DEF JobThread
    <3> QED  BY <3>1 DEF StopAsked
  <2> QED  BY <2>1, <2>2
<1>3. CASE StatusThread
  <2>1. UNCHANGED th
    BY <1>3 DEF StatusThread, MonitorBegin, MonitorHead, MonitorPoll,
       MonitorPost, MonitorApply
  <2>2. \/ mon'.pc = "off"
        \/ mon.pc = "born" /\ mon'.pc # "born" /\ (mon'.lost <=> mon.stop)
        \/ /\ mon.pc # "off" /\ mon'.pc # "born"
           /\ (mon'.stop <=> mon.stop) /\ (mon'.lost <=> mon.lost)
    <3>1. CASE MonitorBegin
      BY <1>t, <3>1 DEF MonitorBegin, Monitor
    <3>2. CASE MonitorHead
      BY <1>t, <3>2 DEF MonitorHead, Monitor
    <3>3. ASSUME NEW r \in Reports, MonitorPoll(r)
          PROVE  /\ mon.pc # "off" /\ mon'.pc # "born"
                 /\ (mon'.stop <=> mon.stop) /\ (mon'.lost <=> mon.lost)
      BY <1>t, <3>3 DEF MonitorPoll, Monitor
    <3>4. CASE MonitorPost
      BY <1>t, <3>4 DEF MonitorPost, Monitor
    <3>5. CASE MonitorApply
      BY <1>t, <3>5 DEF MonitorApply, NoThread, Monitor
    <3> QED  BY <1>3, <3>1, <3>2, <3>3, <3>4, <3>5 DEF StatusThread
  <2> QED  BY <2>1, <2>2 DEF StopAsked
<1> QED  BY <1>1, <1>2, <1>3 DEF Next

-----------------------------------------------------------------------------
(* The pages of a job.  The steps of the job thread are told apart by what *)
(* they do to the page queues and the page count of the job in work.       *)
Starting == {"check", "sleep", "launch"}
InHand   == {"gotPage", "print", "blank", "after"}
Copying  == {"copy", "recvPage"} \cup InHand
Ending   == {"end", "waitStart", "waitDone", "lastTry", "stop", "join", "finish"}

SameJob(j, k)    == /\ k.kind = j.kind /\ k.lastSeen = j.lastSeen
                    /\ k.numPages = j.numPages /\ k.cancelled = j.cancelled
                    /\ k.state = j.state \/ k.state \in {"RUNNING", "BLOCKED"}
SameQueues(j, k) == k.pageQ = j.pageQ /\ k.saveQ = j.saveQ
SameCount(j, k)  == k.pageNum = j.pageNum /\ k.failed = j.failed
SamePages(j, k)  == SameJob(j, k) /\ SameQueues(j, k) /\ SameCount(j, k)
SameLocals(t, u) == /\ u.copy = t.copy /\ u.result = t.result
                    /\ u.corrupted = t.corrupted /\ u.page = t.page

(* The job is not begun yet, or given up, or its pages are begun.          *)
Prepares(j, k, t, u) ==
  /\ t.pc \in Starting /\ SamePages(j, k)
  /\ \/ u.pc \in Starting /\ SameLocals(t, u)
     \/ u.pc = "stop" /\ u.result # "OK"
     \/ u.pc = (IF j.kind.isDir THEN "copy" ELSE "single") /\ SameLocals(t, u)

GoesOn(j, t) == /\ t.copy <= j.kind.copies
                /\ t.result \in {"OK", "CORRUPT"}
                /\ ~j.cancelled

BeginsCopy(j, k, t, u) ==
  /\ t.pc = "copy" /\ u.pc = "recvPage"
  /\ GoesOn(j, t) /\ SamePages(j, k) /\ SameLocals(t, u)

EndsCopies(j, k, t, u) ==
  /\ t.pc = "copy" /\ u.pc = "end"
  /\ ~GoesOn(j, t) /\ SamePages(j, k) /\ SameLocals(t, u)

Receives(j, k, t, u) ==
  /\ t.pc = "recvPage" /\ u.pc = "gotPage"
  /\ j.pageQ # << >> /\ k.pageQ = Tail(j.pageQ) /\ k.saveQ = j.saveQ
  /\ u.page = Head(j.pageQ)
  /\ SameJob(j, k) /\ SameCount(j, k)
  /\ u.copy = t.copy /\ u.result = t.result /\ u.corrupted = t.corrupted

Refuses(j, k, t, u) ==
  /\ t.pc = "gotPage" /\ u.pc = "copy"
  /\ u.copy = t.copy + 1 /\ u.result = "ERROR" /\ u.corrupted = t.corrupted
  /\ SamePages(j, k)

Skips(j, k, t, u) ==
  /\ t.pc = "gotPage" /\ u.pc \in {"blank", "after"} /\ ~t.page.named
  /\ SamePages(j, k) /\ SameLocals(t, u)

StartsPage(j, k, t, u) ==
  /\ t.pc = "gotPage" /\ u.pc = "print" /\ t.page.named
  /\ SameJob(j, k) /\ SameQueues(j, k) /\ SameLocals(t, u)
  /\ k.pageNum = j.pageNum + 1 /\ k.failed = j.failed

(* print_page of a page of a multi-page job.                               *)
Prints(j, k, t, u) ==
  /\ t.pc = "print" /\ u.pc \in {"blank", "after"} /\ j.kind.isDir
  /\ SameJob(j, k) /\ SameQueues(j, k) /\ k.pageNum = j.pageNum
  /\ k.failed <=> j.failed \/ u.result = "ERROR"
  /\ u.copy = t.copy
  /\ u.corrupted <=> t.corrupted \/ u.result = "CORRUPT"
  /\ u.result = "CANCELLED" => j.cancelled
  /\ u.page.last = t.page.last /\ u.page.named = t.page.named

Blanks(j, k, t, u) ==
  /\ t.pc = "blank" /\ u.pc = "after"
  /\ SamePages(j, k) /\ SameLocals(t, u)

Stores(j, k, t, u) ==
  LET saves == j.kind.copies > 1 /\ ~j.cancelled /\ t.result # "ERROR"
      sent  == HasRoom(j.saveQ, MaxPagesPerJob)
      saved == IF sent THEN Append(j.saveQ, t.page) ELSE j.saveQ
      swaps == t.page.last /\ t.copy # j.kind.copies
      ends  == t.page.last \/ j.cancelled
  IN  /\ t.pc = "after" /\ u.pc = (IF ends THEN "copy" ELSE "recvPage")
      /\ SameJob(j, k) /\ SameCount(j, k)
      /\ k.pageQ = IF saves /\ swaps THEN saved ELSE j.pageQ
      /\ k.saveQ = IF ~saves THEN j.saveQ ELSE IF swaps THEN << >> ELSE saved
      /\ u.copy = IF ends THEN t.copy + 1 ELSE t.copy
      /\ u.result = IF ~saves THEN t.result ELSE IF sent THEN "OK" ELSE "ERROR"
      /\ u.corrupted = t.corrupted

(* A single-page job.                                                      *)
BeginsSingle(j, k, t, u) ==
  /\ t.pc = "single" /\ u.pc = "print"
  /\ t.copy <= j.kind.copies /\ t.result = "OK" /\ ~(t.copy > 1 /\ j.kind.pdf)
  /\ SameJob(j, k) /\ SameQueues(j, k) /\ SameLocals(t, u)
  /\ k.pageNum = j.pageNum + 1 /\ k.failed = j.failed

EndsSingles(j, k, t, u) ==
  /\ t.pc = "single" /\ u.pc = "end"
  /\ SamePages(j, k) /\ u.copy = t.copy /\ u.corrupted = t.corrupted
  /\ u.result = "OK" => /\ t.result = "OK"
                        /\ ~(t.copy <= j.kind.copies /\ ~(t.copy > 1 /\ j.kind.pdf))

PrintsSingle(j, k, t, u) ==
  /\ t.pc = "print" /\ u.pc = "single" /\ ~j.kind.isDir
  /\ SameJob(j, k) /\ SameQueues(j, k) /\ k.pageNum = j.pageNum
  /\ k.failed <=> j.failed \/ u.result = "ERROR"
  /\ u.copy = t.copy + 1
  /\ u.corrupted <=> t.corrupted \/ u.result = "CORRUPT"

Ends(j, k, t, u) ==
  /\ t.pc \in Ending \ {"finish"} /\ u.pc \in Ending
  /\ SamePages(j, k) /\ u.corrupted = t.corrupted
  /\ u.result = "OK" => t.result = "OK"

(* The job is over.                                                        *)
Concludes(j, k, t) ==
  /\ t.pc = "finish"
  /\ k.kind = j.kind /\ k.lastSeen = j.lastSeen /\ k.numPages = j.numPages
  /\ k.cancelled = j.cancelled /\ SameQueues(j, k) /\ SameCount(j, k)
  /\ k.state \in Final
  /\ k.state = "COMPLETED" => ~t.corrupted /\ t.result = "OK" /\ ~j.cancelled

PageStep(j, k, t, u) ==
  \/ Prepares(j, k, t, u) \/ BeginsCopy(j, k, t, u) \/ EndsCopies(j, k, t, u)
  \/ Receives(j, k, t, u) \/ Refuses(j, k, t, u) \/ Skips(j, k, t, u)
  \/ StartsPage(j, k, t, u) \/ Prints(j, k, t, u) \/ Blanks(j, k, t, u)
  \/ Stores(j, k, t, u) \/ BeginsSingle(j, k, t, u) \/ EndsSingles(j, k, t, u)
  \/ PrintsSingle(j, k, t, u) \/ Ends(j, k, t, u)

(* What the job in work has become.                                        *)
LEMMA CurNow ==
  ASSUME TypeOK, NEW j, UpdateCur(j)
  PROVE  /\ jobs'[th.cur] = j
         /\ \A s \in Slots : s # th.cur => jobs'[s] = jobs[s]
BY DEF TypeOK, Thread, UpdateCur

(* Every step of the job thread with a job in work is one of these.        *)
LEMMA JobThreadPages ==
  ASSUME TypeOK, SlotsAreSafe, JobThread, th.pc \in Busy
  PROVE  \/ /\ th'.pc \in Busy /\ th'.cur = th.cur
            /\ PageStep(Cur, jobs'[th.cur], th, th')
         \/ /\ th' = IdleThread
            /\ Concludes(Cur, jobs'[th.cur], th)
<1>t. /\ th \in Thread /\ Cur \in Job /\ th.cur \in Slots
      /\ jobs \in [Slots -> Job] /\ jobs[th.cur] = Cur
  BY DEF TypeOK, Cur, Thread
<1> DEFINE k == jobs'[th.cur]
<1>1. CASE ReceiveMsg \/ LookupJob
  BY <1>1 DEF ReceiveMsg, LookupJob, Busy, Held
<1>2. CASE WakeUp
  <2>1. k = Cur
    BY <1>2, <1>t DEF WakeUp
  <2>2. /\ th.pc = "sleep" /\ th'.cur = th.cur
        /\ \/ th'.pc = "stop" /\ th'.result = "CANCELLED"
           \/ th'.pc = "check" /\ SameLocals(th, th')
    BY <1>2, <1>t DEF WakeUp, Thread, SameLocals
  <2> QED  BY <2>1, <2>2 DEF PageStep, Prepares, Starting, Busy, Held,
             SamePages, SameJob, SameQueues, SameCount
<1>3. CASE PrinterGone
  <2>1. k = [Cur EXCEPT !.paper = FALSE]
    BY <1>3, CurNow DEF PrinterGone
  <2>2. SamePages(Cur, k)
    BY <1>t, <2>1 DEF Job, SamePages, SameJob, SameQueues, SameCount
  <2>3. /\ th.pc = "check" /\ th'.cur = th.cur
        /\ th'.pc = "stop" /\ th'.result = "ERROR"
    BY <1>3, <1>t DEF PrinterGone, Thread
  <2> QED  BY <2>2, <2>3 DEF PageStep, Prepares, Starting, Busy, Held
<1>4. CASE PrinterTooBusy
  <2>1. SamePages(Cur, k)
    BY <1>4, <1>t DEF PrinterTooBusy, SamePages, SameJob, SameQueues, SameCount
  <2>2. /\ th.pc = "check" /\ th'.cur = th.cur
        /\ th'.pc = "stop" /\ th'.result = "ERROR"
    BY <1>4, <1>t DEF PrinterTooBusy, Thread
  <2> QED  BY <2>1, <2>2 DEF PageStep, Prepares, Starting, Busy, Held
<1>5. ASSUME NEW good \in BOOLEAN, PrinterReady(good) \/ PrinterBusy(good)
      PROVE  /\ th'.pc \in Busy /\ th'.cur = th.cur
             /\ PageStep(Cur, jobs'[th.cur], th, th')
  <2>1. \/ k = [Cur EXCEPT !.paper = @ /\ ~good]
        \/ k = [Cur EXCEPT !.state = "BLOCKED", !.paper = good,
                           !.client = Tell(@, "state")]
    BY <1>5, CurNow DEF PrinterReady, PrinterBusy
  <2>2. SamePages(Cur, k)
    BY <1>t, <2>1 DEF Job, SamePages, SameJob, SameQueues, SameCount
  <2>3. /\ th.pc = "check" /\ th'.cur = th.cur
        /\ th'.pc \in {"launch", "sleep"} /\ SameLocals(th, th')
    BY <1>5, <1>t DEF PrinterReady, PrinterBusy, Goto, Thread, SameLocals
  <2> QED  BY <2>2, <2>3 DEF PageStep, Prepares, Starting, Busy, Held
<1>6. ASSUME NEW connects \in BOOLEAN, NEW starts \in BOOLEAN,
             Launch(connects, starts)
      PROVE  /\ th'.pc \in Busy /\ th'.cur = th.cur
             /\ PageStep(Cur, jobs'[th.cur], th, th')
  <2>1. \/ k = [Cur EXCEPT !.client = Tell(@, "state")]
        \/ k = [Cur EXCEPT !.paper = FALSE]
    BY <1>6, CurNow DEF Launch
  <2>2. SamePages(Cur, k)
    BY <1>t, <2>1 DEF Job, SamePages, SameJob, SameQueues, SameCount
  <2>3. /\ th.pc = "launch" /\ th'.cur = th.cur
        /\ \/ th'.pc = "stop" /\ th'.result = "ERROR"
           \/ /\ th'.pc = (IF Cur.kind.isDir THEN "copy" ELSE "single")
              /\ SameLocals(th, th')
    BY <1>6, <1>t DEF Launch, Thread, SameLocals
  <2> QED  BY <2>2, <2>3 DEF PageStep, Prepares, Starting, Busy, Held
<1>7. CASE BeginCopy
  <2>1. CASE GoesOn(Cur, th)
    <3>1. k = [Cur EXCEPT !.state = "RUNNING"]
      BY <1>7, <2>1, CurNow DEF BeginCopy, GoesOn, AnotherCopy
    <3>2. SamePages(Cur, k)
      BY <1>t, <3>1 DEF Job, SamePages, SameJob, SameQueues, SameCount
    <3>3. /\ th.pc = "copy" /\ th'.pc = "recvPage" /\ th'.cur = th.cur
          /\ SameLocals(th, th')
      BY <1>7, <1>t, <2>1 DEF BeginCopy, GoesOn, AnotherCopy, Thread, SameLocals
    <3> QED  BY <2>1, <3>2, <3>3 DEF PageStep, BeginsCopy, Busy, Held
  <2>2. CASE ~GoesOn(Cur, th)
    <3>1. SamePages(Cur, k)
      BY <1>7, <1>t, <2>2 DEF BeginCopy, GoesOn, AnotherCopy, SamePages, SameJob,
                              SameQueues, SameCount
    <3>2. /\ th.pc = "copy" /\ th'.pc = "end" /\ th'.cur = th.cur
          /\ SameLocals(th, th')
      BY <1>7, <1>t, <2>2 DEF BeginCopy, GoesOn, AnotherCopy, Goto, Thread, SameLocals
    <3> QED  BY <2>2, <3>1, <3>2 DEF PageStep, EndsCopies, Busy, Held
  <2> QED  BY <2>1, <2>2
<1>8. CASE ReceivePage
  <2>1. k = [Cur EXCEPT !.pageQ = Tail(@)]
    BY <1>8, CurNow DEF ReceivePage
  <2>2. /\ SameJob(Cur, k) /\ SameCount(Cur, k)
        /\ k.pageQ = Tail(Cur.pageQ) /\ k.saveQ = Cur.saveQ
    BY <1>t, <2>1 DEF Job, SameJob, SameCount
  <2>3. /\ th.pc = "recvPage" /\ th'.pc = "gotPage" /\ th'.cur = th.cur
        /\ Cur.pageQ # << >> /\ th'.page = Head(Cur.pageQ)
        /\ th'.copy = th.copy /\ th'.result = th.result
        /\ th'.corrupted = th.corrupted
    BY <1>8, <1>t DEF ReceivePage, Thread
  <2> QED  BY <2>2, <2>3 DEF PageStep, Receives, Busy
<1>9. CASE AfterPage
  <2> DEFINE saves == Cur.kind.copies > 1 /\ ~Cur.cancelled /\ th.result # "ERROR"
             sent  == HasRoom(Cur.saveQ, MaxPagesPerJob)
             saved == IF sent THEN Append(Cur.saveQ, th.page) ELSE Cur.saveQ
             swaps == th.page.last /\ th.copy # Cur.kind.copies
             ends  == th.page.last \/ Cur.cancelled
             pq    == IF saves /\ swaps THEN saved ELSE Cur.pageQ
             sq    == IF ~saves THEN Cur.saveQ ELSE IF swaps THEN << >> ELSE saved
             c     == IF ends THEN th.copy + 1 ELSE th.copy
             pc    == IF ends THEN "copy" ELSE "recvPage"
             r     == IF ~saves THEN th.result ELSE IF sent THEN "OK" ELSE "ERROR"
  <2>1. /\ th.pc = "after"
        /\ th' = [th EXCEPT !.pc = pc, !.copy = c, !.page = EndPage, !.result = r]
        /\ UpdateCur([Cur EXCEPT !.pageQ = pq, !.saveQ = sq])
    BY <1>9 DEF AfterPage
  <2>2. k = [Cur EXCEPT !.pageQ = pq, !.saveQ = sq]
    BY <2>1, CurNow
  <2>3. pc \in {"copy", "recvPage"}
    OBVIOUS
  <2>4. /\ SameJob(Cur, k) /\ SameCount(Cur, k)
        /\ k.pageQ = pq /\ k.saveQ = sq
    <3> HIDE DEF pq, sq
    <3> QED  BY <1>t, <2>2 DEF Job, SameJob, SameCount
  <2>5. /\ th'.pc = pc /\ th'.copy = c /\ th'.result = r /\ th'.cur = th.cur
        /\ th'.corrupted = th.corrupted
    <3> HIDE DEF pc, c, r
    <3> QED  BY <1>t, <2>1 DEF Thread
  <2>6. Stores(Cur, k, th, th')
    BY <2>1, <2>4, <2>5 DEF Stores
  <2> QED  BY <2>3, <2>5, <2>6 DEF PageStep, Busy, Held
<1>10. ASSUME NEW good \in BOOLEAN, TakePage(good)
       PROVE  /\ th'.pc \in Busy /\ th'.cur = th.cur
              /\ PageStep(Cur, jobs'[th.cur], th, th')
  <2>1. CASE ~good
    <3>1. /\ th.pc = "gotPage" /\ th'.pc = "copy" /\ th'.cur = th.cur
          /\ th'.copy = th.copy + 1 /\ th'.result = "ERROR"
          /\ th'.corrupted = th.corrupted /\ k = Cur
      BY <1>10, <1>t, <2>1 DEF TakePage, Thread
    <3> QED  BY <3>1 DEF PageStep, Refuses, Busy, Held, SamePages, SameJob,
                         SameQueues, SameCount
  <2>2. CASE good /\ th.page.named
    <3>1. k = [Cur EXCEPT !.pageNum = @ + 1, !.printing = TRUE,
                          !.client = Tell(@, "pageStart")]
      BY <1>10, <2>2, CurNow DEF TakePage
    <3>2. /\ SameJob(Cur, k) /\ SameQueues(Cur, k)
          /\ k.pageNum = Cur.pageNum + 1 /\ k.failed = Cur.failed
      BY <1>t, <3>1 DEF Job, SameJob, SameQueues
    <3>3. /\ th.pc = "gotPage" /\ th'.pc = "print" /\ th'.cur = th.cur
          /\ SameLocals(th, th')
      BY <1>10, <1>t, <2>2 DEF TakePage, Thread, SameLocals
    <3> QED  BY <2>2, <3>2, <3>3 DEF PageStep, StartsPage, Busy
  <2>3. CASE good /\ ~th.page.named
    <3>1. k = Cur /\ th.pc = "gotPage"
      BY <1>10, <1>t, <2>3 DEF TakePage
    <3>2. /\ th'.pc \in {"blank", "after"} /\ th'.cur = th.cur
          /\ SameLocals(th, th')
      BY <1>10, <1>t, <2>3 DEF TakePage, AfterPrint, Goto, Thread, SameLocals
    <3> QED  BY <2>3, <3>1, <3>2 DEF PageStep, Skips, Busy, Held, SamePages,
                                     SameJob, SameQueues, SameCount
  <2> QED  BY <2>1, <2>2, <2>3
<1>11. ASSUME NEW res \in Results, PrintPage(res) \/ PrintSingle(res)
       PROVE  /\ th'.pc \in Busy /\ th'.cur = th.cur
              /\ PageStep(Cur, jobs'[th.cur], th, th')
  <2>1. k = [Cur EXCEPT !.printing = FALSE, !.client = Tell(@, "pageInfo"),
                        !.failed = @ \/ res = "ERROR"]
    BY <1>11, CurNow DEF PrintPage, PrintSingle, Printed
  <2>2. /\ SameJob(Cur, k) /\ SameQueues(Cur, k) /\ k.pageNum = Cur.pageNum
        /\ k.failed <=> Cur.failed \/ res = "ERROR"
    BY <1>t, <2>1 DEF Job, SameJob, SameQueues
  <2>3. CASE PrintPage(res)
    <3> DEFINE pc == IF NeedsBlank THEN "blank" ELSE "after"
    <3>0. pc \in {"blank", "after"}
      OBVIOUS
    <3>p. th.page \in Page
      BY <1>t DEF Thread
    <3>1. /\ th.pc = "print" /\ Cur.kind.isDir
          /\ res \in IF th.page.corrupted THEN {"CORRUPT"} ELSE PageResults
          /\ th' = [th EXCEPT !.pc = pc, !.result = res,
                              !.corrupted = @ \/ res = "CORRUPT",
                              !.page = [th.page EXCEPT !.corrupted = res = "CORRUPT"]]
      BY <2>3 DEF PrintPage
    <3> HIDE DEF pc
    <3>2. /\ th'.pc = pc /\ th'.cur = th.cur /\ th'.copy = th.copy
          /\ th'.result = res
          /\ th'.page = [th.page EXCEPT !.corrupted = res = "CORRUPT"]
      BY <1>t, <3>1 DEF Thread
    <3>3. th'.corrupted <=> th.corrupted \/ res = "CORRUPT"
      BY <1>t, <3>1 DEF Thread
    <3>4. th'.page.last = th.page.last /\ th'.page.named = th.page.named
      BY <3>p, <3>2 DEF Page
    <3>5. res = "CANCELLED" => Cur.cancelled
      BY <3>1 DEF PageResults
    <3> QED  BY <2>2, <3>0, <3>1, <3>2, <3>3, <3>4, <3>5
             DEF PageStep, Prints, Busy, Held
  <2>4. CASE PrintSingle(res)
    <3>1. /\ th.pc = "print" /\ ~Cur.kind.isDir
          /\ th' = [th EXCEPT !.pc = "single", !.copy = @ + 1, !.result = res,
                              !.corrupted = @ \/ res = "CORRUPT"]
      BY <2>4 DEF PrintSingle
    <3>2. /\ th'.pc = "single" /\ th'.cur = th.cur /\ th'.copy = th.copy + 1
          /\ th'.result = res
      BY <1>t, <3>1 DEF Thread
    <3>3. th'.corrupted <=> th.corrupted \/ res = "CORRUPT"
      BY <1>t, <3>1 DEF Thread
    <3> QED  BY <2>2, <3>1, <3>2, <3>3 DEF PageStep, PrintsSingle, Busy, Held
  <2> QED  BY <1>11, <2>3, <2>4
<1>12. CASE PrintBlank
  <2>1. /\ th.pc = "blank" /\ th'.pc = "after" /\ th'.cur = th.cur
        /\ SameLocals(th, th') /\ k = Cur
    BY <1>12, <1>t DEF PrintBlank, Goto, Thread, SameLocals
  <2> QED  BY <2>1 DEF PageStep, Blanks, Busy, Held, SamePages, SameJob,
                       SameQueues, SameCount
<1>13. ASSUME NEW good \in BOOLEAN, BeginSingle(good)
       PROVE  /\ th'.pc \in Busy /\ th'.cur = th.cur
              /\ PageStep(Cur, jobs'[th.cur], th, th')
  <2>1. CASE AnotherSingle /\ good
    <3>1. k = [Cur EXCEPT !.state = "RUNNING", !.pageNum = @ + 1,
                          !.printing = TRUE, !.client = Tell(@, "pageStart")]
      BY <1>13, <2>1, CurNow DEF BeginSingle
    <3>2. /\ SameJob(Cur, k) /\ SameQueues(Cur, k)
          /\ k.pageNum = Cur.pageNum + 1 /\ k.failed = Cur.failed
      BY <1>t, <3>1 DEF Job, SameJob, SameQueues
    <3>3. /\ th.pc = "single" /\ th'.pc = "print" /\ th'.cur = th.cur
          /\ SameLocals(th, th')
      BY <1>13, <1>t, <2>1 DEF BeginSingle, Goto, Thread, SameLocals
    <3> QED  BY <2>1, <3>2, <3>3
             DEF PageStep, BeginsSingle, Busy, AnotherSingle, AnotherCopy
  <2>2. CASE ~(AnotherSingle /\ good)
    <3>1. k = Cur /\ th.pc = "single"
      BY <1>13, <1>t, <2>2 DEF BeginSingle
    <3>2. /\ th'.pc = "end" /\ th'.cur = th.cur /\ th'.copy = th.copy
          /\ th'.corrupted = th.corrupted
          /\ th'.result = "OK" => ~AnotherSingle /\ th.result = "OK"
      BY <1>13, <1>t, <2>2 DEF BeginSingle, Goto, Thread
    <3> QED  BY <3>1, <3>2 DEF PageStep, EndsSingles, Busy, Held, SamePages,
                SameJob, SameQueues, SameCount, AnotherSingle, AnotherCopy
  <2> QED  BY <2>1, <2>2
<1>14. ASSUME NEW good \in BOOLEAN, EndPrinting(good)
       PROVE  /\ th'.pc \in Busy /\ th'.cur = th.cur
              /\ PageStep(Cur, jobs'[th.cur], th, th')
  <2>1. /\ th.pc = "end" /\ th'.pc \in {"waitStart", "stop"} /\ th'.cur = th.cur
        /\ th'.corrupted = th.corrupted /\ k = Cur
        /\ th'.result = "OK" => th.result = "OK"
    BY <1>14, <1>t DEF EndPrinting, Thread
  <2> QED  BY <2>1 DEF PageStep, Ends, Ending, Busy, Held, SamePages, SameJob,
                       SameQueues, SameCount
<1>15. CASE WaitStart \/ WaitDone \/ LastTry \/ StopStatus \/ JoinStatus
  <2>1. k = Cur /\ th.pc \in Ending \ {"finish"}
    BY <1>15, <1>t DEF WaitStart, WaitDone, LastTry, StopStatus, JoinStatus, Ending
  <2>2. \E pc \in Ending : th' = [th EXCEPT !.pc = pc]
    BY <1>15 DEF WaitStart, WaitDone, LastTry, StopStatus, JoinStatus, Goto, Ending
  <2>3. /\ th'.pc \in Ending /\ th'.cur = th.cur /\ th'.result = th.result
        /\ th'.corrupted = th.corrupted
    BY <1>t, <2>2 DEF Thread
  <2> QED  BY <2>1, <2>3 DEF PageStep, Ends, Ending, Busy, Held, SamePages,
                             SameJob, SameQueues, SameCount
<1>16. CASE Finish
  <2>1. k = [Cur EXCEPT !.state = Outcome, !.client = Tell(@, "done")]
    BY <1>16, CurNow DEF Finish
  <2>2. /\ SameQueues(Cur, k) /\ SameCount(Cur, k) /\ k.state = Outcome
        /\ k.kind = Cur.kind /\ k.lastSeen = Cur.lastSeen
        /\ k.numPages = Cur.numPages /\ k.cancelled = Cur.cancelled
    BY <1>t, <2>1 DEF Job, SameQueues, SameCount
  <2>3. /\ Outcome \in Final
        /\ Outcome = "COMPLETED" => ~th.corrupted /\ th.result = "OK" /\ ~Cur.cancelled
    BY DEF Outcome, Final
  <2> QED  BY <1>16, <2>2, <2>3 DEF Finish, Concludes
<1> QED
  BY <1>1, <1>2, <1>3, <1>4, <1>5, <1>6, <1>7, <1>8, <1>9, <1>10, <1>11, <1>12,
     <1>13, <1>14, <1>15, <1>16 DEF JobThread

(* The other steps: a client or the status thread hands a page in, cancels *)
(* a job or notes its state.                                               *)
GivenPage(j, k, p) ==
  /\ p \in Page /\ (p.named \/ p.last) /\ (p.named => j.numPages < MaxPages)
  /\ TakesPages(j)
  /\ k.lastSeen = p.last
  /\ k.pageQ = IF HasRoom(j.pageQ, MaxPagesPerJob) THEN Append(j.pageQ, p) ELSE j.pageQ
  /\ k.numPages = IF HasRoom(j.pageQ, MaxPagesPerJob) /\ p.named
                    THEN j.numPages + 1 ELSE j.numPages

Gains(j, k) ==
  /\ k.kind = j.kind /\ k.saveQ = j.saveQ /\ SameCount(j, k)
  /\ \/ k.pageQ = j.pageQ /\ k.lastSeen = j.lastSeen /\ k.numPages = j.numPages
     \/ \E p \in Page : GivenPage(j, k, p)

Turns(j, k) ==
  /\ k.state \in {"QUEUED", "FREE"} \/ j.state = "FREE" => k.state = j.state
  /\ k.state = "COMPLETED" => j.state = "COMPLETED" /\ k.cancelled = j.cancelled
  /\ k.state = "CANCEL_REQUEST" /\ k.kind.isDir
       => j.state = "CANCEL_REQUEST" \/ k.lastSeen
  /\ j.cancelled => k.cancelled

Renewed(k) ==
  /\ k.pageQ = << >> /\ k.saveQ = << >> /\ ~k.lastSeen /\ k.pageNum = 0 /\ ~k.failed
  /\ k.state \in {"FREE", "QUEUED"}
  /\ k.numPages = IF k.state = "QUEUED" /\ ~k.kind.isDir THEN 1 ELSE 0

(* A page handed in is a gain.                                             *)
LEMMA WithPageGains ==
  ASSUME NEW j \in Job, NEW p \in Page, p.named \/ p.last,
         p.named => j.numPages < MaxPages
  PROVE  /\ Gains(j, WithPage(j, p))
         /\ Turns(j, WithPage(j, p))
         /\ p.last /\ j.kind.isDir => WithPage(j, p).lastSeen
<1> DEFINE k == WithPage(j, p)
<1>1. /\ k.kind = j.kind /\ k.saveQ = j.saveQ /\ SameCount(j, k)
      /\ k.state = j.state /\ k.cancelled = j.cancelled
  BY DEF WithPage, Job, SameCount
<1>2. CASE ~TakesPages(j)
  <2>1. k = j
    BY <1>2 DEF WithPage
  <2> QED  BY <1>1, <1>2, <2>1 DEF Gains, Turns, TakesPages
<1>3. CASE TakesPages(j)
  <2>1. GivenPage(j, k, p)
    BY <1>3 DEF WithPage, GivenPage, Job
  <2> QED  BY <1>1, <2>1 DEF Gains, Turns, GivenPage
<1> QED  BY <1>2, <1>3

(* The client and the status thread give, cancel, note and renew; the job in*)
(* work is not renewed.                                                    *)
LEMMA OutsidePages ==
  ASSUME TypeOK, SlotsAreSafe, Client \/ StatusThread
  PROVE  /\ UNCHANGED th
         /\ \A s \in Slots :
              \/ Gains(jobs[s], jobs'[s]) /\ Turns(jobs[s], jobs'[s])
              \/ ~(th.pc \in Busy /\ th.cur = s) /\ Renewed(jobs'[s])
<1>t. /\ jobs \in [Slots -> Job] /\ th.cur \in Slots /\ Cur \in Job
      /\ jobs[th.cur] = Cur
  BY DEF TypeOK, Thread, Cur
<1>c. ASSUME NEW s \in Slots, LockFree, th.pc \in Busy /\ th.cur = s
      PROVE  jobs[s].state \in Active
  BY <1>c DEF SlotsAreSafe, JobKeepsItsSlot, Cur
<1>r. ASSUME NEW s \in Slots
      PROVE  Gains(jobs[s], jobs[s]) /\ Turns(jobs[s], jobs[s])
  BY DEF Gains, Turns, SameCount
<1>o. ASSUME NEW s \in Slots, NEW j, UNCHANGED th,
             jobs' = [jobs EXCEPT ![s] = j] \/ jobs' = jobs,
             \/ Gains(jobs[s], j) /\ Turns(jobs[s], j)
             \/ ~(th.pc \in Busy /\ th.cur = s) /\ Renewed(j)
      PROVE  /\ UNCHANGED th
             /\ \A o \in Slots :
                  \/ Gains(jobs[o], jobs'[o]) /\ Turns(jobs[o], jobs'[o])
                  \/ ~(th.pc \in Busy /\ th.cur = o) /\ Renewed(jobs'[o])
  <2>1. CASE jobs' = jobs
    BY <1>o, <1>r, <2>1
  <2>2. CASE jobs' = [jobs EXCEPT ![s] = j]
    <3>1. jobs'[s] = j /\ \A o \in Slots : o # s => jobs'[o] = jobs[o]
      BY <1>t, <2>2
    <3> QED  BY <1>o, <1>r, <3>1
  <2> QED  BY <1>o, <2>1, <2>2
<1>1. ASSUME NEW s \in Slots, NEW k \in JobKinds, StartJob(s, k)
      PROVE  /\ UNCHANGED th
             /\ \A o \in Slots :
                  \/ Gains(jobs[o], jobs'[o]) /\ Turns(jobs[o], jobs'[o])
                  \/ ~(th.pc \in Busy /\ th.cur = o) /\ Renewed(jobs'[o])
  <2> DEFINE j == [FreeJob(s) EXCEPT !.state = "QUEUED", !.handle = NewHandle(s),
                     !.kind = k, !.numPages = IF k.isDir THEN 0 ELSE 1]
  <2>1. Renewed(j)
    BY DEF Renewed, FreeJob
  <2>2. jobs[s].state = "FREE" /\ LockFree /\ UNCHANGED th
    BY <1>1 DEF StartJob, NextFree, MayCall
  <2>3. ~(th.pc \in Busy /\ th.cur = s)
    BY <1>c, <2>2 DEF Active
  <2>4. jobs' = [jobs EXCEPT ![s] = j] \/ jobs' = jobs
    BY <1>1 DEF StartJob
  <2> HIDE DEF j
  <2> QED  BY <1>o, <2>1, <2>2, <2>3, <2>4
<1>2. ASSUME NEW h \in Handles, NEW p \in Page, p.named \/ p.last, SendPage(h, p)
      PROVE  /\ UNCHANGED th
             /\ \A o \in Slots :
                  \/ Gains(jobs[o], jobs'[o]) /\ Turns(jobs[o], jobs'[o])
                  \/ ~(th.pc \in Busy /\ th.cur = o) /\ Renewed(jobs'[o])
  <2>1. PICK s \in Slots : /\ p.named => jobs[s].numPages < MaxPages
                           /\ jobs' = [jobs EXCEPT ![s] = WithPage(jobs[s], p)]
    BY <1>2 DEF SendPage
  <2>2. UNCHANGED th
    BY <1>2 DEF SendPage
  <2>3. /\ Gains(jobs[s], WithPage(jobs[s], p))
        /\ Turns(jobs[s], WithPage(jobs[s], p))
    BY <1>t, <1>2, <2>1, WithPageGains
  <2> QED  BY <1>o, <2>1, <2>2, <2>3
<1>3. ASSUME NEW h \in Handles, CancelJob(h)
      PROVE  /\ UNCHANGED th
             /\ \A o \in Slots :
                  \/ Gains(jobs[o], jobs'[o]) /\ Turns(jobs[o], jobs'[o])
                  \/ ~(th.pc \in Busy /\ th.cur = o) /\ Renewed(jobs'[o])
  <2>1. PICK s \in Slots :
          /\ jobs[s].state \in {"RUNNING", "BLOCKED", "QUEUED"}
          /\ jobs' = [jobs EXCEPT ![s] = IF jobs[s].state = "QUEUED"
                                           THEN CancelQueued(jobs[s])
                                           ELSE CancelRunning(jobs[s])]
    BY <1>3 DEF CancelJob
  <2>t. jobs[s] \in Job /\ UNCHANGED th
    BY <1>3, <1>t DEF CancelJob
  <2>2. /\ Gains(jobs[s], CancelQueued(jobs[s]))
        /\ Turns(jobs[s], CancelQueued(jobs[s]))
    BY <2>1, <2>t DEF CancelQueued, Job, Gains, Turns, SameCount
  <2>3. /\ Gains(jobs[s], CancelRunning(jobs[s]))
        /\ Turns(jobs[s], CancelRunning(jobs[s]))
    <3> DEFINE c == [jobs[s] EXCEPT !.cancelled = TRUE]
               w == WithPage(c, EndPage)
               k == CancelRunning(jobs[s])
    <3>1. /\ c \in Job /\ c.cancelled = TRUE
          /\ c.kind = jobs[s].kind /\ SameQueues(jobs[s], c) /\ SameCount(jobs[s], c)
          /\ c.lastSeen = jobs[s].lastSeen /\ c.numPages = jobs[s].numPages
      BY <2>t DEF Job, SameQueues, SameCount
    <3> HIDE DEF c
    <3>2. EndPage.last /\ ~EndPage.named
      BY DEF EndPage
    <3>3. w \in Job /\ Gains(c, w) /\ (c.kind.isDir => w.lastSeen) /\ w.cancelled
      BY <3>1, <3>2, EndPageType, WithPageType, WithPageGains DEF Turns
    <3>4. k = [w EXCEPT !.state = "CANCEL_REQUEST"]
      BY DEF CancelRunning, c
    <3> HIDE DEF w, k
    <3>5. /\ k.kind = w.kind /\ SameQueues(w, k) /\ SameCount(w, k)
          /\ k.lastSeen = w.lastSeen /\ k.numPages = w.numPages
          /\ k.state = "CANCEL_REQUEST" /\ k.cancelled = w.cancelled
      BY <3>3, <3>4 DEF Job, SameQueues, SameCount
    <3>6. Gains(jobs[s], k)
      BY <3>1, <3>3, <3>5 DEF Gains, SameQueues, SameCount, GivenPage, TakesPages
    <3>7. Turns(jobs[s], k)
      BY <2>1, <3>1, <3>3, <3>5 DEF Turns, Gains
    <3> QED  BY <3>6, <3>7 DEF k
  <2> QED  BY <1>o, <2>1, <2>t, <2>2, <2>3
<1>4. ASSUME NEW h \in Handles, EndJob(h)
      PROVE  /\ UNCHANGED th
             /\ \A o \in Slots :
                  \/ Gains(jobs[o], jobs'[o]) /\ Turns(jobs[o], jobs'[o])
                  \/ ~(th.pc \in Busy /\ th.cur = o) /\ Renewed(jobs'[o])
  <2>1. PICK s \in Slots : /\ jobs[s].state \in Final
                           /\ jobs' = [jobs EXCEPT ![s] = FreeJob(s)]
    BY <1>4 DEF EndJob
  <2>2. LockFree /\ UNCHANGED th
    BY <1>4 DEF EndJob, MayCall
  <2>3. ~(th.pc \in Busy /\ th.cur = s)
    BY <1>c, <2>1, <2>2 DEF Active, Final
  <2>4. Renewed(FreeJob(s))
    BY DEF Renewed, FreeJob
  <2> QED  BY <1>o, <2>1, <2>2, <2>3, <2>4
<1>5. ASSUME UNCHANGED <<jobs, th>>
      PROVE  /\ UNCHANGED th
             /\ \A o \in Slots :
                  \/ Gains(jobs[o], jobs'[o]) /\ Turns(jobs[o], jobs'[o])
                  \/ ~(th.pc \in Busy /\ th.cur = o) /\ Renewed(jobs'[o])
  BY <1>5, <1>r
<1>6. CASE Client
  <2>1. \A last \in BOOLEAN :
          /\ [EndPage EXCEPT !.named = TRUE, !.last = last] \in Page
          /\ [EndPage EXCEPT !.named = TRUE, !.last = last].named
    BY DEF EndPage, Page
  <2>2. EndPage.last
    BY DEF EndPage
  <2> QED  BY <1>1, <1>2, <1>3, <1>4, <1>5, <1>6, <2>1, <2>2, EndPageType
           DEF Client, ExitBegin, ExitDrain, ExitQuit, ExitJoin
<1>7. CASE MonitorApply
  <2>1. UNCHANGED th /\ th.pc \in Busy /\ Cur.state \in Active \cup {"QUEUED"}
    BY <1>7 DEF MonitorApply, SlotsAreSafe, MonitorWatchesItsJob, JobKeepsItsSlot
  <2>2. EndPage.last /\ ~EndPage.named
    BY DEF EndPage
  <2>3. CASE BecameIdle
    <3>1. jobs' = [jobs EXCEPT ![th.cur] = WithPage(Cur, EndPage)]
      BY <1>7, <2>3 DEF MonitorApply, UpdateCur
    <3>2. Gains(Cur, WithPage(Cur, EndPage)) /\ Turns(Cur, WithPage(Cur, EndPage))
      BY <1>t, <2>2, EndPageType, WithPageGains
    <3> QED  BY <1>o, <1>t, <2>1, <3>1, <3>2
  <2>4. CASE ~BecameIdle
    <3>1. jobs' = [jobs EXCEPT ![th.cur] = Noted(Cur)]
      BY <1>7, <2>4 DEF MonitorApply, UpdateCur
    <3>2. Gains(Cur, Noted(Cur))
      BY <1>t DEF Noted, Job, Gains, SameCount
    <3>3. /\ Noted(Cur).state \in {Cur.state, "RUNNING", "BLOCKED"}
          /\ Noted(Cur).kind = Cur.kind
          /\ Cur.cancelled => Noted(Cur).cancelled
      BY <1>t DEF Noted, Job
    <3>4. Turns(Cur, Noted(Cur))
      BY <2>1, <3>3 DEF Turns, Active
    <3> QED  BY <1>o, <1>t, <2>1, <3>1, <3>2, <3>4
  <2> QED  BY <2>3, <2>4
<1>8. CASE StatusThread
  BY <1>5, <1>7, <1>8 DEF StatusThread, MonitorBegin, MonitorHead, MonitorPoll,
                          MonitorPost
<1> QED  BY <1>6, <1>8

-----------------------------------------------------------------------------
(* Queues of pages.  A last page ends its queue; only a last page may have *)
(* no name, so that all but at most one of the pages are to be printed.    *)
NoLast(q)    == \A i \in 1 .. Len(q) : ~q[i].last
LastAtEnd(q) == \A i \in 1 .. Len(q) : q[i].last => i = Len(q)
EndsIt(q)    == q # << >> /\ q[Len(q)].last
OnlyEnds(q)  == \A i \in 1 .. Len(q) : q[i].named \/ q[i].last
Named(q)     == IF q # << >> /\ ~q[Len(q)].named THEN Len(q) - 1 ELSE Len(q)
Counts(p)    == IF p.named THEN 1 ELSE 0

(* The pages of a queue without its first page, and with one page more.    *)
LEMMA TailElements ==
  ASSUME NEW q \in Seq(Page), q # << >>
  PROVE  /\ Tail(q) \in Seq(Page) /\ Len(q) \in Nat \ {0}
         /\ Len(Tail(q)) = Len(q) - 1
         /\ \A i \in 1 .. Len(Tail(q)) : i + 1 \in 1 .. Len(q) /\ Tail(q)[i] = q[i + 1]
         /\ Head(q) = q[1] /\ q[1] \in Page
         /\ Tail(q) = << >> <=> Len(q) = 1
<1>1. Len(q) \in Nat \ {0} /\ \A i \in 1 .. Len(q) : q[i] \in Page
  OBVIOUS
<1>2. Tail(q) \in Seq(Page) /\ Len(Tail(q)) = Len(q) - 1
  OBVIOUS
<1>3. \A i \in 1 .. Len(Tail(q)) : i + 1 \in 1 .. Len(q) /\ Tail(q)[i] = q[i + 1]
  BY <1>1, <1>2
<1>4. Head(q) = q[1] /\ q[1] \in Page
  BY <1>1
<1>5. Tail(q) = << >> <=> Len(q) = 1
  <2>1. ASSUME NEW r \in Seq(Page) PROVE r = << >> <=> Len(r) = 0
    OBVIOUS
  <2> DEFINE r == Tail(q)
  <2>2. r \in Seq(Page) /\ Len(r) = Len(q) - 1
    BY <1>2
  <2> HIDE DEF r
  <2>3. r = << >> <=> Len(q) = 1
    BY <1>1, <2>1, <2>2
  <2> QED  BY <2>3 DEF r
<1> QED  BY <1>1, <1>2, <1>3, <1>4, <1>5

LEMMA AppendElements ==
  ASSUME NEW q \in Seq(Page), NEW p \in Page
  PROVE  /\ Append(q, p) \in Seq(Page) /\ Append(q, p) # << >>
         /\ Len(q) \in Nat /\ Len(Append(q, p)) = Len(q) + 1
         /\ \A i \in 1 .. Len(q) : Append(q, p)[i] = q[i]
         /\ Append(q, p)[Len(q) + 1] = p
         /\ \A i \in 1 .. (Len(q) + 1) : i \in 1 .. Len(q) \/ i = Len(q) + 1
<1>1. Len(q) \in Nat /\ Append(q, p) \in Seq(Page) /\ Len(Append(q, p)) = Len(q) + 1
  OBVIOUS
<1>2. Append(q, p) # << >>
  BY <1>1
<1>3. \A i \in 1 .. Len(q) : Append(q, p)[i] = q[i]
  OBVIOUS
<1>4. Append(q, p)[Len(q) + 1] = p
  OBVIOUS
<1>5. \A i \in 1 .. (Len(q) + 1) : i \in 1 .. Len(q) \/ i = Len(q) + 1
  BY <1>1
<1> QED  BY <1>1, <1>2, <1>3, <1>4, <1>5

(* An empty queue.                                                         *)
LEMMA EmptyPages ==
  /\ NoLast(<< >>) /\ LastAtEnd(<< >>) /\ OnlyEnds(<< >>)
  /\ ~EndsIt(<< >>) /\ Named(<< >>) = 0 /\ Len(<< >>) = 0
BY DEF NoLast, LastAtEnd, OnlyEnds, EndsIt, Named

(* What msgQReceive leaves of such a queue.                                *)
LEMMA TailPages ==
  ASSUME NEW q \in Seq(Page), q # << >>, LastAtEnd(q)
  PROVE  /\ LastAtEnd(Tail(q))
         /\ NoLast(q) => NoLast(Tail(q)) /\ ~Head(q).last
         /\ Head(q).last => Tail(q) = << >>
         /\ EndsIt(q) /\ ~Head(q).last => EndsIt(Tail(q))
         /\ OnlyEnds(q) => /\ OnlyEnds(Tail(q))
                           /\ Head(q).named \/ Head(q).last
                           /\ Named(q) = Named(Tail(q)) + Counts(Head(q))
<1> DEFINE r == Tail(q)
<1>1. /\ r \in Seq(Page) /\ Len(q) \in Nat \ {0} /\ Len(r) = Len(q) - 1
      /\ \A i \in 1 .. Len(r) : i + 1 \in 1 .. Len(q) /\ r[i] = q[i + 1]
      /\ Head(q) = q[1] /\ q[1] \in Page
      /\ r = << >> <=> Len(q) = 1
  BY TailElements
<1> HIDE DEF r
<1>2. LastAtEnd(r)
  <2> SUFFICES ASSUME NEW i \in 1 .. Len(r), r[i].last PROVE i = Len(r)
    BY DEF LastAtEnd
  <2>1. i + 1 \in 1 .. Len(q) /\ q[i + 1].last
    BY <1>1
  <2>2. i + 1 = Len(q)
    BY <2>1 DEF LastAtEnd
  <2> QED  BY <1>1, <2>2
<1>3. NoLast(q) => NoLast(r) /\ ~Head(q).last
  BY <1>1 DEF NoLast
<1>4. Head(q).last => r = << >>
  BY <1>1 DEF LastAtEnd
<1>5. EndsIt(q) /\ ~Head(q).last => EndsIt(r)
  BY <1>1 DEF EndsIt
<1>6. ASSUME OnlyEnds(q)
      PROVE  /\ OnlyEnds(r) /\ (Head(q).named \/ Head(q).last)
             /\ Named(q) = Named(r) + Counts(Head(q))
  <2>1. OnlyEnds(r) /\ (Head(q).named \/ Head(q).last)
    BY <1>1, <1>6 DEF OnlyEnds
  <2>2. CASE Len(q) = 1
    <3>1. Named(r) = 0
      BY <1>1, <2>2 DEF Named
    <3>2. Named(q) = Counts(Head(q))
      BY <1>1, <2>2 DEF Named, Counts, Page
    <3>3. Counts(Head(q)) \in Nat
      BY DEF Counts
    <3> QED  BY <2>1, <3>1, <3>2, <3>3
  <2>3. CASE Len(q) # 1
    <3>1. Head(q).named
      BY <1>1, <1>4, <2>1, <2>3
    <3>2. r # << >> /\ r[Len(r)] = q[Len(q)]
      BY <1>1, <2>3
    <3>3. /\ Named(r) = IF q[Len(q)].named THEN Len(r) ELSE Len(r) - 1
          /\ Named(q) = IF q[Len(q)].named THEN Len(q) ELSE Len(q) - 1
      BY <3>2 DEF Named
    <3>4. Counts(Head(q)) = 1
      BY <3>1 DEF Counts
    <3> QED  BY <1>1, <2>1, <3>3, <3>4
  <2> QED  BY <2>1, <2>2, <2>3
<1> QED  BY <1>2, <1>3, <1>4, <1>5, <1>6 DEF r

(* What msgQSend makes of a queue that has not been ended.                 *)
LEMMA AppendPages ==
  ASSUME NEW q \in Seq(Page), NEW p \in Page, NoLast(q)
  PROVE  /\ LastAtEnd(Append(q, p))
         /\ ~p.last => NoLast(Append(q, p))
         /\ p.last => EndsIt(Append(q, p))
         /\ OnlyEnds(q) /\ (p.named \/ p.last) =>
              /\ OnlyEnds(Append(q, p))
              /\ Named(Append(q, p)) = Named(q) + Counts(p)
<1> DEFINE r == Append(q, p)
<1>1. /\ r \in Seq(Page) /\ r # << >> /\ Len(q) \in Nat /\ Len(r) = Len(q) + 1
      /\ \A i \in 1 .. Len(q) : r[i] = q[i]
      /\ r[Len(q) + 1] = p
      /\ \A i \in 1 .. Len(r) : i \in 1 .. Len(q) \/ i = Len(r)
  BY AppendElements
<1> HIDE DEF r
<1>2. LastAtEnd(r) /\ (~p.last => NoLast(r))
  BY <1>1 DEF LastAtEnd, NoLast
<1>3. p.last => EndsIt(r)
  BY <1>1 DEF EndsIt
<1>4. ASSUME OnlyEnds(q), p.named \/ p.last
      PROVE  OnlyEnds(r) /\ Named(r) = Named(q) + Counts(p)
  <2>1. OnlyEnds(r)
    BY <1>1, <1>4 DEF OnlyEnds
  <2>2. Named(q) = Len(q)
    <3>1. q # << >> => Len(q) \in 1 .. Len(q)
      BY <1>1
    <3> QED  BY <1>4, <3>1 DEF Named, OnlyEnds, NoLast
  <2>3. Named(r) = Len(q) + Counts(p)
    BY <1>1 DEF Named, Counts
  <2> QED  BY <2>1, <2>2, <2>3
<1> QED  BY <1>2, <1>3, <1>4 DEF r

-----------------------------------------------------------------------------
(* The pages of one job, and of the job in work.  A last page ends a page  *)
(* queue, and comes only when it has been seen; while a copy is printed    *)
(* the queue of kept pages has no last page, and behind a last page in     *)
(* hand nothing comes.                                                     *)
Copies(j, t) == t.pc \in Copying /\ j.kind.isDir

Ordered(j) ==
  /\ LastAtEnd(j.pageQ)
  /\ ~j.lastSeen => NoLast(j.pageQ)
  /\ j.state = "QUEUED" => j.saveQ = << >>

OrderedWork(j, t) ==
  /\ t.pc \in Starting => j.saveQ = << >>
  /\ t.pc \in Copying \ {"print"} => j.kind.isDir
  /\ t.pc = "single" => ~j.kind.isDir
  /\ Copies(j, t) =>
       /\ t.pc # "copy" => t.copy <= j.kind.copies
       /\ t.copy <= j.kind.copies => NoLast(j.saveQ)
       /\ t.pc \in InHand /\ t.page.last => j.pageQ = << >> /\ j.lastSeen

(* No page is lost: there is room for the pages of a job in either queue,  *)
(* and as long as the job thread may wait for a page of a job whose last   *)
(* page has been seen, that page is in the queue.                          *)
Ended(j)   == IF j.lastSeen THEN 1 ELSE 0
InWork(t)  == IF t.pc \in InHand THEN 1 ELSE 0
Waiting(j) == Len(j.pageQ)
Kept(j)    == Len(j.saveQ)

Roomy(j) ==
  /\ j.kind.isDir => /\ j.numPages <= MaxPages
                     /\ Waiting(j) <= j.numPages + Ended(j)
                     /\ j.state = "CANCEL_REQUEST" => j.lastSeen
  /\ ~j.kind.isDir => ~j.lastSeen
  /\ j.state = "QUEUED" /\ j.lastSeen => EndsIt(j.pageQ)

MayReceive(j, t) == \/ t.pc \in Starting \cup {"recvPage"}
                    \/ t.pc \in InHand /\ ~t.page.last
                    \/ t.pc = "copy" /\ GoesOn(j, t)

RoomyWork(j, t) ==
  /\ Copies(j, t) => Waiting(j) + Kept(j) + InWork(t) <= j.numPages + Ended(j)
  /\ j.lastSeen /\ MayReceive(j, t) => EndsIt(j.pageQ)

(* The pages are counted: while nothing fails, the pages printed and those *)
(* still to be received make up the copies begun, and those to be received,*)
(* in hand and kept make up one copy.                                      *)
Total(j) == j.numPages * (IF j.kind.pdf /\ ~j.kind.isDir THEN 1 ELSE j.kind.copies)

Fine(j, t) == ~j.failed /\ ~j.cancelled /\ ~t.corrupted

ToPrint(t) == IF t.pc = "gotPage" /\ t.page.named THEN 1 ELSE 0
ToKeep(t)  == IF t.pc \in InHand /\ t.page.named THEN 1 ELSE 0

Counted(j) ==
  /\ OnlyEnds(j.pageQ)
  /\ ~j.kind.isDir /\ j.state # "FREE" => j.numPages = 1
  /\ j.state = "QUEUED" =>
       j.pageNum = 0 /\ (j.kind.isDir => Named(j.pageQ) = j.numPages)
  /\ j.state = "COMPLETED" /\ ~j.failed =>
       ~j.cancelled /\ j.pageNum = Total(j) /\ (j.kind.isDir => j.lastSeen)

CopyCounted(j, t) ==
  /\ t.copy <= j.kind.copies + 1
  /\ t.copy > 1 => j.lastSeen
  /\ t.copy <= j.kind.copies =>
       /\ j.pageNum + Named(j.pageQ) + ToPrint(t) = j.numPages * t.copy
       /\ j.kind.copies > 1 =>
            Named(j.pageQ) + Named(j.saveQ) + ToKeep(t) = j.numPages
  /\ t.copy > j.kind.copies => j.pageNum = j.numPages * j.kind.copies

SingleCounted(j, t) ==
  /\ t.copy <= j.kind.copies + 1 /\ (j.kind.pdf => t.copy <= 2)
  /\ t.pc = "single" => j.pageNum + 1 = t.copy
  /\ t.pc = "print" => /\ j.pageNum = t.copy
                       /\ t.copy <= j.kind.copies /\ (j.kind.pdf => t.copy = 1)

CountedWork(j, t) ==
  /\ t.pc \in Starting => /\ j.pageNum = 0 /\ t.copy = 1 /\ ~t.corrupted
                          /\ j.kind.isDir => Named(j.pageQ) = j.numPages
  /\ Copies(j, t) =>
       /\ OnlyEnds(j.saveQ)
       /\ t.pc \in InHand => t.page.named \/ t.page.last
       /\ t.pc # "copy" /\ t.result = "ERROR" => j.failed
       /\ Fine(j, t) /\ (t.pc = "copy" => t.result # "ERROR") => CopyCounted(j, t)
  /\ t.pc \in {"single", "print"} /\ ~j.kind.isDir => SingleCounted(j, t)
  /\ t.pc \in Ending /\ Fine(j, t) /\ t.result = "OK"
       => j.pageNum = Total(j) /\ (j.kind.isDir => j.lastSeen)

(* All of it.  The room and the count need a client that hands in fewer    *)
(* pages than a page queue can hold.                                       *)
Fits == MaxPages < MaxPagesPerJob

Sound(j)     == Ordered(j) /\ (Fits => Roomy(j) /\ Counted(j))
AtWork(j, t) == OrderedWork(j, t) /\ (Fits => RoomyWork(j, t) /\ CountedWork(j, t))

PagesInv ==
  /\ \A s \in Slots : Sound(jobs[s])
  /\ th.pc \in Busy => AtWork(Cur, th)
  /\ th.pc \in {"receive", "lookup"} => ~th.corrupted


(* The types of what the invariant speaks of.                              *)
LEMMA PageTypes ==
  ASSUME NEW j \in Job, NEW t \in Thread
  PROVE  /\ j.pageQ \in Seq(Page) /\ j.saveQ \in Seq(Page)
         /\ j.kind.copies \in Nat \ {0} /\ j.numPages \in Nat /\ j.pageNum \in Nat
         /\ Waiting(j) \in Nat /\ Kept(j) \in Nat /\ Ended(j) \in {0, 1}
         /\ InWork(t) \in {0, 1}
         /\ t.copy \in Nat \ {0} /\ t.page \in Page
<1>1. j.kind \in JobKind
  BY WprintAssumption DEF Job
<1>2. j.pageQ \in Seq(Page) /\ j.saveQ \in Seq(Page)
  BY DEF Job
<1>3. Waiting(j) \in Nat /\ Kept(j) \in Nat
  BY <1>2 DEF Waiting, Kept
<1> QED  BY <1>1, <1>2, <1>3 DEF Job, JobKind, Thread, Ended, InWork

(* The lengths of two queues that are the same.                            *)
LEMMA SameSizes ==
  ASSUME NEW j, NEW k
  PROVE  /\ SameQueues(j, k) => Waiting(k) = Waiting(j) /\ Kept(k) = Kept(j)
         /\ SameJob(j, k) => Ended(k) = Ended(j)
         /\ j.pageQ = k.pageQ => Waiting(k) = Waiting(j)
         /\ j.saveQ = k.saveQ => Kept(k) = Kept(j)
         /\ j.pageQ = << >> => Waiting(j) = 0
         /\ j.saveQ = << >> => Kept(j) = 0
BY EmptyPages DEF SameQueues, SameJob, Waiting, Kept, Ended

(* What a job that the job thread has in hand is not.                      *)
Underway(j, t) ==
  /\ j.state # "FREE"
  /\ t.pc \in {"recvPage", "gotPage", "print", "after"} => j.state # "QUEUED"

(* The order of the pages is kept by every step of the job thread, and by *)
(* the steps of the others.                                                *)
LEMMA OrderedStep ==
  ASSUME NEW j \in Job, NEW k \in Job, NEW t \in Thread, NEW u \in Thread,
         Ordered(j), OrderedWork(j, t), PageStep(j, k, t, u),
         Underway(j, t), Underway(k, u)
  PROVE  Ordered(k) /\ OrderedWork(k, u)
<1>t. /\ j.pageQ \in Seq(Page) /\ j.saveQ \in Seq(Page) /\ t.page \in Page
      /\ j.kind.copies \in Nat \ {0} /\ t.copy \in Nat \ {0}
  BY PageTypes
<1>1. CASE Prepares(j, k, t, u)
  BY <1>1, EmptyPages DEF Prepares, Starting, SamePages, SameJob, SameQueues, SameLocals,
     Ordered, OrderedWork, Copies, Copying, InHand
<1>2. CASE BeginsCopy(j, k, t, u)
  BY <1>2 DEF BeginsCopy, GoesOn, Starting, SamePages, SameJob, SameQueues, SameLocals,
     Ordered, OrderedWork, Copies, Copying, InHand
<1>3. CASE \/ EndsCopies(j, k, t, u) \/ Ends(j, k, t, u)
           \/ EndsSingles(j, k, t, u) \/ PrintsSingle(j, k, t, u)
           \/ BeginsSingle(j, k, t, u)
  BY <1>3 DEF EndsCopies, Ends, Ending, EndsSingles, PrintsSingle, BeginsSingle, Starting,
     SamePages, SameJob, SameQueues, Ordered, OrderedWork, Copies, Copying, InHand
<1>4. CASE Receives(j, k, t, u)
  <2>1. /\ k.pageQ = Tail(j.pageQ) /\ k.saveQ = j.saveQ /\ u.page = Head(j.pageQ)
        /\ LastAtEnd(k.pageQ) /\ (~k.lastSeen => NoLast(k.pageQ))
        /\ u.page.last => k.pageQ = << >> /\ k.lastSeen
    BY <1>t, <1>4, TailPages DEF Receives, SameJob, Ordered
  <2> QED
    BY <1>4, <2>1 DEF Receives, SameJob, Starting, Ordered, OrderedWork, Copies, Copying, InHand
<1>5. CASE Refuses(j, k, t, u)
  BY <1>5, <1>t DEF Refuses, SamePages, SameJob, SameQueues, Starting, Ordered, OrderedWork,
     Copies, Copying, InHand
<1>6. CASE Skips(j, k, t, u) \/ StartsPage(j, k, t, u) \/ Blanks(j, k, t, u)
  BY <1>6 DEF Skips, StartsPage, Blanks, SamePages, SameJob, SameQueues, SameLocals, Starting,
     Ordered, OrderedWork, Copies, Copying, InHand
<1>7. CASE Prints(j, k, t, u)
  BY <1>7 DEF Prints, SameJob, SameQueues, Starting, Ordered, OrderedWork, Copies, Copying, InHand
<1>8. CASE Stores(j, k, t, u)
  <2> DEFINE sent  == HasRoom(j.saveQ, MaxPagesPerJob)
             saved == IF sent THEN Append(j.saveQ, t.page) ELSE j.saveQ
             swaps == t.page.last /\ t.copy # j.kind.copies
  <2>1. /\ t.pc = "after" /\ u.pc \in {"copy", "recvPage"}
        /\ SameJob(j, k)
        /\ \/ k.pageQ = j.pageQ /\ k.saveQ = j.saveQ
           \/ swaps /\ k.pageQ = saved /\ k.saveQ = << >>
           \/ ~swaps /\ k.pageQ = j.pageQ /\ k.saveQ = saved
        /\ t.page.last => u.copy = t.copy + 1
        /\ u.copy \in {t.copy, t.copy + 1}
        /\ u.pc = "recvPage" => u.copy = t.copy
    BY <1>8 DEF Stores
  <2>2. /\ j.kind.isDir /\ t.copy <= j.kind.copies /\ NoLast(j.saveQ)
        /\ t.page.last => j.lastSeen
    BY <2>1 DEF OrderedWork, Copies, Copying, InHand
  <2>3. /\ LastAtEnd(saved)
        /\ ~t.page.last => NoLast(saved)
    BY <1>t, <2>2, AppendPages DEF NoLast, LastAtEnd
  <2> HIDE DEF saved, sent
  <2>4. k.state # "QUEUED"
    BY <2>1 DEF SameJob, Underway
  <2>5. Ordered(k)
    BY <2>1, <2>2, <2>3, <2>4 DEF SameJob, Ordered
  <2>6. u.copy <= k.kind.copies => NoLast(k.saveQ)
    BY <1>t, <2>1, <2>2, <2>3, EmptyPages DEF SameJob
  <2>7. u.pc # "copy" => u.copy <= k.kind.copies
    BY <2>1, <2>2 DEF SameJob
  <2> QED
    BY <2>1, <2>2, <2>5, <2>6, <2>7 DEF SameJob, OrderedWork, Copies, Copying, InHand, Starting
<1> QED  BY <1>1, <1>2, <1>3, <1>4, <1>5, <1>6, <1>7, <1>8 DEF PageStep

(* The others append a page, when the last page has not been seen.         *)
LEMMA OrderedGains ==
  ASSUME NEW j \in Job, NEW k \in Job, Ordered(j), Gains(j, k), Turns(j, k)
  PROVE  /\ Ordered(k)
         /\ \A t \in Thread : OrderedWork(j, t) => OrderedWork(k, t)
<1>t. j.pageQ \in Seq(Page)
  BY DEF Job
<1>1. CASE k.pageQ = j.pageQ /\ k.lastSeen = j.lastSeen
  BY <1>1 DEF Gains, Turns, Ordered, OrderedWork, Copies
<1>2. ASSUME NEW p \in Page, GivenPage(j, k, p)
      PROVE  Ordered(k) /\ \A t \in Thread : OrderedWork(j, t) => OrderedWork(k, t)
  <2>1. /\ ~j.lastSeen /\ NoLast(j.pageQ) /\ k.lastSeen = p.last
        /\ k.pageQ \in {j.pageQ, Append(j.pageQ, p)}
    BY <1>2 DEF GivenPage, TakesPages, Ordered
  <2>2. /\ LastAtEnd(Append(j.pageQ, p))
        /\ ~p.last => NoLast(Append(j.pageQ, p))
    BY <1>t, <2>1, AppendPages
  <2>3. Ordered(k)
    BY <2>1, <2>2 DEF Gains, Turns, Ordered, NoLast, LastAtEnd
  <2> QED  BY <2>1, <2>3 DEF Gains, OrderedWork, Copies
<1> QED  BY <1>1, <1>2 DEF Gains

(* So is the room, when a client hands in fewer pages than a queue holds:  *)
(* the page that is kept always finds room in the other queue.             *)
LEMMA RoomyStep ==
  ASSUME NEW j \in Job, NEW k \in Job, NEW t \in Thread, NEW u \in Thread,
         Ordered(j), OrderedWork(j, t), Roomy(j), RoomyWork(j, t),
         PageStep(j, k, t, u), Underway(j, t), Underway(k, u), Fits
  PROVE  Roomy(k) /\ RoomyWork(k, u)
<1>t. /\ j.pageQ \in Seq(Page) /\ j.saveQ \in Seq(Page) /\ t.page \in Page
      /\ j.kind.copies \in Nat \ {0} /\ t.copy \in Nat \ {0}
      /\ j.numPages \in Nat /\ Waiting(j) \in Nat /\ Kept(j) \in Nat
      /\ Waiting(k) \in Nat /\ Kept(k) \in Nat /\ k.numPages \in Nat
      /\ Ended(j) \in {0, 1} /\ Ended(k) \in {0, 1}
  BY PageTypes
<1>e. /\ SameJob(j, k) => Ended(k) = Ended(j)
      /\ SameQueues(j, k) => Waiting(k) = Waiting(j) /\ Kept(k) = Kept(j)
      /\ j.pageQ = << >> => Waiting(j) = 0
      /\ j.saveQ = << >> => Kept(j) = 0
  BY SameSizes
<1>1. CASE Prepares(j, k, t, u)
  <2>1. Roomy(k)
    BY <1>1, <1>e DEF Prepares, SamePages, SameJob, SameQueues, Roomy
  <2>2. j.saveQ = << >>
    BY <1>1 DEF Prepares, OrderedWork
  <2>3. Copies(k, u) => /\ j.kind.isDir /\ InWork(u) = 0
                        /\ k.pageQ = j.pageQ /\ k.saveQ = j.saveQ /\ k.numPages = j.numPages
    BY <1>1 DEF Prepares, SamePages, SameJob, SameQueues, Copies, InWork, Starting, Copying, InHand
  <2>4. Copies(k, u) => Waiting(k) + Kept(k) + InWork(u) <= k.numPages + Ended(k)
    BY <1>t, <1>1, <1>e, <2>2, <2>3, EmptyPages DEF Prepares, SamePages, Roomy
  <2>5. k.lastSeen => EndsIt(k.pageQ)
    BY <1>1 DEF Prepares, SamePages, SameJob, SameQueues, RoomyWork, MayReceive
  <2> QED  BY <2>1, <2>4, <2>5 DEF RoomyWork
<1>2. CASE \/ BeginsCopy(j, k, t, u) \/ EndsCopies(j, k, t, u) \/ Ends(j, k, t, u)
           \/ EndsSingles(j, k, t, u) \/ PrintsSingle(j, k, t, u)
           \/ BeginsSingle(j, k, t, u)
  <2>1. SameJob(j, k) /\ SameQueues(j, k)
    BY <1>2 DEF BeginsCopy, EndsCopies, Ends, EndsSingles, PrintsSingle, BeginsSingle, SamePages
  <2>2. Roomy(k)
    BY <1>e, <2>1 DEF SameJob, SameQueues, Roomy
  <2>3. Copies(k, u) => Copies(j, t) /\ InWork(u) = 0 /\ InWork(t) = 0
    BY <1>2, <2>1 DEF BeginsCopy, EndsCopies, Ends, EndsSingles, PrintsSingle, BeginsSingle,
       OrderedWork, SameJob, Copies, InWork, Ending, Copying, InHand
  <2>4. Copies(k, u) => Waiting(k) + Kept(k) + InWork(u) <= k.numPages + Ended(k)
    BY <1>e, <2>1, <2>3 DEF SameJob, SameQueues, RoomyWork
  <2>5. k.lastSeen /\ MayReceive(k, u) => EndsIt(k.pageQ)
    BY <1>2, <2>1 DEF BeginsCopy, EndsCopies, Ends, EndsSingles, PrintsSingle, BeginsSingle,
       OrderedWork, SameJob, SameQueues, Roomy, RoomyWork, MayReceive, Ending, Starting, Copying, InHand
  <2> QED  BY <2>2, <2>4, <2>5 DEF RoomyWork
<1>3. CASE Receives(j, k, t, u)
  <2>1. /\ j.kind.isDir /\ k.state # "QUEUED" /\ SameJob(j, k)
        /\ t.pc = "recvPage" /\ u.pc = "gotPage"
        /\ j.pageQ # << >> /\ k.pageQ = Tail(j.pageQ) /\ k.saveQ = j.saveQ
        /\ u.page = Head(j.pageQ)
    BY <1>3 DEF Receives, OrderedWork, Copying, InHand, Underway
  <2>2. Waiting(k) = Waiting(j) - 1
    BY <1>t, <2>1, TailElements DEF Waiting
  <2>3. Roomy(k)
    BY <1>t, <1>e, <2>1, <2>2 DEF SameJob, Roomy
  <2>4. /\ Copies(j, t) /\ InWork(t) = 0 /\ InWork(u) = 1 /\ Kept(k) = Kept(j)
    BY <2>1 DEF Kept, Copies, InWork, Copying, InHand
  <2>5. Waiting(k) + Kept(k) + InWork(u) <= k.numPages + Ended(k)
    BY <1>t, <1>e, <2>1, <2>2, <2>4 DEF SameJob, RoomyWork
  <2>6. k.lastSeen /\ ~u.page.last => EndsIt(k.pageQ)
    BY <1>t, <2>1, TailPages DEF SameJob, Ordered, RoomyWork, MayReceive
  <2> QED  BY <2>1, <2>3, <2>5, <2>6 DEF RoomyWork, MayReceive, Starting
<1>4. CASE \/ Refuses(j, k, t, u) \/ Skips(j, k, t, u) \/ StartsPage(j, k, t, u)
           \/ Blanks(j, k, t, u) \/ Prints(j, k, t, u)
  <2>1. /\ SameJob(j, k) /\ SameQueues(j, k) /\ t.pc \in InHand
        /\ u.pc \in InHand => u.page.last = t.page.last
        /\ u.pc = "copy" => u.result = "ERROR"
        /\ u.pc \in InHand \cup {"copy"}
    BY <1>4 DEF Refuses, Skips, StartsPage, Blanks, Prints, SamePages, SameLocals, InHand
  <2>2. Roomy(k)
    BY <1>e, <2>1 DEF SameJob, SameQueues, Roomy
  <2>3. Copies(k, u) => Copies(j, t) /\ InWork(u) <= InWork(t) /\ InWork(u) \in {0, 1}
                        /\ InWork(t) \in {0, 1}
    BY <2>1 DEF SameJob, Copies, InWork, Copying
  <2>4. Copies(k, u) => Waiting(k) + Kept(k) + InWork(u) <= k.numPages + Ended(k)
    BY <1>t, <1>e, <2>1, <2>3 DEF SameJob, SameQueues, RoomyWork
  <2>5. k.lastSeen /\ MayReceive(k, u) => EndsIt(k.pageQ)
    BY <2>1 DEF SameJob, SameQueues, RoomyWork, MayReceive, GoesOn, Starting, InHand
  <2> QED  BY <2>2, <2>4, <2>5 DEF RoomyWork
<1>5. CASE Stores(j, k, t, u)
  <2> DEFINE saves == j.kind.copies > 1 /\ ~j.cancelled /\ t.result # "ERROR"
             sent  == HasRoom(j.saveQ, MaxPagesPerJob)
             saved == IF sent THEN Append(j.saveQ, t.page) ELSE j.saveQ
             swaps == t.page.last /\ t.copy # j.kind.copies
  <2>1. /\ t.pc = "after" /\ SameJob(j, k)
        /\ k.pageQ = IF saves /\ swaps THEN saved ELSE j.pageQ
        /\ k.saveQ = IF ~saves THEN j.saveQ ELSE IF swaps THEN << >> ELSE saved
        /\ \/ /\ u.pc = "copy" /\ (t.page.last \/ j.cancelled)
              /\ u.copy = t.copy + 1
              /\ u.result = IF ~saves THEN t.result ELSE IF sent THEN "OK" ELSE "ERROR"
           \/ u.pc = "recvPage" /\ ~t.page.last
    BY <1>5 DEF Stores
  <2>2. /\ j.kind.isDir /\ t.copy <= j.kind.copies /\ NoLast(j.saveQ)
        /\ t.page.last => j.lastSeen /\ j.pageQ = << >>
        /\ Copies(j, t) /\ InWork(t) = 1 /\ InWork(u) = 0
    BY <2>1 DEF OrderedWork, Copies, Copying, InHand, InWork
  <2>3. /\ Len(saved) \in Nat /\ Len(saved) <= Kept(j) + 1
        /\ sent /\ t.page.last => EndsIt(saved)
    BY <1>t, <2>2, AppendElements, AppendPages DEF Kept
  <2>4. Waiting(k) + Kept(k) <= Waiting(j) + Kept(j) + 1
    <3>1. t.page.last => Waiting(j) = 0
      BY <1>e, <2>2
    <3> HIDE DEF saved, saves
    <3>2. \/ k.pageQ = j.pageQ /\ k.saveQ = j.saveQ
          \/ k.pageQ = j.pageQ /\ k.saveQ = saved
          \/ t.page.last /\ k.pageQ = saved /\ k.saveQ = << >>
      BY <2>1
    <3>3. \/ Waiting(k) = Waiting(j) /\ Kept(k) = Kept(j)
          \/ Waiting(k) = Waiting(j) /\ Kept(k) = Len(saved)
          \/ Waiting(j) = 0 /\ Waiting(k) = Len(saved) /\ Kept(k) = 0
      BY <3>1, <3>2, EmptyPages DEF Waiting, Kept
    <3> DEFINE n == Len(saved)
    <3>4. n \in Nat /\ n <= Kept(j) + 1
      BY <2>3
    <3> HIDE DEF n
    <3> QED  BY <1>t, <3>3, <3>4 DEF n
  <2>5. Waiting(k) + Kept(k) + InWork(u) <= k.numPages + Ended(k)
    BY <1>t, <1>e, <2>1, <2>2, <2>4 DEF SameJob, RoomyWork
  <2>6. Roomy(k)
    <3>1. Waiting(k) <= k.numPages + Ended(k)
      BY <1>t, <2>2, <2>5
    <3>2. k.state # "QUEUED"
      BY <2>1 DEF SameJob, Underway
    <3> QED  BY <2>1, <2>2, <3>1, <3>2 DEF SameJob, Roomy
  <2>7. k.lastSeen /\ MayReceive(k, u) => EndsIt(k.pageQ)
    <3>1. CASE u.pc = "recvPage"
      <4>1. k.pageQ = j.pageQ /\ ~t.page.last
        BY <2>1, <3>1
      <4> QED  BY <2>1, <4>1 DEF SameJob, RoomyWork, MayReceive, InHand
    <3>2. CASE u.pc = "copy" /\ GoesOn(k, u)
      <4>1. /\ t.page.last /\ ~j.cancelled /\ u.copy = t.copy + 1
            /\ u.copy <= j.kind.copies /\ u.result \in {"OK", "CORRUPT"}
        BY <2>1, <3>2 DEF GoesOn, SameJob
      <4>2. saves /\ sent
        BY <1>t, <2>1, <3>2, <4>1
      <4>3. swaps
        BY <1>t, <4>1
      <4> QED  BY <2>1, <2>3, <4>1, <4>2, <4>3
    <3> QED  BY <2>1, <3>1, <3>2 DEF MayReceive, Starting, InHand
  <2> QED  BY <2>5, <2>6, <2>7 DEF RoomyWork
<1> QED  BY <1>1, <1>2, <1>3, <1>4, <1>5 DEF PageStep

(* There is room for every page that is handed in.                         *)
LEMMA GivenRoom ==
  ASSUME NEW j \in Job, NEW k \in Job, NEW p \in Page, GivenPage(j, k, p),
         Ordered(j), Roomy(j), Fits
  PROVE  /\ k.pageQ = Append(j.pageQ, p) /\ k.numPages = j.numPages + Counts(p)
         /\ Waiting(k) = Waiting(j) + 1
         /\ j.kind.isDir /\ ~j.lastSeen /\ NoLast(j.pageQ) /\ k.lastSeen = p.last
         /\ k.numPages <= MaxPages
<1>t. /\ j.pageQ \in Seq(Page) /\ Waiting(j) \in Nat /\ j.numPages \in Nat
      /\ MaxPages \in Nat /\ MaxPagesPerJob \in Nat
  BY WprintAssumption DEF Job, Waiting
<1>1. j.kind.isDir /\ ~j.lastSeen /\ NoLast(j.pageQ) /\ k.lastSeen = p.last
  BY DEF GivenPage, TakesPages, Ordered
<1>2. Waiting(j) <= j.numPages /\ j.numPages <= MaxPages
  BY <1>t, <1>1 DEF Roomy, Ended
<1>3. HasRoom(j.pageQ, MaxPagesPerJob)
  BY <1>t, <1>2 DEF HasRoom, Fits, Waiting
<1>4. /\ k.pageQ = Append(j.pageQ, p)
      /\ k.numPages = IF p.named THEN j.numPages + 1 ELSE j.numPages
      /\ p.named => j.numPages < MaxPages
  BY <1>3 DEF GivenPage
<1> QED  BY <1>t, <1>1, <1>2, <1>4, AppendElements DEF Counts, Waiting

(* A page that is handed in takes the room that its count gives it.        *)
LEMMA RoomyGains ==
  ASSUME NEW j \in Job, NEW k \in Job, Ordered(j), Roomy(j), Gains(j, k), Turns(j, k),
         Fits
  PROVE  /\ Roomy(k)
         /\ \A t \in Thread : OrderedWork(j, t) /\ RoomyWork(j, t) => RoomyWork(k, t)
<1>m. ASSUME NEW t, MayReceive(k, t)
      PROVE  MayReceive(j, t)
  BY <1>m DEF MayReceive, GoesOn, Gains, Turns
<1>1. CASE k.pageQ = j.pageQ /\ k.lastSeen = j.lastSeen /\ k.numPages = j.numPages
  <2>1. Ended(k) = Ended(j) /\ Waiting(k) = Waiting(j) /\ Kept(k) = Kept(j)
    BY <1>1 DEF Gains, Ended, Waiting, Kept
  <2>2. Roomy(k)
    BY <1>1, <2>1 DEF Gains, Turns, Roomy
  <2> QED  BY <1>1, <1>m, <2>1, <2>2 DEF Gains, RoomyWork, Copies
<1>2. ASSUME NEW p \in Page, GivenPage(j, k, p)
      PROVE  /\ Roomy(k)
             /\ \A t \in Thread : OrderedWork(j, t) /\ RoomyWork(j, t) => RoomyWork(k, t)
  <2>1. /\ k.pageQ = Append(j.pageQ, p) /\ k.numPages = j.numPages + Counts(p)
        /\ Waiting(k) = Waiting(j) + 1
        /\ j.kind.isDir /\ ~j.lastSeen /\ NoLast(j.pageQ) /\ k.lastSeen = p.last
        /\ k.numPages <= MaxPages
    BY <1>2, GivenRoom
  <2>2. Counts(p) + Ended(k) \in {1, 2} /\ Ended(j) = 0
    BY <1>2, <2>1 DEF GivenPage, Counts, Ended
  <2>t. /\ j.pageQ \in Seq(Page) /\ Waiting(j) \in Nat /\ Kept(j) \in Nat
        /\ j.numPages \in Nat /\ Counts(p) \in {0, 1} /\ Ended(k) \in {0, 1}
    BY DEF Job, Counts, Ended, Waiting, Kept
  <2>3. k.lastSeen => EndsIt(k.pageQ)
    BY <2>1, <2>t, AppendPages
  <2>4. Waiting(k) <= k.numPages + Ended(k)
    BY <2>1, <2>2, <2>t DEF Roomy
  <2>5. Roomy(k)
    BY <2>1, <2>3, <2>4 DEF Gains, Turns, Roomy, Ended
  <2>6. ASSUME NEW t \in Thread, RoomyWork(j, t), Copies(k, t)
        PROVE  Waiting(k) + Kept(k) + InWork(t) <= k.numPages + Ended(k)
    <3>1. Copies(j, t) /\ Kept(k) = Kept(j) /\ InWork(t) \in {0, 1}
      BY <2>6 DEF Gains, Copies, InWork, Kept
    <3>2. Waiting(j) + Kept(j) + InWork(t) <= j.numPages + Ended(j)
      BY <2>6, <3>1 DEF RoomyWork
    <3> QED  BY <2>1, <2>2, <2>t, <3>1, <3>2
  <2> QED  BY <2>3, <2>5, <2>6 DEF RoomyWork
<1> QED  BY <1>1, <1>2 DEF Gains

-----------------------------------------------------------------------------
(* The types of the counts.                                                *)
LEMMA NamedType == \A q \in Seq(Page) : Named(q) \in Nat
<1> SUFFICES ASSUME NEW q \in Seq(Page) PROVE Named(q) \in Nat
  OBVIOUS
<1>1. Len(q) \in Nat /\ (q # << >> => Len(q) # 0)
  OBVIOUS
<1> QED  BY <1>1 DEF Named

(* The sums and products of the count.                                     *)
LEMMA Products ==
  ASSUME NEW n \in Nat, NEW c \in Nat
  PROVE  /\ n * c \in Nat /\ n * (c + 1) = n * c + n /\ n * 1 = n /\ 1 * c = c
BY SMTT(20)

(* The count is kept.  A copy is over when its last page is put away: then *)
(* the kept pages, one copy of them, are the pages to be received.         *)
LEMMA CountedStep ==
  ASSUME NEW j \in Job, NEW k \in Job, NEW t \in Thread, NEW u \in Thread,
         Ordered(j), OrderedWork(j, t), Roomy(j), RoomyWork(j, t),
         Counted(j), CountedWork(j, t),
         PageStep(j, k, t, u), Underway(j, t), Underway(k, u),
         j.state # "COMPLETED", Fits
  PROVE  Counted(k) /\ CountedWork(k, u)
<1>t. /\ j.pageQ \in Seq(Page) /\ j.saveQ \in Seq(Page) /\ t.page \in Page
      /\ j.kind.copies \in Nat \ {0} /\ t.copy \in Nat \ {0}
      /\ j.numPages \in Nat /\ j.pageNum \in Nat
      /\ Named(j.pageQ) \in Nat /\ Named(j.saveQ) \in Nat
  BY PageTypes, NamedType
<1>x. /\ j.numPages * t.copy \in Nat /\ j.numPages * 1 = j.numPages
      /\ j.numPages * j.kind.copies \in Nat /\ 1 * j.kind.copies = j.kind.copies
      /\ j.numPages * (t.copy + 1) = j.numPages * t.copy + j.numPages
  BY <1>t, Products
<1>k. SameJob(j, k) => k.state # "COMPLETED"
  BY DEF SameJob
<1>1. CASE Prepares(j, k, t, u)
  <2>1. SameJob(j, k) /\ SameQueues(j, k) /\ SameCount(j, k) /\ t.pc \in Starting
    BY <1>1 DEF Prepares, SamePages
  <2>2. Counted(k)
    BY <1>k, <2>1 DEF SameJob, SameQueues, SameCount, Counted, Underway
  <2>3. CASE u.pc \in Starting /\ SameLocals(t, u)
    BY <2>1, <2>2, <2>3 DEF SameJob, SameQueues, SameCount, SameLocals, CountedWork, Copies,
                            Starting, Copying, InHand, Ending
  <2>4. CASE u.pc = "stop" /\ u.result # "OK"
    BY <2>2, <2>4 DEF CountedWork, Copies, Starting, Copying, InHand, Ending
  <2>5. CASE u.pc = "copy" /\ SameLocals(t, u) /\ j.kind.isDir
    <3>1. /\ j.pageNum = 0 /\ t.copy = 1 /\ Named(j.pageQ) = j.numPages
          /\ u.copy = 1 /\ k.pageNum = 0 /\ k.numPages = j.numPages /\ k.kind = j.kind
          /\ k.pageQ = j.pageQ /\ k.saveQ = << >>
      BY <2>1, <2>5 DEF CountedWork, OrderedWork, SameJob, SameQueues, SameCount, SameLocals
    <3>2. ToPrint(u) = 0 /\ ToKeep(u) = 0
      BY <2>5 DEF ToPrint, ToKeep, InHand
    <3>3. CopyCounted(k, u)
      BY <1>t, <1>x, <3>1, <3>2, EmptyPages DEF CopyCounted
    <3> QED
      BY <2>2, <2>5, <3>1, <3>3, EmptyPages DEF CountedWork, Starting, InHand, Ending
  <2>6. CASE u.pc = "single" /\ SameLocals(t, u) /\ ~j.kind.isDir
    <3>1. j.pageNum = 0 /\ t.copy = 1 /\ u.copy = 1 /\ k.pageNum = 0 /\ k.kind = j.kind
      BY <2>1, <2>6 DEF CountedWork, SameJob, SameCount, SameLocals
    <3>2. SingleCounted(k, u)
      BY <1>t, <2>6, <3>1 DEF SingleCounted
    <3> QED  BY <2>2, <2>6, <3>1, <3>2 DEF CountedWork, Copies, Starting, InHand, Ending
  <2> QED  BY <1>1, <2>2, <2>3, <2>4, <2>5, <2>6 DEF Prepares
<1>2. CASE BeginsCopy(j, k, t, u)
  <2>1. /\ SameJob(j, k) /\ SameQueues(j, k) /\ SameCount(j, k) /\ SameLocals(t, u)
        /\ t.pc = "copy" /\ u.pc = "recvPage" /\ t.result # "ERROR"
    BY <1>2 DEF BeginsCopy, SamePages, GoesOn
  <2>2. Counted(k)
    BY <1>k, <2>1 DEF SameJob, SameQueues, SameCount, Counted, Underway
  <2>3. /\ ToPrint(u) = 0 /\ ToKeep(u) = 0 /\ ToPrint(t) = 0 /\ ToKeep(t) = 0
        /\ j.kind.isDir
    BY <2>1 DEF ToPrint, ToKeep, InHand, OrderedWork, Copying
  <2>4. Copies(j, t) /\ (Fine(k, u) => CopyCounted(j, t))
    BY <2>1, <2>3 DEF CountedWork, Copies, Copying, Fine, SameJob, SameCount, SameLocals
  <2>5. Fine(k, u) => CopyCounted(k, u)
    BY <2>1, <2>3, <2>4 DEF CopyCounted, SameJob, SameQueues, SameCount, SameLocals
  <2> QED
    BY <2>1, <2>2, <2>4, <2>5 DEF CountedWork, SameQueues, SameLocals, Starting, InHand, Ending
<1>3. CASE EndsCopies(j, k, t, u)
  <2>1. /\ SameJob(j, k) /\ SameQueues(j, k) /\ SameCount(j, k) /\ SameLocals(t, u)
        /\ t.pc = "copy" /\ u.pc = "end" /\ ~GoesOn(j, t)
    BY <1>3 DEF EndsCopies, SamePages
  <2>2. Counted(k)
    BY <1>k, <2>1 DEF SameJob, SameQueues, SameCount, Counted, Underway
  <2>3. ASSUME Fine(k, u), u.result = "OK"
        PROVE  k.pageNum = Total(k) /\ k.lastSeen
    <3>1. /\ Copies(j, t) /\ Fine(j, t) /\ t.result = "OK" /\ ~j.cancelled /\ j.kind.isDir
      BY <2>1, <2>3 DEF OrderedWork, Copies, Copying, Fine, SameJob, SameCount, SameLocals
    <3>2. CopyCounted(j, t)
      BY <3>1 DEF CountedWork
    <3>3. t.copy > j.kind.copies
      BY <1>t, <2>1, <3>1 DEF GoesOn
    <3>4. j.pageNum = j.numPages * j.kind.copies /\ j.lastSeen
      BY <1>t, <3>2, <3>3 DEF CopyCounted
    <3> QED  BY <2>1, <3>1, <3>4 DEF Total, SameJob, SameCount
  <2> QED  BY <2>1, <2>2, <2>3 DEF CountedWork, Copies, Starting, Copying, InHand
<1>4. CASE Receives(j, k, t, u)
  <2>1. /\ SameJob(j, k) /\ SameCount(j, k)
        /\ t.pc = "recvPage" /\ u.pc = "gotPage"
        /\ j.pageQ # << >> /\ k.pageQ = Tail(j.pageQ) /\ k.saveQ = j.saveQ
        /\ u.page = Head(j.pageQ)
        /\ u.copy = t.copy /\ u.result = t.result /\ u.corrupted = t.corrupted
        /\ j.kind.isDir /\ k.state # "QUEUED"
    BY <1>4 DEF Receives, OrderedWork, Copying, InHand, Underway
  <2>2. /\ OnlyEnds(k.pageQ) /\ (u.page.named \/ u.page.last)
        /\ Named(j.pageQ) = Named(k.pageQ) + Counts(u.page)
    BY <1>t, <2>1, TailPages DEF Ordered, Counted
  <2>3. Counted(k)
    BY <1>k, <2>1, <2>2 DEF SameJob, SameCount, Counted, Underway
  <2>4. /\ ToPrint(t) = 0 /\ ToKeep(t) = 0
        /\ ToPrint(u) = Counts(u.page) /\ ToKeep(u) = Counts(u.page)
        /\ Copies(j, t) /\ Copies(k, u)
    BY <2>1 DEF ToPrint, ToKeep, InHand, Copying, Copies, Counts, SameJob
  <2>5. Counts(u.page) \in Nat /\ Named(k.pageQ) \in Nat
    BY PageTypes, NamedType DEF Counts
  <2>6. Fine(k, u) => Fine(j, t) /\ CopyCounted(j, t)
    BY <2>1, <2>4 DEF CountedWork, Fine, SameJob, SameCount
  <2>7. CopyCounted(j, t) => CopyCounted(k, u)
    BY <1>t, <2>1, <2>2, <2>4, <2>5 DEF CopyCounted, SameJob, SameCount
  <2>8. /\ OnlyEnds(k.saveQ)
        /\ u.result = "ERROR" => k.failed
    BY <2>1, <2>4 DEF CountedWork, SameCount
  <2> QED
    BY <2>1, <2>2, <2>3, <2>6, <2>7, <2>8 DEF CountedWork, Starting, Ending, SameJob
<1>5. CASE Refuses(j, k, t, u)
  <2>1. /\ SameJob(j, k) /\ SameQueues(j, k) /\ SameCount(j, k)
        /\ t.pc = "gotPage" /\ u.pc = "copy" /\ u.result = "ERROR" /\ j.kind.isDir
    BY <1>5 DEF Refuses, SamePages, OrderedWork, Copying, InHand
  <2>2. Counted(k)
    BY <1>k, <2>1 DEF SameJob, SameQueues, SameCount, Counted, Underway
  <2>3. OnlyEnds(k.saveQ)
    BY <2>1 DEF CountedWork, Copies, Copying, InHand, SameQueues
  <2> QED  BY <2>1, <2>2, <2>3 DEF CountedWork, Starting, InHand, Ending
<1>6. CASE Skips(j, k, t, u) \/ Blanks(j, k, t, u)
  <2>1. /\ SameJob(j, k) /\ SameQueues(j, k) /\ SameCount(j, k) /\ SameLocals(t, u)
        /\ t.pc \in {"gotPage", "blank"} /\ u.pc \in {"blank", "after"}
        /\ t.pc = "gotPage" => ~t.page.named
    BY <1>6 DEF Skips, Blanks, SamePages
  <2>2. Counted(k)
    BY <1>k, <2>1 DEF SameJob, SameQueues, SameCount, Counted, Underway
  <2>3. /\ ToPrint(u) = 0 /\ ToPrint(t) = 0 /\ ToKeep(u) = ToKeep(t)
        /\ Copies(j, t)
    BY <2>1 DEF ToPrint, ToKeep, InHand, OrderedWork, Copying, Copies, SameLocals
  <2>4. Fine(k, u) => CopyCounted(j, t)
    BY <2>1, <2>3 DEF CountedWork, Fine, SameJob, SameCount, SameLocals
  <2>5. CopyCounted(j, t) => CopyCounted(k, u)
    BY <2>1, <2>3 DEF CopyCounted, SameJob, SameQueues, SameCount, SameLocals
  <2>6. /\ OnlyEnds(k.saveQ) /\ (u.page.named \/ u.page.last)
        /\ u.result = "ERROR" => k.failed
    BY <2>1, <2>3 DEF CountedWork, InHand, SameQueues, SameCount, SameLocals
  <2> QED
    BY <2>1, <2>2, <2>4, <2>5, <2>6 DEF CountedWork, Starting, Ending
<1>7. CASE StartsPage(j, k, t, u)
  <2>1. /\ SameJob(j, k) /\ SameQueues(j, k) /\ SameLocals(t, u)
        /\ t.pc = "gotPage" /\ u.pc = "print" /\ t.page.named
        /\ k.pageNum = j.pageNum + 1 /\ k.failed = j.failed
        /\ j.kind.isDir /\ k.state # "QUEUED"
    BY <1>7 DEF StartsPage, OrderedWork, Copying, InHand, Underway
  <2>2. Counted(k)
    BY <1>k, <2>1 DEF SameJob, SameQueues, Counted, Underway
  <2>3. /\ ToPrint(u) = 0 /\ ToPrint(t) = 1 /\ ToKeep(u) = 1 /\ ToKeep(t) = 1
        /\ Copies(j, t)
    BY <2>1 DEF ToPrint, ToKeep, InHand, Copying, Copies, SameLocals
  <2>4. Fine(k, u) => CopyCounted(j, t)
    BY <2>1, <2>3 DEF CountedWork, Fine, SameJob, SameLocals
  <2>5. t.copy <= j.kind.copies
    BY <2>1, <2>3 DEF OrderedWork
  <2>6. CopyCounted(j, t) => CopyCounted(k, u)
    <3> SUFFICES ASSUME CopyCounted(j, t) PROVE CopyCounted(k, u)
      OBVIOUS
    <3>1. /\ k.kind = j.kind /\ k.lastSeen = j.lastSeen /\ k.numPages = j.numPages
          /\ k.pageQ = j.pageQ /\ k.saveQ = j.saveQ /\ u.copy = t.copy
      BY <2>1 DEF SameJob, SameQueues, SameLocals
    <3>2. /\ t.copy <= j.kind.copies + 1 /\ (t.copy > 1 => j.lastSeen)
          /\ j.pageNum + Named(j.pageQ) + 1 = j.numPages * t.copy
          /\ j.kind.copies > 1 => Named(j.pageQ) + Named(j.saveQ) + 1 = j.numPages
      BY <2>3, <2>5 DEF CopyCounted
    <3>3. k.pageNum + Named(k.pageQ) + ToPrint(u) = k.numPages * u.copy
      <4>1. k.pageNum + Named(k.pageQ) + ToPrint(u) = j.pageNum + Named(j.pageQ) + 1
        BY <1>t, <2>1, <2>3, <3>1
      <4> QED  BY <3>1, <3>2, <4>1
    <3>4. /\ u.copy <= k.kind.copies + 1 /\ (u.copy > 1 => k.lastSeen)
          /\ k.kind.copies > 1 => Named(k.pageQ) + Named(k.saveQ) + ToKeep(u) = k.numPages
          /\ ~(u.copy > k.kind.copies)
      <4>1. ~(t.copy > j.kind.copies)
        BY <1>t, <2>5
      <4> QED  BY <2>3, <3>1, <3>2, <4>1
    <3> QED  BY <3>3, <3>4 DEF CopyCounted
  <2>7. /\ OnlyEnds(k.saveQ) /\ (u.page.named \/ u.page.last)
        /\ u.result = "ERROR" => k.failed
    BY <2>1, <2>3 DEF CountedWork, InHand, SameQueues, SameLocals
  <2> QED
    BY <2>1, <2>2, <2>4, <2>6, <2>7 DEF CountedWork, Starting, Ending, SameJob
<1>8. CASE Prints(j, k, t, u)
  <2>1. /\ SameJob(j, k) /\ SameQueues(j, k) /\ k.pageNum = j.pageNum
        /\ t.pc = "print" /\ u.pc \in {"blank", "after"} /\ j.kind.isDir
        /\ k.failed <=> j.failed \/ u.result = "ERROR"
        /\ u.copy = t.copy
        /\ u.corrupted <=> t.corrupted \/ u.result = "CORRUPT"
        /\ u.page.last = t.page.last /\ u.page.named = t.page.named
        /\ k.state # "QUEUED"
    BY <1>8 DEF Prints, Underway, SameJob
  <2>2. Counted(k)
    BY <1>k, <2>1 DEF SameJob, SameQueues, Counted, Underway
  <2>3. /\ ToPrint(u) = 0 /\ ToPrint(t) = 0 /\ ToKeep(u) = ToKeep(t)
        /\ Copies(j, t)
    BY <2>1 DEF ToPrint, ToKeep, InHand, Copying, Copies
  <2>4. Fine(k, u) => CopyCounted(j, t)
    BY <2>1, <2>3 DEF CountedWork, Fine, SameJob
  <2>5. CopyCounted(j, t) => CopyCounted(k, u)
    BY <2>1, <2>3 DEF CopyCounted, SameJob, SameQueues
  <2>6. OnlyEnds(k.saveQ) /\ (u.page.named \/ u.page.last)
    BY <2>1, <2>3 DEF CountedWork, InHand, SameQueues
  <2> QED
    BY <2>1, <2>2, <2>4, <2>5, <2>6 DEF CountedWork, Starting, Ending
<1>9. CASE Stores(j, k, t, u)
  <2> DEFINE saves == j.kind.copies > 1 /\ ~j.cancelled /\ t.result # "ERROR"
             sent  == HasRoom(j.saveQ, MaxPagesPerJob)
             saved == IF sent THEN Append(j.saveQ, t.page) ELSE j.saveQ
             swaps == t.page.last /\ t.copy # j.kind.copies
             ends  == t.page.last \/ j.cancelled
  <2>1. /\ t.pc = "after" /\ u.pc = (IF ends THEN "copy" ELSE "recvPage")
        /\ SameJob(j, k) /\ SameCount(j, k)
        /\ k.pageQ = IF saves /\ swaps THEN saved ELSE j.pageQ
        /\ k.saveQ = IF ~saves THEN j.saveQ ELSE IF swaps THEN << >> ELSE saved
        /\ u.copy = IF ends THEN t.copy + 1 ELSE t.copy
        /\ u.result = IF ~saves THEN t.result ELSE IF sent THEN "OK" ELSE "ERROR"
        /\ u.corrupted = t.corrupted
    BY <1>9 DEF Stores
  <2>2. /\ j.kind.isDir /\ t.copy <= j.kind.copies /\ NoLast(j.saveQ)
        /\ t.page.last => j.lastSeen /\ j.pageQ = << >>
        /\ Copies(j, t) /\ k.kind.isDir /\ u.pc \notin InHand /\ t.pc \in InHand
        /\ ToPrint(t) = 0 /\ ToPrint(u) = 0 /\ ToKeep(u) = 0 /\ ToKeep(t) = Counts(t.page)
    BY <2>1 DEF OrderedWork, Copies, Copying, InHand, ToPrint, ToKeep, Counts, SameJob
  <2>3. sent
    <3>1. /\ MaxPages \in Nat /\ MaxPagesPerJob \in Nat /\ Waiting(j) \in Nat
          /\ Kept(j) \in Nat /\ Ended(j) \in {0, 1} /\ InWork(t) = 1
      BY <2>2, PageTypes, WprintAssumption DEF InWork
    <3>2. /\ Waiting(j) + Kept(j) + InWork(t) <= j.numPages + Ended(j)
          /\ j.numPages <= MaxPages /\ MaxPages < MaxPagesPerJob
      BY <2>2 DEF Roomy, RoomyWork, Fits
    <3>3. Kept(j) < MaxPagesPerJob
      BY <1>t, <3>1, <3>2
    <3> QED  BY <3>3 DEF HasRoom, Kept
  <2>4. /\ OnlyEnds(j.pageQ) /\ OnlyEnds(j.saveQ) /\ (t.page.named \/ t.page.last)
        /\ t.result = "ERROR" => j.failed
    BY <2>1, <2>2 DEF Counted, CountedWork
  <2>5. /\ OnlyEnds(saved) /\ Named(saved) = Named(j.saveQ) + Counts(t.page)
    BY <1>t, <2>2, <2>3, <2>4, AppendPages
  <2>c. Counts(t.page) \in Nat
    BY DEF Counts
  <2> HIDE DEF saved, sent
  <2>6. OnlyEnds(k.pageQ) /\ OnlyEnds(k.saveQ)
    BY <2>1, <2>4, <2>5, EmptyPages
  <2>7. Counted(k)
    BY <1>k, <2>1, <2>2, <2>6 DEF SameJob, SameCount, Counted, Underway
  <2>8. u.pc # "copy" /\ u.result = "ERROR" => k.failed
    BY <2>1, <2>3, <2>4 DEF SameCount
  <2>9. ASSUME Fine(k, u)
        PROVE  CopyCounted(k, u)
    <3>1. /\ Fine(j, t) /\ ~j.cancelled /\ t.result # "ERROR"
      BY <2>1, <2>4, <2>9 DEF Fine, SameJob, SameCount
    <3>2. CopyCounted(j, t)
      BY <2>2, <3>1 DEF CountedWork
    <3>3. /\ j.pageNum + Named(j.pageQ) = j.numPages * t.copy
          /\ j.kind.copies > 1 =>
               Named(j.pageQ) + Named(j.saveQ) + Counts(t.page) = j.numPages
          /\ t.copy > 1 => j.lastSeen
      <4>1. /\ t.copy > 1 => j.lastSeen
            /\ j.pageNum + Named(j.pageQ) + 0 = j.numPages * t.copy
            /\ j.kind.copies > 1 =>
                 Named(j.pageQ) + Named(j.saveQ) + Counts(t.page) = j.numPages
        BY <2>2, <3>2 DEF CopyCounted
      <4>2. j.pageNum + Named(j.pageQ) + 0 = j.pageNum + Named(j.pageQ)
        BY <1>t
      <4> QED  BY <4>1, <4>2
    <3>s. /\ k.kind = j.kind /\ k.lastSeen = j.lastSeen /\ k.numPages = j.numPages
          /\ k.pageNum = j.pageNum
      BY <2>1 DEF SameJob, SameCount
    <3>4. CASE ~t.page.last
      <4>1. /\ u.copy = t.copy /\ k.pageQ = j.pageQ
            /\ j.kind.copies > 1 => k.saveQ = saved
        BY <2>1, <3>1, <3>4
      <4>2. /\ k.pageNum + Named(k.pageQ) + ToPrint(u) = k.numPages * u.copy
            /\ k.kind.copies > 1 =>
                 Named(k.pageQ) + Named(k.saveQ) + ToKeep(u) = k.numPages
        BY <1>t, <1>x, <2>2, <2>5, <2>c, <3>3, <3>s, <4>1
      <4>3. /\ u.copy <= k.kind.copies + 1 /\ ~(u.copy > k.kind.copies)
            /\ u.copy > 1 => k.lastSeen
        BY <1>t, <2>2, <3>3, <3>s, <4>1
      <4> QED  BY <4>2, <4>3 DEF CopyCounted
    <3>5. CASE t.page.last /\ t.copy = j.kind.copies
      <4>1. /\ u.copy = t.copy + 1 /\ Named(j.pageQ) = 0 /\ j.lastSeen
        BY <2>1, <2>2, <3>5, EmptyPages
      <4>2. j.pageNum = j.numPages * j.kind.copies
        BY <1>t, <1>x, <3>3, <3>5, <4>1
      <4> QED  BY <1>t, <3>5, <3>s, <4>1, <4>2 DEF CopyCounted
    <3>6. CASE t.page.last /\ t.copy # j.kind.copies
      <4>1. /\ u.copy = t.copy + 1 /\ Named(j.pageQ) = 0 /\ j.lastSeen
            /\ j.kind.copies > 1 /\ t.copy + 1 <= j.kind.copies
        BY <1>t, <2>1, <2>2, <3>6, EmptyPages
      <4>2. k.pageQ = saved /\ k.saveQ = << >>
        BY <2>1, <3>1, <3>6, <4>1
      <4>3. Named(k.pageQ) = j.numPages /\ Named(k.saveQ) = 0
        BY <1>t, <2>5, <2>c, <3>3, <4>1, <4>2, EmptyPages
      <4>4. j.pageNum + Named(k.pageQ) = j.numPages * u.copy
        BY <1>t, <1>x, <3>3, <4>1, <4>3
      <4>5. /\ k.pageNum + Named(k.pageQ) + ToPrint(u) = k.numPages * u.copy
            /\ Named(k.pageQ) + Named(k.saveQ) + ToKeep(u) = k.numPages
        BY <1>t, <2>2, <3>s, <4>3, <4>4
      <4>6. /\ u.copy <= k.kind.copies + 1 /\ ~(u.copy > k.kind.copies) /\ k.lastSeen
        BY <1>t, <3>s, <4>1
      <4> QED  BY <4>5, <4>6 DEF CopyCounted
    <3> QED  BY <3>4, <3>5, <3>6
  <2> QED
    BY <2>1, <2>2, <2>6, <2>7, <2>8, <2>9 DEF CountedWork, Starting, InHand, Ending
<1>10. CASE BeginsSingle(j, k, t, u)
  <2>1. /\ SameJob(j, k) /\ SameQueues(j, k) /\ SameLocals(t, u)
        /\ t.pc = "single" /\ u.pc = "print"
        /\ t.copy <= j.kind.copies /\ ~(t.copy > 1 /\ j.kind.pdf)
        /\ k.pageNum = j.pageNum + 1 /\ k.failed = j.failed
        /\ ~j.kind.isDir /\ k.state # "QUEUED"
    BY <1>10 DEF BeginsSingle, OrderedWork, Underway
  <2>2. Counted(k)
    BY <1>k, <2>1 DEF SameJob, SameQueues, Counted, Underway
  <2>3. SingleCounted(j, t)
    BY <2>1 DEF CountedWork
  <2>4. SingleCounted(k, u)
    BY <1>t, <2>1, <2>3 DEF SingleCounted, SameJob, SameLocals
  <2> QED
    BY <2>1, <2>2, <2>4 DEF CountedWork, Copies, Starting, InHand, Ending, SameJob
<1>11. CASE PrintsSingle(j, k, t, u)
  <2>1. /\ SameJob(j, k) /\ SameQueues(j, k) /\ k.pageNum = j.pageNum
        /\ t.pc = "print" /\ u.pc = "single" /\ ~j.kind.isDir
        /\ k.failed <=> j.failed \/ u.result = "ERROR"
        /\ u.copy = t.copy + 1 /\ j.state # "QUEUED" /\ k.state # "QUEUED"
    BY <1>11 DEF PrintsSingle, Underway, SameJob
  <2>2. Counted(k)
    BY <1>k, <2>1 DEF SameJob, SameQueues, Counted, Underway
  <2>3. SingleCounted(j, t)
    BY <2>1 DEF CountedWork
  <2>4. SingleCounted(k, u)
    BY <1>t, <2>1, <2>3 DEF SingleCounted, SameJob
  <2> QED
    BY <2>1, <2>2, <2>4 DEF CountedWork, Copies, Copying, Starting, InHand, Ending, SameJob
<1>12. CASE EndsSingles(j, k, t, u)
  <2>1. /\ SameJob(j, k) /\ SameQueues(j, k) /\ SameCount(j, k)
        /\ t.pc = "single" /\ u.pc = "end" /\ ~j.kind.isDir
        /\ u.result = "OK" => ~(t.copy <= j.kind.copies /\ ~(t.copy > 1 /\ j.kind.pdf))
    BY <1>12 DEF EndsSingles, SamePages, OrderedWork
  <2>2. Counted(k)
    BY <1>k, <2>1 DEF SameJob, SameQueues, SameCount, Counted, Underway
  <2>3. SingleCounted(j, t) /\ j.numPages = 1
    BY <2>1 DEF CountedWork, Counted, Underway
  <2>4. ASSUME u.result = "OK"
        PROVE  k.pageNum = Total(k)
    <3>1. j.pageNum = IF j.kind.pdf THEN 1 ELSE j.kind.copies
      BY <1>t, <2>1, <2>3, <2>4 DEF SingleCounted
    <3>2. Total(j) = IF j.kind.pdf THEN 1 ELSE j.kind.copies
      BY <1>t, <1>x, <2>1, <2>3 DEF Total
    <3>3. Total(k) = Total(j) /\ k.pageNum = j.pageNum
      BY <2>1 DEF SameJob, SameCount, Total
    <3> QED  BY <3>1, <3>2, <3>3
  <2> QED
    BY <2>1, <2>2, <2>4 DEF CountedWork, Copies, Starting, Copying, InHand, SameJob
<1>13. CASE Ends(j, k, t, u)
  <2>1. /\ SameJob(j, k) /\ SameQueues(j, k) /\ SameCount(j, k)
        /\ t.pc \in Ending /\ u.pc \in Ending
        /\ u.corrupted = t.corrupted /\ (u.result = "OK" => t.result = "OK")
    BY <1>13 DEF Ends, SamePages
  <2>2. Counted(k)
    BY <1>k, <2>1 DEF SameJob, SameQueues, SameCount, Counted, Underway
  <2>3. Total(k) = Total(j)
    BY <2>1 DEF SameJob, Total
  <2>4. Fine(k, u) => Fine(j, t)
    BY <2>1 DEF Fine, SameJob, SameCount
  <2>5. Fine(k, u) /\ u.result = "OK"
          => k.pageNum = Total(k) /\ (k.kind.isDir => k.lastSeen)
    BY <2>1, <2>3, <2>4 DEF CountedWork, SameJob, SameCount
  <2>6. u.pc \notin Starting \cup Copying \cup {"single"}
    BY <2>1 DEF Ending, Starting, Copying, InHand
  <2>7. ~Copies(k, u) /\ u.pc # "print"
    BY <2>6 DEF Copies, Copying, InHand
  <2> QED  BY <2>2, <2>5, <2>6, <2>7 DEF CountedWork
<1> QED
  BY <1>1, <1>2, <1>3, <1>4, <1>5, <1>6, <1>7, <1>8, <1>9, <1>10, <1>11, <1>12, <1>13
     DEF PageStep

(* A page that is handed in belongs to the first copy: after it the last   *)
(* page of the job has been seen.                                          *)
LEMMA CountedGains ==
  ASSUME NEW j \in Job, NEW k \in Job, Ordered(j), Roomy(j), Counted(j),
         Gains(j, k), Turns(j, k), Fits
  PROVE  /\ Counted(k)
         /\ \A t \in Thread :
              OrderedWork(j, t) /\ CountedWork(j, t) => CountedWork(k, t)
<1>t. /\ j.pageQ \in Seq(Page) /\ j.numPages \in Nat /\ j.pageNum \in Nat
      /\ Named(j.pageQ) \in Nat /\ j.kind.copies \in Nat \ {0}
  <2>1. j.pageQ \in Seq(Page) /\ j.kind \in JobKind
    BY DEF Job
  <2> QED  BY <2>1, NamedType DEF Job, JobKind
<1>f. ASSUME NEW t, Fine(k, t) PROVE Fine(j, t)
  BY <1>f DEF Fine, Gains, Turns, SameCount
<1>1. CASE k.pageQ = j.pageQ /\ k.lastSeen = j.lastSeen /\ k.numPages = j.numPages
  <2>1. Total(k) = Total(j)
    BY <1>1 DEF Total, Gains
  <2>2. Counted(k)
    BY <1>1, <2>1 DEF Gains, Turns, SameCount, Counted
  <2>3. ASSUME NEW t \in Thread, CopyCounted(j, t) PROVE CopyCounted(k, t)
    BY <1>1, <2>3 DEF CopyCounted, Gains, SameCount
  <2>4. ASSUME NEW t \in Thread, SingleCounted(j, t) PROVE SingleCounted(k, t)
    BY <1>1, <2>4 DEF SingleCounted, Gains, SameCount
  <2>5. ASSUME NEW t \in Thread, CountedWork(j, t) PROVE CountedWork(k, t)
    BY <1>1, <1>f, <2>1, <2>3, <2>4, <2>5 DEF CountedWork, Gains, SameCount, Copies
  <2> QED  BY <2>2, <2>5
<1>2. ASSUME NEW p \in Page, GivenPage(j, k, p)
      PROVE  /\ Counted(k)
             /\ \A t \in Thread :
                  OrderedWork(j, t) /\ CountedWork(j, t) => CountedWork(k, t)
  <2>1. /\ k.pageQ = Append(j.pageQ, p) /\ k.numPages = j.numPages + Counts(p)
        /\ j.kind.isDir /\ ~j.lastSeen /\ NoLast(j.pageQ)
    BY <1>2, GivenRoom
  <2>2. /\ k.kind = j.kind /\ k.saveQ = j.saveQ /\ k.pageNum = j.pageNum
        /\ k.failed = j.failed
    BY DEF Gains, SameCount
  <2>3. OnlyEnds(k.pageQ) /\ Named(k.pageQ) = Named(j.pageQ) + Counts(p)
    BY <1>t, <1>2, <2>1, AppendPages DEF GivenPage, Counted
  <2>c. Counts(p) \in Nat
    BY DEF Counts
  <2>4. Counted(k)
    <3>1. k.state = "QUEUED" => k.pageNum = 0 /\ Named(k.pageQ) = k.numPages
      BY <1>t, <2>1, <2>2, <2>3, <2>c DEF Turns, Counted
    <3>2. k.state = "COMPLETED" => k.failed
      BY <2>1, <2>2 DEF Turns, Counted
    <3> QED  BY <2>1, <2>2, <2>3, <3>1, <3>2 DEF Counted
  <2>5. ASSUME NEW t \in Thread, CopyCounted(j, t)
        PROVE  CopyCounted(k, t)
    <3>1. t.copy = 1 /\ Named(j.saveQ) \in Nat /\ ToPrint(t) \in Nat /\ ToKeep(t) \in Nat
      <4>1. t.copy \in Nat \ {0} /\ Named(j.saveQ) \in Nat
        BY NamedType, PageTypes
      <4> QED  BY <2>1, <2>5, <4>1 DEF CopyCounted, ToPrint, ToKeep
    <3>2. k.numPages * t.copy = k.numPages /\ j.numPages * t.copy = j.numPages
      BY <1>t, <2>1, <2>c, <3>1, Products
    <3>3. /\ j.pageNum + Named(j.pageQ) + ToPrint(t) = j.numPages
          /\ j.kind.copies > 1 =>
               Named(j.pageQ) + Named(j.saveQ) + ToKeep(t) = j.numPages
      BY <1>t, <2>5, <3>1, <3>2 DEF CopyCounted
    <3>4. /\ k.pageNum + Named(k.pageQ) + ToPrint(t) = k.numPages * t.copy
          /\ k.kind.copies > 1 =>
               Named(k.pageQ) + Named(k.saveQ) + ToKeep(t) = k.numPages
      <4>1. /\ k.pageNum = j.pageNum /\ k.saveQ = j.saveQ /\ k.kind = j.kind
            /\ Named(k.pageQ) = Named(j.pageQ) + Counts(p)
            /\ k.numPages * t.copy = j.numPages + Counts(p)
        BY <2>1, <2>2, <2>3, <3>2
      <4>2. k.pageNum + Named(k.pageQ) + ToPrint(t) = k.numPages * t.copy
        BY <1>t, <2>c, <3>1, <3>3, <4>1
      <4>3. k.kind.copies > 1 => Named(k.pageQ) + Named(k.saveQ) + ToKeep(t) = k.numPages
        BY <1>t, <2>1, <2>c, <3>1, <3>3, <4>1
      <4> QED  BY <4>2, <4>3
    <3>5. t.copy <= k.kind.copies /\ ~(t.copy > k.kind.copies) /\ ~(t.copy > 1)
          /\ t.copy <= k.kind.copies + 1
      BY <1>t, <2>2, <3>1
    <3> QED  BY <3>4, <3>5 DEF CopyCounted
  <2>6. ASSUME NEW t \in Thread, OrderedWork(j, t), CountedWork(j, t)
        PROVE  CountedWork(k, t)
    <3>1. t.pc \in Starting => k.pageNum = 0 /\ Named(k.pageQ) = k.numPages
      BY <1>t, <2>1, <2>2, <2>3, <2>c, <2>6 DEF CountedWork
    <3>2. Copies(k, t) <=> Copies(j, t)
      BY <2>2 DEF Copies
    <3>3. ~(t.pc \in Ending /\ Fine(k, t) /\ t.result = "OK")
      BY <1>f, <2>1, <2>6 DEF CountedWork
    <3> QED  BY <1>f, <2>1, <2>2, <2>5, <2>6, <3>1, <3>2, <3>3 DEF CountedWork
  <2> QED  BY <2>4, <2>6
<1> QED  BY <1>1, <1>2 DEF Gains

-----------------------------------------------------------------------------
(* The three together.                                                     *)
LEMMA SoundStep ==
  ASSUME NEW j \in Job, NEW k \in Job, NEW t \in Thread, NEW u \in Thread,
         Sound(j), AtWork(j, t), PageStep(j, k, t, u), Underway(j, t), Underway(k, u),
         j.state # "COMPLETED"
  PROVE  Sound(k) /\ AtWork(k, u)
BY OrderedStep, RoomyStep, CountedStep DEF Sound, AtWork

(* The steps of the others.                                                *)
LEMMA SoundGains ==
  ASSUME NEW j \in Job, NEW k \in Job, Sound(j), Gains(j, k), Turns(j, k)
  PROVE  Sound(k) /\ \A t \in Thread : AtWork(j, t) => AtWork(k, t)
BY OrderedGains, RoomyGains, CountedGains DEF Sound, AtWork

(* A new job and a free slot; a job taken up; a job that is over.          *)
LEMMA SoundRenewed ==
  ASSUME NEW k \in Job, Renewed(k)
  PROVE  Sound(k)
<1>1. Ordered(k)
  BY EmptyPages DEF Renewed, Ordered
<1>2. Roomy(k)
  <2>1. Waiting(k) = 0 /\ Ended(k) = 0 /\ MaxPages \in Nat
    BY EmptyPages, WprintAssumption DEF Renewed, Waiting, Ended
  <2> QED  BY <2>1 DEF Renewed, Roomy
<1>3. Counted(k)
  BY EmptyPages DEF Renewed, Counted
<1> QED  BY <1>1, <1>2, <1>3 DEF Sound

(* A queued job is taken up with an empty history.                         *)
LEMMA SoundTakenUp ==
  ASSUME NEW j \in Job, NEW t \in Thread, Sound(j), j.state = "QUEUED",
         t.pc \in {"check", "launch"}, t.copy = 1, ~t.corrupted
  PROVE  AtWork(j, t)
<1>1. OrderedWork(j, t)
  BY DEF Sound, Ordered, OrderedWork, Copies, Copying, InHand
<1>2. Fits => RoomyWork(j, t)
  BY DEF Sound, Roomy, RoomyWork, MayReceive, Copies, Copying, InHand
<1>3. Fits => CountedWork(j, t)
  BY DEF Sound, Counted, CountedWork, Copies, Copying, InHand, Ending
<1> QED  BY <1>1, <1>2, <1>3 DEF AtWork

(* A job that is over has printed what it counts.                          *)
LEMMA SoundConcluded ==
  ASSUME NEW j \in Job, NEW k \in Job, NEW t \in Thread,
         Sound(j), AtWork(j, t), Underway(j, t), Concludes(j, k, t)
  PROVE  Sound(k)
<1>1. Ordered(k)
  BY DEF Concludes, SameQueues, Final, Sound, Ordered
<1>2. Fits => Roomy(k)
  <2>1. Waiting(k) = Waiting(j) /\ Ended(k) = Ended(j)
    BY DEF Concludes, SameQueues, Waiting, Ended
  <2> QED  BY <2>1 DEF Concludes, SameQueues, Final, Sound, Roomy
<1>3. Fits => Counted(k)
  <2>1. Total(k) = Total(j)
    BY DEF Concludes, Total
  <2>2. ASSUME Fits, k.state = "COMPLETED", ~k.failed
        PROVE  ~k.cancelled /\ k.pageNum = Total(k) /\ (k.kind.isDir => k.lastSeen)
    <3>1. Fine(j, t) /\ t.pc \in Ending /\ t.result = "OK"
      BY <2>2 DEF Concludes, SameCount, Fine, Ending
    <3> QED  BY <2>1, <2>2, <3>1 DEF Concludes, SameCount, Fine, AtWork, CountedWork
  <2> QED
    BY <2>2 DEF Concludes, SameQueues, SameCount, Final, Sound, Counted, Underway
<1> QED  BY <1>1, <1>2, <1>3 DEF Sound

(* The invariant.                                                          *)
LEMMA PagesInit == Init => PagesInv
<1> SUFFICES ASSUME Init PROVE PagesInv
  OBVIOUS
<1>1. \A s \in Slots : jobs[s] = FreeJob(s)
  BY DEF Init
<1>2. \A s \in Slots : Renewed(FreeJob(s))
  BY DEF Renewed, FreeJob
<1>3. th.pc = "receive" /\ ~th.corrupted
  BY DEF Init, IdleThread
<1> QED
  BY <1>1, <1>2, <1>3, FreeJobType, SoundRenewed DEF PagesInv, Busy, Held

(* Every step: the job thread, the others, and the way from one job to the *)
(* next.                                                                   *)
LEMMA PagesStep ==
  TypeOK /\ TypeOK' /\ SlotsAreSafe /\ SlotsAreSafe' /\ PagesInv /\ [Next]_vars => PagesInv'
<1> SUFFICES ASSUME TypeOK, TypeOK', SlotsAreSafe, SlotsAreSafe', PagesInv, [Next]_vars
             PROVE  PagesInv'
  OBVIOUS
<1>t. /\ jobs \in [Slots -> Job] /\ jobs' \in [Slots -> Job]
      /\ th \in Thread /\ th' \in Thread /\ th.cur \in Slots /\ th'.cur \in Slots
      /\ jobs[th.cur] = Cur /\ jobs'[th'.cur] = Cur'
  BY DEF TypeOK, Thread, Cur
<1>u. /\ th.pc \in Busy => Underway(Cur, th) /\ Cur.state # "COMPLETED"
      /\ th'.pc \in Busy => Underway(Cur', th')
  <2>1. th.pc \in Busy => Underway(Cur, th) /\ Cur.state # "COMPLETED"
    BY DEF SlotsAreSafe, JobKeepsItsSlot, LockFree, Active, Held, Underway
  <2>2. th'.pc \in Busy => Underway(Cur', th')
    BY DEF SlotsAreSafe, JobKeepsItsSlot, LockFree, Active, Held, Underway
  <2> QED  BY <2>1, <2>2
<1>1. CASE UNCHANGED vars
  BY <1>1 DEF vars, PagesInv, Cur
<1>2. CASE Client \/ StatusThread
  <2>1. /\ UNCHANGED th
        /\ \A s \in Slots :
             \/ Gains(jobs[s], jobs'[s]) /\ Turns(jobs[s], jobs'[s])
             \/ ~(th.pc \in Busy /\ th.cur = s) /\ Renewed(jobs'[s])
    BY <1>2, OutsidePages
  <2>2. \A s \in Slots : Sound(jobs'[s])
    BY <1>t, <2>1, SoundGains, SoundRenewed DEF PagesInv
  <2>3. th.pc \in Busy => AtWork(jobs'[th.cur], th)
    BY <1>t, <2>1, SoundGains DEF PagesInv
  <2> QED  BY <1>t, <2>1, <2>2, <2>3 DEF PagesInv
<1>3. CASE JobThread /\ th.pc \in Busy
  <2>1. \A s \in Slots : s # th.cur => jobs'[s] = jobs[s]
    BY <1>3, JobThreadPromise DEF Idles, Works, TakesUp, Finishes, OnlyCur
  <2>2. CASE /\ th'.pc \in Busy /\ th'.cur = th.cur
             /\ PageStep(Cur, jobs'[th.cur], th, th')
    <3>1. Sound(Cur') /\ AtWork(Cur', th')
      BY <1>t, <1>u, <1>3, <2>2, SoundStep DEF PagesInv
    <3> QED  BY <1>t, <2>1, <2>2, <3>1 DEF PagesInv, Busy, Held
  <2>3. CASE th' = IdleThread /\ Concludes(Cur, jobs'[th.cur], th)
    <3>1. Sound(jobs'[th.cur])
      BY <1>t, <1>u, <1>3, <2>3, SoundConcluded DEF PagesInv
    <3>2. th'.pc = "receive" /\ ~th'.corrupted
      BY <2>3 DEF IdleThread
    <3> QED  BY <1>t, <2>1, <3>1, <3>2 DEF PagesInv, Busy, Held
  <2> QED  BY <1>3, <2>2, <2>3, JobThreadPages
<1>4. CASE JobThread /\ th.pc \notin Busy
  <2>1. CASE ReceiveMsg
    <3>1. /\ UNCHANGED jobs /\ th.pc = "receive"
          /\ th'.pc \in {"exited", "lookup"} /\ th'.corrupted = th.corrupted
      BY <1>t, <2>1 DEF ReceiveMsg, Goto, Thread
    <3> QED  BY <1>t, <3>1 DEF PagesInv, Busy, Held
  <2>2. CASE LookupJob
    <3>1. UNCHANGED jobs /\ th.pc = "lookup"
      BY <2>2 DEF LookupJob
    <3>2. th.copy = 1 /\ ~th.corrupted
      BY <3>1 DEF SlotsAreSafe, PagesInv
    <3>3. CASE th' = IdleThread
      BY <1>t, <3>1, <3>3 DEF PagesInv, IdleThread, Busy, Held
    <3>4. ASSUME NEW s \in Slots, jobs[s].state = "QUEUED",
                 NEW pc \in {"check", "launch"}, th' = [th EXCEPT !.cur = s, !.pc = pc]
          PROVE  PagesInv'
      <4>1. /\ th'.pc = pc /\ th'.cur = s /\ th'.copy = 1 /\ ~th'.corrupted
        BY <1>t, <3>2, <3>4 DEF Thread
      <4>2. AtWork(jobs[s], th')
        BY <1>t, <3>4, <4>1, SoundTakenUp DEF PagesInv
      <4> QED  BY <1>t, <3>1, <4>1, <4>2 DEF PagesInv
    <3> QED
      <4>1. \/ th' = IdleThread
            \/ \E s \in Slots : /\ jobs[s].state = "QUEUED"
                                /\ \E pc \in {"check", "launch"} :
                                     th' = [th EXCEPT !.cur = s, !.pc = pc]
        BY <2>2 DEF LookupJob
      <4> QED  BY <3>3, <3>4, <4>1
  <2>3. ReceiveMsg \/ LookupJob
    BY <1>4 DEF JobThread, WakeUp, PrinterGone, PrinterTooBusy,
       Launch, BeginCopy, ReceivePage, PrintBlank, AfterPage, PrinterReady,
       PrinterBusy, TakePage, BeginSingle, EndPrinting, PrintPage, PrintSingle,
       WaitStart, WaitDone, LastTry, StopStatus, JoinStatus, Finish, Busy, Held
  <2> QED  BY <2>1, <2>2, <2>3
<1> QED  BY <1>1, <1>2, <1>3, <1>4 DEF Next

(* The two threads agree: the slots are safe, a status thread is never     *)
(* joined unasked, and no page comes after the last page of a job.  For a  *)
(* library in which start_job does not fail under a status thread.         *)
THEOREM ThreadsInAgreement ==
  ASSUME ~StartFails
  PROVE  Spec => []ThreadsAgree
<1>1. SlotsAreSafe /\ StopAsked /\ PagesInv => ThreadsAgree
  <2> SUFFICES ASSUME SlotsAreSafe, StopAsked, PagesInv PROVE ThreadsAgree
    OBVIOUS
  <2>1. StopIsAsked
    BY DEF StopAsked, StopIsAsked
  <2>2. LastPageIsLast
    <3>1. \A s \in Slots : LastAtEnd(jobs[s].pageQ)
      BY DEF PagesInv, Sound, Ordered
    <3>2. th.pc \in {"gotPage", "print", "blank", "after"} /\ Cur.kind.isDir
            => (th.page.last => Cur.pageQ = << >>)
      BY DEF PagesInv, AtWork, OrderedWork, Copies, Copying, InHand, Busy, Held
    <3> QED  BY <3>1, <3>2 DEF LastPageIsLast, LastAtEnd
  <2> QED  BY <2>1, <2>2 DEF ThreadsAgree
<1>2. Init => StopAsked
  BY DEF Init, IdleThread, StopAsked
<1> QED
  BY <1>1, <1>2, TypeInit, TypeStep, SlotsInit, SlotsStep, StopStep, PagesInit, PagesStep, PTL
     DEF Spec

(* A job thread that waits for a page of a job that is being cancelled has *)
(* one to receive.                                                         *)
THEOREM CancelWakes ==
  ASSUME ~StartFails, Fits
  PROVE  Spec => []CancelWakesReceiver
<1>1. TypeOK /\ PagesInv => CancelWakesReceiver
  <2> SUFFICES ASSUME TypeOK, PagesInv, th.pc = "recvPage", Cur.state = "CANCEL_REQUEST"
               PROVE  Cur.pageQ # << >>
    BY DEF CancelWakesReceiver
  <2>1. Sound(Cur) /\ AtWork(Cur, th)
    BY DEF PagesInv, TypeOK, Thread, Cur, Busy
  <2>2. Cur.kind.isDir
    BY <2>1 DEF AtWork, OrderedWork, Copying, InHand
  <2>3. Cur.lastSeen
    BY <2>1, <2>2 DEF Sound, Roomy
  <2> QED  BY <2>1, <2>3 DEF AtWork, RoomyWork, MayReceive, EndsIt
<1> QED
  BY <1>1, TypeInit, TypeStep, SlotsInit, SlotsStep, PagesInit, PagesStep, PTL DEF Spec

(* Unless a page of it failed, a completed job has printed every page it   *)
(* was handed once for every copy, and was not cancelled.                  *)
THEOREM CompletedPrints ==
  ASSUME ~StartFails, Fits
  PROVE  Spec => []CompletedPrintsAll
<1>1. PagesInv => CompletedPrintsAll
  BY DEF PagesInv, Sound, Counted, Total, CompletedPrintsAll
<1> QED
  BY <1>1, TypeInit, TypeStep, SlotsInit, SlotsStep, PagesInit, PagesStep, PTL DEF Spec
=============================================================================
