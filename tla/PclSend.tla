--------------------------------- MODULE PclSend ---------------------------------
(***************************************************************************)
(* The PCL plugin (jni/wprint/plugins/plugin_pcl.c): the job thread        *)
(* decodes a page stripe by stripe into a ring of buffers and queues each  *)
(* stripe for the send thread, which hands it to the page description      *)
(* generator and gives the buffer back through a counting semaphore.       *)
(*                                                                         *)
(* The message queue is the bounded queue of module BoundedQueue, which    *)
(* refuses a message when it is full.  Both generators answer              *)
(* canCancelMidPage with false: the branches for the other answer are left *)
(* out.                                                                    *)
(***************************************************************************)
EXTENDS Integers, Sequences, FiniteSets

CONSTANTS
  MaxSendBuffs,   (* MAX_SEND_BUFFS: buffers of a page, permits to fill them *)
  QueueSize,      (* 2 * MAX_SEND_BUFFS: the capacity of the message queue   *)
  Stripes,        (* how many stripes a page may have                        *)
  Broken,         (* may files be missing or corrupt, may malloc fail        *)
  MaxPages        (* bound on the pages and blank pages of a job             *)

ASSUME PclAssumption ==
  /\ MaxSendBuffs \in Nat \ {0}
  /\ QueueSize \in Nat \ {0}
  /\ Stripes \subseteq Nat \ {0}
  /\ Broken \in BOOLEAN
  /\ MaxPages \in Nat

VARIABLES
  queue,       (* priv->msgQ                                                 *)
  permits,     (* the value of buffs_sem                                     *)
  prod,        (* the job thread in the plugin: pc and locals of _print_page *)
  send,        (* the send thread: pc and the message in its hand            *)
  mem,         (* what is in each buffer of each page                        *)
  cancelled,   (* job_params->cancelled, set by the spooler at any time      *)
  out          (* history: the page the generator is in, and its rows        *)

vars == <<queue, permits, prod, send, mem, cancelled, out>>

Pages   == 1 .. MaxPages
Indexes == 0 .. (MaxSendBuffs - 1)

(* msgQ_msg_t.  A send message names its buffer by page and index.         *)
(* late: had the job been cancelled when the stripe was made (history). *)
Msg(id, page) == [id |-> id, page |-> page]
SendMsg(page, index, row, late) ==
  [id |-> "send", page |-> page, index |-> index, row |-> row, late |-> late]
(* An end of page that frees buffers, and one that does not.               *)
EndPageMsg(page, frees) == [id |-> "endPage", page |-> page, frees |-> frees]

NoPool == [i \in Indexes |-> "none"]

(* _start_job: the send thread runs and has a message to start the job.    *)
Init ==
  /\ queue = <<Msg("startJob", 0)>>
  /\ permits = MaxSendBuffs
  /\ prod = [pc |-> "idle", page |-> 0, left |-> 0, row |-> 0, index |-> 0,
             blank |-> 0, late |-> FALSE, failed |-> FALSE, frees |-> FALSE,
             back |-> FALSE]
  /\ send = [pc |-> "receive", msg |-> Msg("startJob", 0)]
  /\ mem = [p \in Pages |-> NoPool]
  /\ cancelled = FALSE
  /\ out = [page |-> 0, open |-> FALSE, row |-> 0, ended |-> 0]

HasRoom == Len(queue) < QueueSize
Put(msg) == queue' = IF HasRoom THEN Append(queue, msg) ELSE queue

Cancel ==
  /\ ~cancelled
  /\ cancelled' = TRUE
  /\ UNCHANGED <<queue, permits, prod, send, mem, out>>

(***************************************************************************)
(* The job thread: _print_page.                                            *)
(***************************************************************************)
NewPage == prod.pc = "idle" /\ prod.page < MaxPages

(* The file is there and its buffers are: the page is started.             *)
BeginPage(stripes) ==
  /\ NewPage
  /\ LET p == prod.page + 1 IN
       /\ Put(Msg("startPage", p))
       /\ mem' = [mem EXCEPT ![p] = [i \in Indexes |-> "junk"]]
       /\ prod' = [prod EXCEPT !.pc = "loop", !.page = p, !.left = stripes,
                               !.row = 0, !.index = 0, !.blank = 0,
                               !.failed = FALSE, !.frees = TRUE]
  /\ UNCHANGED <<permits, send, cancelled, out>>

(* No file, no image in it, or not enough memory for all the buffers.      *)
BreakPage(allocated) ==
  /\ Broken
  /\ NewPage
  /\ LET p == prod.page + 1 IN
       /\ mem' = [mem EXCEPT ![p] =
                    [i \in Indexes |-> IF i < allocated THEN "junk" ELSE "none"]]
       /\ prod' = [prod EXCEPT !.pc = "endPage", !.page = p,
                               !.frees = allocated > 0]
  /\ UNCHANGED <<queue, permits, send, cancelled, out>>

(* No memory for the image: the page is given up and never ended.          *)
AbandonPage ==
  /\ Broken
  /\ NewPage
  /\ prod' = [prod EXCEPT !.page = @ + 1, !.back = TRUE]
  /\ UNCHANGED <<queue, permits, send, mem, cancelled, out>>

(* The head of the loop over the stripes, with sem_wait.                   *)
MoreStripes == prod.left > 0 /\ ~prod.failed

(* Mutant: no wait for a buffer.                                           *)
TakeAnyBuffer ==
  /\ prod.pc = "loop"
  /\ MoreStripes
  /\ permits' = IF permits > 0 THEN permits - 1 ELSE 0
  /\ prod' = [prod EXCEPT !.pc = "fill"]
  /\ UNCHANGED <<queue, send, mem, cancelled, out>>

WaitBuffer ==
  /\ prod.pc = "loop"
  /\ MoreStripes
  /\ permits > 0
  /\ permits' = permits - 1
  /\ prod' = [prod EXCEPT !.pc = "fill"]
  /\ UNCHANGED <<queue, send, mem, cancelled, out>>

(* After a cancel every buffer of the ring is blanked once, and is then    *)
(* sent as it is.                                                          *)
Blanks == prod.blank < MaxSendBuffs

Filled(content, blank) ==
  /\ mem' = [mem EXCEPT ![prod.page][prod.index] = content]
  /\ prod' = [prod EXCEPT !.pc = "put", !.blank = blank, !.late = cancelled]

Fill ==
  /\ prod.pc = "fill"
  /\ IF ~cancelled THEN Filled("image", IF prod.blank > 0 THEN prod.blank - 1 ELSE 0)
     ELSE IF Blanks THEN Filled("blank", prod.blank + 1)
     ELSE Filled(mem[prod.page][prod.index], prod.blank)
  /\ UNCHANGED <<queue, permits, send, cancelled, out>>

(* The decoder has no more rows, or finds the file to be corrupt.          *)
FillFails ==
  /\ Broken
  /\ prod.pc = "fill"
  /\ ~cancelled
  /\ permits' = permits + 1
  /\ prod' = [prod EXCEPT !.pc = "endPage"]
  /\ UNCHANGED <<queue, send, mem, cancelled, out>>

(* Mutant: the stripe overtakes what is queued, as with MSG_Q_PRIORITY.    *)
SendStripeFirst ==
  /\ prod.pc = "put"
  /\ HasRoom
  /\ queue' = <<SendMsg(prod.page, prod.index, prod.row, prod.late)>> \o queue
  /\ prod' = [prod EXCEPT !.pc = "loop", !.row = @ + 1, !.left = @ - 1,
                          !.index = (@ + 1) % MaxSendBuffs]
  /\ UNCHANGED <<permits, send, mem, cancelled, out>>

(* Mutant: the permit is not given back when the queue is full.            *)
SendStripeLeaking ==
  /\ prod.pc = "put"
  /\ Put(SendMsg(prod.page, prod.index, prod.row, prod.late))
  /\ prod' = [prod EXCEPT !.pc = "loop", !.row = @ + 1, !.left = @ - 1,
                          !.index = (@ + 1) % MaxSendBuffs, !.failed = ~HasRoom]
  /\ UNCHANGED <<permits, send, mem, cancelled, out>>

(* The stripe is queued.  When the queue is full the page has failed.      *)
SendStripe ==
  /\ prod.pc = "put"
  /\ Put(SendMsg(prod.page, prod.index, prod.row, prod.late))
  /\ permits' = IF HasRoom THEN permits ELSE permits + 1
  /\ prod' = [prod EXCEPT !.pc = "loop", !.row = @ + 1, !.left = @ - 1,
                          !.index = (@ + 1) % MaxSendBuffs, !.failed = ~HasRoom]
  /\ UNCHANGED <<send, mem, cancelled, out>>

LoopEnds ==
  /\ prod.pc = "loop"
  /\ ~MoreStripes
  /\ prod' = [prod EXCEPT !.pc = "endPage"]
  /\ UNCHANGED <<queue, permits, send, mem, cancelled, out>>

(* Mutant: the job thread frees the buffers itself.                        *)
EndPageFreeing ==
  /\ prod.pc = "endPage"
  /\ Put(EndPageMsg(prod.page, FALSE))
  /\ mem' = [mem EXCEPT ![prod.page] = NoPool]
  /\ prod' = [prod EXCEPT !.pc = "idle", !.back = TRUE, !.left = 0,
                          !.frees = FALSE]
  /\ UNCHANGED <<permits, send, cancelled, out>>

(* The end of the page takes its buffers along.                            *)
EndPage ==
  /\ prod.pc = "endPage"
  /\ Put(EndPageMsg(prod.page, prod.frees))
  /\ prod' = [prod EXCEPT !.pc = "idle", !.back = TRUE, !.left = 0,
                          !.frees = FALSE]
  /\ UNCHANGED <<permits, send, mem, cancelled, out>>

(* _print_blank_page: the spooler asks for one after the last page of a    *)
(* copy, for a page of a later copy that is known to be corrupt, and at    *)
(* the end of a job of no pages.                                           *)
BlankPage ==
  /\ NewPage
  /\ prod.page > 0 => prod.back \/ Broken
  /\ Put(EndPageMsg(prod.page + 1, FALSE))
  /\ prod' = [prod EXCEPT !.page = @ + 1, !.back = FALSE,
                          !.pc = IF prod.page = 0 THEN "end" ELSE "idle"]
  /\ UNCHANGED <<permits, send, mem, cancelled, out>>

(* _end_job and _stop_thread: the thread is told and joined.               *)
EndJob ==
  /\ prod.pc = "end" \/ (prod.pc = "idle" /\ prod.page > 0)
  /\ Put(Msg("endJob", 0))
  /\ prod' = [prod EXCEPT !.pc = "join"]
  /\ UNCHANGED <<permits, send, mem, cancelled, out>>

Join ==
  /\ prod.pc = "join"
  /\ send.pc = "ended"
  /\ prod' = [prod EXCEPT !.pc = "gone"]
  /\ UNCHANGED <<queue, permits, send, mem, cancelled, out>>

(***************************************************************************)
(* The send thread, _send_thread.  out follows the calls of the generator. *)
(***************************************************************************)
Take(id) ==
  /\ send.pc = "receive"
  /\ queue # << >>
  /\ Head(queue).id = id
  /\ queue' = Tail(queue)

StartsJob ==
  /\ Take("startJob")
  /\ UNCHANGED <<permits, prod, send, mem, cancelled, out>>

StartsPage ==
  /\ Take("startPage")
  /\ out' = [out EXCEPT !.page = Head(queue).page, !.open = TRUE, !.row = 0]
  /\ UNCHANGED <<permits, prod, send, mem, cancelled>>

(* print_swath reads the buffer while the job thread goes on.              *)
BeginsSwath ==
  /\ Take("send")
  /\ send' = [pc |-> "swath", msg |-> Head(queue)]
  /\ UNCHANGED <<permits, prod, mem, cancelled, out>>

(* Mutant: the buffer of a cancelled job is not given back.                *)
EndsSwathKeeping ==
  /\ send.pc = "swath"
  /\ permits' = IF cancelled THEN permits ELSE permits + 1
  /\ out' = [out EXCEPT !.row = @ + 1]
  /\ send' = [send EXCEPT !.pc = "receive"]
  /\ UNCHANGED <<queue, prod, mem, cancelled>>

EndsSwath ==
  /\ send.pc = "swath"
  /\ permits' = permits + 1
  /\ out' = [out EXCEPT !.row = @ + 1]
  /\ send' = [send EXCEPT !.pc = "receive"]
  /\ UNCHANGED <<queue, prod, mem, cancelled>>

EndsPage ==
  /\ Take("endPage")
  /\ mem' = IF Head(queue).frees
              THEN [mem EXCEPT ![Head(queue).page] = NoPool] ELSE mem
  /\ out' = [out EXCEPT !.open = FALSE, !.ended = @ + 1]
  /\ UNCHANGED <<permits, prod, send, cancelled>>

EndsJob ==
  /\ Take("endJob")
  /\ send' = [send EXCEPT !.pc = "ended"]
  /\ UNCHANGED <<permits, prod, mem, cancelled, out>>

-----------------------------------------------------------------------------
JobThread ==
  \/ \E n \in Stripes : BeginPage(n)
  \/ \E n \in 0 .. (MaxSendBuffs - 1) : BreakPage(n)
  \/ AbandonPage
  \/ WaitBuffer \/ Fill \/ FillFails \/ SendStripe \/ LoopEnds \/ EndPage
  \/ BlankPage \/ EndJob \/ Join

SendThread ==
  \/ StartsJob \/ StartsPage \/ BeginsSwath \/ EndsSwath \/ EndsPage \/ EndsJob

Next == Cancel \/ JobThread \/ SendThread

Spec == Init /\ [][Next]_vars

(* Both are threads; a swath is written to the printer at some time, or    *)
(* fails.                                                                  *)
FairSpec == Spec /\ WF_vars(JobThread) /\ WF_vars(SendThread)

-----------------------------------------------------------------------------
Messages ==
  {Msg("startJob", 0), Msg("endJob", 0)}
    \cup {Msg("startPage", p) : p \in Pages}
    \cup [id : {"send"}, page : Pages, index : Indexes, row : Nat, late : BOOLEAN]
    \cup [id : {"endPage"}, page : Pages, frees : BOOLEAN]

(* The values the variables may have; the semaphore never counts more      *)
(* buffers than a page has.                                                *)
TypeOK ==
  /\ queue \in Seq(Messages) /\ Len(queue) <= QueueSize
  /\ permits \in 0 .. MaxSendBuffs
  /\ prod \in [pc : {"idle", "loop", "fill", "put", "endPage", "end", "join", "gone"},
               page : 0 .. MaxPages, left : Nat, row : Nat, index : Indexes,
               blank : 0 .. MaxSendBuffs, late : BOOLEAN, failed : BOOLEAN,
               frees : BOOLEAN, back : BOOLEAN]
  /\ send \in [pc : {"receive", "swath", "ended"}, msg : Messages]
  /\ mem \in [Pages -> [Indexes -> {"none", "junk", "image", "blank"}]]
  /\ cancelled \in BOOLEAN
  /\ out \in [page : 0 .. MaxPages, open : BOOLEAN, row : Nat, ended : Nat]

(* A buffer is in use while it is queued or in the send thread's hand.     *)
Queued == {i \in 1 .. Len(queue) : queue[i].id = "send"}
InFlight == {queue[i] : i \in Queued} \cup (IF send.pc = "swath" THEN {send.msg} ELSE {})
InUse(p, i) == \E m \in InFlight : m.page = p /\ m.index = i

(* A buffer has one owner: the job thread never fills a buffer that is     *)
(* still waiting to be sent or being sent.                                 *)
OneOwner == prod.pc \in {"fill", "put"} => ~InUse(prod.page, prod.index)

(* Nobody uses a buffer that has been freed, or was never allocated: not   *)
(* the job thread, not the send thread, and no message refers to one.      *)
NoDeadBuffer ==
  /\ \A m \in InFlight : mem[m.page][m.index] \notin {"none", "junk"}
  /\ prod.pc \in {"loop", "fill", "put"} => "none" \notin {mem[prod.page][i] : i \in Indexes}

(* Every permit is somewhere: in the semaphore, with the job thread, or    *)
(* with a stripe on its way.  None is lost, so a page is never stuck for   *)
(* want of a buffer.                                                       *)
PermitsKept ==
  permits + (IF prod.pc \in {"fill", "put"} THEN 1 ELSE 0) + Cardinality(Queued)
    + (IF send.pc = "swath" THEN 1 ELSE 0) = MaxSendBuffs

(* Once the job thread has seen the cancel, everything it sends is blank,  *)
(* although it blanks each buffer of the ring only once.                   *)
BlankAfterCancel ==
  \A m \in InFlight : m.late => mem[m.page][m.index] = "blank"

(* What the threads do with a buffer: nothing when it is gone, and nothing *)
(* but white once the job has been cancelled.                              *)
BuffersAreSafe == NoDeadBuffer /\ BlankAfterCancel

(* A full queue is never met: each message reaches the send thread.        *)
NothingRefused ==
  prod.pc \in {"idle", "put", "endPage", "end"} => HasRoom

(* A swath goes to the page that was started for it, the rows in order.    *)
SwathsInOrder ==
  send.pc = "swath" => /\ out.open
                       /\ out.page = send.msg.page
                       /\ out.row = send.msg.row

(* The send thread is joined only after it has been told to end.           *)
EndIsSent ==
  prod.pc = "join" => \/ send.pc = "ended"
                      \/ \E i \in 1 .. Len(queue) : queue[i].id = "endJob"

(* When the job is over every page, blank or not, has been ended once.     *)
EveryPageEnds ==
  prod.pc = "gone" => out.ended = prod.page /\ ~out.open

(* The generator is called in its protocol: rows in order between the      *)
(* start and the end of their page, and every page is ended.               *)
CallsInOrder == SwathsInOrder /\ EveryPageEnds

(* A page that is being printed, and the end of a job, come to an end.     *)
PluginReturns ==
  /\ prod.pc \in {"loop", "fill", "put", "endPage"} ~> prod.pc \in {"idle", "join", "gone"}
  /\ prod.pc = "join" ~> prod.pc = "gone"
=============================================================================
