------------------------ MODULE PrinterMonitors_proofs ------------------------
(***************************************************************************)
(* Any number of clients, printers and monitors: two threads never ask the *)
(* same printer, and a handle is freed once, after its last use, in every  *)
(* order of the starts and stops; every client on the list is watched, and *)
(* the last one stops its printer's monitor.                               *)
(***************************************************************************)
EXTENDS PrinterMonitors, TLAPS

Messages == [what : {"start", "stop"}, client : Clients]
            \cup [what : {"status"}, mon : Ids, status : States]

Tasks == [what : {"start", "stop"}, client : Clients, mon : Ids \cup {None},
          pc : {"lock", "lookup", "notify", "add", "sleep", "unlock", "stop", "join"}]

(* The types of what the threads, the handles and the tasks depend on.     *)
Typed ==
  /\ tracks \in [Clients -> Printers]
  /\ jobQ \in Seq(Messages)
  /\ tasks \subseteq Tasks
  /\ map \in [Printers -> Ids \cup {None}]
  /\ mons \in [Ids -> Monitor]
  /\ printer \in [Printers -> States]

(* One task at a time is past the lock.                                    *)
OneTask ==
  /\ \A t \in tasks : t.pc # "lock" => Holds(t)
  /\ \A t, u \in tasks : t.pc # "lock" /\ u.pc # "lock" => t = u

(* The monitor a task has in hand has been made and not been freed.  A     *)
(* task that adds a client has the monitor of its printer, or a new one    *)
(* that the map does not have yet; one that stops a monitor has found it   *)
(* in the map and no client on the list.                                   *)
Hand(t) ==
  /\ t.pc \in {"lock", "lookup"} => t.mon = None
  /\ t.mon # None => mons[t.mon].ref # "none" /\ mons[t.mon].stops = 0
  /\ t.pc \in {"notify", "add"} =>
       /\ t.mon # None
       /\ mons[t.mon].printer = PrinterOf(t)
       /\ MonOf(t) \in {None, t.mon}
  /\ t.pc \in {"stop", "join"} => t.mon # None /\ MonOf(t) = t.mon /\ mClients = << >>

InHand == \A t \in tasks : Hand(t)

(* A monitor in the map is that of its printer and can be used.            *)
Mapped ==
  \A p \in Printers :
    map[p] # None => /\ mons[map[p]].printer = p
                     /\ mons[map[p]].ref # "none" /\ mons[map[p]].stops = 0

(* A handle is freed at most once, and then its thread has ended.  A       *)
(* thread that is alive is the map's, or a task is about to put it there.  *)
Adds(t, i) == t.pc \in {"notify", "add"} /\ t.mon = i

Threads ==
  \A i \in Ids :
    /\ mons[i].ref = "none" => mons[i].thread = "none" /\ mons[i].stops = 0
    /\ mons[i].stops = 0 \/ (mons[i].stops = 1 /\ mons[i].thread = "ended")
    /\ Alive(i) => \/ map[mons[i].printer] = i
                   \/ \E t \in tasks : Adds(t, i)

MonitorInv == Typed /\ OneTask /\ InHand /\ Mapped /\ Threads

LEMMA NoneIsNoId == None \notin Ids /\ \A i \in Ids : i # None
  BY MonitorsAssumption DEF None, Ids

(* It says what the runs check.                                            *)
LEMMA MonitorSafe == MonitorInv => MonitorsAreSafe
  <1> SUFFICES ASSUME MonitorInv PROVE MonitorsAreSafe
    OBVIOUS
  <1>1. OneThreadPerPrinter
    <2> SUFFICES ASSUME NEW i \in Ids, NEW k \in Ids, Alive(i), Alive(k),
                        mons[i].printer = mons[k].printer
                 PROVE  i = k
      BY DEF OneThreadPerPrinter
    <2>1. mons[i].printer \in Printers
      BY DEF MonitorInv, Typed, Monitor
    <2>2. ASSUME NEW a \in Ids, NEW b \in Ids, map[mons[a].printer] = a,
                 NEW t \in tasks, Adds(t, b), mons[a].printer = mons[b].printer
          PROVE  a = b
      BY <2>2, NoneIsNoId DEF MonitorInv, InHand, Hand, Adds, MonOf
    <2>3. ASSUME NEW t \in tasks, NEW u \in tasks, Adds(t, i), Adds(u, k)
          PROVE  i = k
      BY <2>3 DEF MonitorInv, OneTask, Adds
    <2>4. /\ map[mons[i].printer] = i \/ \E t \in tasks : Adds(t, i)
          /\ map[mons[k].printer] = k \/ \E t \in tasks : Adds(t, k)
      BY DEF MonitorInv, Threads
    <2>5. CASE map[mons[i].printer] = i /\ map[mons[k].printer] = k
      BY <2>5
    <2>6. CASE map[mons[i].printer] = i /\ \E t \in tasks : Adds(t, k)
      BY <2>2, <2>6
    <2>7. CASE map[mons[k].printer] = k /\ \E t \in tasks : Adds(t, i)
      BY <2>2, <2>7
    <2> QED  BY <2>3, <2>4, <2>5, <2>6, <2>7
  <1>2. FreedAtLast
    <2> SUFFICES ASSUME NEW i \in Ids
                 PROVE  /\ mons[i].stops <= 1
                        /\ mons[i].stops = 1 => /\ ~Alive(i)
                                                /\ \A p \in Printers : map[p] # i
                                                /\ \A t \in tasks : t.mon # i
      BY DEF FreedAtLast
    <2>1. mons[i].stops = 0 \/ (mons[i].stops = 1 /\ mons[i].thread = "ended")
      BY DEF MonitorInv, Threads
    <2>2. mons[i].stops = 1 => ~Alive(i)
      BY <2>1 DEF Alive
    <2>3. \A p \in Printers : map[p] = i => mons[i].stops = 0
      BY NoneIsNoId DEF MonitorInv, Mapped
    <2>4. \A t \in tasks : t.mon = i => mons[i].stops = 0
      BY NoneIsNoId DEF MonitorInv, InHand, Hand
    <2> QED  BY <2>1, <2>2, <2>3, <2>4
  <1> QED  BY <1>1, <1>2 DEF MonitorsAreSafe

LEMMA InitMonitor == Init => MonitorInv
  <1> SUFFICES ASSUME Init PROVE MonitorInv
    OBVIOUS
  <1>1. NoMonitor \in Monitor
    BY MonitorsAssumption DEF NoMonitor, Monitor
  <1>2. Typed
    <2>1. tracks \in [Clients -> Printers]
      BY MonitorsAssumption DEF Init
    <2>2. mons \in [Ids -> Monitor]
      BY <1>1 DEF Init
    <2>3. printer \in [Printers -> States]
      BY DEF Init, States
    <2>4. jobQ \in Seq(Messages) /\ tasks \subseteq Tasks
          /\ map \in [Printers -> Ids \cup {None}]
      BY DEF Init
    <2> QED  BY <2>1, <2>2, <2>3, <2>4 DEF Typed
  <1>3. OneTask /\ InHand /\ Mapped
    BY DEF Init, OneTask, InHand, Mapped
  <1>4. Threads
    <2>1. NoMonitor.thread = "none" /\ NoMonitor.stops = 0
      BY DEF NoMonitor
    <2>2. \A i \in Ids : mons[i] = NoMonitor
      BY DEF Init
    <2> QED  BY <2>1, <2>2 DEF Threads, Alive
  <1> QED  BY <1>2, <1>3, <1>4 DEF MonitorInv

-----------------------------------------------------------------------------
(* Steps of the clients, of the JobHandler, of threads and of printers:    *)
(* they leave the tasks and the map alone, and what a thread writes into   *)
(* its monitor is not its printer nor the number of its stops.             *)
LEMMA Elsewhere ==
  ASSUME MonitorInv, Typed', UNCHANGED <<tracks, tasks, lock, mClients, map>>,
         \A i \in Ids :
           /\ mons'[i].printer = mons[i].printer /\ mons'[i].stops = mons[i].stops
           /\ mons[i].ref # "none" <=> mons'[i].ref # "none"
           /\ mons'[i].thread = mons[i].thread \/ Alive(i)
  PROVE  MonitorInv'
  <1>1. OneTask'
    BY DEF MonitorInv, OneTask, Holds
  <1>2. \A t \in tasks : t.mon # None => t.mon \in Ids
    BY DEF MonitorInv, Typed, Tasks
  <1>3. InHand'
    BY <1>2 DEF MonitorInv, InHand, Hand, PrinterOf, MonOf
  <1>4. \A q \in Printers : map[q] # None => map[q] \in Ids
    BY DEF MonitorInv, Typed
  <1>5. Mapped'
    BY <1>4 DEF MonitorInv, Mapped
  <1>6. Threads'
    <2> SUFFICES ASSUME NEW i \in Ids
                 PROVE  /\ mons'[i].ref = "none" => mons'[i].thread = "none" /\ mons'[i].stops = 0
                        /\ mons'[i].stops = 0 \/ (mons'[i].stops = 1 /\ mons'[i].thread = "ended")
                        /\ Alive(i)' => \/ map'[mons'[i].printer] = i
                                        \/ \E t \in tasks' : Adds(t, i)
      BY DEF Threads, Adds
    <2>1. /\ mons[i].ref = "none" => mons[i].thread = "none" /\ mons[i].stops = 0
          /\ mons[i].stops = 0 \/ (mons[i].stops = 1 /\ mons[i].thread = "ended")
          /\ Alive(i) => \/ map[mons[i].printer] = i
                         \/ \E t \in tasks : Adds(t, i)
      BY DEF MonitorInv, Threads
    <2>2. Alive(i)' => Alive(i)
      BY DEF Alive
    <2> QED  BY <2>1, <2>2 DEF Alive
  <1> QED  BY <1>1, <1>3, <1>5, <1>6 DEF MonitorInv

(* The task that has the lock goes on.                                     *)
LEMMA GoesOn ==
  ASSUME MonitorInv, NEW t \in tasks, t.pc # "lock", NEW u \in Tasks, Goto(t, u),
         u.what = t.what, u.client = t.client, u.pc # "lock", Hand(u)',
         \A i \in Ids : Adds(t, i) => Adds(u, i),
         UNCHANGED <<tracks, jobQ, lock, map, mons, printer>>
  PROVE  MonitorInv'
  <1>1. tasks' = (tasks \ {t}) \cup {u} /\ \A d \in tasks \ {t} : d.pc = "lock"
    BY DEF Goto, MonitorInv, OneTask
  <1>2. Typed'
    BY <1>1 DEF MonitorInv, Typed
  <1>3. OneTask'
    BY <1>1 DEF MonitorInv, OneTask, Holds
  <1>4. \A d \in tasks \ {t} : Hand(d)'
    BY <1>1 DEF MonitorInv, InHand, Hand
  <1>5. InHand'
    BY <1>1, <1>4 DEF InHand
  <1>6. Mapped'
    BY DEF MonitorInv, Mapped
  <1>7. Threads'
    <2>1. \A i \in Ids : (\E d \in tasks : Adds(d, i)) => \E d \in tasks' : Adds(d, i)
      BY <1>1 DEF Adds
    <2> QED  BY <2>1 DEF MonitorInv, Threads, Alive, Adds
  <1> QED  BY <1>2, <1>3, <1>5, <1>6, <1>7 DEF MonitorInv

(* A task that has no monitor still to be put into the map ends.           *)
LEMMA TaskEnds ==
  ASSUME MonitorInv, NEW t \in tasks, t.pc \notin {"lock", "notify", "add"},
         tasks' = tasks \ {t}, lock' = Nobody,
         UNCHANGED <<tracks, jobQ, map, mClients, mons, printer>>
  PROVE  MonitorInv'
  <1>1. \A d \in tasks' : d \in tasks /\ d.pc = "lock"
    BY DEF MonitorInv, OneTask
  <1>2. Typed' /\ OneTask'
    BY <1>1 DEF MonitorInv, Typed, OneTask
  <1>3. InHand' /\ Mapped'
    BY <1>1 DEF MonitorInv, InHand, Hand, Mapped, MonOf, PrinterOf
  <1>4. Threads'
    <2>1. \A i \in Ids : (\E d \in tasks : Adds(d, i)) => FALSE
      BY <1>1 DEF Adds
    <2> QED  BY <2>1 DEF MonitorInv, Threads, Alive
  <1> QED  BY <1>2, <1>3, <1>4 DEF MonitorInv

-----------------------------------------------------------------------------
LEMMA TrackingStep ==
  ASSUME MonitorInv, NEW c \in Clients, StartTracking(c) \/ StopTracking(c)
  PROVE  MonitorInv'
  <1>1. jobQ' \in Seq(Messages)
    <2>1. Ask("start", c) \in Messages /\ Ask("stop", c) \in Messages
      BY DEF Ask, Messages
    <2>2. jobQ \in Seq(Messages)
      BY DEF MonitorInv, Typed
    <2>3. /\ Append(jobQ, Ask("start", c)) \in Seq(Messages)
          /\ <<Ask("stop", c)>> \in Seq(Messages)
      BY <2>1, <2>2
    <2>4. <<Ask("stop", c)>> \o jobQ \in Seq(Messages)
      BY <2>2, <2>3
    <2>5. jobQ' \in {Append(jobQ, Ask("start", c)), <<Ask("stop", c)>> \o jobQ}
      BY DEF StartTracking, StopTracking
    <2> QED  BY <2>3, <2>4, <2>5
  <1>2. UNCHANGED <<tracks, tasks, lock, mClients, map, mons, printer>>
    BY DEF StartTracking, StopTracking, tvars, pvars
  <1>3. Typed'
    BY <1>1, <1>2 DEF MonitorInv, Typed
  <1> QED  BY <1>2, <1>3, Elsewhere

LEMMA HandleAskStep ==
  ASSUME MonitorInv, HandleAsk
  PROVE  MonitorInv'
  <1>1. /\ tasks' = tasks \cup {Task(Head(jobQ).what, Head(jobQ).client, "lock")}
        /\ jobQ' = Tail(jobQ) /\ jobQ # << >>
        /\ Head(jobQ).what \in {"start", "stop"}
        /\ UNCHANGED <<tracks, lock, mClients, map, mons, printer>>
    BY DEF HandleAsk, Handler, cvars, pvars
  <1>2. jobQ \in Seq(Messages) /\ Head(jobQ) \in Messages /\ Tail(jobQ) \in Seq(Messages)
    BY <1>1 DEF MonitorInv, Typed
  <1>3. Head(jobQ).client \in Clients
    BY <1>1, <1>2 DEF Messages
  <1>4. PICK u \in Tasks : u.pc = "lock" /\ u.mon = None /\ tasks' = tasks \cup {u}
    BY <1>1, <1>3 DEF Task, Tasks
  <1>5. Typed' /\ OneTask'
    BY <1>1, <1>2, <1>4 DEF MonitorInv, Typed, OneTask, Holds
  <1>6. Hand(u)'
    BY <1>4 DEF Hand
  <1>7. \A t \in tasks : Hand(t)'
    BY <1>1 DEF MonitorInv, InHand, Hand, PrinterOf, MonOf
  <1>8. InHand'
    BY <1>4, <1>6, <1>7 DEF InHand
  <1>9. Mapped' /\ Threads'
    BY <1>1 DEF Mapped, MonitorInv, Threads, Alive, Adds
  <1> QED  BY <1>5, <1>8, <1>9 DEF MonitorInv

(* A status that is new to a monitor is put down in it.                    *)
LEMMA HandleStatusStep ==
  ASSUME MonitorInv, HandleStatus
  PROVE  MonitorInv'
  <1> DEFINE m == Head(jobQ)
  <1>1. /\ m.what = "status" /\ jobQ' = Tail(jobQ) /\ jobQ # << >>
        /\ UNCHANGED <<tracks, tasks, lock, mClients, map, printer>>
    BY DEF HandleStatus, Handler, cvars, tvars, pvars
  <1>2. jobQ \in Seq(Messages) /\ m \in Messages /\ Tail(jobQ) \in Seq(Messages)
    BY <1>1 DEF MonitorInv, Typed
  <1>3. m.mon \in Ids /\ m.status \in States
    BY <1>1, <1>2 DEF Messages
  <1>4. mons \in [Ids -> Monitor]
    BY DEF MonitorInv, Typed
  <1>5. CASE UNCHANGED mons
    <2>1. Typed'
      BY <1>1, <1>2, <1>5 DEF MonitorInv, Typed
    <2> QED  BY <1>1, <1>5, <2>1, Elsewhere
  <1>6. CASE mons' = [mons EXCEPT ![m.mon].current = m.status]
    <2>1. mons[m.mon] \in Monitor
      BY <1>3, <1>4
    <2> DEFINE n == [mons[m.mon] EXCEPT !.current = m.status]
    <2>2. n \in Monitor /\ n.printer = mons[m.mon].printer /\ n.stops = mons[m.mon].stops
          /\ n.ref = mons[m.mon].ref /\ n.thread = mons[m.mon].thread
      BY <1>3, <2>1 DEF Monitor
    <2>3. mons' = [mons EXCEPT ![m.mon] = n]
      BY <1>6
    <2> HIDE DEF n
    <2>4. mons' \in [Ids -> Monitor]
      BY <1>3, <1>4, <2>2, <2>3
    <2>5. Typed'
      BY <1>1, <1>2, <2>4 DEF MonitorInv, Typed
    <2>6. \A i \in Ids :
            /\ mons'[i].printer = mons[i].printer /\ mons'[i].stops = mons[i].stops
            /\ mons'[i].ref = mons[i].ref /\ mons'[i].thread = mons[i].thread
      BY <1>3, <1>4, <2>2, <2>3
    <2> QED  BY <1>1, <2>5, <2>6, Elsewhere
  <1> QED  BY <1>5, <1>6 DEF HandleStatus, Set

LEMMA NotifyStep ==
  ASSUME MonitorInv, NotifyNext
  PROVE  MonitorInv'
  <1>1. UNCHANGED <<tracks, jobQ, tasks, lock, mClients, map, mons, printer>>
    BY DEF NotifyNext, tvars, pvars
  <1>2. Typed'
    BY <1>1 DEF MonitorInv, Typed
  <1> QED  BY <1>1, <1>2, Elsewhere

LEMMA PrinterStep ==
  ASSUME MonitorInv, NEW p \in Printers, PrinterChanges(p)
  PROVE  MonitorInv'
  <1>1. /\ UNCHANGED <<tracks, jobQ, tasks, lock, mClients, map, mons>>
        /\ printer' \in [Printers -> States]
    BY DEF PrinterChanges, cvars, qvars, tvars, MonitorInv, Typed
  <1>2. Typed'
    BY <1>1 DEF MonitorInv, Typed
  <1> QED  BY <1>1, <1>2, Elsewhere

(* The threads of monitors.                                                *)
LEMMA ThreadsStep ==
  ASSUME MonitorInv, NEW k \in Ids, ThreadStep(k)
  PROVE  MonitorInv'
  <1>1. /\ UNCHANGED <<tracks, tasks, lock, mClients, map, printer>>
        /\ mons \in [Ids -> Monitor] /\ jobQ \in Seq(Messages)
        /\ mons[k] \in Monitor /\ printer \in [Printers -> States]
    BY DEF ThreadStep, ThreadStart, ThreadSem, ThreadPoll, ThreadStop, cvars, tvars, pvars,
           MonitorInv, Typed
  <1>2. jobQ' = jobQ \/ \E s \in States : jobQ' = Append(jobQ, Told(k, s))
    <2>1. mons[k].printer \in Printers /\ mons[k].last \in States \cup {"none"}
      BY <1>1 DEF Monitor
    <2>2. printer[mons[k].printer] \in States /\ "blocked" \in States
      BY <1>1, <2>1 DEF States
    <2> QED  BY <2>1, <2>2 DEF ThreadStep, ThreadStart, ThreadSem, ThreadPoll, ThreadStop,
                              Tell, qvars
  <1>3. jobQ' \in Seq(Messages)
    <2>1. \A s \in States : Told(k, s) \in Messages
      BY DEF Told, Messages
    <2> QED  BY <1>1, <1>2, <2>1
  <1>4. \E n \in Monitor :
          /\ mons' = [mons EXCEPT ![k] = n]
          /\ n.printer = mons[k].printer /\ n.stops = mons[k].stops
          /\ n.ref # "none" <=> mons[k].ref # "none"
          /\ n.thread = mons[k].thread \/ Alive(k)
    <2>1. CASE ThreadStart(k)
      <3> DEFINE w == IF mons[k].http THEN "poll" ELSE "sem"
                 n == [mons[k] EXCEPT !.stop = FALSE, !.thread = w]
      <3>1. mons' = [mons EXCEPT ![k] = n] /\ mons[k].thread = "created"
        BY <2>1, <1>1 DEF ThreadStart, Monitor
      <3>2. w \in {"poll", "sem"}
        OBVIOUS
      <3> HIDE DEF w
      <3>3. n \in Monitor /\ n.printer = mons[k].printer /\ n.stops = mons[k].stops
            /\ n.ref = mons[k].ref
        BY <1>1, <3>2 DEF Monitor
      <3>4. Alive(k)
        BY <3>1 DEF Alive
      <3> HIDE DEF n
      <3> QED  BY <3>1, <3>3, <3>4
    <2>2. CASE ThreadSem(k)
      <3> DEFINE n == [mons[k] EXCEPT !.sem = mons[k].sem - 1, !.thread = "ended",
                                      !.ref = "deleted"]
      <3>1. mons' = [mons EXCEPT ![k] = n] /\ mons[k].thread = "sem" /\ mons[k].sem > 0
        BY <2>2, <1>1 DEF ThreadSem
      <3>2. mons[k].sem - 1 \in Nat
        BY <1>1, <3>1 DEF Monitor
      <3>3. n \in Monitor /\ n.printer = mons[k].printer /\ n.stops = mons[k].stops
            /\ n.ref = "deleted"
        BY <1>1, <3>2 DEF Monitor
      <3>4. Alive(k)
        BY <3>1 DEF Alive
      <3>5. mons[k].ref # "none"
        BY <3>1 DEF MonitorInv, Threads
      <3> HIDE DEF n
      <3> QED  BY <3>1, <3>3, <3>4, <3>5
    <2>3. CASE ThreadPoll(k)
      <3> DEFINE s == printer[mons[k].printer]
                 n == [mons[k] EXCEPT !.last = s]
      <3>1. mons' = [mons EXCEPT ![k] = n]
        BY <2>3, <1>1 DEF ThreadPoll, Set
      <3>2. s \in States
        BY <1>1 DEF Monitor
      <3>3. n \in Monitor /\ n.printer = mons[k].printer /\ n.stops = mons[k].stops
            /\ n.ref = mons[k].ref /\ n.thread = mons[k].thread
        BY <1>1, <3>2 DEF Monitor
      <3> HIDE DEF n
      <3> QED  BY <3>1, <3>3
    <2>4. CASE ThreadStop(k)
      <3> DEFINE n == [mons[k] EXCEPT !.thread = "ended"]
      <3>1. mons' = [mons EXCEPT ![k] = n] /\ mons[k].thread = "poll"
        BY <2>4, <1>1 DEF ThreadStop, Set
      <3>2. n \in Monitor /\ n.printer = mons[k].printer /\ n.stops = mons[k].stops
            /\ n.ref = mons[k].ref
        BY <1>1 DEF Monitor
      <3>3. Alive(k)
        BY <3>1 DEF Alive
      <3> HIDE DEF n
      <3> QED  BY <3>1, <3>2, <3>3
    <2> QED  BY <2>1, <2>2, <2>3, <2>4 DEF ThreadStep
  <1>5. mons' \in [Ids -> Monitor]
    BY <1>1, <1>4
  <1>6. Typed'
    BY <1>1, <1>3, <1>5 DEF MonitorInv, Typed
  <1>7. \A i \in Ids :
          /\ mons'[i].printer = mons[i].printer /\ mons'[i].stops = mons[i].stops
          /\ mons[i].ref # "none" <=> mons'[i].ref # "none"
          /\ mons'[i].thread = mons[i].thread \/ Alive(i)
    BY <1>1, <1>4
  <1> QED  BY <1>1, <1>6, <1>7, Elsewhere

-----------------------------------------------------------------------------
(* The tasks.  What each step finds.                                       *)
LEMMA TaskFacts ==
  ASSUME MonitorInv, NEW t \in tasks
  PROVE  /\ t \in Tasks /\ Hand(t) /\ t.mon \in Ids \cup {None}
         /\ PrinterOf(t) \in Printers /\ MonOf(t) \in Ids \cup {None}
         /\ t.what \in {"start", "stop"} /\ t.client \in Clients
         /\ mons \in [Ids -> Monitor]
  BY DEF MonitorInv, Typed, Tasks, InHand, PrinterOf, MonOf

LEMMA LockStep ==
  ASSUME MonitorInv, NEW t \in tasks, Lock(t)
  PROVE  MonitorInv'
  <1>1. /\ t.pc = "lock" /\ lock = Nobody
        /\ lock' = [what |-> t.what, client |-> t.client]
        /\ tasks' = (tasks \ {t}) \cup {[t EXCEPT !.pc = "lookup"]}
        /\ UNCHANGED <<tracks, jobQ, mClients, map, mons, printer>>
    BY DEF Lock, At, Goto, cvars, qvars, pvars
  <1>2. ASSUME NEW d \in tasks, Holds(d) PROVE FALSE
    <2>1. [what |-> d.what, client |-> d.client] = [what |-> "nobody"]
      BY <1>1, <1>2 DEF Holds, Nobody
    <2>2. d.what = "nobody"
      BY <2>1
    <2> QED  BY <2>2, TaskFacts
  <1>3. \A d \in tasks : d.pc = "lock"
    BY <1>2 DEF MonitorInv, OneTask
  <1>4. PICK u \in Tasks : /\ u.pc = "lookup" /\ u.what = t.what /\ u.client = t.client
                          /\ u.mon = t.mon /\ tasks' = (tasks \ {t}) \cup {u}
    BY <1>1, TaskFacts DEF Tasks
  <1>5. Typed' /\ OneTask'
    BY <1>1, <1>3, <1>4 DEF MonitorInv, Typed, OneTask, Holds
  <1>6. u.mon = None
    BY <1>1, <1>4, TaskFacts DEF Hand
  <1>7. Hand(u)'
    BY <1>4, <1>6 DEF Hand
  <1>8. \A d \in tasks : Hand(d)'
    BY <1>1 DEF MonitorInv, InHand, Hand, PrinterOf, MonOf
  <1>9. InHand'
    BY <1>4, <1>7, <1>8 DEF InHand
  <1>10. Mapped'
    BY <1>1 DEF MonitorInv, Mapped
  <1>11. Threads'
    <2>1. \A i \in Ids : ~\E d \in tasks : Adds(d, i)
      BY <1>3 DEF Adds
    <2> QED  BY <1>1, <2>1 DEF MonitorInv, Threads, Alive
  <1> QED  BY <1>5, <1>9, <1>10, <1>11 DEF MonitorInv

LEMMA StartFoundStep ==
  ASSUME MonitorInv, NEW t \in tasks, StartFound(t)
  PROVE  MonitorInv'
  <1>1. /\ t.pc = "lookup" /\ MonOf(t) # None
        /\ Goto(t, [t EXCEPT !.pc = "notify", !.mon = MonOf(t)])
        /\ UNCHANGED <<tracks, jobQ, lock, map, mons, printer>>
    BY DEF StartFound, At, cvars, qvars, pvars
  <1>2. PICK u \in Tasks : /\ u.pc = "notify" /\ u.what = t.what /\ u.client = t.client
                          /\ u.mon = MonOf(t) /\ Goto(t, u)
    BY <1>1, TaskFacts DEF Tasks
  <1>3. /\ mons[MonOf(t)].printer = PrinterOf(t)
        /\ mons[MonOf(t)].ref # "none" /\ mons[MonOf(t)].stops = 0
    BY <1>1, TaskFacts DEF MonitorInv, Mapped, MonOf
  <1>4. Hand(u)'
    BY <1>1, <1>2, <1>3 DEF Hand, PrinterOf, MonOf
  <1>5. \A i \in Ids : Adds(t, i) => Adds(u, i)
    BY <1>1 DEF Adds
  <1> QED  BY <1>1, <1>2, <1>4, <1>5, GoesOn

LEMMA StartErrorStep ==
  ASSUME MonitorInv, NEW t \in tasks, StartError(t)
  PROVE  MonitorInv'
  <1>1. /\ t.pc = "lookup" /\ Goto(t, [t EXCEPT !.pc = "sleep"])
        /\ UNCHANGED <<tracks, jobQ, lock, map, mons, printer>>
    BY DEF StartError, At, qvars, pvars
  <1>2. PICK u \in Tasks : /\ u.pc = "sleep" /\ u.what = t.what /\ u.client = t.client
                          /\ u.mon = t.mon /\ Goto(t, u)
    BY <1>1, TaskFacts DEF Tasks
  <1>3. Hand(u)'
    BY <1>1, <1>2, TaskFacts DEF Hand
  <1>4. \A i \in Ids : Adds(t, i) => Adds(u, i)
    BY <1>1 DEF Adds
  <1> QED  BY <1>1, <1>2, <1>3, <1>4, GoesOn

LEMMA AddNotifyStep ==
  ASSUME MonitorInv, NEW t \in tasks, AddNotify(t)
  PROVE  MonitorInv'
  <1>1. /\ t.pc = "notify" /\ Goto(t, [t EXCEPT !.pc = "add"])
        /\ UNCHANGED <<tracks, jobQ, lock, map, mons, printer>>
    BY DEF AddNotify, At, qvars, pvars
  <1>2. PICK u \in Tasks : /\ u.pc = "add" /\ u.what = t.what /\ u.client = t.client
                          /\ u.mon = t.mon /\ Goto(t, u)
    BY <1>1, TaskFacts DEF Tasks
  <1>3. Hand(u)'
    BY <1>1, <1>2, TaskFacts DEF Hand, PrinterOf, MonOf
  <1>4. \A i \in Ids : Adds(t, i) => Adds(u, i)
    BY <1>2 DEF Adds
  <1> QED  BY <1>1, <1>2, <1>3, <1>4, GoesOn

LEMMA RemoveClientStep ==
  ASSUME MonitorInv, NEW t \in tasks, RemoveClient(t)
  PROVE  MonitorInv'
  <1>1. /\ t.pc = "lookup" /\ MonOf(t) # None
        /\ UNCHANGED <<tracks, jobQ, lock, map, mons, printer>>
    BY DEF RemoveClient, At, cvars, pvars
  <1>2. \A i \in Ids : \A u : Adds(t, i) => Adds(u, i)
    BY <1>1 DEF Adds
  <1>3. CASE mClients' = << >>
    <2>1. PICK u \in Tasks : /\ u.pc = "stop" /\ u.what = t.what /\ u.client = t.client
                            /\ u.mon = MonOf(t) /\ Goto(t, u)
      BY <1>3, TaskFacts DEF Tasks, RemoveClient
    <2>2. mons[MonOf(t)].ref # "none" /\ mons[MonOf(t)].stops = 0
      BY <1>1, TaskFacts DEF MonitorInv, Mapped, MonOf
    <2>3. Hand(u)'
      BY <1>1, <1>3, <2>1, <2>2 DEF Hand, PrinterOf, MonOf
    <2> QED  BY <1>1, <1>2, <2>1, <2>3, GoesOn
  <1>4. CASE mClients' # << >>
    <2>1. PICK u \in Tasks : /\ u.pc = "unlock" /\ u.what = t.what /\ u.client = t.client
                            /\ u.mon = t.mon /\ Goto(t, u)
      BY <1>4, TaskFacts DEF Tasks, RemoveClient
    <2>2. Hand(u)'
      BY <1>1, <2>1, TaskFacts DEF Hand
    <2> QED  BY <1>1, <1>2, <2>1, <2>2, GoesOn
  <1> QED  BY <1>3, <1>4

LEMMA EndSteps ==
  ASSUME MonitorInv, NEW t \in tasks, Release(t) \/ StopNothing(t) \/ StopUnlock(t)
  PROVE  MonitorInv'
  <1>1. /\ t.pc \in {"sleep", "lookup", "unlock"}
        /\ tasks' = tasks \ {t} /\ lock' = Nobody
        /\ UNCHANGED <<tracks, jobQ, map, mClients, mons, printer>>
    BY DEF Release, StopNothing, StopUnlock, At, cvars, qvars, pvars
  <1> QED  BY <1>1, TaskEnds

(* A new monitor: nothing points to it yet.                                *)
LEMMA StartNewStep ==
  ASSUME MonitorInv, NEW t \in tasks, StartNew(t)
  PROVE  MonitorInv'
  <1> DEFINE i == CHOOSE i \in Ids \ Made : TRUE
  <1>1. /\ t.pc = "lookup" /\ MonOf(t) = None /\ Made # Ids
        /\ Goto(t, [t EXCEPT !.pc = "notify", !.mon = i])
        /\ UNCHANGED <<tracks, jobQ, lock, mClients, map, printer>>
    BY DEF StartNew, At, cvars, qvars, pvars
  <1>2. PICK http \in BOOLEAN :
          mons' = [mons EXCEPT ![i] =
                     [NoMonitor EXCEPT !.printer = PrinterOf(t), !.http = http,
                                       !.thread = "created", !.ref = "live"]]
    BY DEF StartNew
  <1>3. i \in Ids /\ mons[i].ref = "none"
    BY <1>1 DEF Made
  <1>4. NoMonitor \in Monitor /\ NoMonitor.stops = 0
    BY MonitorsAssumption DEF NoMonitor, Monitor
  <1>5. PICK k \in Ids, n \in Monitor :
          /\ mons[k].ref = "none" /\ mons' = [mons EXCEPT ![k] = n]
          /\ n.printer = PrinterOf(t) /\ n.stops = 0 /\ n.ref = "live"
          /\ n.thread = "created"
          /\ Goto(t, [t EXCEPT !.pc = "notify", !.mon = k])
    <2> DEFINE n == [NoMonitor EXCEPT !.printer = PrinterOf(t), !.http = http,
                                      !.thread = "created", !.ref = "live"]
    <2>1. n \in Monitor /\ n.printer = PrinterOf(t) /\ n.stops = 0 /\ n.ref = "live"
          /\ n.thread = "created"
      BY <1>4, TaskFacts DEF Monitor
    <2> HIDE DEF i
    <2>2. mons' = [mons EXCEPT ![i] = n]
      BY <1>2
    <2> HIDE DEF n
    <2> QED  BY <1>1, <1>3, <2>1, <2>2
  <1>6. PICK u \in Tasks : /\ u.pc = "notify" /\ u.what = t.what /\ u.client = t.client
                          /\ u.mon = k /\ tasks' = (tasks \ {t}) \cup {u}
    BY <1>5, TaskFacts DEF Tasks, Goto
  <1>7. /\ mons'[k] = n /\ \A j \in Ids \ {k} : mons'[j] = mons[j]
        /\ mons' \in [Ids -> Monitor] /\ k # None
    BY <1>5, TaskFacts, NoneIsNoId
  <1>8. \A d \in tasks \ {t} : d.pc = "lock" /\ d.mon = None
    BY <1>1 DEF MonitorInv, OneTask, InHand, Hand
  <1>9. Typed' /\ OneTask'
    BY <1>1, <1>6, <1>7, <1>8 DEF MonitorInv, Typed, OneTask, Holds
  <1>10. Hand(u)'
    BY <1>1, <1>5, <1>6, <1>7 DEF Hand, PrinterOf, MonOf
  <1>11. \A d \in tasks \ {t} : Hand(d)'
    BY <1>8 DEF Hand
  <1>12. InHand'
    BY <1>6, <1>10, <1>11 DEF InHand
  <1>13. Mapped'
    <2>1. \A q \in Printers : map[q] # None => map[q] \in Ids \ {k}
      BY <1>5 DEF MonitorInv, Mapped, Typed
    <2> QED  BY <1>1, <1>7, <2>1 DEF MonitorInv, Mapped
  <1>14. Threads'
    <2>1. \A j \in Ids : ~\E d \in tasks : Adds(d, j)
      BY <1>1, <1>8 DEF Adds
    <2>2. Adds(u, k)
      BY <1>6 DEF Adds
    <2>3. \E d \in tasks' : Adds(d, k)
      BY <1>6, <2>2
    <2> SUFFICES ASSUME NEW j \in Ids
                 PROVE  /\ mons'[j].ref = "none" => mons'[j].thread = "none" /\ mons'[j].stops = 0
                        /\ mons'[j].stops = 0 \/ (mons'[j].stops = 1 /\ mons'[j].thread = "ended")
                        /\ Alive(j)' => \/ map'[mons'[j].printer] = j
                                        \/ \E d \in tasks' : Adds(d, j)
      BY DEF Threads, Adds
    <2>4. CASE j = k
      BY <1>5, <1>7, <2>3, <2>4
    <2>5. CASE j # k
      BY <1>1, <1>7, <2>1, <2>5 DEF MonitorInv, Threads, Alive
    <2> QED  BY <2>4, <2>5
  <1> QED  BY <1>9, <1>12, <1>13, <1>14 DEF MonitorInv

(* The monitor comes into the map, where it or nothing was before.         *)
LEMMA AddClientStep ==
  ASSUME MonitorInv, NEW t \in tasks, AddClient(t)
  PROVE  MonitorInv'
  <1>1. /\ t.pc = "add" /\ Goto(t, [t EXCEPT !.pc = "sleep"])
        /\ map' = [map EXCEPT ![PrinterOf(t)] = t.mon]
        /\ UNCHANGED <<tracks, jobQ, lock, mons, printer>>
    BY DEF AddClient, At, cvars, pvars
  <1>2. PICK u \in Tasks : /\ u.pc = "sleep" /\ u.what = t.what /\ u.client = t.client
                          /\ u.mon = t.mon /\ tasks' = (tasks \ {t}) \cup {u}
    BY <1>1, TaskFacts DEF Tasks, Goto
  <1>3. /\ t.mon \in Ids /\ mons[t.mon].ref # "none" /\ mons[t.mon].stops = 0
        /\ mons[t.mon].printer = PrinterOf(t) /\ MonOf(t) \in {None, t.mon}
        /\ PrinterOf(t) \in Printers
    BY <1>1, TaskFacts DEF Hand
  <1>4. \A d \in tasks \ {t} : d.pc = "lock" /\ d.mon = None
    BY <1>1 DEF MonitorInv, OneTask, InHand, Hand
  <1>5. /\ map \in [Printers -> Ids \cup {None}] /\ map' \in [Printers -> Ids \cup {None}]
        /\ map'[PrinterOf(t)] = t.mon
        /\ \A q \in Printers \ {PrinterOf(t)} : map'[q] = map[q]
    BY <1>1, <1>3 DEF MonitorInv, Typed
  <1>6. Typed' /\ OneTask'
    BY <1>1, <1>2, <1>4, <1>5 DEF MonitorInv, Typed, OneTask, Holds
  <1>7. Hand(u)' /\ \A d \in tasks \ {t} : Hand(d)'
    BY <1>1, <1>2, <1>3, <1>4 DEF Hand
  <1>8. InHand'
    BY <1>2, <1>7 DEF InHand
  <1>9. Mapped'
    BY <1>1, <1>3, <1>5 DEF MonitorInv, Mapped
  <1>10. Threads'
    <2> SUFFICES ASSUME NEW j \in Ids, Alive(j)
                 PROVE  map'[mons[j].printer] = j
      BY <1>1 DEF MonitorInv, Threads, Alive
    <2>1. mons[j].printer \in Printers /\ j # None
      BY TaskFacts, NoneIsNoId DEF Monitor
    <2>2. CASE map[mons[j].printer] = j
      BY <1>3, <1>5, <2>1, <2>2 DEF MonOf
    <2>3. CASE \E d \in tasks : Adds(d, j)
      <3>1. t.mon = j
        BY <1>4, <2>3 DEF Adds
      <3> QED  BY <1>3, <1>5, <3>1
    <2> QED  BY <2>2, <2>3 DEF MonitorInv, Threads
  <1> QED  BY <1>6, <1>8, <1>9, <1>10 DEF MonitorInv

LEMMA StopMonitorStep ==
  ASSUME MonitorInv, NEW t \in tasks, StopMonitor(t)
  PROVE  MonitorInv'
  <1>1. /\ t.pc = "stop" /\ Goto(t, [t EXCEPT !.pc = "join"])
        /\ mons' = [mons EXCEPT ![t.mon].sem = @ + 1, ![t.mon].stop = TRUE]
        /\ UNCHANGED <<tracks, jobQ, lock, mClients, map, printer>>
    BY DEF StopMonitor, At, cvars, qvars, pvars
  <1>2. PICK u \in Tasks : /\ u.pc = "join" /\ u.what = t.what /\ u.client = t.client
                          /\ u.mon = t.mon /\ tasks' = (tasks \ {t}) \cup {u}
    BY <1>1, TaskFacts DEF Tasks, Goto
  <1>3. /\ t.mon \in Ids /\ mons[t.mon] \in Monitor /\ MonOf(t) = t.mon /\ mClients = << >>
        /\ mons[t.mon].ref # "none" /\ mons[t.mon].stops = 0
    BY <1>1, TaskFacts DEF Hand
  <1>4. PICK n \in Monitor :
          /\ mons' = [mons EXCEPT ![t.mon] = n]
          /\ n.printer = mons[t.mon].printer /\ n.stops = mons[t.mon].stops
          /\ n.ref = mons[t.mon].ref /\ n.thread = mons[t.mon].thread
    <2> DEFINE n == [mons[t.mon] EXCEPT !.sem = mons[t.mon].sem + 1, !.stop = TRUE]
    <2>1. mons' = [mons EXCEPT ![t.mon] = n]
      BY <1>1, <1>3, TaskFacts DEF Monitor
    <2>2. mons[t.mon].sem + 1 \in Nat
      BY <1>3 DEF Monitor
    <2>3. /\ n \in Monitor /\ n.printer = mons[t.mon].printer
          /\ n.stops = mons[t.mon].stops
          /\ n.ref = mons[t.mon].ref /\ n.thread = mons[t.mon].thread
      BY <1>3, <2>2 DEF Monitor
    <2> HIDE DEF n
    <2> QED  BY <2>1, <2>3
  <1>5. /\ mons' \in [Ids -> Monitor]
        /\ \A j \in Ids : /\ mons'[j].printer = mons[j].printer
                          /\ mons'[j].stops = mons[j].stops
                          /\ mons'[j].ref = mons[j].ref
                          /\ mons'[j].thread = mons[j].thread
    BY <1>3, <1>4, TaskFacts
  <1>6. \A d \in tasks \ {t} : d.pc = "lock" /\ d.mon = None
    BY <1>1 DEF MonitorInv, OneTask, InHand, Hand
  <1>7. Typed' /\ OneTask'
    BY <1>1, <1>2, <1>5, <1>6 DEF MonitorInv, Typed, OneTask, Holds
  <1>8. Hand(u)' /\ \A d \in tasks \ {t} : Hand(d)'
    BY <1>1, <1>2, <1>3, <1>5, <1>6, NoneIsNoId DEF Hand, MonOf, PrinterOf
  <1>9. InHand'
    BY <1>2, <1>8 DEF InHand
  <1>10. Mapped'
    <2>1. \A q \in Printers : map[q] # None => map[q] \in Ids
      BY DEF MonitorInv, Typed
    <2>2. /\ map' = map
          /\ \A j \in Ids : /\ mons'[j].printer = mons[j].printer
                            /\ mons'[j].stops = mons[j].stops
                            /\ mons'[j].ref = mons[j].ref
      BY <1>1, <1>5
    <2>3. Mapped
      BY DEF MonitorInv
    <2> QED  BY <2>1, <2>2, <2>3 DEF Mapped
  <1>11. Threads'
    <2>1. \A j \in Ids : ~\E d \in tasks : Adds(d, j)
      BY <1>1, <1>6 DEF Adds
    <2>2. \A j \in Ids :
             /\ mons'[j].ref = mons[j].ref
             /\ mons'[j].thread = mons[j].thread
             /\ mons'[j].stops = mons[j].stops
             /\ map'[mons'[j].printer] = map[mons[j].printer]
      BY <1>1, <1>5
    <2>3. \A j \in Ids : Alive(j) => map[mons[j].printer] = j
      BY <2>1 DEF MonitorInv, Threads
    <2> QED  BY <2>2, <2>3 DEF MonitorInv, Threads, Alive
  <1> QED  BY <1>7, <1>9, <1>10, <1>11 DEF MonitorInv

(* The thread has ended; as no client has come, nobody has the lock but    *)
(* this task, the monitor leaves the map.                                  *)
LEMMA JoinMonitorStep ==
  ASSUME MonitorInv, NEW t \in tasks, JoinMonitor(t)
  PROVE  MonitorInv'
  <1>1. /\ t.pc = "join" /\ tasks' = tasks \ {t} /\ lock' = Nobody
        /\ mons[t.mon].thread = "ended"
        /\ mons' = [mons EXCEPT ![t.mon].stops = @ + 1]
        /\ map' = IF mClients = << >> THEN [map EXCEPT ![PrinterOf(t)] = None] ELSE map
        /\ UNCHANGED <<tracks, jobQ, mClients, printer>>
    BY DEF JoinMonitor, At, cvars, qvars, pvars
  <1>2. /\ t.mon \in Ids /\ mons[t.mon] \in Monitor /\ MonOf(t) = t.mon /\ mClients = << >>
        /\ mons[t.mon].ref # "none" /\ mons[t.mon].stops = 0 /\ PrinterOf(t) \in Printers
    BY <1>1, TaskFacts DEF Hand
  <1>3. mons[t.mon].printer = PrinterOf(t) /\ t.mon # None
    BY <1>2, NoneIsNoId DEF MonitorInv, Mapped, MonOf
  <1>4. PICK n \in Monitor :
          /\ mons' = [mons EXCEPT ![t.mon] = n]
          /\ n.printer = mons[t.mon].printer /\ n.stops = 1
          /\ n.ref = mons[t.mon].ref /\ n.thread = "ended"
    <2> DEFINE n == [mons[t.mon] EXCEPT !.stops = 1]
    <2>1. mons' = [mons EXCEPT ![t.mon] = n]
      BY <1>1, <1>2
    <2>2. /\ n \in Monitor /\ n.printer = mons[t.mon].printer /\ n.stops = 1
          /\ n.ref = mons[t.mon].ref /\ n.thread = "ended"
      BY <1>1, <1>2 DEF Monitor
    <2> HIDE DEF n
    <2> QED  BY <2>1, <2>2
  <1>5. /\ mons' \in [Ids -> Monitor] /\ mons'[t.mon] = n
        /\ \A j \in Ids \ {t.mon} : mons'[j] = mons[j]
    BY <1>2, <1>4, TaskFacts
  <1>6. /\ map \in [Printers -> Ids \cup {None}] /\ map' \in [Printers -> Ids \cup {None}]
        /\ map'[PrinterOf(t)] = None
        /\ \A q \in Printers \ {PrinterOf(t)} : map'[q] = map[q]
    BY <1>1, <1>2 DEF MonitorInv, Typed
  <1>7. \A d \in tasks' : d \in tasks /\ d.pc = "lock" /\ d.mon = None
    BY <1>1 DEF MonitorInv, OneTask, InHand, Hand
  <1>8. Typed' /\ OneTask'
    BY <1>1, <1>5, <1>6, <1>7 DEF MonitorInv, Typed, OneTask
  <1>9. InHand'
    BY <1>7 DEF InHand, Hand
  <1>10. Mapped'
    <2> SUFFICES ASSUME NEW q \in Printers, map'[q] # None
                 PROVE  /\ mons'[map'[q]].printer = q
                        /\ mons'[map'[q]].ref # "none" /\ mons'[map'[q]].stops = 0
      BY DEF Mapped
    <2>1. q # PrinterOf(t) /\ map'[q] = map[q] /\ map[q] \in Ids
      BY <1>6
    <2>2. mons[map[q]].printer = q /\ mons[map[q]].ref # "none" /\ mons[map[q]].stops = 0
      BY <2>1 DEF MonitorInv, Mapped
    <2>3. map[q] # t.mon
      BY <1>3, <2>1, <2>2
    <2> QED  BY <1>5, <2>1, <2>2, <2>3
  <1>11. Threads'
    <2> SUFFICES ASSUME NEW j \in Ids
                 PROVE  /\ mons'[j].ref = "none" => mons'[j].thread = "none" /\ mons'[j].stops = 0
                        /\ mons'[j].stops = 0 \/ (mons'[j].stops = 1 /\ mons'[j].thread = "ended")
                        /\ Alive(j)' => map'[mons'[j].printer] = j
      BY DEF Threads
    <2>1. CASE j = t.mon
      BY <1>2, <1>4, <1>5, <2>1 DEF Alive
    <2>2. CASE j # t.mon
      <3>1. mons'[j] = mons[j] /\ mons[j].printer \in Printers
        BY <1>5, <2>2, TaskFacts DEF Monitor
      <3>2. ~\E d \in tasks : Adds(d, j)
        BY <1>1, <1>7 DEF Adds
      <3>3. ASSUME Alive(j) PROVE map'[mons[j].printer] = j
        <4>1. map[mons[j].printer] = j
          BY <3>2, <3>3 DEF MonitorInv, Threads
        <4>2. mons[j].printer # PrinterOf(t)
          BY <1>2, <2>2, <4>1 DEF MonOf
        <4> QED  BY <1>6, <3>1, <4>1, <4>2
      <3> QED  BY <3>1, <3>3 DEF MonitorInv, Threads, Alive
    <2> QED  BY <2>1, <2>2
  <1> QED  BY <1>8, <1>9, <1>10, <1>11 DEF MonitorInv

-----------------------------------------------------------------------------
LEMMA NextMonitor == MonitorInv /\ [Next]_vars => MonitorInv'
  <1> SUFFICES ASSUME MonitorInv, [Next]_vars PROVE MonitorInv'
    OBVIOUS
  <1>1. CASE \E c \in Clients : StartTracking(c) \/ StopTracking(c)
    BY <1>1, TrackingStep
  <1>2. CASE JobStep
    BY <1>2, HandleAskStep, HandleStatusStep, NotifyStep DEF JobStep
  <1>3. CASE TaskStep
    <2>1. PICK t \in tasks : Lock(t) \/ StartStep(t) \/ StopStep(t)
      BY <1>3 DEF TaskStep
    <2>2. CASE Lock(t)
      BY <2>2, LockStep
    <2>3. CASE StartStep(t)
      BY <2>3, StartFoundStep, StartErrorStep, StartNewStep, AddNotifyStep, AddClientStep,
         EndSteps DEF StartStep
    <2>4. CASE StopStep(t)
      BY <2>4, EndSteps, RemoveClientStep, StopMonitorStep, JoinMonitorStep DEF StopStep
    <2> QED  BY <2>1, <2>2, <2>3, <2>4
  <1>4. CASE \E i \in Ids : ThreadStep(i)
    BY <1>4, ThreadsStep
  <1>5. CASE \E p \in Printers : PrinterChanges(p)
    BY <1>5, PrinterStep
  <1>6. CASE UNCHANGED vars
    <2>1. UNCHANGED <<tracks, jobQ, tasks, lock, mClients, map, mons, printer>>
      BY <1>6 DEF vars, cvars, qvars, tvars, pvars
    <2>2. Typed'
      BY <2>1 DEF MonitorInv, Typed
    <2> QED  BY <2>1, <2>2, Elsewhere
  <1> QED  BY <1>1, <1>2, <1>3, <1>4, <1>5, <1>6 DEF Next

(* A printer is never asked by two threads, and a handle is freed once and *)
(* not used after that, whatever the clients start and stop meanwhile.     *)
THEOREM MonitorSafety == Spec => []MonitorsAreSafe
  <1>1. Spec => []MonitorInv
    BY InitMonitor, NextMonitor, PTL DEF Spec
  <1> QED  BY <1>1, MonitorSafe, PTL

-----------------------------------------------------------------------------
(***************************************************************************)
(* What the clients see.                                                   *)
(***************************************************************************)
(* The types of the rest.                                                  *)
ClientsTyped ==
  /\ client \in [Clients -> {"new", "started", "stopped"}]
  /\ shown \in [Clients -> {"none", "idle", "busy", "unavailable"}]
  /\ iter.mon \in Ids \cup {None} /\ iter.at \in Nat /\ iter.stale \in BOOLEAN
  /\ iter \in [mon : Ids \cup {None}, at : Nat, stale : BOOLEAN]
  /\ mClients \in Seq(Clients)
  /\ changes \in 0 .. MaxChanges /\ crash \in BOOLEAN

(* A thread that is asked to stop, is free to go or has ended was stopped  *)
(* by a task, which waits for it or has freed its handle; and every        *)
(* monitor was made for a client, with a thread.                           *)
Quits(i) == mons[i].stop \/ mons[i].sem > 0 \/ mons[i].thread = "ended"

Heard ==
  \A i \in Ids :
    /\ Quits(i) => mons[i].stops = 1 \/ \E t \in tasks : t.pc = "join" /\ t.mon = i
    /\ mons[i].ref # "none" => /\ mons[i].thread # "none"
                               /\ \E c \in Clients : tracks[c] = mons[i].printer

(* A client on the list has a monitor in the map.                          *)
Listed == \A c \in Clients : Contains(mClients, c) => map[tracks[c]] # None

(* A thread without clients, where one printer is all there is, is about   *)
(* to get one or to be stopped.                                            *)
Ends(t, i) == t.pc \in {"stop", "join"} /\ t.mon = i

NotLeft ==
  (\A c, d \in Clients : tracks[c] = tracks[d]) /\ mClients = << >> =>
    \A i \in Ids : Alive(i) => \E t \in tasks : Adds(t, i) \/ Ends(t, i)

ServedInv == ClientsTyped /\ Heard /\ Listed /\ NotLeft

LEMMA ListFacts ==
  ASSUME mClients \in Seq(Clients)
  PROVE  /\ \A k \in 1 .. Len(mClients) : mClients[k] \in Clients
         /\ Range(mClients) \subseteq Clients
         /\ \A c : c \in Range(mClients) <=> Contains(mClients, c)
         /\ Len(mClients) \in Nat /\ DOMAIN mClients = 1 .. Len(mClients)
  <1>1. /\ \A k \in 1 .. Len(mClients) : mClients[k] \in Clients
        /\ Len(mClients) \in Nat /\ DOMAIN mClients = 1 .. Len(mClients)
    OBVIOUS
  <1>2. \A c : c \in Range(mClients) <=> Contains(mClients, c)
    BY <1>1 DEF Range, Contains
  <1>3. \A c : Contains(mClients, c) => c \in Clients
    BY <1>1 DEF Contains
  <1>4. Range(mClients) \subseteq Clients
    BY <1>2, <1>3
  <1> QED  BY <1>1, <1>2, <1>4

(* Each entry of s is one of q or of r.                                    *)
Draws(s, q, r) ==
  \A i \in DOMAIN s : (\E j \in DOMAIN q : s[i] = q[j]) \/ (\E j \in DOMAIN r : s[i] = r[j])

(* What is in two sequences, one behind the other.                         *)
LEMMA Joined ==
  ASSUME NEW S, NEW q \in Seq(S), NEW r \in Seq(S)
  PROVE  q \o r \in Seq(S) /\ Draws(q \o r, q, r)
  <1>1. /\ q \o r \in Seq(S) /\ Len(q) \in Nat /\ Len(r) \in Nat
        /\ DOMAIN q = 1 .. Len(q) /\ DOMAIN r = 1 .. Len(r)
        /\ DOMAIN (q \o r) = 1 .. Len(q) + Len(r)
        /\ \A i \in DOMAIN q : (q \o r)[i] = q[i]
        /\ \A i \in DOMAIN r : (q \o r)[Len(q) + i] = r[i]
    OBVIOUS
  <1>2. \A i \in DOMAIN (q \o r) :
           \/ i \in DOMAIN q /\ (q \o r)[i] = q[i]
           \/ i - Len(q) \in DOMAIN r /\ (q \o r)[i] = r[i - Len(q)]
    BY <1>1
  <1> QED  BY <1>1, <1>2 DEF Draws

(* Who is on the list without one of the clients was on the list.          *)
LEMMA RemovedFacts ==
  ASSUME mClients \in Seq(Clients), NEW c
  PROVE  /\ Removed(c) \in Seq(Clients)
         /\ \A d : Contains(Removed(c), d) => Contains(mClients, d)
  <1>1. CASE ~Contains(mClients, c)
    BY <1>1 DEF Removed
  <1>2. CASE Contains(mClients, c)
    <2> DEFINE n == Len(mClients)
               k == CHOOSE j \in DOMAIN mClients : mClients[j] = c
               front == SubSeq(mClients, 1, k - 1)
               back == SubSeq(mClients, k + 1, n)
    <2>1. k \in 1 .. n /\ n \in Nat /\ DOMAIN mClients = 1 .. n
      BY <1>2 DEF Contains
    <2>2. Removed(c) = front \o back
      BY <1>2 DEF Removed, RemoveAt
    <2> HIDE DEF k
    <2>3. \A i \in 1 .. n : mClients[i] \in Clients
      OBVIOUS
    <2>4. /\ k \in Int /\ n \in Int /\ k - 1 \in Nat /\ n - k \in Nat
          /\ \A i \in 1 .. k - 1 : i \in 1 .. n
          /\ \A i \in 1 .. n - k : k + i \in 1 .. n /\ k + 1 + i - 1 = k + i
      BY <2>1
    <2>5. /\ front \in Seq(Clients) /\ DOMAIN front = 1 .. k - 1
          /\ \A i \in 1 .. k - 1 : front[i] = mClients[i]
      <3>1. front = [i \in 1 .. (k - 1) - 1 + 1 |-> mClients[1 + i - 1]]
        BY <2>4
      <3>2. front = [i \in 1 .. k - 1 |-> mClients[i]]
        BY <2>4, <3>1
      <3> HIDE DEF front, n
      <3> QED  BY <2>3, <2>4, <3>2
    <2>6. /\ back \in Seq(Clients) /\ DOMAIN back = 1 .. n - k
          /\ \A i \in 1 .. n - k : back[i] = mClients[k + i]
      <3>1. back = [i \in 1 .. n - (k + 1) + 1 |-> mClients[k + 1 + i - 1]]
        BY <2>4
      <3>2. n - (k + 1) + 1 = n - k
        BY <2>4
      <3>3. back = [i \in 1 .. n - k |-> mClients[k + i]]
        BY <2>4, <3>1, <3>2
      <3> HIDE DEF back, n
      <3> QED  BY <2>3, <2>4, <3>3
    <2> HIDE DEF n, front, back
    <2>7. /\ \A j \in DOMAIN front : \E i \in 1 .. n : front[j] = mClients[i]
          /\ \A j \in DOMAIN back : \E i \in 1 .. n : back[j] = mClients[i]
      BY <2>4, <2>5, <2>6
    <2>8. front \in Seq(Clients) /\ back \in Seq(Clients)
      BY <2>5, <2>6
    <2> DEFINE q == front \o back
    <2>9. q \in Seq(Clients) /\ Draws(q, front, back)
      BY <2>8, Joined
    <2> HIDE DEF q
    <2>10. \A i \in DOMAIN q : \E j \in 1 .. n : q[i] = mClients[j]
      BY <2>7, <2>9 DEF Draws
    <2>11. DOMAIN q = 1 .. Len(q)
      BY <2>9
    <2> QED  BY <2>2, <2>9, <2>10, <2>11 DEF Contains, n, q
  <1> QED  BY <1>1, <1>2

(* It says what the runs check.                                            *)
LEMMA ClientsServed == MonitorInv /\ ServedInv => ClientsAreServed
  <1> SUFFICES ASSUME MonitorInv, ServedInv PROVE ClientsAreServed
    OBVIOUS
  <1>1. TypeOK
    <2>1. \A k \in DOMAIN jobQ :
            \/ jobQ[k].what \in {"start", "stop"} /\ jobQ[k].client \in Clients
            \/ jobQ[k].what = "status" /\ jobQ[k].mon \in Ids /\ jobQ[k].status \in States
      <3>1. jobQ \in Seq(Messages)
        BY DEF MonitorInv, Typed
      <3>2. \A k \in DOMAIN jobQ : jobQ[k] \in Messages
        BY <3>1
      <3>3. \A m \in Messages :
              \/ m.what \in {"start", "stop"} /\ m.client \in Clients
              \/ m.what = "status" /\ m.mon \in Ids /\ m.status \in States
        BY DEF Messages
      <3> QED  BY <3>2, <3>3
    <2>2. \A t \in tasks : t.client \in Clients /\ t.mon \in Ids \cup {None}
      BY TaskFacts
    <2>3. Range(mClients) \subseteq Clients
      BY ListFacts DEF ServedInv, ClientsTyped
    <2>4. /\ client \in [Clients -> {"new", "started", "stopped"}]
          /\ shown \in [Clients -> {"none", "idle", "busy", "unavailable"}]
          /\ iter.mon \in Ids \cup {None} /\ iter.at \in Nat /\ iter.stale \in BOOLEAN
          /\ changes \in 0 .. MaxChanges /\ crash \in BOOLEAN
      BY DEF ServedInv, ClientsTyped
    <2>5. /\ tracks \in [Clients -> Printers] /\ map \in [Printers -> Ids \cup {None}]
          /\ mons \in [Ids -> Monitor] /\ printer \in [Printers -> States]
      BY DEF MonitorInv, Typed
    <2> QED  BY <2>1, <2>2, <2>3, <2>4, <2>5 DEF TypeOK
  <1>2. lock = Nobody => \A t \in tasks : t.pc = "lock"
    <2> SUFFICES ASSUME lock = Nobody, NEW t \in tasks, Holds(t) PROVE FALSE
      BY DEF MonitorInv, OneTask
    <2>1. [what |-> t.what, client |-> t.client] = [what |-> "nobody"]
      BY DEF Holds, Nobody
    <2>2. t.what = "nobody"
      BY <2>1
    <2> QED  BY <2>2, TaskFacts
  <1>3. ClientsAreWatched
    <2> SUFFICES ASSUME lock = Nobody, NEW c \in Range(mClients)
                 PROVE  LET i == map[tracks[c]] IN
                        i # None /\ mons[i].printer = tracks[c] /\ ~mons[i].stop /\ Alive(i)
      BY DEF ClientsAreWatched
    <2>1. c \in Clients /\ map[tracks[c]] # None
      BY ListFacts DEF ServedInv, ClientsTyped, Listed
    <2>2. tracks[c] \in Printers /\ map[tracks[c]] \in Ids
      BY <2>1 DEF MonitorInv, Typed
    <2> DEFINE i == map[tracks[c]]
    <2>3. mons[i].printer = tracks[c] /\ mons[i].ref # "none" /\ mons[i].stops = 0
      BY <2>1, <2>2 DEF MonitorInv, Mapped
    <2>4. mons[i].thread # "none" /\ ~Quits(i)
      BY <1>2, <2>2, <2>3 DEF ServedInv, Heard
    <2> QED  BY <2>1, <2>3, <2>4 DEF Quits, Alive
  <1>4. LastOneStopsIt
    BY <1>2 DEF LastOneStopsIt, ServedInv, NotLeft, Adds, Ends
  <1> QED  BY <1>1, <1>3, <1>4 DEF ClientsAreServed

LEMMA InitServed == Init => ServedInv
  <1> SUFFICES ASSUME Init PROVE ServedInv
    OBVIOUS
  <1>1. ClientsTyped
    <2>1. iter = [mon |-> 0, at |-> 0, stale |-> FALSE] /\ None = 0
      BY DEF Init, NotIterating, None
    <2>2. changes \in 0 .. MaxChanges
      BY MonitorsAssumption DEF Init
    <2>3. /\ iter \in [mon : Ids \cup {None}, at : Nat, stale : BOOLEAN]
          /\ iter.mon \in Ids \cup {None} /\ iter.at \in Nat /\ iter.stale \in BOOLEAN
      BY <2>1
    <2>4. client \in [Clients -> {"new", "started", "stopped"}]
      BY DEF Init
    <2>5. shown \in [Clients -> {"none", "idle", "busy", "unavailable"}]
      BY DEF Init
    <2>6. mClients \in Seq(Clients) /\ crash \in BOOLEAN
      <3>1. mClients = << >> /\ crash = FALSE
        BY DEF Init
      <3>2. mClients \in Seq(Clients)
        BY <3>1
      <3>3. crash \in BOOLEAN
        BY <3>1
      <3> QED  BY <3>2, <3>3
    <2> QED  BY <2>2, <2>3, <2>4, <2>5, <2>6 DEF ClientsTyped
  <1>2. \A i \in Ids : /\ ~mons[i].stop /\ mons[i].sem = 0 /\ mons[i].thread = "none"
                       /\ mons[i].ref = "none"
    BY DEF Init, NoMonitor
  <1>3. Heard /\ NotLeft
    BY <1>2 DEF Heard, Quits, NotLeft, Alive
  <1>4. Listed
    BY DEF Init, Listed, Contains
  <1> QED  BY <1>1, <1>3, <1>4 DEF ServedInv

-----------------------------------------------------------------------------
(* A step that leaves the list and the tasks that end a monitor alone, and *)
(* makes no thread quit.                                                   *)
LEMMA Aside ==
  ASSUME MonitorInv, ServedInv, ClientsTyped', UNCHANGED <<tracks, mClients, map>>,
         \A t \in tasks : t.pc = "join" => t \in tasks',
         \A i \in Ids : \A t \in tasks :
           Adds(t, i) \/ Ends(t, i) => \E u \in tasks' : Adds(u, i) \/ Ends(u, i),
         \A i \in Ids :
           /\ mons'[i].printer = mons[i].printer /\ mons'[i].stops = mons[i].stops
           /\ mons'[i].ref # "none" <=> mons[i].ref # "none"
           /\ mons'[i].thread = mons[i].thread \/ (Alive(i) /\ mons'[i].thread # "none")
           /\ Quits(i)' => Quits(i)
  PROVE  ServedInv'
  <1>1. Heard'
    <2> SUFFICES ASSUME NEW i \in Ids
                 PROVE  /\ Quits(i)' => \/ mons'[i].stops = 1
                                        \/ \E t \in tasks' : t.pc = "join" /\ t.mon = i
                        /\ mons'[i].ref # "none" =>
                             /\ mons'[i].thread # "none"
                             /\ \E c \in Clients : tracks'[c] = mons'[i].printer
      BY DEF Heard
    <2>1. /\ Quits(i) => mons[i].stops = 1 \/ \E t \in tasks : t.pc = "join" /\ t.mon = i
          /\ mons[i].ref # "none" => /\ mons[i].thread # "none"
                                     /\ \E c \in Clients : tracks[c] = mons[i].printer
      BY DEF ServedInv, Heard
    <2> QED  BY <2>1
  <1>2. Listed'
    BY DEF ServedInv, Listed
  <1>3. NotLeft'
    <2>1. \A i \in Ids : Alive(i)' => Alive(i)
      BY DEF Alive
    <2>3. ASSUME \A c, d \in Clients : tracks[c] = tracks[d], mClients = << >>,
                 NEW i \in Ids, Alive(i)'
          PROVE  \E t \in tasks' : Adds(t, i) \/ Ends(t, i)
      <3>1. PICK t \in tasks : Adds(t, i) \/ Ends(t, i)
        BY <2>1, <2>3 DEF ServedInv, NotLeft
      <3> QED  BY <3>1
    <2> QED  BY <2>3 DEF NotLeft, Adds, Ends
  <1> QED  BY <1>1, <1>2, <1>3 DEF ServedInv

(* The types of the rest, kept by every step.                              *)
LEMMA TypesStep ==
  ASSUME MonitorInv, ClientsTyped, MonitorInv', [Next]_vars
  PROVE  ClientsTyped'
  <1>1. /\ client \in [Clients -> {"new", "started", "stopped"}]
        /\ shown \in [Clients -> {"none", "idle", "busy", "unavailable"}]
        /\ iter \in [mon : Ids \cup {None}, at : Nat, stale : BOOLEAN]
        /\ mClients \in Seq(Clients)
        /\ changes \in 0 .. MaxChanges /\ MaxChanges \in Nat /\ crash \in BOOLEAN
    BY MonitorsAssumption DEF ClientsTyped
  <1>2. \A s : Shows(s) \in {"none", "idle", "busy", "unavailable"}
    BY DEF Shows
  <1>3. NotIterating \in [mon : Ids \cup {None}, at : Nat, stale : BOOLEAN]
    BY DEF NotIterating
  <1>4. Changed \in [mon : Ids \cup {None}, at : Nat, stale : BOOLEAN]
    BY <1>1 DEF Changed
  <1>5. \A c : Removed(c) \in Seq(Clients)
    BY <1>1, RemovedFacts
  <1>6. \A r \in [mon : Ids \cup {None}, at : Nat, stale : BOOLEAN] :
          r.mon \in Ids \cup {None} /\ r.at \in Nat /\ r.stale \in BOOLEAN
    OBVIOUS
  <1>a. CASE \E c \in Clients : StartTracking(c) \/ StopTracking(c)
    BY <1>a, <1>1, <1>6 DEF StartTracking, StopTracking, tvars, pvars, ClientsTyped
  <1>b. CASE HandleAsk
    BY <1>b, <1>1, <1>6 DEF HandleAsk, cvars, pvars, ClientsTyped
  <1>c. CASE HandleStatus
    <2>1. Head(jobQ).mon \in Ids
      <3>1. jobQ \in Seq(Messages) /\ jobQ # << >> /\ Head(jobQ).what = "status"
        BY <1>c DEF HandleStatus, Handler, MonitorInv, Typed
      <3>2. Head(jobQ) \in Messages
        BY <3>1
      <3> QED  BY <3>1, <3>2 DEF Messages
    <2>2. [mon |-> Head(jobQ).mon, at |-> 0, stale |-> FALSE]
            \in [mon : Ids \cup {None}, at : Nat, stale : BOOLEAN]
      BY <2>1
    <2>3. iter' \in [mon : Ids \cup {None}, at : Nat, stale : BOOLEAN]
      BY <1>c, <1>1, <2>2 DEF HandleStatus
    <2> QED  BY <1>c, <1>1, <1>6, <2>3 DEF HandleStatus, cvars, tvars, pvars, ClientsTyped
  <1>d. CASE NotifyNext
    <2>1. [iter EXCEPT !.at = @ + 1] \in [mon : Ids \cup {None}, at : Nat, stale : BOOLEAN]
      BY <1>1
    <2>2. /\ iter' \in [mon : Ids \cup {None}, at : Nat, stale : BOOLEAN]
          /\ crash' \in BOOLEAN
      BY <1>d, <1>1, <1>3, <2>1 DEF NotifyNext
    <2>3. shown' \in [Clients -> {"none", "idle", "busy", "unavailable"}]
      BY <1>d, <1>1, <1>2 DEF NotifyNext
    <2> QED  BY <1>d, <1>1, <1>6, <2>2, <2>3 DEF NotifyNext, tvars, pvars, ClientsTyped
  <1>e. CASE TaskStep
    <2> PICK t \in tasks : Lock(t) \/ StartStep(t) \/ StopStep(t)
      BY <1>e DEF TaskStep
    <2>1. t.client \in Clients
      BY TaskFacts
    <2>2. CASE StartError(t) \/ AddNotify(t)
      <3>1. shown' \in [Clients -> {"none", "idle", "busy", "unavailable"}]
        BY <1>1, <1>2, <2>2 DEF StartError, AddNotify
      <3> QED  BY <1>1, <1>6, <2>2, <3>1 DEF StartError, AddNotify, qvars, pvars, ClientsTyped
    <2>3. CASE AddClient(t)
      <3>1. Append(mClients, t.client) \in Seq(Clients)
        BY <1>1, <2>1
      <3> QED  BY <1>1, <1>4, <1>6, <2>3, <3>1 DEF AddClient, cvars, pvars, ClientsTyped
    <2>4. CASE RemoveClient(t)
      BY <1>1, <1>4, <1>5, <1>6, <2>4 DEF RemoveClient, cvars, pvars, ClientsTyped
    <2>5. CASE \/ Lock(t) \/ StartFound(t) \/ StartNew(t) \/ Release(t) \/ StopNothing(t)
               \/ StopUnlock(t) \/ StopMonitor(t) \/ JoinMonitor(t)
      BY <1>1, <1>6, <2>5 DEF Lock, StartFound, StartNew, Release, StopNothing, StopUnlock,
           StopMonitor, JoinMonitor, cvars, qvars, pvars, ClientsTyped
    <2> QED  BY <2>2, <2>3, <2>4, <2>5 DEF StartStep, StopStep
  <1>f. CASE \E i \in Ids : ThreadStep(i)
    BY <1>f, <1>1, <1>6 DEF ThreadStep, ThreadStart, ThreadSem, ThreadPoll, ThreadStop,
         cvars, qvars, tvars, pvars, ClientsTyped
  <1>g. CASE \E p \in Printers : PrinterChanges(p)
    BY <1>g, <1>1, <1>6 DEF PrinterChanges, cvars, qvars, tvars, ClientsTyped
  <1>h. CASE UNCHANGED vars
    BY <1>h, <1>1, <1>6 DEF vars, cvars, qvars, tvars, pvars, ClientsTyped
  <1> QED  BY <1>a, <1>b, <1>c, <1>d, <1>e, <1>f, <1>g, <1>h DEF Next, JobStep

-----------------------------------------------------------------------------
(* Steps of the clients, of the JobHandler, of threads and of printers.    *)
LEMMA ServedElsewhere ==
  ASSUME MonitorInv, ServedInv, ClientsTyped', UNCHANGED <<tracks, tasks, mClients, map>>,
         \A i \in Ids :
           /\ mons'[i].printer = mons[i].printer /\ mons'[i].stops = mons[i].stops
           /\ mons'[i].ref # "none" <=> mons[i].ref # "none"
           /\ mons'[i].thread = mons[i].thread \/ (Alive(i) /\ mons'[i].thread # "none")
           /\ Quits(i)' => Quits(i)
  PROVE  ServedInv'
  BY Aside

LEMMA ServedClients ==
  ASSUME MonitorInv, ServedInv, ClientsTyped',
         \/ \E c \in Clients : StartTracking(c) \/ StopTracking(c)
         \/ NotifyNext
         \/ \E p \in Printers : PrinterChanges(p)
         \/ UNCHANGED vars
  PROVE  ServedInv'
  <1>1. UNCHANGED <<tracks, tasks, mClients, map, mons>>
    BY DEF StartTracking, StopTracking, NotifyNext, PrinterChanges, vars, cvars, qvars, tvars,
           pvars
  <1>2. \A i \in Ids : Quits(i)' => Quits(i)
    BY <1>1 DEF Quits
  <1> QED  BY <1>1, <1>2, ServedElsewhere

LEMMA ServedAsk ==
  ASSUME MonitorInv, ServedInv, ClientsTyped', HandleAsk
  PROVE  ServedInv'
  <1>1. UNCHANGED <<tracks, mClients, map, mons>> /\ tasks \subseteq tasks'
    BY DEF HandleAsk, cvars
  <1>2. \A i \in Ids : Quits(i)' => Quits(i)
    BY <1>1 DEF Quits
  <1> QED  BY <1>1, <1>2, Aside

LEMMA ServedStatus ==
  ASSUME MonitorInv, ServedInv, ClientsTyped', HandleStatus
  PROVE  ServedInv'
  <1>1. UNCHANGED <<tracks, tasks, mClients, map>> /\ mons \in [Ids -> Monitor]
    BY DEF HandleStatus, cvars, tvars, MonitorInv, Typed
  <1>2. UNCHANGED mons \/ mons' = [mons EXCEPT ![Head(jobQ).mon].current = Head(jobQ).status]
    BY DEF HandleStatus, Set
  <1>3. \A i \in Ids :
          /\ mons'[i].printer = mons[i].printer /\ mons'[i].stops = mons[i].stops
          /\ mons'[i].ref = mons[i].ref /\ mons'[i].thread = mons[i].thread
          /\ mons'[i].stop = mons[i].stop /\ mons'[i].sem = mons[i].sem
    BY <1>1, <1>2 DEF Monitor
  <1>4. \A i \in Ids : Quits(i)' => Quits(i)
    BY <1>3 DEF Quits
  <1> QED  BY <1>1, <1>3, <1>4, ServedElsewhere

LEMMA ServedThread ==
  ASSUME MonitorInv, ServedInv, ClientsTyped', NEW k \in Ids, ThreadStep(k)
  PROVE  ServedInv'
  <1>1. /\ UNCHANGED <<tracks, tasks, mClients, map>>
        /\ mons \in [Ids -> Monitor] /\ mons[k] \in Monitor
    BY DEF ThreadStep, ThreadStart, ThreadSem, ThreadPoll, ThreadStop, cvars, tvars,
           MonitorInv, Typed
  <1>2. /\ mons[k].thread # "none" => mons[k].ref # "none"
        /\ mons[k].sem \in Nat
    BY <1>1 DEF MonitorInv, Threads, Monitor
  <1>3. /\ \A i \in Ids \ {k} : mons'[i] = mons[i]
        /\ mons'[k].printer = mons[k].printer /\ mons'[k].stops = mons[k].stops
        /\ mons'[k].ref # "none" <=> mons[k].ref # "none"
        /\ mons'[k].thread = mons[k].thread \/ (Alive(k) /\ mons'[k].thread # "none")
        /\ Quits(k)' => Quits(k)
    <2>1. CASE ThreadStart(k)
      <3>1. /\ mons[k].thread = "created"
            /\ mons' = [mons EXCEPT ![k] = [mons[k] EXCEPT
                 !.stop = FALSE, !.thread = IF mons[k].http THEN "poll" ELSE "sem"]]
        BY <1>1, <2>1 DEF ThreadStart, Monitor
      <3>2. /\ \A i \in Ids \ {k} : mons'[i] = mons[i]
            /\ mons'[k].printer = mons[k].printer /\ mons'[k].stops = mons[k].stops
            /\ mons'[k].ref = mons[k].ref /\ mons'[k].sem = mons[k].sem
            /\ mons'[k].thread \in {"poll", "sem"} /\ mons'[k].stop = FALSE
        BY <1>1, <3>1 DEF Monitor
      <3>3. Alive(k) /\ mons'[k].thread # "none" /\ (Quits(k)' => Quits(k))
        BY <3>1, <3>2 DEF Alive, Quits
      <3> QED  BY <3>2, <3>3
    <2>2. CASE ThreadSem(k)
      <3>1. /\ mons[k].thread = "sem" /\ mons[k].sem > 0
            /\ mons' = [mons EXCEPT ![k] = [mons[k] EXCEPT
                 !.sem = mons[k].sem - 1, !.thread = "ended", !.ref = "deleted"]]
        BY <1>1, <2>2 DEF ThreadSem
      <3>2. /\ \A i \in Ids \ {k} : mons'[i] = mons[i]
            /\ mons'[k].printer = mons[k].printer /\ mons'[k].stops = mons[k].stops
            /\ mons'[k].ref = "deleted" /\ mons'[k].thread = "ended"
        BY <1>1, <3>1 DEF Monitor
      <3>3. Alive(k) /\ Quits(k) /\ mons[k].ref # "none"
        BY <1>2, <3>1 DEF Alive, Quits
      <3> QED  BY <3>2, <3>3
    <2>3. CASE ThreadPoll(k)
      <3>1. \E s : mons' = [mons EXCEPT ![k] = [mons[k] EXCEPT !.last = s]]
        BY <1>1, <2>3 DEF ThreadPoll, Set
      <3>2. /\ \A i \in Ids \ {k} : mons'[i] = mons[i]
            /\ mons'[k].printer = mons[k].printer /\ mons'[k].stops = mons[k].stops
            /\ mons'[k].ref = mons[k].ref /\ mons'[k].sem = mons[k].sem
            /\ mons'[k].thread = mons[k].thread /\ mons'[k].stop = mons[k].stop
        BY <1>1, <3>1 DEF Monitor
      <3> QED  BY <3>2 DEF Quits
    <2>4. CASE ThreadStop(k)
      <3>1. /\ mons[k].thread = "poll" /\ mons[k].stop
            /\ mons' = [mons EXCEPT ![k] = [mons[k] EXCEPT !.thread = "ended"]]
        BY <1>1, <2>4 DEF ThreadStop, Set
      <3>2. /\ \A i \in Ids \ {k} : mons'[i] = mons[i]
            /\ mons'[k].printer = mons[k].printer /\ mons'[k].stops = mons[k].stops
            /\ mons'[k].ref = mons[k].ref /\ mons'[k].thread = "ended"
        BY <1>1, <3>1 DEF Monitor
      <3>3. Alive(k) /\ Quits(k)
        BY <3>1 DEF Alive, Quits
      <3> QED  BY <3>2, <3>3
    <2> QED  BY <2>1, <2>2, <2>3, <2>4 DEF ThreadStep
  <1>4. \A i \in Ids :
          /\ mons'[i].printer = mons[i].printer /\ mons'[i].stops = mons[i].stops
          /\ mons'[i].ref # "none" <=> mons[i].ref # "none"
          /\ mons'[i].thread = mons[i].thread \/ (Alive(i) /\ mons'[i].thread # "none")
          /\ Quits(i)' => Quits(i)
    <2> SUFFICES ASSUME NEW i \in Ids, i # k
                 PROVE  mons'[i] = mons[i] /\ (Quits(i)' => Quits(i))
      BY <1>3
    <2> QED  BY <1>3 DEF Quits
  <1> QED  BY <1>1, <1>4, ServedElsewhere

-----------------------------------------------------------------------------
(* The tasks.                                                              *)
LEMMA ServedLock ==
  ASSUME MonitorInv, ServedInv, ClientsTyped', NEW t \in tasks, Lock(t)
  PROVE  ServedInv'
  <1>1. /\ UNCHANGED <<tracks, mClients, map, mons>> /\ t.pc = "lock"
        /\ \A d \in tasks \ {t} : d \in tasks'
    BY DEF Lock, At, Goto, cvars
  <1>2. \A i \in Ids : Quits(i)' => Quits(i)
    BY <1>1 DEF Quits
  <1>3. \A i \in Ids : \A d \in tasks : Adds(d, i) \/ Ends(d, i) => d # t
    BY <1>1 DEF Adds, Ends
  <1> QED  BY <1>1, <1>2, <1>3, Aside

(* A task past the lock is the only one.                                   *)
LEMMA OneAtWork ==
  ASSUME MonitorInv, NEW t \in tasks, t.pc # "lock"
  PROVE  /\ \A d \in tasks : d # t => d.pc = "lock"
         /\ \A d \in tasks : \A i \in Ids : Adds(d, i) \/ Ends(d, i) => d = t
         /\ t.pc # "join" => \A d \in tasks : d.pc # "join"
  BY DEF MonitorInv, OneTask, Adds, Ends

(* A task that neither adds nor ends a monitor, and one that goes on to    *)
(* add it.                                                                 *)
LEMMA ServedQuiet ==
  ASSUME MonitorInv, ServedInv, ClientsTyped', NEW t \in tasks,
         \/ StartFound(t) \/ StartError(t) \/ AddNotify(t)
         \/ Release(t) \/ StopNothing(t) \/ StopUnlock(t)
  PROVE  ServedInv'
  <1>1. /\ UNCHANGED <<tracks, mClients, map, mons>>
        /\ t.pc \in {"lookup", "notify", "sleep", "unlock"}
    BY DEF StartFound, StartError, AddNotify, Release, StopNothing, StopUnlock, At, cvars, qvars,
           pvars
  <1>2. \A i \in Ids : Quits(i)' => Quits(i)
    BY <1>1 DEF Quits
  <1>3. \A d \in tasks : d.pc # "join"
    BY <1>1, OneAtWork
  <1>4. ASSUME NEW i \in Ids, NEW d \in tasks, Adds(d, i) \/ Ends(d, i)
        PROVE  \E u \in tasks' : Adds(u, i) \/ Ends(u, i)
    <2>1. d = t /\ t.pc = "notify" /\ t.mon = i
      <3>1. d = t
        BY <1>1, <1>4, OneAtWork
      <3> QED  BY <1>1, <1>4, <3>1 DEF Adds, Ends
    <2>2. AddNotify(t)
      BY <2>1 DEF StartFound, StartError, Release, StopNothing, StopUnlock, At
    <2>3. [t EXCEPT !.pc = "add"] \in tasks'
      BY <2>2 DEF AddNotify, Goto
    <2>4. Adds([t EXCEPT !.pc = "add"], i)
      <3>1. t \in Tasks
        BY TaskFacts
      <3> QED  BY <2>1, <3>1 DEF Adds, Tasks
    <2> QED  BY <2>3, <2>4
  <1> QED  BY <1>1, <1>2, <1>3, <1>4, Aside

(* A new monitor is its task's to add.                                     *)
LEMMA ServedNew ==
  ASSUME MonitorInv, ServedInv, ClientsTyped', NEW t \in tasks, StartNew(t)
  PROVE  ServedInv'
  <1> DEFINE i == CHOOSE i \in Ids \ Made : TRUE
  <1>1. /\ t.pc = "lookup" /\ Made # Ids
        /\ tasks' = (tasks \ {t}) \cup {[t EXCEPT !.pc = "notify", !.mon = i]}
        /\ UNCHANGED <<tracks, mClients, map>>
    BY DEF StartNew, At, Goto, cvars
  <1>2. PICK http \in BOOLEAN :
          mons' = [mons EXCEPT ![i] =
                     [NoMonitor EXCEPT !.printer = PrinterOf(t), !.http = http,
                                       !.thread = "created", !.ref = "live"]]
    BY DEF StartNew
  <1>3. i \in Ids
    BY <1>1 DEF Made
  <1> HIDE DEF i
  <1>4. /\ \A k \in Ids \ {i} : mons'[k] = mons[k]
        /\ mons'[i].printer = tracks[t.client] /\ ~mons'[i].stop /\ mons'[i].sem = 0
        /\ mons'[i].thread = "created"
    BY <1>2, <1>3, TaskFacts DEF NoMonitor, PrinterOf
  <1>5. [t EXCEPT !.pc = "notify", !.mon = i] \in tasks' /\ t.client \in Clients
        /\ Adds([t EXCEPT !.pc = "notify", !.mon = i], i)
    BY <1>1, TaskFacts DEF Adds, Tasks
  <1>6. \A d \in tasks : d.pc # "join" /\ \A k \in Ids : ~Adds(d, k) /\ ~Ends(d, k)
    BY <1>1, OneAtWork DEF Adds, Ends
  <1>7. Heard'
    <2> SUFFICES ASSUME NEW k \in Ids
                 PROVE  /\ Quits(k)' => \/ mons'[k].stops = 1
                                        \/ \E d \in tasks' : d.pc = "join" /\ d.mon = k
                        /\ mons'[k].ref # "none" =>
                             /\ mons'[k].thread # "none"
                             /\ \E c \in Clients : tracks'[c] = mons'[k].printer
      BY DEF Heard
    <2>1. CASE k = i
      BY <1>1, <1>4, <1>5, <2>1 DEF Quits
    <2>2. CASE k # i
      BY <1>1, <1>4, <1>6, <2>2 DEF ServedInv, Heard, Quits
    <2> QED  BY <2>1, <2>2
  <1>8. Listed'
    BY <1>1 DEF ServedInv, Listed
  <1>9. NotLeft'
    <2> SUFFICES ASSUME \A c, d \in Clients : tracks[c] = tracks[d], mClients = << >>,
                        NEW k \in Ids, Alive(k)'
                 PROVE  \E d \in tasks' : Adds(d, k) \/ Ends(d, k)
      BY <1>1 DEF NotLeft, Adds, Ends
    <2>1. CASE k = i
      BY <1>5, <2>1
    <2>2. CASE k # i
      BY <1>4, <1>6, <2>2 DEF ServedInv, NotLeft, Alive
    <2> QED  BY <2>1, <2>2
  <1> QED  BY <1>7, <1>8, <1>9 DEF ServedInv

(* The client is on the list, and its monitor in the map.                  *)
LEMMA ServedAdd ==
  ASSUME MonitorInv, ServedInv, ClientsTyped', NEW t \in tasks, AddClient(t)
  PROVE  ServedInv'
  <1>1. /\ t.pc = "add" /\ Goto(t, [t EXCEPT !.pc = "sleep"])
        /\ mClients' = IF Contains(mClients, t.client) THEN mClients
                       ELSE Append(mClients, t.client)
        /\ map' = [map EXCEPT ![PrinterOf(t)] = t.mon]
        /\ UNCHANGED <<tracks, mons>>
    BY DEF AddClient, At, cvars
  <1>2. /\ t.mon # None /\ PrinterOf(t) = tracks[t.client] /\ PrinterOf(t) \in Printers
        /\ t.client \in Clients /\ map \in [Printers -> Ids \cup {None}]
    BY <1>1, TaskFacts DEF Hand, PrinterOf, MonitorInv, Typed
  <1>3. mClients \in Seq(Clients) /\ mClients' \in Seq(Clients)
    BY DEF ServedInv, ClientsTyped
  <1>4. \A d \in tasks : d.pc # "join"
    BY <1>1, OneAtWork
  <1>5. Heard'
    BY <1>1, <1>4 DEF ServedInv, Heard, Quits
  <1>6. mClients' # << >>
        /\ \A c \in Clients : Contains(mClients', c) => Contains(mClients, c) \/ c = t.client
    <2>1. CASE Contains(mClients, t.client)
      BY <1>1, <1>3, <2>1 DEF Contains
    <2>2. CASE mClients' = Append(mClients, t.client)
      <3>1. /\ Len(mClients') = Len(mClients) + 1 /\ Len(mClients) \in Nat
            /\ \A j \in 1 .. Len(mClients) : mClients'[j] = mClients[j]
            /\ mClients'[Len(mClients) + 1] = t.client
            /\ DOMAIN mClients = 1 .. Len(mClients)
            /\ DOMAIN mClients' = 1 .. (Len(mClients) + 1)
        BY <1>3, <2>2
      <3>2. mClients' # << >>
        BY <3>1
      <3>3. \A c \in Clients : Contains(mClients', c) => Contains(mClients, c) \/ c = t.client
        BY <3>1 DEF Contains
      <3> QED  BY <3>2, <3>3
    <2> QED  BY <1>1, <2>1, <2>2
  <1>7. Listed'
    <2> SUFFICES ASSUME NEW c \in Clients, Contains(mClients', c)
                 PROVE  map'[tracks[c]] # None
      BY <1>1 DEF Listed
    <2>1. tracks[c] \in Printers
      BY DEF MonitorInv, Typed
    <2>2. map[tracks[c]] # None \/ c = t.client
      BY <1>6 DEF ServedInv, Listed
    <2> QED  BY <1>1, <1>2, <2>1, <2>2
  <1>8. NotLeft'
    BY <1>6 DEF NotLeft
  <1> QED  BY <1>5, <1>7, <1>8 DEF ServedInv

(* The last client of all takes the monitor of its printer with it.        *)
LEMMA ServedRemove ==
  ASSUME MonitorInv, ServedInv, ClientsTyped', NEW t \in tasks, RemoveClient(t)
  PROVE  ServedInv'
  <1>1. /\ t.pc = "lookup" /\ MonOf(t) # None
        /\ mClients' = Removed(t.client)
        /\ mClients' = << >> => Goto(t, [t EXCEPT !.pc = "stop", !.mon = MonOf(t)])
        /\ UNCHANGED <<tracks, map, mons>>
    BY DEF RemoveClient, At, cvars
  <1>2. /\ mClients \in Seq(Clients) /\ mClients' \in Seq(Clients)
        /\ t.client \in Clients /\ t \in Tasks
    BY TaskFacts DEF ServedInv, ClientsTyped
  <1>3. \A c \in Clients : Contains(mClients', c) => Contains(mClients, c)
    BY <1>1, <1>2, RemovedFacts
  <1>4. \A d \in tasks : d.pc # "join" /\ \A i \in Ids : ~Adds(d, i) /\ ~Ends(d, i)
    BY <1>1, OneAtWork DEF Adds, Ends
  <1>5. Heard'
    BY <1>1, <1>4 DEF ServedInv, Heard, Quits
  <1>6. Listed'
    BY <1>1, <1>3 DEF ServedInv, Listed
  <1>7. NotLeft'
    <2> SUFFICES ASSUME \A c, d \in Clients : tracks[c] = tracks[d], mClients' = << >>,
                        NEW i \in Ids, Alive(i)
                 PROVE  \E d \in tasks' : Adds(d, i) \/ Ends(d, i)
      BY <1>1 DEF NotLeft, Adds, Ends, Alive
    <2>1. mons[i].ref # "none"
      BY DEF MonitorInv, Threads, Alive
    <2>2. mons[i].printer = PrinterOf(t)
      BY <1>2, <2>1 DEF ServedInv, Heard, PrinterOf
    <2>3. map[mons[i].printer] = i
      BY <1>4 DEF MonitorInv, Threads
    <2>4. MonOf(t) = i
      BY <2>2, <2>3 DEF MonOf
    <2>5. [t EXCEPT !.pc = "stop", !.mon = i] \in tasks'
      BY <1>1, <2>4 DEF Goto
    <2>6. Ends([t EXCEPT !.pc = "stop", !.mon = i], i)
      BY <1>2 DEF Ends, Tasks
    <2> QED  BY <2>5, <2>6
  <1> QED  BY <1>5, <1>6, <1>7 DEF ServedInv

LEMMA ServedStop ==
  ASSUME MonitorInv, ServedInv, ClientsTyped', NEW t \in tasks, StopMonitor(t)
  PROVE  ServedInv'
  <1>1. /\ t.pc = "stop"
        /\ tasks' = (tasks \ {t}) \cup {[t EXCEPT !.pc = "join"]}
        /\ mons' = [mons EXCEPT ![t.mon].sem = @ + 1, ![t.mon].stop = TRUE]
        /\ UNCHANGED <<tracks, mClients, map>>
    BY DEF StopMonitor, At, Goto, cvars
  <1>2. t \in Tasks /\ t.mon \in Ids /\ mons \in [Ids -> Monitor]
    BY <1>1, TaskFacts DEF Hand
  <1>3. /\ \A i \in Ids \ {t.mon} : mons'[i] = mons[i]
        /\ \A i \in Ids : /\ mons'[i].printer = mons[i].printer
                          /\ mons'[i].stops = mons[i].stops /\ mons'[i].ref = mons[i].ref
                          /\ mons'[i].thread = mons[i].thread
    <2> DEFINE n == [mons[t.mon] EXCEPT !.sem = mons[t.mon].sem + 1, !.stop = TRUE]
    <2>1. mons' = [mons EXCEPT ![t.mon] = n]
      BY <1>1, <1>2 DEF Monitor
    <2>2. mons[t.mon] \in Monitor
      BY <1>2
    <2>3. /\ n.printer = mons[t.mon].printer /\ n.stops = mons[t.mon].stops
          /\ n.ref = mons[t.mon].ref /\ n.thread = mons[t.mon].thread
      BY <2>2 DEF Monitor
    <2> HIDE DEF n
    <2> QED  BY <1>2, <2>1, <2>3
  <1>4. PICK u \in tasks' : u.pc = "join" /\ u.mon = t.mon
    <2> DEFINE u == [t EXCEPT !.pc = "join"]
    <2>1. u.pc = "join" /\ u.mon = t.mon
      BY <1>2 DEF Tasks
    <2>2. u \in tasks'
      BY <1>1
    <2> HIDE DEF u
    <2> QED  BY <2>1, <2>2
  <1>5. \A d \in tasks : /\ d.pc # "join"
                         /\ \A i \in Ids : Adds(d, i) \/ Ends(d, i) => i = t.mon
    BY <1>1, OneAtWork DEF Adds, Ends
  <1>6. Heard'
    <2> SUFFICES ASSUME NEW i \in Ids
                 PROVE  /\ Quits(i)' => \/ mons'[i].stops = 1
                                        \/ \E d \in tasks' : d.pc = "join" /\ d.mon = i
                        /\ mons'[i].ref # "none" =>
                             /\ mons'[i].thread # "none"
                             /\ \E c \in Clients : tracks'[c] = mons'[i].printer
      BY DEF Heard
    <2>1. mons[i].ref # "none" => /\ mons[i].thread # "none"
                                  /\ \E c \in Clients : tracks[c] = mons[i].printer
      BY DEF ServedInv, Heard
    <2>2. CASE i = t.mon
      BY <1>1, <1>3, <1>4, <2>1, <2>2
    <2>3. CASE i # t.mon
      <3>1. Quits(i)' => mons[i].stops = 1
        BY <1>3, <1>5, <2>3 DEF ServedInv, Heard, Quits
      <3> QED  BY <1>1, <1>3, <2>1, <3>1
    <2> QED  BY <2>2, <2>3
  <1>7. Listed'
    BY <1>1 DEF ServedInv, Listed
  <1>8. NotLeft'
    <2> SUFFICES ASSUME \A c, d \in Clients : tracks[c] = tracks[d], mClients = << >>,
                        NEW i \in Ids, Alive(i)'
                 PROVE  \E d \in tasks' : Adds(d, i) \/ Ends(d, i)
      BY <1>1 DEF NotLeft, Adds, Ends
    <2>1. Alive(i)
      BY <1>3 DEF Alive
    <2>2. i = t.mon
      BY <1>5, <2>1 DEF ServedInv, NotLeft
    <2> QED  BY <1>4, <2>2 DEF Ends
  <1> QED  BY <1>6, <1>7, <1>8 DEF ServedInv

(* Nobody is on the list when the thread has ended.                        *)
LEMMA ServedJoin ==
  ASSUME MonitorInv, ServedInv, ClientsTyped', NEW t \in tasks, JoinMonitor(t)
  PROVE  ServedInv'
  <1>1. /\ t.pc = "join" /\ tasks' = tasks \ {t}
        /\ mons[t.mon].thread = "ended"
        /\ mons' = [mons EXCEPT ![t.mon].stops = @ + 1]
        /\ UNCHANGED <<tracks, mClients>>
    BY DEF JoinMonitor, At, cvars
  <1>2. /\ t.mon \in Ids /\ mons \in [Ids -> Monitor] /\ mClients = << >>
        /\ mons[t.mon].stops = 0
    BY <1>1, TaskFacts DEF Hand
  <1>3. /\ \A i \in Ids \ {t.mon} : mons'[i] = mons[i]
        /\ mons'[t.mon].printer = mons[t.mon].printer /\ mons'[t.mon].stops = 1
        /\ mons'[t.mon].ref = mons[t.mon].ref /\ mons'[t.mon].thread = "ended"
    BY <1>1, <1>2 DEF Monitor
  <1>4. \A d \in tasks : \A i \in Ids :
          (d.pc = "join" /\ d.mon = i) \/ Adds(d, i) \/ Ends(d, i) => i = t.mon
    BY <1>1, OneAtWork DEF Adds, Ends
  <1>5. Heard'
    <2> SUFFICES ASSUME NEW i \in Ids
                 PROVE  /\ Quits(i)' => \/ mons'[i].stops = 1
                                        \/ \E d \in tasks' : d.pc = "join" /\ d.mon = i
                        /\ mons'[i].ref # "none" =>
                             /\ mons'[i].thread # "none"
                             /\ \E c \in Clients : tracks'[c] = mons'[i].printer
      BY DEF Heard
    <2>1. CASE i = t.mon
      BY <1>1, <1>3, <2>1 DEF ServedInv, Heard
    <2>2. CASE i # t.mon
      BY <1>1, <1>3, <1>4, <2>2 DEF ServedInv, Heard, Quits
    <2> QED  BY <2>1, <2>2
  <1>6. Listed'
    BY <1>1, <1>2 DEF Listed, Contains
  <1>7. NotLeft'
    <2> SUFFICES ASSUME \A c, d \in Clients : tracks[c] = tracks[d], NEW i \in Ids, Alive(i)'
                 PROVE  FALSE
      BY <1>1 DEF NotLeft
    <2>1. i # t.mon
      BY <1>3 DEF Alive
    <2>2. Alive(i)
      BY <1>3, <2>1 DEF Alive
    <2> QED  BY <1>2, <1>4, <2>1, <2>2 DEF ServedInv, NotLeft
  <1> QED  BY <1>5, <1>6, <1>7 DEF ServedInv

LEMMA NextServed ==
  ASSUME MonitorInv, ServedInv, MonitorInv', [Next]_vars
  PROVE  ServedInv'
  <1>1. ClientsTyped'
    BY TypesStep DEF ServedInv
  <1>2. CASE \/ \E c \in Clients : StartTracking(c) \/ StopTracking(c)
             \/ NotifyNext
             \/ \E p \in Printers : PrinterChanges(p)
             \/ UNCHANGED vars
    BY <1>1, <1>2, ServedClients
  <1>3. CASE HandleAsk \/ HandleStatus
    BY <1>1, <1>3, ServedAsk, ServedStatus
  <1>4. CASE TaskStep
    <2>1. PICK t \in tasks : Lock(t) \/ StartStep(t) \/ StopStep(t)
      BY <1>4 DEF TaskStep
    <2>2. CASE Lock(t)
      BY <1>1, <2>2, ServedLock
    <2>3. CASE StartStep(t)
      BY <1>1, <2>3, ServedQuiet, ServedNew, ServedAdd DEF StartStep
    <2>4. CASE StopStep(t)
      BY <1>1, <2>4, ServedQuiet, ServedRemove, ServedStop, ServedJoin DEF StopStep
    <2> QED  BY <2>1, <2>2, <2>3, <2>4
  <1>5. CASE \E i \in Ids : ThreadStep(i)
    BY <1>1, <1>5, ServedThread
  <1> QED  BY <1>2, <1>3, <1>4, <1>5 DEF Next, JobStep

(* A client on the list has a running monitor of its printer, that nobody  *)
(* stops, whenever the lock is free; and where all clients follow one      *)
(* printer, no thread outlives the last of them.                           *)
THEOREM ClientsStayServed == Spec => []ClientsAreServed
  <1>1. Spec => []MonitorInv
    BY InitMonitor, NextMonitor, PTL DEF Spec
  <1>2. MonitorInv /\ ServedInv /\ [Next]_vars => (MonitorInv /\ ServedInv)'
    BY NextMonitor, NextServed
  <1>3. Spec => [](MonitorInv /\ ServedInv)
    BY <1>1, <1>2, InitMonitor, InitServed, PTL DEF Spec
  <1> QED  BY <1>3, ClientsServed, PTL
=============================================================================
