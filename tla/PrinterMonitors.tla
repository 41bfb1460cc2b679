--------------------------- MODULE PrinterMonitors ---------------------------
(***************************************************************************)
(* The monitors of printers that clients of the service follow: the        *)
(* clients of ServiceAndroidPrint (one per printer it tracks), the tasks   *)
(* StartMonitoringPrinterStatusTask and StopMonitoringPrinterStatusTask,   *)
(* the monitors of WPrintPrinterStatusMonitor with their shared list of    *)
(* clients, the receivers of wprintJNI.c, and the threads and handles of   *)
(* wprintStatusMonitorSetup, Start and Stop with the IPP status monitor.   *)
(***************************************************************************)
EXTENDS Integers, Sequences, SequencesExt, FiniteSets

CONSTANTS
  Printers,       (* the addresses of printers                               *)
  Clients,        (* the messengers of clients                               *)
  Tracks,         (* the printers they may track, one client one printer     *)
  MaxMonitors,    (* bound on the monitors made                              *)
  MaxChanges,     (* bound on the changes of a printer's state               *)
  SleepSuffices   (* is the thread of a monitor running after half a second  *)

ASSUME MonitorsAssumption ==
  /\ Printers # {}
  /\ Tracks \subseteq [Clients -> Printers]
  /\ MaxMonitors \in Nat /\ MaxChanges \in Nat /\ SleepSuffices \in BOOLEAN

VARIABLES
  tracks,         (* the printer each client tracks                          *)
  client,         (* what each client has asked for                          *)
  shown,          (* the status each client shows                            *)
  jobQ,           (* the queue of the JobHandler                             *)
  iter,           (* the iteration of notifyClients in the job thread        *)
  tasks,          (* the running tasks                                       *)
  lock,           (* who holds mPrinterStatusMonitorSyncObject               *)
  mClients,       (* the clients of all monitors                             *)
  map,            (* mPrinterStatusMonitorMap                                *)
  mons,           (* the monitors with their handles and threads             *)
  printer,        (* the state of each printer                               *)
  changes,        (* how often a printer has changed: a bound                *)
  crash           (* has the job thread died of an exception                 *)

cvars == <<tracks, client, shown>>
qvars == <<jobQ, iter, crash>>
tvars == <<tasks, lock, mClients, map>>
pvars == <<printer, changes>>
vars  == <<cvars, qvars, tvars, mons, pvars>>

(***************************************************************************)
(* Data.                                                                   *)
(***************************************************************************)
States  == {"idle", "running", "blocked"}
Ids     == 1 .. MaxMonitors
None    == 0
Nobody  == [what |-> "nobody"]

Ask(w, c)      == [what |-> w, client |-> c]
Told(i, s)     == [what |-> "status", mon |-> i, status |-> s]
Task(w, c, pc) == [what |-> w, client |-> c, pc |-> pc, mon |-> None]

NotIterating == [mon |-> None, at |-> 0, stale |-> FALSE]

(* A monitor: its printer, is its connection there (http), where its       *)
(* thread is, stop_monitor, monitor_sem, the status it last reported, the  *)
(* global reference to its Java object, the current status of that object, *)
(* and how often its handle was stopped.                                   *)
Monitor == [printer : Printers, http : BOOLEAN,
            thread : {"none", "created", "poll", "sem", "last", "ended"},
            stop : BOOLEAN, sem : Nat, last : States \cup {"none"},
            ref : {"none", "live", "deleted"},
            current : States \cup {"none"}, stops : Nat]
NoMonitor == [printer |-> CHOOSE p \in Printers : TRUE, http |-> FALSE,
              thread |-> "none", stop |-> FALSE, sem |-> 0, last |-> "none",
              ref |-> "none", current |-> "none", stops |-> 0]

Made == {i \in Ids : mons[i].ref # "none"}
Set(i, f, v) == mons' = [mons EXCEPT ![i][f] = v]

(* What the adapter makes of a printer's state: busy when it is blocked,   *)
(* idle otherwise.                                                         *)
Shows(s) == IF s = "blocked" THEN "busy" ELSE "idle"

Init ==
  /\ tracks \in Tracks
  /\ client = [c \in Clients |-> "new"]
  /\ shown = [c \in Clients |-> "none"]
  /\ jobQ = << >>
  /\ iter = NotIterating
  /\ tasks = {}
  /\ lock = Nobody
  /\ mClients = << >>
  /\ map = [p \in Printers |-> None]
  /\ mons = [i \in Ids |-> NoMonitor]
  /\ printer = [p \in Printers |-> "idle"]
  /\ changes = 0
  /\ crash = FALSE

(***************************************************************************)
(* The clients: the adapter starts to track a printer, and stops.  A stop  *)
(* goes to the front of the JobHandler's queue.                            *)
(***************************************************************************)
StartTracking(c) ==
  /\ client[c] = "new"
  /\ client' = [client EXCEPT ![c] = "started"]
  /\ jobQ' = Append(jobQ, Ask("start", c))
  /\ UNCHANGED <<tracks, shown, iter, crash, tvars, mons, pvars>>

StopTracking(c) ==
  /\ client[c] = "started"
  /\ client' = [client EXCEPT ![c] = "stopped"]
  /\ jobQ' = <<Ask("stop", c)>> \o jobQ
  /\ UNCHANGED <<tracks, shown, iter, crash, tvars, mons, pvars>>

(***************************************************************************)
(* The JobHandler.                                                         *)
(***************************************************************************)
Handler == ~crash /\ iter = NotIterating /\ jobQ # << >>

HandleAsk ==
  /\ Handler
  /\ Head(jobQ).what \in {"start", "stop"}
  /\ jobQ' = Tail(jobQ)
  /\ tasks' = tasks \cup {Task(Head(jobQ).what, Head(jobQ).client, "lock")}
  /\ UNCHANGED <<cvars, iter, crash, lock, mClients, map, mons, pvars>>

(* Mutant: takes only the first status.                                    *)
HandleFirst ==
  /\ Handler
  /\ Head(jobQ).what = "status"
  /\ jobQ' = Tail(jobQ)
  /\ LET m == Head(jobQ) IN
     IF mons[m.mon].current # "none" THEN UNCHANGED <<mons, iter>>
     ELSE /\ Set(m.mon, "current", m.status)
          /\ iter' = [mon |-> m.mon, at |-> 0, stale |-> FALSE]
  /\ UNCHANGED <<cvars, crash, tvars, pvars>>

(* PRINTER_STATUS: updateStatus, for a status that is new to the monitor,  *)
(* goes on to tell all clients.                                            *)
HandleStatus ==
  /\ Handler
  /\ Head(jobQ).what = "status"
  /\ jobQ' = Tail(jobQ)
  /\ LET m == Head(jobQ) IN
     IF mons[m.mon].current = m.status THEN UNCHANGED <<mons, iter>>
     ELSE /\ Set(m.mon, "current", m.status)
          /\ iter' = [mon |-> m.mon, at |-> 0, stale |-> FALSE]
  /\ UNCHANGED <<cvars, crash, tvars, pvars>>

(* One step of notifyClients: hasNext compares the cursor with the size,   *)
(* next throws an exception when the list was changed meanwhile.           *)
NotifyNext ==
  /\ ~crash
  /\ iter # NotIterating
  /\ IF iter.at = Len(mClients)
     THEN iter' = NotIterating /\ UNCHANGED <<shown, crash>>
     ELSE IF iter.stale
     THEN crash' = TRUE /\ UNCHANGED <<shown, iter>>
     ELSE /\ shown' = [shown EXCEPT ![mClients[iter.at + 1]] =
                         Shows(mons[iter.mon].current)]
          /\ iter' = [iter EXCEPT !.at = @ + 1]
          /\ UNCHANGED crash
  /\ UNCHANGED <<tracks, client, jobQ, tvars, mons, pvars>>

(***************************************************************************)
(* The tasks.  Both hold mPrinterStatusMonitorSyncObject all along.        *)
(***************************************************************************)
At(t, pc)    == ~crash /\ t \in tasks /\ t.pc = pc
Holds(t)     == lock = [what |-> t.what, client |-> t.client]
Goto(t, u)   == tasks' = (tasks \ {t}) \cup {u}
Changed      == IF iter = NotIterating THEN iter ELSE [iter EXCEPT !.stale = TRUE]
PrinterOf(t) == tracks[t.client]
MonOf(t)     == map[PrinterOf(t)]

Lock(t) ==
  /\ At(t, "lock")
  /\ lock = Nobody
  /\ lock' = [what |-> t.what, client |-> t.client]
  /\ Goto(t, [t EXCEPT !.pc = "lookup"])
  /\ UNCHANGED <<cvars, qvars, mClients, map, mons, pvars>>

(* A printer that has a monitor: on to addClient.                          *)
StartFound(t) ==
  /\ At(t, "lookup") /\ t.what = "start"
  /\ MonOf(t) # None
  /\ Goto(t, [t EXCEPT !.pc = "notify", !.mon = MonOf(t)])
  /\ UNCHANGED <<cvars, qvars, lock, mClients, map, mons, pvars>>

(* A printer that cannot be asked for its capabilities: an error.          *)
StartError(t) ==
  /\ At(t, "lookup") /\ t.what = "start"
  /\ MonOf(t) = None
  /\ shown' = [shown EXCEPT ![t.client] = "unavailable"]
  /\ Goto(t, [t EXCEPT !.pc = "sleep"])
  /\ UNCHANGED <<tracks, client, qvars, lock, mClients, map, mons, pvars>>

(* Mutant: sets up a monitor without looking for one.                      *)
StartAlways(t) ==
  /\ At(t, "lookup") /\ t.what = "start"
  /\ Made # Ids
  /\ LET i == CHOOSE i \in Ids \ Made : TRUE IN
     /\ \E http \in BOOLEAN :
          mons' = [mons EXCEPT ![i] =
                     [NoMonitor EXCEPT !.printer = PrinterOf(t), !.http = http,
                                       !.thread = "created", !.ref = "live"]]
     /\ Goto(t, [t EXCEPT !.pc = "notify", !.mon = i])
  /\ UNCHANGED <<cvars, qvars, lock, mClients, map, pvars>>

(* Setup and start of a new monitor, whose thread is created.              *)
StartNew(t) ==
  /\ At(t, "lookup") /\ t.what = "start"
  /\ MonOf(t) = None
  /\ Made # Ids
  /\ LET i == CHOOSE i \in Ids \ Made : TRUE IN
     /\ \E http \in BOOLEAN :
          mons' = [mons EXCEPT ![i] =
                     [NoMonitor EXCEPT !.printer = PrinterOf(t), !.http = http,
                                       !.thread = "created", !.ref = "live"]]
     /\ Goto(t, [t EXCEPT !.pc = "notify", !.mon = i])
  /\ UNCHANGED <<cvars, qvars, lock, mClients, map, pvars>>

(* addClient tells a new client the current status, if there is one ...    *)
AddNotify(t) ==
  /\ At(t, "notify")
  /\ LET s == mons[t.mon].current IN
     shown' = IF s = "none" \/ Contains(mClients, t.client) THEN shown
              ELSE [shown EXCEPT ![t.client] = Shows(s)]
  /\ Goto(t, [t EXCEPT !.pc = "add"])
  /\ UNCHANGED <<tracks, client, qvars, lock, mClients, map, mons, pvars>>

(* ... and adds it; a new monitor is put into the map.                     *)
AddClient(t) ==
  /\ At(t, "add")
  /\ IF Contains(mClients, t.client) THEN UNCHANGED <<mClients, iter>>
     ELSE mClients' = Append(mClients, t.client) /\ iter' = Changed
  /\ map' = [map EXCEPT ![PrinterOf(t)] = t.mon]
  /\ Goto(t, [t EXCEPT !.pc = "sleep"])
  /\ UNCHANGED <<cvars, jobQ, crash, lock, mons, pvars>>

(* The lock is kept for half a second, for the thread to get started.      *)
Release(t) ==
  /\ At(t, "sleep")
  /\ SleepSuffices => \A i \in Made : mons[i].thread # "created"
  /\ lock' = Nobody
  /\ tasks' = tasks \ {t}
  /\ UNCHANGED <<cvars, qvars, mClients, map, mons, pvars>>

(* removeClient, when the printer has a monitor; the last client stops     *)
(* the monitor of the printer it names: stop, join, destroy.               *)
StopNothing(t) ==
  /\ At(t, "lookup") /\ t.what = "stop"
  /\ MonOf(t) = None
  /\ lock' = Nobody
  /\ tasks' = tasks \ {t}
  /\ UNCHANGED <<cvars, qvars, mClients, map, mons, pvars>>

(* Vector.remove: a client has one place on the list.                      *)
Removed(c) ==
  IF Contains(mClients, c)
  THEN RemoveAt(mClients, CHOOSE k \in DOMAIN mClients : mClients[k] = c)
  ELSE mClients

(* Mutant: looks whether the list is empty before it removes the client.   *)
RemoveTooLate(t) ==
  /\ At(t, "lookup") /\ t.what = "stop"
  /\ MonOf(t) # None
  /\ mClients' = Removed(t.client)
  /\ iter' = IF Contains(mClients, t.client) THEN Changed ELSE iter
  /\ IF mClients = << >>
     THEN Goto(t, [t EXCEPT !.pc = "stop", !.mon = MonOf(t)])
     ELSE Goto(t, [t EXCEPT !.pc = "unlock"])
  /\ UNCHANGED <<cvars, jobQ, crash, lock, map, mons, pvars>>

RemoveClient(t) ==
  /\ At(t, "lookup") /\ t.what = "stop"
  /\ MonOf(t) # None
  /\ mClients' = Removed(t.client)
  /\ iter' = IF Contains(mClients, t.client) THEN Changed ELSE iter
  /\ IF mClients' = << >>
     THEN Goto(t, [t EXCEPT !.pc = "stop", !.mon = MonOf(t)])
     ELSE Goto(t, [t EXCEPT !.pc = "unlock"])
  /\ UNCHANGED <<cvars, jobQ, crash, lock, map, mons, pvars>>

StopUnlock(t) ==
  /\ At(t, "unlock")
  /\ lock' = Nobody
  /\ tasks' = tasks \ {t}
  /\ UNCHANGED <<cvars, qvars, mClients, map, mons, pvars>>

(* _stop of the IPP status monitor.                                        *)
StopMonitor(t) ==
  /\ At(t, "stop")
  /\ mons' = [mons EXCEPT ![t.mon].sem = @ + 1, ![t.mon].stop = TRUE]
  /\ Goto(t, [t EXCEPT !.pc = "join"])
  /\ UNCHANGED <<cvars, qvars, lock, mClients, map, pvars>>

(* The thread has ended: the handle is freed, and the monitor leaves the   *)
(* map if no client has come meanwhile.                                    *)
JoinMonitor(t) ==
  /\ At(t, "join")
  /\ mons[t.mon].thread = "ended"
  /\ mons' = [mons EXCEPT ![t.mon].stops = @ + 1]
  /\ map' = IF mClients = << >> THEN [map EXCEPT ![PrinterOf(t)] = None] ELSE map
  /\ lock' = Nobody
  /\ tasks' = tasks \ {t}
  /\ UNCHANGED <<cvars, qvars, mClients, pvars>>

(***************************************************************************)
(* The thread of a monitor: _start of the IPP status monitor, and the      *)
(* receiver in wprintJNI.c, which does not forward the first callback.     *)
(***************************************************************************)
Tell(i, s) == jobQ' = Append(jobQ, Told(i, s))

ThreadStart(i) ==
  /\ ~crash
  /\ mons[i].thread = "created"
  /\ mons' = [mons EXCEPT ![i].stop = FALSE,
                          ![i].thread = IF @ = "created" /\ mons[i].http
                                        THEN "poll" ELSE "sem"]
  /\ IF mons[i].http THEN UNCHANGED jobQ ELSE Tell(i, "blocked")
  /\ UNCHANGED <<cvars, iter, crash, tvars, pvars>>

(* Without a connection the thread waits to be stopped; its last callback, *)
(* SHUTTING_DOWN, deletes the reference.                                   *)
ThreadSem(i) ==
  /\ ~crash
  /\ mons[i].thread = "sem"
  /\ mons[i].sem > 0
  /\ mons' = [mons EXCEPT ![i].sem = @ - 1, ![i].thread = "ended",
                          ![i].ref = "deleted"]
  /\ UNCHANGED <<cvars, qvars, tvars, pvars>>

(* With one it asks the printer every second, and reports what is new.     *)
ThreadPoll(i) ==
  /\ ~crash
  /\ mons[i].thread = "poll" /\ ~mons[i].stop
  /\ LET s == printer[mons[i].printer] IN
     /\ s # mons[i].last
     /\ Set(i, "last", s)
     /\ Tell(i, s)
  /\ UNCHANGED <<cvars, iter, crash, tvars, pvars>>

(* Its last callback repeats the last report.                              *)
ThreadStop(i) ==
  /\ ~crash
  /\ mons[i].thread = "poll" /\ mons[i].stop
  /\ Set(i, "thread", "ended")
  /\ Tell(i, IF mons[i].last = "none" THEN "blocked" ELSE mons[i].last)
  /\ UNCHANGED <<cvars, iter, crash, tvars, pvars>>

ThreadStep(i) == ThreadStart(i) \/ ThreadSem(i) \/ ThreadPoll(i) \/ ThreadStop(i)

PrinterChanges(p) ==
  /\ changes < MaxChanges
  /\ changes' = changes + 1
  /\ \E s \in States \ {printer[p]} : printer' = [printer EXCEPT ![p] = s]
  /\ UNCHANGED <<cvars, qvars, tvars, mons>>

StartStep(t) == \/ StartFound(t) \/ StartError(t) \/ StartNew(t)
                \/ AddNotify(t) \/ AddClient(t) \/ Release(t)
StopStep(t)  == \/ StopNothing(t) \/ RemoveClient(t) \/ StopUnlock(t)
                \/ StopMonitor(t) \/ JoinMonitor(t)
TaskStep     == \E t \in tasks : Lock(t) \/ StartStep(t) \/ StopStep(t)
JobStep      == HandleAsk \/ HandleStatus \/ NotifyNext

Next == \/ \E c \in Clients : StartTracking(c) \/ StopTracking(c)
        \/ JobStep
        \/ TaskStep
        \/ \E i \in Ids : ThreadStep(i)
        \/ \E p \in Printers : PrinterChanges(p)

(* The looper, the pool of the tasks and the threads go on; a stop and the *)
(* end of a tracking are up to the user.                                   *)
Fairness == /\ WF_vars(JobStep)
            /\ WF_vars(TaskStep)
            /\ \A i \in Ids : WF_vars(ThreadStep(i))

Spec     == Init /\ [][Next]_vars
FairSpec == Spec /\ Fairness

(***************************************************************************)
(* Properties.                                                             *)
(***************************************************************************)
Alive(i) == mons[i].thread \notin {"none", "ended"}

(* The state is well typed.                                                *)
TypeOK ==
  /\ tracks \in [Clients -> Printers]
  /\ client \in [Clients -> {"new", "started", "stopped"}]
  /\ shown \in [Clients -> {"none", "idle", "busy", "unavailable"}]
  /\ \A k \in DOMAIN jobQ :
       \/ jobQ[k].what \in {"start", "stop"} /\ jobQ[k].client \in Clients
       \/ jobQ[k].what = "status" /\ jobQ[k].mon \in Ids /\ jobQ[k].status \in States
  /\ iter.mon \in Ids \cup {None} /\ iter.at \in Nat /\ iter.stale \in BOOLEAN
  /\ \A t \in tasks : t.client \in Clients /\ t.mon \in Ids \cup {None}
  /\ Range(mClients) \subseteq Clients
  /\ map \in [Printers -> Ids \cup {None}]
  /\ mons \in [Ids -> Monitor]
  /\ printer \in [Printers -> States]
  /\ changes \in 0 .. MaxChanges /\ crash \in BOOLEAN

(* A printer is asked by one thread at a time: the thread of a monitor has *)
(* ended before another monitor of its printer is set up, however the      *)
(* starts and stops of its clients overlap.                                *)
OneThreadPerPrinter ==
  \A i, k \in Ids :
    Alive(i) /\ Alive(k) /\ mons[i].printer = mons[k].printer => i = k

(* The handle of a monitor is freed once, and neither its thread, nor the  *)
(* map, nor a task that is about to stop it, still uses it after that.     *)
FreedAtLast ==
  \A i \in Ids :
    /\ mons[i].stops <= 1
    /\ mons[i].stops = 1 => /\ ~Alive(i)
                            /\ \A p \in Printers : map[p] # i
                            /\ \A t \in tasks : t.mon # i

(* Threads and handles of monitors do not outlive their use nor get lost.  *)
MonitorsAreSafe == OneThreadPerPrinter /\ FreedAtLast

(* A client on the list has a monitor, of its own printer, that nobody has *)
(* asked to stop.                                                          *)
ClientsAreWatched ==
  lock = Nobody =>
    \A c \in Range(mClients) :
      LET i == map[tracks[c]] IN
      i # None /\ mons[i].printer = tracks[c] /\ ~mons[i].stop /\ Alive(i)

(* As long as all clients follow the same printer, its monitor goes with   *)
(* the last of them (the list is shared by all monitors: with a second     *)
(* printer a monitor may be left behind).                                  *)
LastOneStopsIt ==
  lock = Nobody /\ (\A c, d \in Clients : tracks[c] = tracks[d]) /\ mClients = << >> =>
    \A i \in Ids : ~Alive(i)

(* Monitors are there for their clients, and only for them; and the state  *)
(* is well typed.                                                          *)
ClientsAreServed == TypeOK /\ ClientsAreWatched /\ LastOneStopsIt

(* Again and again no task is left: a stop is heard by the thread it waits *)
(* for, and the lock is free again.  It takes the half second to be enough.*)
TasksEnd ==
  []<>(crash \/ tasks = {})

(* A monitor with a connection ends up with the status its printer has.    *)
StatusArrives ==
  <>[](crash \/ \A i \in Ids : mons[i].thread = "poll" =>
                   mons[i].current = printer[mons[i].printer])

(* No task waits for ever, and the last status of a printer arrives.       *)
MonitorsServe == TasksEnd /\ StatusArrives
=============================================================================
