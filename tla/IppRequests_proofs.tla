-------------------------- MODULE IppRequests_proofs --------------------------
(***************************************************************************)
(* The requests of any number of threads to any printers, with any bounds  *)
(* on the retries: their counters stay in their bounds, the connection of  *)
(* a monitor has one request at a time, and a response is freed once.  And *)
(* for one printer with any versions: the version settles on one of them.  *)
(***************************************************************************)
EXTENDS IppRequests, TLAPS

Ops      == {"none", "caps", "state", "cancel", "job"}
Places   == {"idle", "lock", "set", "minor", "read", "send", "probe", "start",
             "reading", "good", "error"}
Resolves == {"new", "resolved", "refused"}
Frees    == {"none", "live", "freed"}
Uns      == 0 .. UnavailableMax
Bads     == 0 .. BadMax + 1
Nth      == 0 .. 3
Majors   == 1 .. 2

Calls ==
  [op : Ops, pc : Places, vs : Resolves, un : Uns, bad : Bads, probe : Nth,
   pun : Uns, pbad : Bads, set : Versions, major : Majors, resp : Frees,
   twice : BOOLEAN, failed : BOOLEAN, jobId : BOOLEAN, odd : BOOLEAN]

LEMMA Members ==
  /\ 0 \in Uns /\ 0 \in Bads /\ 0 \in Nth /\ 1 \in Nth /\ 1 \in Majors
  /\ {V10, V11, V20} \subseteq Versions
  /\ \A u \in Uns : u < UnavailableMax => u + 1 \in Uns
  /\ \A d \in Bads : d <= BadMax => d + 1 \in Bads
  /\ \A v \in Versions : v[1] \in Majors /\ v[2] \in 0 .. 1
  BY IppAssumption DEF Uns, Bads, Nth, Majors, Versions, V10, V11, V20

(* A call as the steps of its thread leave it. Only a call that prints a   *)
(* job starts one, so that the response of get_PrinterState is deleted at  *)
(* the end of a call that has taken one, or has found no version.          *)
Sound(r) ==
  /\ r \in Calls
  /\ r.twice => r.failed
  /\ r.pc = "start" => r.op = "job"
  /\ r.pc = "probe" => r.probe \in 1 .. 3

(* A call that uses the connection of a monitor has the monitor's mutex.   *)
Uses(r) == Monitors(r.op) /\ r.pc \notin {"idle", "lock"}

CallsInv ==
  /\ follows \in [Callers -> Printers]
  /\ version \in Versions
  /\ left \in [Callers -> Nat]
  /\ mutex \in [Printers -> Callers \cup {Nobody}]
  /\ stop \in [Printers -> BOOLEAN]
  /\ known \in [Printers -> {"none", "good", "error"}]
  /\ DOMAIN call = Callers
  /\ \A c \in Callers : Sound(call[c])
  /\ \A c \in Callers : Uses(call[c]) => mutex[follows[c]] = c

LEMMA IdleSound == Sound(Idle) /\ ~Uses(Idle)
  <1>1. Idle \in Calls
    BY Members DEF Calls, Idle, Ops, Places, Resolves, Frees
  <1> QED  BY <1>1 DEF Sound, Idle, Uses, Monitors

(* The end of a call is sound, unless it deletes a response again that was *)
(* deleted before the version was looked for.                              *)
LEMMA DoneSound ==
  ASSUME NEW r, Sound(r), NEW ok \in BOOLEAN,
         r.op = "state" /\ r.resp = "freed" => r.failed
  PROVE  Sound(Done(r, ok)) /\ Done(r, ok).op = r.op
         /\ Done(r, ok).pc \in {"good", "error"}
  <1> DEFINE t == r.op = "state" /\ r.resp = "freed"
             e == IF ok THEN "good" ELSE "error"
             d == [Idle EXCEPT !.op = r.op, !.pc = e, !.twice = t, !.failed = r.failed]
  <1>1. Done(r, ok) = d
    BY Zenon DEF Done
  <1>2. t \in BOOLEAN /\ r.failed \in BOOLEAN /\ (t => r.failed) /\ r.op \in Ops
    BY Zenon DEF Sound, Calls
  <1>3. e \in {"good", "error"} /\ e \in Places
    BY DEF Places
  <1>4. Idle \in Calls
    BY IdleSound DEF Sound
  <1> HIDE DEF t, e
  <1>5. d \in Calls
    BY <1>2, <1>3, <1>4 DEF Calls
  <1>6. d.twice = t /\ d.failed = r.failed /\ d.op = r.op /\ d.pc = e
    BY <1>4, Zenon DEF Calls
  <1> HIDE DEF d
  <1> QED  BY <1>1, <1>2, <1>3, <1>5, <1>6 DEF Sound

(* Another attempt is sound.                                               *)
LEMMA AgainSound ==
  ASSUME NEW r, Sound(r)
  PROVE  Sound(Again(r)) /\ Again(r).op = r.op /\ Again(r).pc \notin {"idle", "lock"}
  <1> DEFINE p == [r EXCEPT !.pc = "probe", !.probe = 1, !.major = 1]
             s == [r EXCEPT !.pc = "set", !.major = 1]
  <1>1. Again(r) \in {p, s}
    BY DEF Again
  <1>2. r \in Calls /\ "probe" \in Places /\ "set" \in Places
    BY DEF Sound, Places
  <1>3. p \in Calls /\ s \in Calls
    BY <1>2, Members DEF Calls
  <1>4. /\ p.twice = r.twice /\ p.failed = r.failed /\ p.op = r.op
        /\ p.pc = "probe" /\ p.probe = 1
        /\ s.twice = r.twice /\ s.failed = r.failed /\ s.op = r.op /\ s.pc = "set"
    BY <1>2, Zenon DEF Calls
  <1> HIDE DEF p, s
  <1> QED  BY <1>1, <1>3, <1>4 DEF Sound

(* A thread that goes on with its call, and takes no lock.                 *)
LEMMA CallGoesOn ==
  ASSUME CallsInv, NEW c \in Callers, NEW r, Step(c, r), Sound(r), r.op = call[c].op,
         call[c].pc \notin {"idle", "lock"}, Same(c), version' \in Versions
  PROVE  CallsInv'
  <1>1. /\ DOMAIN call' = Callers
        /\ call'[c] = r /\ \A d \in Callers \ {c} : call'[d] = call[d]
    BY DEF CallsInv, Step
  <1>2. \A d \in Callers : Sound(call'[d])
    BY <1>1 DEF CallsInv
  <1>3. \A d \in Callers : Uses(call'[d]) => Uses(call[d])
    BY <1>1 DEF Uses
  <1> QED  BY <1>1, <1>2, <1>3 DEF CallsInv, Same

(* Attempts after an answer: a counter goes up, or a version was refused,  *)
(* and the response of the attempt is there, deleted, or was none.         *)
LEMMA RetrySound ==
  ASSUME NEW r, Sound(r), NEW f \in Frees,
         NEW s,
         \/ s = [r EXCEPT !.resp = f]
         \/ s = [r EXCEPT !.vs = "refused", !.resp = f]
         \/ /\ r.un < UnavailableMax
            /\ s \in {[r EXCEPT !.un = @ + 1, !.resp = f], [r EXCEPT !.un = @ + 1]}
         \/ /\ r.bad <= BadMax
            /\ s \in {[r EXCEPT !.bad = @ + 1, !.resp = f], [r EXCEPT !.bad = @ + 1]}
  PROVE  Sound(s) /\ s.op = r.op
  <1>1. r \in Calls /\ "refused" \in Resolves /\ r.un \in Uns /\ r.bad \in Bads
    BY DEF Sound, Resolves, Calls
  <1>2. CASE s = [r EXCEPT !.resp = f]
    <2>1. s \in Calls /\ s.twice = r.twice /\ s.failed = r.failed /\ s.op = r.op
          /\ s.pc = r.pc /\ s.probe = r.probe
      BY <1>1, <1>2 DEF Calls
    <2> QED  BY <2>1 DEF Sound
  <1>3. CASE s = [r EXCEPT !.vs = "refused", !.resp = f]
    <2>1. s \in Calls /\ s.twice = r.twice /\ s.failed = r.failed /\ s.op = r.op
          /\ s.pc = r.pc /\ s.probe = r.probe
      BY <1>1, <1>3 DEF Calls
    <2> QED  BY <2>1 DEF Sound
  <1>4. CASE /\ r.un < UnavailableMax
             /\ s \in {[r EXCEPT !.un = @ + 1, !.resp = f], [r EXCEPT !.un = @ + 1]}
    <2>1. r.un + 1 \in Uns
      BY <1>1, <1>4, Members
    <2>2. s \in Calls /\ s.twice = r.twice /\ s.failed = r.failed /\ s.op = r.op
          /\ s.pc = r.pc /\ s.probe = r.probe
      BY <1>1, <1>4, <2>1 DEF Calls
    <2> QED  BY <2>2 DEF Sound
  <1>5. CASE /\ r.bad <= BadMax
             /\ s \in {[r EXCEPT !.bad = @ + 1, !.resp = f], [r EXCEPT !.bad = @ + 1]}
    <2>1. r.bad + 1 \in Bads
      BY <1>1, <1>5, Members
    <2>2. s \in Calls /\ s.twice = r.twice /\ s.failed = r.failed /\ s.op = r.op
          /\ s.pc = r.pc /\ s.probe = r.probe
      BY <1>1, <1>5, <2>1 DEF Calls
    <2> QED  BY <2>2 DEF Sound
  <1> QED  BY <1>2, <1>3, <1>4, <1>5

(* What a call becomes: sound, the same operation, and it takes no lock.   *)
Continues(r, s) == Sound(s) /\ s.op = r.op /\ s.pc \notin {"idle", "lock"}

LEMMA AskedSound ==
  ASSUME NEW r, Sound(r), NEW a
  PROVE  Continues(r, Asked(r, a))
  <1>1. {"none", "live", "freed"} \subseteq Frees
    BY DEF Frees
  <1>2. r \in Calls
    BY DEF Sound
  <1>3. ASSUME NEW f \in {"none", "live"}, NEW ok \in BOOLEAN
        PROVE  Continues(r, Done([r EXCEPT !.resp = f], ok))
    <2> DEFINE s == [r EXCEPT !.resp = f]
    <2>1. s.resp = f
      BY <1>2 DEF Calls
    <2>2. Sound(s) /\ s.op = r.op
      BY <1>1, RetrySound
    <2> HIDE DEF s
    <2>3. s.resp # "freed"
      BY <2>1
    <2>4. Sound(Done(s, ok)) /\ Done(s, ok).op = s.op /\ Done(s, ok).pc \in {"good", "error"}
      BY <2>2, <2>3, DoneSound
    <2>5. Continues(r, Done(s, ok))
      BY <2>2, <2>4 DEF Continues
    <2> QED  BY <2>5 DEF s
  <1>4. Continues(r, Again([r EXCEPT !.vs = "refused", !.resp = "freed"]))
    <2> DEFINE s == [r EXCEPT !.vs = "refused", !.resp = "freed"]
    <2>1. Sound(s) /\ s.op = r.op
      BY <1>1, RetrySound
    <2> HIDE DEF s
    <2>2. Continues(r, Again(s))
      BY <2>1, AgainSound DEF Continues
    <2> QED  BY <2>2 DEF s
  <1>5. ASSUME r.un < UnavailableMax
        PROVE  Continues(r, Again([r EXCEPT !.un = @ + 1, !.resp = "none"]))
    <2> DEFINE s == [r EXCEPT !.un = @ + 1, !.resp = "none"]
    <2>0. "none" \in Frees /\ r.un < UnavailableMax
          /\ s \in {[r EXCEPT !.un = @ + 1, !.resp = "none"], [r EXCEPT !.un = @ + 1]}
      BY <1>1, <1>5
    <2> HIDE DEF s
    <2>1. Sound(s) /\ s.op = r.op
      BY <2>0, RetrySound
    <2>2. Continues(r, Again(s))
      BY <2>1, AgainSound DEF Continues
    <2> QED  BY <2>2 DEF s
  <1>6. ASSUME r.bad <= BadMax, NEW f \in {"none", "freed"}
        PROVE  Continues(r, Again([r EXCEPT !.bad = @ + 1, !.resp = f]))
    <2> DEFINE s == [r EXCEPT !.bad = @ + 1, !.resp = f]
    <2>0. f \in Frees /\ r.bad <= BadMax
          /\ s \in {[r EXCEPT !.bad = @ + 1, !.resp = f], [r EXCEPT !.bad = @ + 1]}
      BY <1>1, <1>6
    <2> HIDE DEF s
    <2>1. Sound(s) /\ s.op = r.op
      BY <2>0, RetrySound
    <2>2. Continues(r, Again(s))
      BY <2>1, AgainSound DEF Continues
    <2> QED  BY <2>2 DEF s
  <1> QED  BY <1>3, <1>4, <1>5, <1>6, Zenon DEF Asked

LEMMA ValidatedSound ==
  ASSUME NEW r, Sound(r), r.op = "job", NEW a
  PROVE  Continues(r, Validated(r, a))
  <1>1. ASSUME r.un < UnavailableMax
        PROVE  Continues(r, Again([r EXCEPT !.un = @ + 1]))
    <2> DEFINE s == [r EXCEPT !.un = @ + 1]
    <2>1. /\ "none" \in Frees /\ r.un < UnavailableMax
          /\ s \in {[r EXCEPT !.un = @ + 1, !.resp = "none"], [r EXCEPT !.un = @ + 1]}
      BY <1>1 DEF Frees
    <2> HIDE DEF s
    <2>2. Sound(s) /\ s.op = r.op
      BY <2>1, RetrySound
    <2>3. Continues(r, Again(s))
      BY <2>2, AgainSound DEF Continues
    <2> QED  BY <2>3 DEF s
  <1>2. ASSUME r.bad <= BadMax
        PROVE  Continues(r, Again([r EXCEPT !.bad = @ + 1]))
    <2> DEFINE s == [r EXCEPT !.bad = @ + 1]
    <2>1. /\ "none" \in Frees /\ r.bad <= BadMax
          /\ s \in {[r EXCEPT !.bad = @ + 1, !.resp = "none"], [r EXCEPT !.bad = @ + 1]}
      BY <1>2 DEF Frees
    <2> HIDE DEF s
    <2>2. Sound(s) /\ s.op = r.op
      BY <2>1, RetrySound
    <2>3. Continues(r, Again(s))
      BY <2>2, AgainSound DEF Continues
    <2> QED  BY <2>3 DEF s
  <1>3. Continues(r, [Idle EXCEPT !.op = r.op, !.pc = "start"])
    <2> DEFINE s == [Idle EXCEPT !.op = r.op, !.pc = "start"]
    <2>1. Idle \in Calls /\ Idle.twice = FALSE /\ r.op \in Ops /\ "start" \in Places
      BY IdleSound DEF Sound, Calls, Idle, Places
    <2>2. s \in Calls /\ s.op = "job" /\ s.pc = "start" /\ s.twice = FALSE
      BY <2>1 DEF Calls
    <2> HIDE DEF s
    <2>3. Continues(r, s)
      BY <2>2 DEF Continues, Sound
    <2> QED  BY <2>3 DEF s
  <1> QED  BY <1>1, <1>2, <1>3, Zenon DEF Validated

LEMMA CancelledSound ==
  ASSUME NEW r, Sound(r), r.op = "cancel", NEW a, NEW found
  PROVE  Continues(r, Cancelled(r, a, found))
  <1>1. ASSUME r.un < UnavailableMax
        PROVE  Continues(r, Again([r EXCEPT !.un = @ + 1]))
    <2> DEFINE s == [r EXCEPT !.un = @ + 1]
    <2>1. /\ "none" \in Frees /\ r.un < UnavailableMax
          /\ s \in {[r EXCEPT !.un = @ + 1, !.resp = "none"], [r EXCEPT !.un = @ + 1]}
      BY <1>1 DEF Frees
    <2> HIDE DEF s
    <2>2. Sound(s) /\ s.op = r.op
      BY <2>1, RetrySound
    <2>3. Continues(r, Again(s))
      BY <2>2, AgainSound DEF Continues
    <2> QED  BY <2>3 DEF s
  <1>2. ASSUME r.bad <= BadMax
        PROVE  Continues(r, Again([r EXCEPT !.bad = @ + 1]))
    <2> DEFINE s == [r EXCEPT !.bad = @ + 1]
    <2>1. /\ "none" \in Frees /\ r.bad <= BadMax
          /\ s \in {[r EXCEPT !.bad = @ + 1, !.resp = "none"], [r EXCEPT !.bad = @ + 1]}
      BY <1>2 DEF Frees
    <2> HIDE DEF s
    <2>2. Sound(s) /\ s.op = r.op
      BY <2>1, RetrySound
    <2>3. Continues(r, Again(s))
      BY <2>2, AgainSound DEF Continues
    <2> QED  BY <2>3 DEF s
  <1>3. r.un + 1 < UnavailableMax => r.un < UnavailableMax
    BY IppAssumption DEF Sound, Calls, Uns
  <1>4. Continues(r, [r EXCEPT !.pc = "set", !.jobId = TRUE, !.un = 0, !.bad = 0])
    <2> DEFINE s == [r EXCEPT !.pc = "set", !.jobId = TRUE, !.un = 0, !.bad = 0]
    <2>1. r \in Calls /\ "set" \in Places
      BY DEF Sound, Places
    <2>2. s \in Calls /\ s.op = r.op /\ s.pc = "set" /\ s.twice = r.twice
          /\ s.failed = r.failed
      BY <2>1, Members DEF Calls
    <2> HIDE DEF s
    <2>3. Continues(r, s)
      BY <2>2 DEF Continues, Sound
    <2> QED  BY <2>3 DEF s
  <1>5. ASSUME NEW ok \in BOOLEAN
        PROVE  Continues(r, Done(r, ok))
    BY DoneSound DEF Continues
  <1>6. (r.jobId /\ a \in {"ok", "bad", "version"}) \in BOOLEAN
    OBVIOUS
  <1>7. Continues(r, [r EXCEPT !.pc = "reading"])
    <2> DEFINE s == [r EXCEPT !.pc = "reading"]
    <2>1. r \in Calls /\ "reading" \in Places
      BY DEF Sound, Places
    <2>2. s \in Calls /\ s.op = r.op /\ s.pc = "reading" /\ s.twice = r.twice
          /\ s.failed = r.failed
      BY <2>1 DEF Calls
    <2> HIDE DEF s
    <2>3. Continues(r, s)
      BY <2>2 DEF Continues, Sound
    <2> QED  BY <2>3 DEF s
  <1> QED  BY <1>1, <1>2, <1>3, <1>4, <1>5, <1>6, <1>7, Zenon DEF Cancelled

(* Whether the answer was an odd one does not matter to a call.            *)
LEMMA AnsweredSound ==
  ASSUME NEW r, Sound(r), NEW a, NEW found, NEW b \in BOOLEAN
  PROVE  Continues(r, [Answered(r, a, found) EXCEPT !.odd = b])
  <1> DEFINE s == Answered(r, a, found)
             t == [s EXCEPT !.odd = b]
  <1>1. Continues(r, s)
    <2>1. r.op = "cancel" => Continues(r, Cancelled(r, a, found))
      BY CancelledSound
    <2>2. r.op = "job" => Continues(r, Validated(r, a))
      BY ValidatedSound
    <2>3. Continues(r, Asked(r, a))
      BY AskedSound
    <2> QED  BY <2>1, <2>2, <2>3, Zenon DEF Answered
  <1> HIDE DEF s
  <1>2. s \in Calls
    BY <1>1 DEF Continues, Sound
  <1>3. /\ t \in Calls /\ t.op = s.op /\ t.pc = s.pc /\ t.twice = s.twice
        /\ t.failed = s.failed /\ t.probe = s.probe
    BY <1>2 DEF Calls
  <1> HIDE DEF t
  <1>4. Continues(r, t)
    BY <1>1, <1>3 DEF Continues, Sound
  <1> QED  BY <1>4 DEF s, t

(* The next version is tried, or there is none left.                       *)
LEMMA NextProbeSound ==
  ASSUME NEW r, Sound(r), r.pc = "probe"
  PROVE  Continues(r, NextProbe(r))
  <1>1. Len(Probes) = 3 /\ r \in Calls /\ r.probe \in 1 .. 3
    BY DEF Probes, Sound
  <1>2. CASE r.probe < 3
    <2> DEFINE s == [r EXCEPT !.probe = @ + 1, !.pun = 0, !.pbad = 0]
    <2>1. r.probe + 1 \in 1 .. 3 /\ r.probe + 1 \in Nth
      BY <1>1, <1>2 DEF Nth
    <2>2. s \in Calls /\ s.op = r.op /\ s.pc = r.pc /\ s.twice = r.twice
          /\ s.failed = r.failed /\ s.probe = r.probe + 1
      BY <1>1, <2>1, Members DEF Calls
    <2> HIDE DEF s
    <2>3. Continues(r, s)
      BY <2>1, <2>2 DEF Continues, Sound
    <2> QED  BY <1>1, <1>2, <2>3 DEF NextProbe, s
  <1>3. CASE ~(r.probe < 3)
    <2> DEFINE s == [r EXCEPT !.failed = TRUE]
    <2>1. s \in Calls /\ s.op = r.op /\ s.pc = r.pc /\ s.failed /\ s.probe = r.probe
      BY <1>1 DEF Calls
    <2> HIDE DEF s
    <2>2. Sound(s)
      BY <2>1 DEF Sound
    <2>3. Continues(r, Done(s, FALSE))
      BY <2>1, <2>2, DoneSound DEF Continues
    <2> QED  BY <1>1, <1>3, <2>3 DEF NextProbe, s
  <1> QED  BY <1>2, <1>3

-----------------------------------------------------------------------------
LEMMA VersionSet ==
  ASSUME NEW v \in Versions, NEW x \in Versions
  PROVE  /\ [v EXCEPT ![1] = x[1]] \in Versions
         /\ [v EXCEPT ![2] = x[2]] \in Versions
  BY DEF Versions

(* A call that goes on, as the operators above have it.                    *)
LEMMA GoesOn ==
  ASSUME CallsInv, NEW c \in Callers, NEW r, Step(c, r), Continues(call[c], r),
         call[c].pc \notin {"idle", "lock"}, Same(c), version' \in Versions
  PROVE  CallsInv'
  BY CallGoesOn DEF Continues

(* Setting the major version.                                              *)
LEMMA WriteMajorStep ==
  ASSUME CallsInv, NEW c \in Callers, NEW r, Sound(r), r.op = call[c].op,
         NEW v \in Versions, WriteMajor(c, r, v),
         call[c].pc \notin {"idle", "lock"}, Same(c)
  PROVE  CallsInv'
  <1> DEFINE s == [r EXCEPT !.pc = "minor", !.set = v]
  <1>1. r \in Calls /\ "minor" \in Places
    BY DEF Sound, Places
  <1>2. s \in Calls /\ s.op = r.op /\ s.pc = "minor" /\ s.twice = r.twice
        /\ s.failed = r.failed
    BY <1>1 DEF Calls
  <1>3. Step(c, s) /\ version' \in Versions
    BY VersionSet DEF WriteMajor, CallsInv
  <1> HIDE DEF s
  <1>4. Sound(s)
    BY <1>2 DEF Sound
  <1> QED  BY <1>2, <1>3, <1>4, CallGoesOn

LEMMA SetVersionStep ==
  ASSUME CallsInv, NEW c \in Callers, SetVersion(c)
  PROVE  CallsInv'
  <1> DEFINE r == call[c]
  <1>1. /\ Sound(r) /\ r \in Calls /\ r.pc = "set" /\ Same(c)
        /\ version \in Versions /\ "send" \in Places
    BY DEF CallsInv, Sound, SetVersion, At, Places
  <1>2. CASE r.op = "cancel" /\ Step(c, Done(r, FALSE)) /\ UNCHANGED version
    <2>1. Continues(r, Done(r, FALSE))
      BY <1>1, <1>2, DoneSound DEF Continues
    <2> QED  BY <1>1, <1>2, <2>1, GoesOn
  <1>3. CASE WriteMajor(c, r, V20)
    BY <1>1, <1>3, Members, WriteMajorStep
  <1>4. CASE Step(c, [r EXCEPT !.pc = "send", !.major = version[1]]) /\ UNCHANGED version
    <2> DEFINE s == [r EXCEPT !.pc = "send", !.major = version[1]]
    <2>1. version[1] \in Majors
      BY <1>1, Members
    <2>2. s \in Calls /\ s.op = r.op /\ s.pc = "send" /\ s.twice = r.twice
          /\ s.failed = r.failed
      BY <1>1, <2>1 DEF Calls
    <2> HIDE DEF s
    <2>3. Continues(r, s)
      BY <1>1, <2>2 DEF Continues, Sound
    <2> QED  BY <1>1, <1>4, <2>3, GoesOn DEF s
  <1> QED  BY <1>2, <1>3, <1>4, Zenon DEF SetVersion

LEMMA WriteMinorStep ==
  ASSUME CallsInv, NEW c \in Callers, WriteMinor(c)
  PROVE  CallsInv'
  <1> DEFINE r == call[c]
             s == [r EXCEPT !.pc = "read", !.set = V20]
  <1>1. /\ Sound(r) /\ r \in Calls /\ r.pc = "minor" /\ Same(c)
        /\ version \in Versions /\ "read" \in Places /\ r.set \in Versions
    BY DEF CallsInv, Sound, WriteMinor, At, Places, Calls
  <1>2. Step(c, s) /\ version' = [version EXCEPT ![2] = r.set[2]]
    BY DEF WriteMinor
  <1>3. version' \in Versions
    BY <1>1, <1>2, VersionSet
  <1>4. s \in Calls /\ s.op = r.op /\ s.pc = "read" /\ s.twice = r.twice
        /\ s.failed = r.failed
    BY <1>1, Members DEF Calls
  <1> HIDE DEF s
  <1>5. Continues(r, s)
    BY <1>1, <1>4 DEF Continues, Sound
  <1> QED  BY <1>1, <1>2, <1>3, <1>5, GoesOn

LEMMA ReadMajorStep ==
  ASSUME CallsInv, NEW c \in Callers, ReadMajor(c)
  PROVE  CallsInv'
  <1> DEFINE r == call[c]
             s == [r EXCEPT !.pc = "send", !.major = version[1]]
  <1>1. /\ Sound(r) /\ r \in Calls /\ r.pc = "read" /\ Same(c)
        /\ version \in Versions /\ "send" \in Places /\ version[1] \in Majors
    BY Members DEF CallsInv, Sound, ReadMajor, At, Places
  <1>2. Step(c, s) /\ UNCHANGED version
    BY DEF ReadMajor
  <1>3. s \in Calls /\ s.op = r.op /\ s.pc = "send" /\ s.twice = r.twice
        /\ s.failed = r.failed
    BY <1>1 DEF Calls
  <1> HIDE DEF s
  <1>4. Continues(r, s)
    BY <1>1, <1>3 DEF Continues, Sound
  <1> QED  BY <1>1, <1>2, <1>4, GoesOn

LEMMA ProbeStep ==
  ASSUME CallsInv, NEW c \in Callers, Probe(c)
  PROVE  CallsInv'
  <1> DEFINE r     == call[c]
             fresh == [r EXCEPT !.probe = 0, !.pun = 0, !.pbad = 0]
  <1>1. /\ Sound(r) /\ r \in Calls /\ r.pc = "probe" /\ Same(c)
        /\ version \in Versions /\ r.pun \in Uns /\ r.pbad \in Bads
        /\ r.probe \in 1 .. 3
    BY DEF CallsInv, Sound, Probe, At, Calls
  <1>2. \/ \E told : WriteMajor(c, fresh, Best(told))
        \/ /\ \/ r.pun < UnavailableMax /\ Step(c, [r EXCEPT !.pun = @ + 1])
              \/ r.pbad <= BadMax /\ Step(c, [r EXCEPT !.pbad = @ + 1])
              \/ Step(c, NextProbe(r))
           /\ UNCHANGED version
    BY Zenon DEF Probe
  <1>3. ASSUME NEW told, WriteMajor(c, fresh, Best(told)) PROVE CallsInv'
    <2>1. Best(told) \in Versions
      BY Members DEF Best
    <2>2. fresh \in Calls /\ fresh.op = r.op /\ fresh.pc = r.pc
          /\ fresh.twice = r.twice /\ fresh.failed = r.failed
      BY <1>1, Members DEF Calls
    <2> DEFINE s == [fresh EXCEPT !.pc = "minor", !.set = Best(told)]
    <2>3. /\ Step(c, s) /\ version' = [version EXCEPT ![1] = Best(told)[1]]
      BY <1>3 DEF WriteMajor
    <2>4. version' \in Versions
      BY <1>1, <2>1, <2>3, VersionSet
    <2>5. "minor" \in Places
      BY DEF Places
    <2> HIDE DEF fresh
    <2>6. s \in Calls /\ s.op = fresh.op /\ s.pc = "minor" /\ s.twice = fresh.twice
          /\ s.failed = fresh.failed
      BY <2>1, <2>2, <2>5 DEF Calls
    <2> HIDE DEF s
    <2>7. Continues(r, s)
      BY <1>1, <2>2, <2>6 DEF Continues, Sound
    <2> QED  BY <1>1, <2>3, <2>4, <2>7, GoesOn
  <1>4. CASE r.pun < UnavailableMax /\ Step(c, [r EXCEPT !.pun = @ + 1])
             /\ UNCHANGED version
    <2> DEFINE s == [r EXCEPT !.pun = @ + 1]
    <2>1. r.pun + 1 \in Uns
      BY <1>1, <1>4, Members
    <2>2. s \in Calls /\ s.op = r.op /\ s.pc = r.pc /\ s.twice = r.twice
          /\ s.failed = r.failed /\ s.probe = r.probe
      BY <1>1, <2>1 DEF Calls
    <2> HIDE DEF s
    <2>3. Continues(r, s)
      BY <1>1, <2>2 DEF Continues, Sound
    <2> QED  BY <1>1, <1>4, <2>3, GoesOn DEF s
  <1>5. CASE r.pbad <= BadMax /\ Step(c, [r EXCEPT !.pbad = @ + 1])
             /\ UNCHANGED version
    <2> DEFINE s == [r EXCEPT !.pbad = @ + 1]
    <2>1. r.pbad + 1 \in Bads
      BY <1>1, <1>5, Members
    <2>2. s \in Calls /\ s.op = r.op /\ s.pc = r.pc /\ s.twice = r.twice
          /\ s.failed = r.failed /\ s.probe = r.probe
      BY <1>1, <2>1 DEF Calls
    <2> HIDE DEF s
    <2>3. Continues(r, s)
      BY <1>1, <2>2 DEF Continues, Sound
    <2> QED  BY <1>1, <1>5, <2>3, GoesOn DEF s
  <1>6. CASE Step(c, NextProbe(r)) /\ UNCHANGED version
    <2>1. Continues(r, NextProbe(r))
      BY <1>1, NextProbeSound
    <2> QED  BY <1>1, <1>6, <2>1, GoesOn
  <1> QED  BY <1>2, <1>3, <1>4, <1>5, <1>6, Zenon

LEMMA RequestStep ==
  ASSUME CallsInv, NEW c \in Callers, Request(c)
  PROVE  CallsInv'
  <1> DEFINE r == call[c]
  <1>1. Sound(r) /\ r.pc = "send" /\ Same(c) /\ version \in Versions /\ UNCHANGED version
    BY DEF CallsInv, Request, At
  <1>2. PICK a \in Answers(follows[c], <<r.major, version[2]>>), found \in BOOLEAN,
             b \in BOOLEAN :
          Step(c, [Answered(r, a, found) EXCEPT !.odd = b])
    BY Zenon DEF Request
  <1> HIDE DEF r
  <1>3. Continues(r, [Answered(r, a, found) EXCEPT !.odd = b])
    BY <1>1, AnsweredSound
  <1> QED  BY <1>1, <1>2, <1>3, GoesOn DEF r

LEMMA PrintJobStep ==
  ASSUME CallsInv, NEW c \in Callers, PrintJob(c)
  PROVE  CallsInv'
  <1> DEFINE r == call[c]
  <1>1. Sound(r) /\ r.pc = "start" /\ Same(c) /\ version \in Versions /\ UNCHANGED version
    BY DEF CallsInv, PrintJob, At
  <1>2. PICK ok \in BOOLEAN : Step(c, Done(r, ok))
    BY DEF PrintJob
  <1>3. Continues(r, Done(r, ok))
    <2>1. r.op = "job"
      BY <1>1 DEF Sound
    <2> QED  BY <1>1, <2>1, DoneSound DEF Continues
  <1> QED  BY <1>1, <1>2, <1>3, GoesOn

(* The mutex.                                                              *)
LEMMA LockStep ==
  ASSUME CallsInv, NEW c \in Callers, Lock(c)
  PROVE  CallsInv'
  <1> DEFINE r == call[c]
             s == [r EXCEPT !.pc = "set"]
  <1>1. /\ Sound(r) /\ r \in Calls /\ r.pc = "lock" /\ "set" \in Places
        /\ mutex[follows[c]] = Nobody /\ follows[c] \in Printers
        /\ mutex' = [mutex EXCEPT ![follows[c]] = c]
        /\ UNCHANGED <<follows, version, left, stop, known>>
    BY DEF CallsInv, Sound, Lock, At, Places
  <1>2. Step(c, s)
    BY DEF Lock
  <1>3. s \in Calls /\ s.pc = "set" /\ s.twice = r.twice /\ s.failed = r.failed
    BY <1>1 DEF Calls
  <1> HIDE DEF s
  <1>4. Sound(s)
    BY <1>1, <1>3 DEF Sound
  <1>5. /\ DOMAIN call' = Callers /\ call'[c] = s
        /\ \A d \in Callers \ {c} : call'[d] = call[d]
    BY <1>2 DEF CallsInv, Step
  <1>6. \A d \in Callers : Sound(call'[d])
    BY <1>4, <1>5 DEF CallsInv
  <1>7. ASSUME NEW d \in Callers, Uses(call'[d]) PROVE mutex'[follows'[d]] = d
    <2>1. CASE d = c
      BY <1>1, <2>1 DEF CallsInv
    <2>2. CASE d # c
      <3>1. mutex[follows[d]] = d /\ d # Nobody
        BY <1>5, <1>7, <2>2, IppAssumption DEF CallsInv
      <3> QED  BY <1>1, <3>1 DEF CallsInv
    <2> QED  BY <2>1, <2>2
  <1>8. mutex' \in [Printers -> Callers \cup {Nobody}]
    BY <1>1 DEF CallsInv
  <1> QED  BY <1>1, <1>5, <1>6, <1>7, <1>8 DEF CallsInv

LEMMA ReturnStep ==
  ASSUME CallsInv, NEW c \in Callers, Return(c)
  PROVE  CallsInv'
  <1>1. /\ UNCHANGED <<follows, version, left, stop>> /\ Step(c, Idle)
        /\ mutex' = IF mutex[follows[c]] = c THEN [mutex EXCEPT ![follows[c]] = Nobody]
                                             ELSE mutex
        /\ known' = IF call[c].op = "caps" THEN [known EXCEPT ![follows[c]] = call[c].pc]
                                           ELSE known
        /\ call[c].pc \in {"good", "error"}
    BY DEF Return
  <1>2. /\ DOMAIN call' = Callers /\ call'[c] = Idle
        /\ \A d \in Callers \ {c} : call'[d] = call[d]
    BY <1>1 DEF CallsInv, Step
  <1>3. \A d \in Callers : Sound(call'[d])
    BY <1>2, IdleSound DEF CallsInv
  <1>4. ASSUME NEW d \in Callers, Uses(call'[d]) PROVE mutex'[follows'[d]] = d
    <2>1. d # c /\ mutex[follows[d]] = d
      BY <1>2, <1>4, IdleSound DEF CallsInv
    <2> QED  BY <1>1, <2>1 DEF CallsInv
  <1>5. /\ mutex' \in [Printers -> Callers \cup {Nobody}]
        /\ known' \in [Printers -> {"none", "good", "error"}]
    BY <1>1 DEF CallsInv
  <1> QED  BY <1>1, <1>2, <1>3, <1>4, <1>5 DEF CallsInv

LEMMA BeginStep ==
  ASSUME CallsInv, NEW c \in Callers, Begin(c)
  PROVE  CallsInv'
  <1>1. PICK op \in Does[c] :
          Step(c, [Idle EXCEPT !.op = op,
                               !.vs = IF op = "caps" THEN "new" ELSE "resolved",
                               !.pc = IF Monitors(op) THEN "lock" ELSE "set"])
    BY DEF Begin
  <1> DEFINE v == IF op = "caps" THEN "new" ELSE "resolved"
             e == IF Monitors(op) THEN "lock" ELSE "set"
             s == [Idle EXCEPT !.op = op, !.vs = v, !.pc = e]
  <1>2. /\ op \in Ops /\ v \in Resolves /\ e \in Places /\ e \in {"lock", "set"}
        /\ (e = "set" => ~Monitors(op))
    BY IppAssumption DEF Ops, Resolves, Places, Monitors
  <1>3. Idle \in Calls /\ Idle.twice = FALSE
    BY IdleSound DEF Sound, Idle
  <1> HIDE DEF v, e
  <1>4. s \in Calls /\ s.op = op /\ s.pc = e /\ s.twice = FALSE
    BY <1>2, <1>3 DEF Calls
  <1>5. Step(c, s)
    BY <1>1 DEF v, e
  <1> HIDE DEF s
  <1>6. Sound(s) /\ ~Uses(s)
    BY <1>2, <1>4 DEF Sound, Uses
  <1>7. /\ DOMAIN call' = Callers /\ call'[c] = s
        /\ \A d \in Callers \ {c} : call'[d] = call[d]
    BY <1>5 DEF CallsInv, Step
  <1>8. /\ left' \in [Callers -> Nat] /\ UNCHANGED <<follows, version, mutex, stop, known>>
    <2>1. left[c] > 0 /\ left[c] \in Nat /\ left' = [left EXCEPT ![c] = left[c] - 1]
          /\ UNCHANGED <<follows, version, mutex, stop, known>>
      BY DEF Begin, CallsInv
    <2>2. left[c] - 1 \in Nat
      BY <2>1
    <2> QED  BY <2>1, <2>2 DEF CallsInv
  <1>9. /\ \A d \in Callers : Sound(call'[d])
        /\ \A d \in Callers : Uses(call'[d]) => mutex'[follows'[d]] = d
    BY <1>6, <1>7, <1>8 DEF CallsInv
  <1> QED  BY <1>7, <1>8, <1>9 DEF CallsInv

-----------------------------------------------------------------------------
LEMMA InitCalls == Init => CallsInv
  <1> SUFFICES ASSUME Init PROVE CallsInv
    OBVIOUS
  <1>1. /\ follows \in [Callers -> Printers] /\ version \in Versions
        /\ left \in [Callers -> Nat]
        /\ mutex \in [Printers -> Callers \cup {Nobody}]
        /\ stop \in [Printers -> BOOLEAN]
        /\ known \in [Printers -> {"none", "good", "error"}]
    BY Members, IppAssumption DEF Init
  <1>2. DOMAIN call = Callers /\ \A c \in Callers : call[c] = Idle
    BY DEF Init
  <1> QED  BY <1>1, <1>2, IdleSound DEF CallsInv

LEMMA NextCalls == CallsInv /\ [Next]_vars => CallsInv'
  <1> SUFFICES ASSUME CallsInv, [Next]_vars PROVE CallsInv'
    OBVIOUS
  <1>1. ASSUME NEW c \in Callers, Begin(c) \/ CallStep(c) PROVE CallsInv'
    BY <1>1, BeginStep, LockStep, SetVersionStep, WriteMinorStep, ReadMajorStep, ProbeStep,
       RequestStep, PrintJobStep, ReturnStep DEF CallStep
  <1>2. ASSUME NEW p \in Printers, StopMonitor(p) PROVE CallsInv'
    BY <1>2 DEF StopMonitor, CallsInv
  <1>3. CASE UNCHANGED vars
    BY <1>3 DEF vars, CallsInv
  <1> QED  BY <1>1, <1>2, <1>3 DEF Next

(* What TLC checks is a part of CallsInv.                                  *)
LEMMA CallsSafe == CallsInv => RequestsAreSafe
  <1> SUFFICES ASSUME CallsInv PROVE RequestsAreSafe
    OBVIOUS
  <1>1. TypeOK
    <2>1. \A c \in Callers : call[c] \in Calls
      BY DEF CallsInv, Sound
    <2>2. Len(Probes) = 3
      BY DEF Probes
    <2> QED  BY <2>1, <2>2 DEF CallsInv, TypeOK, Calls, Uns, Bads, Nth, Frees
  <1>2. OneOnConnection
    BY DEF OneOnConnection, CallsInv, Uses
  <1>3. FreedOnce
    BY DEF FreedOnce, CallsInv, Sound
  <1> QED  BY <1>1, <1>2, <1>3 DEF RequestsAreSafe

(* Polls and cancellations of any threads never share the connection of a  *)
(* monitor, no response is deleted twice, but for the one of a printer     *)
(* without a version, and no counter of retries leaves its range, whatever *)
(* the printers answer.                                                    *)
THEOREM RequestSafety == Spec => []RequestsAreSafe
  <1>1. Spec => []CallsInv
    BY InitCalls, NextCalls, PTL DEF Spec
  <1> QED  BY <1>1, CallsSafe, PTL

-----------------------------------------------------------------------------
(***************************************************************************)
(* The version.  Threads of one printer write V20, before they ask for its *)
(* capabilities, or the version that the printer has named, half by half   *)
(* and between the halves of each other.  A printer supports S.            *)
(***************************************************************************)
(* The version its threads agree on: every probe ends with the same one.   *)
Own     == {V10, V11, V20}
Goal(S) == IF S \cap Own # {} THEN Best(S) ELSE V20

(* One thread at a time asks for capabilities.  With two, one may forget   *)
(* the version while the other comes back with an answer it had before.    *)
AskedByOne == \A c, d \in Callers : call[c].op = "caps" /\ call[d].op = "caps" => c = d

(* Who writes what.  While a request for capabilities is on its way, the   *)
(* major number is the one it has, or the one agreed on.                   *)
CallVersion(r, v, S) ==
  /\ r.pc = "idle" => r.op # "caps"
  /\ r.vs = "new" => r.op = "caps"
  /\ r.pc = "minor" => \/ r.op = "caps" /\ r.set = V20
                       \/ r.set = Goal(S) /\ Goal(S) \in S
  /\ r.pc = "send" => r.major \in {2, Goal(S)[1]}
  /\ r.op = "caps" /\ r.pc = "send" => v[1] \in {r.major, Goal(S)[1]}

(* The version is one that the printer supports, or a thread has written   *)
(* half of the one agreed on and is about to write the other half.         *)
Settled(v, q, S) ==
  \/ v \in S
  \/ /\ Goal(S) \in S /\ v[1] = Goal(S)[1]
     /\ \E d \in Callers : q[d].pc = "minor" /\ q[d].set = Goal(S)

(* The numbers that are ever written.                                      *)
Near(v, S) == v[1] \in {2, Goal(S)[1]} /\ v[2] \in {0, Goal(S)[2]}

(* Once a request for capabilities was answered well, the version is       *)
(* settled, and stays so until the next one begins.                        *)
VersionInv(p) ==
  /\ Near(version, Supports[p])
  /\ \A c \in Callers : CallVersion(call[c], version, Supports[p])
  /\ \A c \in Callers : call[c].op = "caps" /\ call[c].pc = "good"
                          => Settled(version, call, Supports[p])
  /\ known[p] = "good" /\ (\A c \in Callers : call[c].op # "caps")
       => Settled(version, call, Supports[p])

(* The numbers of the three versions.                                      *)
LEMMA OwnIs ==
  /\ V20[1] = 2 /\ V20[2] = 0 /\ V10[1] = 1 /\ V10[2] = 0 /\ V11[1] = 1 /\ V11[2] = 1
  /\ \A v \in Versions : v = <<v[1], v[2]>>
  BY DEF V10, V11, V20, Versions

(* The version agreed on is supported, unless the printer knows none.      *)
LEMMA GoalIs ==
  ASSUME NEW S
  PROVE  /\ Goal(S) \in Own /\ (Goal(S) # V20 => Goal(S) \in S)
         /\ S \cap Own # {} => Goal(S) = Best(S) /\ Goal(S) \in S
         /\ V20 \in S => Goal(S) = V20
  <1>1. V10 # V11 /\ V10 # V20 /\ V11 # V20
    BY OwnIs
  <1>2. CASE V20 \in S
    <2>1. S \cap Own # {} /\ V20 \in Own
      BY <1>2 DEF Own
    <2>2. Best(S) = V20
      BY <1>2 DEF Best
    <2> QED  BY <1>2, <2>1, <2>2 DEF Goal
  <1>3. CASE V20 \notin S /\ V11 \in S
    BY <1>3 DEF Goal, Best, Own
  <1>4. CASE V20 \notin S /\ V11 \notin S
    BY <1>1, <1>4 DEF Goal, Best, Own
  <1> QED  BY <1>2, <1>3, <1>4

(* What becomes of a call when a request or a probe was answered.          *)
Later(r, s) == /\ s.op = r.op /\ s.pc \notin {"idle", "minor", "send"}
               /\ s.vs = "new" => r.vs = "new"

(* The end of a call, with the result it is given.                         *)
LEMMA DoneLater ==
  ASSUME NEW r, NEW ok \in BOOLEAN
  PROVE  Later(r, Done(r, ok)) /\ (Done(r, ok).pc = "good" => ok)
  <1> DEFINE t == r.op = "state" /\ r.resp = "freed"
             e == IF ok THEN "good" ELSE "error"
             d == [Idle EXCEPT !.op = r.op, !.pc = e, !.twice = t, !.failed = r.failed]
  <1>1. Done(r, ok) = d
    BY Zenon DEF Done
  <1>2. e \in {"good", "error"} /\ (e = "good" => ok)
    OBVIOUS
  <1> HIDE DEF t, e
  <1>3. d.op = r.op /\ d.pc = e /\ d.vs = "resolved"
    BY DEF Idle
  <1> HIDE DEF d
  <1> QED  BY <1>1, <1>2, <1>3 DEF Later

(* Another attempt.                                                        *)
LEMMA AgainLater ==
  ASSUME NEW r \in Calls
  PROVE  Later(r, Again(r)) /\ Again(r).pc # "good"
  <1> DEFINE p == [r EXCEPT !.pc = "probe", !.probe = 1, !.major = 1]
             s == [r EXCEPT !.pc = "set", !.major = 1]
  <1>1. Again(r) \in {p, s}
    BY DEF Again
  <1>2. p.op = r.op /\ p.vs = r.vs /\ p.pc = "probe"
        /\ s.op = r.op /\ s.vs = r.vs /\ s.pc = "set"
    BY DEF Calls
  <1> HIDE DEF p, s
  <1> QED  BY <1>1, <1>2 DEF Later

(* An answer to a request for capabilities or state, the only one that can *)
(* be good.                                                                *)
LEMMA AskedLater ==
  ASSUME NEW r \in Calls, NEW a
  PROVE  Later(r, Asked(r, a)) /\ (Asked(r, a).pc = "good" => a = "ok")
  <1>1. ASSUME NEW f \in {"none", "live"}, NEW ok \in BOOLEAN
        PROVE  /\ Later(r, Done([r EXCEPT !.resp = f], ok))
               /\ Done([r EXCEPT !.resp = f], ok).pc = "good" => ok
    <2> DEFINE s == [r EXCEPT !.resp = f]
    <2>1. s.op = r.op /\ s.vs = r.vs
      BY DEF Calls
    <2> HIDE DEF s
    <2>2. Later(s, Done(s, ok)) /\ (Done(s, ok).pc = "good" => ok)
      BY DoneLater
    <2>3. Later(r, Done(s, ok)) /\ (Done(s, ok).pc = "good" => ok)
      BY <2>1, <2>2 DEF Later
    <2> QED  BY <2>3 DEF s
  <1>2. /\ Later(r, Again([r EXCEPT !.vs = "refused", !.resp = "freed"]))
        /\ Again([r EXCEPT !.vs = "refused", !.resp = "freed"]).pc # "good"
    <2> DEFINE s == [r EXCEPT !.vs = "refused", !.resp = "freed"]
    <2>1. s.op = r.op /\ s.vs = "refused"
      BY DEF Calls
    <2>2. "refused" \in Resolves /\ "freed" \in Frees
      BY DEF Resolves, Frees
    <2>3. s \in Calls
      BY <2>2 DEF Calls
    <2> HIDE DEF s
    <2>4. Later(r, Again(s)) /\ Again(s).pc # "good"
      BY <2>1, <2>3, AgainLater DEF Later
    <2> QED  BY <2>4 DEF s
  <1>3. ASSUME r.un < UnavailableMax
        PROVE  /\ Later(r, Again([r EXCEPT !.un = @ + 1, !.resp = "none"]))
               /\ Again([r EXCEPT !.un = @ + 1, !.resp = "none"]).pc # "good"
    <2> DEFINE s == [r EXCEPT !.un = @ + 1, !.resp = "none"]
    <2>1. s.op = r.op /\ s.vs = r.vs
      BY DEF Calls
    <2>2. r.un \in Uns /\ "none" \in Frees
      BY DEF Frees, Calls
    <2>3. s \in Calls
      BY <1>3, <2>2, Members DEF Calls
    <2> HIDE DEF s
    <2>4. Later(r, Again(s)) /\ Again(s).pc # "good"
      BY <2>1, <2>3, AgainLater DEF Later
    <2> QED  BY <2>4 DEF s
  <1>4. ASSUME r.bad <= BadMax, NEW f \in {"none", "freed"}
        PROVE  /\ Later(r, Again([r EXCEPT !.bad = @ + 1, !.resp = f]))
               /\ Again([r EXCEPT !.bad = @ + 1, !.resp = f]).pc # "good"
    <2> DEFINE s == [r EXCEPT !.bad = @ + 1, !.resp = f]
    <2>1. s.op = r.op /\ s.vs = r.vs
      BY DEF Calls
    <2>2. r.bad \in Bads /\ f \in Frees
      BY DEF Frees, Calls
    <2>3. s \in Calls
      BY <1>4, <2>2, Members DEF Calls
    <2> HIDE DEF s
    <2>4. Later(r, Again(s)) /\ Again(s).pc # "good"
      BY <2>1, <2>3, AgainLater DEF Later
    <2> QED  BY <2>4 DEF s
  <1> QED  BY <1>1, <1>2, <1>3, <1>4, Zenon DEF Asked

(* An answer to a job that is validated, or cancelled.                     *)
LEMMA ValidatedLater ==
  ASSUME NEW r \in Calls, r.op = "job", NEW a
  PROVE  Later(r, Validated(r, a))
  <1>1. ASSUME r.un < UnavailableMax
        PROVE  Later(r, Again([r EXCEPT !.un = @ + 1]))
    <2> DEFINE s == [r EXCEPT !.un = @ + 1]
    <2>1. s.op = r.op /\ s.vs = r.vs
      BY DEF Calls
    <2>2. r.un \in Uns
      BY DEF Calls
    <2>3. s \in Calls
      BY <1>1, <2>2, Members DEF Calls
    <2> HIDE DEF s
    <2>4. Later(r, Again(s))
      BY <2>1, <2>3, AgainLater DEF Later
    <2> QED  BY <2>4 DEF s
  <1>2. ASSUME r.bad <= BadMax
        PROVE  Later(r, Again([r EXCEPT !.bad = @ + 1]))
    <2> DEFINE s == [r EXCEPT !.bad = @ + 1]
    <2>1. s.op = r.op /\ s.vs = r.vs
      BY DEF Calls
    <2>2. r.bad \in Bads
      BY DEF Calls
    <2>3. s \in Calls
      BY <1>2, <2>2, Members DEF Calls
    <2> HIDE DEF s
    <2>4. Later(r, Again(s))
      BY <2>1, <2>3, AgainLater DEF Later
    <2> QED  BY <2>4 DEF s
  <1>3. Later(r, [Idle EXCEPT !.op = r.op, !.pc = "start"])
    BY DEF Later, Idle
  <1> QED  BY <1>1, <1>2, <1>3, Zenon DEF Validated

LEMMA CancelledLater ==
  ASSUME NEW r \in Calls, r.op = "cancel", NEW a, NEW found
  PROVE  Later(r, Cancelled(r, a, found))
  <1>1. ASSUME r.un < UnavailableMax
        PROVE  Later(r, Again([r EXCEPT !.un = @ + 1]))
    <2> DEFINE s == [r EXCEPT !.un = @ + 1]
    <2>1. s.op = r.op /\ s.vs = r.vs
      BY DEF Calls
    <2>2. r.un \in Uns
      BY DEF Calls
    <2>3. s \in Calls
      BY <1>1, <2>2, Members DEF Calls
    <2> HIDE DEF s
    <2>4. Later(r, Again(s))
      BY <2>1, <2>3, AgainLater DEF Later
    <2> QED  BY <2>4 DEF s
  <1>2. ASSUME r.bad <= BadMax
        PROVE  Later(r, Again([r EXCEPT !.bad = @ + 1]))
    <2> DEFINE s == [r EXCEPT !.bad = @ + 1]
    <2>1. s.op = r.op /\ s.vs = r.vs
      BY DEF Calls
    <2>2. r.bad \in Bads
      BY DEF Calls
    <2>3. s \in Calls
      BY <1>2, <2>2, Members DEF Calls
    <2> HIDE DEF s
    <2>4. Later(r, Again(s))
      BY <2>1, <2>3, AgainLater DEF Later
    <2> QED  BY <2>4 DEF s
  <1>3. r.un + 1 < UnavailableMax => r.un < UnavailableMax
    BY IppAssumption DEF Calls, Uns
  <1>4. Later(r, [r EXCEPT !.pc = "set", !.jobId = TRUE, !.un = 0, !.bad = 0])
    BY DEF Later, Calls
  <1>5. ASSUME NEW ok \in BOOLEAN
        PROVE  Later(r, Done(r, ok))
    BY DoneLater
  <1>6. (r.jobId /\ a \in {"ok", "bad", "version"}) \in BOOLEAN
    OBVIOUS
  <1>7. Later(r, [r EXCEPT !.pc = "reading"])
    BY DEF Later, Calls
  <1> QED  BY <1>1, <1>2, <1>3, <1>4, <1>5, <1>6, <1>7, Zenon DEF Cancelled

(* Whether the answer was an odd one changes nothing here either.  Only    *)
(* one that is a full response to a question for capabilities makes a call *)
(* good.                                                                   *)
LEMMA AnsweredLater ==
  ASSUME NEW r, Sound(r), NEW a, NEW found, NEW b \in BOOLEAN
  PROVE  LET t == [Answered(r, a, found) EXCEPT !.odd = b] IN
         Later(r, t) /\ (t.op = "caps" /\ t.pc = "good" => a = "ok")
  <1> DEFINE s == Answered(r, a, found)
             t == [s EXCEPT !.odd = b]
  <1>0. r \in Calls
    BY DEF Sound
  <1>1. Later(r, s) /\ (s.op = "caps" /\ s.pc = "good" => a = "ok")
    <2>1. CASE r.op = "cancel"
      <3>1. s = Cancelled(r, a, found)
        BY <2>1, Zenon DEF Answered
      <3> QED  BY <1>0, <2>1, <3>1, CancelledLater DEF Later
    <2>2. CASE r.op = "job"
      <3>1. s = Validated(r, a)
        BY <2>2, Zenon DEF Answered
      <3> QED  BY <1>0, <2>2, <3>1, ValidatedLater DEF Later
    <2>3. CASE r.op \notin {"cancel", "job"}
      <3>1. s = Asked(r, a)
        BY <2>3, Zenon DEF Answered
      <3> QED  BY <1>0, <3>1, AskedLater
    <2> QED  BY <2>1, <2>2, <2>3
  <1>2. s \in Calls
    <2>2. r.op = "cancel" => s \in Calls
      BY CancelledSound, Zenon DEF Answered, Continues, Sound
    <2>3. r.op = "job" => s \in Calls
      BY ValidatedSound, Zenon DEF Answered, Continues, Sound
    <2>4. r.op \notin {"cancel", "job"} => s \in Calls
      BY AskedSound, Zenon DEF Answered, Continues, Sound
    <2> QED  BY <2>2, <2>3, <2>4
  <1> HIDE DEF s
  <1>3. t.op = s.op /\ t.pc = s.pc /\ t.vs = s.vs
    BY <1>2 DEF Calls
  <1> HIDE DEF t
  <1>4. Later(r, t) /\ (t.op = "caps" /\ t.pc = "good" => a = "ok")
    BY <1>1, <1>3 DEF Later
  <1> QED  BY <1>4 DEF s, t

(* The next probe, or no version.                                          *)
LEMMA NextProbeLater ==
  ASSUME NEW r \in Calls, r.pc = "probe"
  PROVE  Later(r, NextProbe(r)) /\ NextProbe(r).pc # "good"
  <1>1. Later(r, [r EXCEPT !.probe = @ + 1, !.pun = 0, !.pbad = 0])
        /\ [r EXCEPT !.probe = @ + 1, !.pun = 0, !.pbad = 0].pc # "good"
    BY DEF Later, Calls
  <1> DEFINE s == [r EXCEPT !.failed = TRUE]
  <1>2. s.op = r.op /\ s.vs = r.vs
    BY DEF Calls
  <1> HIDE DEF s
  <1>3. Later(s, Done(s, FALSE)) /\ Done(s, FALSE).pc # "good"
    BY DoneLater
  <1>4. Later(r, Done(s, FALSE)) /\ Done(s, FALSE).pc # "good"
    BY <1>2, <1>3 DEF Later
  <1> QED  BY <1>1, <1>4, Zenon DEF NextProbe, s

LEMMA OwnVersions == Own \subseteq Versions
  BY Members DEF Own

(* A step that leaves the version as it is.                                *)
LEMMA CallMoves ==
  ASSUME NEW p, VersionInv(p), DOMAIN call = Callers, NEW c \in Callers, NEW r, Step(c, r),
         version' = version, known' = known, call[c].pc # "minor",
         CallVersion(r, version, Supports[p]),
         r.op # "caps" => call[c].op # "caps",
         r.op = "caps" /\ r.pc = "good" => version \in Supports[p]
  PROVE  VersionInv(p)'
  <1> DEFINE S == Supports[p]
  <1>1. call'[c] = r /\ \A d \in Callers \ {c} : call'[d] = call[d]
    BY DEF Step
  <1>2. Settled(version, call, S) => Settled(version, call', S)
    BY <1>1 DEF Settled
  <1>3. \A d \in Callers : CallVersion(call'[d], version, S)
    BY <1>1 DEF VersionInv
  <1>4. \A d \in Callers : call'[d].op = "caps" /\ call'[d].pc = "good" => Settled(version, call', S)
    <2>1. version \in S => Settled(version, call', S)
      BY DEF Settled
    <2> QED  BY <1>1, <1>2, <2>1 DEF VersionInv
  <1>5. known[p] = "good" /\ (\A d \in Callers : call'[d].op # "caps")
          => Settled(version, call', S)
    <2>1. (\A d \in Callers : call'[d].op # "caps") => \A d \in Callers : call[d].op # "caps"
      BY <1>1
    <2> QED  BY <1>2, <2>1 DEF VersionInv
  <1>6. Near(version, S)
    BY DEF VersionInv
  <1> HIDE DEF S
  <1>7. /\ Near(version', S)
        /\ \A d \in Callers : CallVersion(call'[d], version', S)
        /\ \A d \in Callers : call'[d].op = "caps" /\ call'[d].pc = "good" => Settled(version', call', S)
        /\ known'[p] = "good" /\ (\A d \in Callers : call'[d].op # "caps")
             => Settled(version', call', S)
    BY <1>3, <1>4, <1>5, <1>6
  <1> QED  BY <1>7 DEF VersionInv, S

(* A call that goes on, with no version to write and no request to send.   *)
LEMMA LaterMoves ==
  ASSUME NEW p, VersionInv(p), DOMAIN call = Callers, NEW c \in Callers, NEW r, Step(c, r),
         version' = version, known' = known, call[c].pc # "minor",
         Later(call[c], r),
         r.op = "caps" /\ r.pc = "good" => version \in Supports[p]
  PROVE  VersionInv(p)'
  <1>1. CallVersion(call[c], version, Supports[p])
    BY DEF VersionInv
  <1>2. CallVersion(r, version, Supports[p])
    BY <1>1 DEF CallVersion, Later
  <1>3. r.op # "caps" => call[c].op # "caps"
    BY DEF Later
  <1> QED  BY <1>2, <1>3, CallMoves

(* The first half of a new version.                                        *)
LEMMA MajorMoves ==
  ASSUME NEW p, VersionInv(p), AskedByOne, DOMAIN call = Callers, version \in Versions,
         NEW c \in Callers, NEW r \in Calls, NEW v, WriteMajor(c, r, v), known' = known,
         call[c].pc # "minor", r.op = call[c].op, r.vs = "new" => r.op = "caps",
         \/ r.op = "caps" /\ v = V20
         \/ v = Goal(Supports[p]) /\ v \in Supports[p]
  PROVE  VersionInv(p)'
  <1> DEFINE S == Supports[p]
             s == [r EXCEPT !.pc = "minor", !.set = v]
  <1>1. s.pc = "minor" /\ s.set = v /\ s.op = r.op /\ s.vs = r.vs
    BY DEF Calls
  <1>2. Step(c, s) /\ version' = [version EXCEPT ![1] = v[1]]
    BY DEF WriteMajor
  <1> HIDE DEF s
  <1>3. call'[c] = s /\ \A d \in Callers \ {c} : call'[d] = call[d]
    BY <1>2 DEF Step
  <1>4. version'[1] = v[1] /\ version'[2] = version[2]
    BY <1>2 DEF Versions
  <1>5. Near(version', S)
    BY <1>4, OwnIs DEF VersionInv, Near
  <1>6. ASSUME NEW d \in Callers \ {c}, call[d].op = "caps"
        PROVE  v = Goal(S) /\ v \in S
    BY <1>6 DEF AskedByOne
  <1>7. \A d \in Callers : CallVersion(call'[d], version', S)
    <2>1. CallVersion(s, version', S)
      BY <1>1 DEF CallVersion
    <2>2. ASSUME NEW d \in Callers \ {c} PROVE CallVersion(call[d], version', S)
      <3>1. CallVersion(call[d], version, S)
        BY DEF VersionInv
      <3>2. call[d].op = "caps" => version'[1] = Goal(S)[1]
        BY <1>4, <1>6
      <3> QED  BY <3>1, <3>2 DEF CallVersion
    <2> QED  BY <1>3, <2>1, <2>2
  <1>8. v = Goal(S) /\ v \in S => Settled(version', call', S)
    BY <1>1, <1>3, <1>4 DEF Settled
  <1>9. ASSUME NEW d \in Callers, call'[d].op = "caps", call'[d].pc = "good"
        PROVE  Settled(version', call', S)
    BY <1>1, <1>3, <1>6, <1>8, <1>9
  <1>10. (\A d \in Callers : call'[d].op # "caps") => Settled(version', call', S)
    BY <1>1, <1>3, <1>8
  <1> HIDE DEF S
  <1>11. /\ Near(version', S)
         /\ \A d \in Callers : CallVersion(call'[d], version', S)
         /\ \A d \in Callers : call'[d].op = "caps" /\ call'[d].pc = "good" => Settled(version', call', S)
         /\ known'[p] = "good" /\ (\A d \in Callers : call'[d].op # "caps")
              => Settled(version', call', S)
    BY <1>5, <1>7, <1>9, <1>10
  <1> QED  BY <1>11 DEF VersionInv, S

(* The second half settles the version, unless it belongs to a request for *)
(* capabilities.                                                           *)
LEMMA MinorSettles ==
  ASSUME NEW v \in Versions, NEW q, NEW S, S \subseteq Versions, Near(v, S), Settled(v, q, S), Goal(S) \in S
  PROVE  <<v[1], Goal(S)[2]>> \in S
  <1>1. v = <<v[1], v[2]>> /\ Goal(S) = <<Goal(S)[1], Goal(S)[2]>>
    BY OwnIs, GoalIs, OwnVersions
  <1>2. CASE v[1] = Goal(S)[1]
    BY <1>1, <1>2
  <1>3. CASE v[1] = 2 /\ v[1] # Goal(S)[1]
    <2>1. v \in S
      BY <1>3 DEF Settled
    <2>2. V20 \notin S
      BY <1>3, GoalIs, OwnIs
    <2>3. V20 = <<2, 0>>
      BY DEF V20
    <2>4. v[2] # 0
      BY <1>1, <1>3, <2>1, <2>2, <2>3
    <2> QED  BY <1>1, <2>1, <2>4 DEF Near
  <1> QED  BY <1>2, <1>3 DEF Near

(* One lemma for each action.                                              *)
LEMMA WriteMinorMoves ==
  ASSUME NEW p \in Printers, VersionInv(p), AskedByOne, CallsInv, NEW c \in Callers, WriteMinor(c)
  PROVE  VersionInv(p)'
  <1> DEFINE S == Supports[p]
             r == call[c]
             s == [r EXCEPT !.pc = "read", !.set = V20]
  <1>1. /\ r \in Calls /\ r.pc = "minor" /\ known' = known /\ DOMAIN call = Callers
        /\ version \in Versions /\ S \subseteq Versions
        /\ Step(c, s) /\ version' = [version EXCEPT ![2] = r.set[2]]
    BY IppAssumption DEF CallsInv, Sound, WriteMinor, At, Same, Versions
  <1>2. s.pc = "read" /\ s.op = r.op /\ s.vs = r.vs
    BY <1>1 DEF Calls
  <1> HIDE DEF s
  <1>3. call'[c] = s /\ \A d \in Callers \ {c} : call'[d] = call[d]
    BY <1>1 DEF Step
  <1>4. version' = <<version[1], r.set[2]>> /\ version'[1] = version[1] /\ version'[2] = r.set[2]
    BY <1>1 DEF Versions
  <1>5. CallVersion(r, version, S) /\ Near(version, S)
    BY DEF VersionInv
  <1>6. \/ r.op = "caps" /\ r.set = V20
        \/ r.set = Goal(S) /\ Goal(S) \in S
    BY <1>1, <1>5 DEF CallVersion
  <1>7. Near(version', S)
    BY <1>4, <1>5, <1>6, OwnIs DEF Near
  <1>8. \A d \in Callers : CallVersion(call'[d], version', S)
    <2>1. CallVersion(s, version', S)
      BY <1>2, <1>5 DEF CallVersion
    <2>2. ASSUME NEW d \in Callers \ {c} PROVE CallVersion(call[d], version', S)
      <3>1. CallVersion(call[d], version, S)
        BY DEF VersionInv
      <3> QED  BY <1>4, <3>1 DEF CallVersion
    <2> QED  BY <1>3, <2>1, <2>2
  <1>9. ASSUME Settled(version, call, S), r.op # "caps"
        PROVE  Settled(version', call', S)
    <2>1. <<version[1], Goal(S)[2]>> \in S
      BY <1>1, <1>5, <1>6, <1>9, MinorSettles
    <2>2. version' \in S
      BY <1>4, <1>6, <1>9, <2>1
    <2> QED  BY <2>2 DEF Settled
  <1>10. ASSUME NEW d \in Callers, call'[d].op = "caps", call'[d].pc = "good"
         PROVE  Settled(version', call', S)
    <2>1. d # c
      BY <1>2, <1>3, <1>10
    <2>2. r.op # "caps" /\ call[d].op = "caps" /\ call[d].pc = "good"
      BY <1>3, <1>10, <2>1 DEF AskedByOne
    <2> QED  BY <1>9, <2>2 DEF VersionInv
  <1>11. ASSUME known[p] = "good", \A d \in Callers : call'[d].op # "caps"
         PROVE  Settled(version', call', S)
    <2>1. \A d \in Callers : call[d].op # "caps"
      BY <1>2, <1>3, <1>11
    <2> QED  BY <1>9, <1>11, <2>1 DEF VersionInv
  <1> HIDE DEF S
  <1>12. /\ Near(version', S)
         /\ \A d \in Callers : CallVersion(call'[d], version', S)
         /\ \A d \in Callers : call'[d].op = "caps" /\ call'[d].pc = "good" => Settled(version', call', S)
         /\ known'[p] = "good" /\ (\A d \in Callers : call'[d].op # "caps")
              => Settled(version', call', S)
    BY <1>1, <1>7, <1>8, <1>10, <1>11
  <1> QED  BY <1>12 DEF VersionInv, S

LEMMA BeginMoves ==
  ASSUME NEW p, VersionInv(p), CallsInv, NEW c \in Callers, Begin(c)
  PROVE  VersionInv(p)'
  <1>1. PICK op \in Does[c] :
          Step(c, [Idle EXCEPT !.op = op,
                               !.vs = IF op = "caps" THEN "new" ELSE "resolved",
                               !.pc = IF Monitors(op) THEN "lock" ELSE "set"])
    BY DEF Begin
  <1> DEFINE v == IF op = "caps" THEN "new" ELSE "resolved"
             e == IF Monitors(op) THEN "lock" ELSE "set"
             s == [Idle EXCEPT !.op = op, !.vs = v, !.pc = e]
  <1>2. e \in {"lock", "set"} /\ (v = "new" => op = "caps")
    OBVIOUS
  <1> HIDE DEF v, e
  <1>3. s.op = op /\ s.vs = v /\ s.pc = e
    BY DEF Idle
  <1>4. Step(c, s)
    BY <1>1 DEF v, e
  <1> HIDE DEF s
  <1>5. call[c].pc = "idle" /\ version' = version /\ known' = known /\ DOMAIN call = Callers
    BY DEF Begin, At, CallsInv
  <1>6. CallVersion(s, version, Supports[p])
    BY <1>2, <1>3 DEF CallVersion
  <1>7. call[c].op # "caps"
    BY <1>5 DEF VersionInv, CallVersion
  <1> QED  BY <1>2, <1>3, <1>4, <1>5, <1>6, <1>7, CallMoves

LEMMA LockMoves ==
  ASSUME NEW p, VersionInv(p), CallsInv, NEW c \in Callers, Lock(c)
  PROVE  VersionInv(p)'
  <1> DEFINE r == call[c]
             s == [r EXCEPT !.pc = "set"]
  <1>1. /\ r \in Calls /\ r.pc = "lock" /\ version' = version /\ known' = known
        /\ DOMAIN call = Callers /\ Step(c, s)
    BY DEF CallsInv, Sound, Lock, At
  <1>2. s.pc = "set" /\ s.op = r.op /\ s.vs = r.vs
    BY <1>1 DEF Calls
  <1> HIDE DEF s
  <1>3. Later(r, s)
    BY <1>2 DEF Later
  <1> QED  BY <1>1, <1>2, <1>3, LaterMoves

LEMMA SetVersionMoves ==
  ASSUME NEW p, VersionInv(p), AskedByOne, CallsInv, NEW c \in Callers, SetVersion(c)
  PROVE  VersionInv(p)'
  <1> DEFINE r == call[c]
  <1>1. /\ r \in Calls /\ r.pc = "set" /\ known' = known
        /\ DOMAIN call = Callers /\ version \in Versions
    BY DEF CallsInv, Sound, SetVersion, At, Same
  <1>2. CallVersion(r, version, Supports[p]) /\ Near(version, Supports[p])
    BY DEF VersionInv
  <1>3. CASE r.op = "cancel" /\ Step(c, Done(r, FALSE)) /\ UNCHANGED version
    <2>1. Later(r, Done(r, FALSE)) /\ Done(r, FALSE).pc # "good"
      BY DoneLater
    <2> QED  BY <1>1, <1>3, <2>1, LaterMoves
  <1>4. CASE r.vs = "new" /\ WriteMajor(c, r, V20)
    <2>1. r.op = "caps"
      BY <1>2, <1>4 DEF CallVersion
    <2> QED  BY <1>1, <1>4, <2>1, MajorMoves
  <1>5. CASE Step(c, [r EXCEPT !.pc = "send", !.major = version[1]]) /\ UNCHANGED version
    <2> DEFINE s == [r EXCEPT !.pc = "send", !.major = version[1]]
    <2>1. s.pc = "send" /\ s.op = r.op /\ s.vs = r.vs /\ s.major = version[1]
      BY <1>1 DEF Calls
    <2>2. Step(c, s) /\ version' = version
      BY <1>5
    <2> HIDE DEF s
    <2>3. CallVersion(s, version, Supports[p])
      BY <1>2, <2>1 DEF CallVersion, Near
    <2> QED  BY <1>1, <2>1, <2>2, <2>3, CallMoves
  <1> QED  BY <1>3, <1>4, <1>5, Zenon DEF SetVersion

LEMMA ReadMajorMoves ==
  ASSUME NEW p, VersionInv(p), CallsInv, NEW c \in Callers, ReadMajor(c)
  PROVE  VersionInv(p)'
  <1> DEFINE r == call[c]
             s == [r EXCEPT !.pc = "send", !.major = version[1]]
  <1>1. /\ r \in Calls /\ r.pc = "read" /\ known' = known /\ version' = version
        /\ DOMAIN call = Callers /\ Step(c, s)
    BY DEF CallsInv, Sound, ReadMajor, At, Same
  <1>2. CallVersion(r, version, Supports[p]) /\ Near(version, Supports[p])
    BY DEF VersionInv
  <1>3. s.pc = "send" /\ s.op = r.op /\ s.vs = r.vs /\ s.major = version[1]
    BY <1>1 DEF Calls
  <1> HIDE DEF s
  <1>4. CallVersion(s, version, Supports[p])
    BY <1>2, <1>3 DEF CallVersion, Near
  <1> QED  BY <1>1, <1>3, <1>4, CallMoves

LEMMA ProbeMoves ==
  ASSUME NEW p, VersionInv(p), AskedByOne, CallsInv, NEW c \in Callers, follows[c] = p, Probe(c)
  PROVE  VersionInv(p)'
  <1> DEFINE r     == call[c]
             S     == Supports[p]
             fresh == [r EXCEPT !.probe = 0, !.pun = 0, !.pbad = 0]
  <1>1. /\ r \in Calls /\ r.pc = "probe" /\ known' = known /\ DOMAIN call = Callers
        /\ version \in Versions /\ r.pun \in Uns /\ r.pbad \in Bads
    BY DEF CallsInv, Sound, Probe, At, Same, Calls
  <1>2. \/ \E told \in {S, {}} : told \cap Own # {} /\ WriteMajor(c, fresh, Best(told))
        \/ /\ \/ r.pun < UnavailableMax /\ Step(c, [r EXCEPT !.pun = @ + 1])
              \/ r.pbad <= BadMax /\ Step(c, [r EXCEPT !.pbad = @ + 1])
              \/ Step(c, NextProbe(r))
           /\ version' = version
    BY Zenon DEF Probe, Own
  <1>3. CallVersion(r, version, S)
    BY DEF VersionInv
  <1>4. ASSUME NEW told \in {S, {}}, told \cap Own # {}, WriteMajor(c, fresh, Best(told))
        PROVE  VersionInv(p)'
    <2>1. told = S
      BY <1>4
    <2>2. Best(told) = Goal(S) /\ Best(told) \in S
      BY <1>4, <2>1, GoalIs
    <2>3. fresh \in Calls /\ fresh.op = r.op /\ fresh.vs = r.vs
      BY <1>1, Members DEF Calls
    <2> DEFINE b == Best(told)
    <2>4. WriteMajor(c, fresh, b) /\ b = Goal(S) /\ b \in S
      BY <1>4, <2>2
    <2> HIDE DEF fresh, b
    <2>5. (fresh.vs = "new") => (fresh.op = "caps")
      BY <1>3, <2>3 DEF CallVersion
    <2> QED  BY <1>1, <2>3, <2>4, <2>5, MajorMoves
  <1>5. CASE r.pun < UnavailableMax /\ Step(c, [r EXCEPT !.pun = @ + 1]) /\ version' = version
    <2> DEFINE s == [r EXCEPT !.pun = @ + 1]
    <2>1. s.op = r.op /\ s.pc = r.pc /\ s.vs = r.vs
      BY <1>1 DEF Calls
    <2>2. Step(c, s)
      BY <1>5
    <2> HIDE DEF s
    <2>3. Later(r, s)
      BY <1>1, <2>1 DEF Later
    <2> QED  BY <1>1, <1>5, <2>1, <2>2, <2>3, LaterMoves
  <1>6. CASE r.pbad <= BadMax /\ Step(c, [r EXCEPT !.pbad = @ + 1]) /\ version' = version
    <2> DEFINE s == [r EXCEPT !.pbad = @ + 1]
    <2>1. s.op = r.op /\ s.pc = r.pc /\ s.vs = r.vs
      BY <1>1 DEF Calls
    <2>2. Step(c, s)
      BY <1>6
    <2> HIDE DEF s
    <2>3. Later(r, s)
      BY <1>1, <2>1 DEF Later
    <2> QED  BY <1>1, <1>6, <2>1, <2>2, <2>3, LaterMoves
  <1>7. CASE Step(c, NextProbe(r)) /\ version' = version
    <2>1. Later(r, NextProbe(r)) /\ NextProbe(r).pc # "good"
      BY <1>1, NextProbeLater
    <2> QED  BY <1>1, <1>7, <2>1, LaterMoves
  <1> QED  BY <1>2, <1>4, <1>5, <1>6, <1>7

(* A request that is answered well was of a version the printer supports,  *)
(* and the version still is that of the request, or the one agreed on.     *)
LEMMA GoodIsSettled ==
  ASSUME NEW v \in Versions, NEW S, S \subseteq Versions, Near(v, S), NEW m, m \in {2, Goal(S)[1]},
         v[1] \in {m, Goal(S)[1]}, <<m, v[2]>> \in S
  PROVE  v \in S
  <1>1. v = <<v[1], v[2]>> /\ Goal(S) = <<Goal(S)[1], Goal(S)[2]>> /\ V20 = <<2, 0>>
    BY OwnIs, GoalIs, OwnVersions DEF V20
  <1>2. CASE v[1] = m
    BY <1>1, <1>2
  <1>3. CASE v[1] = Goal(S)[1] /\ v[1] # m
    <2>1. m = 2 /\ Goal(S)[1] # 2 /\ Goal(S) # V20 /\ V20 \notin S
      BY <1>3, GoalIs, OwnIs
    <2>2. v[2] # 0
      BY <1>1, <2>1
    <2>3. v = Goal(S)
      BY <1>1, <1>3, <2>2 DEF Near
    <2> QED  BY <2>1, <2>3, GoalIs
  <1> QED  BY <1>2, <1>3

LEMMA RequestMoves ==
  ASSUME NEW p \in Printers, VersionInv(p), CallsInv, NEW c \in Callers, follows[c] = p, Request(c)
  PROVE  VersionInv(p)'
  <1> DEFINE r == call[c]
             S == Supports[p]
  <1>1. /\ r \in Calls /\ r.pc = "send" /\ known' = known /\ version' = version
        /\ DOMAIN call = Callers /\ version \in Versions /\ S \subseteq Versions
    BY IppAssumption DEF CallsInv, Sound, Request, At, Same, Versions
  <1>2. PICK a \in Answers(p, <<r.major, version[2]>>), found \in BOOLEAN, b \in BOOLEAN :
          Step(c, [Answered(r, a, found) EXCEPT !.odd = b])
    BY Zenon DEF Request
  <1>3. CallVersion(r, version, S) /\ Near(version, S)
    BY DEF VersionInv
  <1> DEFINE t == [Answered(r, a, found) EXCEPT !.odd = b]
  <1>4. Sound(r)
    BY DEF CallsInv
  <1>5. Later(r, t) /\ (t.op = "caps" /\ t.pc = "good" => a = "ok")
    BY <1>4, AnsweredLater
  <1>6. Step(c, t)
    BY <1>2
  <1> HIDE DEF t
  <1>7. ASSUME t.op = "caps", t.pc = "good"
        PROVE  version \in S
    <2>1. <<r.major, version[2]>> \in S
      BY <1>2, <1>5, <1>7 DEF Answers
    <2>2. r.major \in {2, Goal(S)[1]} /\ version[1] \in {r.major, Goal(S)[1]}
      BY <1>1, <1>3, <1>5, <1>7 DEF CallVersion, Later
    <2> QED  BY <1>1, <1>3, <2>1, <2>2, GoodIsSettled
  <1> QED  BY <1>1, <1>5, <1>6, <1>7, LaterMoves

LEMMA PrintJobMoves ==
  ASSUME NEW p, VersionInv(p), CallsInv, NEW c \in Callers, PrintJob(c)
  PROVE  VersionInv(p)'
  <1> DEFINE r == call[c]
  <1>1. /\ Sound(r) /\ r.pc = "start" /\ known' = known /\ version' = version
        /\ DOMAIN call = Callers
    BY DEF CallsInv, PrintJob, At, Same
  <1>2. PICK ok \in BOOLEAN : Step(c, Done(r, ok))
    BY DEF PrintJob
  <1>3. Later(r, Done(r, ok))
    BY DoneLater
  <1>4. Done(r, ok).op = "job"
    BY <1>1, <1>3 DEF Sound, Later
  <1> QED  BY <1>1, <1>2, <1>3, <1>4, LaterMoves

LEMMA ReturnMoves ==
  ASSUME NEW p \in Printers, VersionInv(p), AskedByOne, CallsInv, NEW c \in Callers,
         follows[c] = p, Return(c)
  PROVE  VersionInv(p)'
  <1> DEFINE r == call[c]
             S == Supports[p]
  <1>1. /\ r.pc \in {"good", "error"} /\ version' = version /\ DOMAIN call = Callers
        /\ Step(c, Idle) /\ p \in DOMAIN known
        /\ known' = IF r.op = "caps" THEN [known EXCEPT ![p] = r.pc] ELSE known
    BY DEF CallsInv, Return
  <1>2. call'[c] = Idle /\ \A d \in Callers \ {c} : call'[d] = call[d]
    BY <1>1 DEF Step
  <1>3. Idle.pc = "idle" /\ Idle.op = "none" /\ Idle.vs = "resolved"
    BY DEF Idle
  <1>4. Settled(version, call, S) => Settled(version, call', S)
    BY <1>1, <1>2 DEF Settled
  <1>5. \A d \in Callers : CallVersion(call'[d], version, S)
    <2>1. CallVersion(Idle, version, S)
      BY <1>3 DEF CallVersion
    <2> QED  BY <1>2, <2>1 DEF VersionInv
  <1>6. \A d \in Callers : call'[d].op = "caps" /\ call'[d].pc = "good" => Settled(version, call', S)
    BY <1>2, <1>3, <1>4 DEF VersionInv
  <1>7. ASSUME known'[p] = "good", \A d \in Callers : call'[d].op # "caps"
        PROVE  Settled(version, call', S)
    <2>1. CASE r.op = "caps"
      <3>1. r.pc = "good"
        BY <1>1, <1>7, <2>1
      <3> QED  BY <1>4, <2>1, <3>1 DEF VersionInv
    <2>2. CASE r.op # "caps"
      <3>1. known[p] = "good" /\ \A d \in Callers : call[d].op # "caps"
        BY <1>1, <1>2, <1>7, <2>2
      <3> QED  BY <1>4, <3>1 DEF VersionInv
    <2> QED  BY <2>1, <2>2
  <1>8. Near(version, S)
    BY DEF VersionInv
  <1> HIDE DEF S
  <1>9. /\ Near(version', S)
        /\ \A d \in Callers : CallVersion(call'[d], version', S)
        /\ \A d \in Callers : call'[d].op = "caps" /\ call'[d].pc = "good" => Settled(version', call', S)
        /\ known'[p] = "good" /\ (\A d \in Callers : call'[d].op # "caps")
             => Settled(version', call', S)
    BY <1>1, <1>5, <1>6, <1>7, <1>8
  <1> QED  BY <1>9 DEF VersionInv, S

-----------------------------------------------------------------------------
(* While all threads are with one printer.                                 *)
VersionsInv == \A p \in Printers : (\A c \in Callers : follows[c] = p) => VersionInv(p)

LEMMA InitVersions == Init => VersionsInv
  <1> SUFFICES ASSUME Init, NEW p \in Printers PROVE VersionInv(p)
    BY DEF VersionsInv
  <1>1. Near(version, Supports[p])
    BY OwnIs DEF Init, Near
  <1>2. \A c \in Callers : call[c] = Idle
    BY DEF Init
  <1>3. Idle.pc = "idle" /\ Idle.op = "none" /\ Idle.vs = "resolved"
    BY DEF Idle
  <1>4. known[p] # "good"
    BY DEF Init
  <1>5. \A c \in Callers : CallVersion(call[c], version, Supports[p])
    BY <1>2, <1>3 DEF CallVersion
  <1> QED  BY <1>1, <1>2, <1>3, <1>4, <1>5 DEF VersionInv

LEMMA NextVersions == CallsInv /\ AskedByOne /\ VersionsInv /\ [Next]_vars => VersionsInv'
  <1> SUFFICES ASSUME CallsInv, AskedByOne, VersionsInv, [Next]_vars, NEW p \in Printers,
                      \A c \in Callers : follows'[c] = p
               PROVE  VersionInv(p)'
    BY DEF VersionsInv
  <1>1. follows' = follows
    BY DEF Next, vars, Begin, StopMonitor, CallStep, Lock, SetVersion, WriteMinor, ReadMajor,
           Probe, Request, PrintJob, Return, Same
  <1>2. VersionInv(p) /\ \A c \in Callers : follows[c] = p
    BY <1>1 DEF VersionsInv
  <1>3. ASSUME NEW c \in Callers, Begin(c) \/ CallStep(c) PROVE VersionInv(p)'
    BY <1>2, <1>3, BeginMoves, LockMoves, SetVersionMoves, WriteMinorMoves, ReadMajorMoves,
       ProbeMoves, RequestMoves, PrintJobMoves, ReturnMoves DEF CallStep
  <1>4. ASSUME version' = version, call' = call, known' = known PROVE VersionInv(p)'
    <2> DEFINE S == Supports[p]
    <2>1. /\ Near(version', S)
          /\ \A d \in Callers : CallVersion(call'[d], version', S)
          /\ \A d \in Callers : call'[d].op = "caps" /\ call'[d].pc = "good" => Settled(version', call', S)
          /\ known'[p] = "good" /\ (\A d \in Callers : call'[d].op # "caps")
               => Settled(version', call', S)
      BY <1>2, <1>4 DEF VersionInv
    <2> QED  BY <2>1 DEF VersionInv
  <1>5. ASSUME NEW q \in Printers, StopMonitor(q) PROVE VersionInv(p)'
    BY <1>4, <1>5 DEF StopMonitor
  <1>6. CASE UNCHANGED vars
    BY <1>4, <1>6 DEF vars
  <1> QED  BY <1>3, <1>5, <1>6 DEF Next

LEMMA VersionsSettle == CallsInv /\ VersionsInv => VersionSettles
  <1> SUFFICES ASSUME CallsInv, VersionsInv,
                      \A c, d \in Callers : follows[c] = follows[d],
                      NEW c \in Callers, known[follows[c]] = "good",
                      \A d \in Callers : call[d].op # "caps" /\ call[d].pc # "minor"
               PROVE  version \in Supports[follows[c]]
    BY DEF VersionSettles
  <1>1. follows[c] \in Printers /\ \A d \in Callers : follows[d] = follows[c]
    BY DEF CallsInv
  <1>2. VersionInv(follows[c])
    BY <1>1 DEF VersionsInv
  <1> QED  BY <1>2 DEF VersionInv, Settled

(* While one printer is in use and one thread at a time asks for its       *)
(* capabilities: once they are known, the next request takes a version     *)
(* that the printer supports, however many threads determine and write the *)
(* version meanwhile, whichever versions it supports, and whatever it      *)
(* answers.                                                                *)
THEOREM SettledVersion == Spec /\ []AskedByOne => []VersionSettles
  <1>1. Spec => []CallsInv
    BY InitCalls, NextCalls, PTL DEF Spec
  <1>2. Spec /\ []CallsInv /\ []AskedByOne => []VersionsInv
    BY InitVersions, NextVersions, PTL DEF Spec
  <1> QED  BY <1>1, <1>2, VersionsSettle, PTL
=============================================================================
