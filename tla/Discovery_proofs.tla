--------------------------- MODULE Discovery_proofs ---------------------------
(***************************************************************************)
(* Any network, any number of discoveries and of lost answers: the session *)
(* keeps what the running discovery found and shows what it keeps, and a   *)
(* printer the service has told is never lost on its way to the session.   *)
(***************************************************************************)
EXTENDS Discovery, FiniteSetTheorems, TLAPS

Message == [what : {"found", "progress"}, task : Ids, address : Addresses, name : Names]
Entry   == [address : Addresses, name : Names]

(* The types, with the queue as a sequence.                                *)
Typed ==
  /\ current \in Ids \cup {NoTask}
  /\ mPrinters \in [Addresses -> Info \cup {NoInfo}]
  /\ shown \in [Addresses -> Info \cup {NoInfo}]
  /\ mainQ \in Seq(Message)
  /\ bound \in BOOLEAN
  /\ tasks \in [Ids -> Task]
  /\ requests \in [Ids -> Request]
  /\ losses \in 0 .. MaxLosses
  /\ swallowed \subseteq Ids
  /\ finder \in [Addresses -> Ids \cup {NoTask}]

(* A request that listens waits eight seconds and two less with each query *)
(* repeated, or five for the last time.                                    *)
Waits ==
  \A t \in Ids :
    requests[t].pc = "receive" =>
      \/ requests[t].decay = 2 /\ requests[t].timeout \in 1 .. 8
      \/ requests[t].decay = 5 /\ requests[t].timeout = 5

(* A printer of the session is one the running discovery has found, and is *)
(* shown like that.                                                        *)
Keeps ==
  \A a \in Addresses :
    mPrinters[a] # NoInfo =>
      current # NoTask /\ finder[a] = current /\ shown[a] = mPrinters[a]

(* The running discovery is not cancelled, nor is one not yet started;     *)
(* before a task has asked there is no request; one that waits has nothing *)
(* on its list.                                                            *)
Tells ==
  \A t \in Ids :
    /\ t = current => ~tasks[t].cancelled /\ tasks[t].pc # "new"
    /\ tasks[t].pc = "new" => ~tasks[t].cancelled
    /\ tasks[t].pc \in {"new", "queued", "start"} => requests[t] = NoRequest
    /\ tasks[t].pc = "waiting" => tasks[t].list = << >>

(* A printer the running discovery was told is in the session, or in a     *)
(* message to the main thread, or on the list of a task that does not wait.*)
InQueue(t, a) == \E i \in DOMAIN mainQ : mainQ[i].task = t /\ mainQ[i].address = a
OnList(t, a)  == /\ tasks[t].pc # "waiting"
                 /\ \E i \in DOMAIN tasks[t].list : tasks[t].list[i].address = a

OnItsWay ==
  \A t \in Ids, a \in Addresses :
    current = t /\ a \in requests[t].told =>
      mPrinters[a] # NoInfo \/ InQueue(t, a) \/ OnList(t, a)

DiscoveryInv == Typed /\ Waits /\ Keeps /\ Tells /\ OnItsWay

LEMMA SessionTrue == DiscoveryInv => SessionIsTrue
  <1> SUFFICES ASSUME DiscoveryInv PROVE SessionIsTrue
    OBVIOUS
  <1>1. \A i \in 1 .. Len(mainQ) :
          mainQ[i] \in [what : {"found", "progress"}, task : Ids, address : Addresses, name : Names]
    <2>1. mainQ \in Seq(Message)
      BY DEF DiscoveryInv, Typed
    <2>2. \A i \in 1 .. Len(mainQ) : mainQ[i] \in Message
      BY <2>1
    <2> QED  BY <2>2 DEF Message
  <1>2. DiscoveryTypeOK
    BY <1>1 DEF DiscoveryInv, Typed, DiscoveryTypeOK
  <1> QED  BY <1>2 DEF DiscoveryInv, Keeps, SessionIsTrue

LEMMA Constants ==
  /\ NoTask \notin Ids /\ \A t \in Ids : t # NoTask
  /\ NoInfo \notin Info
  /\ NewTask \in Task /\ NoRequest \in Request
  /\ MaxLosses \in Nat /\ IsFiniteSet(Responders)
  <1>1. \A i \in Info : i.status \in {"idle", "busy"}
    BY DEF Info, Statuses
  <1>2. NoInfo.status = "none"
    BY DEF NoInfo
  <1>3. NewTask \in Task
    <2>1. << >> \in Seq([address : Addresses, name : Names])
      OBVIOUS
    <2> QED  BY <2>1 DEF NewTask, Task
  <1>4. NoRequest \in Request
    BY DEF NoRequest, Request
  <1>5. NoTask \notin Ids /\ \A t \in Ids : t # NoTask
    BY DiscoveryAssumption DEF NoTask, Ids
  <1> QED  BY <1>1, <1>2, <1>3, <1>4, <1>5, DiscoveryAssumption

LEMMA InitDiscovery == Init => DiscoveryInv
  <1> SUFFICES ASSUME Init PROVE DiscoveryInv
    OBVIOUS
  <1>1. Typed
    <2>1. mainQ \in Seq(Message)
      <3>1. mainQ = << >>
        BY DEF Init
      <3> QED  BY <3>1
    <2>2. losses \in 0 .. MaxLosses
      BY Constants DEF Init
    <2>3. tasks \in [Ids -> Task] /\ requests \in [Ids -> Request]
      BY Constants DEF Init
    <2>4. bound \in BOOLEAN
      <3>1. bound = FALSE
        BY DEF Init
      <3> QED  BY <3>1
    <2> QED  BY <2>1, <2>2, <2>3, <2>4 DEF Init, Typed
  <1>2. \A t \in Ids : requests[t].pc = "none" /\ requests[t].told = {}
    BY DEF Init, NoRequest
  <1>3. Waits /\ OnItsWay
    BY <1>2 DEF Waits, OnItsWay
  <1>4. Keeps
    BY DEF Init, Keeps
  <1>5. Tells
    <2>1. NewTask.pc = "new" /\ ~NewTask.cancelled
      BY DEF NewTask
    <2>2. \A t \in Ids : tasks[t] = NewTask /\ requests[t] = NoRequest /\ t # current
      BY Constants DEF Init
    <2> QED  BY <2>1, <2>2 DEF Tells
  <1> QED  BY <1>1, <1>3, <1>4, <1>5 DEF DiscoveryInv

(* A later place has a higher rank.                                        *)
LEMMA RankGrows ==
  ASSUME NEW K, K \subseteq Int, IsFiniteSet(K), NEW i \in K, NEW j \in K
  PROVE  /\ Rank(K, i) \in 1 .. Cardinality(K)
         /\ i < j => Rank(K, i) < Rank(K, j)
         /\ Rank(K, i) = Rank(K, j) => i = j
  <1> DEFINE Upto(k) == {o \in K : o <= k}
  <1>1. ASSUME NEW k \in K
        PROVE  IsFiniteSet(Upto(k)) /\ Rank(K, k) \in Nat /\ Rank(K, k) <= Cardinality(K)
               /\ Rank(K, k) # 0
    <2>1. Upto(k) \in SUBSET K /\ k \in Upto(k)
      OBVIOUS
    <2>2. IsFiniteSet(Upto(k)) /\ Cardinality(Upto(k)) <= Cardinality(K)
      BY <2>1, FS_Subset
    <2>3. Cardinality(Upto(k)) \in Nat /\ Cardinality(Upto(k)) # 0
      BY <2>1, <2>2, FS_CardinalityType, FS_EmptySet
    <2> QED  BY <2>2, <2>3 DEF Rank
  <1>2. Cardinality(K) \in Nat
    BY FS_CardinalityType
  <1>3. ASSUME NEW k \in K, NEW l \in K, k < l
        PROVE  Rank(K, k) < Rank(K, l)
    <2>0. \A o \in K : o \in Int
      OBVIOUS
    <2>1. \A o \in K : o <= k => o <= l
      BY <1>3, <2>0
    <2>2. l <= l /\ ~(l <= k)
      BY <1>3, <2>0
    <2>3. Upto(k) \in SUBSET Upto(l) /\ l \in Upto(l) /\ l \notin Upto(k)
      BY <2>1, <2>2
    <2>4. Cardinality(Upto(k)) <= Cardinality(Upto(l))
          /\ Cardinality(Upto(k)) # Cardinality(Upto(l))
      <3>1. IsFiniteSet(Upto(l))
        BY <1>1
      <3> HIDE DEF Upto
      <3> QED  BY <2>3, <3>1, FS_Subset
    <2>5. Rank(K, k) = Cardinality(Upto(k)) /\ Rank(K, l) = Cardinality(Upto(l))
      BY DEF Rank
    <2>6. Rank(K, k) \in Nat /\ Rank(K, l) \in Nat
      BY <1>1
    <2> HIDE DEF Upto
    <2> QED  BY <2>4, <2>5, <2>6
  <1>4. i \in Int /\ j \in Int
    OBVIOUS
  <1> HIDE DEF Upto
  <1>5. Rank(K, i) \in 1 .. Cardinality(K)
    BY <1>1, <1>2
  <1>6. Rank(K, i) = Rank(K, j) => i = j
    <2>1. i < j \/ j < i \/ i = j
      BY <1>4
    <2>2. Rank(K, i) \in Nat /\ Rank(K, j) \in Nat
      BY <1>1
    <2> QED  BY <1>3, <2>1, <2>2
  <1> QED  BY <1>3, <1>5, <1>6

(* Each rank is that of a place.                                           *)
LEMMA RankAll ==
  ASSUME NEW K, K \subseteq Int, IsFiniteSet(K), NEW n \in 1 .. Cardinality(K)
  PROVE  LET k == CHOOSE k \in K : Rank(K, k) = n IN k \in K /\ Rank(K, k) = n
  <1> DEFINE N == 1 .. Cardinality(K)
             r == [k \in K |-> Rank(K, k)]
  <1>1. Cardinality(K) \in Nat
    BY FS_CardinalityType
  <1>2. IsFiniteSet(N) /\ Cardinality(N) = Cardinality(K)
    BY <1>1, FS_Interval
  <1>3. \A k \in K : Rank(K, k) \in N
    BY RankGrows
  <1>4. r \in Injection(K, N)
    <2>1. r \in [K -> N]
      BY <1>3
    <2>2. \A i, j \in K : r[i] = r[j] => i = j
      BY RankGrows
    <2> HIDE DEF r, N
    <2> QED  BY <2>1, <2>2 DEF Injection, IsInjective
  <1>5. r \in Surjection(K, N)
    <2> HIDE DEF r, N
    <2> QED  BY <1>2, <1>4, FS_Injection
  <1>6. \A i \in N : \E k \in K : Rank(K, k) = i
    BY <1>5 DEF Surjection
  <1> QED  BY <1>6

(* What an answer comes to.                                                *)
LEMMA Printers ==
  ASSUME NEW r \in Responders
  PROVE  PrintersIn(Packet[r]) \in Seq(Service)
  <1>1. Packet[r] \in Seq(Service)
    BY DiscoveryAssumption
  <1> DEFINE K == {i \in Complete(Packet[r]) :
                    /\ Packet[r][i].supported
                    /\ \A k \in Complete(Packet[r]) : k <= i => ~Throws(Packet[r][k])}
  <1>2. K \in SUBSET DOMAIN Packet[r]
    BY DEF Complete
  <1>3. PrintersIn(Packet[r]) = Kept(Packet[r], K)
    BY DEF PrintersIn
  <1>4. DOMAIN Packet[r] = 1 .. Len(Packet[r]) /\ Len(Packet[r]) \in Nat
    BY <1>1
  <1>5. \A i \in DOMAIN Packet[r] : Packet[r][i] \in Service
    BY <1>1
  <1> HIDE DEF K
  <1>a. IsFiniteSet(1 .. Len(Packet[r]))
    BY <1>4, FS_Interval
  <1>6. K \subseteq Int /\ IsFiniteSet(K) /\ Cardinality(K) \in Nat
    BY <1>2, <1>4, <1>a, FS_Subset, FS_CardinalityType
  <1>7. \A n \in 1 .. Cardinality(K) : (CHOOSE k \in K : Rank(K, k) = n) \in K
    BY <1>6, RankAll
  <1>8. Kept(Packet[r], K) =
          [n \in 1 .. Cardinality(K) |-> Packet[r][CHOOSE k \in K : Rank(K, k) = n]]
    BY DEF Kept
  <1> DEFINE p(n) == CHOOSE k \in K : Rank(K, k) = n
  <1> HIDE DEF p
  <1>9. \A n \in 1 .. Cardinality(K) : Packet[r][p(n)] \in Service
    BY <1>2, <1>5, <1>7 DEF p
  <1>10. Kept(Packet[r], K) = [n \in 1 .. Cardinality(K) |-> Packet[r][p(n)]]
    BY <1>8 DEF p
  <1> QED  BY <1>3, <1>6, <1>9, <1>10

-----------------------------------------------------------------------------
(* The messages stay, at least those of the running discovery, and with    *)
(* them the lists.                                                         *)
LEMMA WayKept ==
  ASSUME DiscoveryInv, current' = current,
         \A t \in Ids : t = current => requests'[t].told = requests[t].told,
         \A a \in Addresses : mPrinters[a] # NoInfo => mPrinters'[a] # NoInfo,
         \A t \in Ids, a \in Addresses :
           t = current /\ (InQueue(t, a) \/ OnList(t, a)) =>
             mPrinters'[a] # NoInfo \/ InQueue(t, a)' \/ OnList(t, a)'
  PROVE  OnItsWay'
  BY DEF DiscoveryInv, OnItsWay

(* Steps that only set the variables of the framework.                     *)
LEMMA BindStep ==
  ASSUME DiscoveryInv, Bind
  PROVE  DiscoveryInv'
  <1>1. bound' = TRUE /\ UNCHANGED <<current, mPrinters, shown, finder, mainQ, tasks, requests,
                                     losses, swallowed>>
    BY DEF Bind, svars
  <1>2. bound' \in BOOLEAN
    BY <1>1
  <1>3. Typed'
    BY <1>1, <1>2 DEF DiscoveryInv, Typed
  <1> QED  BY <1>1, <1>3 DEF DiscoveryInv, Waits, Keeps, Tells, OnItsWay, InQueue, OnList

(* cancel(true) of a task.                                                 *)
LEMMA CancelledTask ==
  ASSUME NEW k \in Task
  PROVE  /\ Cancelled(k) \in Task
         /\ Cancelled(k).pc # "new" \/ k.pc = "new"
         /\ Cancelled(k).pc \in {"new", "queued", "start"} =>
              k.pc \in {"new", "queued", "start"}
         /\ Cancelled(k).pc = "waiting" => k.pc = "waiting"
         /\ Cancelled(k).list = k.list
  <1>1. CASE k.pc = "queued"
    BY <1>1 DEF Cancelled, Task
  <1>2. CASE k.pc # "queued"
    BY <1>2 DEF Cancelled, Task
  <1> QED  BY <1>1, <1>2

LEMMA StartStep ==
  ASSUME DiscoveryInv, NEW t \in Ids, Start(t)
  PROVE  DiscoveryInv'
  <1>1. /\ tasks[t].pc = "new"
        /\ tasks' = [u \in Ids |-> IF u = t THEN [tasks[t] EXCEPT !.pc = "queued"]
                                   ELSE IF u = current THEN Cancelled(tasks[u])
                                   ELSE tasks[u]]
        /\ current' = t
        /\ mPrinters' = [a \in Addresses |-> NoInfo]
        /\ UNCHANGED <<shown, finder, mainQ, bound, requests, losses, swallowed>>
    BY DEF Start
  <1>2. tasks \in [Ids -> Task] /\ t # current
    BY <1>1 DEF DiscoveryInv, Typed, Tells
  <1>3. \A u \in Ids : tasks[u] \in Task
    BY <1>2
  <1>4. /\ [tasks[t] EXCEPT !.pc = "queued"] \in Task
        /\ [tasks[t] EXCEPT !.pc = "queued"].pc = "queued"
        /\ [tasks[t] EXCEPT !.pc = "queued"].cancelled = tasks[t].cancelled
    BY <1>3 DEF Task
  <1>5. /\ tasks'[t] = [tasks[t] EXCEPT !.pc = "queued"]
        /\ \A u \in Ids \ {t} : tasks'[u] = IF u = current THEN Cancelled(tasks[u]) ELSE tasks[u]
        /\ tasks' \in [Ids -> Task]
    BY <1>1, <1>3, <1>4, CancelledTask
  <1>6. Typed'
    BY <1>1, <1>5 DEF DiscoveryInv, Typed
  <1>7. Waits' /\ Keeps'
    BY <1>1 DEF DiscoveryInv, Waits, Keeps
  <1>8. Tells'
    <2> SUFFICES ASSUME NEW u \in Ids
                 PROVE  /\ u = t => ~tasks'[u].cancelled /\ tasks'[u].pc # "new"
                        /\ tasks'[u].pc = "new" => ~tasks'[u].cancelled
                        /\ tasks'[u].pc \in {"new", "queued", "start"} => requests[u] = NoRequest
                        /\ tasks'[u].pc = "waiting" => tasks'[u].list = << >>
      BY <1>1 DEF Tells
    <2>1. /\ u = current => ~tasks[u].cancelled /\ tasks[u].pc # "new"
          /\ tasks[u].pc = "new" => ~tasks[u].cancelled
          /\ tasks[u].pc \in {"new", "queued", "start"} => requests[u] = NoRequest
          /\ tasks[u].pc = "waiting" => tasks[u].list = << >>
      BY DEF DiscoveryInv, Tells
    <2>2. CASE u = t
      BY <1>1, <1>4, <1>5, <2>1, <2>2
    <2>3. CASE u # t /\ u = current
      BY <1>3, <1>5, <2>1, <2>3, CancelledTask
    <2>4. CASE u # t /\ u # current
      BY <1>5, <2>1, <2>4
    <2> QED  BY <2>2, <2>3, <2>4
  <1>9. OnItsWay'
    <2>1. requests'[t] = NoRequest
      BY <1>1 DEF DiscoveryInv, Tells
    <2> QED  BY <1>1, <2>1 DEF OnItsWay, NoRequest
  <1> QED  BY <1>6, <1>7, <1>8, <1>9 DEF DiscoveryInv

LEMMA StopStep ==
  ASSUME DiscoveryInv, Stop
  PROVE  DiscoveryInv'
  <1>1. /\ current # NoTask
        /\ tasks' = [tasks EXCEPT ![current] = Cancelled(@)]
        /\ current' = NoTask
        /\ mPrinters' = [a \in Addresses |-> NoInfo]
        /\ UNCHANGED <<shown, finder, mainQ, bound, requests, losses, swallowed>>
    BY DEF Stop
  <1>2. tasks \in [Ids -> Task] /\ current \in Ids
    BY <1>1 DEF DiscoveryInv, Typed
  <1>3. /\ tasks' \in [Ids -> Task]
        /\ tasks'[current] = Cancelled(tasks[current])
        /\ \A u \in Ids \ {current} : tasks'[u] = tasks[u]
    BY <1>1, <1>2, CancelledTask
  <1>4. Typed'
    BY <1>1, <1>3 DEF DiscoveryInv, Typed
  <1>5. Waits' /\ Keeps'
    BY <1>1 DEF DiscoveryInv, Waits, Keeps
  <1>6. Tells'
    <2> SUFFICES ASSUME NEW u \in Ids
                 PROVE  /\ tasks'[u].pc = "new" => ~tasks'[u].cancelled
                        /\ tasks'[u].pc \in {"new", "queued", "start"} => requests[u] = NoRequest
                        /\ tasks'[u].pc = "waiting" => tasks'[u].list = << >>
      BY <1>1, Constants DEF Tells
    <2>1. /\ u = current => tasks[u].pc # "new"
          /\ tasks[u].pc = "new" => ~tasks[u].cancelled
          /\ tasks[u].pc \in {"new", "queued", "start"} => requests[u] = NoRequest
          /\ tasks[u].pc = "waiting" => tasks[u].list = << >>
      BY DEF DiscoveryInv, Tells
    <2>2. CASE u = current
      BY <1>2, <1>3, <2>1, <2>2, CancelledTask
    <2>3. CASE u # current
      BY <1>3, <2>1, <2>3
    <2> QED  BY <2>2, <2>3
  <1>7. OnItsWay'
    BY <1>1, Constants DEF OnItsWay
  <1> QED  BY <1>4, <1>5, <1>6, <1>7 DEF DiscoveryInv

(* The head of the queue goes, the others stay.                            *)
LEMMA QueueTail ==
  ASSUME mainQ \in Seq(Message), mainQ # << >>, mainQ' = Tail(mainQ)
  PROVE  /\ Head(mainQ) \in Message /\ mainQ' \in Seq(Message)
         /\ \A t, a : InQueue(t, a) =>
              InQueue(t, a)' \/ (Head(mainQ).task = t /\ Head(mainQ).address = a)
  <1>1. /\ Head(mainQ) \in Message /\ mainQ' \in Seq(Message) /\ Head(mainQ) = mainQ[1]
        /\ DOMAIN mainQ = 1 .. Len(mainQ) /\ Len(mainQ) \in Nat
        /\ DOMAIN mainQ' = 1 .. (Len(mainQ) - 1)
        /\ \A i \in 1 .. (Len(mainQ) - 1) : mainQ'[i] = mainQ[i + 1]
    OBVIOUS
  <1>2. ASSUME NEW t, NEW a, NEW i \in DOMAIN mainQ, mainQ[i].task = t, mainQ[i].address = a, i # 1
        PROVE  InQueue(t, a)'
    <2>1. i - 1 \in DOMAIN mainQ' /\ mainQ'[i - 1] = mainQ[i]
      BY <1>1, <1>2
    <2> QED  BY <1>2, <2>1 DEF InQueue
  <1> QED  BY <1>1, <1>2 DEF InQueue

(* Messages are put behind those that are there.                           *)
LEMMA QueueMore ==
  ASSUME mainQ \in Seq(Message), NEW more \in Seq(Message), mainQ' = mainQ \o more
  PROVE  /\ mainQ' \in Seq(Message)
         /\ \A t, a : InQueue(t, a) => InQueue(t, a)'
         /\ \A i \in DOMAIN more : \E j \in DOMAIN mainQ' : mainQ'[j] = more[i]
  <1>1. /\ mainQ' \in Seq(Message) /\ Len(mainQ) \in Nat /\ Len(more) \in Nat
        /\ DOMAIN mainQ = 1 .. Len(mainQ) /\ DOMAIN more = 1 .. Len(more)
        /\ DOMAIN mainQ' = 1 .. (Len(mainQ) + Len(more))
        /\ \A i \in 1 .. Len(mainQ) : mainQ'[i] = mainQ[i]
        /\ \A i \in 1 .. Len(more) : mainQ'[Len(mainQ) + i] = more[i]
    OBVIOUS
  <1>2. \A t, a : InQueue(t, a) => InQueue(t, a)'
    <2> SUFFICES ASSUME NEW t, NEW a, InQueue(t, a)
                 PROVE  InQueue(t, a)'
      OBVIOUS
    <2> PICK i \in DOMAIN mainQ : mainQ[i].task = t /\ mainQ[i].address = a
      BY DEF InQueue
    <2>1. i \in DOMAIN mainQ' /\ mainQ'[i] = mainQ[i]
      BY <1>1
    <2> QED  BY <2>1 DEF InQueue
  <1>3. ASSUME NEW i \in DOMAIN more PROVE \E j \in DOMAIN mainQ' : mainQ'[j] = more[i]
    <2>1. Len(mainQ) + i \in DOMAIN mainQ' /\ mainQ'[Len(mainQ) + i] = more[i]
      BY <1>1
    <2> QED  BY <2>1
  <1> QED  BY <1>1, <1>2, <1>3

LEMMA TaskFacts ==
  ASSUME DiscoveryInv
  PROVE  /\ tasks \in [Ids -> Task] /\ requests \in [Ids -> Request]
         /\ mainQ \in Seq(Message)
         /\ \A t \in Ids : /\ tasks[t] \in Task /\ requests[t] \in Request
                           /\ tasks[t].list \in Seq(Entry)
  <1>1. tasks \in [Ids -> Task] /\ requests \in [Ids -> Request] /\ mainQ \in Seq(Message)
    BY DEF DiscoveryInv, Typed
  <1>2. \A k \in Task : k.list \in Seq(Entry)
    BY DEF Task, Entry
  <1> QED  BY <1>1, <1>2

(* A step of one task: what stays, and that it tells no less.              *)
LEMMA OneTask ==
  ASSUME DiscoveryInv, NEW t \in Ids, NEW k \in Task, tasks' = [tasks EXCEPT ![t] = k],
         k.cancelled = tasks[t].cancelled, k.pc # "new", tasks[t].pc # "new",
         k.pc \in {"new", "queued", "start"} => tasks[t].pc \in {"new", "queued", "start"},
         k.pc = "waiting" => k.list = << >>,
         UNCHANGED <<current, requests>>
  PROVE  Tells' /\ tasks' \in [Ids -> Task]
  <1>1. /\ tasks'[t] = k /\ \A u \in Ids \ {t} : tasks'[u] = tasks[u]
        /\ tasks' \in [Ids -> Task]
    BY TaskFacts
  <1>2. Tells'
    <2> SUFFICES ASSUME NEW u \in Ids
                 PROVE  /\ u = current => ~tasks'[u].cancelled /\ tasks'[u].pc # "new"
                        /\ tasks'[u].pc = "new" => ~tasks'[u].cancelled
                        /\ tasks'[u].pc \in {"new", "queued", "start"} => requests[u] = NoRequest
                        /\ tasks'[u].pc = "waiting" => tasks'[u].list = << >>
      BY DEF Tells
    <2>1. /\ u = current => ~tasks[u].cancelled /\ tasks[u].pc # "new"
          /\ tasks[u].pc = "new" => ~tasks[u].cancelled
          /\ tasks[u].pc \in {"new", "queued", "start"} => requests[u] = NoRequest
          /\ tasks[u].pc = "waiting" => tasks[u].list = << >>
      BY DEF DiscoveryInv, Tells
    <2>2. CASE u = t
      BY <1>1, <2>1, <2>2
    <2>3. CASE u # t
      BY <1>1, <2>1, <2>3
    <2> QED  BY <2>2, <2>3
  <1> QED  BY <1>1, <1>2

LEMMA HandleFoundStep ==
  ASSUME DiscoveryInv, HandleFound
  PROVE  DiscoveryInv'
  <1> DEFINE m == Head(mainQ)
             e == [address |-> m.address, name |-> m.name]
  <1>1. /\ mainQ # << >> /\ m.what = "found" /\ mainQ' = Tail(mainQ)
        /\ tasks' = [tasks EXCEPT ![m.task].list = Append(@, e),
                                  ![m.task].pc = IF @ = "waiting" THEN "notified" ELSE @]
        /\ UNCHANGED <<current, mPrinters, shown, finder, bound, requests, losses, swallowed>>
    BY DEF HandleFound, svars
  <1>2. /\ m \in Message /\ mainQ' \in Seq(Message)
        /\ \A t, a : InQueue(t, a) => InQueue(t, a)' \/ (m.task = t /\ m.address = a)
    BY <1>1, TaskFacts, QueueTail
  <1>3. m.task \in Ids /\ e \in Entry
    BY <1>2 DEF Message, Entry
  <1> HIDE DEF m, e
  <1> PICK t \in Ids : t = m.task
    BY <1>3
  <1> DEFINE k == [tasks[t] EXCEPT !.list = Append(tasks[t].list, e),
                                   !.pc = IF tasks[t].pc = "waiting" THEN "notified"
                                          ELSE tasks[t].pc]
  <1>4. tasks[t] \in Task /\ tasks[t].list \in Seq(Entry) /\ tasks \in [Ids -> Task]
    BY <1>3, TaskFacts
  <1>5. tasks' = [tasks EXCEPT ![t] = k]
    BY <1>1, <1>3, <1>4 DEF Task
  <1>6. Append(tasks[t].list, e) \in Seq(Entry)
    BY <1>3, <1>4
  <1>7. /\ k \in Task /\ k.cancelled = tasks[t].cancelled /\ k.pc # "waiting"
        /\ k.pc \in {"new", "queued", "start"} <=> tasks[t].pc \in {"new", "queued", "start"}
        /\ k.pc = "new" <=> tasks[t].pc = "new"
        /\ k.list = Append(tasks[t].list, e)
    BY <1>4, <1>6 DEF Task, Entry
  <1> HIDE DEF k
  <1>8. /\ tasks'[t] = k /\ \A u \in Ids \ {t} : tasks'[u] = tasks[u]
        /\ tasks' \in [Ids -> Task]
    BY <1>3, <1>4, <1>5, <1>7
  <1>9. Typed'
    BY <1>1, <1>2, <1>8 DEF DiscoveryInv, Typed
  <1>10. Waits' /\ Keeps'
    BY <1>1 DEF DiscoveryInv, Waits, Keeps
  <1>11. Tells'
    <2> SUFFICES ASSUME NEW u \in Ids
                 PROVE  /\ u = current => ~tasks'[u].cancelled /\ tasks'[u].pc # "new"
                        /\ tasks'[u].pc = "new" => ~tasks'[u].cancelled
                        /\ tasks'[u].pc \in {"new", "queued", "start"} => requests[u] = NoRequest
                        /\ tasks'[u].pc = "waiting" => tasks'[u].list = << >>
      BY <1>1 DEF Tells
    <2>1. /\ u = current => ~tasks[u].cancelled /\ tasks[u].pc # "new"
          /\ tasks[u].pc = "new" => ~tasks[u].cancelled
          /\ tasks[u].pc \in {"new", "queued", "start"} => requests[u] = NoRequest
          /\ tasks[u].pc = "waiting" => tasks[u].list = << >>
      BY DEF DiscoveryInv, Tells
    <2>2. CASE u = t
      BY <1>7, <1>8, <2>1, <2>2
    <2>3. CASE u # t
      BY <1>8, <2>1, <2>3
    <2> QED  BY <2>2, <2>3
  <1>12. \A a : OnList(t, a) \/ a = m.address => OnList(t, a)'
    <2>1. /\ Len(k.list) = Len(tasks[t].list) + 1 /\ Len(tasks[t].list) \in Nat
          /\ DOMAIN k.list = 1 .. (Len(tasks[t].list) + 1)
          /\ DOMAIN tasks[t].list = 1 .. Len(tasks[t].list)
          /\ \A i \in 1 .. Len(tasks[t].list) : k.list[i] = tasks[t].list[i]
          /\ k.list[Len(tasks[t].list) + 1] = e
      BY <1>3, <1>4, <1>7
    <2>2. e.address = m.address
      BY DEF e
    <2>3. tasks'[t].list = k.list /\ tasks'[t].pc # "waiting"
      BY <1>7, <1>8
    <2>4. ASSUME NEW a, OnList(t, a) PROVE OnList(t, a)'
      <3>1. PICK i \in 1 .. Len(tasks[t].list) : tasks[t].list[i].address = a
        BY <2>1, <2>4 DEF OnList
      <3>2. i \in DOMAIN k.list /\ k.list[i].address = a
        BY <2>1, <3>1
      <3> QED  BY <2>3, <3>2 DEF OnList
    <2>5. ASSUME NEW a, a = m.address PROVE OnList(t, a)'
      <3>1. Len(tasks[t].list) + 1 \in DOMAIN k.list
        BY <2>1
      <3>2. k.list[Len(tasks[t].list) + 1].address = a
        BY <2>1, <2>2, <2>5
      <3>3. \E i \in DOMAIN k.list : k.list[i].address = a
        BY <3>1, <3>2
      <3> QED  BY <2>3, <3>3 DEF OnList
    <2> QED  BY <2>4, <2>5
  <1>13. \A u \in Ids, a \in Addresses :
           InQueue(u, a) \/ OnList(u, a) => InQueue(u, a)' \/ OnList(u, a)'
    <2>1. ASSUME NEW u \in Ids, NEW a \in Addresses, OnList(u, a) PROVE OnList(u, a)'
      <3>1. CASE u = t
        BY <1>12, <2>1, <3>1
      <3>2. CASE u # t
        BY <1>8, <2>1, <3>2 DEF OnList
      <3> QED  BY <3>1, <3>2
    <2> QED  BY <1>2, <1>12, <2>1
  <1>14. OnItsWay'
    BY <1>1, <1>13, WayKept
  <1> QED  BY <1>9, <1>10, <1>11, <1>14 DEF DiscoveryInv

(* What the session is given is what it shows.                             *)
LEMMA Reported ==
  ASSUME DiscoveryInv, NEW a \in Addresses, NEW info \in Info, Report(a, info)
  PROVE  /\ mPrinters' \in [Addresses -> Info \cup {NoInfo}]
         /\ shown' \in [Addresses -> Info \cup {NoInfo}]
         /\ mPrinters'[a] = info /\ shown'[a] = info
         /\ \A b \in Addresses \ {a} : mPrinters'[b] = mPrinters[b] /\ shown'[b] = shown[b]
         /\ mPrinters'[a] # NoInfo
  BY Constants DEF Report, DiscoveryInv, Typed

LEMMA HandleProgressStep ==
  ASSUME DiscoveryInv, HandleProgress
  PROVE  DiscoveryInv'
  <1> DEFINE m    == Head(mainQ)
             info == [name |-> m.name, status |-> "idle"]
  <1>1. /\ mainQ # << >> /\ mainQ' = Tail(mainQ)
        /\ IF m.task = current
           THEN /\ finder' = [finder EXCEPT ![m.address] = m.task]
                /\ IF info = mPrinters[m.address] THEN UNCHANGED <<mPrinters, shown>>
                   ELSE Report(m.address, info)
           ELSE UNCHANGED <<mPrinters, shown, finder>>
        /\ UNCHANGED <<current, bound, tasks, requests, losses, swallowed>>
    BY DEF HandleProgress
  <1>2. /\ m \in Message /\ mainQ' \in Seq(Message)
        /\ \A t, a : InQueue(t, a) => InQueue(t, a)' \/ (m.task = t /\ m.address = a)
    BY <1>1, TaskFacts, QueueTail
  <1>3. m.task \in Ids /\ info \in Info /\ m.address \in Addresses
    BY <1>2 DEF Message, Info, Statuses
  <1> HIDE DEF m, info
  <1>4. /\ mPrinters' \in [Addresses -> Info \cup {NoInfo}]
        /\ shown' \in [Addresses -> Info \cup {NoInfo}]
        /\ finder' \in [Addresses -> Ids \cup {NoTask}]
        /\ \A a \in Addresses : mPrinters[a] # NoInfo => mPrinters'[a] # NoInfo
        /\ m.task = current => mPrinters'[m.address] # NoInfo
        /\ Keeps'
    <2>1. /\ mPrinters \in [Addresses -> Info \cup {NoInfo}]
          /\ shown \in [Addresses -> Info \cup {NoInfo}]
          /\ finder \in [Addresses -> Ids \cup {NoTask}]
      BY DEF DiscoveryInv, Typed
    <2>2. CASE m.task # current
      BY <1>1, <2>1, <2>2 DEF DiscoveryInv, Keeps
    <2>3. CASE m.task = current
      <3>1. /\ finder' \in [Addresses -> Ids \cup {NoTask}]
            /\ finder'[m.address] = current /\ current # NoTask
            /\ \A b \in Addresses \ {m.address} : finder'[b] = finder[b]
        BY <1>1, <1>3, <2>1, <2>3, Constants
      <3>2. CASE UNCHANGED <<mPrinters, shown>> /\ info = mPrinters[m.address]
        BY <1>1, <1>3, <2>1, <3>1, <3>2, Constants DEF DiscoveryInv, Keeps
      <3>3. CASE Report(m.address, info)
        BY <1>1, <1>3, <3>1, <3>3, Reported DEF DiscoveryInv, Keeps
      <3> QED  BY <1>1, <2>3, <3>2, <3>3
    <2> QED  BY <2>2, <2>3
  <1>5. Typed'
    BY <1>1, <1>2, <1>4 DEF DiscoveryInv, Typed
  <1>6. Waits' /\ Tells'
    BY <1>1 DEF DiscoveryInv, Waits, Tells
  <1>7. OnItsWay'
    <2>1. \A t \in Ids, a \in Addresses :
            t = current /\ (InQueue(t, a) \/ OnList(t, a)) =>
              mPrinters'[a] # NoInfo \/ InQueue(t, a)' \/ OnList(t, a)'
      BY <1>1, <1>2, <1>4 DEF OnList
    <2> QED  BY <1>1, <1>4, <2>1, WayKept
  <1> QED  BY <1>4, <1>5, <1>6, <1>7 DEF DiscoveryInv

LEMMA TrackerStep ==
  ASSUME DiscoveryInv, NEW a \in Addresses, NEW s \in Statuses, TrackerReports(a, s)
  PROVE  DiscoveryInv'
  <1> DEFINE info == [mPrinters[a] EXCEPT !.status = s]
  <1>1. /\ mPrinters[a] # NoInfo /\ Report(a, info)
        /\ UNCHANGED <<current, finder, mainQ, bound, tasks, requests, losses, swallowed>>
    BY DEF TrackerReports
  <1>2. info \in Info
    <2>1. mPrinters[a] \in Info
      BY <1>1 DEF DiscoveryInv, Typed
    <2> QED  BY <2>1 DEF Info
  <1> HIDE DEF info
  <1>3. /\ mPrinters' \in [Addresses -> Info \cup {NoInfo}]
        /\ shown' \in [Addresses -> Info \cup {NoInfo}]
        /\ mPrinters'[a] = info /\ shown'[a] = info
        /\ \A b \in Addresses \ {a} : mPrinters'[b] = mPrinters[b] /\ shown'[b] = shown[b]
        /\ mPrinters'[a] # NoInfo
    BY <1>1, <1>2, Reported
  <1>4. Typed'
    BY <1>1, <1>3 DEF DiscoveryInv, Typed
  <1>5. Keeps'
    BY <1>1, <1>3 DEF DiscoveryInv, Keeps
  <1>6. Waits' /\ Tells'
    BY <1>1 DEF DiscoveryInv, Waits, Tells
  <1>7. OnItsWay'
    BY <1>1, <1>3, WayKept DEF InQueue, OnList
  <1> QED  BY <1>4, <1>5, <1>6, <1>7 DEF DiscoveryInv

-----------------------------------------------------------------------------
(* The threads of the tasks.  Steps that neither take from the list nor    *)
(* start to wait with something on it.                                     *)
LEMMA TaskQuiet ==
  ASSUME DiscoveryInv, NEW t \in Ids, NEW k \in Task, tasks' = [tasks EXCEPT ![t] = k],
         k.cancelled = tasks[t].cancelled, k.pc # "new", tasks[t].pc # "new",
         k.pc \in {"new", "queued", "start"} => tasks[t].pc \in {"new", "queued", "start"},
         k.pc = "waiting" => k.list = << >>, k.list = tasks[t].list,
         swallowed' \subseteq Ids,
         UNCHANGED <<current, mPrinters, shown, finder, mainQ, bound, requests, losses>>
  PROVE  DiscoveryInv'
  <1>1. Tells' /\ tasks' \in [Ids -> Task]
    BY OneTask
  <1>2. Typed'
    BY <1>1 DEF DiscoveryInv, Typed
  <1>3. Waits' /\ Keeps'
    BY DEF DiscoveryInv, Waits, Keeps
  <1>4. ASSUME NEW u \in Ids, NEW a \in Addresses, OnList(u, a) PROVE OnList(u, a)'
    <2>1. tasks'[u].list = tasks[u].list /\ (u = t => tasks'[u].pc = k.pc)
          /\ (u # t => tasks'[u].pc = tasks[u].pc)
      BY TaskFacts
    <2>2. PICK i \in DOMAIN tasks[u].list : tasks[u].list[i].address = a
      BY <1>4 DEF OnList
    <2>3. tasks'[u].pc # "waiting"
      <3>1. CASE u = t
        <4>1. tasks[u].list # << >>
          BY <2>2
        <4> QED  BY <2>1, <3>1, <4>1
      <3>2. CASE u # t
        BY <1>4, <2>1, <3>2 DEF OnList
      <3> QED  BY <3>1, <3>2
    <2> QED  BY <2>1, <2>2, <2>3 DEF OnList
  <1>5. OnItsWay'
    BY <1>4, WayKept DEF InQueue
  <1> QED  BY <1>1, <1>2, <1>3, <1>5 DEF DiscoveryInv

LEMMA QuietSteps ==
  ASSUME DiscoveryInv, NEW t \in Ids,
         Run(t) \/ Sleep(t) \/ Wait(t) \/ Interrupted(t) \/ Check(t)
  PROVE  DiscoveryInv'
  <1>1. /\ UNCHANGED <<current, mPrinters, shown, finder, mainQ, bound, requests, losses>>
        /\ swallowed' \subseteq Ids
        /\ tasks \in [Ids -> Task] /\ tasks[t] \in Task
    BY TaskFacts DEF Run, Sleep, Wait, Interrupted, Check, svars, DiscoveryInv, Typed
  <1>2. CASE Run(t)
    <2> DEFINE k == [tasks[t] EXCEPT !.pc = "start"]
    <2>1. tasks' = [tasks EXCEPT ![t] = k] /\ tasks[t].pc = "queued"
      BY <1>2 DEF Run
    <2>2. k \in Task /\ k.cancelled = tasks[t].cancelled /\ k.pc = "start"
          /\ k.list = tasks[t].list
      BY <1>1 DEF Task
    <2> HIDE DEF k
    <2> QED  BY <1>1, <2>1, <2>2, TaskQuiet
  <1>3. CASE Sleep(t)
    <2> DEFINE k == [tasks[t] EXCEPT !.interrupted = FALSE]
    <2>1. tasks' = [tasks EXCEPT ![t] = k] /\ tasks[t].pc = "start"
      BY <1>3 DEF Sleep
    <2>2. k \in Task /\ k.cancelled = tasks[t].cancelled /\ k.pc = "start"
          /\ k.list = tasks[t].list
      BY <1>1, <2>1 DEF Task
    <2> HIDE DEF k
    <2> QED  BY <1>1, <2>1, <2>2, TaskQuiet
  <1>4. CASE Wait(t)
    <2> DEFINE k == [tasks[t] EXCEPT !.pc = "waiting"]
    <2>1. tasks' = [tasks EXCEPT ![t] = k] /\ tasks[t].pc = "list" /\ tasks[t].list = << >>
      BY <1>4 DEF Wait
    <2>2. k \in Task /\ k.cancelled = tasks[t].cancelled /\ k.pc = "waiting"
          /\ k.list = tasks[t].list
      BY <1>1 DEF Task
    <2> HIDE DEF k
    <2> QED  BY <1>1, <2>1, <2>2, TaskQuiet
  <1>5. CASE Interrupted(t)
    <2> DEFINE k == [tasks[t] EXCEPT !.pc = "check", !.interrupted = FALSE]
    <2>1. tasks' = [tasks EXCEPT ![t] = k] /\ tasks[t].pc \in {"list", "waiting", "notified"}
      BY <1>5, <1>1 DEF Interrupted, Task
    <2>2. k \in Task /\ k.cancelled = tasks[t].cancelled /\ k.pc = "check"
          /\ k.list = tasks[t].list
      BY <1>1 DEF Task
    <2> HIDE DEF k
    <2> QED  BY <1>1, <2>1, <2>2, TaskQuiet
  <1>6. CASE Check(t)
    <2> DEFINE w == IF tasks[t].cancelled THEN "ended" ELSE "list"
               k == [tasks[t] EXCEPT !.pc = w]
    <2>1. tasks' = [tasks EXCEPT ![t] = k] /\ tasks[t].pc = "check"
      BY <1>6 DEF Check
    <2>2. w \in {"ended", "list"}
      OBVIOUS
    <2> HIDE DEF w
    <2>3. k \in Task /\ k.cancelled = tasks[t].cancelled /\ k.pc \in {"ended", "list"}
          /\ k.list = tasks[t].list
      BY <1>1, <2>2 DEF Task
    <2> HIDE DEF k
    <2> QED  BY <1>1, <2>1, <2>3, TaskQuiet
  <1> QED  BY <1>2, <1>3, <1>4, <1>5, <1>6

(* The whole list goes into the queue, unless the task is cancelled: then  *)
(* it is not the running one.                                              *)
LEMMA PublishStep ==
  ASSUME DiscoveryInv, NEW t \in Ids, Publish(t)
  PROVE  DiscoveryInv'
  <1> DEFINE list  == tasks[t].list
             posts == [i \in 1 .. Len(list) |-> Progress(t, list[i])]
             k     == [tasks[t] EXCEPT !.list = << >>, !.pc = "check"]
  <1>1. /\ tasks[t].pc \in {"list", "notified"}
        /\ mainQ' = IF tasks[t].cancelled THEN mainQ ELSE mainQ \o posts
        /\ tasks' = [tasks EXCEPT ![t] = k]
        /\ UNCHANGED <<current, mPrinters, shown, finder, bound, requests, losses, swallowed>>
    BY TaskFacts DEF Publish, svars, Task
  <1>2. tasks[t] \in Task /\ list \in Seq(Entry) /\ mainQ \in Seq(Message)
        /\ tasks \in [Ids -> Task]
    BY TaskFacts
  <1>3. posts \in Seq(Message) /\ DOMAIN posts = DOMAIN list
        /\ \A i \in DOMAIN list : posts[i].task = t /\ posts[i].address = list[i].address
    <2>1. \A d \in Entry : /\ Progress(t, d) \in Message
                           /\ Progress(t, d).task = t /\ Progress(t, d).address = d.address
      BY DEF Progress, Message, Entry
    <2>2. Len(list) \in Nat /\ DOMAIN list = 1 .. Len(list)
          /\ \A i \in 1 .. Len(list) : list[i] \in Entry
      BY <1>2
    <2> HIDE DEF list
    <2>3. \A i \in 1 .. Len(list) : posts[i] = Progress(t, list[i])
      OBVIOUS
    <2>4. posts \in [1 .. Len(list) -> Message]
      BY <2>1, <2>2
    <2> HIDE DEF posts
    <2> QED  BY <2>1, <2>2, <2>3, <2>4
  <1>4. /\ k \in Task /\ k.cancelled = tasks[t].cancelled /\ k.pc = "check"
        /\ k.list = << >>
    <2>1. << >> \in Seq([address : Addresses, name : Names])
      OBVIOUS
    <2> QED  BY <1>2, <2>1 DEF Task
  <1> HIDE DEF k
  <1>5. Tells' /\ tasks' \in [Ids -> Task]
    BY <1>1, <1>4, OneTask
  <1>6. /\ mainQ' \in Seq(Message)
        /\ \A u, a : InQueue(u, a) => InQueue(u, a)'
    <2>1. CASE tasks[t].cancelled
      BY <1>1, <1>2, <2>1 DEF InQueue
    <2>2. CASE mainQ' = mainQ \o posts
      <3> HIDE DEF posts
      <3> QED  BY <1>2, <1>3, <2>2, QueueMore
    <2> QED  BY <1>1, <2>1, <2>2
  <1>7. ASSUME t = current, NEW a, OnList(t, a) PROVE InQueue(t, a)'
    <2>1. ~tasks[t].cancelled
      BY <1>7 DEF DiscoveryInv, Tells
    <2>2. mainQ' = mainQ \o posts
      BY <1>1, <2>1
    <2>3. PICK i \in DOMAIN list : list[i].address = a
      BY <1>7 DEF OnList
    <2>4. i \in DOMAIN posts /\ posts[i].task = t /\ posts[i].address = a
      BY <1>3, <2>3
    <2>5. \A j \in DOMAIN posts : \E n \in DOMAIN mainQ' : mainQ'[n] = posts[j]
      <3> HIDE DEF posts
      <3> QED  BY <1>2, <1>3, <2>2, QueueMore
    <2>6. PICK n \in DOMAIN mainQ' : mainQ'[n].task = t /\ mainQ'[n].address = a
      <3> HIDE DEF posts
      <3> QED  BY <2>4, <2>5
    <2> QED  BY <2>6 DEF InQueue
  <1>8. \A u \in Ids \ {t} : \A a : OnList(u, a) => OnList(u, a)'
    BY <1>1, <1>2 DEF OnList
  <1>9. OnItsWay'
    <2>1. \A u \in Ids, a \in Addresses :
            u = current /\ (InQueue(u, a) \/ OnList(u, a)) =>
              mPrinters'[a] # NoInfo \/ InQueue(u, a)' \/ OnList(u, a)'
      BY <1>6, <1>7, <1>8
    <2> QED  BY <1>1, <2>1, WayKept
  <1>10. Typed'
    BY <1>1, <1>5, <1>6 DEF DiscoveryInv, Typed
  <1>11. Waits' /\ Keeps'
    BY <1>1 DEF DiscoveryInv, Waits, Keeps
  <1> QED  BY <1>5, <1>9, <1>10, <1>11 DEF DiscoveryInv

LEMMA AskStep ==
  ASSUME DiscoveryInv, NEW t \in Ids, Ask(t)
  PROVE  DiscoveryInv'
  <1> DEFINE k == [tasks[t] EXCEPT !.pc = "list"]
             r == [requests[t] EXCEPT !.pc = "query"]
  <1>1. /\ tasks[t].pc = "start"
        /\ tasks' = [tasks EXCEPT ![t] = k] /\ requests' = [requests EXCEPT ![t] = r]
        /\ UNCHANGED <<current, mPrinters, shown, finder, mainQ, bound, losses, swallowed>>
    BY DEF Ask, svars
  <1>2. /\ tasks[t] \in Task /\ requests[t] \in Request
        /\ tasks \in [Ids -> Task] /\ requests \in [Ids -> Request]
    BY TaskFacts
  <1>3. /\ k \in Task /\ k.pc = "list" /\ k.cancelled = tasks[t].cancelled
        /\ k.list = tasks[t].list
        /\ r \in Request /\ r.pc = "query" /\ r.told = requests[t].told
    BY <1>2 DEF Task, Request
  <1> HIDE DEF k, r
  <1>4. /\ tasks'[t] = k /\ \A u \in Ids \ {t} : tasks'[u] = tasks[u]
        /\ tasks' \in [Ids -> Task]
        /\ requests'[t] = r /\ \A u \in Ids \ {t} : requests'[u] = requests[u]
        /\ requests' \in [Ids -> Request]
    BY <1>1, <1>2, <1>3
  <1>5. Typed'
    BY <1>1, <1>4 DEF DiscoveryInv, Typed
  <1>6. Waits'
    BY <1>3, <1>4 DEF DiscoveryInv, Waits
  <1>7. Keeps'
    BY <1>1 DEF DiscoveryInv, Keeps
  <1>8. Tells'
    <2> SUFFICES ASSUME NEW u \in Ids
                 PROVE  /\ u = current => ~tasks'[u].cancelled /\ tasks'[u].pc # "new"
                        /\ tasks'[u].pc = "new" => ~tasks'[u].cancelled
                        /\ tasks'[u].pc \in {"new", "queued", "start"} => requests'[u] = NoRequest
                        /\ tasks'[u].pc = "waiting" => tasks'[u].list = << >>
      BY <1>1 DEF Tells
    <2>1. /\ u = current => ~tasks[u].cancelled /\ tasks[u].pc # "new"
          /\ tasks[u].pc = "new" => ~tasks[u].cancelled
          /\ tasks[u].pc \in {"new", "queued", "start"} => requests[u] = NoRequest
          /\ tasks[u].pc = "waiting" => tasks[u].list = << >>
      BY DEF DiscoveryInv, Tells
    <2>2. CASE u = t
      BY <1>3, <1>4, <2>1, <2>2
    <2>3. CASE u # t
      BY <1>4, <2>1, <2>3
    <2> QED  BY <2>2, <2>3
  <1>9. OnItsWay'
    <2>1. \A u \in Ids, a \in Addresses : OnList(u, a) => OnList(u, a)'
      BY <1>3, <1>4 DEF OnList
    <2>2. \A u \in Ids : requests'[u].told = requests[u].told
      BY <1>3, <1>4
    <2> QED  BY <1>1, <2>1, <2>2, WayKept DEF InQueue
  <1> QED  BY <1>5, <1>6, <1>7, <1>8, <1>9 DEF DiscoveryInv

-----------------------------------------------------------------------------
(* The requests in the service.  A step of one that has been made.         *)
LEMMA OneRequest ==
  ASSUME DiscoveryInv, NEW t \in Ids, requests[t].pc # "none",
         NEW r \in Request, requests' = [requests EXCEPT ![t] = r],
         r.pc = "receive" => \/ r.decay = 2 /\ r.timeout \in 1 .. 8
                             \/ r.decay = 5 /\ r.timeout = 5,
         losses' \in 0 .. MaxLosses, mainQ' \in Seq(Message),
         UNCHANGED <<current, mPrinters, shown, finder, bound, tasks, swallowed>>
  PROVE  /\ Typed' /\ Waits' /\ Keeps' /\ Tells'
         /\ requests'[t] = r /\ \A u \in Ids \ {t} : requests'[u] = requests[u]
  <1>1. /\ requests'[t] = r /\ \A u \in Ids \ {t} : requests'[u] = requests[u]
        /\ requests' \in [Ids -> Request]
    BY TaskFacts
  <1>2. Typed'
    BY <1>1 DEF DiscoveryInv, Typed
  <1>3. Waits'
    BY <1>1 DEF DiscoveryInv, Waits
  <1>4. Keeps'
    BY DEF DiscoveryInv, Keeps
  <1>5. Tells'
    <2>1. NoRequest.pc = "none"
      BY DEF NoRequest
    <2> QED  BY <1>1, <2>1 DEF DiscoveryInv, Tells
  <1> QED  BY <1>1, <1>2, <1>3, <1>4, <1>5

(* ... that tells nothing.                                                 *)
LEMMA RequestQuiet ==
  ASSUME DiscoveryInv, NEW t \in Ids, requests[t].pc # "none",
         NEW r \in Request, requests' = [requests EXCEPT ![t] = r],
         r.pc = "receive" => \/ r.decay = 2 /\ r.timeout \in 1 .. 8
                             \/ r.decay = 5 /\ r.timeout = 5,
         r.told = requests[t].told, losses' \in 0 .. MaxLosses,
         UNCHANGED <<current, mPrinters, shown, finder, mainQ, bound, tasks, swallowed>>
  PROVE  DiscoveryInv'
  <1>1. /\ Typed' /\ Waits' /\ Keeps' /\ Tells'
        /\ requests'[t] = r /\ \A u \in Ids \ {t} : requests'[u] = requests[u]
    BY TaskFacts, OneRequest
  <1>2. \A u \in Ids : requests'[u].told = requests[u].told
    BY <1>1
  <1>3. OnItsWay'
    BY <1>2, WayKept DEF InQueue, OnList
  <1> QED  BY <1>1, <1>3 DEF DiscoveryInv

(* A query, with what is left of the answers.                              *)
LEMMA QueryStep ==
  ASSUME DiscoveryInv, NEW t \in Ids, requests[t].pc # "none",
         NEW r \in Request, Query(t, r), r.told = requests[t].told,
         r.pc = "receive" => \/ r.decay = 2 /\ r.timeout \in 1 .. 8
                             \/ r.decay = 5 /\ r.timeout = 5,
         UNCHANGED <<current, mPrinters, shown, finder, mainQ, bound, tasks, swallowed>>
  PROVE  DiscoveryInv'
  <1>1. PICK lost \in SUBSET Responders :
          /\ losses + Cardinality(lost) <= MaxLosses
          /\ losses' = losses + Cardinality(lost)
          /\ requests' = [requests EXCEPT ![t] = [r EXCEPT !.net = Responders \ lost]]
    BY DEF Query
  <1>2. losses' \in 0 .. MaxLosses
    <2>1. Cardinality(lost) \in Nat
      BY Constants, FS_Subset, FS_CardinalityType
    <2> QED  BY <1>1, <2>1 DEF DiscoveryInv, Typed
  <1> DEFINE n == [r EXCEPT !.net = Responders \ lost]
  <1>3. /\ n \in Request /\ n.pc = r.pc /\ n.decay = r.decay /\ n.timeout = r.timeout
        /\ n.told = r.told
    BY DEF Request
  <1> HIDE DEF n
  <1>4. requests' = [requests EXCEPT ![t] = n]
    BY <1>1 DEF n
  <1> QED  BY <1>2, <1>3, <1>4, RequestQuiet

LEMMA FirstQueryStep ==
  ASSUME DiscoveryInv, NEW t \in Ids, FirstQuery(t)
  PROVE  DiscoveryInv'
  <1> DEFINE r == [requests[t] EXCEPT !.pc = "receive", !.timeout = DEFAULT_INITIAL_TIMEOUT,
                                      !.decay = DEFAULT_TIMEOUT_DECAY]
  <1>1. /\ requests[t].pc = "query" /\ Query(t, r)
        /\ UNCHANGED <<current, mPrinters, shown, finder, mainQ, bound, tasks, swallowed>>
    BY DEF FirstQuery, svars
  <1>2. requests[t] \in Request
    BY TaskFacts
  <1>3. r \in Request /\ r.told = requests[t].told /\ r.decay = 2 /\ r.timeout = 8
    <2>1. DEFAULT_INITIAL_TIMEOUT = 8 /\ DEFAULT_TIMEOUT_DECAY = 2 /\ 8 \in -2 .. 8
      BY DEF DEFAULT_INITIAL_TIMEOUT, DEFAULT_TIMEOUT_DECAY
    <2>2. r = [requests[t] EXCEPT !.pc = "receive", !.timeout = 8, !.decay = 2]
      BY <2>1
    <2> HIDE DEF r
    <2>3. r \in Request
      BY <1>2, <2>1, <2>2 DEF Request
    <2>4. r.told = requests[t].told /\ r.decay = 2 /\ r.timeout = 8
      BY <1>2, <2>2 DEF Request
    <2> QED  BY <2>3, <2>4
  <1> HIDE DEF r
  <1> QED  BY <1>1, <1>3, QueryStep

LEMMA TimeOutStep ==
  ASSUME DiscoveryInv, NEW t \in Ids, TimeOut(t)
  PROVE  DiscoveryInv'
  <1> DEFINE r == [requests[t] EXCEPT !.timeout = requests[t].timeout - requests[t].decay]
             e == [r EXCEPT !.pc = "ended"]
  <1>1. /\ requests[t].pc = "receive"
        /\ IF r.timeout > 0 THEN Query(t, r)
           ELSE requests' = [requests EXCEPT ![t] = e] /\ UNCHANGED losses
        /\ UNCHANGED <<current, mPrinters, shown, finder, mainQ, bound, tasks, swallowed>>
    BY DEF TimeOut, svars
  <1>2. /\ requests[t] \in Request
        /\ \/ requests[t].decay = 2 /\ requests[t].timeout \in 1 .. 8
           \/ requests[t].decay = 5 /\ requests[t].timeout = 5
    BY <1>1, TaskFacts DEF DiscoveryInv, Waits
  <1>3. requests[t].timeout - requests[t].decay \in -2 .. 8
        /\ (requests[t].timeout - requests[t].decay > 0 =>
              requests[t].decay = 2 /\ requests[t].timeout - requests[t].decay \in 1 .. 8)
    BY <1>2
  <1>4. /\ r \in Request /\ r.told = requests[t].told /\ r.decay = requests[t].decay
        /\ r.timeout = requests[t].timeout - requests[t].decay
        /\ e \in Request /\ e.told = requests[t].told /\ e.pc = "ended"
    BY <1>2, <1>3 DEF Request
  <1> HIDE DEF r, e
  <1>5. CASE r.timeout > 0
    BY <1>1, <1>3, <1>4, <1>5, QueryStep
  <1>6. CASE ~(r.timeout > 0)
    <2>1. losses' \in 0 .. MaxLosses
      BY <1>1, <1>6 DEF DiscoveryInv, Typed
    <2> QED  BY <1>1, <1>4, <1>6, <2>1, RequestQuiet
  <1> QED  BY <1>5, <1>6

LEMMA QueryFailsStep ==
  ASSUME DiscoveryInv, NEW t \in Ids, QueryFails(t)
  PROVE  DiscoveryInv'
  <1> DEFINE r == [requests[t] EXCEPT !.pc = "ended", !.failed = TRUE]
  <1>1. requests[t] \in Request
    BY TaskFacts
  <1>2. /\ requests[t].pc # "none" /\ requests' = [requests EXCEPT ![t] = r]
        /\ UNCHANGED <<current, mPrinters, shown, finder, mainQ, bound, tasks, swallowed>>
        /\ losses' \in 0 .. MaxLosses
    BY <1>1 DEF QueryFails, svars, DiscoveryInv, Typed, Request
  <1>3. r \in Request /\ r.told = requests[t].told /\ r.pc = "ended"
    BY <1>1 DEF Request
  <1> HIDE DEF r
  <1> QED  BY <1>2, <1>3, RequestQuiet

(* The printers of an answer go to the main thread.                        *)
LEMMA ReceiveStep ==
  ASSUME DiscoveryInv, NEW t \in Ids, Receive(t)
  PROVE  DiscoveryInv'
  <1>1. /\ requests[t].pc = "receive" /\ requests[t] \in Request
        /\ UNCHANGED <<current, mPrinters, shown, finder, bound, tasks, losses, swallowed>>
        /\ losses' \in 0 .. MaxLosses
        /\ \/ requests[t].decay = 2 /\ requests[t].timeout \in 1 .. 8
           \/ requests[t].decay = 5 /\ requests[t].timeout = 5
    BY TaskFacts DEF Receive, svars, DiscoveryInv, Typed, Waits
  <1>2. PICK h \in requests[t].net :
          LET printers == PrintersIn(Packet[h])
              rest     == [requests[t] EXCEPT !.net = @ \ {h}]
          IN  IF printers = << >>
              THEN /\ requests' = [requests EXCEPT ![t] = rest]
                   /\ UNCHANGED mainQ
              ELSE /\ requests' = [requests EXCEPT ![t] =
                        [rest EXCEPT !.timeout = DEFAULT_TIMEOUT_AFTER_FOUND,
                                     !.decay = DEFAULT_TIMEOUT_AFTER_FOUND,
                                     !.told = @ \cup {s.address : s \in ToSet(printers)}]]
                   /\ mainQ' = mainQ \o [i \in 1 .. Len(printers) |-> Found(t, printers[i])]
    BY DEF Receive
  <1>3. PICK printers \in Seq(Service) : printers = PrintersIn(Packet[h])
    <2>1. h \in Responders
      BY <1>1 DEF Request
    <2> QED  BY <2>1, Printers
  <1> DEFINE rest  == [requests[t] EXCEPT !.net = requests[t].net \ {h}]
             found == {s.address : s \in ToSet(printers)}
             r     == [rest EXCEPT !.timeout = 5, !.decay = 5, !.told = requests[t].told \cup found]
             news  == [i \in 1 .. Len(printers) |-> Found(t, printers[i])]
  <1>4. /\ Len(printers) \in Nat /\ DOMAIN printers = 1 .. Len(printers)
        /\ \A i \in 1 .. Len(printers) : printers[i] \in Service
    BY <1>3
  <1>5. /\ found \subseteq Addresses
        /\ \A a \in found : \E i \in 1 .. Len(printers) : printers[i].address = a
    <2>1. \A s \in Service : s.address \in Addresses
      BY DEF Service
    <2>2. \A s \in ToSet(printers) : \E i \in 1 .. Len(printers) : printers[i] = s
      BY <1>4 DEF ToSet
    <2> QED  BY <1>4, <2>1, <2>2
  <1>6. /\ news \in Seq(Message) /\ DOMAIN news = 1 .. Len(printers)
        /\ \A i \in 1 .. Len(printers) : news[i].task = t /\ news[i].address = printers[i].address
    <2>1. \A s \in Service : /\ Found(t, s) \in Message
                             /\ Found(t, s).task = t /\ Found(t, s).address = s.address
      BY DEF Found, Message, Service
    <2>2. news \in [1 .. Len(printers) -> Message]
      BY <1>4, <2>1
    <2>3. \A i \in 1 .. Len(printers) : news[i] = Found(t, printers[i])
      OBVIOUS
    <2> HIDE DEF news
    <2> QED  BY <1>4, <2>1, <2>2, <2>3
  <1> HIDE DEF found
  <1>7. /\ rest \in Request /\ rest.pc = "receive" /\ rest.told = requests[t].told
        /\ rest.decay = requests[t].decay /\ rest.timeout = requests[t].timeout
        /\ r \in Request /\ r.told = requests[t].told \cup found
        /\ r.decay = 5 /\ r.timeout = 5
    <2>1. /\ rest \in Request /\ rest.pc = "receive" /\ rest.told = requests[t].told
          /\ rest.decay = requests[t].decay /\ rest.timeout = requests[t].timeout
      BY <1>1 DEF Request
    <2> HIDE DEF rest
    <2>2. requests[t].told \cup found \subseteq Addresses /\ 5 \in -2 .. 8
      BY <1>1, <1>5 DEF Request
    <2>3. r \in Request
      BY <2>1, <2>2 DEF Request
    <2>4. r.told = requests[t].told \cup found /\ r.decay = 5 /\ r.timeout = 5
      BY <2>1 DEF Request
    <2> QED  BY <2>1, <2>3, <2>4
  <1>8. CASE printers = << >>
    <2>1. requests' = [requests EXCEPT ![t] = rest] /\ UNCHANGED mainQ
      BY <1>2, <1>3, <1>8
    <2> HIDE DEF rest
    <2> QED  BY <1>1, <1>7, <2>1, RequestQuiet
  <1>9. CASE printers # << >>
    <2>1. requests' = [requests EXCEPT ![t] = r] /\ mainQ' = mainQ \o news
      BY <1>1, <1>2, <1>3, <1>9 DEF found, DEFAULT_TIMEOUT_AFTER_FOUND, Request
    <2> HIDE DEF r, rest, news
    <2>2. /\ mainQ' \in Seq(Message)
          /\ \A u, a : InQueue(u, a) => InQueue(u, a)'
          /\ \A i \in DOMAIN news : \E j \in DOMAIN mainQ' : mainQ'[j] = news[i]
      BY <1>6, <2>1, TaskFacts, QueueMore
    <2>3. /\ Typed' /\ Waits' /\ Keeps' /\ Tells'
          /\ requests'[t] = r /\ \A u \in Ids \ {t} : requests'[u] = requests[u]
      BY <1>1, <1>7, <2>1, <2>2, OneRequest
    <2>4. \A a \in found : InQueue(t, a)'
      <3> SUFFICES ASSUME NEW a \in found PROVE InQueue(t, a)'
        OBVIOUS
      <3>1. PICK i \in DOMAIN news : news[i].task = t /\ news[i].address = a
        BY <1>5, <1>6
      <3>2. PICK j \in DOMAIN mainQ' : mainQ'[j] = news[i]
        BY <2>2, <3>1
      <3> QED  BY <3>1, <3>2 DEF InQueue
    <2>5. OnItsWay'
      <3> SUFFICES ASSUME NEW u \in Ids, NEW a \in Addresses, current = u,
                          a \in requests'[u].told
                   PROVE  mPrinters[a] # NoInfo \/ InQueue(u, a)' \/ OnList(u, a)'
        BY <1>1 DEF OnItsWay
      <3>1. CASE u = t /\ a \in found
        BY <2>4, <3>1
      <3>2. CASE a \in requests[u].told
        <4>1. mPrinters[a] # NoInfo \/ InQueue(u, a) \/ OnList(u, a)
          BY <3>2 DEF DiscoveryInv, OnItsWay
        <4>2. OnList(u, a) => OnList(u, a)'
          BY <1>1 DEF OnList
        <4> QED  BY <2>2, <4>1, <4>2
      <3> QED  BY <1>7, <2>3, <3>1, <3>2
    <2> QED  BY <2>3, <2>5 DEF DiscoveryInv
  <1> QED  BY <1>8, <1>9

-----------------------------------------------------------------------------
LEMMA NextDiscovery == DiscoveryInv /\ [Next]_vars => DiscoveryInv'
  <1> SUFFICES ASSUME DiscoveryInv, [Next]_vars PROVE DiscoveryInv'
    OBVIOUS
  <1>1. CASE User
    BY <1>1, StartStep, StopStep, TrackerStep DEF User
  <1>2. CASE MainStep \/ Bind
    BY <1>2, HandleFoundStep, HandleProgressStep, BindStep DEF MainStep
  <1>3. CASE \E t \in Ids : TaskStep(t)
    BY <1>3, QuietSteps, AskStep, PublishStep DEF TaskStep
  <1>4. CASE \E t \in Ids : RequestStep(t)
    BY <1>4, FirstQueryStep, ReceiveStep, TimeOutStep, QueryFailsStep DEF RequestStep
  <1>5. CASE UNCHANGED vars
    BY <1>5 DEF vars, svars, DiscoveryInv, Typed, Waits, Keeps, Tells, OnItsWay, InQueue, OnList
  <1> QED  BY <1>1, <1>2, <1>3, <1>4, <1>5 DEF Next

(* The session keeps only printers the running discovery has found, and    *)
(* shows what it keeps, whatever answers to older discoveries, trackers    *)
(* and new discoveries do in between.                                      *)
THEOREM SessionStaysTrue == Spec => []SessionIsTrue
  <1>1. Spec => []DiscoveryInv
    BY InitDiscovery, NextDiscovery, PTL DEF Spec
  <1> QED  BY <1>1, SessionTrue, PTL

(* A printer that the service has told the running discovery is never lost *)
(* between the threads: it is in the session, in a message to the main     *)
(* thread, or on the list of a task that does not wait.                    *)
THEOREM FoundIsOnItsWay == Spec => []OnItsWay
  <1>1. Spec => []DiscoveryInv
    BY InitDiscovery, NextDiscovery, PTL DEF Spec
  <1>2. DiscoveryInv => OnItsWay
    BY DEF DiscoveryInv
  <1> QED  BY <1>1, <1>2, PTL
=============================================================================
