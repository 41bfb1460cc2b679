-------------------------- MODULE AndroidPrint_proofs --------------------------
(***************************************************************************)
(* Theorems about AndroidPrint, for any number of jobs and of extras: the  *)
(* run checks one job.  Each job goes through stages, from the adapter's   *)
(* queue to the list of the service, and is in one place at a time; what   *)
(* the service and the adapter hold of a job is still good because of the  *)
(* stage the job is in.                                                    *)
(***************************************************************************)
EXTENDS AndroidPrint, FiniteSetTheorems, TLAPS

(***************************************************************************)
(* What is kept of a sequence.                                             *)
(***************************************************************************)
(* A later place has a higher rank.                                        *)
LEMMA RankGrows ==
  ASSUME NEW K, K \subseteq Int, IsFiniteSet(K), NEW i \in K, NEW j \in K
  PROVE  /\ Rank(K, i) \in 1 .. Cardinality(K)
         /\ i < j => Rank(K, i) < Rank(K, j)
         /\ Rank(K, i) = Rank(K, j) => i = j
  <1> DEFINE Upto(k) == {o \in K : o <= k}
  <1>1. ASSUME NEW k \in K
        PROVE  IsFiniteSet(Upto(k)) /\ Rank(K, k) \in Nat /\ Rank(K, k) <= Cardinality(K)
               /\ Rank(K, k) # 0
    <2>1. Upto(k) \in SUBSET K /\ k \in Upto(k)
      OBVIOUS
    <2>2. IsFiniteSet(Upto(k)) /\ Cardinality(Upto(k)) <= Cardinality(K)
      BY <2>1, FS_Subset
    <2>3. Cardinality(Upto(k)) \in Nat /\ Cardinality(Upto(k)) # 0
      BY <2>1, <2>2, FS_CardinalityType, FS_EmptySet
    <2> QED  BY <2>2, <2>3 DEF Rank
  <1>2. Cardinality(K) \in Nat
    BY FS_CardinalityType
  <1>3. ASSUME NEW k \in K, NEW l \in K, k < l
        PROVE  Rank(K, k) < Rank(K, l)
    <2>0. \A o \in K : o \in Int
      OBVIOUS
    <2>1. \A o \in K : o <= k => o <= l
      BY <1>3, <2>0
    <2>2. l <= l /\ ~(l <= k)
      BY <1>3, <2>0
    <2>3. Upto(k) \in SUBSET Upto(l) /\ l \in Upto(l) /\ l \notin Upto(k)
      BY <2>1, <2>2
    <2>4. Cardinality(Upto(k)) <= Cardinality(Upto(l))
          /\ Cardinality(Upto(k)) # Cardinality(Upto(l))
      <3>1. IsFiniteSet(Upto(l))
        BY <1>1
      <3> HIDE DEF Upto
      <3> QED  BY <2>3, <3>1, FS_Subset
    <2>5. Rank(K, k) = Cardinality(Upto(k)) /\ Rank(K, l) = Cardinality(Upto(l))
      BY DEF Rank
    <2>6. Rank(K, k) \in Nat /\ Rank(K, l) \in Nat
      BY <1>1
    <2> HIDE DEF Upto
    <2> QED  BY <2>4, <2>5, <2>6
  <1>4. i \in Int /\ j \in Int
    OBVIOUS
  <1> HIDE DEF Upto
  <1>5. Rank(K, i) \in 1 .. Cardinality(K)
    BY <1>1, <1>2
  <1>6. Rank(K, i) = Rank(K, j) => i = j
    <2>1. i < j \/ j < i \/ i = j
      BY <1>4
    <2>2. Rank(K, i) \in Nat /\ Rank(K, j) \in Nat
      BY <1>1
    <2> QED  BY <1>3, <2>1, <2>2
  <1> QED  BY <1>3, <1>5, <1>6

(* Each rank is that of a place.                                           *)
LEMMA RankAll ==
  ASSUME NEW K, K \subseteq Int, IsFiniteSet(K), NEW n \in 1 .. Cardinality(K)
  PROVE  LET k == CHOOSE k \in K : Rank(K, k) = n IN k \in K /\ Rank(K, k) = n
  <1> DEFINE N == 1 .. Cardinality(K)
             r == [k \in K |-> Rank(K, k)]
  <1>1. Cardinality(K) \in Nat
    BY FS_CardinalityType
  <1>2. IsFiniteSet(N) /\ Cardinality(N) = Cardinality(K)
    BY <1>1, FS_Interval
  <1>3. \A k \in K : Rank(K, k) \in N
    BY RankGrows
  <1>4. r \in Injection(K, N)
    <2>1. r \in [K -> N]
      BY <1>3
    <2>2. \A i, j \in K : r[i] = r[j] => i = j
      BY RankGrows
    <2> HIDE DEF r, N
    <2> QED  BY <2>1, <2>2 DEF Injection, IsInjective
  <1>5. r \in Surjection(K, N)
    <2> HIDE DEF r, N
    <2> QED  BY <1>2, <1>4, FS_Injection
  <1>6. \A i \in N : \E k \in K : Rank(K, k) = i
    BY <1>5 DEF Surjection
  <1> QED  BY <1>6

(***************************************************************************)
(* Queues: what is in them, and what is in them once.                      *)
(***************************************************************************)
Once(q, m) == \A i, k \in DOMAIN q : q[i] = m /\ q[k] = m => i = k

(* What is behind the head was there, the head is there, and a message     *)
(* that is there once is no longer there when it was the head.             *)
LEMMA TailFacts ==
  ASSUME NEW S, NEW q \in Seq(S), q # << >>
  PROVE  /\ Head(q) \in S /\ Head(q) \in Range(q)
         /\ Tail(q) \in Seq(S) /\ Range(Tail(q)) \subseteq Range(q)
         /\ \A m : Once(q, m) => Once(Tail(q), m)
         /\ \A m : Once(q, m) /\ Head(q) = m => m \notin Range(Tail(q))
         /\ \A m \in Range(q) : m = Head(q) \/ m \in Range(Tail(q))
  <1>1. Len(q) \in Nat /\ 1 \in DOMAIN q /\ Head(q) = q[1]
    OBVIOUS
  <1>2. /\ Tail(q) \in Seq(S)
        /\ \A i \in DOMAIN Tail(q) : i + 1 \in DOMAIN q /\ i + 1 # 1 /\ Tail(q)[i] = q[i + 1]
        /\ \A i \in DOMAIN q : i = 1 \/ (i - 1 \in DOMAIN Tail(q) /\ Tail(q)[i - 1] = q[i])
    BY <1>1
  <1>3. Range(Tail(q)) \subseteq Range(q) /\ Head(q) \in Range(q) /\ Head(q) \in S
    BY <1>1, <1>2 DEF Range
  <1>4. ASSUME NEW m, Once(q, m)
        PROVE  Once(Tail(q), m) /\ (Head(q) = m => m \notin Range(Tail(q)))
    <2>1. ASSUME NEW i \in DOMAIN Tail(q), NEW k \in DOMAIN Tail(q), Tail(q)[i] = m, Tail(q)[k] = m
          PROVE  i = k
      <3>1. i + 1 = k + 1
        BY <1>2, <1>4, <2>1 DEF Once
      <3> QED  BY <1>1, <3>1
    <2>2. ASSUME NEW i \in DOMAIN Tail(q), Tail(q)[i] = m, Head(q) = m
          PROVE  FALSE
      BY <1>1, <1>2, <1>4, <2>2 DEF Once
    <2> QED  BY <2>1, <2>2 DEF Once, Range
  <1>5. ASSUME NEW m \in Range(q)
        PROVE  m = Head(q) \/ m \in Range(Tail(q))
    <2>1. PICK i \in DOMAIN q : q[i] = m
      BY DEF Range
    <2>2. i = 1 \/ Tail(q)[i - 1] \in Range(Tail(q))
      BY <1>2 DEF Range
    <2> QED  BY <1>1, <1>2, <2>1, <2>2
  <1> QED  BY <1>2, <1>3, <1>4, <1>5

(* A message at the end of a queue.                                        *)
LEMMA AppendFacts ==
  ASSUME NEW S, NEW q \in Seq(S), NEW x \in S
  PROVE  /\ Append(q, x) \in Seq(S)
         /\ Range(Append(q, x)) = Range(q) \cup {x}
         /\ \A m : Once(q, m) /\ (x = m => m \notin Range(q)) => Once(Append(q, x), m)
  <1>1. /\ Append(q, x) \in Seq(S) /\ Len(q) \in Nat
        /\ DOMAIN q = 1 .. Len(q) /\ DOMAIN Append(q, x) = 1 .. Len(q) + 1
        /\ Append(q, x)[Len(q) + 1] = x
        /\ \A i \in DOMAIN q : Append(q, x)[i] = q[i]
    OBVIOUS
  <1>2. \A i \in DOMAIN Append(q, x) : i = Len(q) + 1 \/ i \in DOMAIN q
    BY <1>1
  <1>3. DOMAIN q \subseteq DOMAIN Append(q, x) /\ Len(q) + 1 \in DOMAIN Append(q, x)
    BY <1>1
  <1>4. Range(Append(q, x)) = Range(q) \cup {x}
    BY <1>1, <1>2, <1>3 DEF Range
  <1>5. ASSUME NEW m, Once(q, m), x = m => m \notin Range(q)
        PROVE  Once(Append(q, x), m)
    BY <1>1, <1>2, <1>5 DEF Once, Range
  <1> QED  BY <1>1, <1>4, <1>5

(* A message at the front of a queue.                                      *)
LEMMA FrontFacts ==
  ASSUME NEW S, NEW q \in Seq(S), NEW x \in S
  PROVE  /\ <<x>> \o q \in Seq(S)
         /\ Range(<<x>> \o q) = Range(q) \cup {x}
         /\ \A m : Once(q, m) /\ (x = m => m \notin Range(q)) => Once(<<x>> \o q, m)
  <1> DEFINE r == <<x>> \o q
  <1>1. /\ r \in Seq(S) /\ Len(q) \in Nat /\ Len(r) = Len(q) + 1
        /\ r[1] = x /\ 1 \in DOMAIN r
        /\ \A i \in DOMAIN r : i = 1 \/ (i - 1 \in DOMAIN q /\ r[i] = q[i - 1])
        /\ \A i \in DOMAIN q : i + 1 \in DOMAIN r /\ r[i + 1] = q[i]
        /\ DOMAIN r \subseteq Int
    OBVIOUS
  <1> HIDE DEF r
  <1>2. Range(r) = Range(q) \cup {x}
    BY <1>1 DEF Range
  <1>3. ASSUME NEW m, Once(q, m), x = m => m \notin Range(q)
        PROVE  Once(r, m)
    <2> SUFFICES ASSUME NEW i \in DOMAIN r, NEW k \in DOMAIN r, r[i] = m, r[k] = m
                 PROVE  i = k
      BY DEF Once
    <2>1. CASE x = m
      BY <1>1, <1>3, <2>1 DEF Range
    <2>2. CASE x # m
      <3>1. i - 1 = k - 1
        BY <1>1, <1>3, <2>2 DEF Once
      <3>2. i \in Int /\ k \in Int
        BY <1>1
      <3> QED  BY <3>1, <3>2
    <2> QED  BY <2>1, <2>2
  <1> QED  BY <1>1, <1>2, <1>3 DEF r

(* The entries that are kept were there, once if they were there once.     *)
LEMMA KeptFacts ==
  ASSUME NEW S, NEW q \in Seq(S), NEW K \in SUBSET DOMAIN q
  PROVE  /\ Kept(q, K) \in Seq(S)
         /\ Range(Kept(q, K)) = {q[k] : k \in K}
         /\ \A m : Once(q, m) => Once(Kept(q, K), m)
  <1> DEFINE N == 1 .. Cardinality(K)
             p(n) == CHOOSE k \in K : Rank(K, k) = n
  <1>1. DOMAIN q = 1 .. Len(q) /\ Len(q) \in Nat /\ \A i \in DOMAIN q : q[i] \in S
    OBVIOUS
  <1>a. IsFiniteSet(DOMAIN q)
    BY <1>1, FS_Interval
  <1>2. K \subseteq Int /\ IsFiniteSet(K) /\ Cardinality(K) \in Nat
    BY <1>1, <1>a, FS_Subset, FS_CardinalityType
  <1>3. \A n \in N : p(n) \in K /\ Rank(K, p(n)) = n
    BY <1>2, RankAll
  <1>4. Kept(q, K) = [n \in N |-> q[p(n)]]
    BY DEF Kept
  <1> HIDE DEF p
  <1>5. \A k \in K : Rank(K, k) \in N /\ p(Rank(K, k)) = k
    BY <1>2, <1>3, RankGrows
  <1>6. Kept(q, K) \in Seq(S)
    BY <1>1, <1>2, <1>3, <1>4
  <1>7. DOMAIN Kept(q, K) = N /\ \A n \in N : Kept(q, K)[n] = q[p(n)]
    BY <1>4
  <1>8. Range(Kept(q, K)) = {q[k] : k \in K}
    BY <1>3, <1>5, <1>7 DEF Range
  <1>9. ASSUME NEW m, Once(q, m) PROVE Once(Kept(q, K), m)
    <2> SUFFICES ASSUME NEW i \in N, NEW k \in N, q[p(i)] = m, q[p(k)] = m
                 PROVE  i = k
      BY <1>7 DEF Once
    <2>1. p(i) = p(k)
      BY <1>3, <1>9 DEF Once
    <2> QED  BY <1>3, <2>1
  <1> QED  BY <1>6, <1>8, <1>9

(* Two queues, one after the other.                                        *)
LEMMA ConcatFacts ==
  ASSUME NEW S, NEW q \in Seq(S), NEW r \in Seq(S)
  PROVE  /\ q \o r \in Seq(S)
         /\ Range(q \o r) = Range(q) \cup Range(r)
         /\ \A m : Once(q, m) /\ m \notin Range(r) => Once(q \o r, m)
  <1>1. /\ q \o r \in Seq(S) /\ Len(q) \in Nat /\ Len(r) \in Nat
        /\ DOMAIN q = 1 .. Len(q) /\ DOMAIN r = 1 .. Len(r)
        /\ DOMAIN (q \o r) = 1 .. Len(q) + Len(r)
        /\ \A i \in DOMAIN q : (q \o r)[i] = q[i]
        /\ \A i \in DOMAIN r : (q \o r)[Len(q) + i] = r[i]
    OBVIOUS
  <1>2. \A i \in DOMAIN (q \o r) :
           \/ i \in DOMAIN q /\ (q \o r)[i] = q[i]
           \/ i - Len(q) \in DOMAIN r /\ (q \o r)[i] = r[i - Len(q)]
    BY <1>1
  <1>3. /\ DOMAIN q \subseteq DOMAIN (q \o r)
        /\ \A i \in DOMAIN r : Len(q) + i \in DOMAIN (q \o r)
    BY <1>1
  <1>4. Range(q \o r) = Range(q) \cup Range(r)
    BY <1>1, <1>2, <1>3 DEF Range
  <1>5. \A m : Once(q, m) /\ m \notin Range(r) => Once(q \o r, m)
    BY <1>2 DEF Once, Range
  <1> QED  BY <1>1, <1>4, <1>5

(***************************************************************************)
(* What the queues, the tasks and the fields hold.                         *)
(***************************************************************************)
Intents  == [what : {"bind", "unbind", "register", "unregister", "cancelAll"}]
              \cup [what : {"print", "cancel"}, job : Jobs]
Words    == [what : {"printError", "cancelled"}, job : Jobs]
Answers  == [what : {"result"}, reply : Words \cup {NoReply}]
SvcMsgs  == Intents \cup Answers
Inner    == [what : {"init", "exit", "taskComplete"}]
JobMsgs  == Intents \cup Inner \cup Status
Reports  == [what : {"news"}, job : Jobs, now : JobStates \cup {NoStatus}]
BoxMsgs  == Words \cup Reports
StartTasks  == [what : {"print"}, job : Jobs,
                pc : {"start", "pages", "add", "abort", "end"}]
CancelTasks == [what : {"cancel"}, job : Jobs, pc : {"find", "cancel"}]
AllTasks    == [what : {"cancelAll"}, pc : {"all"}]
Scanned     == Status \cup {Plain("taskComplete")}

Types ==
  /\ svcQ \in Seq(SvcMsgs)
  /\ jobQ \in Seq(JobMsgs)
  /\ inbox \in Seq(BoxMsgs)
  /\ \/ scan = Idle
     \/ scan \in [at : 1 .. Len(pending) + 1, msg : Scanned, found : SUBSET DOMAIN pending]
  /\ tasks \subseteq StartTasks \cup CancelTasks \cup AllTasks
  /\ jobList \in Seq(Jobs)
  /\ pending \in Seq(Status)
  /\ canceled \in [Jobs -> BOOLEAN]
  /\ jobStatus \in [Jobs -> JobStates \cup {NoStatus}]
  /\ registered \in BOOLEAN /\ isBound \in BOOLEAN /\ quitPosted \in BOOLEAN
  /\ life \in Lives
  /\ native \in [Jobs -> NativeJob]
  /\ crash \in {"no", "adapter", "service"}
  /\ fw \in [Jobs -> Active \cup Over \cup {"none"}]
  /\ holder \in [Jobs -> Holder]
  /\ toSend \subseteq Jobs /\ toCancel \subseteq Jobs
  /\ adapter \in {"created", "binding", "connected", "destroyed"}
  /\ extras \in 0 .. MaxExtras
  /\ died \in BOOLEAN

(* The messages the actions send.                                          *)
LEMMA SentMessages ==
  /\ \A w \in {"bind", "unbind", "register", "unregister", "cancelAll"} :
       Plain(w) \in SvcMsgs /\ Plain(w) \in JobMsgs
  /\ \A w \in {"init", "exit", "taskComplete"} : Plain(w) \in JobMsgs
  /\ \A w \in {"print", "cancel"}, j \in Jobs :
       Request(w, j) \in SvcMsgs /\ Request(w, j) \in JobMsgs
  /\ \A w \in {"printError", "cancelled"}, j \in Jobs :
       /\ Request(w, j) \in Words /\ Request(w, j) \in BoxMsgs
       /\ [what |-> "result", reply |-> Request(w, j)] \in SvcMsgs
  /\ [what |-> "result", reply |-> NoReply] \in SvcMsgs
  /\ \A j \in Jobs, n \in JobStates \cup {NoStatus} : News(j, n) \in BoxMsgs
  /\ \A j \in Jobs, n \in JobStates : StatusMsg(j, n) \in Status
  /\ \A j \in Jobs : PageMsg(j) \in Status
  /\ \A j \in Jobs, r \in Results : DoneMsg(j, r) \in Status
  /\ Status \subseteq JobMsgs
  BY DEF Plain, Request, SvcMsgs, JobMsgs, Intents, Inner, Words, Answers, BoxMsgs, Reports,
         NoReply, News, StatusMsg, PageMsg, DoneMsg, Status, JobStates, Results, NoStatus

(* What a message is, by its kind.                                         *)
LEMMA SvcKinds ==
  ASSUME NEW m \in SvcMsgs
  PROVE  /\ m.what # "result" => m \in Intents /\ m \in JobMsgs
         /\ m.what = "result" => m.reply \in Words \cup {NoReply}
                                 /\ m = [what |-> "result", reply |-> m.reply]
         /\ m.what = "print" => m.job \in Jobs /\ m = Request("print", m.job)
  BY DEF SvcMsgs, Intents, Answers, JobMsgs, Request

LEMMA JobKinds ==
  ASSUME NEW m \in JobMsgs
  PROVE  /\ m.what \in {"print", "cancel"} => m.job \in Jobs /\ m = Request(m.what, m.job)
         /\ m.what = "status" => m \in Status
         /\ m.what = "taskComplete" => m = Plain("taskComplete")
         /\ m.what = "exit" => m = Plain("exit")
         /\ m.what \in {"register", "unregister"} => m = Plain(m.what)
  BY DEF JobMsgs, Intents, Inner, Status, Request, Plain

LEMMA BoxKinds ==
  ASSUME NEW m \in BoxMsgs
  PROVE  /\ m.job \in Jobs
         /\ m.what # "news" => m.what \in {"printError", "cancelled"}
         /\ m.what = "news" => m.now \in JobStates \cup {NoStatus}
  BY DEF BoxMsgs, Words, Reports

LEMMA StatusKinds ==
  ASSUME NEW m \in Status
  PROVE  /\ m.what = "status" /\ m.job \in Jobs /\ m.page \in BOOLEAN
         /\ m.page = FALSE => m.now \in JobStates
         /\ m.page = TRUE => m.now = NoStatus
  BY DEF Status

(***************************************************************************)
(* Types.                                                                  *)
(***************************************************************************)
LEMMA TypesInit == Init => Types
  <1> SUFFICES ASSUME Init PROVE Types
    OBVIOUS
  <1>1. NoStatus \in JobStates \cup {NoStatus} /\ NoNative \in NativeJob /\ NoHolder \in Holder
    BY DEF NoNative, NativeJob, NoHolder, Holder
  <1>2. /\ canceled \in [Jobs -> BOOLEAN]
        /\ jobStatus \in [Jobs -> JobStates \cup {NoStatus}]
        /\ native \in [Jobs -> NativeJob]
        /\ holder \in [Jobs -> Holder]
        /\ fw \in [Jobs -> Active \cup Over \cup {"none"}]
    BY <1>1 DEF Init, ServiceInit
  <1>3. life \in Lives
    BY DEF Init, ServiceInit, Lives
  <1>4. /\ svcQ \in Seq(SvcMsgs) /\ jobQ \in Seq(JobMsgs) /\ inbox \in Seq(BoxMsgs)
        /\ jobList \in Seq(Jobs) /\ pending \in Seq(Status)
    BY DEF Init, ServiceInit
  <1>5. /\ scan = Idle /\ tasks \subseteq StartTasks \cup CancelTasks \cup AllTasks
        /\ registered \in BOOLEAN /\ isBound \in BOOLEAN /\ quitPosted \in BOOLEAN
        /\ toSend \subseteq Jobs /\ toCancel \subseteq Jobs /\ died \in BOOLEAN
    BY DEF Init, ServiceInit
  <1>6. /\ crash \in {"no", "adapter", "service"}
        /\ adapter \in {"created", "binding", "connected", "destroyed"}
        /\ extras \in 0 .. MaxExtras
    BY ServiceAssumption DEF Init, ServiceInit
  <1> QED  BY <1>2, <1>3, <1>4, <1>5, <1>6 DEF Types

(* What the library and the adapter make of their entries of a job.        *)
LEMMA EntryTypes ==
  /\ \A n \in NativeJob :
       /\ \A p \in {"queued", "served"} : [n EXCEPT !.phase = p] \in NativeJob
       /\ [n EXCEPT !.begun = TRUE] \in NativeJob
       /\ [n EXCEPT !.full = TRUE] \in NativeJob
       /\ \A r \in Results : [n EXCEPT !.phase = "over", !.result = r] \in NativeJob
       /\ CancelNative(n) \in NativeJob
       /\ EndJob(n) \in NativeJob
       /\ [EndJob(n) EXCEPT !.kept = FALSE] \in NativeJob
  /\ \A h \in Holder :
       /\ [h EXCEPT !.user = TRUE] \in Holder
       /\ [h EXCEPT !.kept = FALSE, !.file = FALSE] \in Holder
       /\ [h EXCEPT !.file = FALSE] \in Holder
  /\ \A s \in Active \cup Over \cup {"none"} :
       /\ FwStart(s) \in Active \cup Over \cup {"none"}
       /\ FwBlock(s) \in Active \cup Over \cup {"none"}
       /\ FwComplete(s) \in Active \cup Over \cup {"none"}
       /\ FwFail(s) \in Active \cup Over \cup {"none"}
       /\ FwCancel(s) \in Active \cup Over \cup {"none"}
  <1>1. \A n \in NativeJob :
          /\ \A p \in {"queued", "served"} : [n EXCEPT !.phase = p] \in NativeJob
          /\ [n EXCEPT !.begun = TRUE] \in NativeJob
          /\ [n EXCEPT !.full = TRUE] \in NativeJob
          /\ \A r \in Results : [n EXCEPT !.phase = "over", !.result = r] \in NativeJob
    BY DEF NativeJob
  <1>2. ASSUME NEW n \in NativeJob
        PROVE  CancelNative(n) \in NativeJob
    <2>1. CASE n.phase = "queued"
      BY <2>1 DEF NativeJob, CancelNative, Results
    <2>2. CASE n.phase = "served"
      BY <2>2 DEF NativeJob, CancelNative
    <2>3. CASE n.phase \notin {"queued", "served"}
      BY <2>3 DEF CancelNative
    <2> QED  BY <2>1, <2>2, <2>3
  <1>3. \A n \in NativeJob : EndJob(n) \in NativeJob
    BY DEF NativeJob, EndJob
  <1>4. \A n \in NativeJob : [n EXCEPT !.kept = FALSE] \in NativeJob
    BY DEF NativeJob
  <1>5. \A h \in Holder :
          /\ [h EXCEPT !.user = TRUE] \in Holder
          /\ [h EXCEPT !.kept = FALSE, !.file = FALSE] \in Holder
          /\ [h EXCEPT !.file = FALSE] \in Holder
    BY DEF Holder
  <1>6. \A s \in Active \cup Over \cup {"none"} :
          /\ FwStart(s) \in Active \cup Over \cup {"none"}
          /\ FwBlock(s) \in Active \cup Over \cup {"none"}
          /\ FwComplete(s) \in Active \cup Over \cup {"none"}
          /\ FwFail(s) \in Active \cup Over \cup {"none"}
          /\ FwCancel(s) \in Active \cup Over \cup {"none"}
    BY DEF FwStart, FwBlock, FwComplete, FwFail, FwCancel, Active, Over
  <1> QED  BY <1>1, <1>2, <1>3, <1>4, <1>5, <1>6

(* A message to the service.                                               *)
LEMMA SendTypes ==
  ASSUME Types, NEW m \in SvcMsgs, Send(m)
  PROVE  /\ svcQ' \in Seq(SvcMsgs)
         /\ Range(svcQ') \subseteq Range(svcQ) \cup {m}
         /\ \A x : Once(svcQ, x) /\ (m = x => m \notin Range(svcQ)) => Once(svcQ', x)
         /\ crash = "no" => svcQ' = Append(svcQ, m) /\ Range(svcQ') = Range(svcQ) \cup {m}
  BY AppendFacts DEF Types, Send

(* The queue of the main thread when a message about a binding comes.      *)
LEMMA BindQueue ==
  ASSUME Types, NEW b \in {"bind", "unbind"}
  PROVE  LET q == <<Plain(b)>> \o WithoutBinds(svcQ) IN
         /\ q \in Seq(SvcMsgs)
         /\ Range(q) \subseteq Range(svcQ) \cup {Plain(b)}
         /\ \A m \in Range(svcQ) : ~IsBinding(m) => m \in Range(q)
         /\ \A m : Once(svcQ, m) /\ m # Plain(b) => Once(q, m)
  <1> DEFINE K == {i \in DOMAIN svcQ : ~IsBinding(svcQ[i])}
             w == WithoutBinds(svcQ)
  <1>1. svcQ \in Seq(SvcMsgs) /\ K \in SUBSET DOMAIN svcQ /\ Plain(b) \in SvcMsgs
    BY SentMessages DEF Types
  <1>2. /\ w \in Seq(SvcMsgs) /\ Range(w) = {svcQ[k] : k \in K}
        /\ \A m : Once(svcQ, m) => Once(w, m)
    <2> HIDE DEF K
    <2>1. w = Kept(svcQ, K)
      BY DEF WithoutBinds, K
    <2> HIDE DEF w
    <2> QED  BY <1>1, <2>1, KeptFacts
  <1>3. Range(w) \subseteq Range(svcQ) /\ \A m \in Range(svcQ) : ~IsBinding(m) => m \in Range(w)
    BY <1>2 DEF Range
  <1> HIDE DEF w
  <1>4. /\ <<Plain(b)>> \o w \in Seq(SvcMsgs)
        /\ Range(<<Plain(b)>> \o w) = Range(w) \cup {Plain(b)}
        /\ \A m : Once(w, m) /\ (Plain(b) = m => m \notin Range(w)) => Once(<<Plain(b)>> \o w, m)
    BY <1>1, <1>2, FrontFacts
  <1> QED  BY <1>2, <1>3, <1>4 DEF w

(***************************************************************************)
(* The steps, one by one.                                                  *)
(***************************************************************************)
LEMMA TypesSvc == ASSUME Types, SvcStep, UNCHANGED avars PROVE Types'
  <1>0. svcQ \in Seq(SvcMsgs) /\ jobQ \in Seq(JobMsgs) /\ inbox \in Seq(BoxMsgs)
    BY DEF Types
  <1>1. svcQ # << >> /\ svcQ' = Tail(svcQ) /\ Head(svcQ) \in SvcMsgs /\ svcQ' \in Seq(SvcMsgs)
    <2>1. svcQ # << >> /\ svcQ' = Tail(svcQ)
      BY DEF SvcStep, SvcIntent, SvcResult
    <2> QED  BY <1>0, <2>1, TailFacts
  <1>2. CASE SvcIntent
    <2>1. Head(svcQ) \in JobMsgs
      BY <1>1, <1>2, SvcKinds DEF SvcIntent
    <2>2. jobQ' \in Seq(JobMsgs)
      <3>1. \/ jobQ' = jobQ \/ jobQ' = <<Head(svcQ)>> \o jobQ \/ jobQ' = Append(jobQ, Head(svcQ))
        BY <1>2 DEF SvcIntent
      <3>2. Append(jobQ, Head(svcQ)) \in Seq(JobMsgs) /\ <<Head(svcQ)>> \o jobQ \in Seq(JobMsgs)
        BY <1>0, <2>1, AppendFacts, FrontFacts
      <3> QED  BY <1>0, <3>1, <3>2
    <2>3. crash' \in {"no", "adapter", "service"} /\ quitPosted' \in BOOLEAN
      BY <1>2 DEF SvcIntent, Types
    <2> QED  BY <1>1, <1>2, <2>2, <2>3 DEF SvcIntent, Types, jobVars, avars
  <1>3. CASE SvcResult
    <2>1. jobQ' \in Seq(JobMsgs)
      BY <1>3, AppendFacts, SentMessages DEF SvcResult, Types
    <2>2. Head(svcQ).reply \in BoxMsgs \cup {NoReply}
      BY <1>1, <1>3, SvcKinds DEF SvcResult, BoxMsgs
    <2>3. inbox' \in Seq(BoxMsgs)
      BY <1>3, <2>2, AppendFacts DEF SvcResult, Types
    <2> QED  BY <1>1, <1>3, <2>1, <2>3 DEF SvcResult, Types, jobVars, avars
  <1> QED  BY <1>2, <1>3 DEF SvcStep

(* The head of the JobHandler's queue.                                     *)
LEMMA JobHead ==
  ASSUME Types, NEW w, JobMsg(w)
  PROVE  /\ Running /\ scan = Idle /\ jobQ # << >> /\ jobQ' = Tail(jobQ)
         /\ Head(jobQ) \in JobMsgs /\ Head(jobQ) \in Range(jobQ) /\ Head(jobQ).what = w
         /\ jobQ' \in Seq(JobMsgs) /\ Range(jobQ') \subseteq Range(jobQ)
         /\ \A m : Once(jobQ, m) => Once(jobQ', m)
         /\ \A m : Once(jobQ, m) /\ Head(jobQ) = m => m \notin Range(jobQ')
         /\ \A m \in Range(jobQ) : m = Head(jobQ) \/ m \in Range(jobQ')
  BY TailFacts DEF JobMsg, Types

(* The messages of the JobHandler that are no status.                      *)
LEMMA TypesJobPlain ==
  ASSUME Types, UNCHANGED avars,
         \/ JobInit
         \/ \E w \in {"print", "cancel", "cancelAll"} : JobExecute(w)
         \/ \E w \in {"register", "unregister"} : JobRegister(w)
         \/ JobBind \/ JobExit
  PROVE  Types'
  <1>1. CASE JobInit
    <2>1. jobQ' \in Seq(JobMsgs) /\ quitPosted' \in BOOLEAN
      BY <1>1, JobHead DEF JobInit, NothingToDo
    <2> QED  BY <1>1, <2>1 DEF JobInit, Types, jobVars, avars
  <1>2. ASSUME NEW w \in {"print", "cancel", "cancelAll"}, JobExecute(w)
        PROVE  Types'
    <2>1. jobQ' \in Seq(JobMsgs) /\ quitPosted' \in BOOLEAN
      BY <1>2, JobHead DEF JobExecute, NothingToDo
    <2>2. Head(jobQ) \in JobMsgs /\ Head(jobQ).what = w
      BY <1>2, JobHead DEF JobExecute
    <2>3. tasks' \subseteq StartTasks \cup CancelTasks \cup AllTasks
      <3>1. CASE w \in {"print", "cancel"}
        <4>1. Head(jobQ).job \in Jobs
          BY <2>2, <3>1, JobKinds
        <4> QED  BY <1>2, <3>1, <4>1 DEF JobExecute, Types, StartTasks, CancelTasks, Task, FirstPc
      <3>2. CASE w = "cancelAll"
        BY <1>2, <3>2 DEF JobExecute, Types, AllTasks, FirstPc
      <3> QED  BY <3>1, <3>2
    <2> QED  BY <1>2, <2>1, <2>3 DEF JobExecute, Types, jobVars, avars
  <1>3. ASSUME NEW w \in {"register", "unregister"}, JobRegister(w)
        PROVE  Types'
    <2>1. jobQ' \in Seq(JobMsgs) /\ quitPosted' \in BOOLEAN /\ registered' \in BOOLEAN
      BY <1>3, JobHead DEF JobRegister, NothingToDo
    <2> QED  BY <1>3, <2>1 DEF JobRegister, Types, jobVars, avars
  <1>4. CASE JobBind
    <2>1. jobQ' \in Seq(JobMsgs) /\ quitPosted' \in BOOLEAN /\ isBound' \in BOOLEAN
      BY <1>4, JobHead DEF JobBind, NothingToDo
    <2> QED  BY <1>4, <2>1 DEF JobBind, Types, jobVars, avars
  <1>5. CASE JobExit
    <2>1. jobQ' \in Seq(JobMsgs)
      <3>1. jobQ' = << >>
        BY <1>5 DEF JobExit
      <3> QED  BY <3>1
    <2>2. life' \in Lives
      BY <1>5 DEF JobExit, Types, Lives
    <2> QED  BY <1>5, <2>1, <2>2 DEF JobExit, Types, jobVars, avars
  <1> QED  BY <1>1, <1>2, <1>3, <1>4, <1>5

(* A status of a job.                                                      *)
LEMMA TypesProcess ==
  ASSUME Types, NEW s \in Status, Process(s)
  PROVE  /\ jobStatus' \in [Jobs -> JobStates \cup {NoStatus}]
         /\ native' \in [Jobs -> NativeJob]
         /\ jobList' \in Seq(Jobs)
         /\ inbox' \in Seq(BoxMsgs)
  <1> DEFINE now == IF s.page THEN jobStatus[s.job] ELSE s.now
  <1>1. s.job \in Jobs /\ now \in JobStates \cup {NoStatus}
    BY StatusKinds DEF Types
  <1>2. jobStatus' = [jobStatus EXCEPT ![s.job] = now]
    BY DEF Process
  <1>3. inbox' = inbox \/ inbox' = Append(inbox, News(s.job, now))
    BY DEF Process
  <1> HIDE DEF now
  <1>4. jobStatus' \in [Jobs -> JobStates \cup {NoStatus}]
    BY <1>1, <1>2 DEF Types
  <1>5. inbox' \in Seq(BoxMsgs)
    <2>1. News(s.job, now) \in BoxMsgs /\ inbox \in Seq(BoxMsgs)
      BY <1>1, SentMessages DEF Types
    <2> QED  BY <1>3, <2>1, AppendFacts
  <1>6. native' \in [Jobs -> NativeJob]
    <2>1. native' = native \/ native' = [native EXCEPT ![s.job] = EndJob(@)]
      BY DEF Process
    <2>2. native \in [Jobs -> NativeJob] /\ EndJob(native[s.job]) \in NativeJob
      BY <1>1, EntryTypes DEF Types
    <2> QED  BY <1>1, <2>1, <2>2
  <1>7. jobList' \in Seq(Jobs)
    <2>1. jobList \in Seq(Jobs) /\ {i \in DOMAIN jobList : jobList[i] # s.job} \in SUBSET DOMAIN jobList
      BY DEF Types
    <2>2. Without(jobList, s.job) \in Seq(Jobs)
      BY <2>1, KeptFacts DEF Without
    <2> QED  BY <2>1, <2>2 DEF Process
  <1> QED  BY <1>4, <1>5, <1>6, <1>7

(* A status or the end of a task.                                          *)
LEMMA TypesConclude ==
  ASSUME Types, NEW m \in Scanned, NEW left \in Seq(Status), Conclude(m, left)
  PROVE  /\ jobStatus' \in [Jobs -> JobStates \cup {NoStatus}]
         /\ native' \in [Jobs -> NativeJob]
         /\ jobList' \in Seq(Jobs)
         /\ inbox' \in Seq(BoxMsgs)
         /\ pending' \in Seq(Status)
         /\ scan' = Idle /\ quitPosted' \in BOOLEAN
  <1>1. scan' = Idle /\ quitPosted' \in BOOLEAN
    BY DEF Conclude, NothingToDo
  <1>2. m.what = "status" => m \in Status
    BY DEF Scanned, Plain
  <1>3. CASE m.what = "status" /\ InList(m.job)
    <2>1. Process(m) /\ pending' = left
      BY <1>3 DEF Conclude
    <2> QED  BY <1>1, <1>2, <1>3, <2>1, TypesProcess
  <1>4. CASE ~(m.what = "status" /\ InList(m.job))
    <2>1. Ignore /\ pending' = IF m.what = "status" THEN Append(left, m) ELSE left
      BY <1>4 DEF Conclude
    <2>2. pending' \in Seq(Status)
      BY <1>2, <2>1, AppendFacts
    <2> QED  BY <1>1, <2>1, <2>2 DEF Ignore, Types
  <1> QED  BY <1>3, <1>4

LEMMA TypesJobStatus ==
  ASSUME Types, UNCHANGED avars, NEW w \in {"status", "taskComplete"}, JobStatusMsg(w)
  PROVE  Types'
  <1>1. /\ scan = Idle /\ jobQ' \in Seq(JobMsgs) /\ Head(jobQ) \in JobMsgs
        /\ Head(jobQ).what = w
    BY JobHead DEF JobStatusMsg
  <1>2. Head(jobQ) \in Scanned
    BY <1>1, JobKinds DEF Scanned
  <1>3. UNCHANGED <<svcQ, tasks, canceled, registered, isBound, life, crash, extras>>
    BY DEF JobStatusMsg
  <1>4. CASE pending = << >>
    <2>1. Conclude(Head(jobQ), << >>) /\ << >> \in Seq(Status)
      BY <1>4 DEF JobStatusMsg
    <2>2. /\ jobStatus' \in [Jobs -> JobStates \cup {NoStatus}]
          /\ native' \in [Jobs -> NativeJob]
          /\ jobList' \in Seq(Jobs)
          /\ inbox' \in Seq(BoxMsgs)
          /\ pending' \in Seq(Status)
          /\ scan' = Idle /\ quitPosted' \in BOOLEAN
      BY <1>2, <2>1, TypesConclude
    <2> QED  BY <1>1, <1>3, <2>2 DEF Types, avars
  <1>5. CASE pending # << >>
    <2>1. /\ scan' = [at |-> 1, msg |-> Head(jobQ), found |-> {}] /\ quitPosted' = FALSE
          /\ Ignore /\ UNCHANGED pending
      BY <1>5 DEF JobStatusMsg
    <2>2. scan' \in [at : 1 .. Len(pending) + 1, msg : Scanned, found : SUBSET DOMAIN pending]
      <3>1. Len(pending) \in Nat
        BY DEF Types
      <3> QED  BY <1>2, <2>1, <3>1
    <2> QED  BY <1>1, <1>3, <2>1, <2>2 DEF Types, avars, Ignore
  <1> QED  BY <1>4, <1>5

(* The scan has a place, unless it is over.                                *)
LEMMA ScanIs ==
  ASSUME Types, scan # Idle
  PROVE  /\ scan \in [at : 1 .. Len(pending) + 1, msg : Scanned, found : SUBSET DOMAIN pending]
         /\ Len(pending) \in Nat /\ DOMAIN pending = 1 .. Len(pending)
         /\ pending \in Seq(Status) /\ scan.msg \in Scanned
         /\ scan.at \in DOMAIN pending => pending[scan.at] \in Status
                                          /\ pending[scan.at] \in Range(pending)
  BY DEF Types, Range

LEMMA TypesScan == ASSUME Types, UNCHANGED avars, JobScan PROVE Types'
  <1>1. /\ scan # Idle /\ scan.at \in DOMAIN pending
        /\ UNCHANGED <<svcQ, jobQ, tasks, canceled, pending, registered, isBound, quitPosted,
                       life, crash, extras>>
    BY DEF JobScan
  <1>2. pending[scan.at] \in Status
    BY <1>1, ScanIs
  <1>3. scan' \in [at : 1 .. Len(pending) + 1, msg : Scanned, found : SUBSET DOMAIN pending]
    <2>1. \/ scan' = [scan EXCEPT !.at = @ + 1, !.found = @ \cup {scan.at}]
          \/ scan' = [scan EXCEPT !.at = @ + 1]
      BY DEF JobScan
    <2>2. /\ scan \in [at : 1 .. Len(pending) + 1, msg : Scanned, found : SUBSET DOMAIN pending]
          /\ Len(pending) \in Nat /\ scan.at \in 1 .. Len(pending)
      BY <1>1, ScanIs
    <2>3. scan.at + 1 \in 1 .. Len(pending) + 1
      BY <2>2
    <2> QED  BY <1>1, <2>1, <2>2, <2>3
  <1>4. /\ jobStatus' \in [Jobs -> JobStates \cup {NoStatus}]
        /\ native' \in [Jobs -> NativeJob]
        /\ jobList' \in Seq(Jobs)
        /\ inbox' \in Seq(BoxMsgs)
    <2>1. CASE InList(pending[scan.at].job)
      <3>1. Process(pending[scan.at])
        BY <2>1 DEF JobScan
      <3> QED  BY <1>2, <3>1, TypesProcess
    <2>2. CASE ~InList(pending[scan.at].job)
      BY <2>2 DEF JobScan, Ignore, Types
    <2> QED  BY <2>1, <2>2
  <1> QED  BY <1>1, <1>3, <1>4 DEF Types, avars

LEMMA StillPendingIs ==
  ASSUME Types
  PROVE  StillPending \in Seq(Status) /\ Range(StillPending) \subseteq Range(pending)
  <1> DEFINE K == {n \in DOMAIN pending : n \notin scan.found}
  <1>1. K \in SUBSET DOMAIN pending /\ pending \in Seq(Status) /\ StillPending = Kept(pending, K)
    BY DEF Types, StillPending
  <1> HIDE DEF K
  <1>2. StillPending \in Seq(Status) /\ Range(StillPending) = {pending[k] : k \in K}
    BY <1>1, KeptFacts
  <1> QED  BY <1>1, <1>2 DEF Range

LEMMA TypesStatusEnd == ASSUME Types, UNCHANGED avars, JobStatusEnd PROVE Types'
  <1>1. /\ scan # Idle /\ Conclude(scan.msg, StillPending)
        /\ UNCHANGED <<svcQ, jobQ, tasks, canceled, registered, isBound, life, crash, extras>>
    BY DEF JobStatusEnd
  <1>2. scan.msg \in Scanned /\ StillPending \in Seq(Status)
    BY <1>1, ScanIs, StillPendingIs
  <1>3. /\ jobStatus' \in [Jobs -> JobStates \cup {NoStatus}]
        /\ native' \in [Jobs -> NativeJob]
        /\ jobList' \in Seq(Jobs)
        /\ inbox' \in Seq(BoxMsgs)
        /\ pending' \in Seq(Status)
        /\ scan' = Idle /\ quitPosted' \in BOOLEAN
    <2> HIDE DEF StillPending
    <2> QED  BY <1>1, <1>2, TypesConclude
  <1> QED  BY <1>1, <1>3 DEF Types, avars

(* A task, by its program counter.                                         *)
LEMMA TaskKinds ==
  ASSUME Types, NEW t \in tasks
  PROVE  /\ t \in StartTasks \cup CancelTasks \cup AllTasks
         /\ t.pc \in {"start", "pages", "add", "abort", "end"} => t \in StartTasks
         /\ t.pc \in {"find", "cancel"} => t \in CancelTasks
         /\ t.pc = "all" => t \in AllTasks
         /\ t \in StartTasks \cup CancelTasks => t.job \in Jobs
         /\ t \in StartTasks => \A pc \in {"start", "pages", "add", "abort", "end"} :
                                  [t EXCEPT !.pc = pc] \in StartTasks
         /\ t \in CancelTasks => [t EXCEPT !.pc = "cancel"] \in CancelTasks
  <1>1. t \in StartTasks \cup CancelTasks \cup AllTasks
    BY DEF Types
  <1> QED  BY <1>1 DEF StartTasks, CancelTasks, AllTasks

(* What a task answers.                                                    *)
LEMMA ReturnTypes ==
  ASSUME Types, NEW t \in tasks, NEW r \in Words \cup {NoReply}, Return(t, r)
  PROVE  /\ tasks' \subseteq StartTasks \cup CancelTasks \cup AllTasks
         /\ svcQ' \in Seq(SvcMsgs)
         /\ Range(svcQ') = Range(svcQ) \cup {[what |-> "result", reply |-> r]}
         /\ \A j \in Jobs : Once(svcQ, Request("print", j)) => Once(svcQ', Request("print", j))
         /\ \A m : m.what # "result" => (Once(svcQ, m) => Once(svcQ', m))
  <1>1. svcQ \in Seq(SvcMsgs) /\ [what |-> "result", reply |-> r] \in SvcMsgs
    BY DEF Types, SvcMsgs, Answers
  <1>2. svcQ' = Append(svcQ, [what |-> "result", reply |-> r])
    BY DEF Return
  <1>3. /\ svcQ' \in Seq(SvcMsgs)
        /\ Range(svcQ') = Range(svcQ) \cup {[what |-> "result", reply |-> r]}
        /\ \A m : Once(svcQ, m) /\ m # [what |-> "result", reply |-> r] => Once(svcQ', m)
    BY <1>1, <1>2, AppendFacts
  <1>4. \A m : m.what # "result" => m # [what |-> "result", reply |-> r]
    OBVIOUS
  <1>5. \A j \in Jobs : Request("print", j) # [what |-> "result", reply |-> r]
    BY DEF Request
  <1> QED  BY <1>3, <1>4, <1>5 DEF Return, Types

(* What a job is told when it is cancelled before it was served.           *)
LEMMA TellTypes ==
  ASSUME Types, NEW j \in Jobs,
         jobQ' = IF TellsCancelled(j) THEN Append(jobQ, DoneMsg(j, "CANCELLED")) ELSE jobQ
  PROVE  /\ jobQ' \in Seq(JobMsgs)
         /\ Range(jobQ') \subseteq Range(jobQ) \cup {DoneMsg(j, "CANCELLED")}
         /\ TellsCancelled(j) \/ Range(jobQ') = Range(jobQ)
         /\ \A m : m.what # "status" => (Once(jobQ, m) => Once(jobQ', m))
  <1>1. DoneMsg(j, "CANCELLED") \in JobMsgs /\ jobQ \in Seq(JobMsgs)
    BY SentMessages DEF Types, Results
  <1>2. \A m : m.what # "status" => m # DoneMsg(j, "CANCELLED")
    BY DEF DoneMsg, StatusMsg
  <1> HIDE DEF DoneMsg
  <1>3. /\ Append(jobQ, DoneMsg(j, "CANCELLED")) \in Seq(JobMsgs)
        /\ Range(Append(jobQ, DoneMsg(j, "CANCELLED")))
             = Range(jobQ) \cup {DoneMsg(j, "CANCELLED")}
        /\ \A m : Once(jobQ, m) /\ m # DoneMsg(j, "CANCELLED")
                  => Once(Append(jobQ, DoneMsg(j, "CANCELLED")), m)
    BY <1>1, AppendFacts
  <1> QED  BY <1>1, <1>2, <1>3

(* The jobs that are cancelled all at once are jobs of the list.           *)
LEMMA CancelAllIs ==
  ASSUME Types, NEW t \in tasks, CancelAll(t), life.gone = "no"
  PROVE  \E toc \in Seq(Jobs), told \in Seq(Jobs) :
           /\ Range(toc) \subseteq Range(jobList)
           /\ Range(told) \subseteq Range(toc)
           /\ \A j \in Range(told) : TellsCancelled(j)
           /\ native' = [j \in Jobs |-> IF j \in Range(toc) THEN CancelNative(native[j])
                                        ELSE native[j]]
           /\ jobQ' = jobQ \o [n \in DOMAIN told |-> DoneMsg(told[n], "CANCELLED")]
           /\ canceled' = [j \in Jobs |-> canceled[j] \/ j \in Range(toc)]
           /\ Return(t, NoReply) /\ UNCHANGED crash
  <1> DEFINE back == Reverse(jobList)
             U    == {n \in DOMAIN back : ~canceled[back[n]]}
             toc  == Kept(back, U)
             V    == {n \in DOMAIN toc : TellsCancelled(toc[n])}
             told == Kept(toc, V)
  <1>1. /\ native' = [j \in Jobs |-> IF Contains(toc, j) THEN CancelNative(native[j])
                                     ELSE native[j]]
        /\ jobQ' = jobQ \o [n \in DOMAIN told |-> DoneMsg(told[n], "CANCELLED")]
        /\ canceled' = [j \in Jobs |-> canceled[j] \/ Contains(toc, j)]
        /\ Return(t, NoReply) /\ UNCHANGED crash
    BY DEF CancelAll
  <1>2. jobList \in Seq(Jobs) /\ back \in Seq(Jobs) /\ Range(back) \subseteq Range(jobList)
    <2>1. jobList \in Seq(Jobs) /\ Len(jobList) \in Nat /\ DOMAIN jobList = 1 .. Len(jobList)
      BY DEF Types
    <2>2. \A i \in 1 .. Len(jobList) : Len(jobList) - i + 1 \in DOMAIN jobList
      BY <2>1
    <2>3. \A i \in 1 .. Len(jobList) : jobList[Len(jobList) - i + 1] \in Jobs
      BY <2>1, <2>2
    <2> QED  BY <2>1, <2>2, <2>3 DEF Reverse, Range
  <1> HIDE DEF back
  <1>3. toc \in Seq(Jobs) /\ Range(toc) \subseteq Range(back)
    <2>1. U \in SUBSET DOMAIN back
      OBVIOUS
    <2> HIDE DEF U
    <2>2. toc \in Seq(Jobs) /\ Range(toc) = {back[k] : k \in U}
      BY <1>2, <2>1, KeptFacts
    <2> QED  BY <2>1, <2>2 DEF Range
  <1> HIDE DEF toc, U
  <1>4. told \in Seq(Jobs) /\ Range(told) \subseteq Range(toc)
        /\ \A j \in Range(told) : TellsCancelled(j)
    <2>1. V \in SUBSET DOMAIN toc /\ \A k \in V : TellsCancelled(toc[k])
      OBVIOUS
    <2> HIDE DEF V
    <2>2. told \in Seq(Jobs) /\ Range(told) = {toc[k] : k \in V}
      BY <1>3, <2>1, KeptFacts
    <2> HIDE DEF told
    <2> QED  BY <2>1, <2>2 DEF Range
  <1> HIDE DEF told, V
  <1>5. \A j : Contains(toc, j) <=> j \in Range(toc)
    <2>1. DOMAIN toc = 1 .. Len(toc)
      BY <1>3
    <2> QED  BY <2>1 DEF Contains, Range
  <1> QED  BY <1>1, <1>2, <1>3, <1>4, <1>5

LEMMA TypesStartTasks ==
  ASSUME Types, UNCHANGED avars, NEW t \in tasks,
         \/ StartRefused(t) \/ StartNative(t) \/ StartPages(t)
         \/ StartAborted(t) \/ StartForgotten(t) \/ StartAdd(t)
  PROVE  Types'
  <1>1. t.pc \in {"start", "pages", "add", "abort", "end"}
    BY DEF StartRefused, StartNative, StartPages, StartAborted, StartForgotten, StartAdd, TaskAt
  <1>2. /\ t \in StartTasks /\ t.job \in Jobs
        /\ \A pc \in {"start", "pages", "add", "abort", "end"} : [t EXCEPT !.pc = pc] \in StartTasks
    BY <1>1, TaskKinds
  <1>3. /\ Request("printError", t.job) \in Words
        /\ native \in [Jobs -> NativeJob] /\ native[t.job] \in NativeJob
    BY <1>2, SentMessages DEF Types
  <1>4. \A pc \in {"start", "pages", "add", "abort", "end"} :
          Step(t, pc) => tasks' \subseteq StartTasks \cup CancelTasks \cup AllTasks
    BY <1>2 DEF Step, Types
  <1>5. CASE StartRefused(t)
    <2>1. /\ tasks' \subseteq StartTasks \cup CancelTasks \cup AllTasks
          /\ svcQ' \in Seq(SvcMsgs)
      BY <1>3, <1>5, ReturnTypes DEF StartRefused
    <2> QED  BY <1>5, <2>1 DEF StartRefused, Types, jobVars, avars
  <1>6. CASE StartNative(t)
    <2>1. native' \in [Jobs -> NativeJob]
      BY <1>2, <1>3, <1>6, EntryTypes DEF StartNative
    <2> QED  BY <1>4, <1>6, <2>1 DEF StartNative, Types, jobVars, avars
  <1>7. CASE StartPages(t)
    <2>1. native' \in [Jobs -> NativeJob]
      BY <1>2, <1>3, <1>7, EntryTypes DEF StartPages
    <2>2. tasks' \subseteq StartTasks \cup CancelTasks \cup AllTasks
      BY <1>4, <1>7 DEF StartPages
    <2> QED  BY <1>7, <2>1, <2>2 DEF StartPages, Types, jobVars, avars
  <1>8. CASE StartAborted(t)
    <2>1. native' \in [Jobs -> NativeJob]
      BY <1>2, <1>3, <1>8, EntryTypes DEF StartAborted
    <2>2. jobQ' \in Seq(JobMsgs)
      BY <1>2, <1>8, TellTypes DEF StartAborted
    <2> QED  BY <1>4, <1>8, <2>1, <2>2 DEF StartAborted, Types, jobVars, avars
  <1>9. CASE StartForgotten(t)
    <2>1. native' \in [Jobs -> NativeJob]
      BY <1>2, <1>3, <1>9, EntryTypes DEF StartForgotten
    <2>2. /\ tasks' \subseteq StartTasks \cup CancelTasks \cup AllTasks
          /\ svcQ' \in Seq(SvcMsgs)
      BY <1>3, <1>9, ReturnTypes DEF StartForgotten
    <2> QED  BY <1>9, <2>1, <2>2 DEF StartForgotten, Types, jobVars, avars
  <1>10. CASE StartAdd(t)
    <2>1. CASE life.gone # "no"
      BY <1>10, <2>1 DEF StartAdd, Types, avars
    <2>2. CASE life.gone = "no"
      <3>1. jobList' = Append(jobList, t.job) /\ Return(t, NoReply) /\ UNCHANGED crash
        BY <1>10, <2>2 DEF StartAdd
      <3>2. jobList' \in Seq(Jobs)
        BY <1>2, <3>1, AppendFacts DEF Types
      <3>3. /\ tasks' \subseteq StartTasks \cup CancelTasks \cup AllTasks
            /\ svcQ' \in Seq(SvcMsgs)
        BY <3>1, ReturnTypes
      <3> QED  BY <1>10, <3>1, <3>2, <3>3 DEF StartAdd, Types, avars
    <2> QED  BY <2>1, <2>2
  <1> QED  BY <1>5, <1>6, <1>7, <1>8, <1>9, <1>10

LEMMA TypesCancelTasks ==
  ASSUME Types, UNCHANGED avars, NEW t \in tasks, CancelFind(t) \/ CancelCall(t) \/ CancelAll(t)
  PROVE  Types'
  <1>1. NoReply \in Words \cup {NoReply}
    OBVIOUS
  <1>2. CASE CancelFind(t)
    <2>1. t \in CancelTasks /\ t.job \in Jobs /\ [t EXCEPT !.pc = "cancel"] \in CancelTasks
      BY <1>2, TaskKinds DEF CancelFind, TaskAt
    <2>2. CASE life.gone # "no"
      BY <1>2, <2>2 DEF CancelFind, Types, jobVars, avars
    <2>3. ASSUME NEW r \in Words \cup {NoReply}, Return(t, r), life.gone = "no"
          PROVE  Types'
      <3>1. /\ tasks' \subseteq StartTasks \cup CancelTasks \cup AllTasks
            /\ svcQ' \in Seq(SvcMsgs)
        BY <2>3, ReturnTypes
      <3> QED  BY <1>2, <2>3, <3>1 DEF CancelFind, Types, jobVars, avars
    <2>4. CASE Step(t, "cancel") /\ UNCHANGED svcQ /\ life.gone = "no"
      <3>1. tasks' \subseteq StartTasks \cup CancelTasks \cup AllTasks
        BY <2>1, <2>4 DEF Step, Types
      <3> QED  BY <1>2, <2>4, <3>1 DEF CancelFind, Types, jobVars, avars
    <2>5. life.gone = "no" => \/ Return(t, NoReply) \/ Return(t, Request("cancelled", t.job))
                              \/ Step(t, "cancel") /\ UNCHANGED svcQ
      BY <1>2 DEF CancelFind
    <2>6. Request("cancelled", t.job) \in Words
      BY <2>1, SentMessages
    <2> QED  BY <1>1, <2>2, <2>3, <2>4, <2>5, <2>6
  <1>3. CASE CancelCall(t)
    <2>1. t \in CancelTasks /\ t.job \in Jobs
      BY <1>3, TaskKinds DEF CancelCall, TaskAt
    <2>2. native' \in [Jobs -> NativeJob] /\ canceled' \in [Jobs -> BOOLEAN]
      BY <1>3, <2>1, EntryTypes DEF CancelCall, Types
    <2>3. jobQ' \in Seq(JobMsgs)
      BY <1>3, <2>1, TellTypes DEF CancelCall
    <2>4. /\ tasks' \subseteq StartTasks \cup CancelTasks \cup AllTasks
          /\ svcQ' \in Seq(SvcMsgs)
      <3>1. Request("cancelled", t.job) \in Words
        BY <2>1, SentMessages
      <3>2. Return(t, NoReply) \/ Return(t, Request("cancelled", t.job))
        BY <1>3 DEF CancelCall
      <3> QED  BY <1>1, <3>1, <3>2, ReturnTypes
    <2> QED  BY <1>3, <2>2, <2>3, <2>4 DEF CancelCall, Types, avars
  <1>4. CASE CancelAll(t)
    <2>1. CASE life.gone # "no"
      BY <1>4, <2>1 DEF CancelAll, Types, avars
    <2>2. CASE life.gone = "no"
      <3>1. PICK toc \in Seq(Jobs), told \in Seq(Jobs) :
              /\ native' = [j \in Jobs |-> IF j \in Range(toc) THEN CancelNative(native[j])
                                           ELSE native[j]]
              /\ jobQ' = jobQ \o [n \in DOMAIN told |-> DoneMsg(told[n], "CANCELLED")]
              /\ canceled' = [j \in Jobs |-> canceled[j] \/ j \in Range(toc)]
              /\ Return(t, NoReply) /\ UNCHANGED crash
        BY <1>4, <2>2, CancelAllIs
      <3>2. native' \in [Jobs -> NativeJob] /\ canceled' \in [Jobs -> BOOLEAN]
        BY <3>1, EntryTypes DEF Types
      <3>3. [n \in DOMAIN told |-> DoneMsg(told[n], "CANCELLED")] \in Seq(JobMsgs)
        <4>1. Len(told) \in Nat /\ DOMAIN told = 1 .. Len(told)
              /\ \A n \in DOMAIN told : told[n] \in Jobs
          OBVIOUS
        <4>2. \A n \in DOMAIN told : DoneMsg(told[n], "CANCELLED") \in JobMsgs
          BY <4>1, SentMessages DEF Results
        <4> HIDE DEF DoneMsg
        <4> QED  BY <4>1, <4>2
      <3>4. jobQ' \in Seq(JobMsgs)
        <4>1. jobQ \in Seq(JobMsgs)
          BY DEF Types
        <4> QED  BY <3>1, <3>3, <4>1, ConcatFacts
      <3>5. /\ tasks' \subseteq StartTasks \cup CancelTasks \cup AllTasks
            /\ svcQ' \in Seq(SvcMsgs)
        BY <1>1, <3>1, ReturnTypes
      <3> QED  BY <1>4, <3>1, <3>2, <3>4, <3>5 DEF CancelAll, Types, avars
    <2> QED  BY <2>1, <2>2
  <1> QED  BY <1>2, <1>3, <1>4

(* What the library does with a job, and the delay before the service      *)
(* stops.                                                                  *)
LEMMA TypesLib ==
  ASSUME Types, UNCHANGED avars, NEW j \in Jobs, Serve(j) \/ Begin(j) \/ Finish(j) \/ Report(j)
  PROVE  Types'
  <1>1. /\ native \in [Jobs -> NativeJob] /\ native[j] \in NativeJob
        /\ jobQ \in Seq(JobMsgs) /\ extras \in Nat /\ MaxExtras \in Nat /\ extras <= MaxExtras
    BY ServiceAssumption DEF Types
  <1>2. \A m \in Status : ToHandler(m) => jobQ' \in Seq(JobMsgs)
    BY <1>1, SentMessages, AppendFacts DEF ToHandler
  <1>3. /\ \A w \in {"running", "blocked"} :
             StatusMsg(j, [state |-> w, result |-> "none"]) \in Status
        /\ PageMsg(j) \in Status /\ \A r \in Results : DoneMsg(j, r) \in Status
    BY SentMessages DEF JobStates
  <1>4. CASE Serve(j)
    <2>1. native' \in [Jobs -> NativeJob]
      BY <1>1, <1>4, EntryTypes DEF Serve
    <2> QED  BY <1>4, <2>1 DEF Serve, Types, jobVars, avars
  <1>5. CASE Begin(j)
    <2>1. native' \in [Jobs -> NativeJob]
      BY <1>1, <1>5, EntryTypes DEF Begin
    <2>2. jobQ' \in Seq(JobMsgs)
      BY <1>2, <1>3, <1>5 DEF Begin
    <2> QED  BY <1>5, <2>1, <2>2 DEF Begin, Types, jobVars, avars
  <1>6. CASE Finish(j)
    <2>1. PICK r \in Results :
            /\ native' = [native EXCEPT ![j].phase = "over", ![j].result = r]
            /\ ToHandler(DoneMsg(j, r))
      BY <1>6 DEF Finish
    <2>2. native' \in [Jobs -> NativeJob]
      BY <1>1, <2>1, EntryTypes
    <2>3. jobQ' \in Seq(JobMsgs)
      BY <1>2, <1>3, <2>1
    <2> QED  BY <1>6, <2>2, <2>3 DEF Finish, Types, jobVars, avars
  <1>7. CASE Report(j)
    <2>1. jobQ' \in Seq(JobMsgs)
      BY <1>2, <1>3, <1>7 DEF Report
    <2>2. extras' \in 0 .. MaxExtras
      BY <1>1, <1>7 DEF Report
    <2> QED  BY <1>7, <2>1, <2>2 DEF Report, Types, jobVars, avars
  <1> QED  BY <1>4, <1>5, <1>6, <1>7

(* The last message for the JobHandler.                                    *)
LEMMA ExitQueue ==
  ASSUME Types
  PROVE  /\ Append(jobQ, Plain("exit")) \in Seq(JobMsgs)
         /\ Range(Append(jobQ, Plain("exit"))) = Range(jobQ) \cup {Plain("exit")}
         /\ \A m : m # Plain("exit") /\ Once(jobQ, m) => Once(Append(jobQ, Plain("exit")), m)
  <1>1. jobQ \in Seq(JobMsgs) /\ Plain("exit") \in JobMsgs
    BY SentMessages DEF Types
  <1> QED  BY <1>1, AppendFacts

LEMMA TypesQuitDelay == ASSUME Types, UNCHANGED avars, QuitDelayOver PROVE Types'
  <1>1. jobQ' \in Seq(JobMsgs)
    <2>1. jobQ' = jobQ \/ jobQ' = Append(jobQ, Plain("exit"))
      BY DEF QuitDelayOver
    <2> QED  BY <2>1, ExitQueue DEF Types
  <1>2. life' \in Lives /\ quitPosted' \in BOOLEAN
    <2>1. \/ life' = [life EXCEPT !.started = FALSE]
          \/ life' = [life EXCEPT !.started = FALSE, !.gone = "destroyed"]
      BY DEF QuitDelayOver
    <2>2. quitPosted' \in BOOLEAN
      BY DEF QuitDelayOver
    <2> QED  BY <2>1, <2>2 DEF Types, Lives
  <1> QED  BY <1>1, <1>2 DEF QuitDelayOver, Types, jobVars, avars

(* The adapter.                                                            *)
LEMMA TypesBinding ==
  ASSUME Types, Bind \/ Unbind \/ Connected \/ Destroy \/ OtherClient
  PROVE  Types'
  <1>1. \A w \in {"register", "unregister", "cancelAll"} : Plain(w) \in SvcMsgs
    BY SentMessages
  <1>2. CASE Bind
    <2>1. svcQ' \in Seq(SvcMsgs)
      BY <1>2, BindQueue DEF Bind, OnBind
    <2>2. jobQ' \in Seq(JobMsgs)
      <3>1. jobQ' = jobQ \/ jobQ' = <<Plain("init")>>
        BY <1>2 DEF Bind, OnBind
      <3>2. jobQ \in Seq(JobMsgs) /\ Plain("init") \in JobMsgs
        BY SentMessages DEF Types
      <3>3. <<Plain("init")>> \in Seq(JobMsgs)
        BY <3>2
      <3> QED  BY <3>1, <3>2, <3>3
    <2>3. life' \in Lives
      BY <1>2 DEF Bind, OnBind, Types, Lives
    <2> QED  BY <1>2, <2>1, <2>2, <2>3 DEF Bind, OnBind, Types, jobVars
  <1>3. CASE Unbind
    <2>1. svcQ' \in Seq(SvcMsgs)
      BY <1>3, BindQueue DEF Unbind, OnUnbind
    <2>2. jobQ' \in Seq(JobMsgs)
      <3>1. jobQ' = jobQ \/ jobQ' = Append(jobQ, Plain("exit"))
        BY <1>3 DEF Unbind, OnUnbind
      <3> QED  BY <3>1, ExitQueue DEF Types
    <2>3. life' \in Lives
      <3>1. life \in Lives
        BY DEF Types
      <3>2. /\ [life EXCEPT !.bound = FALSE] \in Lives
            /\ [life EXCEPT !.bound = FALSE, !.gone = "destroyed"] \in Lives
        BY <3>1 DEF Lives
      <3>3. \/ life' = [life EXCEPT !.bound = FALSE]
            \/ life' = [life EXCEPT !.bound = FALSE, !.gone = "destroyed"]
        BY <1>3 DEF Unbind, OnUnbind
      <3> QED  BY <3>2, <3>3
    <2> QED  BY <1>3, <2>1, <2>2, <2>3 DEF Unbind, OnUnbind, Types, jobVars, avars
  <1>4. CASE Connected
    <2>1. svcQ' \in Seq(SvcMsgs)
      BY <1>1, <1>4, SendTypes DEF Connected
    <2> QED  BY <1>4, <2>1 DEF Connected, Send, Types, jobVars
  <1>5. CASE Destroy
    <2>1. svcQ' \in Seq(SvcMsgs)
      BY <1>1, <1>5, SendTypes DEF Destroy
    <2>2. holder' \in [Jobs -> Holder]
      BY <1>5, EntryTypes DEF Destroy, Types
    <2> QED  BY <1>5, <2>1, <2>2 DEF Destroy, Send, Types, jobVars
  <1>6. CASE OtherClient
    <2>1. svcQ' \in Seq(SvcMsgs)
      BY <1>1, <1>6, SendTypes DEF OtherClient
    <2>2. extras' \in 0 .. MaxExtras
      BY <1>6, ServiceAssumption DEF OtherClient, Types
    <2> QED  BY <1>6, <2>1, <2>2 DEF OtherClient, Send, Types, jobVars
  <1> QED  BY <1>2, <1>3, <1>4, <1>5, <1>6

LEMMA TypesOfJob ==
  ASSUME Types, NEW j \in Jobs,
         QueueJob(j) \/ SendJob(j) \/ RequestCancel(j) \/ SendCancel(j)
  PROVE  Types'
  <1>1. /\ \A w \in {"print", "cancel"} : Request(w, j) \in SvcMsgs
        /\ fw \in [Jobs -> Active \cup Over \cup {"none"}] /\ holder \in [Jobs -> Holder]
    BY SentMessages DEF Types
  <1>2. CASE QueueJob(j)
    <2>1. fw' \in [Jobs -> Active \cup Over \cup {"none"}]
      BY <1>1, <1>2 DEF QueueJob, Active
    <2> QED  BY <1>2, <2>1 DEF QueueJob, Types, svars
  <1>3. CASE SendJob(j)
    <2>1. svcQ' \in Seq(SvcMsgs)
      BY <1>1, <1>3, SendTypes DEF SendJob
    <2>2. fw' \in [Jobs -> Active \cup Over \cup {"none"}]
      BY <1>1, <1>3, EntryTypes DEF SendJob
    <2>3. holder' \in [Jobs -> Holder]
      BY <1>1, <1>3 DEF SendJob, Holder
    <2> QED  BY <1>3, <2>1, <2>2, <2>3 DEF SendJob, Send, Types, jobVars
  <1>4. CASE RequestCancel(j)
    <2>1. holder' \in [Jobs -> Holder]
      <3>1. [holder[j] EXCEPT !.user = TRUE] \in Holder
        BY <1>1, EntryTypes
      <3>2. holder' = holder \/ holder' = [holder EXCEPT ![j] = [holder[j] EXCEPT !.user = TRUE]]
        BY <1>4 DEF RequestCancel
      <3> QED  BY <1>1, <3>1, <3>2
    <2> QED  BY <1>4, <2>1 DEF RequestCancel, Types, jobVars
  <1>5. CASE SendCancel(j)
    <2>1. svcQ' \in Seq(SvcMsgs)
      BY <1>1, <1>5, SendTypes DEF SendCancel
    <2> QED  BY <1>5, <2>1 DEF SendCancel, Send, Types, jobVars
  <1> QED  BY <1>2, <1>3, <1>4, <1>5

(* What the adapter makes of a message is a state of the framework.        *)
LEMMA HearIs ==
  ASSUME Types, Hear
  PROVE  \E m \in BoxMsgs, f \in Active \cup Over \cup {"none"}, h \in Holder :
           /\ m \in Range(inbox) /\ m.job \in Jobs
           /\ inbox' \in Seq(BoxMsgs) /\ Range(inbox') \subseteq Range(inbox)
           /\ fw' = [fw EXCEPT ![m.job] = f] /\ holder' = [holder EXCEPT ![m.job] = h]
           /\ f \in Over => \/ fw[m.job] \in Over \/ m.what \in {"printError", "cancelled"}
                            \/ m.what = "news" /\ m.now.state = "done"
           /\ f = "none" => fw[m.job] = "none"
           /\ f = "completed" =>
                \/ fw[m.job] = "completed"
                \/ m.what = "news" /\ ~holder[m.job].user
           /\ h.file = holder[m.job].file \/ (m.what = "news" /\ m.now.state = "done")
           /\ h.user = holder[m.job].user
  <1> DEFINE m == Head(inbox)
             j == m.job
  <1>1. /\ m \in BoxMsgs /\ m \in Range(inbox) /\ j \in Jobs
        /\ inbox' \in Seq(BoxMsgs) /\ Range(inbox') \subseteq Range(inbox)
    <2>1. inbox \in Seq(BoxMsgs) /\ inbox # << >> /\ inbox' = Tail(inbox)
      BY DEF Types, Hear
    <2>2. m \in BoxMsgs /\ m \in Range(inbox) /\ inbox' \in Seq(BoxMsgs)
          /\ Range(inbox') \subseteq Range(inbox)
      BY <2>1, TailFacts
    <2> HIDE DEF m
    <2> QED  BY <2>2, BoxKinds
  <1>2. /\ fw \in [Jobs -> Active \cup Over \cup {"none"}] /\ holder \in [Jobs -> Holder]
        /\ fw = [fw EXCEPT ![j] = fw[j]] /\ holder = [holder EXCEPT ![j] = holder[j]]
        /\ fw[j] \in Active \cup Over \cup {"none"} /\ holder[j] \in Holder
    BY <1>1 DEF Types
  <1> DEFINE Fits(f, h) ==
          /\ fw' = [fw EXCEPT ![j] = f] /\ holder' = [holder EXCEPT ![j] = h]
          /\ f \in Active \cup Over \cup {"none"} /\ h \in Holder
          /\ f \in Over => \/ fw[j] \in Over \/ m.what \in {"printError", "cancelled"}
                           \/ m.what = "news" /\ m.now.state = "done"
          /\ f = "none" => fw[j] = "none"
          /\ f = "completed" => \/ fw[j] = "completed"
                                \/ m.what = "news" /\ ~holder[j].user
          /\ h.file = holder[j].file \/ (m.what = "news" /\ m.now.state = "done")
          /\ h.user = holder[j].user
  <1>3. \E f, h : Fits(f, h)
    <2> HIDE DEF m
    <2>1. CASE UNCHANGED <<fw, holder>>
      <3>1. Fits(fw[j], holder[j])
        BY <1>1, <1>2, <2>1 DEF Over
      <3> QED  BY <3>1
    <2>2. CASE fw' = [fw EXCEPT ![j] = FwStart(@)] /\ UNCHANGED holder
      <3>1. /\ FwStart(fw[j]) \in Active \cup Over \cup {"none"}
            /\ FwStart(fw[j]) \in Over => fw[j] \in Over /\ FwStart(fw[j]) = fw[j]
            /\ FwStart(fw[j]) = "none" => fw[j] = "none"
        BY <1>2 DEF FwStart, Active, Over
      <3>2. Fits(FwStart(fw[j]), holder[j])
        BY <1>1, <1>2, <2>2, <3>1 DEF Over
      <3> HIDE DEF Fits
      <3> QED  BY <3>2
    <2>3. CASE /\ fw' = [fw EXCEPT ![j] = FwBlock(IF @ = "queued" THEN FwStart(@) ELSE @)]
               /\ UNCHANGED holder
      <3> DEFINE f == FwBlock(IF fw[j] = "queued" THEN FwStart(fw[j]) ELSE fw[j])
      <3>1. /\ f \in Active \cup Over \cup {"none"}
            /\ f \in Over => fw[j] \in Over /\ f = fw[j]
            /\ f = "none" => fw[j] = "none"
        BY <1>2 DEF FwStart, FwBlock, Active, Over
      <3> HIDE DEF f
      <3>2. fw' = [fw EXCEPT ![j] = f] /\ UNCHANGED holder
        BY <2>3 DEF f
      <3>3. Fits(f, holder[j])
        BY <1>1, <1>2, <3>1, <3>2 DEF Over
      <3> HIDE DEF Fits
      <3> QED  BY <3>3
    <2>4. CASE /\ m.what = "news" /\ m.now.state = "done"
               /\ fw' = [fw EXCEPT ![j] = AfterDone(@, holder[j], m.now.result)]
               /\ holder' = [holder EXCEPT ![j].kept = FALSE, ![j].file = FALSE]
      <3> DEFINE f == AfterDone(fw[j], holder[j], m.now.result)
                 h == [holder[j] EXCEPT !.kept = FALSE, !.file = FALSE]
      <3>1. f \in Active \cup Over \cup {"none"} /\ (f = "none" => fw[j] = "none")
        BY <1>2 DEF AfterDone, FwCancel, FwComplete, FwFail, FwStart, Active, Over
      <3>2. h \in Holder /\ h.user = holder[j].user
        BY <1>2, EntryTypes DEF Holder
      <3>3. holder[j].user => FwCancel(fw[j]) \notin Active
        BY <1>2 DEF FwCancel, Active, Over
      <3>4. f = "completed" => fw[j] = "completed" \/ ~holder[j].user
        BY <1>2, <3>3 DEF AfterDone, FwCancel, FwComplete, FwFail, FwStart, Active, Over
      <3>5. fw' = [fw EXCEPT ![j] = f] /\ holder' = [holder EXCEPT ![j] = h]
        BY <2>4 DEF f, h
      <3> HIDE DEF f, h
      <3>6. Fits(f, h)
        BY <1>2, <2>4, <3>1, <3>2, <3>4, <3>5
      <3> HIDE DEF Fits
      <3> QED  BY <3>6
    <2>5. CASE /\ m.what = "printError" /\ fw' = [fw EXCEPT ![j] = FwFail(@)]
               /\ UNCHANGED holder
      <3>1. /\ FwFail(fw[j]) \in Active \cup Over \cup {"none"}
            /\ FwFail(fw[j]) = "none" => fw[j] = "none"
            /\ FwFail(fw[j]) = "completed" => fw[j] = "completed"
        BY <1>2 DEF FwFail, Active, Over
      <3>2. Fits(FwFail(fw[j]), holder[j])
        BY <1>1, <1>2, <2>5, <3>1
      <3> HIDE DEF Fits
      <3> QED  BY <3>2
    <2>6. CASE /\ m.what = "cancelled" /\ fw' = [fw EXCEPT ![j] = FwCancel(@)]
               /\ UNCHANGED holder
      <3>1. /\ FwCancel(fw[j]) \in Active \cup Over \cup {"none"}
            /\ FwCancel(fw[j]) = "none" => fw[j] = "none"
            /\ FwCancel(fw[j]) = "completed" => fw[j] = "completed"
        BY <1>2 DEF FwCancel, Active, Over
      <3>2. Fits(FwCancel(fw[j]), holder[j])
        BY <1>1, <1>2, <2>6, <3>1
      <3> HIDE DEF Fits
      <3> QED  BY <3>2
    <2>7. OnNews => \/ UNCHANGED <<fw, holder>>
                    \/ fw' = [fw EXCEPT ![j] = FwStart(@)] /\ UNCHANGED holder
                    \/ /\ fw' = [fw EXCEPT ![j] = FwBlock(IF @ = "queued" THEN FwStart(@)
                                                          ELSE @)]
                       /\ UNCHANGED holder
                    \/ /\ m.what = "news" /\ m.now.state = "done"
                       /\ fw' = [fw EXCEPT ![j] = AfterDone(@, holder[j], m.now.result)]
                       /\ holder' = [holder EXCEPT ![j].kept = FALSE, ![j].file = FALSE]
      BY DEF OnNews, m
    <2>8. OnReply => \/ UNCHANGED <<fw, holder>>
                     \/ /\ m.what = "printError" /\ fw' = [fw EXCEPT ![j] = FwFail(@)]
                        /\ UNCHANGED holder
                     \/ /\ m.what = "cancelled" /\ fw' = [fw EXCEPT ![j] = FwCancel(@)]
                        /\ UNCHANGED holder
      BY DEF OnReply, m
    <2> HIDE DEF Fits
    <2> QED  BY <2>1, <2>2, <2>3, <2>4, <2>5, <2>6, <2>7, <2>8 DEF Hear
  <1> HIDE DEF m
  <1> QED  BY <1>1, <1>3

LEMMA TypesClient ==
  ASSUME Types, Hear \/ Die \/ Disconnected
  PROVE  Types'
  <1>1. CASE Hear
    <2>1. /\ inbox' \in Seq(BoxMsgs)
          /\ fw' \in [Jobs -> Active \cup Over \cup {"none"}] /\ holder' \in [Jobs -> Holder]
      <3>1. PICK m \in BoxMsgs, f \in Active \cup Over \cup {"none"}, h \in Holder :
              /\ m.job \in Jobs /\ inbox' \in Seq(BoxMsgs)
              /\ fw' = [fw EXCEPT ![m.job] = f] /\ holder' = [holder EXCEPT ![m.job] = h]
        BY <1>1, HearIs
      <3> QED  BY <3>1 DEF Types
    <2> QED  BY <1>1, <2>1 DEF Hear, Types, jobVars
  <1>2. CASE Die
    <2>1. extras' \in 0 .. MaxExtras
      BY <1>2, ServiceAssumption DEF Die, Types
    <2> QED  BY <1>2, <2>1 DEF Die, Types, jobVars
  <1>3. CASE Disconnected
    <2>1. /\ svcQ' \in Seq(SvcMsgs) /\ jobQ' \in Seq(JobMsgs)
          /\ jobList' \in Seq(Jobs) /\ pending' \in Seq(Status)
      <3>1. svcQ' = << >> /\ jobQ' = << >> /\ jobList' = << >> /\ pending' = << >>
        BY <1>3 DEF Disconnected
      <3> QED  BY <3>1
    <2>2. /\ canceled' \in [Jobs -> BOOLEAN]
          /\ jobStatus' \in [Jobs -> JobStates \cup {NoStatus}]
          /\ life' \in Lives
      BY <1>3 DEF Disconnected, Lives
    <2>3. native' \in [Jobs -> NativeJob]
      <3>1. NoNative \in NativeJob
        BY DEF NoNative, NativeJob
      <3> QED  BY <1>3, <3>1 DEF Disconnected
    <2> QED  BY <1>3, <2>1, <2>2, <2>3 DEF Disconnected, Types
  <1> QED  BY <1>1, <1>2, <1>3

LEMMA TypesNext == Types /\ [Next]_vars => Types'
  <1> SUFFICES ASSUME Types, [Next]_vars PROVE Types'
    OBVIOUS
  <1>1. CASE UNCHANGED vars
    BY <1>1 DEF vars, svars, avars, Types
  <1>2. CASE Client
    BY <1>2, TypesBinding, TypesOfJob, TypesClient DEF Client
  <1>3. CASE SvcStep /\ UNCHANGED avars
    BY <1>3, TypesSvc
  <1>4. CASE JobStep /\ UNCHANGED avars
    BY <1>4, TypesJobPlain, TypesJobStatus, TypesScan, TypesStatusEnd DEF JobStep
  <1>5. ASSUME NEW t \in tasks, TaskStep(t), UNCHANGED avars
        PROVE  Types'
    BY <1>5, TypesStartTasks, TypesCancelTasks DEF TaskStep
  <1>6. ASSUME NEW j \in Jobs, LibStep(j) \/ Report(j), UNCHANGED avars
        PROVE  Types'
    BY <1>6, TypesLib DEF LibStep
  <1>7. CASE QuitDelayOver /\ UNCHANGED avars
    BY <1>7, TypesQuitDelay
  <1> QED  BY <1>1, <1>2, <1>3, <1>4, <1>5, <1>6, <1>7 DEF Next, ServiceNext

LEMMA TypesAlways == Spec => []Types
  BY TypesInit, TypesNext, PTL DEF Spec

LEMMA TypesImply == Types => TypeOK
  <1> SUFFICES ASSUME Types PROVE TypeOK
    OBVIOUS
  <1>1. /\ SvcMsgs \subseteq Msgs \cup [what : {"result"}, reply : Msgs]
        /\ JobMsgs \subseteq Msgs \cup Status /\ BoxMsgs \subseteq Msgs
        /\ Scanned \subseteq Msgs \cup Status
    BY DEF SvcMsgs, JobMsgs, BoxMsgs, Scanned, Intents, Answers, Inner, Words, Reports, Msgs,
           Plain, NoReply
  <1>2. /\ svcQ \in Seq(Msgs \cup [what : {"result"}, reply : Msgs])
        /\ jobQ \in Seq(Msgs \cup Status) /\ inbox \in Seq(Msgs)
    <2>1. \A S, T, q : S \subseteq T /\ q \in Seq(S) => q \in Seq(T)
      OBVIOUS
    <2> QED  BY <1>1, <2>1 DEF Types
  <1>3. \/ scan = Idle
        \/ scan.at \in 1 .. Len(pending) + 1 /\ scan.msg \in Msgs \cup Status
           /\ scan.found \subseteq DOMAIN pending
    BY <1>1 DEF Types
  <1>4. \A t \in tasks :
          /\ t.what \in {"print", "cancel", "cancelAll"}
          /\ t.pc \in {"start", "pages", "add", "abort", "end", "find", "cancel", "all"}
    BY DEF Types, StartTasks, CancelTasks, AllTasks
  <1>5. {registered, isBound, quitPosted} \subseteq BOOLEAN
    BY DEF Types
  <1> QED  BY <1>2, <1>3, <1>4, <1>5 DEF Types, TypeOK

(***************************************************************************)
(* The stages of a job: not yet the framework's, being copied by the       *)
(* adapter, asked for in the queue of the main thread, in the queue of     *)
(* the JobHandler, by a task that has not started it, by one that has, in  *)
(* the list of the service, and gone from there.                           *)
(***************************************************************************)
Stages == {"new", "send", "svc", "job", "start", "work", "list", "gone"}

AskFor(j)    == Request("print", j)
Starts(t, j) == t.what = "print" /\ t.job = j
Aborts(t, j) == t.what = "cancel" /\ t.job = j /\ t.pc = "cancel"

(* A job is asked for once, by one request or one task, and its stage says *)
(* which.                                                                  *)
Route(s, j) ==
  /\ fw[j] = "none" => s = "new"
  /\ j \in toSend => s = "send"
  /\ AskFor(j) \in Range(svcQ) => s = "svc"
  /\ Once(svcQ, AskFor(j))
  /\ AskFor(j) \in Range(jobQ) => s = "job"
  /\ Once(jobQ, AskFor(j))
  /\ \A t \in tasks : Starts(t, j) => s = IF t.pc = "start" THEN "start" ELSE "work"
  /\ \A t, u \in tasks : Starts(t, j) /\ Starts(u, j) => t = u
  /\ \A t \in tasks : Aborts(t, j) => s \in {"list", "gone"}
  /\ j \in Range(jobList) => s = "list"

(* The library has a job from the start of its task on, and keeps it as    *)
(* long as the task or the list has its handle.                            *)
PhaseOf(s, j) ==
  /\ s \in {"new", "send", "svc", "job", "start"} => native[j].phase = "none"
  /\ s \in {"work", "list"} => native[j].phase \in {"queued", "served", "over"}

(* The document of a job that is to be printed is there.                   *)
FileOf(s, j) ==
  ( \/ s \in {"svc", "job", "start"}
    \/ native[j].phase \in {"queued", "served"} /\ ~native[j].cancel )
  => holder[j].file

(* A job that will not be printed any more: over, or asked to stop.        *)
Ended(j)      == native[j].phase \in {"over", "free"}
Settled(s, j) == /\ s \in {"work", "list", "gone"}
                 /\ native[j].phase \in {"queued", "served"} => native[j].cancel

(* The messages that tell the adapter the end of a job, and the status     *)
(* that tells the service.                                                 *)
EndWord(m, j)   == \/ m.what \in {"printError", "cancelled"} /\ m.job = j
                   \/ m.what = "news" /\ m.job = j /\ m.now.state = "done"
EndAnswer(m, j) == m.what = "result" /\ EndWord(m.reply, j)
DoneOf(m, j)    == m.what = "status" /\ m.job = j /\ m.now.state = "done"

(* Nobody is told the end of a job that can still be printed.              *)
Told(s, j) ==
  /\ \A m \in Range(inbox) : EndWord(m, j) => Settled(s, j)
  /\ \A m \in Range(svcQ) : EndAnswer(m, j) => Settled(s, j)
  /\ fw[j] \in Over => Settled(s, j)
  /\ canceled[j] => Settled(s, j)
  /\ \A t \in tasks : Starts(t, j) /\ t.pc = "end" => Settled(s, j)
  /\ \A m \in Range(jobQ) : DoneOf(m, j) => Ended(j)
  /\ \A m \in Range(pending) : DoneOf(m, j) => Ended(j)
  /\ scan # Idle => (DoneOf(scan.msg, j) => Ended(j))
  /\ jobStatus[j].state = "done"
     => s = "gone" /\ native[j].phase \notin {"queued", "served"}

At(s, j) == Route(s, j) /\ PhaseOf(s, j) /\ FileOf(s, j) /\ Told(s, j)

JobsInv == \A j \in Jobs : \E s \in Stages : At(s, j)

(***************************************************************************)
(* Steps in which a job stays in its stage: what each of the variables may *)
(* gain for it.                                                            *)
(***************************************************************************)
FwCalm(s, j)     == /\ fw'[j] = "none" => fw[j] = "none"
                    /\ fw'[j] \in Over => fw[j] \in Over \/ Settled(s, j)'
SendCalm(s, j)   == j \in toSend' => j \in toSend
SvcCalm(s, j)    == /\ \A m \in Range(svcQ') :
                         m \in Range(svcQ)
                         \/ (m # AskFor(j) /\ (EndAnswer(m, j) => Settled(s, j)'))
                    /\ Once(svcQ, AskFor(j)) => Once(svcQ', AskFor(j))
JobCalm(s, j)    == /\ \A m \in Range(jobQ') :
                         m \in Range(jobQ) \/ (m # AskFor(j) /\ (DoneOf(m, j) => Ended(j)'))
                    /\ Once(jobQ, AskFor(j)) => Once(jobQ', AskFor(j))
TaskCalm(s, j)   == \/ \A t \in tasks' :
                         t \in tasks
                         \/ (~Starts(t, j) /\ (Aborts(t, j) => s \in {"list", "gone"}))
                    \/ \E t \in tasks, pc \in {"pages", "add", "abort", "end"} :
                         /\ t \in StartTasks /\ t.pc # "start" /\ Step(t, pc)
                         /\ pc = "end" /\ t.job = j => Settled(s, j)'
ListCalm(s, j)   == j \in Range(jobList') => j \in Range(jobList)
NativeCalm(s, j) ==
  \/ native'[j].phase = native[j].phase /\ native'[j].cancel = native[j].cancel
  \/ /\ native[j].phase \in {"queued", "served"}
     /\ native'[j].phase \in {"queued", "served", "over"}
     /\ native[j].cancel => native'[j].cancel
FileCalm(s, j)   == holder[j].file => \/ holder'[j].file \/ Settled(s, j)'
                                      \/ s = "new"
BoxCalm(s, j)    == \A m \in Range(inbox') :
                      m \in Range(inbox) \/ (EndWord(m, j) => Settled(s, j)')
CancelCalm(s, j) == canceled'[j] => canceled[j] \/ Settled(s, j)'
PendCalm(s, j)   == \A m \in Range(pending') :
                      m \in Range(pending) \/ (DoneOf(m, j) => Ended(j)')
ScanCalm(s, j)   == scan' # Idle => \/ scan # Idle /\ scan'.msg = scan.msg
                                    \/ DoneOf(scan'.msg, j) => Ended(j)'
StatusCalm(s, j) == jobStatus'[j] = jobStatus[j] \/ jobStatus'[j].state # "done"

Calm(s, j) ==
  /\ FwCalm(s, j) /\ SendCalm(s, j) /\ SvcCalm(s, j) /\ JobCalm(s, j) /\ TaskCalm(s, j)
  /\ ListCalm(s, j) /\ NativeCalm(s, j) /\ FileCalm(s, j) /\ BoxCalm(s, j)
  /\ CancelCalm(s, j) /\ PendCalm(s, j) /\ ScanCalm(s, j) /\ StatusCalm(s, j)

(* A variable that does not change gains nothing.                          *)
LEMMA StillCalm ==
  ASSUME NEW s, NEW j
  PROVE  /\ UNCHANGED fw => FwCalm(s, j)
         /\ UNCHANGED toSend => SendCalm(s, j)
         /\ UNCHANGED svcQ => SvcCalm(s, j)
         /\ UNCHANGED jobQ => JobCalm(s, j)
         /\ UNCHANGED tasks => TaskCalm(s, j)
         /\ UNCHANGED jobList => ListCalm(s, j)
         /\ UNCHANGED native => NativeCalm(s, j)
         /\ UNCHANGED holder => FileCalm(s, j)
         /\ UNCHANGED inbox => BoxCalm(s, j)
         /\ UNCHANGED canceled => CancelCalm(s, j)
         /\ UNCHANGED pending => PendCalm(s, j)
         /\ UNCHANGED scan => ScanCalm(s, j)
         /\ UNCHANGED jobStatus => StatusCalm(s, j)
  BY DEF FwCalm, SendCalm, SvcCalm, JobCalm, TaskCalm, ListCalm, NativeCalm, FileCalm, BoxCalm,
         CancelCalm, PendCalm, ScanCalm, StatusCalm

(* What is settled or ended stays so.                                      *)
LEMMA StaysSettled ==
  ASSUME NEW s \in Stages, NEW j \in Jobs, NativeCalm(s, j)
  PROVE  /\ Settled(s, j) => Settled(s, j)'
         /\ Ended(j) => Ended(j)'
  BY DEF NativeCalm, Settled, Ended

LEMMA CalmKeeps ==
  ASSUME Types, NEW s \in Stages, NEW j \in Jobs, At(s, j), Calm(s, j)
  PROVE  At(s, j)'
  <1>0. /\ Settled(s, j) => Settled(s, j)'
        /\ Ended(j) => Ended(j)'
    BY StaysSettled DEF Calm
  <1>1. PhaseOf(s, j)'
    BY DEF At, Calm, NativeCalm, PhaseOf
  <1>2. FileOf(s, j)'
    <2>1. Settled(s, j)' => FileOf(s, j)'
      BY DEF Settled, FileOf
    <2>2. holder'[j].file => FileOf(s, j)'
      BY DEF FileOf
    <2>3. s = "new" => FileOf(s, j)'
      BY <1>1 DEF PhaseOf, FileOf
    <2>4. holder[j].file => FileOf(s, j)'
      BY <2>1, <2>2, <2>3 DEF Calm, FileCalm
    <2> QED  BY <2>4 DEF At, Calm, NativeCalm, FileOf
  <1> DEFINE TasksFine ==
        /\ \A t \in tasks' : Starts(t, j) => s = IF t.pc = "start" THEN "start" ELSE "work"
        /\ \A t, u \in tasks' : Starts(t, j) /\ Starts(u, j) => t = u
        /\ \A t \in tasks' : Aborts(t, j) => s \in {"list", "gone"}
        /\ \A t \in tasks' : Starts(t, j) /\ t.pc = "end" => Settled(s, j)'
  <1>3. TasksFine
    <2>0. /\ \A t \in tasks : Starts(t, j) => s = IF t.pc = "start" THEN "start" ELSE "work"
          /\ \A t, u \in tasks : Starts(t, j) /\ Starts(u, j) => t = u
          /\ \A t \in tasks : Aborts(t, j) => s \in {"list", "gone"}
          /\ \A t \in tasks : Starts(t, j) /\ t.pc = "end" => Settled(s, j)'
      BY <1>0 DEF At, Route, Told
    <2>1. CASE \A t \in tasks' :
                 t \in tasks \/ (~Starts(t, j) /\ (Aborts(t, j) => s \in {"list", "gone"}))
      BY <2>0, <2>1
    <2>2. ASSUME NEW t \in tasks, NEW pc \in {"pages", "add", "abort", "end"},
                 t \in StartTasks, t.pc # "start", Step(t, pc),
                 pc = "end" /\ t.job = j => Settled(s, j)'
          PROVE  TasksFine
      <3> DEFINE u == [t EXCEPT !.pc = pc]
      <3>1. tasks' = (tasks \ {t}) \cup {u}
        BY <2>2 DEF Step
      <3>2. /\ u.what = "print" /\ u.job = t.job /\ u.pc = pc /\ t.what = "print"
            /\ Starts(u, j) => Starts(t, j)
            /\ ~Aborts(u, j)
        BY <2>2 DEF StartTasks, Starts, Aborts
      <3> HIDE DEF u
      <3> QED  BY <2>0, <2>2, <3>1, <3>2 DEF Starts
    <2> QED  BY <2>1, <2>2 DEF Calm, TaskCalm
  <1>4. Route(s, j)'
    BY <1>3 DEF At, Route, Calm, FwCalm, SendCalm, SvcCalm, JobCalm, ListCalm
  <1>5. Told(s, j)'
    <2>1. /\ \A m \in Range(inbox') : EndWord(m, j) => Settled(s, j)'
          /\ \A m \in Range(svcQ') : EndAnswer(m, j) => Settled(s, j)'
      BY <1>0 DEF At, Told, Calm, BoxCalm, SvcCalm
    <2>2. (fw'[j] \in Over => Settled(s, j)') /\ (canceled'[j] => Settled(s, j)')
      BY <1>0 DEF At, Told, Calm, FwCalm, CancelCalm
    <2>3. /\ \A m \in Range(jobQ') : DoneOf(m, j) => Ended(j)'
          /\ \A m \in Range(pending') : DoneOf(m, j) => Ended(j)'
          /\ scan' # Idle => (DoneOf(scan'.msg, j) => Ended(j)')
      BY <1>0 DEF At, Told, Calm, JobCalm, PendCalm, ScanCalm
    <2>4. jobStatus'[j].state = "done"
          => s = "gone" /\ native'[j].phase \notin {"queued", "served"}
      BY DEF At, Told, Calm, StatusCalm, NativeCalm
    <2> QED  BY <1>3, <2>1, <2>2, <2>3, <2>4 DEF Told
  <1> QED  BY <1>1, <1>2, <1>4, <1>5 DEF At

(* Messages that ask for no job and tell no end.                           *)
LEMMA PlainMessages ==
  ASSUME NEW j, NEW w
  PROVE  /\ Plain(w) # AskFor(j)
         /\ w # "result" => ~EndAnswer(Plain(w), j)
         /\ w # "status" => ~DoneOf(Plain(w), j)
         /\ w \notin {"printError", "cancelled", "news"} => ~EndWord(Plain(w), j)
  <1>1. "what" \in DOMAIN Plain(w) /\ DOMAIN Plain(w) = {"what"} /\ Plain(w).what = w
    BY DEF Plain
  <1>2. DOMAIN AskFor(j) = {"what", "job"}
    BY DEF AskFor, Request
  <1>3. "job" \notin DOMAIN Plain(w) /\ "job" \in DOMAIN AskFor(j)
    BY <1>1, <1>2
  <1> QED  BY <1>1, <1>3 DEF EndAnswer, DoneOf, EndWord

(* What is told of another job.                                            *)
LEMMA OtherMessages ==
  ASSUME NEW j, NEW k
  PROVE  /\ AskFor(k) = AskFor(j) => k = j
         /\ AskFor(k).what = "print" /\ AskFor(k).job = k
         /\ Request("cancel", k) # AskFor(j)
         /\ \A w : w \notin {"result", "status"} =>
              ~EndAnswer(Request(w, k), j) /\ ~DoneOf(Request(w, k), j)
         /\ \A w : EndWord(Request(w, k), j) => k = j
         /\ \A r : [what |-> "result", reply |-> r] # AskFor(j)
                   /\ (EndAnswer([what |-> "result", reply |-> r], j) => EndWord(r, j))
         /\ ~EndWord(NoReply, j)
  BY DEF AskFor, Request, EndAnswer, EndWord, DoneOf, NoReply, Plain

LEMMA StatusMessages ==
  ASSUME NEW j, NEW m \in Status
  PROVE  /\ m # AskFor(j)
         /\ DoneOf(m, j) <=> (m.job = j /\ IsDone(m))
         /\ \A k, n : DoneOf(StatusMsg(k, n), j) => k = j /\ n.state = "done"
         /\ \A k : ~DoneOf(PageMsg(k), j)
  <1>1. m.what = "status" /\ AskFor(j).what = "print"
    BY StatusKinds DEF AskFor, Request
  <1>2. \A k, n : DoneOf(StatusMsg(k, n), j) => k = j /\ n.state = "done"
    BY DEF DoneOf, StatusMsg
  <1>3. \A k : ~DoneOf(PageMsg(k), j)
    BY DEF DoneOf, PageMsg, NoStatus
  <1> QED  BY <1>1, <1>2, <1>3 DEF DoneOf, IsDone

(***************************************************************************)
(* The job stays in its stage, step by step.                               *)
(***************************************************************************)
LEMMA CalmJobPlain ==
  ASSUME Types, UNCHANGED avars, NEW s \in Stages, NEW j \in Jobs, At(s, j),
         \/ JobInit \/ JobExecute("cancel") \/ JobExecute("cancelAll")
         \/ \E w \in {"register", "unregister"} : JobRegister(w)
         \/ JobBind \/ JobExit
  PROVE  Calm(s, j)
  <1>1. UNCHANGED <<svcQ, scan, jobVars, native, inbox, avars>>
    BY DEF JobInit, JobExecute, JobRegister, JobBind, JobExit
  <1>2. JobCalm(s, j)
    <2>1. CASE JobExit
      <3>1. jobQ' = << >>
        BY <2>1 DEF JobExit
      <3>2. Range(jobQ') = {} /\ Once(jobQ', AskFor(j))
        BY <3>1 DEF Range, Once
      <3> QED  BY <3>2 DEF JobCalm
    <2>2. ASSUME NEW w, JobMsg(w)
          PROVE  JobCalm(s, j)
      BY <2>2, JobHead DEF JobCalm
    <2> QED  BY <2>1, <2>2 DEF JobInit, JobExecute, JobRegister, JobBind
  <1>3. TaskCalm(s, j)
    <2>1. CASE JobExecute("cancel") \/ JobExecute("cancelAll")
      <3>1. ASSUME NEW t, tasks' = tasks \cup {t}, t.what # "print", t.pc # "cancel"
            PROVE  TaskCalm(s, j)
        BY <3>1 DEF TaskCalm, Starts, Aborts
      <3>2. CASE JobExecute("cancel")
        <4> DEFINE t == Task("cancel", Head(jobQ).job, "find")
        <4>1. tasks' = tasks \cup {t} /\ t.what # "print" /\ t.pc # "cancel"
          BY <3>2 DEF JobExecute, FirstPc, Task
        <4> HIDE DEF t
        <4> QED  BY <3>1, <4>1
      <3>3. CASE JobExecute("cancelAll")
        <4> DEFINE t == [what |-> "cancelAll", pc |-> "all"]
        <4>1. tasks' = tasks \cup {t} /\ t.what # "print" /\ t.pc # "cancel"
          BY <3>3 DEF JobExecute, FirstPc
        <4> HIDE DEF t
        <4> QED  BY <3>1, <4>1
      <3> QED  BY <2>1, <3>2, <3>3
    <2>2. CASE UNCHANGED tasks
      BY <2>2, StillCalm
    <2> QED  BY <2>1, <2>2 DEF JobInit, JobRegister, JobBind, JobExit
  <1> QED  BY <1>1, <1>2, <1>3, StillCalm DEF Calm, jobVars, avars

LEMMA CalmSvc ==
  ASSUME Types, UNCHANGED avars, NEW s \in Stages, NEW j \in Jobs, At(s, j),
         SvcStep, Head(svcQ) # AskFor(j)
  PROVE  Calm(s, j)
  <1>1. /\ svcQ # << >> /\ svcQ' = Tail(svcQ) /\ svcQ \in Seq(SvcMsgs) /\ jobQ \in Seq(JobMsgs)
        /\ UNCHANGED <<scan, tasks, jobVars, native, avars>>
    BY DEF SvcStep, SvcIntent, SvcResult, Types
  <1>2. /\ Head(svcQ) \in SvcMsgs /\ Head(svcQ) \in Range(svcQ)
        /\ Range(svcQ') \subseteq Range(svcQ)
        /\ Once(svcQ, AskFor(j)) => Once(svcQ', AskFor(j))
    BY <1>1, TailFacts
  <1>3. SvcCalm(s, j)
    BY <1>2 DEF SvcCalm
  <1>4. CASE SvcIntent
    <2>1. Head(svcQ) \in Intents /\ Head(svcQ) \in JobMsgs
      BY <1>2, <1>4, SvcKinds DEF SvcIntent
    <2>2. ~DoneOf(Head(svcQ), j)
      BY <2>1 DEF Intents, DoneOf
    <2>3. \/ jobQ' = jobQ \/ jobQ' = <<Head(svcQ)>> \o jobQ \/ jobQ' = Append(jobQ, Head(svcQ))
      BY <1>4 DEF SvcIntent
    <2>4. /\ Range(Append(jobQ, Head(svcQ))) = Range(jobQ) \cup {Head(svcQ)}
          /\ Once(jobQ, AskFor(j)) => Once(Append(jobQ, Head(svcQ)), AskFor(j))
      BY <1>1, <2>1, AppendFacts
    <2>5. /\ Range(<<Head(svcQ)>> \o jobQ) = Range(jobQ) \cup {Head(svcQ)}
          /\ Once(jobQ, AskFor(j)) => Once(<<Head(svcQ)>> \o jobQ, AskFor(j))
      BY <1>1, <2>1, FrontFacts
    <2>6. JobCalm(s, j)
      <3>1. CASE jobQ' = jobQ
        BY <3>1, StillCalm
      <3>2. CASE jobQ' = <<Head(svcQ)>> \o jobQ
        <4>1. /\ Range(jobQ') = Range(jobQ) \cup {Head(svcQ)}
              /\ Once(jobQ, AskFor(j)) => Once(jobQ', AskFor(j))
          BY <2>5, <3>2
        <4> QED  BY <2>2, <4>1 DEF JobCalm
      <3>3. CASE jobQ' = Append(jobQ, Head(svcQ))
        <4>1. /\ Range(jobQ') = Range(jobQ) \cup {Head(svcQ)}
              /\ Once(jobQ, AskFor(j)) => Once(jobQ', AskFor(j))
          BY <2>4, <3>3
        <4> QED  BY <2>2, <4>1 DEF JobCalm
      <3> QED  BY <2>3, <3>1, <3>2, <3>3
    <2>7. UNCHANGED inbox
      BY <1>4 DEF SvcIntent
    <2> QED  BY <1>1, <1>3, <2>6, <2>7, StillCalm DEF Calm, jobVars, avars
  <1>5. CASE SvcResult
    <2>1. /\ Head(svcQ).what = "result" /\ jobQ' = Append(jobQ, Plain("taskComplete"))
          /\ inbox' = IF Head(svcQ).reply = NoReply THEN inbox
                      ELSE Append(inbox, Head(svcQ).reply)
      BY <1>5 DEF SvcResult
    <2>2. JobCalm(s, j)
      <3>1. /\ Range(jobQ') = Range(jobQ) \cup {Plain("taskComplete")}
            /\ Once(jobQ, AskFor(j)) => Once(jobQ', AskFor(j))
        <4>1. Plain("taskComplete") \in JobMsgs /\ Plain("taskComplete") # AskFor(j)
          BY SentMessages, PlainMessages
        <4> QED  BY <1>1, <2>1, <4>1, AppendFacts
      <3> QED  BY <3>1, PlainMessages DEF JobCalm
    <2>3. BoxCalm(s, j)
      <3>1. EndWord(Head(svcQ).reply, j) => Settled(s, j)
        BY <1>2, <2>1 DEF At, Told, EndAnswer
      <3>2. UNCHANGED native
        BY <1>1
      <3>3. EndWord(Head(svcQ).reply, j) => Settled(s, j)'
        BY <3>1, <3>2 DEF Settled
      <3>4. Head(svcQ).reply # NoReply => Head(svcQ).reply \in BoxMsgs
        BY <1>2, <2>1, SvcKinds DEF BoxMsgs
      <3>5. CASE Head(svcQ).reply = NoReply
        BY <2>1, <3>5, StillCalm
      <3>6. CASE Head(svcQ).reply # NoReply
        <4>1. Range(inbox') = Range(inbox) \cup {Head(svcQ).reply}
          BY <2>1, <3>4, <3>6, AppendFacts DEF Types
        <4> QED  BY <3>3, <4>1 DEF BoxCalm
      <3> QED  BY <3>5, <3>6
    <2> QED  BY <1>1, <1>3, <2>2, <2>3, StillCalm DEF Calm, jobVars, avars
  <1> QED  BY <1>4, <1>5 DEF SvcStep

(* One more message in a queue.                                            *)
LEMMA CalmSend ==
  ASSUME Types, NEW s, NEW j, NEW m \in SvcMsgs, Send(m), m # AskFor(j), ~EndAnswer(m, j)
  PROVE  SvcCalm(s, j)
  BY SendTypes DEF SvcCalm

LEMMA CalmQueue ==
  ASSUME Types, NEW s, NEW j, NEW m \in JobMsgs, jobQ' = Append(jobQ, m), m # AskFor(j),
         DoneOf(m, j) => Ended(j)'
  PROVE  JobCalm(s, j)
  <1>1. /\ Range(jobQ') = Range(jobQ) \cup {m}
        /\ Once(jobQ, AskFor(j)) => Once(jobQ', AskFor(j))
    BY AppendFacts DEF Types
  <1> QED  BY <1>1 DEF JobCalm

LEMMA CalmReturn ==
  ASSUME Types, NEW s, NEW j \in Jobs, NEW t \in tasks, NEW r \in Words \cup {NoReply},
         Return(t, r), EndWord(r, j) => Settled(s, j)'
  PROVE  SvcCalm(s, j) /\ TaskCalm(s, j)
  <1>1. /\ Range(svcQ') = Range(svcQ) \cup {[what |-> "result", reply |-> r]}
        /\ Once(svcQ, AskFor(j)) => Once(svcQ', AskFor(j))
    BY ReturnTypes DEF AskFor
  <1>2. /\ [what |-> "result", reply |-> r] # AskFor(j)
        /\ EndAnswer([what |-> "result", reply |-> r], j) => EndWord(r, j)
    BY OtherMessages
  <1>3. TaskCalm(s, j)
    BY DEF Return, TaskCalm
  <1> QED  BY <1>1, <1>2, <1>3 DEF SvcCalm

(* A job of the library that is cancelled, and what is told of it.         *)
LEMMA CalmCancel ==
  ASSUME Types, NEW k \in Jobs, NEW s \in Stages,
         native' = [native EXCEPT ![k] = CancelNative(@)],
         jobQ' = IF TellsCancelled(k) THEN Append(jobQ, DoneMsg(k, "CANCELLED")) ELSE jobQ,
         NEW j \in Jobs
  PROVE  /\ NativeCalm(s, j) /\ JobCalm(s, j)
         /\ j = k /\ s \in {"work", "list", "gone"} => Settled(s, j)'
  <1>1. native \in [Jobs -> NativeJob]
    BY DEF Types
  <1>2. NativeCalm(s, j)
    BY <1>1 DEF NativeCalm, CancelNative, NativeJob
  <1>3. j = k /\ s \in {"work", "list", "gone"} => Settled(s, j)'
    BY <1>1 DEF Settled, CancelNative, NativeJob
  <1>4. JobCalm(s, j)
    <2>1. CASE ~TellsCancelled(k)
      BY <2>1, StillCalm
    <2>2. CASE TellsCancelled(k)
      <3>1. DoneMsg(k, "CANCELLED") \in Status /\ DoneMsg(k, "CANCELLED") \in JobMsgs
        BY SentMessages DEF Results
      <3>2. /\ DoneMsg(k, "CANCELLED") # AskFor(j)
            /\ DoneOf(DoneMsg(k, "CANCELLED"), j) => k = j
        BY <3>1, StatusMessages DEF DoneMsg
      <3>3. k = j => Ended(j)'
        BY <1>1, <2>2 DEF TellsCancelled, CancelNative, NativeJob, Ended
      <3> HIDE DEF DoneMsg
      <3> QED  BY <2>2, <3>1, <3>2, <3>3, CalmQueue
    <2> QED  BY <2>1, <2>2
  <1> QED  BY <1>2, <1>3, <1>4

LEMMA CalmLib ==
  ASSUME Types, UNCHANGED avars, NEW s \in Stages, NEW j \in Jobs, At(s, j),
         NEW k \in Jobs, Serve(k) \/ Begin(k) \/ Finish(k) \/ Report(k)
  PROVE  Calm(s, j)
  <1>1. /\ UNCHANGED <<svcQ, scan, tasks, jobVars, inbox, avars>>
        /\ native \in [Jobs -> NativeJob] /\ native[k] \in NativeJob /\ native[j] \in NativeJob
    BY DEF Serve, Begin, Finish, Report, Types
  <1>2. NativeCalm(s, j)
    <2>1. CASE Serve(k)
      BY <1>1, <2>1 DEF Serve, NativeCalm, NativeJob
    <2>2. CASE Begin(k)
      BY <1>1, <2>2 DEF Begin, NativeCalm, NativeJob
    <2>3. CASE Finish(k)
      <3>1. PICK r \in Results : native' = [native EXCEPT ![k].phase = "over", ![k].result = r]
        BY <2>3 DEF Finish
      <3>2. native[k].phase = "served"
        BY <2>3 DEF Finish
      <3> QED  BY <1>1, <3>1, <3>2 DEF NativeCalm, NativeJob
    <2>4. CASE Report(k)
      BY <2>4, StillCalm DEF Report
    <2> QED  BY <2>1, <2>2, <2>3, <2>4
  <1>3. JobCalm(s, j)
    <2>1. ASSUME NEW m \in Status, ToHandler(m), DoneOf(m, j) => Ended(j)'
          PROVE  JobCalm(s, j)
      BY <2>1, CalmQueue, SentMessages, StatusMessages DEF ToHandler
    <2>2. CASE Serve(k)
      BY <2>2, StillCalm DEF Serve
    <2>3. ASSUME NEW w \in {"running", "blocked"},
                 ToHandler(StatusMsg(k, [state |-> w, result |-> "none"]))
          PROVE  JobCalm(s, j)
      <3> DEFINE m == StatusMsg(k, [state |-> w, result |-> "none"])
      <3>1. m \in Status /\ ~DoneOf(m, j)
        BY SentMessages DEF JobStates, DoneOf, StatusMsg
      <3> HIDE DEF m
      <3>2. ToHandler(m)
        BY <2>3 DEF m
      <3> QED  BY <2>1, <3>1, <3>2
    <2>4. CASE ToHandler(PageMsg(k))
      BY <2>1, <2>4, SentMessages, StatusMessages
    <2>5. CASE Finish(k)
      <3>1. PICK r \in Results :
              /\ native' = [native EXCEPT ![k].phase = "over", ![k].result = r]
              /\ ToHandler(DoneMsg(k, r))
        BY <2>5 DEF Finish
      <3>2. DoneMsg(k, r) \in Status /\ (DoneOf(DoneMsg(k, r), j) => k = j)
        BY SentMessages, StatusMessages DEF DoneMsg
      <3>3. k = j => Ended(j)'
        BY <1>1, <3>1 DEF Ended, NativeJob
      <3> QED  BY <2>1, <3>1, <3>2, <3>3
    <2> QED  BY <2>2, <2>3, <2>4, <2>5 DEF Begin, Report
  <1> QED  BY <1>1, <1>2, <1>3, StillCalm DEF Calm, jobVars, avars

LEMMA CalmQuitDelay ==
  ASSUME Types, UNCHANGED avars, NEW s \in Stages, NEW j \in Jobs, At(s, j), QuitDelayOver
  PROVE  Calm(s, j)
  <1>1. UNCHANGED <<svcQ, scan, tasks, jobVars, native, inbox, avars>>
    BY DEF QuitDelayOver
  <1>2. jobQ' = jobQ \/ jobQ' = Append(jobQ, Plain("exit"))
    BY DEF QuitDelayOver
  <1>3. JobCalm(s, j)
    BY <1>2, StillCalm, CalmQueue, SentMessages, PlainMessages
  <1> QED  BY <1>1, <1>3, StillCalm DEF Calm, jobVars, avars

(* The tasks that start a job, once it is one of the library's.            *)
LEMMA CalmStartTasks ==
  ASSUME Types, UNCHANGED avars, NEW s \in Stages, NEW j \in Jobs, At(s, j),
         NEW t \in tasks, StartPages(t) \/ StartAborted(t)
  PROVE  Calm(s, j)
  <1>1. /\ t \in StartTasks /\ t.job \in Jobs /\ t.pc \in {"pages", "abort"}
        /\ native \in [Jobs -> NativeJob]
    BY TaskKinds DEF StartPages, StartAborted, TaskAt, Types
  <1>2. UNCHANGED <<svcQ, scan, jobVars, inbox, avars>>
    BY DEF StartPages, StartAborted
  <1>3. t.job = j => s = "work"
    BY <1>1 DEF At, Route, Starts, StartTasks
  <1>4. CASE StartPages(t)
    <2>1. native' = [native EXCEPT ![t.job].full = TRUE] /\ UNCHANGED jobQ
      BY <1>4 DEF StartPages
    <2>2. NativeCalm(s, j)
      BY <1>1, <2>1 DEF NativeCalm, NativeJob
    <2>3. TaskCalm(s, j)
      BY <1>1, <1>4 DEF StartPages, TaskCalm
    <2> QED  BY <1>2, <2>1, <2>2, <2>3, StillCalm DEF Calm, jobVars, avars
  <1>5. CASE StartAborted(t)
    <2>1. /\ native' = [native EXCEPT ![t.job] = CancelNative(@)]
          /\ jobQ' = IF TellsCancelled(t.job)
                     THEN Append(jobQ, DoneMsg(t.job, "CANCELLED")) ELSE jobQ
          /\ Step(t, "end")
      BY <1>5 DEF StartAborted
    <2>2. /\ NativeCalm(s, j) /\ JobCalm(s, j)
          /\ j = t.job /\ s \in {"work", "list", "gone"} => Settled(s, j)'
      BY <1>1, <2>1, CalmCancel DEF Types
    <2>3. TaskCalm(s, j)
      BY <1>1, <1>3, <2>1, <2>2 DEF TaskCalm
    <2> QED  BY <1>2, <2>2, <2>3, StillCalm DEF Calm, jobVars, avars
  <1> QED  BY <1>4, <1>5

(* The service's process ends with an exception.                           *)
LEMMA CalmCrash ==
  ASSUME NEW s, NEW j,
         UNCHANGED <<svcQ, jobQ, scan, tasks, jobVars, native, inbox, fw, holder, toSend>>
  PROVE  Calm(s, j)
  BY StillCalm DEF Calm, jobVars

(* The tasks that cancel.                                                  *)
LEMMA CalmCancelTasks ==
  ASSUME Types, UNCHANGED avars, NEW s \in Stages, NEW j \in Jobs, At(s, j),
         NEW t \in tasks, CancelFind(t) \/ CancelCall(t) \/ CancelAll(t)
  PROVE  Calm(s, j)
  <1>0. UNCHANGED <<scan, jobList, jobStatus, pending, inbox, avars>>
    BY DEF CancelFind, CancelCall, CancelAll, jobVars
  <1>1. ~EndWord(NoReply, j) /\ NoReply \in Words \cup {NoReply}
    BY OtherMessages
  <1>2. CASE CancelFind(t)
    <2>1. t \in CancelTasks /\ t.job \in Jobs /\ UNCHANGED <<jobQ, canceled, native>>
      BY <1>2, TaskKinds DEF CancelFind, TaskAt, jobVars
    <2>2. CASE life.gone # "no"
      BY <1>0, <1>2, <2>1, <2>2, CalmCrash DEF CancelFind, jobVars, avars
    <2>3. CASE Return(t, NoReply)
      <3>1. SvcCalm(s, j) /\ TaskCalm(s, j)
        BY <1>1, <2>3, CalmReturn
      <3> QED  BY <1>0, <2>1, <3>1, StillCalm DEF Calm, avars
    <2>4. CASE canceled[t.job] /\ Return(t, Request("cancelled", t.job))
      <3>1. EndWord(Request("cancelled", t.job), j) => Settled(s, j)'
        <4>1. EndWord(Request("cancelled", t.job), j) => canceled[j]
          BY <2>4, OtherMessages
        <4> QED  BY <2>1, <4>1 DEF At, Told, Settled
      <3>2. Request("cancelled", t.job) \in Words
        BY <2>1, SentMessages
      <3>3. SvcCalm(s, j) /\ TaskCalm(s, j)
        BY <2>4, <3>1, <3>2, CalmReturn
      <3> QED  BY <1>0, <2>1, <3>3, StillCalm DEF Calm, avars
    <2>5. CASE InList(t.job) /\ Step(t, "cancel") /\ UNCHANGED svcQ
      <3>1. t.job = j => s = "list"
        <4>1. Contains(jobList, j) => j \in Range(jobList)
          BY DEF Contains, Range, Types
        <4> QED  BY <2>5, <4>1 DEF InList, At, Route
      <3>2. TaskCalm(s, j)
        <4> DEFINE u == [t EXCEPT !.pc = "cancel"]
        <4>1. u.what = "cancel" /\ u.job = t.job
          BY <2>1 DEF CancelTasks
        <4>2. tasks' = (tasks \ {t}) \cup {u}
          BY <2>5 DEF Step
        <4> HIDE DEF u
        <4> QED  BY <3>1, <4>1, <4>2 DEF TaskCalm, Starts, Aborts
      <3> QED  BY <1>0, <2>1, <2>5, <3>2, StillCalm DEF Calm, avars
    <2>6. life.gone = "no" =>
            \/ Return(t, NoReply)
            \/ canceled[t.job] /\ Return(t, Request("cancelled", t.job))
            \/ InList(t.job) /\ Step(t, "cancel") /\ UNCHANGED svcQ
      BY <1>2 DEF CancelFind
    <2> QED  BY <2>2, <2>3, <2>4, <2>5, <2>6
  <1>3. CASE CancelCall(t)
    <2>1. t \in CancelTasks /\ t.job \in Jobs /\ t.pc = "cancel"
      BY <1>3, TaskKinds DEF CancelCall, TaskAt
    <2>2. t.job = j => s \in {"list", "gone"}
      BY <2>1 DEF At, Route, Aborts, CancelTasks
    <2>3. /\ native' = [native EXCEPT ![t.job] = CancelNative(@)]
          /\ jobQ' = IF TellsCancelled(t.job)
                     THEN Append(jobQ, DoneMsg(t.job, "CANCELLED")) ELSE jobQ
          /\ canceled' = [canceled EXCEPT ![t.job] = TRUE]
          /\ Return(t, NoReply) \/ Return(t, Request("cancelled", t.job))
      BY <1>3 DEF CancelCall
    <2>4. /\ NativeCalm(s, j) /\ JobCalm(s, j)
          /\ j = t.job /\ s \in {"work", "list", "gone"} => Settled(s, j)'
      BY <2>1, <2>3, CalmCancel
    <2>5. CancelCalm(s, j)
      BY <2>1, <2>2, <2>3, <2>4 DEF CancelCalm, Types
    <2>6. SvcCalm(s, j) /\ TaskCalm(s, j)
      <3>1. CASE Return(t, NoReply)
        BY <1>1, <3>1, CalmReturn
      <3>2. CASE Return(t, Request("cancelled", t.job))
        <4>1. EndWord(Request("cancelled", t.job), j) => Settled(s, j)'
          BY <2>2, <2>4, OtherMessages
        <4>2. Request("cancelled", t.job) \in Words
          BY <2>1, SentMessages
        <4> QED  BY <3>2, <4>1, <4>2, CalmReturn
      <3> QED  BY <2>3, <3>1, <3>2
    <2> QED  BY <1>0, <2>4, <2>5, <2>6, StillCalm DEF Calm, avars
  <1>4. CASE CancelAll(t)
    <2>1. CASE life.gone # "no"
      BY <1>0, <1>4, <2>1, CalmCrash DEF CancelAll, jobVars, avars
    <2>2. CASE life.gone = "no"
      <3>1. PICK toc \in Seq(Jobs), told \in Seq(Jobs) :
              /\ Range(toc) \subseteq Range(jobList)
              /\ Range(told) \subseteq Range(toc)
              /\ \A k \in Range(told) : TellsCancelled(k)
              /\ native' = [k \in Jobs |-> IF k \in Range(toc) THEN CancelNative(native[k])
                                           ELSE native[k]]
              /\ jobQ' = jobQ \o [n \in DOMAIN told |-> DoneMsg(told[n], "CANCELLED")]
              /\ canceled' = [k \in Jobs |-> canceled[k] \/ k \in Range(toc)]
              /\ Return(t, NoReply) /\ UNCHANGED crash
        BY <1>4, <2>2, CancelAllIs
      <3>2. /\ native \in [Jobs -> NativeJob] /\ native[j] \in NativeJob
            /\ native'[j] = IF j \in Range(toc) THEN CancelNative(native[j]) ELSE native[j]
        BY <3>1 DEF Types
      <3>3. NativeCalm(s, j)
        BY <3>2 DEF NativeCalm, CancelNative, NativeJob
      <3>4. j \in Range(toc) => Settled(s, j)'
        <4>1. j \in Range(toc) => s = "list"
          BY <3>1 DEF At, Route
        <4>2. j \in Range(toc) => (native'[j].phase \in {"queued", "served"}
                                   => native'[j].cancel)
          BY <3>2 DEF CancelNative, NativeJob
        <4> QED  BY <4>1, <4>2 DEF Settled
      <3>5. CancelCalm(s, j)
        BY <3>1, <3>4 DEF CancelCalm
      <3>6. JobCalm(s, j)
        <4> DEFINE end == [n \in DOMAIN told |-> DoneMsg(told[n], "CANCELLED")]
        <4>1. /\ Len(told) \in Nat /\ DOMAIN told = 1 .. Len(told)
              /\ \A n \in DOMAIN told : told[n] \in Jobs /\ told[n] \in Range(told)
          BY DEF Range
        <4>2. \A n \in DOMAIN told : /\ DoneMsg(told[n], "CANCELLED") \in Status
                                     /\ DoneMsg(told[n], "CANCELLED") \in JobMsgs
          BY <4>1, SentMessages DEF Results
        <4>3. end \in Seq(JobMsgs) /\ DOMAIN end = DOMAIN told
              /\ \A n \in DOMAIN end : end[n] = DoneMsg(told[n], "CANCELLED")
          <5> HIDE DEF DoneMsg
          <5> QED  BY <4>1, <4>2
        <4> HIDE DEF end
        <4>4. \A m \in Range(end) : m # AskFor(j) /\ (DoneOf(m, j) => j \in Range(told))
          <5> SUFFICES ASSUME NEW n \in DOMAIN end
                       PROVE  end[n] # AskFor(j) /\ (DoneOf(end[n], j) => j \in Range(told))
            BY DEF Range
          <5> QED  BY <4>1, <4>2, <4>3, StatusMessages DEF DoneMsg
        <4>5. j \in Range(told) => Ended(j)'
          BY <3>1, <3>2 DEF TellsCancelled, CancelNative, NativeJob, Ended
        <4>6. /\ Range(jobQ') = Range(jobQ) \cup Range(end)
              /\ Once(jobQ, AskFor(j)) => Once(jobQ', AskFor(j))
          <5>1. jobQ' = jobQ \o end
            BY <3>1 DEF end
          <5>2. AskFor(j) \notin Range(end) /\ jobQ \in Seq(JobMsgs)
            BY <4>4 DEF Types
          <5> QED  BY <4>3, <5>1, <5>2, ConcatFacts
        <4> QED  BY <4>4, <4>5, <4>6 DEF JobCalm
      <3>7. SvcCalm(s, j) /\ TaskCalm(s, j)
        BY <1>1, <3>1, CalmReturn
      <3> QED  BY <1>0, <3>3, <3>5, <3>6, <3>7, StillCalm DEF Calm, avars
    <2> QED  BY <2>1, <2>2
  <1> QED  BY <1>2, <1>3, <1>4

(* The adapter.                                                            *)
LEMMA CalmBinding ==
  ASSUME Types, NEW s \in Stages, NEW j \in Jobs, At(s, j),
         Bind \/ Unbind \/ Connected \/ Destroy \/ OtherClient \/ Die
  PROVE  Calm(s, j)
  <1>1. /\ UNCHANGED <<scan, tasks, jobVars, native, inbox, fw, toSend>>
        /\ native \in [Jobs -> NativeJob] /\ holder \in [Jobs -> Holder]
    BY DEF Bind, Unbind, Connected, Destroy, OtherClient, Die, OnBind, OnUnbind, Send, Types, avars
  <1>2. SvcCalm(s, j)
    <2>1. ASSUME NEW b \in {"bind", "unbind"}, svcQ' = <<Plain(b)>> \o WithoutBinds(svcQ)
          PROVE  SvcCalm(s, j)
      <3>1. /\ Range(svcQ') \subseteq Range(svcQ) \cup {Plain(b)}
            /\ Plain(b) # AskFor(j) /\ ~EndAnswer(Plain(b), j)
        BY <2>1, BindQueue, PlainMessages
      <3>2. Once(svcQ, AskFor(j)) => Once(svcQ', AskFor(j))
        BY <2>1, <3>1, BindQueue
      <3> QED  BY <3>1, <3>2 DEF SvcCalm
    <2>2. ASSUME NEW w \in {"register", "unregister", "cancelAll"}, Send(Plain(w))
          PROVE  SvcCalm(s, j)
      BY <2>2, CalmSend, SentMessages, PlainMessages
    <2>3. CASE Die
      BY <2>3, StillCalm DEF Die
    <2> QED  BY <2>1, <2>2, <2>3 DEF Bind, Unbind, Connected, Destroy, OtherClient, OnBind, OnUnbind
  <1>3. JobCalm(s, j)
    <2>1. CASE UNCHANGED jobQ
      BY <2>1, StillCalm
    <2>2. CASE jobQ' = <<Plain("init")>>
      <3>1. Range(jobQ') = {Plain("init")} /\ Once(jobQ', AskFor(j))
        BY <2>2 DEF Range, Once
      <3> QED  BY <3>1, PlainMessages DEF JobCalm
    <2>3. CASE jobQ' = Append(jobQ, Plain("exit"))
      BY <2>3, CalmQueue, SentMessages, PlainMessages
    <2> QED  BY <2>1, <2>2, <2>3 DEF Bind, Unbind, Connected, Destroy, OtherClient, Die,
                OnBind, OnUnbind, Send
  <1>4. FileCalm(s, j)
    <2>1. CASE Destroy
      <3>1. fw[j] \notin Active
        BY <2>1 DEF Destroy
      <3>2. CASE fw[j] \in Over
        <4>1. Settled(s, j)
          BY <3>2 DEF At, Told
        <4> QED  BY <1>1, <4>1 DEF FileCalm, Settled
      <3>3. CASE fw[j] = "none"
        <4>1. s = "new" /\ native[j].phase = "none"
          BY <3>3 DEF At, Route, PhaseOf
        <4> QED  BY <4>1 DEF FileCalm
      <3> QED  BY <3>1, <3>2, <3>3 DEF Types
    <2>2. CASE UNCHANGED holder
      BY <2>2, StillCalm
    <2> QED  BY <2>1, <2>2 DEF Bind, Unbind, Connected, OtherClient, Die, avars
  <1> QED  BY <1>1, <1>2, <1>3, <1>4, StillCalm DEF Calm, jobVars

LEMMA CalmHear ==
  ASSUME Types, NEW s \in Stages, NEW j \in Jobs, At(s, j), Hear
  PROVE  Calm(s, j)
  <1>1. PICK m \in BoxMsgs, f \in Active \cup Over \cup {"none"}, h \in Holder :
          /\ m \in Range(inbox) /\ m.job \in Jobs
          /\ inbox' \in Seq(BoxMsgs) /\ Range(inbox') \subseteq Range(inbox)
          /\ fw' = [fw EXCEPT ![m.job] = f] /\ holder' = [holder EXCEPT ![m.job] = h]
          /\ f \in Over => \/ fw[m.job] \in Over \/ m.what \in {"printError", "cancelled"}
                           \/ m.what = "news" /\ m.now.state = "done"
          /\ f = "none" => fw[m.job] = "none"
          /\ h.file = holder[m.job].file \/ (m.what = "news" /\ m.now.state = "done")
    BY HearIs
  <1>2. /\ UNCHANGED <<svcQ, jobQ, scan, tasks, jobVars, native, toSend>>
        /\ fw \in [Jobs -> Active \cup Over \cup {"none"}] /\ holder \in [Jobs -> Holder]
    BY DEF Hear, Types
  <1>3. EndWord(m, j) => Settled(s, j)'
    BY <1>1, <1>2 DEF At, Told, Settled
  <1>4. FwCalm(s, j)
    <2>1. CASE m.job # j
      BY <1>1, <1>2, <2>1 DEF FwCalm
    <2>2. CASE m.job = j
      BY <1>1, <1>2, <1>3, <2>2 DEF FwCalm, EndWord
    <2> QED  BY <2>1, <2>2
  <1>5. FileCalm(s, j)
    <2>1. CASE m.job # j
      BY <1>1, <1>2, <2>1 DEF FileCalm
    <2>2. CASE m.job = j
      BY <1>1, <1>2, <1>3, <2>2 DEF FileCalm, EndWord
    <2> QED  BY <2>1, <2>2
  <1>6. BoxCalm(s, j)
    BY <1>1 DEF BoxCalm
  <1> QED  BY <1>2, <1>4, <1>5, <1>6, StillCalm DEF Calm, jobVars

(* A request to cancel, and what is done for another job.                  *)
LEMMA CalmOfJob ==
  ASSUME Types, NEW s \in Stages, NEW j \in Jobs, At(s, j), NEW k \in Jobs,
         \/ RequestCancel(k) \/ SendCancel(k)
         \/ k # j /\ (QueueJob(k) \/ SendJob(k))
  PROVE  Calm(s, j)
  <1>1. /\ UNCHANGED <<jobQ, scan, tasks, jobVars, native, inbox>>
        /\ fw \in [Jobs -> Active \cup Over \cup {"none"}] /\ holder \in [Jobs -> Holder]
    BY DEF RequestCancel, SendCancel, QueueJob, SendJob, Send, Types, svars, jobVars
  <1>2. CASE RequestCancel(k)
    <2>1. UNCHANGED <<svcQ, fw, toSend>>
      BY <1>2 DEF RequestCancel
    <2>2. FileCalm(s, j)
      <3>1. holder' = holder \/ holder' = [holder EXCEPT ![k].user = TRUE]
        BY <1>2 DEF RequestCancel
      <3> QED  BY <1>1, <3>1 DEF FileCalm, Holder
    <2> QED  BY <1>1, <2>1, <2>2, StillCalm DEF Calm, jobVars
  <1>3. CASE SendCancel(k)
    <2>1. UNCHANGED <<fw, holder, toSend>> /\ Send(Request("cancel", k))
      BY <1>3 DEF SendCancel
    <2>2. SvcCalm(s, j)
      <3>1. /\ Request("cancel", k) \in SvcMsgs /\ Request("cancel", k) # AskFor(j)
            /\ ~EndAnswer(Request("cancel", k), j)
        BY SentMessages, OtherMessages
      <3> QED  BY <2>1, <3>1, CalmSend
    <2> QED  BY <1>1, <2>1, <2>2, StillCalm DEF Calm, jobVars
  <1>4. CASE k # j /\ QueueJob(k)
    <2>1. /\ fw'[j] = fw[j] /\ UNCHANGED <<svcQ, holder>>
          /\ j \in toSend' => j \in toSend
      BY <1>1, <1>4 DEF QueueJob, svars
    <2>2. FwCalm(s, j) /\ SendCalm(s, j)
      BY <2>1 DEF FwCalm, SendCalm
    <2> QED  BY <1>1, <2>1, <2>2, StillCalm DEF Calm, jobVars
  <1>5. CASE k # j /\ SendJob(k)
    <2>1. /\ fw'[j] = fw[j] /\ holder'[j] = holder[j]
          /\ j \in toSend' => j \in toSend
          /\ Send(AskFor(k))
      BY <1>1, <1>5 DEF SendJob, AskFor
    <2>2. FwCalm(s, j) /\ SendCalm(s, j) /\ FileCalm(s, j)
      BY <2>1 DEF FwCalm, SendCalm, FileCalm
    <2>3. SvcCalm(s, j)
      <3>1. AskFor(k) \in SvcMsgs /\ AskFor(k) # AskFor(j) /\ ~EndAnswer(AskFor(k), j)
        BY <1>5, SentMessages, OtherMessages DEF AskFor
      <3> QED  BY <2>1, <3>1, CalmSend
    <2> QED  BY <1>1, <2>2, <2>3, StillCalm DEF Calm, jobVars
  <1> QED  BY <1>2, <1>3, <1>4, <1>5

(***************************************************************************)
(* The steps that move a job to its next stage.                            *)
(***************************************************************************)
(* Before the library has the job nobody is told its end.                  *)
Early == {"new", "send", "svc", "job", "start"}

Untold(j) ==
  /\ \A m \in Range(inbox) : ~EndWord(m, j)
  /\ \A m \in Range(svcQ) : ~EndAnswer(m, j)
  /\ fw[j] \notin Over /\ ~canceled[j]
  /\ \A t \in tasks : ~(Starts(t, j) /\ t.pc = "end")
  /\ \A m \in Range(jobQ) : ~DoneOf(m, j)
  /\ \A m \in Range(pending) : ~DoneOf(m, j)
  /\ scan # Idle => ~DoneOf(scan.msg, j)
  /\ jobStatus[j].state # "done"

LEMMA EarlyUntold ==
  ASSUME NEW s \in Early, NEW j, At(s, j)
  PROVE  Untold(j) /\ native[j].phase = "none"
  BY DEF Early, At, Told, Untold, Settled, Ended, PhaseOf

LEMMA UntoldTold == ASSUME NEW s, NEW j, Untold(j) PROVE Told(s, j)
  BY DEF Untold, Told

(* A job of the framework's is copied ...                                  *)
LEMMA MoveQueueJob ==
  ASSUME Types, NEW s \in Stages, NEW j \in Jobs, At(s, j), QueueJob(j)
  PROVE  At("send", j)'
  <1>1. s = "new" /\ fw[j] = "none"
    BY DEF At, Route, QueueJob
  <1>2. Untold(j) /\ native[j].phase = "none"
    BY <1>1, EarlyUntold DEF Early
  <1>3. /\ UNCHANGED <<svcQ, jobQ, scan, tasks, jobVars, native, inbox, holder>>
        /\ fw'[j] = "queued" /\ toSend' = toSend \cup {j}
    BY DEF QueueJob, svars, jobVars, Types
  <1>4. Route("send", j)'
    BY <1>1, <1>3 DEF At, Route, jobVars
  <1>5. Untold(j)'
    BY <1>2, <1>3 DEF Untold, jobVars, Over
  <1>6. PhaseOf("send", j)' /\ FileOf("send", j)'
    BY <1>2, <1>3 DEF PhaseOf, FileOf
  <1> QED  BY <1>4, <1>5, <1>6, UntoldTold DEF At, Told, Untold

(* ... and asked for, which fails when the service's process has died.     *)
LEMMA MoveSendJob ==
  ASSUME Types, NEW s \in Stages, NEW j \in Jobs, At(s, j), SendJob(j)
  PROVE  \E z \in Stages : At(z, j)'
  <1>1. s = "send"
    BY DEF At, Route, SendJob
  <1>2. Untold(j) /\ native[j].phase = "none" /\ fw[j] # "none"
    BY <1>1, EarlyUntold DEF Early, At, Route
  <1>3. /\ UNCHANGED <<jobQ, scan, tasks, jobVars, native, inbox>>
        /\ j \notin toSend' /\ Send(AskFor(j)) /\ holder'[j].file
        /\ fw'[j] = IF crash = "no" THEN fw[j] ELSE FwFail(fw[j])
    BY DEF SendJob, Send, AskFor, jobVars, Types
  <1>4. AskFor(j) \in SvcMsgs /\ ~EndAnswer(AskFor(j), j)
    BY SentMessages, OtherMessages DEF AskFor
  <1>5. CASE crash = "no"
    <2>1. /\ Range(svcQ') = Range(svcQ) \cup {AskFor(j)}
          /\ Once(svcQ', AskFor(j)) /\ AskFor(j) \notin Range(jobQ)
      BY <1>1, <1>3, <1>4, <1>5, SendTypes DEF At, Route
    <2>2. Route("svc", j)'
      BY <1>1, <1>2, <1>3, <1>5, <2>1 DEF At, Route, jobVars
    <2>3. Untold(j)'
      BY <1>2, <1>3, <1>4, <1>5, <2>1 DEF Untold, jobVars
    <2>4. PhaseOf("svc", j)' /\ FileOf("svc", j)'
      BY <1>2, <1>3 DEF PhaseOf, FileOf
    <2>5. At("svc", j)'
      BY <2>2, <2>3, <2>4 DEF At, Told, Untold
    <2> QED  BY <2>5 DEF Stages
  <1>6. CASE crash # "no"
    <2>1. svcQ' = svcQ /\ fw'[j] # "none"
      BY <1>2, <1>3, <1>6 DEF Send, FwFail
    <2>2. Route("gone", j)'
      BY <1>1, <1>3, <2>1 DEF At, Route, jobVars
    <2>3. Settled("gone", j)'
      BY <1>2, <1>3 DEF Settled
    <2>4. Told("gone", j)'
      BY <1>2, <1>3, <2>1, <2>3 DEF Untold, Told, jobVars
    <2>5. PhaseOf("gone", j)' /\ FileOf("gone", j)'
      BY <1>3 DEF PhaseOf, FileOf
    <2>6. At("gone", j)'
      BY <2>2, <2>4, <2>5 DEF At
    <2> QED  BY <2>6 DEF Stages
  <1> QED  BY <1>5, <1>6

(* The request is passed on to the JobHandler ...                          *)
LEMMA MoveSvc ==
  ASSUME Types, UNCHANGED avars, NEW s \in Stages, NEW j \in Jobs, At(s, j),
         SvcStep, svcQ # << >>, Head(svcQ) = AskFor(j)
  PROVE  \E z \in Stages : At(z, j)'
  <1>1. /\ AskFor(j) \in Range(svcQ) /\ Range(svcQ') \subseteq Range(svcQ)
        /\ AskFor(j) \notin Range(svcQ') /\ Once(svcQ', AskFor(j))
        /\ AskFor(j) \in JobMsgs
    <2>1. svcQ' = Tail(svcQ) /\ svcQ \in Seq(SvcMsgs)
      BY DEF SvcStep, SvcIntent, SvcResult, Types
    <2>2. /\ Head(svcQ) \in Range(svcQ) /\ Range(svcQ') \subseteq Range(svcQ)
          /\ \A m : Once(svcQ, m) => Once(svcQ', m)
          /\ \A m : Once(svcQ, m) /\ Head(svcQ) = m => m \notin Range(svcQ')
      BY <2>1, TailFacts
    <2> QED  BY <2>2, SentMessages DEF At, Route, AskFor
  <1>2. s = "svc"
    BY <1>1 DEF At, Route
  <1>3. Untold(j) /\ native[j].phase = "none"
    BY <1>2, EarlyUntold DEF Early
  <1>4. /\ UNCHANGED <<scan, tasks, jobVars, native, inbox, avars>>
        /\ jobQ' = jobQ \/ jobQ' = Append(jobQ, AskFor(j))
    <2>1. Head(svcQ).what = "print"
      BY OtherMessages
    <2>2. SvcIntent
      BY <2>1 DEF SvcStep, SvcResult
    <2>3. UNCHANGED <<scan, tasks, jobVars, native, inbox, avars>>
      BY <2>2 DEF SvcIntent
    <2>4. \/ jobQ' = jobQ
          \/ jobQ' = IF Head(svcQ).what \in Priority THEN <<Head(svcQ)>> \o jobQ
                     ELSE Append(jobQ, Head(svcQ))
      BY <2>2 DEF SvcIntent
    <2>5. jobQ' = jobQ \/ jobQ' = Append(jobQ, AskFor(j))
      <3>1. Head(svcQ).what \notin Priority
        BY <2>1 DEF Priority
      <3>2. jobQ' = jobQ \/ jobQ' = Append(jobQ, Head(svcQ))
        BY <2>4, <3>1
      <3> QED  BY <3>2
    <2> QED  BY <2>3, <2>5
  <1>5. Untold(j)'
    <2>1. Range(jobQ') \subseteq Range(jobQ) \cup {AskFor(j)} /\ ~DoneOf(AskFor(j), j)
      <3>1. jobQ \in Seq(JobMsgs)
        BY DEF Types
      <3>2. Range(Append(jobQ, AskFor(j))) = Range(jobQ) \cup {AskFor(j)}
        BY <1>1, <3>1, AppendFacts
      <3>3. ~DoneOf(AskFor(j), j)
        BY DEF DoneOf, AskFor, Request
      <3> QED  BY <1>4, <3>2, <3>3
    <2> QED  BY <1>1, <1>3, <1>4, <2>1 DEF Untold, jobVars, avars
  <1>6. CASE jobQ' = jobQ
    <2>1. Route("svc", j)'
      BY <1>1, <1>2, <1>4, <1>6 DEF At, Route, jobVars, avars
    <2>2. PhaseOf("svc", j)' /\ FileOf("svc", j)'
      BY <1>2, <1>3, <1>4 DEF At, PhaseOf, FileOf, avars
    <2>3. At("svc", j)'
      BY <1>5, <2>1, <2>2 DEF At, Told, Untold
    <2> QED  BY <2>3 DEF Stages
  <1>7. CASE jobQ' = Append(jobQ, AskFor(j))
    <2>1. AskFor(j) \notin Range(jobQ) /\ Once(jobQ', AskFor(j))
      BY <1>1, <1>2, <1>7, AppendFacts DEF At, Route, Types
    <2>2. Route("job", j)'
      BY <1>1, <1>2, <1>4, <2>1 DEF At, Route, jobVars, avars
    <2>3. PhaseOf("job", j)' /\ FileOf("job", j)'
      BY <1>2, <1>3, <1>4 DEF At, PhaseOf, FileOf, avars
    <2>4. At("job", j)'
      BY <1>5, <2>2, <2>3 DEF At, Told, Untold
    <2> QED  BY <2>4 DEF Stages
  <1> QED  BY <1>4, <1>6, <1>7

(* ... which makes a task of it.                                           *)
LEMMA MoveExecute ==
  ASSUME Types, UNCHANGED avars, NEW s \in Stages, NEW j \in Jobs, At(s, j), JobExecute("print")
  PROVE  \E z \in Stages : At(z, j)'
  <1>1. /\ Head(jobQ) \in Range(jobQ) /\ Range(jobQ') \subseteq Range(jobQ)
        /\ \A m : Once(jobQ, m) => Once(jobQ', m)
        /\ \A m : Once(jobQ, m) /\ Head(jobQ) = m => m \notin Range(jobQ')
        /\ Head(jobQ).job \in Jobs /\ Head(jobQ) = AskFor(Head(jobQ).job)
    BY JobHead, JobKinds DEF JobExecute, AskFor
  <1> DEFINE k == Head(jobQ).job
             u == [what |-> "print", job |-> k, pc |-> "start"]
  <1>2. /\ UNCHANGED <<svcQ, scan, jobVars, native, inbox, avars>> /\ tasks' = tasks \cup {u}
    BY DEF JobExecute, Task, FirstPc
  <1>3. u.what = "print" /\ u.job = k /\ u.pc = "start"
    OBVIOUS
  <1> HIDE DEF u, k
  <1>4. CASE k # j
    <2>1. TaskCalm(s, j)
      BY <1>2, <1>3, <1>4 DEF TaskCalm, Starts, Aborts
    <2>2. JobCalm(s, j)
      BY <1>1 DEF JobCalm
    <2>3. Calm(s, j)
      BY <1>2, <2>1, <2>2, StillCalm DEF Calm, jobVars, avars
    <2> QED  BY <2>3, CalmKeeps
  <1>5. CASE k = j
    <2>1. Head(jobQ) = AskFor(j)
      BY <1>1, <1>5 DEF k
    <2>2. s = "job" /\ AskFor(j) \notin Range(jobQ') /\ Once(jobQ', AskFor(j))
      BY <1>1, <2>1 DEF At, Route
    <2>3. Untold(j) /\ native[j].phase = "none"
      BY <2>2, EarlyUntold DEF Early
    <2>4. Untold(j)'
      BY <1>1, <1>2, <1>3, <2>3 DEF Untold, jobVars, avars, Starts
    <2>5. Route("start", j)'
      BY <1>2, <1>3, <1>5, <2>2 DEF At, Route, jobVars, avars, Starts, Aborts
    <2>6. PhaseOf("start", j)' /\ FileOf("start", j)'
      BY <1>2, <2>2, <2>3 DEF At, PhaseOf, FileOf, avars
    <2>7. At("start", j)'
      BY <2>4, <2>5, <2>6 DEF At, Told, Untold
    <2> QED  BY <2>7 DEF Stages
  <1> QED  BY <1>4, <1>5

(* The task: the library has no job for it, or gets one ...                *)
LEMMA MoveStart ==
  ASSUME Types, UNCHANGED avars, NEW s \in Stages, NEW j \in Jobs, At(s, j),
         NEW t \in tasks, StartRefused(t) \/ StartNative(t)
  PROVE  \E z \in Stages : At(z, j)'
  <1>1. /\ t \in StartTasks /\ t.what = "print" /\ t.job \in Jobs /\ t.pc = "start"
        /\ UNCHANGED <<jobQ, scan, jobVars, inbox, avars>>
        /\ native \in [Jobs -> NativeJob]
    BY TaskKinds DEF StartRefused, StartNative, TaskAt, StartTasks, Types
  <1>2. Request("printError", t.job) \in Words
    BY <1>1, SentMessages
  <1>3. CASE t.job # j
    <2>1. CASE StartRefused(t)
      <3>1. ~EndWord(Request("printError", t.job), j) /\ UNCHANGED native
            /\ Return(t, Request("printError", t.job))
        BY <1>3, <2>1, OtherMessages DEF StartRefused
      <3>2. SvcCalm(s, j) /\ TaskCalm(s, j)
        BY <1>2, <3>1, CalmReturn
      <3>3. Calm(s, j)
        BY <1>1, <3>1, <3>2, StillCalm DEF Calm, jobVars, avars
      <3> QED  BY <3>3, CalmKeeps
    <2>2. CASE StartNative(t)
      <3>1. /\ UNCHANGED svcQ /\ Step(t, "pages")
            /\ native' = [native EXCEPT ![t.job].phase = "queued"]
        BY <2>2 DEF StartNative
      <3>2. NativeCalm(s, j)
        BY <1>1, <1>3, <3>1 DEF NativeCalm
      <3>3. TaskCalm(s, j)
        <4> DEFINE u == [t EXCEPT !.pc = "pages"]
        <4>1. u.what = "print" /\ u.job = t.job
          BY <1>1 DEF StartTasks
        <4>2. tasks' = (tasks \ {t}) \cup {u}
          BY <3>1 DEF Step
        <4> HIDE DEF u
        <4> QED  BY <1>3, <4>1, <4>2 DEF TaskCalm, Starts, Aborts
      <3>4. Calm(s, j)
        BY <1>1, <3>1, <3>2, <3>3, StillCalm DEF Calm, jobVars, avars
      <3> QED  BY <3>4, CalmKeeps
    <2> QED  BY <2>1, <2>2
  <1>4. CASE t.job = j
    <2>1. s = "start" /\ \A u \in tasks : Starts(u, j) => u = t
      BY <1>1, <1>4 DEF At, Route, Starts
    <2>2. Untold(j) /\ native[j].phase = "none"
      BY <2>1, EarlyUntold DEF Early
    <2>3. CASE StartRefused(t)
      <3>1. UNCHANGED native /\ Return(t, Request("printError", j))
        BY <1>4, <2>3 DEF StartRefused
      <3>2. /\ Range(svcQ') = Range(svcQ) \cup {[what |-> "result", reply |-> Request("printError", j)]}
            /\ Once(svcQ, AskFor(j)) => Once(svcQ', AskFor(j))
        BY <1>2, <1>4, <3>1, ReturnTypes DEF AskFor
      <3>3. [what |-> "result", reply |-> Request("printError", j)] # AskFor(j)
        BY OtherMessages
      <3>4. tasks' = tasks \ {t}
        BY <3>1 DEF Return
      <3>5. Route("gone", j)'
        BY <1>1, <2>1, <3>2, <3>3, <3>4 DEF At, Route, jobVars, avars
      <3>6. Settled("gone", j)' /\ PhaseOf("gone", j)' /\ FileOf("gone", j)'
        BY <2>2, <3>1 DEF Settled, PhaseOf, FileOf
      <3>7. Told("gone", j)'
        BY <1>1, <2>2, <3>1, <3>4, <3>6 DEF Untold, Told, jobVars, avars
      <3>8. At("gone", j)'
        BY <3>5, <3>6, <3>7 DEF At
      <3> QED  BY <3>8 DEF Stages
    <2>4. CASE StartNative(t)
      <3>1. /\ UNCHANGED svcQ /\ Step(t, "pages")
            /\ native' = [native EXCEPT ![j].phase = "queued"]
        BY <1>4, <2>4 DEF StartNative
      <3>2. native'[j].phase = "queued" /\ holder'[j].file
        BY <1>1, <2>1, <3>1 DEF At, FileOf, NativeJob, avars
      <3> DEFINE u == [t EXCEPT !.pc = "pages"]
      <3>3. u.what = "print" /\ u.job = j /\ u.pc = "pages"
        BY <1>1, <1>4 DEF StartTasks
      <3>4. tasks' = (tasks \ {t}) \cup {u}
        BY <3>1 DEF Step
      <3> HIDE DEF u
      <3>5. Route("work", j)'
        BY <1>1, <2>1, <3>1, <3>3, <3>4 DEF At, Route, Starts, Aborts, jobVars, avars
      <3>6. Untold(j)'
        BY <1>1, <2>2, <3>1, <3>3, <3>4 DEF Untold, Starts, jobVars, avars
      <3>7. PhaseOf("work", j)' /\ FileOf("work", j)'
        BY <3>2 DEF PhaseOf, FileOf
      <3>8. Told("work", j)'
        BY <3>6 DEF Told, Untold
      <3>9. At("work", j)'
        BY <3>5, <3>7, <3>8 DEF At
      <3> QED  BY <3>9 DEF Stages
    <2> QED  BY <2>3, <2>4
  <1> QED  BY <1>3, <1>4

(* ... which comes into the list, or is forgotten.                         *)
LEMMA MoveAdd ==
  ASSUME Types, UNCHANGED avars, NEW s \in Stages, NEW j \in Jobs, At(s, j),
         NEW t \in tasks, StartAdd(t) \/ StartForgotten(t)
  PROVE  \E z \in Stages : At(z, j)'
  <1>1. /\ t \in StartTasks /\ t.what = "print" /\ t.job \in Jobs /\ t.pc \in {"add", "end"}
        /\ UNCHANGED <<jobQ, scan, canceled, jobStatus, pending, inbox, avars>>
        /\ native \in [Jobs -> NativeJob]
    BY TaskKinds DEF StartAdd, StartForgotten, TaskAt, StartTasks, Types, jobVars
  <1>2. /\ Request("printError", t.job) \in Words
        /\ NoReply \in Words \cup {NoReply} /\ ~EndWord(NoReply, j)
    BY <1>1, SentMessages, OtherMessages
  <1>3. t.job = j => s = "work" /\ \A u \in tasks : Starts(u, j) => u = t
    BY <1>1 DEF At, Route, Starts
  <1>4. CASE StartAdd(t) /\ life.gone # "no"
    <2>1. Calm(s, j)
      BY <1>1, <1>4, CalmCrash DEF StartAdd, jobVars, avars
    <2> QED  BY <2>1, CalmKeeps
  <1>5. CASE StartAdd(t) /\ life.gone = "no"
    <2>1. jobList' = Append(jobList, t.job) /\ Return(t, NoReply) /\ UNCHANGED native
      BY <1>5 DEF StartAdd
    <2>2. Range(jobList') = Range(jobList) \cup {t.job}
      BY <1>1, <2>1, AppendFacts DEF Types
    <2>3. SvcCalm(s, j) /\ TaskCalm(s, j)
      BY <1>2, <2>1, CalmReturn
    <2>4. CASE t.job # j
      <3>1. ListCalm(s, j)
        BY <2>2, <2>4 DEF ListCalm
      <3>2. Calm(s, j)
        BY <1>1, <2>1, <2>3, <3>1, StillCalm DEF Calm, avars
      <3> QED  BY <3>2, CalmKeeps
    <2>5. CASE t.job = j
      <3>1. s = "work" /\ tasks' = tasks \ {t} /\ \A u \in tasks' : ~Starts(u, j)
        BY <1>3, <2>1, <2>5 DEF Return
      <3>2. Settled("work", j) => Settled("list", j)'
        BY <2>1 DEF Settled
      <3>3. Route("list", j)'
        BY <1>1, <2>3, <3>1 DEF At, Route, SvcCalm, avars
      <3>4. PhaseOf("list", j)' /\ FileOf("list", j)'
        BY <1>1, <2>1, <3>1 DEF At, PhaseOf, FileOf, avars
      <3>5. \A m \in Range(svcQ') : EndAnswer(m, j) => Settled("list", j)'
        <4>1. Settled("work", j)' => Settled("list", j)'
          BY DEF Settled
        <4> QED  BY <2>3, <3>1, <3>2, <4>1 DEF At, Told, SvcCalm
      <3>6. Told("list", j)'
        BY <1>1, <2>1, <3>1, <3>2, <3>5 DEF At, Told, Ended, avars
      <3>7. At("list", j)'
        BY <3>3, <3>4, <3>6 DEF At
      <3> QED  BY <3>7 DEF Stages
    <2> QED  BY <2>4, <2>5
  <1>6. CASE StartForgotten(t)
    <2>1. /\ native' = [native EXCEPT ![t.job] = [EndJob(@) EXCEPT !.kept = FALSE]]
          /\ Return(t, Request("printError", t.job)) /\ UNCHANGED jobList /\ t.pc = "end"
      BY <1>6 DEF StartForgotten, TaskAt, jobVars
    <2>2. CASE t.job # j
      <3>1. ~EndWord(Request("printError", t.job), j)
        BY <2>2, OtherMessages
      <3>2. SvcCalm(s, j) /\ TaskCalm(s, j)
        BY <1>2, <2>1, <3>1, CalmReturn
      <3>3. NativeCalm(s, j)
        BY <1>1, <2>1, <2>2 DEF NativeCalm
      <3>4. Calm(s, j)
        BY <1>1, <2>1, <3>2, <3>3, StillCalm DEF Calm, avars
      <3> QED  BY <3>4, CalmKeeps
    <2>3. CASE t.job = j
      <3>1. s = "work" /\ tasks' = tasks \ {t} /\ \A u \in tasks' : ~Starts(u, j)
        BY <1>3, <2>1, <2>3 DEF Return
      <3>2. Settled("work", j)
        BY <1>1, <2>1, <2>3, <3>1 DEF At, Told, Starts
      <3>3. /\ native[j] \in NativeJob
            /\ native'[j].phase = IF native[j].phase = "over" THEN "free" ELSE native[j].phase
            /\ native'[j].cancel = native[j].cancel
        BY <1>1, <2>1, <2>3 DEF EndJob, NativeJob
      <3>4. Settled("gone", j)' /\ (Ended(j) => Ended(j)')
        BY <3>2, <3>3 DEF Settled, Ended
      <3>5. SvcCalm("gone", j)
        BY <1>2, <2>1, <3>4, CalmReturn DEF Stages
      <3>6. Route("gone", j)'
        BY <1>1, <2>1, <3>1, <3>5 DEF At, Route, SvcCalm, avars
      <3>7. PhaseOf("gone", j)' /\ FileOf("gone", j)'
        BY <3>4 DEF PhaseOf, FileOf, Settled
      <3>8. Told("gone", j)'
        BY <1>1, <3>1, <3>4 DEF At, Told, avars
      <3>9. At("gone", j)'
        BY <3>6, <3>7, <3>8 DEF At
      <3> QED  BY <3>9 DEF Stages
    <2> QED  BY <2>2, <2>3
  <1> QED  BY <1>4, <1>5, <1>6

(* A status: the job leaves the list when it is done.                      *)
LEMMA MoveProcess ==
  ASSUME Types, UNCHANGED avars, NEW s \in Stages, NEW j \in Jobs, At(s, j),
         UNCHANGED <<svcQ, tasks, canceled>>,
         NEW m \in Status, InList(m.job), Process(m),
         DoneOf(m, j) => Ended(j),
         JobCalm(s, j), PendCalm(s, j), ScanCalm(s, j)
  PROVE  \E z \in Stages : At(z, j)'
  <1> DEFINE k == m.job
             now == IF m.page THEN jobStatus[k] ELSE m.now
  <1>1. /\ m.what = "status" /\ k \in Jobs /\ now \in JobStates \cup {NoStatus}
        /\ m.page = TRUE => m.now = NoStatus
        /\ m.page \in BOOLEAN
    BY StatusKinds DEF Types
  <1>2. /\ jobStatus' = [jobStatus EXCEPT ![k] = now]
        /\ inbox' = inbox \/ inbox' = Append(inbox, News(k, now))
        /\ IsDone(m) => /\ native' = [native EXCEPT ![k] = EndJob(@)]
                        /\ jobList' = Without(jobList, k)
        /\ ~IsDone(m) => UNCHANGED <<native, jobList>>
    BY DEF Process
  <1>3. /\ IsDone(m) => now.state = "done"
        /\ now.state = "done" /\ ~IsDone(m) => jobStatus[k].state = "done"
    BY <1>1 DEF IsDone, NoStatus
  <1>4. DoneOf(m, j) <=> k = j /\ IsDone(m)
    BY <1>1 DEF DoneOf, IsDone
  <1>5. /\ jobStatus \in [Jobs -> JobStates \cup {NoStatus}] /\ native \in [Jobs -> NativeJob]
        /\ jobList \in Seq(Jobs) /\ inbox \in Seq(BoxMsgs)
    BY DEF Types
  <1>6. k = j => s = "list" /\ jobStatus[j].state # "done"
    <2>1. Contains(jobList, j) => j \in Range(jobList)
      BY <1>5 DEF Contains, Range
    <2> QED  BY <2>1 DEF InList, At, Route, Told
  <1>7. /\ Range(Without(jobList, k)) \subseteq Range(jobList)
        /\ k \notin Range(Without(jobList, k))
    <2> DEFINE K == {i \in DOMAIN jobList : jobList[i] # k}
    <2>1. K \in SUBSET DOMAIN jobList /\ \A i \in K : jobList[i] # k
      OBVIOUS
    <2>2. Without(jobList, k) = Kept(jobList, K)
      BY DEF Without
    <2> HIDE DEF K
    <2>3. Range(Kept(jobList, K)) = {jobList[i] : i \in K}
      BY <1>5, <2>1, KeptFacts
    <2> QED  BY <2>1, <2>2, <2>3 DEF Range
  <1>8. /\ Range(inbox') \subseteq Range(inbox) \cup {News(k, now)}
        /\ EndWord(News(k, now), j) => k = j /\ now.state = "done"
    <2>1. News(k, now) \in BoxMsgs
      BY <1>1, SentMessages
    <2>2. EndWord(News(k, now), j) => k = j /\ now.state = "done"
      BY DEF EndWord, News
    <2> HIDE DEF k, now
    <2>3. Range(Append(inbox, News(k, now))) = Range(inbox) \cup {News(k, now)}
      BY <1>5, <2>1, AppendFacts
    <2> QED  BY <1>2, <2>2, <2>3
  <1> HIDE DEF k, now
  <1>9. CASE k = j /\ IsDone(m)
    <2>1. s = "list" /\ Ended(j) /\ native[j].phase \in {"queued", "served", "over"}
      BY <1>4, <1>6, <1>9 DEF At, PhaseOf
    <2>2. native'[j].phase = "free"
      BY <1>2, <1>5, <1>9, <2>1 DEF Ended, EndJob, NativeJob
    <2>3. Settled("gone", j)' /\ Ended(j)' /\ PhaseOf("gone", j)' /\ FileOf("gone", j)'
      BY <2>2 DEF Settled, Ended, PhaseOf, FileOf
    <2>4. Route("gone", j)'
      BY <1>2, <1>7, <1>9, <2>1 DEF At, Route, JobCalm, avars
    <2>5. Told("gone", j)'
      BY <1>9, <2>1, <2>2, <2>3 DEF At, Told, JobCalm, PendCalm, ScanCalm, avars
    <2>6. At("gone", j)'
      BY <2>3, <2>4, <2>5 DEF At
    <2> QED  BY <2>6 DEF Stages
  <1>10. CASE ~(k = j /\ IsDone(m))
    <2>1. NativeCalm(s, j)
      BY <1>2, <1>5, <1>10 DEF NativeCalm
    <2>2. ListCalm(s, j)
      BY <1>2, <1>7 DEF ListCalm
    <2>3. BoxCalm(s, j)
      BY <1>3, <1>6, <1>8, <1>10 DEF BoxCalm
    <2>4. StatusCalm(s, j)
      BY <1>1, <1>2, <1>3, <1>5, <1>6, <1>10 DEF StatusCalm
    <2>5. Calm(s, j)
      BY <2>1, <2>2, <2>3, <2>4, StillCalm DEF Calm, avars
    <2> QED  BY <2>5, CalmKeeps
  <1> QED  BY <1>9, <1>10

LEMMA MoveConclude ==
  ASSUME Types, UNCHANGED avars, NEW s \in Stages, NEW j \in Jobs, At(s, j),
         UNCHANGED <<svcQ, tasks, canceled>>, JobCalm(s, j),
         NEW m \in Scanned, NEW left \in Seq(Status), Range(left) \subseteq Range(pending),
         DoneOf(m, j) => Ended(j), Conclude(m, left)
  PROVE  \E z \in Stages : At(z, j)'
  <1>1. ScanCalm(s, j)
    BY DEF Conclude, ScanCalm
  <1>2. m.what = "status" => m \in Status
    BY DEF Scanned, Plain
  <1>3. CASE m.what = "status" /\ InList(m.job)
    <2>1. Process(m) /\ pending' = left
      BY <1>3 DEF Conclude
    <2>2. PendCalm(s, j)
      BY <2>1 DEF PendCalm
    <2> QED  BY <1>1, <1>2, <1>3, <2>1, <2>2, MoveProcess
  <1>4. CASE ~(m.what = "status" /\ InList(m.job))
    <2>1. Ignore /\ pending' = IF m.what = "status" THEN Append(left, m) ELSE left
      BY <1>4 DEF Conclude
    <2>2. Range(pending') \subseteq Range(left) \cup {m}
      BY <1>2, <2>1, AppendFacts
    <2>3. Ended(j) => Ended(j)'
      BY <2>1 DEF Ignore, Ended
    <2>4. PendCalm(s, j)
      BY <2>2, <2>3 DEF PendCalm
    <2>5. Calm(s, j)
      BY <1>1, <2>1, <2>4, StillCalm DEF Calm, Ignore, avars
    <2> QED  BY <2>5, CalmKeeps
  <1> QED  BY <1>3, <1>4

LEMMA MoveStatus ==
  ASSUME Types, UNCHANGED avars, NEW s \in Stages, NEW j \in Jobs, At(s, j),
         \/ \E w \in {"status", "taskComplete"} : JobStatusMsg(w)
         \/ JobScan \/ JobStatusEnd
  PROVE  \E z \in Stages : At(z, j)'
  <1>1. ASSUME NEW w \in {"status", "taskComplete"}, JobStatusMsg(w)
        PROVE  \E z \in Stages : At(z, j)'
    <2>1. /\ scan = Idle /\ Head(jobQ) \in JobMsgs /\ Head(jobQ) \in Range(jobQ)
          /\ Head(jobQ).what = w /\ Range(jobQ') \subseteq Range(jobQ)
          /\ \A m : Once(jobQ, m) => Once(jobQ', m)
          /\ UNCHANGED <<svcQ, tasks, canceled>>
      BY <1>1, JobHead DEF JobStatusMsg
    <2>2. Head(jobQ) \in Scanned /\ (DoneOf(Head(jobQ), j) => Ended(j))
      BY <2>1, JobKinds DEF Scanned, At, Told
    <2>3. JobCalm(s, j)
      BY <2>1 DEF JobCalm
    <2>4. CASE pending = << >>
      <3>1. Conclude(Head(jobQ), << >>) /\ << >> \in Seq(Status)
            /\ Range(<< >>) \subseteq Range(pending)
        BY <1>1, <2>4 DEF JobStatusMsg
      <3> QED  BY <2>1, <2>2, <2>3, <3>1, MoveConclude
    <2>5. CASE pending # << >>
      <3>1. /\ scan' = [at |-> 1, msg |-> Head(jobQ), found |-> {}]
            /\ Ignore /\ UNCHANGED pending
        BY <1>1, <2>5 DEF JobStatusMsg
      <3>2. ScanCalm(s, j)
        BY <2>2, <3>1 DEF ScanCalm, Ignore, Ended
      <3>3. Calm(s, j)
        BY <2>1, <2>3, <3>1, <3>2, StillCalm DEF Calm, Ignore, avars
      <3> QED  BY <3>3, CalmKeeps
    <2> QED  BY <2>4, <2>5
  <1>2. CASE JobScan
    <2>1. /\ scan # Idle /\ scan.at \in DOMAIN pending /\ UNCHANGED <<svcQ, jobQ, tasks, canceled, pending>>
      BY <1>2 DEF JobScan
    <2>2. pending[scan.at] \in Status /\ pending[scan.at] \in Range(pending)
      BY <2>1, ScanIs
    <2>3. ScanCalm(s, j)
      <3>1. \/ scan' = [scan EXCEPT !.at = @ + 1, !.found = @ \cup {scan.at}]
            \/ scan' = [scan EXCEPT !.at = @ + 1]
        BY <1>2 DEF JobScan
      <3>2. scan'.msg = scan.msg
        BY <2>1, <3>1, ScanIs
      <3> QED  BY <2>1, <3>2 DEF ScanCalm
    <2>4. JobCalm(s, j) /\ PendCalm(s, j)
      BY <2>1, StillCalm
    <2>5. CASE InList(pending[scan.at].job)
      <3>1. Process(pending[scan.at]) /\ (DoneOf(pending[scan.at], j) => Ended(j))
        BY <1>2, <2>2, <2>5 DEF JobScan, At, Told
      <3> QED  BY <2>1, <2>2, <2>3, <2>4, <2>5, <3>1, MoveProcess
    <2>6. CASE ~InList(pending[scan.at].job)
      <3>1. Ignore
        BY <1>2, <2>6 DEF JobScan
      <3>2. Calm(s, j)
        BY <2>1, <2>3, <2>4, <3>1, StillCalm DEF Calm, Ignore, avars
      <3> QED  BY <3>2, CalmKeeps
    <2> QED  BY <2>5, <2>6
  <1>3. CASE JobStatusEnd
    <2>1. /\ scan # Idle /\ Conclude(scan.msg, StillPending)
          /\ UNCHANGED <<svcQ, jobQ, tasks, canceled>>
      BY <1>3 DEF JobStatusEnd
    <2>2. /\ scan.msg \in Scanned /\ StillPending \in Seq(Status)
          /\ Range(StillPending) \subseteq Range(pending)
      BY <2>1, ScanIs, StillPendingIs
    <2>3. DoneOf(scan.msg, j) => Ended(j)
      BY <2>1 DEF At, Told
    <2>4. JobCalm(s, j)
      BY <2>1, StillCalm
    <2> HIDE DEF StillPending
    <2> QED  BY <2>1, <2>2, <2>3, <2>4, MoveConclude
  <1> QED  BY <1>1, <1>2, <1>3

(* A new service has none of the jobs of the one that died.                *)
LEMMA MoveDisconnected ==
  ASSUME Types, NEW s \in Stages, NEW j \in Jobs, At(s, j), Disconnected
  PROVE  \E z \in Stages : At(z, j)'
  <1>1. /\ svcQ' = << >> /\ jobQ' = << >> /\ scan' = Idle /\ tasks' = {}
        /\ jobList' = << >> /\ pending' = << >>
        /\ canceled'[j] = FALSE /\ jobStatus'[j] = NoStatus /\ native'[j] = NoNative
        /\ UNCHANGED <<inbox, fw, holder, toSend>>
    BY DEF Disconnected
  <1>2. /\ Range(svcQ') = {} /\ Range(jobQ') = {} /\ Range(jobList') = {} /\ Range(pending') = {}
        /\ \A m : Once(svcQ', m) /\ Once(jobQ', m)
    BY <1>1 DEF Range, Once
  <1>3. /\ native'[j].phase = "none" /\ jobStatus'[j].state # "done"
    BY <1>1 DEF NoNative, NoStatus
  <1>4. CASE s \in {"new", "send"}
    <2>1. Untold(j)
      BY <1>4, EarlyUntold DEF Early
    <2>2. Untold(j)'
      BY <1>1, <1>2, <1>3, <2>1 DEF Untold
    <2>3. Route(s, j)'
      BY <1>1, <1>2, <1>4 DEF At, Route
    <2>4. PhaseOf(s, j)' /\ FileOf(s, j)'
      BY <1>3, <1>4 DEF PhaseOf, FileOf
    <2>5. At(s, j)'
      BY <2>2, <2>3, <2>4 DEF At, Told, Untold
    <2> QED  BY <2>5
  <1>5. CASE s \notin {"new", "send"}
    <2>1. Route("gone", j)'
      BY <1>1, <1>2, <1>5 DEF At, Route
    <2>2. Settled("gone", j)' /\ PhaseOf("gone", j)' /\ FileOf("gone", j)'
      BY <1>3 DEF Settled, PhaseOf, FileOf
    <2>3. Told("gone", j)'
      BY <1>1, <1>2, <1>3, <2>2 DEF Told
    <2>4. At("gone", j)'
      BY <2>1, <2>2, <2>3 DEF At
    <2> QED  BY <2>4 DEF Stages
  <1> QED  BY <1>4, <1>5

(* Every step: each job has a stage after it.                              *)
LEMMA JobsInit == Init => JobsInv
  <1> SUFFICES ASSUME Init, NEW j \in Jobs PROVE At("new", j)
    BY DEF JobsInv, Stages
  <1>1. /\ Range(svcQ) = {} /\ Range(jobQ) = {} /\ Range(jobList) = {} /\ Range(pending) = {}
        /\ Range(inbox) = {} /\ \A m : Once(svcQ, m) /\ Once(jobQ, m)
    BY DEF Init, ServiceInit, Range, Once
  <1>2. /\ fw[j] = "none" /\ toSend = {} /\ tasks = {} /\ native[j].phase = "none"
        /\ canceled[j] = FALSE /\ scan = Idle /\ jobStatus[j].state # "done"
    BY DEF Init, ServiceInit, NoNative, NoStatus
  <1>3. Untold(j)
    BY <1>1, <1>2 DEF Untold, Over
  <1>4. Route("new", j)
    BY <1>1, <1>2 DEF Route
  <1>5. PhaseOf("new", j) /\ FileOf("new", j)
    BY <1>2 DEF PhaseOf, FileOf
  <1> QED  BY <1>3, <1>4, <1>5, UntoldTold DEF At

LEMMA JobsNext == Types /\ JobsInv /\ [Next]_vars => JobsInv'
  <1> SUFFICES ASSUME Types, [Next]_vars, NEW j \in Jobs, NEW s \in Stages, At(s, j)
               PROVE  \E z \in Stages : At(z, j)'
    BY DEF JobsInv
  <1> DEFINE Goes == \E z \in Stages : At(z, j)'
  <1>0. Calm(s, j) => Goes
    BY CalmKeeps
  <1>1. CASE UNCHANGED vars
    <2>1. Calm(s, j)
      BY <1>1, StillCalm DEF Calm, vars, svars, avars
    <2> QED  BY <1>0, <2>1
  <1>2. CASE Bind \/ Unbind \/ Connected \/ Destroy \/ OtherClient \/ Die
    <2>1. Calm(s, j)
      BY <1>2, CalmBinding
    <2> QED  BY <1>0, <2>1
  <1>3. CASE Hear
    BY <1>0, <1>3, CalmHear
  <1>4. CASE Disconnected
    BY <1>4, MoveDisconnected
  <1>5. ASSUME NEW k \in Jobs, QueueJob(k) \/ SendJob(k) \/ RequestCancel(k) \/ SendCancel(k)
        PROVE  Goes
    <2>1. CASE k = j /\ QueueJob(k)
      <3>1. At("send", j)'
        BY <2>1, MoveQueueJob
      <3> QED  BY <3>1 DEF Stages
    <2>2. CASE k = j /\ SendJob(k)
      BY <2>2, MoveSendJob
    <2>3. CASE RequestCancel(k) \/ SendCancel(k) \/ (k # j /\ (QueueJob(k) \/ SendJob(k)))
      <3>1. Calm(s, j)
        BY <2>3, CalmOfJob
      <3> QED  BY <1>0, <3>1
    <2> QED  BY <1>5, <2>1, <2>2, <2>3
  <1>6. CASE SvcStep /\ UNCHANGED avars
    <2>1. svcQ # << >>
      BY <1>6 DEF SvcStep, SvcIntent, SvcResult
    <2>2. CASE Head(svcQ) = AskFor(j)
      BY <1>6, <2>1, <2>2, MoveSvc
    <2>3. CASE Head(svcQ) # AskFor(j)
      <3>1. Calm(s, j)
        BY <1>6, <2>3, CalmSvc
      <3> QED  BY <1>0, <3>1
    <2> QED  BY <2>2, <2>3
  <1>7. CASE JobStep /\ UNCHANGED avars
    <2>1. CASE JobExecute("print")
      BY <1>7, <2>1, MoveExecute
    <2>2. CASE \/ JobInit \/ JobExecute("cancel") \/ JobExecute("cancelAll")
               \/ \E w \in {"register", "unregister"} : JobRegister(w)
               \/ JobBind \/ JobExit
      <3>1. Calm(s, j)
        BY <1>7, <2>2, CalmJobPlain
      <3> QED  BY <1>0, <3>1
    <2>3. CASE \/ \E w \in {"status", "taskComplete"} : JobStatusMsg(w)
               \/ JobScan \/ JobStatusEnd
      BY <1>7, <2>3, MoveStatus
    <2> QED  BY <1>7, <2>1, <2>2, <2>3 DEF JobStep
  <1>8. ASSUME NEW t \in tasks, TaskStep(t), UNCHANGED avars
        PROVE  Goes
    <2>1. CASE StartRefused(t) \/ StartNative(t)
      BY <1>8, <2>1, MoveStart
    <2>2. CASE StartAdd(t) \/ StartForgotten(t)
      BY <1>8, <2>2, MoveAdd
    <2>3. CASE StartPages(t) \/ StartAborted(t)
      <3>1. Calm(s, j)
        BY <1>8, <2>3, CalmStartTasks
      <3> QED  BY <1>0, <3>1
    <2>4. CASE CancelFind(t) \/ CancelCall(t) \/ CancelAll(t)
      <3>1. Calm(s, j)
        BY <1>8, <2>4, CalmCancelTasks
      <3> QED  BY <1>0, <3>1
    <2> QED  BY <1>8, <2>1, <2>2, <2>3, <2>4 DEF TaskStep
  <1>9. ASSUME NEW k \in Jobs, LibStep(k) \/ Report(k), UNCHANGED avars
        PROVE  Goes
    <2>1. Calm(s, j)
      BY <1>9, CalmLib DEF LibStep
    <2> QED  BY <1>0, <2>1
  <1>10. CASE QuitDelayOver /\ UNCHANGED avars
    <2>1. Calm(s, j)
      BY <1>10, CalmQuitDelay
    <2> QED  BY <1>0, <2>1
  <1>11. UNCHANGED vars => Goes
    BY <1>1
  <1>12. (Bind \/ Unbind \/ Connected \/ Destroy \/ OtherClient \/ Die => Goes)
         /\ (Hear \/ Disconnected => Goes)
    BY <1>2, <1>3, <1>4
  <1>13. /\ SvcStep /\ UNCHANGED avars => Goes
         /\ JobStep /\ UNCHANGED avars => Goes
         /\ QuitDelayOver /\ UNCHANGED avars => Goes
    BY <1>6, <1>7, <1>10
  <1> HIDE DEF Goes
  <1>14. Client => Goes
    BY <1>5, <1>12 DEF Client
  <1>15. ServiceNext /\ UNCHANGED avars => Goes
    BY <1>8, <1>9, <1>13 DEF ServiceNext
  <1>16. Goes
    BY <1>11, <1>14, <1>15 DEF Next
  <1> QED  BY <1>16 DEF Goes

LEMMA JobsAlways == Spec => [](Types /\ JobsInv)
  <1>1. Init => Types /\ JobsInv
    BY TypesInit, JobsInit
  <1>2. Types /\ JobsInv /\ [Next]_vars => (Types /\ JobsInv)'
    BY TypesNext, JobsNext
  <1> QED  BY <1>1, <1>2, PTL DEF Spec

(* The stage of a job says that its handle and its document are good.      *)
LEMMA JobsImply ==
  ASSUME Types, JobsInv
  PROVE  HandlesAreLive /\ DocumentOutlivesJob
  <1> SUFFICES ASSUME NEW j \in Jobs, NEW s \in Stages, At(s, j)
               PROVE  /\ InList(j) => native[j].phase \in {"queued", "served", "over"}
                      /\ native[j].phase \in {"queued", "served"} /\ ~native[j].cancel
                         => holder[j].file
    BY DEF JobsInv, HandlesAreLive, DocumentOutlivesJob
  <1>1. InList(j) => j \in Range(jobList)
    BY DEF InList, Contains, Range, Types
  <1> QED  BY <1>1 DEF At, Route, PhaseOf, FileOf

(***************************************************************************)
(* The registration of the adapter: who has asked for it, and what of it   *)
(* is still on its way.                                                    *)
(***************************************************************************)
Reg   == Plain("register")
Unreg == Plain("unregister")
Exit  == Plain("exit")

NoReg   == Reg \notin Range(svcQ) /\ Reg \notin Range(jobQ)
OnceReg == /\ Once(svcQ, Reg) /\ Once(jobQ, Reg)
           /\ Reg \in Range(svcQ) => Reg \notin Range(jobQ)
Unregs  == Unreg \in Range(svcQ) \/ Unreg \in Range(jobQ)

(* The last message for the JobHandler has no unregistration behind it.    *)
NoneBehind(q) == \A i, k \in DOMAIN q : q[i] = Exit /\ q[k] = Unreg => k < i

Heard == \E m \in Range(inbox) : m.what = "news"
Shown == \E j \in Jobs : fw[j] = "completed"

(* Before the first bind, nothing of the service moves.                    *)
Asleep ==
  /\ ~life.made /\ ~life.bound /\ ~quitPosted
  /\ svcQ = << >> /\ jobQ = << >> /\ inbox = << >> /\ scan = Idle /\ tasks = {}
  /\ \A j \in Jobs : native[j].phase = "none"

(* The service lives as long as the adapter is bound to it.                *)
Attached ==
  /\ adapter # "destroyed" => life.gone = "no" /\ crash # "service"
  /\ adapter = "created" => Asleep
  /\ adapter \in {"binding", "connected"} => life.bound
  /\ Exit \in Range(jobQ) => life.gone # "no"
  /\ NoneBehind(jobQ)

(* The registration is sent once; when it has arrived, and before any job  *)
(* is heard of, it is not on its way; and the adapter takes it back last.  *)
Ordered ==
  /\ adapter \in {"created", "binding"} => NoReg /\ ~registered
  /\ registered => NoReg
  /\ OnceReg
  /\ Heard \/ Shown => NoReg /\ adapter \notin {"created", "binding"}
  /\ (adapter = "destroyed" /\ crash = "no" /\ Shown) => Unregs \/ ~registered

RegInv == ~died => Attached /\ Ordered

(* The letters of a registration are in a queue as they were in another,   *)
(* and no more of them than there were.                                    *)
Letters(q, r) ==
  /\ Reg \in Range(r) => Reg \in Range(q)
  /\ Unreg \in Range(q) => Unreg \in Range(r)
  /\ Exit \in Range(r) => Exit \in Range(q)
  /\ Once(q, Reg) => Once(r, Reg)
Letter(m) == m.what \in {"register", "unregister", "exit"}

LEMMA LetterIs == \A m : ~Letter(m) => m # Reg /\ m # Unreg /\ m # Exit
  BY DEF Letter, Reg, Unreg, Exit, Plain

LEMMA SameLetters ==
  ASSUME NEW S, NEW q \in Seq(S)
  PROVE  /\ Letters(q, q)
         /\ \A x \in S : ~Letter(x) =>
              /\ Letters(q, Append(q, x))
              /\ NoneBehind(q) => NoneBehind(Append(q, x))
         /\ q # << >> /\ ~Letter(Head(q)) => Letters(q, Tail(q))
         /\ q # << >> /\ NoneBehind(q) =>
              /\ NoneBehind(Tail(q))
              /\ Head(q) = Exit => Unreg \notin Range(q)
         /\ \A x \in S : x # Exit /\ NoneBehind(q) => NoneBehind(<<x>> \o q)
         /\ \A x \in S : x # Unreg /\ NoneBehind(q) => NoneBehind(Append(q, x))
         /\ \A r \in Seq(S) : (\A m \in Range(r) : ~Letter(m)) =>
              /\ Letters(q, q \o r)
              /\ NoneBehind(q) => NoneBehind(q \o r)
  <1>1. Letters(q, q)
    BY DEF Letters
  <1>2. Len(q) \in Nat /\ DOMAIN q = 1 .. Len(q)
    OBVIOUS
  <1>3. ASSUME NEW x \in S, x # Unreg, NoneBehind(q)
        PROVE  NoneBehind(Append(q, x))
    <2>1. /\ DOMAIN Append(q, x) = 1 .. Len(q) + 1 /\ Append(q, x)[Len(q) + 1] = x
          /\ \A i \in DOMAIN q : Append(q, x)[i] = q[i]
      OBVIOUS
    <2>2. ASSUME NEW i \in DOMAIN Append(q, x), NEW k \in DOMAIN Append(q, x),
                 Append(q, x)[i] = Exit, Append(q, x)[k] = Unreg
          PROVE  k < i
      <3>1. k \in DOMAIN q /\ q[k] = Unreg
        BY <1>2, <1>3, <2>1, <2>2
      <3>2. CASE i \in DOMAIN q
        BY <1>3, <2>1, <2>2, <3>1, <3>2 DEF NoneBehind
      <3>3. CASE i = Len(q) + 1
        BY <1>2, <3>1, <3>3
      <3> QED  BY <1>2, <2>1, <3>2, <3>3
    <2> QED  BY <2>2 DEF NoneBehind
  <1>4. ASSUME NEW x \in S, ~Letter(x)
        PROVE  /\ Letters(q, Append(q, x))
               /\ NoneBehind(q) => NoneBehind(Append(q, x))
    <2>1. x # Reg /\ x # Unreg /\ x # Exit
      BY <1>4, LetterIs
    <2>2. /\ Range(Append(q, x)) = Range(q) \cup {x}
          /\ \A m : Once(q, m) /\ (x = m => m \notin Range(q)) => Once(Append(q, x), m)
      BY AppendFacts
    <2> QED  BY <1>3, <2>1, <2>2 DEF Letters
  <1>5. ASSUME q # << >>, ~Letter(Head(q))
        PROVE  Letters(q, Tail(q))
    <2>1. Head(q) # Reg /\ Head(q) # Unreg /\ Head(q) # Exit
      BY <1>5, LetterIs
    <2> QED  BY <1>5, <2>1, TailFacts DEF Letters
  <1>6. ASSUME q # << >>, NoneBehind(q)
        PROVE  /\ NoneBehind(Tail(q))
               /\ Head(q) = Exit => Unreg \notin Range(q)
    <2>1. \A i \in DOMAIN Tail(q) : i + 1 \in DOMAIN q /\ Tail(q)[i] = q[i + 1] /\ i \in Int
      BY <1>6
    <2>2. NoneBehind(Tail(q))
      <3>1. ASSUME NEW i \in DOMAIN Tail(q), NEW k \in DOMAIN Tail(q),
                   Tail(q)[i] = Exit, Tail(q)[k] = Unreg
            PROVE  k < i
        <4>1. k + 1 < i + 1 /\ k \in Int /\ i \in Int
          BY <1>6, <2>1, <3>1 DEF NoneBehind
        <4> QED  BY <4>1
      <3> QED  BY <3>1 DEF NoneBehind
    <2>3. ASSUME Head(q) = Exit, Unreg \in Range(q)
          PROVE  FALSE
      <3>1. PICK k \in DOMAIN q : q[k] = Unreg
        BY <2>3 DEF Range
      <3>2. 1 \in DOMAIN q /\ q[1] = Exit
        BY <1>2, <1>6, <2>3
      <3>3. k < 1
        BY <1>6, <3>1, <3>2 DEF NoneBehind
      <3> QED  BY <1>2, <3>3
    <2> QED  BY <2>2, <2>3
  <1>7. ASSUME NEW x \in S, x # Exit, NoneBehind(q)
        PROVE  NoneBehind(<<x>> \o q)
    <2> DEFINE r == <<x>> \o q
    <2>1. /\ r[1] = x /\ DOMAIN r = 1 .. Len(q) + 1
          /\ \A i \in DOMAIN r : i = 1 \/ (i - 1 \in DOMAIN q /\ r[i] = q[i - 1])
      OBVIOUS
    <2> HIDE DEF r
    <2>2. ASSUME NEW i \in DOMAIN r, NEW k \in DOMAIN r, r[i] = Exit, r[k] = Unreg
          PROVE  k < i
      <3>1. i - 1 \in DOMAIN q /\ q[i - 1] = Exit /\ i \in Int /\ k \in Int
        BY <1>2, <1>7, <2>1, <2>2
      <3>2. CASE k = 1
        BY <1>2, <3>1, <3>2
      <3>3. CASE k - 1 \in DOMAIN q /\ r[k] = q[k - 1]
        <4>1. k - 1 < i - 1
          BY <1>7, <2>2, <3>1, <3>3 DEF NoneBehind
        <4> QED  BY <3>1, <4>1
      <3> QED  BY <2>1, <3>2, <3>3
    <2> QED  BY <2>2 DEF NoneBehind, r
  <1>8. ASSUME NEW r \in Seq(S), \A m \in Range(r) : ~Letter(m)
        PROVE  /\ Letters(q, q \o r)
               /\ NoneBehind(q) => NoneBehind(q \o r)
    <2>1. Reg \notin Range(r) /\ Unreg \notin Range(r) /\ Exit \notin Range(r)
      BY <1>8, LetterIs
    <2>2. /\ Range(q \o r) = Range(q) \cup Range(r)
          /\ \A m : Once(q, m) /\ m \notin Range(r) => Once(q \o r, m)
      BY ConcatFacts
    <2>3. ASSUME NoneBehind(q)
          PROVE  NoneBehind(q \o r)
      <3>1. /\ DOMAIN r = 1 .. Len(r) /\ DOMAIN (q \o r) = 1 .. Len(q) + Len(r)
            /\ Len(r) \in Nat
            /\ \A i \in DOMAIN q : (q \o r)[i] = q[i]
            /\ \A i \in DOMAIN r : (q \o r)[Len(q) + i] = r[i]
        OBVIOUS
      <3>2. \A i \in DOMAIN (q \o r) : \/ i \in DOMAIN q /\ (q \o r)[i] = q[i]
                                       \/ i - Len(q) \in DOMAIN r /\ (q \o r)[i] = r[i - Len(q)]
        BY <1>2, <3>1
      <3> QED  BY <2>1, <2>3, <3>2 DEF NoneBehind, Range
    <2> QED  BY <2>1, <2>2, <2>3 DEF Letters
  <1> QED  BY <1>1, <1>3, <1>4, <1>5, <1>6, <1>7, <1>8

(* A step that sends nothing of a registration and takes nothing of it     *)
(* away.                                                                   *)
Quiet ==
  /\ UNCHANGED <<adapter, died>>
  /\ crash' = "no" => crash = "no"
  /\ crash' = "service" => crash = "service" \/ life.gone # "no"
  /\ adapter # "destroyed" => life'.gone = life.gone /\ (life.bound => life'.bound)
  /\ life.gone # "no" => life'.gone # "no"
  /\ Exit \in Range(jobQ') => Exit \in Range(jobQ) \/ life'.gone # "no"
  /\ NoneBehind(jobQ')
  /\ NoReg => NoReg'
  /\ OnceReg'
  /\ registered' => registered
  /\ crash' = "no" /\ Unregs /\ registered' => Unregs'
  /\ Heard' => Heard \/ registered
  /\ Shown' => Shown \/ (Heard /\ adapter # "destroyed")

LEMMA QuietKeeps ==
  ASSUME RegInv, Quiet, ~died /\ adapter = "created" => Asleep'
  PROVE  RegInv'
  <1> SUFFICES ASSUME ~died PROVE Attached' /\ Ordered'
    BY DEF RegInv, Quiet
  <1>1. Attached /\ Ordered
    BY DEF RegInv
  <1>2. Attached'
    BY <1>1 DEF Attached, Quiet
  <1>3. Ordered'
    <2>1. /\ adapter' \in {"created", "binding"} => NoReg' /\ ~registered'
          /\ registered' => NoReg'
          /\ OnceReg'
      BY <1>1 DEF Ordered, Quiet
    <2>2. Heard' \/ Shown' => NoReg' /\ adapter' \notin {"created", "binding"}
      <3>1. registered => NoReg /\ adapter \notin {"created", "binding"}
        BY <1>1 DEF Ordered
      <3> QED  BY <1>1, <3>1 DEF Ordered, Quiet
    <2>3. (adapter' = "destroyed" /\ crash' = "no" /\ Shown') => Unregs' \/ ~registered'
      BY <1>1 DEF Ordered, Quiet
    <2> QED  BY <2>1, <2>2, <2>3 DEF Ordered
  <1> QED  BY <1>2, <1>3

(* What is quiet about a step that leaves a part alone.                    *)
LEMMA QuietQueues ==
  ASSUME Types, RegInv, ~died, Letters(svcQ, svcQ'), Letters(jobQ, jobQ')
  PROVE  /\ NoReg => NoReg'
         /\ OnceReg'
         /\ Unregs => Unregs'
         /\ Exit \in Range(jobQ') => Exit \in Range(jobQ)
  BY DEF RegInv, Ordered, Letters, NoReg, OnceReg, Unregs

LEMMA QuietTold ==
  ASSUME UNCHANGED <<fw, inbox>>
  PROVE  (Heard' => Heard) /\ (Shown' => Shown)
  BY DEF Heard, Shown

LEMMA SvcStays ==
  ASSUME Types PROVE Letters(svcQ, svcQ) /\ Letters(jobQ, jobQ)
  BY DEF Letters

LEMMA JobBehind == ASSUME RegInv, ~died PROVE NoneBehind(jobQ)
  BY DEF RegInv, Attached

(* The main thread.                                                        *)
LEMMA QuietSvc ==
  ASSUME Types, RegInv, ~died, SvcStep, UNCHANGED avars
  PROVE  Quiet
  <1> DEFINE m == Head(svcQ)
  <1>1. /\ svcQ \in Seq(SvcMsgs) /\ jobQ \in Seq(JobMsgs) /\ inbox \in Seq(BoxMsgs)
        /\ svcQ # << >> /\ svcQ' = Tail(svcQ)
    BY DEF Types, SvcStep, SvcIntent, SvcResult
  <1>2. /\ m \in SvcMsgs /\ m \in Range(svcQ) /\ Range(svcQ') \subseteq Range(svcQ)
        /\ Once(svcQ, Reg) => Once(svcQ', Reg)
        /\ Once(svcQ, Reg) /\ m = Reg => Reg \notin Range(svcQ')
        /\ Unreg \in Range(svcQ) => m = Unreg \/ Unreg \in Range(svcQ')
    BY <1>1, TailFacts
  <1>3. OnceReg /\ NoneBehind(jobQ) /\ Letters(jobQ, jobQ)
    BY JobBehind, SvcStays DEF RegInv, Ordered
  <1>4. UNCHANGED <<registered, life, fw, adapter, died>>
    BY DEF SvcStep, SvcIntent, SvcResult, avars
  <1> HIDE DEF m
  <1>5. CASE ~Letter(m) /\ UNCHANGED jobQ /\ UNCHANGED <<inbox, crash>>
    <2>1. Letters(svcQ, svcQ')
      BY <1>1, <1>5, SameLetters DEF m
    <2>2. NoneBehind(jobQ') /\ Letters(jobQ, jobQ')
      BY <1>3, <1>5
    <2> QED  BY <1>4, <1>5, <2>1, <2>2, QuietQueues, QuietTold DEF Quiet
  <1>6. CASE life.gone # "no" /\ crash' = "service" /\ UNCHANGED <<jobQ, inbox>>
    <2>1. NoneBehind(jobQ')
      BY <1>3, <1>6
    <2>2. (NoReg => NoReg') /\ OnceReg'
      BY <1>2, <1>3, <1>6 DEF NoReg, OnceReg
    <2> QED  BY <1>4, <1>6, <2>1, <2>2, QuietTold DEF Quiet
  <1>7. CASE /\ m.what \notin {"result", "unbind"} /\ life.gone = "no" /\ UNCHANGED <<inbox, crash>>
             /\ jobQ' = IF m.what \in Priority THEN <<m>> \o jobQ ELSE Append(jobQ, m)
    <2>1. m \in JobMsgs /\ m # Exit /\ (m = Unreg <=> m.what = "unregister")
      BY <1>2, <1>7, SvcKinds, JobKinds DEF Exit, Unreg, Plain, Intents
    <2>2. /\ Range(jobQ') = Range(jobQ) \cup {m}
          /\ \A x : Once(jobQ, x) /\ (m = x => m \notin Range(jobQ)) => Once(jobQ', x)
      BY <1>1, <1>7, <2>1, AppendFacts, FrontFacts
    <2>3. NoneBehind(jobQ')
      BY <1>1, <1>3, <1>7, <2>1, SameLetters DEF Priority
    <2>4. NoReg => NoReg'
      BY <1>2, <2>2 DEF NoReg
    <2>5. OnceReg'
      BY <1>2, <1>3, <2>2 DEF OnceReg
    <2>6. Unregs => Unregs'
      BY <1>2, <2>2 DEF Unregs
    <2> QED  BY <1>4, <1>7, <2>1, <2>2, <2>3, <2>4, <2>5, <2>6, QuietTold DEF Quiet
  <1>8. CASE SvcIntent
    <2>1. \/ m.what = "unbind" /\ UNCHANGED jobQ /\ UNCHANGED <<inbox, crash>>
          \/ life.gone # "no" /\ crash' = "service" /\ UNCHANGED <<jobQ, inbox>>
          \/ /\ m.what \notin {"result", "unbind"} /\ life.gone = "no" /\ UNCHANGED <<inbox, crash>>
             /\ jobQ' = IF m.what \in Priority THEN <<m>> \o jobQ ELSE Append(jobQ, m)
      BY <1>8 DEF SvcIntent, m
    <2> QED  BY <1>5, <1>6, <1>7, <2>1 DEF Letter
  <1>9. CASE SvcResult
    <2>1. m.what = "result" /\ jobQ' = Append(jobQ, Plain("taskComplete")) /\ UNCHANGED crash
          /\ inbox' = IF m.reply = NoReply THEN inbox ELSE Append(inbox, m.reply)
      BY <1>9 DEF SvcResult, m
    <2>2. Letters(svcQ, svcQ')
      BY <1>1, <2>1, SameLetters DEF m, Letter
    <2>3. NoneBehind(jobQ') /\ Letters(jobQ, jobQ')
      <3>1. Plain("taskComplete") \in JobMsgs /\ ~Letter(Plain("taskComplete"))
        BY SentMessages DEF Letter, Plain
      <3> QED  BY <1>1, <1>3, <2>1, <3>1, SameLetters
    <2>4. Heard' => Heard
      <3>1. CASE m.reply = NoReply
        BY <2>1, <3>1 DEF Heard
      <3>2. CASE m.reply # NoReply
        <4>1. m.reply \in Words /\ m.reply \in BoxMsgs /\ m.reply.what # "news"
          BY <1>2, <2>1, <3>2, SvcKinds DEF Words, BoxMsgs
        <4>2. Range(inbox') = Range(inbox) \cup {m.reply}
          BY <1>1, <2>1, <3>2, <4>1, AppendFacts
        <4> QED  BY <4>1, <4>2 DEF Heard
      <3> QED  BY <3>1, <3>2
    <2>5. Shown' => Shown
      BY <1>4 DEF Shown
    <2> QED  BY <1>4, <2>1, <2>2, <2>3, <2>4, <2>5, QuietQueues DEF Quiet
  <1> QED  BY <1>8, <1>9 DEF SvcStep

(* What processStatus tells is told to a client that is registered.        *)
LEMMA NewsAreAsked ==
  ASSUME Types, NEW s \in Status, Process(s)
  PROVE  Heard' => Heard \/ registered
  <1>1. CASE ~registered
    <2>1. inbox' = inbox
      BY <1>1 DEF Process
    <2> QED  BY <2>1 DEF Heard
  <1> QED  BY <1>1 DEF Types

LEMMA ConcludeAsked ==
  ASSUME Types, NEW m \in Scanned, NEW left, Conclude(m, left)
  PROVE  Heard' => Heard \/ registered
  <1>1. CASE m.what = "status" /\ InList(m.job)
    <2>1. m \in Status /\ Process(m)
      BY <1>1 DEF Conclude, Scanned, Plain
    <2> QED  BY <2>1, NewsAreAsked
  <1>2. CASE ~(m.what = "status" /\ InList(m.job))
    <2>1. inbox' = inbox
      BY <1>2 DEF Conclude, Ignore
    <2> QED  BY <2>1 DEF Heard
  <1> QED  BY <1>1, <1>2

(* The JobHandler, but for a registration.                                 *)
LEMMA QuietJob ==
  ASSUME Types, RegInv, ~died, JobStep, UNCHANGED avars, ~JobRegister("register")
  PROVE  Quiet
  <1>1. /\ Letters(svcQ, svcQ) /\ Letters(jobQ, jobQ) /\ NoneBehind(jobQ)
        /\ jobQ \in Seq(JobMsgs) /\ OnceReg
    BY SvcStays, JobBehind DEF Types, RegInv, Ordered
  <1>2. UNCHANGED <<svcQ, crash, fw, adapter, died>> /\ (Shown' => Shown)
    <2>1. UNCHANGED <<svcQ, crash, fw, adapter, died>>
      BY DEF JobStep, JobInit, JobExecute, JobRegister, JobBind, JobExit, JobStatusMsg, JobScan,
             JobStatusEnd, avars
    <2> QED  BY <2>1 DEF Shown
  <1>3. ASSUME NEW w, JobMsg(w), w \notin {"register", "unregister", "exit"},
               UNCHANGED <<registered, life>>, Heard' => Heard \/ registered
        PROVE  Quiet
    <2>1. Head(jobQ).what = w /\ jobQ # << >> /\ jobQ' = Tail(jobQ)
      BY <1>3 DEF JobMsg
    <2>2. Letters(jobQ, jobQ') /\ NoneBehind(jobQ')
      BY <1>1, <1>3, <2>1, SameLetters DEF Letter
    <2> QED  BY <1>1, <1>2, <1>3, <2>2, QuietQueues DEF Quiet
  <1>4. ASSUME UNCHANGED <<jobQ, registered, life>>, Heard' => Heard \/ registered
        PROVE  Quiet
    BY <1>1, <1>2, <1>4, QuietQueues DEF Quiet
  <1>5. UNCHANGED inbox => (Heard' => Heard)
    BY DEF Heard
  <1>6. CASE JobInit \/ (\E w \in {"print", "cancel", "cancelAll"} : JobExecute(w)) \/ JobBind
    <2>1. PICK w \in {"init", "print", "cancel", "cancelAll", "bind"} :
             JobMsg(w) /\ UNCHANGED <<registered, life, inbox>>
      BY <1>6 DEF JobInit, JobExecute, JobBind
    <2> QED  BY <1>3, <1>5, <2>1
  <1>7. CASE JobRegister("unregister")
    <2>1. JobMsg("unregister") /\ registered' = FALSE /\ UNCHANGED <<life, inbox>>
      BY <1>7 DEF JobRegister
    <2>2. /\ jobQ # << >> /\ jobQ' = Tail(jobQ) /\ Range(jobQ') \subseteq Range(jobQ)
          /\ \A m : Once(jobQ, m) => Once(jobQ', m)
      BY <2>1, JobHead
    <2>3. NoneBehind(jobQ')
      BY <1>1, <2>2, SameLetters
    <2>4. (NoReg => NoReg') /\ OnceReg' /\ (Exit \in Range(jobQ') => Exit \in Range(jobQ))
      BY <1>1, <1>2, <2>2 DEF NoReg, OnceReg
    <2> QED  BY <1>2, <1>5, <2>1, <2>3, <2>4 DEF Quiet
  <1>8. CASE JobExit
    <2>1. /\ jobQ # << >> /\ Head(jobQ).what = "exit" /\ jobQ' = << >>
          /\ life' = [life EXCEPT !.gone = "exited"] /\ UNCHANGED <<registered, inbox>>
      BY <1>8 DEF JobExit
    <2>2. Head(jobQ) = Exit /\ Head(jobQ) \in Range(jobQ)
      BY <1>1, <2>1, TailFacts, JobKinds DEF Exit
    <2>3. Unreg \notin Range(jobQ) /\ life.gone # "no" /\ adapter = "destroyed"
      BY <1>1, <2>1, <2>2, SameLetters DEF RegInv, Attached
    <2>4. Range(jobQ') = {} /\ (\A m : Once(jobQ', m)) /\ NoneBehind(jobQ')
      BY <2>1 DEF Range, Once, NoneBehind
    <2>5. life'.gone = "exited"
      BY <2>1 DEF Types, Lives
    <2>6. (NoReg => NoReg') /\ OnceReg' /\ (Unregs => Unregs')
      BY <1>1, <1>2, <2>3, <2>4 DEF NoReg, OnceReg, Unregs
    <2> QED  BY <1>2, <1>5, <2>1, <2>3, <2>4, <2>5, <2>6 DEF Quiet
  <1>9. CASE \E w \in {"status", "taskComplete"} : JobStatusMsg(w)
    <2>1. PICK w \in {"status", "taskComplete"} : JobStatusMsg(w)
      BY <1>9
    <2>2. JobMsg(w) /\ UNCHANGED <<registered, life>>
      BY <2>1 DEF JobStatusMsg
    <2>3. Heard' => Heard \/ registered
      <3>1. CASE pending = << >>
        <4>1. Conclude(Head(jobQ), << >>)
          BY <2>1, <3>1 DEF JobStatusMsg
        <4>2. Head(jobQ) \in Scanned
          <5>1. Head(jobQ) \in JobMsgs /\ Head(jobQ).what = w
            BY <2>2, JobHead
          <5> QED  BY <5>1, JobKinds DEF Scanned
        <4> QED  BY <4>1, <4>2, ConcludeAsked
      <3>2. CASE pending # << >>
        BY <1>5, <2>1, <3>2 DEF JobStatusMsg, Ignore
      <3> QED  BY <3>1, <3>2
    <2> QED  BY <1>3, <2>2, <2>3
  <1>10. CASE JobScan
    <2>1. UNCHANGED <<jobQ, registered, life>> /\ scan # Idle /\ scan.at \in DOMAIN pending
      BY <1>10 DEF JobScan
    <2>2. Heard' => Heard \/ registered
      <3>1. pending[scan.at] \in Status
        BY <2>1, ScanIs
      <3>2. CASE InList(pending[scan.at].job)
        BY <1>10, <3>1, <3>2, NewsAreAsked DEF JobScan
      <3>3. CASE ~InList(pending[scan.at].job)
        BY <1>5, <1>10, <3>3 DEF JobScan, Ignore
      <3> QED  BY <3>2, <3>3
    <2> QED  BY <1>4, <2>1, <2>2
  <1>11. CASE JobStatusEnd
    <2>1. UNCHANGED <<jobQ, registered, life>> /\ scan # Idle /\ Conclude(scan.msg, StillPending)
      BY <1>11 DEF JobStatusEnd
    <2>2. Heard' => Heard \/ registered
      <3>1. scan.msg \in Scanned
        BY <2>1, ScanIs
      <3> HIDE DEF StillPending
      <3> QED  BY <2>1, <3>1, ConcludeAsked
    <2> QED  BY <1>4, <2>1, <2>2
  <1> QED  BY <1>6, <1>7, <1>8, <1>9, <1>10, <1>11 DEF JobStep

(* The registration arrives.                                               *)
LEMMA RegArrives ==
  ASSUME Types, RegInv, ~died, JobRegister("register"), UNCHANGED avars
  PROVE  RegInv'
  <1>1. /\ JobMsg("register") /\ registered' = TRUE /\ jobQ # << >> /\ jobQ' = Tail(jobQ)
        /\ UNCHANGED <<svcQ, scan, tasks, life, native, inbox, crash, fw, adapter, died>>
    BY DEF JobRegister, JobMsg, avars
  <1>2. /\ Head(jobQ) = Reg /\ Reg \in Range(jobQ) /\ Range(jobQ') \subseteq Range(jobQ)
        /\ Once(jobQ, Reg) => Reg \notin Range(jobQ') /\ Once(jobQ', Reg)
    <2>1. /\ Head(jobQ) \in JobMsgs /\ Head(jobQ).what = "register"
          /\ Head(jobQ) \in Range(jobQ) /\ Range(jobQ') \subseteq Range(jobQ)
          /\ \A m : Once(jobQ, m) => Once(jobQ', m)
          /\ \A m : Once(jobQ, m) /\ Head(jobQ) = m => m \notin Range(jobQ')
      BY <1>1, JobHead
    <2>2. Head(jobQ) = Reg
      BY <2>1, JobKinds DEF Reg
    <2> QED  BY <2>1, <2>2
  <1>3. Attached /\ Ordered
    BY DEF RegInv
  <1>4. /\ adapter \notin {"created", "binding"} /\ ~Heard /\ ~Shown
        /\ Reg \notin Range(svcQ) /\ OnceReg
    BY <1>2, <1>3 DEF Ordered, NoReg, OnceReg
  <1>5. NoneBehind(jobQ')
    BY <1>1, <1>3, SameLetters DEF Attached, Types
  <1>6. NoReg' /\ OnceReg'
    BY <1>1, <1>2, <1>4 DEF NoReg, OnceReg
  <1>7. ~Heard' /\ ~Shown'
    BY <1>1, <1>4 DEF Heard, Shown
  <1>8. Attached'
    BY <1>1, <1>2, <1>3, <1>4, <1>5 DEF Attached
  <1>9. Ordered'
    BY <1>1, <1>4, <1>6, <1>7 DEF Ordered
  <1> QED  BY <1>8, <1>9 DEF RegInv

(* What a task answers is not about a registration, nor is a report.       *)
LEMMA QuietAnswer ==
  ASSUME Types, NEW r \in Words \cup {NoReply}, svcQ' = Append(svcQ, [what |-> "result", reply |-> r])
  PROVE  Letters(svcQ, svcQ')
  <1>1. [what |-> "result", reply |-> r] \in SvcMsgs /\ ~Letter([what |-> "result", reply |-> r])
    BY DEF SvcMsgs, Answers, Letter
  <1> QED  BY <1>1, SameLetters DEF Types

LEMMA QuietReport ==
  ASSUME Types, RegInv, ~died, NEW m \in Status, jobQ' = Append(jobQ, m)
  PROVE  Letters(jobQ, jobQ') /\ NoneBehind(jobQ')
  <1>1. m \in JobMsgs /\ ~Letter(m)
    BY SentMessages, StatusKinds DEF Letter
  <1> QED  BY <1>1, JobBehind, SameLetters DEF Types

(* A step of the service that leaves the connection alone.                 *)
LEMMA QuietQueuesOnly ==
  ASSUME Types, RegInv, ~died, Letters(svcQ, svcQ'), Letters(jobQ, jobQ'), NoneBehind(jobQ'),
         UNCHANGED <<adapter, died, life, registered, fw, inbox>>,
         crash' = crash \/ (crash' = "service" /\ life.gone # "no")
  PROVE  Quiet
  BY QuietQueues, QuietTold DEF Quiet

LEMMA QuietTasks ==
  ASSUME Types, RegInv, ~died, NEW t \in tasks, TaskStep(t), UNCHANGED avars
  PROVE  Quiet
  <1>1. /\ Letters(svcQ, svcQ) /\ Letters(jobQ, jobQ) /\ NoneBehind(jobQ)
        /\ UNCHANGED <<adapter, died, fw>>
    BY SvcStays, JobBehind DEF avars
  <1>2. UNCHANGED <<life, registered, inbox>>
    BY DEF TaskStep, StartRefused, StartNative, StartPages, StartAborted, StartForgotten, StartAdd,
           CancelFind, CancelCall, CancelAll
  <1>3. crash' = crash \/ (crash' = "service" /\ life.gone # "no")
    BY DEF TaskStep, StartRefused, StartNative, StartPages, StartAborted, StartForgotten, StartAdd,
           CancelFind, CancelCall, CancelAll
  <1>4. /\ t \in StartTasks \cup CancelTasks => t.job \in Jobs
        /\ t.pc \in {"start", "pages", "add", "abort", "end"} => t \in StartTasks
        /\ t.pc \in {"find", "cancel"} => t \in CancelTasks
    BY TaskKinds
  <1>5. Letters(svcQ, svcQ')
    <2>1. UNCHANGED svcQ => Letters(svcQ, svcQ')
      BY <1>1
    <2>2. ASSUME NEW r \in Words \cup {NoReply}, Return(t, r)
          PROVE  Letters(svcQ, svcQ')
      BY <2>2, QuietAnswer DEF Return
    <2>3. t.job \in Jobs => \A w \in {"printError", "cancelled"} : Request(w, t.job) \in Words
      BY SentMessages
    <2>4. StartRefused(t) \/ StartForgotten(t) => Letters(svcQ, svcQ')
      BY <1>4, <2>2, <2>3 DEF StartRefused, StartForgotten, TaskAt
    <2>5. StartNative(t) \/ StartPages(t) \/ StartAborted(t) => Letters(svcQ, svcQ')
      BY <2>1 DEF StartNative, StartPages, StartAborted
    <2>6. StartAdd(t) => Letters(svcQ, svcQ')
      BY <2>1, <2>2 DEF StartAdd
    <2>7. CancelFind(t) => Letters(svcQ, svcQ')
      <3>1. CancelFind(t) => \/ UNCHANGED svcQ \/ Return(t, NoReply)
                             \/ Return(t, Request("cancelled", t.job))
        BY DEF CancelFind
      <3>2. CancelFind(t) => t.pc = "find"
        BY DEF CancelFind, TaskAt
      <3> QED  BY <1>4, <2>1, <2>2, <2>3, <3>1, <3>2
    <2>8. CancelCall(t) => Letters(svcQ, svcQ')
      <3>1. CancelCall(t) => Return(t, NoReply) \/ Return(t, Request("cancelled", t.job))
        BY DEF CancelCall
      <3>2. CancelCall(t) => t.pc = "cancel"
        BY DEF CancelCall, TaskAt
      <3> QED  BY <1>4, <2>2, <2>3, <3>1, <3>2
    <2>9. CancelAll(t) => Letters(svcQ, svcQ')
      <3>1. CancelAll(t) => UNCHANGED svcQ \/ Return(t, NoReply)
        BY DEF CancelAll
      <3> QED  BY <2>1, <2>2, <3>1
    <2> QED  BY <2>4, <2>5, <2>6, <2>7, <2>8, <2>9 DEF TaskStep
  <1>6. Letters(jobQ, jobQ') /\ NoneBehind(jobQ')
    <2> DEFINE Goal == Letters(jobQ, jobQ') /\ NoneBehind(jobQ')
    <2>1. UNCHANGED jobQ => Goal
      BY <1>1
    <2>2. ASSUME NEW j \in Jobs, jobQ' = IF TellsCancelled(j) THEN Append(jobQ, DoneMsg(j, "CANCELLED"))
                                         ELSE jobQ
          PROVE  Goal
      <3>1. DoneMsg(j, "CANCELLED") \in Status
        BY SentMessages DEF Results
      <3> QED  BY <2>1, <2>2, <3>1, QuietReport
    <2>3. StartAborted(t) \/ CancelCall(t) => Goal
      <3>1. StartAborted(t) \/ CancelCall(t) =>
              /\ t.pc \in {"abort", "cancel"}
              /\ jobQ' = IF TellsCancelled(t.job) THEN Append(jobQ, DoneMsg(t.job, "CANCELLED"))
                         ELSE jobQ
        BY DEF StartAborted, CancelCall, TaskAt
      <3> HIDE DEF Goal
      <3> QED  BY <1>4, <2>2, <3>1
    <2>4. CASE CancelAll(t) /\ life.gone = "no"
      <3>1. PICK told \in Seq(Jobs) :
               jobQ' = jobQ \o [n \in DOMAIN told |-> DoneMsg(told[n], "CANCELLED")]
        BY <2>4, CancelAllIs
      <3> DEFINE r == [n \in DOMAIN told |-> DoneMsg(told[n], "CANCELLED")]
      <3>2. \A n \in DOMAIN told : /\ DoneMsg(told[n], "CANCELLED") \in JobMsgs
                                   /\ ~Letter(DoneMsg(told[n], "CANCELLED"))
        <4>1. \A j : ~Letter(DoneMsg(j, "CANCELLED"))
          BY DEF Letter, DoneMsg, StatusMsg
        <4>2. \A j \in Jobs : DoneMsg(j, "CANCELLED") \in JobMsgs
          BY SentMessages DEF Results
        <4>3. \A n \in DOMAIN told : told[n] \in Jobs
          OBVIOUS
        <4> HIDE DEF DoneMsg, Letter
        <4> QED  BY <4>1, <4>2, <4>3
      <3>3. r \in Seq(JobMsgs) /\ \A m \in Range(r) : ~Letter(m)
        <4> HIDE DEF DoneMsg
        <4>1. DOMAIN told = 1 .. Len(told) /\ Len(told) \in Nat
          OBVIOUS
        <4> QED  BY <3>2, <4>1 DEF Range
      <3> HIDE DEF r
      <3>4. jobQ' = jobQ \o r /\ jobQ \in Seq(JobMsgs)
        BY <3>1 DEF r, Types
      <3> QED  BY <1>1, <3>3, <3>4, SameLetters
    <2>5. CancelAll(t) => Goal
      <3>1. CancelAll(t) /\ life.gone # "no" => UNCHANGED jobQ
        BY DEF CancelAll
      <3> QED  BY <2>1, <2>4, <3>1
    <2>6. TaskStep(t) => UNCHANGED jobQ \/ StartAborted(t) \/ CancelCall(t) \/ CancelAll(t)
      BY DEF TaskStep, StartRefused, StartNative, StartPages, StartForgotten, StartAdd, CancelFind
    <2> HIDE DEF Goal
    <2>7. Goal
      BY <2>1, <2>3, <2>5, <2>6
    <2> QED  BY <2>7 DEF Goal
  <1> QED  BY <1>1, <1>2, <1>3, <1>5, <1>6, QuietQueuesOnly

LEMMA QuietLib ==
  ASSUME Types, RegInv, ~died, NEW j \in Jobs, LibStep(j) \/ Report(j), UNCHANGED avars
  PROVE  Quiet
  <1>1. UNCHANGED <<svcQ, life, registered, inbox, crash, adapter, died, fw>>
    BY DEF LibStep, Serve, Begin, Finish, Report, avars
  <1>2. jobQ' = jobQ \/ \E m \in Status : jobQ' = Append(jobQ, m)
    <2>1. /\ \A r \in Results : DoneMsg(j, r) \in Status
          /\ PageMsg(j) \in Status
          /\ StatusMsg(j, [state |-> "running", result |-> "none"]) \in Status
          /\ StatusMsg(j, [state |-> "blocked", result |-> "none"]) \in Status
      BY SentMessages DEF JobStates
    <2>2. Serve(j) => jobQ' = jobQ
      BY DEF Serve
    <2>3. Begin(j) => jobQ' = Append(jobQ, StatusMsg(j, [state |-> "running", result |-> "none"]))
      BY DEF Begin, ToHandler
    <2>4. Finish(j) => \E r \in Results : jobQ' = Append(jobQ, DoneMsg(j, r))
      BY DEF Finish, ToHandler
    <2>5. Report(j) =>
            \/ jobQ' = Append(jobQ, StatusMsg(j, [state |-> "running", result |-> "none"]))
            \/ jobQ' = Append(jobQ, StatusMsg(j, [state |-> "blocked", result |-> "none"]))
            \/ jobQ' = Append(jobQ, PageMsg(j))
      BY DEF Report, ToHandler
    <2> HIDE DEF StatusMsg, DoneMsg, PageMsg
    <2> QED  BY <2>1, <2>2, <2>3, <2>4, <2>5 DEF LibStep
  <1>3. Letters(svcQ, svcQ) /\ Letters(jobQ, jobQ) /\ NoneBehind(jobQ)
    BY SvcStays, JobBehind
  <1>4. Letters(jobQ, jobQ') /\ NoneBehind(jobQ')
    BY <1>2, <1>3, QuietReport
  <1> QED  BY <1>1, <1>3, <1>4, QuietQueuesOnly

(* The service stops itself: it is not bound, so it is not the adapter's.  *)
LEMMA QuietQuitDelay ==
  ASSUME Types, RegInv, ~died, QuitDelayOver, UNCHANGED avars
  PROVE  Quiet
  <1>1. UNCHANGED <<svcQ, registered, inbox, crash, adapter, died, fw>>
    BY DEF QuitDelayOver, avars
  <1>2. Attached /\ OnceReg
    BY DEF RegInv, Ordered
  <1>3. life.bound \/ adapter = "destroyed"
    BY <1>2 DEF Attached, Asleep, QuitDelayOver, Types
  <1>4. (Heard' => Heard) /\ (Shown' => Shown)
    BY <1>1 DEF Heard, Shown
  <1>5. CASE life.bound \/ life.gone # "no"
    <2>1. life' = [life EXCEPT !.started = FALSE] /\ UNCHANGED jobQ
      BY <1>5 DEF QuitDelayOver
    <2>2. life'.gone = life.gone /\ life'.bound = life.bound
      BY <2>1 DEF Types, Lives
    <2>3. NoneBehind(jobQ') /\ Letters(svcQ, svcQ') /\ Letters(jobQ, jobQ')
      BY <1>1, <2>1, SvcStays, JobBehind
    <2> QED  BY <1>1, <1>4, <2>2, <2>3, QuietQueues DEF Quiet
  <1>6. CASE ~(life.bound \/ life.gone # "no")
    <2>1. /\ life' = [life EXCEPT !.started = FALSE, !.gone = "destroyed"]
          /\ jobQ' = Append(jobQ, Exit)
      BY <1>6 DEF QuitDelayOver, Exit
    <2>2. life'.gone = "destroyed"
      BY <2>1 DEF Types, Lives
    <2>3. Exit \in JobMsgs /\ Exit # Unreg /\ Exit # Reg /\ jobQ \in Seq(JobMsgs)
      BY SentMessages DEF Exit, Unreg, Reg, Plain, Types
    <2>4. NoneBehind(jobQ')
      BY <2>1, <2>3, JobBehind, SameLetters
    <2>5. /\ Range(jobQ') = Range(jobQ) \cup {Exit}
          /\ Once(jobQ, Reg) => Once(jobQ', Reg)
      BY <2>1, <2>3, AppendFacts
    <2>6. (NoReg => NoReg') /\ OnceReg' /\ (Unregs => Unregs')
      BY <1>1, <1>2, <2>3, <2>5 DEF NoReg, OnceReg, Unregs
    <2> QED  BY <1>1, <1>3, <1>4, <1>6, <2>2, <2>4, <2>6 DEF Quiet
  <1> QED  BY <1>5, <1>6

(***************************************************************************)
(* The adapter's steps.                                                    *)
(***************************************************************************)
LEMMA RegBound ==
  ASSUME Types, RegInv, ~died, Bind
  PROVE  RegInv'
  <1>1. /\ adapter = "created" /\ adapter' = "binding" /\ ~life.bound /\ life.gone = "no"
        /\ life' = [life EXCEPT !.made = TRUE, !.bound = TRUE, !.started = TRUE]
        /\ svcQ' = <<Plain("bind")>> \o WithoutBinds(svcQ)
        /\ jobQ' = IF life.made THEN jobQ ELSE <<Plain("init")>>
        /\ UNCHANGED <<scan, tasks, registered, native, inbox, crash, fw>>
    BY DEF Bind, OnBind
  <1>2. Attached /\ Ordered
    BY DEF RegInv
  <1>3. /\ NoReg /\ ~registered /\ ~life.made /\ OnceReg /\ ~Heard /\ ~Shown
    BY <1>1, <1>2 DEF Attached, Ordered, Asleep
  <1>4. life'.bound /\ life'.gone = "no"
    BY <1>1 DEF Types, Lives
  <1>5. /\ Range(svcQ') \subseteq Range(svcQ) \cup {Plain("bind")}
        /\ Once(svcQ, Reg) /\ Reg # Plain("bind") => Once(svcQ', Reg)
    BY <1>1, BindQueue
  <1>6. /\ Reg # Plain("bind") /\ Reg # Plain("init") /\ Exit # Plain("init")
        /\ jobQ' = <<Plain("init")>>
    BY <1>1, <1>3 DEF Reg, Exit, Plain
  <1>7. Range(jobQ') = {Plain("init")} /\ Once(jobQ', Reg) /\ NoneBehind(jobQ')
    BY <1>6 DEF Range, Once, NoneBehind
  <1>8. NoReg' /\ OnceReg'
    BY <1>3, <1>5, <1>6, <1>7 DEF NoReg, OnceReg
  <1>9. ~Heard' /\ ~Shown'
    BY <1>1, <1>3 DEF Heard, Shown
  <1>10. Attached'
    BY <1>1, <1>2, <1>4, <1>6, <1>7 DEF Attached
  <1>11. Ordered'
    BY <1>1, <1>3, <1>8, <1>9 DEF Ordered
  <1> QED  BY <1>10, <1>11 DEF RegInv

LEMMA RegSent ==
  ASSUME Types, RegInv, ~died, Connected
  PROVE  RegInv'
  <1>1. /\ adapter = "binding" /\ adapter' = "connected" /\ Send(Reg)
        /\ UNCHANGED <<jobQ, scan, tasks, registered, life, native, inbox, crash, fw>>
    BY DEF Connected, Send, Reg
  <1>2. Attached /\ Ordered
    BY DEF RegInv
  <1>3. NoReg /\ ~registered /\ OnceReg /\ ~Heard /\ ~Shown
    BY <1>1, <1>2 DEF Ordered
  <1>4. Once(svcQ', Reg)
    <2>1. Reg \in SvcMsgs
      BY SentMessages DEF Reg
    <2> QED  BY <1>1, <1>3, <2>1, SendTypes DEF NoReg, OnceReg
  <1>5. OnceReg' /\ ~Heard' /\ ~Shown'
    BY <1>1, <1>3, <1>4 DEF NoReg, OnceReg, Heard, Shown
  <1>6. Attached'
    BY <1>1, <1>2 DEF Attached
  <1>7. Ordered'
    BY <1>1, <1>3, <1>5 DEF Ordered
  <1> QED  BY <1>6, <1>7 DEF RegInv

LEMMA RegTakenBack ==
  ASSUME Types, RegInv, ~died, Destroy
  PROVE  RegInv'
  <1>1. /\ adapter = "connected" /\ adapter' = "destroyed" /\ Send(Unreg)
        /\ UNCHANGED <<jobQ, registered, life, inbox, crash, fw>>
    BY DEF Destroy, Send, Unreg
  <1>2. Attached /\ Ordered
    BY DEF RegInv
  <1>3. Unreg \in SvcMsgs /\ Unreg # Reg
    BY SentMessages DEF Reg, Unreg, Plain
  <1>4. /\ Range(svcQ') \subseteq Range(svcQ) \cup {Unreg}
        /\ Once(svcQ, Reg) => Once(svcQ', Reg)
        /\ crash = "no" => Unreg \in Range(svcQ')
    BY <1>1, <1>3, SendTypes
  <1>5. (NoReg => NoReg') /\ OnceReg' /\ (crash = "no" => Unregs')
    BY <1>1, <1>2, <1>3, <1>4 DEF Ordered, NoReg, OnceReg, Unregs
  <1>6. (Heard' => Heard) /\ (Shown' => Shown)
    BY <1>1 DEF Heard, Shown
  <1>7. Attached'
    BY <1>1, <1>2 DEF Attached
  <1>8. Ordered'
    BY <1>1, <1>2, <1>5, <1>6 DEF Ordered
  <1> QED  BY <1>7, <1>8 DEF RegInv

(* The others send nothing of a registration.                              *)
LEMMA QuietSend ==
  ASSUME Types, NEW m \in SvcMsgs, ~Letter(m), Send(m)
  PROVE  Letters(svcQ, svcQ')
  BY SameLetters DEF Types, Send

LEMMA QuietUnbind ==
  ASSUME Types, RegInv, ~died, Unbind
  PROVE  Quiet
  <1>1. /\ UNCHANGED <<registered, crash, adapter, died, fw, inbox>> /\ adapter = "destroyed"
        /\ svcQ' = <<Plain("unbind")>> \o WithoutBinds(svcQ)
        /\ \/ life' = [life EXCEPT !.bound = FALSE] /\ UNCHANGED jobQ
           \/ /\ life' = [life EXCEPT !.bound = FALSE, !.gone = "destroyed"]
              /\ jobQ' = Append(jobQ, Exit)
    BY DEF Unbind, OnUnbind, avars, Exit
  <1>2. Letters(svcQ, svcQ')
    <2>1. /\ Range(svcQ') \subseteq Range(svcQ) \cup {Plain("unbind")}
          /\ \A m \in Range(svcQ) : ~IsBinding(m) => m \in Range(svcQ')
          /\ \A m : Once(svcQ, m) /\ m # Plain("unbind") => Once(svcQ', m)
      BY <1>1, BindQueue
    <2>2. /\ Plain("unbind") # Reg /\ Plain("unbind") # Exit /\ ~IsBinding(Unreg)
      BY DEF Plain, Reg, Exit, Unreg, IsBinding
    <2> QED  BY <2>1, <2>2 DEF Letters
  <1>3. OnceReg /\ NoneBehind(jobQ) /\ Letters(jobQ, jobQ)
    BY JobBehind, SvcStays DEF RegInv, Ordered
  <1>4. (Heard' => Heard) /\ (Shown' => Shown)
    BY <1>1 DEF Heard, Shown
  <1>5. CASE life' = [life EXCEPT !.bound = FALSE] /\ UNCHANGED jobQ
    <2>1. life'.gone = life.gone
      BY <1>5 DEF Types, Lives
    <2>2. NoneBehind(jobQ') /\ Letters(jobQ, jobQ')
      BY <1>3, <1>5
    <2> QED  BY <1>1, <1>2, <1>4, <2>1, <2>2, QuietQueues DEF Quiet
  <1>6. CASE /\ life' = [life EXCEPT !.bound = FALSE, !.gone = "destroyed"]
             /\ jobQ' = Append(jobQ, Exit)
    <2>1. life'.gone = "destroyed"
      BY <1>6 DEF Types, Lives
    <2>2. Exit \in JobMsgs /\ Exit # Unreg /\ Exit # Reg /\ jobQ \in Seq(JobMsgs)
      BY SentMessages DEF Exit, Unreg, Reg, Plain, Types
    <2>3. NoneBehind(jobQ')
      BY <1>3, <1>6, <2>2, SameLetters
    <2>4. /\ Range(jobQ') = Range(jobQ) \cup {Exit}
          /\ Once(jobQ, Reg) => Once(jobQ', Reg)
      BY <1>6, <2>2, AppendFacts
    <2>5. (NoReg => NoReg') /\ OnceReg' /\ (Unregs => Unregs')
      BY <1>2, <1>3, <2>2, <2>4 DEF NoReg, OnceReg, Unregs, Letters
    <2> QED  BY <1>1, <1>4, <2>1, <2>3, <2>5 DEF Quiet
  <1> QED  BY <1>1, <1>5, <1>6

LEMMA QuietOther == ASSUME Types, RegInv, ~died, OtherClient PROVE Quiet
  <1>1. UNCHANGED <<jobQ, life, registered, inbox, adapter, died, fw, crash>>
    BY DEF OtherClient, Send
  <1>2. Letters(svcQ, svcQ')
    <2>1. Plain("cancelAll") \in SvcMsgs /\ ~Letter(Plain("cancelAll"))
      BY SentMessages DEF Letter, Plain
    <2> QED  BY <2>1, QuietSend DEF OtherClient
  <1>3. Letters(jobQ, jobQ') /\ NoneBehind(jobQ')
    BY <1>1, SvcStays, JobBehind
  <1> QED  BY <1>1, <1>2, <1>3, QuietQueuesOnly

LEMMA QuietOfJob ==
  ASSUME Types, RegInv, ~died, NEW j \in Jobs,
         QueueJob(j) \/ SendJob(j) \/ RequestCancel(j) \/ SendCancel(j)
  PROVE  Quiet
  <1>1. UNCHANGED <<jobQ, life, registered, inbox, adapter, died>>
    BY DEF QueueJob, SendJob, RequestCancel, SendCancel, Send, svars
  <1>2. Letters(svcQ, svcQ')
    <2>1. UNCHANGED svcQ => Letters(svcQ, svcQ')
      BY SvcStays
    <2>2. /\ \A w \in {"print", "cancel"} : Request(w, j) \in SvcMsgs /\ ~Letter(Request(w, j))
      BY SentMessages DEF Letter, Request
    <2>3. \/ UNCHANGED svcQ \/ Send(Request("print", j)) \/ Send(Request("cancel", j))
      BY DEF QueueJob, SendJob, RequestCancel, SendCancel, svars
    <2> QED  BY <2>1, <2>2, <2>3, QuietSend
  <1>3. Letters(jobQ, jobQ') /\ NoneBehind(jobQ')
    BY <1>1, SvcStays, JobBehind
  <1>4. /\ crash' = "no" => crash = "no"
        /\ crash' = "service" => crash = "service"
    BY DEF QueueJob, SendJob, RequestCancel, SendCancel, svars
  <1>5. Shown' => Shown
    <2>1. \/ UNCHANGED fw \/ fw' = [fw EXCEPT ![j] = "queued"]
          \/ fw' = [fw EXCEPT ![j] = IF crash = "no" THEN @ ELSE FwFail(@)]
      BY DEF QueueJob, SendJob, RequestCancel, SendCancel, svars
    <2>2. \A k \in Jobs : fw'[k] = "completed" => fw[k] = "completed"
      BY <2>1 DEF Types, FwFail
    <2> QED  BY <2>2 DEF Shown
  <1>6. Heard' => Heard
    BY <1>1 DEF Heard
  <1> QED  BY <1>1, <1>2, <1>3, <1>4, <1>5, <1>6, QuietQueues DEF Quiet

LEMMA QuietHear ==
  ASSUME Types, RegInv, ~died, Hear
  PROVE  Quiet
  <1>1. UNCHANGED <<svcQ, jobQ, life, registered, crash, adapter, died>> /\ adapter # "destroyed"
    BY DEF Hear, Live
  <1>2. PICK m \in BoxMsgs, f \in Active \cup Over \cup {"none"} :
          /\ m \in Range(inbox) /\ m.job \in Jobs
          /\ Range(inbox') \subseteq Range(inbox)
          /\ fw' = [fw EXCEPT ![m.job] = f]
          /\ f = "completed" => fw[m.job] = "completed" \/ m.what = "news"
    BY HearIs
  <1>3. Heard' => Heard
    BY <1>2 DEF Heard
  <1>4. Shown' => Shown \/ Heard
    <2>1. ASSUME NEW k \in Jobs, fw'[k] = "completed"
          PROVE  Shown \/ Heard
      BY <1>2, <2>1 DEF Shown, Heard, Types
    <2> QED  BY <2>1 DEF Shown
  <1>5. Letters(svcQ, svcQ') /\ Letters(jobQ, jobQ') /\ NoneBehind(jobQ')
    BY <1>1, SvcStays, JobBehind
  <1> QED  BY <1>1, <1>3, <1>4, <1>5, QuietQueues DEF Quiet

(* Before the first bind the service does nothing, and stays so.           *)
LEMMA AsleepStill ==
  ASSUME Types, Asleep
  PROVE  ~ServiceNext /\ ~Hear /\ ~OtherClient
  <1>1. ~SvcStep
    BY DEF SvcStep, SvcIntent, SvcResult, Asleep
  <1>2. ~JobStep
    BY DEF JobStep, JobInit, JobExecute, JobRegister, JobBind, JobExit, JobStatusMsg, JobScan,
           JobStatusEnd, JobMsg, Asleep
  <1>3. \A j \in Jobs : ~LibStep(j) /\ ~Report(j)
    BY DEF LibStep, Serve, Begin, Finish, Report, Asleep
  <1>4. ~QuitDelayOver /\ ~Hear /\ ~OtherClient
    BY DEF QuitDelayOver, Hear, OtherClient, Asleep
  <1> QED  BY <1>1, <1>2, <1>3, <1>4 DEF ServiceNext, Asleep

(* Every step keeps the registration in order.                             *)
LEMMA RegInit == Init => RegInv
  <1> SUFFICES ASSUME Init PROVE Attached /\ Ordered
    BY DEF RegInv
  <1>1. /\ svcQ = << >> /\ jobQ = << >> /\ inbox = << >> /\ scan = Idle /\ tasks = {}
        /\ adapter = "created" /\ ~registered /\ ~quitPosted /\ life.gone = "no" /\ crash = "no"
        /\ ~life.made /\ ~life.bound
        /\ \A j \in Jobs : native[j].phase = "none" /\ fw[j] = "none"
    BY DEF Init, ServiceInit, NoNative
  <1>2. /\ Range(svcQ) = {} /\ Range(jobQ) = {} /\ Range(inbox) = {}
        /\ \A m : Once(svcQ, m) /\ Once(jobQ, m)
        /\ NoneBehind(jobQ)
    BY <1>1 DEF Range, Once, NoneBehind
  <1>3. Attached
    BY <1>1, <1>2 DEF Attached, Asleep
  <1>4. Ordered
    BY <1>1, <1>2 DEF Ordered, NoReg, OnceReg, Heard, Shown
  <1> QED  BY <1>3, <1>4

LEMMA RegNext == Types /\ RegInv /\ [Next]_vars => RegInv'
  <1> SUFFICES ASSUME Types, RegInv, [Next]_vars PROVE RegInv'
    OBVIOUS
  <1>1. CASE died
    <2>1. died'
      BY <1>1 DEF Next, Client, vars, avars, Bind, Connected, Disconnected, Hear, Destroy, Unbind,
                  QueueJob, SendJob, RequestCancel, SendCancel, OtherClient, Die
    <2> QED  BY <2>1 DEF RegInv
  <1>2. CASE ~died
    <2> USE <1>2
    <2>1. adapter = "created" => Asleep
      BY DEF RegInv, Attached
    <2>2. Quiet /\ (adapter = "created" => Asleep') => RegInv'
      BY QuietKeeps
    <2>3. CASE UNCHANGED vars
      <3>1. /\ UNCHANGED <<svcQ, jobQ, scan, tasks, life, native, inbox, crash, registered, fw,
                          adapter, died, quitPosted>>
        BY <2>3 DEF vars, svars, avars
      <3>2. Attached /\ Ordered
        BY DEF RegInv
      <3>3. Attached'
        BY <3>1, <3>2 DEF Attached, Asleep
      <3>4. Ordered'
        BY <3>1, <3>2 DEF Ordered, NoReg, OnceReg, Unregs, Heard, Shown
      <3> QED  BY <3>3, <3>4 DEF RegInv
    <2>4. Bind \/ Connected \/ Destroy => RegInv'
      BY RegBound, RegSent, RegTakenBack
    <2>5. Die => RegInv'
      BY DEF Die, RegInv
    <2>6. ~Disconnected
      BY DEF RegInv, Attached, Disconnected
    <2>7. Hear \/ OtherClient \/ ServiceNext => adapter # "created"
      BY <2>1, AsleepStill
    <2>8. Unbind => adapter # "created"
      BY DEF Unbind
    <2>9. ASSUME NEW j \in Jobs, QueueJob(j) \/ SendJob(j) \/ RequestCancel(j) \/ SendCancel(j)
          PROVE  RegInv'
      <3>1. adapter = "created" => Asleep'
        <4>1. adapter = "created" =>
                UNCHANGED <<svcQ, jobQ, inbox, scan, tasks, life, quitPosted, native>>
          BY <2>9 DEF QueueJob, SendJob, RequestCancel, SendCancel, svars
        <4> QED  BY <2>1, <4>1 DEF Asleep
      <3>2. Quiet
        BY <2>9, QuietOfJob
      <3> QED  BY <2>2, <3>1, <3>2
    <2>10. Hear => Quiet
      BY QuietHear
    <2>11. Unbind => Quiet
      BY QuietUnbind
    <2>12. OtherClient => Quiet
      BY QuietOther
    <2>13. JobRegister("register") /\ UNCHANGED avars => RegInv'
      BY RegArrives
    <2>14. JobStep /\ ~JobRegister("register") /\ UNCHANGED avars => Quiet
      BY QuietJob
    <2>15. SvcStep /\ UNCHANGED avars => Quiet
      BY QuietSvc
    <2>16. QuitDelayOver /\ UNCHANGED avars => Quiet
      BY QuietQuitDelay
    <2>17. ASSUME NEW t \in tasks, TaskStep(t), UNCHANGED avars
           PROVE  Quiet
      BY <2>17, QuietTasks
    <2>18. ASSUME NEW j \in Jobs, LibStep(j) \/ Report(j), UNCHANGED avars
           PROVE  Quiet
      BY <2>18, QuietLib
    <2>19. ServiceNext /\ UNCHANGED avars => RegInv'
      BY <2>2, <2>7, <2>13, <2>14, <2>15, <2>16, <2>17, <2>18 DEF ServiceNext
    <2>20. Client => RegInv'
      BY <2>2, <2>4, <2>5, <2>6, <2>7, <2>8, <2>9, <2>10, <2>11, <2>12 DEF Client
    <2> QED  BY <2>3, <2>19, <2>20 DEF Next
  <1> QED  BY <1>1, <1>2

LEMMA ServiceAlways == Spec => [](Types /\ JobsInv /\ RegInv)
  <1>1. Init => Types /\ JobsInv /\ RegInv
    BY TypesInit, JobsInit, RegInit
  <1>2. Types /\ JobsInv /\ RegInv /\ [Next]_vars => (Types /\ JobsInv /\ RegInv)'
    BY TypesNext, JobsNext, RegNext
  <1> QED  BY <1>1, <1>2, PTL DEF Spec

LEMMA RegImplies == ASSUME Types, RegInv PROVE UnregisterIsLast
  <1> SUFFICES ASSUME adapter = "destroyed", crash = "no", ~died,
                      \E j \in Jobs : fw[j] = "completed",
                      \A q \in {svcQ, jobQ} : ~Contains(q, Plain("unregister"))
               PROVE  ~registered
    BY DEF UnregisterIsLast
  <1>1. ~Unregs
    <2>1. ~Contains(svcQ, Unreg) /\ ~Contains(jobQ, Unreg)
      BY DEF Unreg
    <2>2. DOMAIN svcQ = 1 .. Len(svcQ) /\ DOMAIN jobQ = 1 .. Len(jobQ)
      BY DEF Types
    <2> QED  BY <2>1, <2>2 DEF Contains, Range, Unregs
  <1> QED  BY <1>1 DEF RegInv, Ordered, Shown

(* ServiceIsSafe: what the service holds of the library (the handles of    *)
(* its jobs), the library of the adapter (the documents) and the service   *)
(* of its client (the registration) is good in every state, for any        *)
(* number of jobs, whichever process dies and whatever crosses.            *)
THEOREM HoldsStayGood == Spec => []ServiceIsSafe
  <1>1. Types /\ JobsInv /\ RegInv => ServiceIsSafe
    BY TypesImply, JobsImply, RegImplies DEF ServiceIsSafe
  <1> QED  BY <1>1, ServiceAlways, PTL

(***************************************************************************)
(* What the user has cancelled.                                            *)
(***************************************************************************)
LEMMA CancelNext == Types /\ CancelIsShown /\ [Next]_vars => CancelIsShown'
  <1> SUFFICES ASSUME Types, CancelIsShown, [Next]_vars, NEW j \in Jobs, holder'[j].user
               PROVE  fw'[j] # "completed"
    BY DEF CancelIsShown
  <1>0. /\ fw \in [Jobs -> Active \cup Over \cup {"none"}] /\ holder \in [Jobs -> Holder]
        /\ holder[j].user => fw[j] # "completed"
    BY DEF Types, CancelIsShown
  <1>1. CASE UNCHANGED <<fw, holder>>
    BY <1>0, <1>1
  <1>2. CASE Hear
    <2>1. PICK m \in BoxMsgs, f \in Active \cup Over \cup {"none"}, h \in Holder :
            /\ m.job \in Jobs
            /\ fw' = [fw EXCEPT ![m.job] = f] /\ holder' = [holder EXCEPT ![m.job] = h]
            /\ f = "completed" => \/ fw[m.job] = "completed"
                                  \/ m.what = "news" /\ ~holder[m.job].user
            /\ h.user = holder[m.job].user
      BY <1>2, HearIs
    <2>2. CASE m.job = j
      BY <1>0, <2>1, <2>2
    <2>3. CASE m.job # j
      BY <1>0, <2>1, <2>3
    <2> QED  BY <2>2, <2>3
  <1>3. CASE Destroy
    <2>1. holder'[j].user = holder[j].user /\ UNCHANGED fw
      BY <1>0, <1>3 DEF Destroy, Holder
    <2> QED  BY <1>0, <2>1
  <1>4. ASSUME NEW k \in Jobs, QueueJob(k)
        PROVE  fw'[j] # "completed"
    <2>1. fw' = [fw EXCEPT ![k] = "queued"] /\ UNCHANGED holder
      BY <1>4 DEF QueueJob
    <2> QED  BY <1>0, <2>1
  <1>5. ASSUME NEW k \in Jobs, SendJob(k)
        PROVE  fw'[j] # "completed"
    <2>1. /\ holder' = [holder EXCEPT ![k] = [kept |-> crash = "no", user |-> FALSE, file |-> TRUE]]
          /\ fw' = [fw EXCEPT ![k] = IF crash = "no" THEN @ ELSE FwFail(@)]
      BY <1>5 DEF SendJob
    <2>2. j # k
      BY <1>0, <2>1
    <2> QED  BY <1>0, <2>1, <2>2
  <1>6. ASSUME NEW k \in Jobs, RequestCancel(k)
        PROVE  fw'[j] # "completed"
    <2>1. /\ fw[k] \in Active /\ UNCHANGED fw
          /\ holder' = [holder EXCEPT ![k].user = TRUE] \/ UNCHANGED holder
      BY <1>6 DEF RequestCancel
    <2>2. CASE j = k
      BY <2>1, <2>2 DEF Active
    <2>3. CASE j # k
      BY <1>0, <2>1, <2>3
    <2> QED  BY <2>2, <2>3
  <1>7. \/ UNCHANGED <<fw, holder>> \/ Hear \/ Destroy
        \/ \E k \in Jobs : QueueJob(k) \/ SendJob(k) \/ RequestCancel(k)
    <2>1. UNCHANGED vars => UNCHANGED <<fw, holder>>
      BY DEF vars, avars
    <2>2. UNCHANGED avars => UNCHANGED <<fw, holder>>
      BY DEF avars
    <2>3. Bind \/ Connected \/ Disconnected \/ Unbind \/ OtherClient \/ Die
          => UNCHANGED <<fw, holder>>
      BY DEF Bind, Connected, Disconnected, Unbind, OtherClient, Die, avars
    <2>4. \A k \in Jobs : SendCancel(k) => UNCHANGED <<fw, holder>>
      BY DEF SendCancel
    <2> QED  BY <2>1, <2>2, <2>3, <2>4 DEF Next, Client
  <1> QED  BY <1>1, <1>2, <1>3, <1>4, <1>5, <1>6, <1>7

(* CancelIsShown: a job the user has cancelled is never shown as           *)
(* completed, however the request, its answer and the reports cross.       *)
THEOREM CancelledStaysSo == Spec => []CancelIsShown
  <1>1. Init => CancelIsShown
    BY DEF Init, CancelIsShown, NoHolder
  <1>2. Types /\ CancelIsShown /\ [Next]_vars => CancelIsShown'
    BY CancelNext
  <1> QED  BY <1>1, <1>2, TypesAlways, PTL DEF Spec

(***************************************************************************)
(* A job that is done is told so last.                                     *)
(***************************************************************************)
Lasts == \A j \in Jobs :
           jobStatus[j].state = "done" /\ ~died
           => /\ jobStatus'[j] = jobStatus[j]
              /\ ~ \E n \in Jobs, s \in JobStates :
                     n = j /\ inbox' = Append(inbox, News(j, s))

LEMMA NotAppended ==
  ASSUME NEW S, NEW q \in Seq(S), NEW x \in S
  PROVE  /\ q # Append(q, x)
         /\ q # << >> => Tail(q) # Append(q, x)
         /\ \A y \in S : Append(q, y) = Append(q, x) => y = x
  <1>1. Len(Append(q, x)) = Len(q) + 1 /\ Len(q) \in Nat /\ (q # << >> => Len(Tail(q)) = Len(q) - 1)
    OBVIOUS
  <1>2. q # Append(q, x) /\ (q # << >> => Tail(q) # Append(q, x))
    BY <1>1
  <1>3. \A y \in S : Append(q, y)[Len(q) + 1] = y
    OBVIOUS
  <1> QED  BY <1>2, <1>3

(* processStatus is about a job of the list.                               *)
LEMMA OthersTold ==
  ASSUME Types, NEW j \in Jobs, NEW s \in Status, s.job # j, Process(s)
  PROVE  /\ jobStatus'[j] = jobStatus[j]
         /\ \A now \in JobStates : inbox' # Append(inbox, News(j, now))
  <1> DEFINE was == IF s.page THEN jobStatus[s.job] ELSE s.now
  <1>1. /\ jobStatus' = [jobStatus EXCEPT ![s.job] = was]
        /\ inbox' = inbox \/ inbox' = Append(inbox, News(s.job, was))
    BY DEF Process
  <1>2. s.job \in Jobs /\ was \in JobStates \cup {NoStatus} /\ inbox \in Seq(BoxMsgs)
    BY StatusKinds DEF Types
  <1> HIDE DEF was
  <1>3. News(s.job, was) \in BoxMsgs /\ \A now \in JobStates : News(j, now) \in BoxMsgs
    BY <1>2, SentMessages
  <1>4. \A now \in JobStates : News(j, now) # News(s.job, was)
    BY DEF News
  <1>5. jobStatus'[j] = jobStatus[j]
    BY <1>1, <1>2 DEF Types
  <1>6. \A now \in JobStates : inbox' # Append(inbox, News(j, now))
    <2> HIDE DEF News
    <2> QED  BY <1>1, <1>2, <1>3, <1>4, NotAppended
  <1> QED  BY <1>5, <1>6

LEMMA LastsNext == Types /\ JobsInv /\ RegInv /\ [Next]_vars => Lasts
  <1> SUFFICES ASSUME Types, JobsInv, RegInv, [Next]_vars, NEW j \in Jobs,
                      jobStatus[j].state = "done", ~died
               PROVE  /\ jobStatus'[j] = jobStatus[j]
                      /\ \A now \in JobStates : inbox' # Append(inbox, News(j, now))
    BY DEF Lasts
  <1> DEFINE Goal == /\ jobStatus'[j] = jobStatus[j]
                     /\ \A now \in JobStates : inbox' # Append(inbox, News(j, now))
  <1>0. inbox \in Seq(BoxMsgs) /\ \A now \in JobStates : News(j, now) \in BoxMsgs
    BY SentMessages DEF Types
  <1>1. ~InList(j)
    <2>1. PICK s \in Stages : At(s, j)
      BY DEF JobsInv
    <2>2. j \notin Range(jobList)
      BY <2>1 DEF At, Told, Route
    <2> QED  BY <2>2 DEF InList, Contains, Range, Types
  <1>2. ASSUME UNCHANGED jobStatus, UNCHANGED inbox
        PROVE  Goal
    <2> HIDE DEF News
    <2> QED  BY <1>0, <1>2, NotAppended
  <1>3. Hear => Goal
    <2>1. Hear => inbox # << >> /\ inbox' = Tail(inbox) /\ UNCHANGED jobStatus
      BY DEF Hear, jobVars
    <2> HIDE DEF News
    <2> QED  BY <1>0, <2>1, NotAppended
  <1>4. ASSUME SvcResult
        PROVE  Goal
    <2> DEFINE r == Head(svcQ).reply
    <2>1. /\ inbox' = IF r = NoReply THEN inbox ELSE Append(inbox, r)
          /\ UNCHANGED jobStatus /\ svcQ # << >> /\ Head(svcQ).what = "result"
      BY <1>4 DEF SvcResult, jobVars
    <2>2. Head(svcQ) \in SvcMsgs
      BY <2>1 DEF Types
    <2>3. r \in Words \cup {NoReply}
      BY <2>1, <2>2, SvcKinds
    <2> HIDE DEF r
    <2>4. CASE r = NoReply
      <3>1. UNCHANGED inbox
        BY <2>1, <2>4
      <3> HIDE DEF Goal
      <3> QED  BY <1>2, <2>1, <3>1
    <2>5. CASE r # NoReply
      <3>1. r \in BoxMsgs /\ r.what # "news" /\ inbox' = Append(inbox, r)
        BY <2>1, <2>3, <2>5 DEF Words, BoxMsgs
      <3>2. \A now \in JobStates : r # News(j, now)
        BY <3>1 DEF News
      <3> HIDE DEF News
      <3> QED  BY <1>0, <2>1, <3>1, <3>2, NotAppended
    <2> QED  BY <2>4, <2>5
  <1>5. ASSUME NEW m \in Scanned, NEW left, Conclude(m, left)
        PROVE  Goal
    <2>1. CASE m.what = "status" /\ InList(m.job)
      <3>1. m \in Status /\ Process(m) /\ m.job # j
        BY <1>1, <1>5, <2>1 DEF Conclude, Scanned, Plain
      <3> QED  BY <3>1, OthersTold
    <2>2. CASE ~(m.what = "status" /\ InList(m.job))
      <3>1. UNCHANGED jobStatus /\ UNCHANGED inbox
        BY <1>5, <2>2 DEF Conclude, Ignore
      <3> QED  BY <1>2, <3>1
    <2> QED  BY <2>1, <2>2
  <1>6. Ignore => Goal
    <2>1. Ignore => UNCHANGED jobStatus /\ UNCHANGED inbox
      BY DEF Ignore
    <2> HIDE DEF Goal
    <2> QED  BY <1>2, <2>1
  <1>7. ASSUME NEW w \in {"status", "taskComplete"}, JobStatusMsg(w)
        PROVE  Goal
    <2>1. Head(jobQ) \in JobMsgs /\ Head(jobQ).what = w
      BY <1>7, JobHead DEF JobStatusMsg
    <2>2. Head(jobQ) \in Scanned
      BY <2>1, JobKinds DEF Scanned
    <2>3. Conclude(Head(jobQ), << >>) \/ Ignore
      BY <1>7 DEF JobStatusMsg
    <2> HIDE DEF Goal
    <2> QED  BY <1>5, <1>6, <2>2, <2>3
  <1>8. JobScan => Goal
    <2>1. ASSUME JobScan
          PROVE  Goal
      <3>1. scan # Idle /\ scan.at \in DOMAIN pending
        BY <2>1 DEF JobScan
      <3>2. pending[scan.at] \in Status
        BY <3>1, ScanIs
      <3>3. CASE InList(pending[scan.at].job)
        <4>1. Process(pending[scan.at]) /\ pending[scan.at].job # j
          BY <1>1, <2>1, <3>3 DEF JobScan
        <4> QED  BY <3>2, <4>1, OthersTold
      <3>4. CASE ~InList(pending[scan.at].job)
        <4>1. Ignore
          BY <2>1, <3>4 DEF JobScan
        <4> HIDE DEF Goal
        <4> QED  BY <1>6, <4>1
      <3> QED  BY <3>3, <3>4
    <2> QED  BY <2>1
  <1>9. JobStatusEnd => Goal
    <2>1. ASSUME JobStatusEnd
          PROVE  Goal
      <3>1. scan # Idle /\ Conclude(scan.msg, StillPending)
        BY <2>1 DEF JobStatusEnd
      <3>2. scan.msg \in Scanned
        BY <3>1, ScanIs
      <3> HIDE DEF Goal, StillPending
      <3> QED  BY <1>5, <3>1, <3>2
    <2> QED  BY <2>1
  <1>10. ~Disconnected
    BY DEF RegInv, Attached, Disconnected
  <1>11. UNCHANGED vars => UNCHANGED jobStatus /\ UNCHANGED inbox
    BY DEF vars, svars
  <1>12. /\ Bind \/ Unbind \/ Connected \/ Destroy \/ OtherClient \/ Die
            => UNCHANGED jobStatus /\ UNCHANGED inbox
         /\ \A k \in Jobs : QueueJob(k) \/ SendJob(k) \/ RequestCancel(k) \/ SendCancel(k)
                            => UNCHANGED jobStatus /\ UNCHANGED inbox
    BY DEF Bind, OnBind, Unbind, OnUnbind, Connected, Destroy, OtherClient, Die, Send, QueueJob,
           SendJob, RequestCancel, SendCancel, jobVars, svars
  <1>13. /\ SvcIntent \/ QuitDelayOver => UNCHANGED jobStatus /\ UNCHANGED inbox
         /\ \A t : TaskStep(t) => UNCHANGED jobStatus /\ UNCHANGED inbox
         /\ \A k \in Jobs : LibStep(k) \/ Report(k) => UNCHANGED jobStatus /\ UNCHANGED inbox
    <2>1. SvcIntent \/ QuitDelayOver => UNCHANGED jobStatus /\ UNCHANGED inbox
      BY DEF SvcIntent, QuitDelayOver, jobVars
    <2>2. \A t : TaskStep(t) => UNCHANGED jobStatus /\ UNCHANGED inbox
      BY DEF TaskStep, StartRefused, StartNative, StartPages, StartAborted, StartForgotten,
             StartAdd, CancelFind, CancelCall, CancelAll, jobVars
    <2>3. \A k \in Jobs : LibStep(k) \/ Report(k) => UNCHANGED jobStatus /\ UNCHANGED inbox
      BY DEF LibStep, Serve, Begin, Finish, Report, jobVars
    <2> QED  BY <2>1, <2>2, <2>3
  <1>14. \/ JobInit \/ (\E w \in {"print", "cancel", "cancelAll"} : JobExecute(w))
         \/ (\E w \in {"register", "unregister"} : JobRegister(w)) \/ JobBind \/ JobExit
         => UNCHANGED jobStatus /\ UNCHANGED inbox
    BY DEF JobInit, JobExecute, JobRegister, JobBind, JobExit, jobVars
  <1> HIDE DEF Goal
  <1>15. JobStep => Goal
    BY <1>2, <1>7, <1>8, <1>9, <1>14 DEF JobStep
  <1>16. ServiceNext => Goal
    BY <1>2, <1>4, <1>13, <1>15 DEF ServiceNext, SvcStep
  <1>17. Client => Goal
    BY <1>2, <1>3, <1>10, <1>12 DEF Client
  <1>18. Goal
    BY <1>2, <1>11, <1>16, <1>17 DEF Next
  <1> QED  BY <1>18 DEF Goal

(* DoneIsLast: once the service has told that a job is done, its status    *)
(* never changes and no report of it follows, for any number of jobs,      *)
(* statuses that were pending and tasks that add jobs meanwhile.           *)
THEOREM DoneStays == Spec => DoneIsLast
  <1>1. Types /\ JobsInv /\ RegInv /\ [Next]_vars => [Lasts]_vars
    BY LastsNext
  <1>2. Spec => [][Lasts]_vars
    BY <1>1, ServiceAlways, PTL DEF Spec
  <1> QED  BY <1>2 DEF DoneIsLast, Lasts

=============================================================================
