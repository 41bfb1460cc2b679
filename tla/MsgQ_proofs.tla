------------------------------ MODULE MsgQ_proofs ------------------------------
(***************************************************************************)
(* The message queue, for any number of threads, any messages and any      *)
(* capacity: every message in the ring is accounted for, and the queue is  *)
(* the bounded queue that the rest of the library takes it for.            *)
(***************************************************************************)
EXTENDS MsgQ, FiniteSetTheorems, TLAPS

(* The offsets advance around the ring.                                    *)
LEMMA Wraps ==
  ASSUME NEW x \in Places
  PROVE  /\ (x + 1) % MaxMsgs = IF x + 1 < MaxMsgs THEN x + 1 ELSE 0
         /\ (x + 1) % MaxMsgs \in Places
  BY MsgQAssumption DEF Places

LEMMA ClaimedFinite ==
  /\ IsFiniteSet(Claimed)
  /\ Cardinality(Claimed) \in Nat
  BY MsgQAssumption, FS_Subset, FS_CardinalityType DEF Claimed

(* A step of a thread moves that thread alone.                             *)
LEMMA Moves ==
  ASSUME TypeOK, NEW t \in Threads, NEW here, NEW next, At(t, here, next),
         next \in {"idle", "send", "check", "post", "unlock", "wait", "try",
                   "receive", "take"}
  PROVE  /\ pc[t] = here /\ pc'[t] = next
         /\ \A u \in Threads : u # t => pc'[u] = pc[u]
         /\ pc' \in [Threads -> {"idle", "send", "check", "post", "unlock",
                                 "wait", "try", "receive", "take"}]
  BY DEF TypeOK, At

(* The messages in the ring and the offsets that enclose them.             *)
LEMMA Adds ==
  ASSUME TypeOK, Accounted, num_msgs < MaxMsgs,
         write_offset' = (write_offset + 1) % MaxMsgs,
         num_msgs' = num_msgs + 1, read_offset' = read_offset
  PROVE  /\ write_offset' \in Places
         /\ num_msgs' \in 0 .. MaxMsgs
         /\ write_offset' = (IF num_msgs < MaxMsgs THEN Place(num_msgs)
                                                   ELSE read_offset)'
  <1>1. /\ read_offset \in 0 .. MaxMsgs - 1 /\ num_msgs \in 0 .. MaxMsgs - 1
        /\ MaxMsgs \in Nat \ {0}
        /\ write_offset = IF read_offset + num_msgs < MaxMsgs
                            THEN read_offset + num_msgs
                            ELSE read_offset + num_msgs - MaxMsgs
    BY MsgQAssumption DEF TypeOK, Accounted, Place, Places
  <1>2. /\ write_offset \in Places
        /\ write_offset' = IF write_offset + 1 < MaxMsgs THEN write_offset + 1 ELSE 0
    BY Wraps DEF TypeOK
  <1> QED  BY <1>1, <1>2 DEF Place, Places

LEMMA Removes ==
  ASSUME TypeOK, Accounted, num_msgs > 0,
         read_offset' = (read_offset + 1) % MaxMsgs,
         num_msgs' = num_msgs - 1, write_offset' = write_offset
  PROVE  /\ read_offset' \in Places
         /\ num_msgs' \in 0 .. MaxMsgs
         /\ write_offset' = (IF num_msgs < MaxMsgs THEN Place(num_msgs)
                                                   ELSE read_offset)'
  <1>1. /\ read_offset \in 0 .. MaxMsgs - 1 /\ num_msgs \in 1 .. MaxMsgs
        /\ MaxMsgs \in Nat \ {0}
        /\ write_offset = IF num_msgs = MaxMsgs THEN read_offset
                          ELSE IF read_offset + num_msgs < MaxMsgs
                            THEN read_offset + num_msgs
                            ELSE read_offset + num_msgs - MaxMsgs
    BY MsgQAssumption DEF TypeOK, Accounted, Place, Places
  <1>2. read_offset' = IF read_offset + 1 < MaxMsgs THEN read_offset + 1 ELSE 0
    BY Wraps DEF TypeOK
  <1> QED  BY <1>1, <1>2 DEF Place, Places

(* A step without the mutex, or one that only takes it or gives it up.     *)
LEMMA HolderStep ==
  ASSUME TypeOK, OneHolder, NEW t \in Threads, NEW here, NEW next,
         At(t, here, next),
         next \in {"idle", "send", "check", "post", "unlock", "wait", "try",
                   "receive", "take"},
         LET in(x) == x \in {"check", "post", "take", "unlock"}
         IN  \/ in(here) = in(next) /\ mutex' = mutex
             \/ ~in(here) /\ in(next) /\ mutex = {} /\ mutex' = {t}
             \/ in(here) /\ ~in(next) /\ mutex' = mutex \ {t}
  PROVE  OneHolder'
  <1>1. /\ pc[t] = here /\ pc'[t] = next
        /\ \A u \in Threads : u # t => pc'[u] = pc[u]
    BY Moves
  <1>2. \A u \in Threads : u \in mutex <=> pc[u] \in {"check", "post", "take", "unlock"}
    BY DEF OneHolder, Holding
  <1>3. \A u \in Threads : u \in mutex' <=> pc'[u] \in {"check", "post", "take", "unlock"}
    BY <1>1, <1>2
  <1>4. mutex' \subseteq Threads
    BY DEF TypeOK
  <1>5. mutex' = Holding'
    BY <1>3, <1>4 DEF Holding
  <1>6. \A u, v \in mutex' : u = v
    BY DEF OneHolder
  <1> QED  BY <1>5, <1>6 DEF OneHolder

(* A step changes the set of the receivers with a permit by its thread.    *)
LEMMA ClaimStep ==
  ASSUME TypeOK, NEW t \in Threads, NEW here, NEW next, At(t, here, next),
         next \in {"idle", "send", "check", "post", "unlock", "wait", "try",
                   "receive", "take"}
  PROVE  /\ here \in {"receive", "take"} /\ next \notin {"receive", "take"} =>
              /\ t \in Claimed /\ Claimed' = Claimed \ {t}
              /\ Cardinality(Claimed') = Cardinality(Claimed) - 1
         /\ here \notin {"receive", "take"} /\ next \in {"receive", "take"} =>
              /\ t \notin Claimed /\ Claimed' = Claimed \cup {t}
              /\ Cardinality(Claimed') = Cardinality(Claimed) + 1
         /\ (here \in {"receive", "take"} <=> next \in {"receive", "take"})
              => Claimed' = Claimed
  <1>1. /\ pc[t] = here /\ pc'[t] = next
        /\ \A u \in Threads : u # t => pc'[u] = pc[u]
    BY Moves
  <1>2. CASE here \in {"receive", "take"} /\ next \notin {"receive", "take"}
    <2>1. t \in Claimed /\ Claimed' = Claimed \ {t}
      BY <1>1, <1>2 DEF Claimed
    <2> QED  BY <1>2, <2>1, ClaimedFinite, FS_RemoveElement
  <1>3. CASE here \notin {"receive", "take"} /\ next \in {"receive", "take"}
    <2>1. t \notin Claimed /\ Claimed' = Claimed \cup {t}
      BY <1>1, <1>3 DEF Claimed
    <2> QED  BY <1>3, <2>1, ClaimedFinite, FS_AddElement
  <1>4. CASE here \in {"receive", "take"} <=> next \in {"receive", "take"}
    BY <1>1, <1>4 DEF Claimed
  <1> QED  BY <1>2, <1>3, <1>4

(* At most one sender has still to post the semaphore.                     *)
LEMMA PostStep ==
  ASSUME TypeOK, OneHolder, NEW t \in Threads, NEW here, NEW next,
         At(t, here, next),
         next \in {"idle", "send", "check", "post", "unlock", "wait", "try",
                   "receive", "take"}
  PROVE  /\ Unposted \in {0, 1}
         /\ here = "post" => Unposted = 1 /\ (next # "post" => Unposted' = 0)
         /\ here \in {"check", "take", "unlock"} => Unposted = 0
         /\ next = "post" => Unposted' = 1
         /\ here # "post" /\ next # "post" => Unposted' = Unposted
  <1>1. /\ pc[t] = here /\ pc'[t] = next
        /\ \A u \in Threads : u # t => pc'[u] = pc[u]
    BY Moves
  <1>2. \A u \in Threads : pc[t] \in {"check", "post", "take", "unlock"} /\ pc[u] = "post" => u = t
    BY DEF OneHolder, Holding
  <1> QED  BY <1>1, <1>2 DEF Unposted

QueueInv == TypeOK /\ Accounted

LEMMA InitInv == Init => QueueInv
  <1> SUFFICES ASSUME Init PROVE QueueInv
    OBVIOUS
  <1>1. TypeOK
    BY MsgQAssumption DEF Init, TypeOK, Places
  <1>2. Claimed = {} /\ Unposted = 0 /\ Holding = {}
    BY DEF Init, Claimed, Unposted, Holding
  <1>3. Cardinality(Claimed) = 0
    BY <1>2, FS_EmptySet
  <1> QED  BY <1>1, <1>2, <1>3, MsgQAssumption DEF Init, QueueInv, Accounted, OneHolder, Place

(* The part of the invariant that no step disturbs which leaves the ring   *)
(* alone and keeps the account.                                            *)
LEMMA KeepsAccount ==
  ASSUME Accounted, OneHolder', UNCHANGED ringvars,
         sem' + Cardinality(Claimed') + Unposted'
           = sem + Cardinality(Claimed) + Unposted
  PROVE  Accounted'
  BY DEF Accounted, ringvars, Place

LEMMA NextInv == QueueInv /\ [Next]_vars => QueueInv'
  <1> SUFFICES ASSUME TypeOK, Accounted, [Next]_vars PROVE QueueInv'
    BY DEF QueueInv
  <1> USE DEF QueueInv
  <1>0. OneHolder
    BY DEF Accounted
  <1>1. CASE UNCHANGED vars
    BY <1>1 DEF vars, TypeOK, Accounted, OneHolder, Holding, Claimed, Unposted, Place
  <1>2. ASSUME NEW t \in Threads, NEW m \in Messages, CallSend(t, m)
        PROVE  QueueInv'
    <2>1. At(t, "idle", "send") /\ UNCHANGED <<ringvars, sem, mutex>>
      BY <1>2 DEF CallSend
    <2>2. OneHolder'
      BY <2>1, <1>0, HolderStep
    <2>3. Claimed' = Claimed /\ Unposted' = Unposted
      BY <2>1, <1>0, ClaimStep, PostStep
    <2>4. TypeOK'
      BY <1>2, <2>1, Moves DEF TypeOK, CallSend, Return, ringvars
    <2> QED  BY <2>1, <2>2, <2>3, <2>4, KeepsAccount
  <1>3. ASSUME NEW t \in Threads, SendLock(t)
        PROVE  QueueInv'
    <2>1. At(t, "send", "check") /\ Lock(t) /\ UNCHANGED <<ringvars, sem, buffer, answer>>
      BY <1>3 DEF SendLock
    <2>2. OneHolder'
      BY <2>1, <1>0, HolderStep DEF Lock
    <2>3. Claimed' = Claimed /\ Unposted' = Unposted
      BY <2>1, <1>0, ClaimStep, PostStep
    <2>4. TypeOK'
      BY <2>1, Moves DEF TypeOK, Lock, ringvars
    <2> QED  BY <2>1, <2>2, <2>3, <2>4, KeepsAccount
  <1>4. ASSUME NEW t \in Threads, SendPut(t)
        PROVE  QueueInv'
    <2>1. /\ At(t, "check", "post")
          /\ UNCHANGED <<read_offset, sem, mutex, buffer, answer>>
      BY <1>4 DEF SendPut
    <2>2. OneHolder'
      BY <2>1, <1>0, HolderStep
    <2>3. Claimed' = Claimed /\ Unposted = 0 /\ Unposted' = 1
      BY <2>1, <1>0, ClaimStep, PostStep
    <2>4. /\ write_offset' \in Places
          /\ num_msgs' \in 0 .. MaxMsgs
          /\ write_offset' = (IF num_msgs < MaxMsgs THEN Place(num_msgs)
                                                    ELSE read_offset)'
      BY <1>4, Adds DEF SendPut
    <2>5. ring' \in [Places -> Messages]
      BY <1>4 DEF SendPut, TypeOK
    <2>6. TypeOK'
      BY <1>4, <2>1, <2>4, <2>5, Moves DEF TypeOK, SendPut
    <2>7. num_msgs' = sem' + Cardinality(Claimed') + Unposted'
      BY <1>4, <2>1, <2>3, ClaimedFinite DEF SendPut, Accounted, TypeOK
    <2> QED  BY <2>2, <2>4, <2>6, <2>7 DEF Accounted
  <1>5. ASSUME NEW t \in Threads, SendFull(t)
        PROVE  QueueInv'
    <2>1. At(t, "check", "unlock") /\ UNCHANGED <<ringvars, sem, mutex, buffer>>
      BY <1>5 DEF SendFull
    <2>2. OneHolder'
      BY <2>1, <1>0, HolderStep
    <2>3. Claimed' = Claimed /\ Unposted' = Unposted
      BY <2>1, <1>0, ClaimStep, PostStep
    <2>4. TypeOK'
      BY <1>5, <2>1, Moves DEF TypeOK, SendFull, Return, ringvars
    <2> QED  BY <2>1, <2>2, <2>3, <2>4, KeepsAccount
  <1>6. ASSUME NEW t \in Threads, SendPost(t)
        PROVE  QueueInv'
    <2>1. At(t, "post", "unlock") /\ UNCHANGED <<ringvars, mutex, buffer>> /\ sem' = sem + 1
      BY <1>6 DEF SendPost
    <2>2. OneHolder'
      BY <2>1, <1>0, HolderStep
    <2>3. Claimed' = Claimed /\ Unposted = 1 /\ Unposted' = 0
      BY <2>1, <1>0, ClaimStep, PostStep
    <2>4. TypeOK'
      BY <1>6, <2>1, Moves DEF TypeOK, SendPost, Return, ringvars
    <2> QED  BY <2>1, <2>2, <2>3, <2>4, KeepsAccount, ClaimedFinite DEF TypeOK
  <1>7. ASSUME NEW t \in Threads, Unlock(t)
        PROVE  QueueInv'
    <2>1. At(t, "unlock", "idle") /\ mutex' = mutex \ {t} /\ UNCHANGED <<ringvars, sem, buffer, answer>>
      BY <1>7 DEF Unlock
    <2>2. OneHolder'
      BY <2>1, <1>0, HolderStep
    <2>3. Claimed' = Claimed /\ Unposted' = Unposted
      BY <2>1, <1>0, ClaimStep, PostStep
    <2>4. TypeOK'
      BY <2>1, Moves DEF TypeOK, ringvars
    <2> QED  BY <2>1, <2>2, <2>3, <2>4, KeepsAccount
  <1>8. ASSUME NEW t \in Threads, NEW timeout \in {"wait", "try"}, CallReceive(t, timeout)
        PROVE  QueueInv'
    <2>1. At(t, "idle", timeout) /\ UNCHANGED <<ringvars, sem, mutex, buffer>>
      BY <1>8 DEF CallReceive
    <2>2. OneHolder'
      BY <2>1, <1>0, HolderStep
    <2>3. Claimed' = Claimed /\ Unposted' = Unposted
      BY <2>1, <1>0, ClaimStep, PostStep
    <2>4. TypeOK'
      BY <1>8, <2>1, Moves DEF TypeOK, CallReceive, Return, ringvars
    <2> QED  BY <2>1, <2>2, <2>3, <2>4, KeepsAccount
  <1>9. ASSUME NEW t \in Threads, SemWait(t)
        PROVE  QueueInv'
    <2>1. PICK here \in {"wait", "try"} : At(t, here, "receive")
      BY <1>9 DEF SemWait
    <2>2. sem > 0 /\ sem' = sem - 1 /\ UNCHANGED <<ringvars, mutex, buffer, answer>>
      BY <1>9 DEF SemWait
    <2>3. OneHolder'
      BY <2>1, <2>2, <1>0, HolderStep
    <2>4. Cardinality(Claimed') = Cardinality(Claimed) + 1 /\ Unposted' = Unposted
      BY <2>1, <1>0, ClaimStep, PostStep
    <2>5. TypeOK'
      BY <2>1, <2>2, Moves DEF TypeOK, ringvars
    <2>6. Unposted \in {0, 1}
      BY DEF Unposted
    <2> QED  BY <2>2, <2>3, <2>4, <2>5, <2>6, KeepsAccount, ClaimedFinite DEF TypeOK
  <1>10. ASSUME NEW t \in Threads, SemTryFails(t)
         PROVE  QueueInv'
    <2>1. At(t, "try", "idle") /\ UNCHANGED <<ringvars, sem, mutex, buffer>>
      BY <1>10 DEF SemTryFails
    <2>2. OneHolder'
      BY <2>1, <1>0, HolderStep
    <2>3. Claimed' = Claimed /\ Unposted' = Unposted
      BY <2>1, <1>0, ClaimStep, PostStep
    <2>4. TypeOK'
      BY <1>10, <2>1, Moves DEF TypeOK, SemTryFails, Return, ringvars
    <2> QED  BY <2>1, <2>2, <2>3, <2>4, KeepsAccount
  <1>11. ASSUME NEW t \in Threads, ReceiveLock(t)
         PROVE  QueueInv'
    <2>1. At(t, "receive", "take") /\ Lock(t) /\ UNCHANGED <<ringvars, sem, buffer, answer>>
      BY <1>11 DEF ReceiveLock
    <2>2. OneHolder'
      BY <2>1, <1>0, HolderStep DEF Lock
    <2>3. Claimed' = Claimed /\ Unposted' = Unposted
      BY <2>1, <1>0, ClaimStep, PostStep
    <2>4. TypeOK'
      BY <2>1, Moves DEF TypeOK, Lock, ringvars
    <2> QED  BY <2>1, <2>2, <2>3, <2>4, KeepsAccount
  <1>12. ASSUME NEW t \in Threads, ReceiveTake(t)
         PROVE  QueueInv'
    <2>1. /\ At(t, "take", "unlock")
          /\ UNCHANGED <<ring, write_offset, sem, mutex, buffer>>
      BY <1>12 DEF ReceiveTake
    <2>2. OneHolder'
      BY <2>1, <1>0, HolderStep
    <2>3. /\ t \in Claimed /\ Unposted = 0 /\ Unposted' = 0
          /\ Cardinality(Claimed') = Cardinality(Claimed) - 1
      BY <2>1, <1>0, ClaimStep, PostStep
    <2>4. Cardinality(Claimed) > 0
      BY <2>3, ClaimedFinite, FS_EmptySet
    <2>5. num_msgs > 0
      BY <2>3, <2>4, ClaimedFinite DEF Accounted, TypeOK
    <2>6. /\ read_offset' \in Places
          /\ num_msgs' \in 0 .. MaxMsgs
          /\ write_offset' = (IF num_msgs < MaxMsgs THEN Place(num_msgs)
                                                    ELSE read_offset)'
      BY <1>12, <2>5, Removes DEF ReceiveTake
    <2>7. ring[read_offset] \in Messages
      BY DEF TypeOK
    <2>8. TypeOK'
      BY <1>12, <2>1, <2>6, <2>7, Moves DEF TypeOK, ReceiveTake, Return
    <2>9. num_msgs' = sem' + Cardinality(Claimed') + Unposted'
      BY <1>12, <2>1, <2>3, ClaimedFinite DEF ReceiveTake, Accounted, TypeOK
    <2> QED  BY <2>2, <2>6, <2>8, <2>9 DEF Accounted
  <1> QED
    BY <1>1, <1>2, <1>3, <1>4, <1>5, <1>6, <1>7, <1>8, <1>9, <1>10, <1>11, <1>12
       DEF Next

(* The invariant: every message in the ring is accounted for by a permit,  *)
(* by a receiver that has taken its permit, or by a sender that has not    *)
(* given it yet; the mutex has one holder.                                 *)
THEOREM EveryMessageAccounted == Spec => []Accounted
  <1>1. Spec => []QueueInv
    BY InitInv, NextInv, PTL DEF Spec
  <1>2. QueueInv => Accounted
    BY DEF QueueInv
  <1> QED  BY <1>1, <1>2, PTL

THEOREM QueueTypeCorrect == Spec => []TypeOK
  <1>1. Spec => []QueueInv
    BY InitInv, NextInv, PTL DEF Spec
  <1>2. QueueInv => TypeOK
    BY DEF QueueInv
  <1> QED  BY <1>1, <1>2, PTL

(***************************************************************************)
(* The refinement.                                                         *)
(***************************************************************************)

(* A sender that has yet to post has put its message at the end.           *)
Written ==
  \A t \in Threads : pc[t] = "post" =>
    num_msgs > 0 /\ ring[Place(num_msgs - 1)] = buffer[t]

(* Two messages of the ring are in two places.                             *)
LEMMA PlacesDiffer ==
  ASSUME TypeOK, NEW i \in 0 .. MaxMsgs - 1, NEW j \in 0 .. MaxMsgs - 1, i # j
  PROVE  Place(i) # Place(j) /\ Place(i) \in Places
  <1>1. read_offset \in 0 .. MaxMsgs - 1 /\ MaxMsgs \in Nat
    BY MsgQAssumption DEF TypeOK, Places
  <1> QED  BY <1>1 DEF Place, Places

LEMMA ContentsSeq ==
  ASSUME QueueInv
  PROVE  /\ Contents \in Seq(Messages)
         /\ Len(Contents) = num_msgs - Unposted
         /\ num_msgs - Unposted \in Nat
         /\ num_msgs - Unposted = sem + Cardinality(Claimed)
  <1>1. num_msgs - Unposted \in 0 .. MaxMsgs /\ num_msgs - Unposted = sem + Cardinality(Claimed)
    BY ClaimedFinite, MsgQAssumption DEF QueueInv, TypeOK, Accounted, Unposted
  <1>2. \A i \in 1 .. (num_msgs - Unposted) : ring[Place(i - 1)] \in Messages
    <2>1. read_offset \in 0 .. MaxMsgs - 1 /\ MaxMsgs \in Nat
      BY MsgQAssumption DEF QueueInv, TypeOK, Places
    <2>2. \A i \in 1 .. (num_msgs - Unposted) : Place(i - 1) \in Places
      BY <1>1, <2>1 DEF Place, Places
    <2> QED  BY <2>2 DEF QueueInv, TypeOK
  <1> QED  BY <1>1, <1>2 DEF Contents

LEMMA InitRefines == Init => Fifo!QueueInit
  <1> SUFFICES ASSUME Init PROVE Fifo!QueueInit
    OBVIOUS
  <1>1. Claimed = {} /\ Unposted = 0 /\ num_msgs = 0
    BY DEF Init, Claimed, Unposted
  <1>2. Contents = << >>
    BY <1>1 DEF Contents
  <1> QED  BY <1>1, <1>2 DEF Init, Fifo!QueueInit

LEMMA InitWritten == Init => Written
  BY DEF Init, Written

LEMMA NextWritten == QueueInv /\ Written /\ [Next]_vars => Written'
  <1> SUFFICES ASSUME QueueInv, Written, [Next]_vars,
                      NEW u \in Threads, pc'[u] = "post"
               PROVE  num_msgs' > 0 /\ ring'[Place(num_msgs - 1)'] = buffer'[u]
    BY DEF Written
  <1>0. TypeOK /\ OneHolder
    BY DEF QueueInv, Accounted
  <1>1. CASE pc[u] = "post" /\ UNCHANGED ringvars /\ buffer'[u] = buffer[u]
    BY <1>1 DEF Written, ringvars, Place
  <1>2. ASSUME NEW t \in Threads, SendPut(t) PROVE pc[u] # "post" /\ u = t
    <2>1. pc[t] = "check" /\ \A v \in Threads : v # t => pc'[v] = pc[v]
      BY <1>0, <1>2, Moves DEF SendPut
    <2>2. pc[u] # "post"
      BY <1>0, <2>1 DEF OneHolder, Holding
    <2> QED  BY <2>1, <2>2
  <1>3. ASSUME NEW t \in Threads, SendPut(t)
        PROVE  num_msgs' > 0 /\ ring'[Place(num_msgs - 1)'] = buffer'[u]
    <2>1. write_offset = Place(num_msgs) /\ num_msgs \in Nat
      BY <1>3, MsgQAssumption DEF SendPut, QueueInv, Accounted
    <2>2. num_msgs' = num_msgs + 1 /\ read_offset' = read_offset
      BY <1>3 DEF SendPut
    <2>3. Place(num_msgs - 1)' = write_offset
      BY <2>1, <2>2 DEF Place
    <2>4. ring'[write_offset] = buffer[t] /\ buffer' = buffer
      BY <1>0, <1>3 DEF SendPut, TypeOK
    <2>5. u = t /\ num_msgs' > 0
      BY <1>2, <1>3, <2>1, <2>2
    <2> QED  BY <2>3, <2>4, <2>5
  <1>4. ASSUME NEW t \in Threads, NEW m \in Messages, CallSend(t, m)
        PROVE  pc[u] = "post" /\ UNCHANGED ringvars /\ buffer'[u] = buffer[u]
    BY <1>0, <1>4 DEF CallSend, At, TypeOK
  <1>5. ASSUME NEW t \in Threads,
               \/ SendLock(t) \/ SendFull(t) \/ SendPost(t) \/ Unlock(t)
               \/ \E timeout \in {"wait", "try"} : CallReceive(t, timeout)
               \/ SemWait(t) \/ SemTryFails(t) \/ ReceiveLock(t)
        PROVE  pc[u] = "post" /\ UNCHANGED ringvars /\ buffer'[u] = buffer[u]
    BY <1>0, <1>5 DEF SendLock, SendFull, SendPost, Unlock, CallReceive, SemWait,
       SemTryFails, ReceiveLock, At, TypeOK
  <1>6. ASSUME NEW t \in Threads, ReceiveTake(t) PROVE FALSE
    <2>1. pc[t] = "take" /\ pc'[t] = "unlock" /\ \A v \in Threads : v # t => pc'[v] = pc[v]
      BY <1>0, <1>6, Moves DEF ReceiveTake
    <2> QED  BY <1>0, <2>1 DEF OneHolder, Holding
  <1>7. CASE UNCHANGED vars
    BY <1>1, <1>7 DEF vars, ringvars
  <1> QED  BY <1>1, <1>3, <1>4, <1>5, <1>6, <1>7 DEF Next

(* A step that the bounded queue does not see, or sees in its answers only.*)
LEMMA SameContents ==
  ASSUME UNCHANGED ringvars, Unposted' = Unposted
  PROVE  Contents' = Contents
  BY DEF Contents, ringvars, Place

LEMMA SameCardinality == Fifo!Cardinality(Claimed) = Cardinality(Claimed)
  BY DEF Fifo!Cardinality, Cardinality

LEMMA NextRefines ==
  QueueInv /\ Written /\ [Next]_vars => [Fifo!QueueNext]_Fifo!qvars
  <1> SUFFICES ASSUME QueueInv, Written, [Next]_vars
               PROVE  [Fifo!QueueNext]_Fifo!qvars
    OBVIOUS
  <1>0. TypeOK /\ OneHolder /\ Accounted
    BY DEF QueueInv, Accounted
  <1>1. CASE UNCHANGED vars
    BY <1>1, SameContents DEF vars, Fifo!qvars, Contents, Claimed, Unposted, Place
  <1>2. ASSUME NEW t \in Threads, NEW m \in Messages, CallSend(t, m)
        PROVE  Fifo!Call(t)
    <2>1. At(t, "idle", "send") /\ UNCHANGED <<ringvars, sem, mutex>>
      BY <1>2 DEF CallSend
    <2>2. Claimed' = Claimed /\ Contents' = Contents
      BY <1>0, <2>1, ClaimStep, PostStep, SameContents
    <2> QED  BY <1>2, <2>2 DEF CallSend, Return, Fifo!Call, Fifo!Answer
  <1>3. ASSUME NEW t \in Threads, SendLock(t) \/ Unlock(t) \/ ReceiveLock(t)
        PROVE  UNCHANGED Fifo!qvars
    <2>1. PICK here, next \in {"send", "check", "unlock", "idle", "receive", "take"} :
            /\ At(t, here, next)
            /\ <<here, next>> \in {<<"send", "check">>, <<"unlock", "idle">>, <<"receive", "take">>}
      BY <1>3 DEF SendLock, Unlock, ReceiveLock
    <2>2. UNCHANGED <<ringvars, buffer, answer>>
      BY <1>3 DEF SendLock, Unlock, ReceiveLock
    <2>3. Claimed' = Claimed /\ Unposted' = Unposted
      BY <1>0, <2>1, ClaimStep, PostStep
    <2> QED  BY <2>2, <2>3, SameContents DEF Fifo!qvars
  <1>4. ASSUME NEW t \in Threads, SendPut(t)
        PROVE  UNCHANGED Fifo!qvars
    <2>1. At(t, "check", "post") /\ UNCHANGED <<read_offset, buffer, answer>>
      BY <1>4 DEF SendPut
    <2>2. Claimed' = Claimed /\ Unposted = 0 /\ Unposted' = 1
      BY <1>0, <2>1, ClaimStep, PostStep
    <2>3. num_msgs \in 0 .. MaxMsgs - 1 /\ num_msgs' = num_msgs + 1
      BY <1>0, <1>4, MsgQAssumption DEF SendPut, Accounted
    <2>4. write_offset = Place(num_msgs)
      BY <1>0, <2>3, MsgQAssumption DEF Accounted
    <2>5. ASSUME NEW i \in 1 .. num_msgs
          PROVE  ring'[Place(i - 1)'] = ring[Place(i - 1)]
      <3>1. Place(i - 1) # write_offset /\ Place(i - 1) \in Places
        <4>1. /\ i - 1 \in 0 .. MaxMsgs - 1 /\ num_msgs \in 0 .. MaxMsgs - 1
              /\ i - 1 # num_msgs
          BY <2>3, MsgQAssumption
        <4> HIDE DEF Place
        <4> QED  BY <1>0, <2>4, <4>1, PlacesDiffer
      <3>2. Place(i - 1)' = Place(i - 1)
        BY <2>1 DEF Place
      <3> QED  BY <1>0, <1>4, <3>1, <3>2 DEF SendPut, TypeOK
    <2>6. num_msgs - Unposted = num_msgs /\ num_msgs' - Unposted' = num_msgs
      BY <2>2, <2>3
    <2>7. Contents' = Contents
      BY <2>5, <2>6 DEF Contents
    <2> QED  BY <2>1, <2>2, <2>7 DEF Fifo!qvars
  <1>5. ASSUME NEW t \in Threads, SendFull(t)
        PROVE  Fifo!Refuse(t)
    <2>1. At(t, "check", "unlock") /\ UNCHANGED <<ringvars, sem, mutex, buffer>>
      BY <1>5 DEF SendFull
    <2>2. Claimed' = Claimed /\ Unposted = 0 /\ Contents' = Contents
      BY <1>0, <2>1, ClaimStep, PostStep, SameContents
    <2>3. Len(Contents) = MaxMsgs
      BY <1>0, <1>5, <2>2, ContentsSeq, MsgQAssumption DEF SendFull, Accounted
    <2> QED  BY <1>5, <2>1, <2>2, <2>3 DEF SendFull, Return, Fifo!Refuse, Fifo!Answer
  <1>6. ASSUME NEW t \in Threads, SendPost(t)
        PROVE  Fifo!Send(t)
    <2>1. At(t, "post", "unlock") /\ UNCHANGED <<ringvars, mutex, buffer>> /\ pc[t] = "post"
      BY <1>6 DEF SendPost, At
    <2>2. Claimed' = Claimed /\ Unposted = 1 /\ Unposted' = 0
      BY <1>0, <2>1, ClaimStep, PostStep
    <2>3. num_msgs \in 1 .. MaxMsgs /\ ring[Place(num_msgs - 1)] = buffer[t]
      BY <1>0, <2>1 DEF Written, Accounted
    <2>4. Contents \in Seq(Messages) /\ Len(Contents) = num_msgs - 1
      BY <2>2, ContentsSeq
    <2>5. Contents' = [i \in 1 .. num_msgs |-> ring[Place(i - 1)]]
      BY <2>1, <2>2, <2>3 DEF Contents, ringvars, Place
    <2>6. Contents = [i \in 1 .. (num_msgs - 1) |-> ring[Place(i - 1)]]
      BY <2>2 DEF Contents
    <2>7. Contents' = Append(Contents, buffer[t])
      BY <2>3, <2>4, <2>5, <2>6
    <2>8. Len(Contents) < MaxMsgs
      BY <2>3, <2>4, MsgQAssumption
    <2> QED  BY <1>6, <2>1, <2>2, <2>7, <2>8 DEF SendPost, Return, Fifo!Send, Fifo!Answer
  <1>7. ASSUME NEW t \in Threads, NEW timeout \in {"wait", "try"}, CallReceive(t, timeout)
        PROVE  Fifo!Call(t)
    <2>1. At(t, "idle", timeout) /\ UNCHANGED <<ringvars, sem, mutex, buffer>>
      BY <1>7 DEF CallReceive
    <2>2. Claimed' = Claimed /\ Contents' = Contents
      BY <1>0, <2>1, ClaimStep, PostStep, SameContents
    <2>3. buffer[t] \in Messages /\ buffer' = [buffer EXCEPT ![t] = buffer[t]]
      BY <1>0, <2>1 DEF TypeOK
    <2> QED  BY <1>7, <2>2, <2>3 DEF CallReceive, Return, Fifo!Call, Fifo!Answer
  <1>8. ASSUME NEW t \in Threads, SemWait(t)
        PROVE  Fifo!Claim(t)
    <2>1. PICK here \in {"wait", "try"} : At(t, here, "receive")
      BY <1>8 DEF SemWait
    <2>2. sem > 0 /\ UNCHANGED <<ringvars, mutex, buffer, answer>>
      BY <1>8 DEF SemWait
    <2>3. t \notin Claimed /\ Claimed' = Claimed \cup {t} /\ Contents' = Contents
      BY <1>0, <2>1, <2>2, ClaimStep, PostStep, SameContents
    <2>4. Cardinality(Claimed) < Len(Contents)
      BY <1>0, <2>2, ContentsSeq, ClaimedFinite DEF TypeOK
    <2> QED  BY <2>2, <2>3, <2>4, SameCardinality DEF Fifo!Claim
  <1>9. ASSUME NEW t \in Threads, SemTryFails(t)
        PROVE  Fifo!Miss(t)
    <2>1. At(t, "try", "idle") /\ UNCHANGED <<ringvars, sem, mutex, buffer>> /\ sem = 0
      BY <1>9 DEF SemTryFails
    <2>2. Claimed' = Claimed /\ Contents' = Contents
      BY <1>0, <2>1, ClaimStep, PostStep, SameContents
    <2>3. Cardinality(Claimed) = Len(Contents)
      BY <2>1, ContentsSeq, ClaimedFinite
    <2> QED  BY <1>9, <2>1, <2>2, <2>3, SameCardinality DEF SemTryFails, Return, Fifo!Miss, Fifo!Answer
  <1>10. ASSUME NEW t \in Threads, ReceiveTake(t)
         PROVE  Fifo!Receive(t)
    <2>1. At(t, "take", "unlock") /\ UNCHANGED <<ring, write_offset, buffer>>
      BY <1>10 DEF ReceiveTake
    <2>2. t \in Claimed /\ Claimed' = Claimed \ {t} /\ Unposted = 0 /\ Unposted' = 0
      BY <1>0, <2>1, ClaimStep, PostStep
    <2>3. Cardinality(Claimed) > 0
      BY <2>2, ClaimedFinite, FS_EmptySet
    <2>4. Contents \in Seq(Messages) /\ Len(Contents) = num_msgs /\ num_msgs \in 1 .. MaxMsgs
      BY <1>0, <2>2, <2>3, ContentsSeq, ClaimedFinite, MsgQAssumption DEF Accounted, TypeOK
    <2>5. read_offset' = (IF read_offset + 1 < MaxMsgs THEN read_offset + 1 ELSE 0)
          /\ num_msgs' = num_msgs - 1
      BY <1>0, <1>10, Wraps DEF ReceiveTake, TypeOK
    <2>6. read_offset \in 0 .. MaxMsgs - 1 /\ MaxMsgs \in Nat \ {0}
      BY <1>0, MsgQAssumption DEF TypeOK, Places
    <2>7. \A i \in 1 .. (num_msgs - 1) : Place(i - 1)' = Place(i)
      BY <2>4, <2>5, <2>6 DEF Place
    <2>8. Contents' = [i \in 1 .. (num_msgs - 1) |-> ring[Place(i)]]
      BY <2>1, <2>2, <2>5, <2>7 DEF Contents
    <2>9. Contents = [i \in 1 .. num_msgs |-> ring[Place(i - 1)]]
      BY <2>2, <2>4 DEF Contents
    <2>10. Contents' = Tail(Contents)
      BY <2>4, <2>8, <2>9
    <2>11. Head(Contents) = ring[read_offset]
      <3>1. Place(0) = read_offset
        BY <2>6 DEF Place
      <3> QED  BY <2>4, <2>9, <3>1
    <2> QED  BY <1>10, <2>1, <2>2, <2>10, <2>11 DEF ReceiveTake, Return, Fifo!Receive, Fifo!Answer
  <1> QED
    BY <1>1, <1>2, <1>3, <1>4, <1>5, <1>6, <1>7, <1>8, <1>9, <1>10
       DEF Next, Fifo!QueueNext

(* The ring, its semaphore and its mutex are a bounded queue: messages     *)
(* come out in the order in which their sends returned, each once; a send  *)
(* fails only when the queue is full, and a receive that does not wait     *)
(* only when every message has been promised to another receiver.          *)
THEOREM QueueIsFifo == Spec => KeepsFifo
  <1>1. Spec => [](QueueInv /\ Written)
    <2>1. Init => QueueInv /\ Written
      BY InitInv, InitWritten
    <2>2. QueueInv /\ Written /\ [Next]_vars => (QueueInv /\ Written)'
      BY NextInv, NextWritten
    <2> QED  BY <2>1, <2>2, PTL DEF Spec
  <1>2. QueueInv /\ Written /\ [Next]_vars => [Fifo!QueueNext]_Fifo!qvars
    BY NextRefines
  <1> QED
    BY <1>1, <1>2, InitRefines, PTL DEF Spec, KeepsFifo, Fifo!QueueSpec
=============================================================================
