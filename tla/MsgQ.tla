---------------------------------- MODULE MsgQ ----------------------------------
(***************************************************************************)
(* The message queue (jni/wprint/lib/wprint_msgq.c): a ring of messages    *)
(* under a mutex, and a counting semaphore on which receivers wait before  *)
(* they take the mutex.  Any thread may send and receive.                  *)
(*                                                                         *)
(* What a thread does under the mutex is split where another thread can    *)
(* see a difference: the semaphore is posted after the message is in the   *)
(* ring and before the mutex is given up, and it needs no mutex.           *)
(***************************************************************************)
EXTENDS Integers, Sequences, FiniteSets

CONSTANTS
  Threads,      (* the threads that use the queue                            *)
  Messages,     (* what they send                                            *)
  MaxMsgs       (* max_msgs, the capacity of the ring                        *)

ASSUME MsgQAssumption ==
  /\ IsFiniteSet(Threads)
  /\ MaxMsgs \in Nat \ {0}
  /\ Messages \cap {"none", "sent", "full", "empty"} = {}

VARIABLES
  ring,          (* the bytes behind the header, a message for each place    *)
  num_msgs, read_offset, write_offset,
  sem,           (* the value of sem_count                                   *)
  mutex,         (* the set of the threads that hold the mutex               *)
  pc,            (* where each thread is in msgQSend or msgQReceive          *)
  buffer,        (* the message it sends                                     *)
  answer         (* what its last call has returned                          *)

vars == <<ring, num_msgs, read_offset, write_offset, sem, mutex, pc, buffer,
          answer>>

Places == 0 .. (MaxMsgs - 1)

(* msgQCreate.  The memory is cleared: the ring holds no message; which    *)
(* value stands for that does not matter.                                  *)
Init ==
  /\ ring \in [Places -> Messages]
  /\ num_msgs = 0 /\ read_offset = 0 /\ write_offset = 0
  /\ sem = 0
  /\ mutex = {}
  /\ pc = [t \in Threads |-> "idle"]
  /\ buffer \in [Threads -> Messages]
  /\ answer = [t \in Threads |-> "none"]

At(t, here, next) == pc[t] = here /\ pc' = [pc EXCEPT ![t] = next]
Lock(t)           == mutex = {} /\ mutex' = {t}
Return(t, a)      == answer' = [answer EXCEPT ![t] = a]

ringvars == <<ring, num_msgs, read_offset, write_offset>>

(***************************************************************************)
(* msgQSend, with the only timeout it accepts, NO_WAIT.                    *)
(***************************************************************************)
CallSend(t, m) ==
  /\ At(t, "idle", "send")
  /\ buffer' = [buffer EXCEPT ![t] = m]
  /\ Return(t, "none")
  /\ UNCHANGED <<ringvars, sem, mutex>>

SendLock(t) ==
  /\ At(t, "send", "check")
  /\ Lock(t)
  /\ UNCHANGED <<ringvars, sem, buffer, answer>>

(* Mutant: one message too many.                                           *)
PutOneMore(t) ==
  /\ At(t, "check", "post")
  /\ num_msgs <= MaxMsgs
  /\ ring' = [ring EXCEPT ![write_offset] = buffer[t]]
  /\ write_offset' = (write_offset + 1) % MaxMsgs
  /\ num_msgs' = num_msgs + 1
  /\ UNCHANGED <<read_offset, sem, mutex, buffer, answer>>

SendPut(t) ==
  /\ At(t, "check", "post")
  /\ num_msgs < MaxMsgs
  /\ ring' = [ring EXCEPT ![write_offset] = buffer[t]]
  /\ write_offset' = (write_offset + 1) % MaxMsgs
  /\ num_msgs' = num_msgs + 1
  /\ UNCHANGED <<read_offset, sem, mutex, buffer, answer>>

SendFull(t) ==
  /\ At(t, "check", "unlock")
  /\ num_msgs >= MaxMsgs
  /\ Return(t, "full")
  /\ UNCHANGED <<ringvars, sem, mutex, buffer>>

SendPost(t) ==
  /\ At(t, "post", "unlock")
  /\ sem' = sem + 1
  /\ Return(t, "sent")
  /\ UNCHANGED <<ringvars, mutex, buffer>>

Unlock(t) ==
  /\ At(t, "unlock", "idle")
  /\ mutex' = mutex \ {t}
  /\ UNCHANGED <<ringvars, sem, buffer, answer>>

(***************************************************************************)
(* msgQReceive: sem_wait (WAIT_FOREVER) or sem_trywait (NO_WAIT), and then *)
(* the mutex.                                                              *)
(***************************************************************************)
CallReceive(t, timeout) ==
  /\ At(t, "idle", timeout)
  /\ Return(t, "none")
  /\ UNCHANGED <<ringvars, sem, mutex, buffer>>

SemWait(t) ==
  /\ At(t, "wait", "receive") \/ At(t, "try", "receive")
  /\ sem > 0
  /\ sem' = sem - 1
  /\ UNCHANGED <<ringvars, mutex, buffer, answer>>

SemTryFails(t) ==
  /\ At(t, "try", "idle")
  /\ sem = 0
  /\ Return(t, "empty")
  /\ UNCHANGED <<ringvars, sem, mutex, buffer>>

ReceiveLock(t) ==
  /\ At(t, "receive", "take")
  /\ Lock(t)
  /\ UNCHANGED <<ringvars, sem, buffer, answer>>

(* Mutant: the ring is read at the place that is written next.             *)
TakeNewest(t) ==
  /\ At(t, "take", "unlock")
  /\ Return(t, ring[write_offset])
  /\ read_offset' = (read_offset + 1) % MaxMsgs
  /\ num_msgs' = num_msgs - 1
  /\ UNCHANGED <<ring, write_offset, sem, mutex, buffer>>

ReceiveTake(t) ==
  /\ At(t, "take", "unlock")
  /\ Return(t, ring[read_offset])
  /\ read_offset' = (read_offset + 1) % MaxMsgs
  /\ num_msgs' = num_msgs - 1
  /\ UNCHANGED <<ring, write_offset, sem, mutex, buffer>>

-----------------------------------------------------------------------------
Next ==
  \E t \in Threads :
    \/ \E m \in Messages : CallSend(t, m)
    \/ SendLock(t) \/ SendPut(t) \/ SendFull(t) \/ SendPost(t) \/ Unlock(t)
    \/ \E timeout \in {"wait", "try"} : CallReceive(t, timeout)
    \/ SemWait(t) \/ SemTryFails(t) \/ ReceiveLock(t) \/ ReceiveTake(t)

Spec == Init /\ [][Next]_vars

-----------------------------------------------------------------------------
Claimed == {t \in Threads : pc[t] \in {"receive", "take"}}
Unposted == IF \E t \in Threads : pc[t] = "post" THEN 1 ELSE 0
Holding == {t \in Threads : pc[t] \in {"check", "post", "take", "unlock"}}

TypeOK ==
  /\ ring \in [Places -> Messages]
  /\ num_msgs \in Int /\ sem \in Nat
  /\ read_offset \in Places /\ write_offset \in Places
  /\ mutex \subseteq Threads
  /\ pc \in [Threads -> {"idle", "send", "check", "post", "unlock", "wait",
                         "try", "receive", "take"}]
  /\ buffer \in [Threads -> Messages]
  /\ answer \in [Threads -> Messages \cup {"none", "sent", "full", "empty"}]

(* The place of the i-th message of the ring, from 0.                      *)
Place(i) == IF read_offset + i < MaxMsgs THEN read_offset + i
                                         ELSE read_offset + i - MaxMsgs

(* Whoever is in a critical section holds the mutex, alone.                *)
OneHolder == mutex = Holding /\ \A t, u \in mutex : t = u

(* The semaphore, the receivers that have passed it and the sender that    *)
(* has not posted it yet account for every message in the ring, so that no *)
(* receiver ever finds it empty; and the offsets enclose the messages.     *)
Accounted ==
  /\ OneHolder
  /\ num_msgs \in 0 .. MaxMsgs
  /\ num_msgs = sem + Cardinality(Claimed) + Unposted
  /\ write_offset = IF num_msgs < MaxMsgs THEN Place(num_msgs) ELSE read_offset

(* The messages that have been sent and not been received.                 *)
Contents == [i \in 1 .. (num_msgs - Unposted) |-> ring[Place(i - 1)]]

Fifo == INSTANCE BoundedQueue WITH
  Capacity <- MaxMsgs,
  queue    <- Contents,
  claims   <- Claimed

(* The ring with its semaphore and its mutex is the bounded queue the rest *)
(* of the library takes it for.                                            *)
KeepsFifo == Fifo!QueueSpec
=============================================================================
