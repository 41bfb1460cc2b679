------------------------------ MODULE BoundedQueue ------------------------------
(***************************************************************************)
(* What the message queue of jni/wprint/lib/wprint_msgq.c promises: sent   *)
(* messages are received in the order in which they were sent, each once;  *)
(* a send fails only when the queue is full, and a receive that does not   *)
(* wait only when every message in it has been promised to a receiver.     *)
(***************************************************************************)
EXTENDS Naturals, Sequences, FiniteSets

CONSTANTS Threads, Messages, Capacity

VARIABLES
  queue,     (* the messages sent and not yet received                      *)
  claims,    (* the receivers that have been promised a message             *)
  buffer,    (* the message a thread sends, if it sends                     *)
  answer     (* what the last call of a thread has returned, or "none"      *)

qvars == <<queue, claims, buffer, answer>>

QueueInit ==
  /\ queue = << >>
  /\ claims = {}
  /\ buffer \in [Threads -> Messages]
  /\ answer = [t \in Threads |-> "none"]

Answer(t, a) == answer' = [answer EXCEPT ![t] = a]

(* A thread makes its next call.                                           *)
Call(t) ==
  /\ \E m \in Messages : buffer' = [buffer EXCEPT ![t] = m]
  /\ Answer(t, "none")
  /\ UNCHANGED <<queue, claims>>

Send(t) ==
  /\ Len(queue) < Capacity
  /\ queue' = Append(queue, buffer[t])
  /\ Answer(t, "sent")
  /\ UNCHANGED <<claims, buffer>>

Refuse(t) ==
  /\ Len(queue) = Capacity
  /\ Answer(t, "full")
  /\ UNCHANGED <<queue, claims, buffer>>

Claim(t) ==
  /\ t \notin claims
  /\ Cardinality(claims) < Len(queue)
  /\ claims' = claims \cup {t}
  /\ UNCHANGED <<queue, buffer, answer>>

Miss(t) ==
  /\ Cardinality(claims) = Len(queue)
  /\ Answer(t, "empty")
  /\ UNCHANGED <<queue, claims, buffer>>

Receive(t) ==
  /\ t \in claims
  /\ claims' = claims \ {t}
  /\ queue' = Tail(queue)
  /\ Answer(t, Head(queue))
  /\ UNCHANGED buffer

QueueNext ==
  \E t \in Threads : \/ Call(t) \/ Send(t) \/ Refuse(t)
                     \/ Claim(t) \/ Miss(t) \/ Receive(t)

QueueSpec == QueueInit /\ [][QueueNext]_qvars
=============================================================================
