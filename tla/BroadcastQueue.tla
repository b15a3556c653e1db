----------------------------- MODULE BroadcastQueue -----------------------------
(***************************************************************************)
(* What MessageQueue promises its callers: one writer, every reader gets     *)
(* every message, once, in the order they were enqueued.                    *)
(***************************************************************************)
EXTENDS Sequences

CONSTANTS
  Reader,           (* the readers of the queue                             *)
  Message,          (* what can be enqueued                                 *)
  NoMessage         (* a reader that has not dequeued anything              *)

ASSUME NoMessageAssumption == NoMessage \notin Message

VARIABLES
  inbox,            (* inbox[r]: messages enqueued and not yet dequeued by r *)
  got               (* got[r]: the last message r dequeued                  *)

queueVars == <<inbox, got>>

QueueInit ==
  /\ inbox = [r \in Reader |-> <<>>]
  /\ got = [r \in Reader |-> NoMessage]

(* enqueue(obj)                                                            *)
Enqueue(m) ==
  /\ inbox' = [r \in Reader |-> Append(inbox[r], m)]
  /\ UNCHANGED got

(* dequeue() of reader r                                                   *)
Dequeue(r) ==
  /\ inbox[r] # <<>>
  /\ got' = [got EXCEPT ![r] = Head(inbox[r])]
  /\ inbox' = [inbox EXCEPT ![r] = Tail(@)]

QueueNext ==
  \/ \E m \in Message : Enqueue(m)
  \/ \E r \in Reader : Dequeue(r)

(* Every message, once and in order.                                        *)
QueueSafety == QueueInit /\ [][QueueNext]_queueVars

(* Readers that keep dequeuing get everything that was enqueued.            *)
QueueSpec ==
  /\ QueueSafety
  /\ \A r \in Reader : WF_queueVars(Dequeue(r))

===============================================================================
