---------------------------- MODULE EventConsumer ----------------------------
(***************************************************************************)
(* The events users-api takes off RabbitMQ (admin.action_recorded) and the *)
(* audit_log rows they become.  posts-api publishes at least once, so two  *)
(* messages may carry the same event, and two instances of the service     *)
(* overlap during a rolling update.                                        *)
(*                                                                         *)
(* A slot is one of the PREFETCH deliveries an instance may hold, with the *)
(* task that serves it.  A task outlives its delivery when the connection  *)
(* is lost: it goes on writing, and can settle nothing.  One that `close`  *)
(* stops waiting for is cancelled, and its transaction with it.            *)
(*                                                                         *)
(* The broker is external: a quorum queue that takes back what was not     *)
(* acked, and dead-letters a message returned more than DeliveryLimit      *)
(* times (20 unless declared otherwise, in the version of the compose).    *)
(***************************************************************************)
EXTENDS Naturals

CONSTANTS Message,        \* messages the broker may be sent
          Event,          \* event ids
          id,             \* the event a message carries
          Valid,          \* messages that parse as an AuditEvent
          Slot,           \* deliveries all the instances may hold at once
          DeliveryLimit,  \* times the queue takes a message back
          MaxFailures     \* bound: failures of database, broker or instance

ASSUME ConsumerAssumption ==
  /\ id \in [Message -> Event]
  /\ Valid \subseteq Message
  /\ DeliveryLimit \in Nat
  /\ MaxFailures \in Nat

VARIABLES
  place,     \* where the broker has each message
  returns,   \* times it was given back
  log,       \* committed audit_log rows, counted by event id
  pc,        \* what the task of each slot does
  msg,       \* the messages it was given: one, or none
  live,      \* whether the broker still counts the delivery as its own
  failures   \* failures so far

vars == <<place, returns, log, pc, msg, live, failures>>

Init ==
  /\ place = [m \in Message |-> "unsent"]
  /\ returns = [m \in Message |-> 0]
  /\ log = [e \in Event |-> 0]
  /\ pc = [s \in Slot |-> "idle"]
  /\ msg = [s \in Slot |-> {}]
  /\ live = [s \in Slot |-> FALSE]
  /\ failures = 0

-----------------------------------------------------------------------------
(* The broker.                                                             *)

\* posts-api publishes, an event or something that is not one.
Publish(m) ==
  /\ place[m] = "unsent"
  /\ place' = [place EXCEPT ![m] = "queue"]
  /\ UNCHANGED <<returns, log, pc, msg, live, failures>>

\* The broker is told the fate of what slot s holds; a delivery that is no
\* longer live can say nothing.
Settle(s, fate) ==
  /\ place' = [m \in Message |-> IF live[s] /\ m \in msg[s] THEN fate ELSE place[m]]
  /\ UNCHANGED returns

\* The broker takes back what slot s holds, once too often or not.
GiveBack(s) ==
  LET back == {m \in msg[s] : live[s]}
  IN  /\ returns' = [m \in Message |-> returns[m] + (IF m \in back THEN 1 ELSE 0)]
      /\ place' = [m \in Message |->
                     IF m \notin back THEN place[m]
                     ELSE IF returns[m] < DeliveryLimit THEN "queue" ELSE "dead"]

Fail == failures < MaxFailures /\ failures' = failures + 1

-----------------------------------------------------------------------------
(* A task: _on_message, _settle and the handler.                           *)

Deliver(s, m) ==
  /\ pc[s] = "idle"
  /\ place[m] = "queue"
  /\ place' = [place EXCEPT ![m] = "unacked"]
  /\ pc' = [pc EXCEPT ![s] = "handle"]
  /\ msg' = [msg EXCEPT ![s] = {m}]
  /\ live' = [live EXCEPT ![s] = TRUE]
  /\ UNCHANGED <<returns, log, failures>>

\* The task is over.
Finish(s) ==
  /\ pc' = [pc EXCEPT ![s] = "idle"]
  /\ msg' = [msg EXCEPT ![s] = {}]
  /\ live' = [live EXCEPT ![s] = FALSE]

Goto(s, label) == pc' = [pc EXCEPT ![s] = label] /\ UNCHANGED <<msg, live>>

\* A body that does not parse: reject(requeue=False).
Reject(s) ==
  /\ pc[s] = "handle"
  /\ msg[s] \cap Valid = {}
  /\ Settle(s, "dead")
  /\ Finish(s)
  /\ UNCHANGED <<log, failures>>

IdsOf(s) == {id[m] : m \in msg[s]}

\* Tasks whose INSERT of one of the same ids has not ended yet.
Inserting(s) ==
  {q \in Slot \ {s} : pc[q] = "inserted" /\ IdsOf(q) \cap IdsOf(s) # {}}

\* Mutant of Insert: the entry gets an id of its own instead of the event's.
InsertFreshId(s) ==
  /\ pc[s] = "handle"
  /\ msg[s] \subseteq Valid
  /\ Goto(s, "inserted")
  /\ UNCHANGED <<place, returns, log, failures>>

\* Mutant of Insert: without ON CONFLICT an entry already there is an error.
PlainInsert(s) ==
  /\ pc[s] = "handle"
  /\ msg[s] \subseteq Valid
  /\ Inserting(s) = {}
  /\ Goto(s, IF \E e \in IdsOf(s) : log[e] > 0 THEN "failed" ELSE "inserted")
  /\ UNCHANGED <<place, returns, log, failures>>

\* INSERT ... ON CONFLICT (id) DO NOTHING: waits for an INSERT of the same id
\* that has not ended, and does nothing when the row is there.
Insert(s) ==
  /\ pc[s] = "handle"
  /\ msg[s] \subseteq Valid
  /\ Inserting(s) = {}
  /\ Goto(s, IF \E e \in IdsOf(s) : log[e] > 0 THEN "skipped" ELSE "inserted")
  /\ UNCHANGED <<place, returns, log, failures>>

\* The transaction of task s becomes permanent.
Record(s) ==
  log' = [e \in Event |-> log[e] + (IF pc[s] = "inserted" /\ e \in IdsOf(s) THEN 1 ELSE 0)]

Commit(s) ==
  /\ pc[s] \in {"inserted", "skipped"}
  /\ Record(s)
  /\ Goto(s, "ack")
  /\ UNCHANGED <<place, returns, failures>>

Ack(s) ==
  /\ pc[s] = "ack"
  /\ Settle(s, "done")
  /\ Finish(s)
  /\ UNCHANGED <<log, failures>>

\* The database fails before the commit, which is undone...
HandleFails(s) ==
  /\ pc[s] \in {"handle", "inserted", "skipped"}
  /\ msg[s] \subseteq Valid
  /\ Fail
  /\ Goto(s, "failed")
  /\ UNCHANGED <<place, returns, log>>

\* ... or after it, before its answer arrives.
CommitUnanswered(s) ==
  /\ pc[s] \in {"inserted", "skipped"}
  /\ Fail
  /\ Record(s)
  /\ Goto(s, "failed")
  /\ UNCHANGED <<place, returns>>

\* Mutant of Requeue: the failure is logged and the message acked.
AckFailed(s) ==
  /\ pc[s] = "failed"
  /\ Settle(s, "done")
  /\ Finish(s)
  /\ UNCHANGED <<log, failures>>

\* Mutant of Requeue: the exception leaves the callback with nothing settled.
LeaveUnacked(s) ==
  /\ pc[s] = "failed"
  /\ Finish(s)
  /\ UNCHANGED <<place, returns, log, failures>>

\* Mutant of Requeue: no return after the nack.
RequeueAndGoOn(s) ==
  /\ pc[s] = "failed"
  /\ GiveBack(s)
  /\ Goto(s, "ack")
  /\ UNCHANGED <<log, failures>>

\* After retry_seconds, nack(requeue=True).
Requeue(s) ==
  /\ pc[s] = "failed"
  /\ GiveBack(s)
  /\ Finish(s)
  /\ UNCHANGED <<log, failures>>

-----------------------------------------------------------------------------
(* Connections and instances.                                              *)

\* The connection is lost; the library opens another one, and the task goes on.
LoseDelivery(s) ==
  /\ live[s]
  /\ Fail
  /\ GiveBack(s)
  /\ live' = [live EXCEPT ![s] = FALSE]
  /\ UNCHANGED <<log, pc, msg>>

\* The instance dies, or `close` cancels what it has waited too long for: the
\* task ends, its transaction with it, and nothing was settled.
Kill(s) ==
  /\ pc[s] # "idle"
  /\ Fail
  /\ GiveBack(s)
  /\ Finish(s)
  /\ UNCHANGED log

-----------------------------------------------------------------------------
Task(s) == Reject(s) \/ Insert(s) \/ Commit(s) \/ Ack(s) \/ Requeue(s)

Next ==
  \/ \E m \in Message : Publish(m)
  \/ \E s \in Slot :
       \/ \E m \in Message : Deliver(s, m)
       \/ Task(s) \/ HandleFails(s) \/ CommitUnanswered(s)
       \/ LoseDelivery(s) \/ Kill(s)

Spec == Init /\ [][Next]_vars

\* A task that can go on does; the broker hands out what is in the queue while
\* an instance has room.  Failures end.
FairSpec ==
  /\ Spec
  /\ \A s \in Slot : WF_vars(Task(s))
  /\ \A m \in Message : WF_vars(\E s \in Slot : Deliver(s, m))

-----------------------------------------------------------------------------
(* Properties.                                                             *)

TypeOK ==
  /\ place \in [Message -> {"unsent", "queue", "unacked", "done", "dead"}]
  /\ returns \in [Message -> 0..(DeliveryLimit + 1)]
  /\ log \in [Event -> Nat]
  /\ pc \in [Slot -> {"idle", "handle", "inserted", "skipped", "ack", "failed"}]
  /\ msg \in [Slot -> SUBSET Message]
  /\ live \in [Slot -> BOOLEAN]
  /\ \A s \in Slot : live[s] => \A m \in msg[s] : place[m] = "unacked"
  /\ failures \in 0..MaxFailures

(***************************************************************************)
(* A message is acked only when the audit log has its event, committed,    *)
(* whichever task wrote it and whatever failed on the way                  *)
(* (event_handlers.py, handle; event_consumer.py, _settle).                *)
(***************************************************************************)
AckedIsLogged == \A m \in Message : place[m] = "done" => log[id[m]] > 0

(***************************************************************************)
(* An action has one entry in the audit log, however often its event is    *)
(* published, redelivered or handled by two tasks at once ("the handler    *)
(* has to tolerate a repeat").                                             *)
(***************************************************************************)
LoggedOnce == \A e \in Event : log[e] <= 1

(***************************************************************************)
(* "A message it cannot make sense of goes to the dead letter queue, and   *)
(* one it could not handle because something it depends on failed goes     *)
(* back to the queue" (event_consumer.py).  A valid event is dead-lettered *)
(* only after more failures than the queue's delivery limit: neither       *)
(* repeats, nor tasks that outlive their delivery, nor instances that take *)
(* over a message use the limit up by themselves.                          *)
(***************************************************************************)
OnlyFailuresKill ==
  \A m \in Valid : place[m] = "dead" => failures > DeliveryLimit

(***************************************************************************)
(* Every message published is acked or dead-lettered in the end: no task   *)
(* keeps one unsettled, and two tasks that insert the same event do not    *)
(* wait for each other.                                                    *)
(***************************************************************************)
Settled ==
  \A m \in Message : place[m] = "queue" ~> place[m] \in {"done", "dead"}
=============================================================================
