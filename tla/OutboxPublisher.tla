--------------------------- MODULE OutboxPublisher ---------------------------
(***************************************************************************)
(* The outbox table and the publishers that empty it into RabbitMQ.  Two   *)
(* instances of the service overlap during a rolling update, each with its *)
(* publisher.  A pass is one transaction per batch: the oldest free rows   *)
(* are locked, published one after the other, and the confirmed ones are   *)
(* deleted at commit.                                                      *)
(*                                                                         *)
(* A row is its created_at: a smaller number is an older row.  Rows are    *)
(* committed in any order, since created_at is the start of the            *)
(* transaction that inserts them.                                          *)
(***************************************************************************)
EXTENDS Naturals, FiniteSets

CONSTANTS Row,          \* rows, as natural numbers in the order of created_at
          Instance,     \* publishers
          Unroutable,   \* rows of a type no queue is bound to
          BatchSize,    \* BATCH_SIZE
          MaxFailures   \* bound: passes cut short by broker, database or crash

ASSUME OutboxAssumption ==
  /\ Row \subseteq Nat
  /\ Instance # {}
  /\ BatchSize \in Nat \ {0}
  /\ MaxFailures \in Nat

VARIABLES
  written,   \* rows ever committed by a request
  outbox,    \* rows in the table
  copies,    \* messages of each row the broker has accepted
  failures,  \* failures so far
  pc,        \* what each publisher does
  wake,      \* its asyncio.Event
  listening, \* whether its LISTEN connection is up
  held,      \* rows its transaction has locked
  batch,     \* those of held it has still to publish
  gone       \* those of held it has deleted, not committed yet

table == <<written, outbox, copies, failures>>
vars == <<written, outbox, copies, failures, pc, wake, listening, held, batch, gone>>

Init ==
  /\ written = {} /\ outbox = {}
  /\ copies = [e \in Row |-> 0]
  /\ failures = 0
  /\ pc = [p \in Instance |-> "waiting"]
  /\ wake = [p \in Instance |-> TRUE]
  /\ listening = [p \in Instance |-> TRUE]
  /\ held = [p \in Instance |-> {}]
  /\ batch = [p \in Instance |-> {}]
  /\ gone = [p \in Instance |-> {}]

-----------------------------------------------------------------------------
(* Writing and listening.                                                  *)

\* The trigger of the table: a commit notifies whoever listens.
Notify == wake' = [p \in Instance |-> wake[p] \/ listening[p]]

\* A request commits a row.
Insert(e) ==
  /\ e \notin written
  /\ written' = written \cup {e}
  /\ outbox' = outbox \cup {e}
  /\ Notify
  /\ UNCHANGED <<copies, failures, pc, listening, held, batch, gone>>

\* The listening connection is lost; notifications go nowhere.
LoseListener(p) ==
  /\ listening[p]
  /\ listening' = [listening EXCEPT ![p] = FALSE]
  /\ UNCHANGED <<table, pc, wake, held, batch, gone>>

\* Mutant of Reconnect: what was written meanwhile is left to the polling.
ReconnectQuietly(p) ==
  /\ ~listening[p]
  /\ listening' = [listening EXCEPT ![p] = TRUE]
  /\ UNCHANGED <<table, pc, wake, held, batch, gone>>

\* It is back, and the publisher looks at what was written meanwhile.
Reconnect(p) ==
  /\ ~listening[p]
  /\ listening' = [listening EXCEPT ![p] = TRUE]
  /\ wake' = [wake EXCEPT ![p] = TRUE]
  /\ UNCHANGED <<table, pc, held, batch, gone>>

-----------------------------------------------------------------------------
(* A pass.                                                                 *)

\* Something a pass depends on fails.
Fail == failures < MaxFailures /\ failures' = failures + 1

\* A notification or the timer ends the wait, so a pass may always start; the
\* event is cleared before it.
StartPass(p) ==
  /\ pc[p] = "waiting"
  /\ wake' = [wake EXCEPT ![p] = FALSE]
  /\ pc' = [pc EXCEPT ![p] = "drain"]
  /\ UNCHANGED <<table, listening, held, batch, gone>>

\* The n oldest of S: ORDER BY created_at LIMIT n.
Oldest(S, n) == {e \in S : Cardinality({d \in S : d < e}) < n}

HeldByOthers(p) == UNION {held[q] : q \in Instance \ {p}}

\* Mutant of LockBatch: the rows are read and not locked.
ReadBatch(p) ==
  /\ pc[p] = "drain"
  /\ LET rows == Oldest(outbox, BatchSize)
     IN  /\ held' = [held EXCEPT ![p] = rows]
         /\ batch' = [batch EXCEPT ![p] = rows]
  /\ pc' = [pc EXCEPT ![p] = "batch"]
  /\ UNCHANGED <<table, wake, listening, gone>>

\* SELECT ... FOR UPDATE SKIP LOCKED.
LockBatch(p) ==
  /\ pc[p] = "drain"
  /\ LET rows == Oldest(outbox \ HeldByOthers(p), BatchSize)
     IN  /\ held' = [held EXCEPT ![p] = rows]
         /\ batch' = [batch EXCEPT ![p] = rows]
  /\ pc' = [pc EXCEPT ![p] = "batch"]
  /\ UNCHANGED <<table, wake, listening, gone>>

\* The row the loop is at.
IsNext(p, e) == e \in batch[p] /\ \A d \in batch[p] : e <= d

\* The broker confirms: the row is deleted in the transaction.
Confirm(p, e) ==
  /\ pc[p] = "batch"
  /\ IsNext(p, e)
  /\ e \notin Unroutable
  /\ copies' = [copies EXCEPT ![e] = @ + 1]
  /\ gone' = [gone EXCEPT ![p] = @ \cup {e}]
  /\ batch' = [batch EXCEPT ![p] = @ \ {e}]
  /\ UNCHANGED <<written, outbox, failures, pc, wake, listening, held>>

\* Mutant of Return: a message nobody is bound to is dropped.
ReturnAndDelete(p, e) ==
  /\ pc[p] = "batch"
  /\ IsNext(p, e)
  /\ e \in Unroutable
  /\ gone' = [gone EXCEPT ![p] = @ \cup {e}]
  /\ batch' = [batch EXCEPT ![p] = @ \ {e}]
  /\ UNCHANGED <<table, pc, wake, listening, held>>

\* Mutant of Return: a message nobody is bound to ends the pass.
ReturnAndStop(p, e) ==
  /\ pc[p] = "batch"
  /\ IsNext(p, e)
  /\ e \in Unroutable
  /\ pc' = [pc EXCEPT ![p] = "interrupted"]
  /\ UNCHANGED <<table, wake, listening, held, batch, gone>>

\* No queue is bound: the row is left and the loop goes on.
Return(p, e) ==
  /\ pc[p] = "batch"
  /\ IsNext(p, e)
  /\ e \in Unroutable
  /\ batch' = [batch EXCEPT ![p] = @ \ {e}]
  /\ UNCHANGED <<table, pc, wake, listening, held, gone>>

\* The broker refuses a message it could route: likewise, for this pass.
Refuse(p, e) ==
  /\ pc[p] = "batch"
  /\ IsNext(p, e)
  /\ Fail
  /\ batch' = [batch EXCEPT ![p] = @ \ {e}]
  /\ UNCHANGED <<written, outbox, copies, pc, wake, listening, held, gone>>

\* Any other failure to publish ends the pass.  After a timeout the message
\* may be at the broker all the same.
Interrupt(p, e) ==
  /\ pc[p] = "batch"
  /\ IsNext(p, e)
  /\ Fail
  /\ \E n \in IF e \in Unroutable THEN {0} ELSE {0, 1} :
       copies' = [copies EXCEPT ![e] = @ + n]
  /\ pc' = [pc EXCEPT ![p] = "interrupted"]
  /\ UNCHANGED <<written, outbox, wake, listening, held, batch, gone>>

\* The deletes are committed, also those of a pass cut short.  A batch all of
\* which was published is followed by another one.
CommitBatch(p) ==
  /\ pc[p] = "interrupted" \/ (pc[p] = "batch" /\ batch[p] = {})
  /\ outbox' = outbox \ gone[p]
  /\ pc' = [pc EXCEPT ![p] = IF pc[p] = "batch" /\ Cardinality(gone[p]) >= BatchSize
                             THEN "drain" ELSE "waiting"]
  /\ held' = [held EXCEPT ![p] = {}]
  /\ batch' = [batch EXCEPT ![p] = {}]
  /\ gone' = [gone EXCEPT ![p] = {}]
  /\ UNCHANGED <<written, copies, failures, wake, listening>>

\* The broker cannot be reached at the start of the pass, the database goes
\* away, or the instance is stopped or killed: the transaction rolls back.
Abort(p) ==
  /\ pc[p] # "waiting"
  /\ Fail
  /\ pc' = [pc EXCEPT ![p] = "waiting"]
  /\ held' = [held EXCEPT ![p] = {}]
  /\ batch' = [batch EXCEPT ![p] = {}]
  /\ gone' = [gone EXCEPT ![p] = {}]
  /\ UNCHANGED <<written, outbox, copies, wake, listening>>

-----------------------------------------------------------------------------
Pass(p) ==
  \/ StartPass(p) \/ LockBatch(p) \/ CommitBatch(p)
  \/ \E e \in Row : Confirm(p, e) \/ Return(p, e)

Next ==
  \/ \E e \in Row : Insert(e)
  \/ \E p \in Instance :
       \/ Pass(p) \/ Abort(p)
       \/ LoseListener(p) \/ Reconnect(p)
       \/ \E e \in Row : Refuse(p, e) \/ Interrupt(p, e)

Spec == Init /\ [][Next]_vars

\* The publisher's task runs for as long as the service does, and so does the
\* listener's, which reconnects until it can.  Nothing is assumed of requests
\* or failures, but that failures end.
FairSpec ==
  Spec /\ \A p \in Instance : WF_vars(Pass(p)) /\ WF_vars(Reconnect(p))

-----------------------------------------------------------------------------
(* Properties.                                                             *)

TypeOK ==
  /\ written \subseteq Row
  /\ outbox \subseteq written
  /\ copies \in [Row -> Nat]
  /\ failures \in 0..MaxFailures
  /\ pc \in [Instance -> {"waiting", "drain", "batch", "interrupted"}]
  /\ wake \in [Instance -> BOOLEAN]
  /\ listening \in [Instance -> BOOLEAN]
  /\ held \in [Instance -> SUBSET outbox]
  /\ batch \in [Instance -> SUBSET Row]
  /\ gone \in [Instance -> SUBSET Row]

(***************************************************************************)
(* A committed event is in the outbox or at the broker, wherever a pass    *)
(* fails: its row goes only after the confirmation (outbox_publisher.py,   *)
(* connect: "a row is deleted only once the broker has it").               *)
(***************************************************************************)
NothingLost == \A e \in written : e \in outbox \/ copies[e] > 0

(***************************************************************************)
(* An event is published again only after a failure, once for each: two    *)
(* instances never publish the same row at once (publish_batch: SKIP       *)
(* LOCKED), and a pass that ends well publishes its rows once.             *)
(***************************************************************************)
RepeatsAreFailures == \A e \in Row : copies[e] <= 1 + failures

(***************************************************************************)
(* No insert is missed: when every publisher waits, listens and has not    *)
(* been woken, the outbox is empty, with neither failures nor events that  *)
(* nobody consumes to leave something behind.  So NOTIFY is enough without *)
(* the timer (run: "a row committed while the pass runs has to start       *)
(* another one"; listen: "Whatever was written while there was no          *)
(* listener").                                                             *)
(***************************************************************************)
NoInsertMissed ==
  /\ failures = 0 /\ outbox \cap Unroutable = {}
  /\ \A p \in Instance : pc[p] = "waiting" /\ listening[p] /\ ~wake[p]
  => outbox = {}

(***************************************************************************)
(* Every event somebody consumes leaves the outbox in the end, through     *)
(* failures, lost notifications and events that nobody consumes            *)
(* (publish_batch: "one event nobody consumes yet must not hold back the   *)
(* others").  It fails once BatchSize events nobody consumes are the       *)
(* oldest of the table: every batch is made of them.                       *)
(***************************************************************************)
Delivered ==
  \A e \in Row \ Unroutable : e \in outbox ~> e \notin outbox
=============================================================================
