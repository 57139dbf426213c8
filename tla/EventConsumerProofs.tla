------------------------ MODULE EventConsumerProofs ------------------------
(***************************************************************************)
(* Proofs about EventConsumer, for any messages, events, slots, delivery   *)
(* limit and number of failures.                                           *)
(*                                                                         *)
(* The properties are about places and counts; what makes them inductive   *)
(* is what every task in flight knows: that it alone holds its delivery,   *)
(* that the row it inserted is not there yet, that the row it skipped or   *)
(* committed is, and that a failure was counted for a message it is about  *)
(* to give back.                                                           *)
(***************************************************************************)
EXTENDS EventConsumer, TLAPS

Holds(s, m) == live[s] /\ m \in msg[s]

DeliveryInv ==
  /\ \A s \in Slot : \A m, n \in msg[s] : m = n
  /\ \A s, t \in Slot : \A m \in Message : Holds(s, m) /\ Holds(t, m) => s = t

InsertInv ==
  /\ \A s \in Slot : \A m \in msg[s] :
       /\ pc[s] = "inserted" => log[id[m]] = 0
       /\ pc[s] \in {"skipped", "ack"} => log[id[m]] > 0
  /\ \A s, t \in Slot : pc[s] = "inserted" /\ pc[t] = "inserted" /\ s # t =>
       \A m \in msg[s], n \in msg[t] : id[m] # id[n]

FailureInv ==
  /\ \A m \in Message : returns[m] <= failures
  /\ \A m \in Message : place[m] \in {"unsent", "queue", "unacked"} => returns[m] <= DeliveryLimit
  /\ \A m \in Valid : place[m] = "dead" => returns[m] > DeliveryLimit
  /\ \A s \in Slot, m \in Message : pc[s] = "failed" /\ Holds(s, m) => returns[m] < failures

Inv == TypeOK /\ DeliveryInv /\ InsertInv /\ FailureInv /\ AckedIsLogged /\ LoggedOnce

Labels == {"idle", "handle", "inserted", "skipped", "ack", "failed"}
Places == {"unsent", "queue", "unacked", "done", "dead"}

-----------------------------------------------------------------------------
\* What the broker does with a message that a slot gives back: it is counted,
\* and goes to the queue or, past the limit, to the dead letters.
LEMMA GiveBackFacts ==
  ASSUME Inv, NEW s \in Slot, GiveBack(s)
  PROVE  /\ place' \in [Message -> Places]
         /\ returns' \in [Message -> 0..(DeliveryLimit + 1)]
         /\ \A m \in Message : ~Holds(s, m) => place'[m] = place[m] /\ returns'[m] = returns[m]
         /\ \A m \in Message : Holds(s, m) =>
              /\ returns'[m] = returns[m] + 1
              /\ returns[m] < DeliveryLimit => place'[m] = "queue"
              /\ returns[m] >= DeliveryLimit => place'[m] = "dead"
<1> DEFINE back == {m \in msg[s] : live[s]}
<1>1. /\ returns' = [m \in Message |-> returns[m] + (IF m \in back THEN 1 ELSE 0)]
      /\ place' = [m \in Message |-> IF m \notin back THEN place[m]
                     ELSE IF returns[m] < DeliveryLimit THEN "queue" ELSE "dead"]
  BY DEF GiveBack
<1>2. \A m \in Message : m \in back <=> Holds(s, m)
  BY DEF Holds
<1>3. \A m \in Message : Holds(s, m) => place[m] = "unacked"
  BY DEF Holds, Inv, TypeOK
<1> HIDE DEF back
<1>4. \A m \in Message : Holds(s, m) => returns[m] <= DeliveryLimit
  BY <1>3 DEF Inv, FailureInv
<1>5. place \in [Message -> Places] /\ returns \in [Message -> 0..(DeliveryLimit + 1)]
  BY DEF Inv, TypeOK, Places
<1>6. place' \in [Message -> Places]
  BY <1>1, <1>5 DEF Places
<1>7. returns' \in [Message -> 0..(DeliveryLimit + 1)]
  BY <1>1, <1>2, <1>4, <1>5, ConsumerAssumption
<1>8. \A m \in Message : ~Holds(s, m) => place'[m] = place[m] /\ returns'[m] = returns[m]
  BY <1>1, <1>2, <1>5
<1>9. \A m \in Message : Holds(s, m) =>
        /\ returns'[m] = returns[m] + 1
        /\ returns[m] < DeliveryLimit => place'[m] = "queue"
        /\ returns[m] >= DeliveryLimit => place'[m] = "dead"
  BY <1>1, <1>2, <1>5, ConsumerAssumption
<1> QED
  BY <1>6, <1>7, <1>8, <1>9

\* A task ends: its slot holds nothing any more, the others what they held.
LEMMA FinishFacts ==
  ASSUME Inv, NEW s \in Slot, Finish(s)
  PROVE  /\ pc' \in [Slot -> Labels] /\ msg' \in [Slot -> SUBSET Message]
         /\ live' \in [Slot -> BOOLEAN]
         /\ pc'[s] = "idle" /\ msg'[s] = {}
         /\ \A t \in Slot \ {s} : pc'[t] = pc[t] /\ msg'[t] = msg[t]
         /\ \A t \in Slot, m \in Message : Holds(t, m)' <=> t # s /\ Holds(t, m)
<1>1. pc' \in [Slot -> Labels] /\ msg' \in [Slot -> SUBSET Message]
  BY DEF Finish, Inv, TypeOK, Labels
<1>2. live' \in [Slot -> BOOLEAN]
  BY DEF Finish, Inv, TypeOK
<1>3. /\ pc'[s] = "idle" /\ msg'[s] = {}
      /\ \A t \in Slot \ {s} : pc'[t] = pc[t] /\ msg'[t] = msg[t]
  BY DEF Finish, Inv, TypeOK
<1>4. \A t \in Slot \ {s} : live'[t] <=> live[t]
  BY DEF Finish, Inv, TypeOK
<1>5. \A t \in Slot, m \in Message : Holds(t, m)' <=> t # s /\ Holds(t, m)
  BY <1>3, <1>4 DEF Holds
<1> QED
  BY <1>1, <1>2, <1>3, <1>5

\* A task goes to its next step and holds what it held.
LEMMA GotoFacts ==
  ASSUME Inv, NEW s \in Slot, NEW label \in Labels, Goto(s, label)
  PROVE  /\ pc' \in [Slot -> Labels] /\ pc'[s] = label
         /\ \A t \in Slot \ {s} : pc'[t] = pc[t]
         /\ UNCHANGED <<msg, live>>
         /\ \A t \in Slot, m \in Message : Holds(t, m)' <=> Holds(t, m)
  BY DEF Goto, Inv, TypeOK, Labels, Holds
-----------------------------------------------------------------------------
\* A step of the broker or of a task that leaves the log and the rows being
\* inserted alone keeps what the tasks know about them.
LEMMA LogUnchanged ==
  ASSUME Inv, UNCHANGED log,
         \A t \in Slot : \/ pc'[t] \in {"idle", "handle", "failed"}
                         \/ pc'[t] = pc[t] /\ msg'[t] = msg[t]
                         \/ pc'[t] = "ack" /\ pc[t] = "skipped" /\ msg'[t] = msg[t],
         \A m \in Message : place'[m] = "done" => place[m] = "done"
  PROVE  InsertInv' /\ AckedIsLogged' /\ LoggedOnce'
<1>1. InsertInv'
  BY DEF Inv, InsertInv
<1>2. AckedIsLogged'
  BY DEF Inv, AckedIsLogged
<1>3. LoggedOnce'
  BY DEF Inv, LoggedOnce
<1> QED
  BY <1>1, <1>2, <1>3

\* Giving a message back keeps the counts: its return was paid for by a
\* failure, now or when the task failed.
LEMMA GiveBackCounts ==
  ASSUME Inv, NEW s \in Slot, GiveBack(s),
         failures' \in 0..MaxFailures, failures' >= failures,
         \A m \in Message : Holds(s, m) => returns[m] < failures',
         \A t \in Slot, m \in Message : Holds(t, m)' => t # s /\ Holds(t, m),
         \A t \in Slot \ {s} : pc'[t] = pc[t]
  PROVE  /\ FailureInv'
         /\ \A t \in Slot, m \in Message : Holds(t, m)' => place'[m] = "unacked"
         /\ \A m \in Message : place'[m] = "done" => place[m] = "done"
<1>0. /\ place \in [Message -> Places] /\ returns \in [Message -> Nat] /\ failures \in Nat
      /\ \A m \in Message : returns'[m] \in Nat
      /\ failures' \in Nat
  BY GiveBackFacts, ConsumerAssumption DEF Inv, TypeOK, Places
<1>1. \A t \in Slot, m \in Message : Holds(t, m)' => ~Holds(s, m)
  BY DEF Inv, DeliveryInv
<1>2. \A t \in Slot, m \in Message : Holds(t, m)' => place'[m] = "unacked"
  <2>1. \A t \in Slot, m \in Message : Holds(t, m) => place[m] = "unacked"
    BY DEF Holds, Inv, TypeOK
  <2> QED
    BY <1>1, <2>1, GiveBackFacts
<1>3. \A m \in Message : place'[m] = "done" => place[m] = "done"
  BY <1>0, GiveBackFacts, ConsumerAssumption
<1>4. \A m \in Message : returns'[m] <= failures'
  BY <1>0, GiveBackFacts DEF Inv, FailureInv
<1>5. \A m \in Message : place'[m] \in {"unsent", "queue", "unacked"} => returns'[m] <= DeliveryLimit
  BY <1>0, GiveBackFacts, ConsumerAssumption DEF Inv, FailureInv
<1>6. \A m \in Valid : place'[m] = "dead" => returns'[m] > DeliveryLimit
  BY <1>0, GiveBackFacts, ConsumerAssumption DEF Inv, FailureInv
<1>7. \A t \in Slot, m \in Message : pc'[t] = "failed" /\ Holds(t, m)' => returns'[m] < failures'
  BY <1>0, <1>1, GiveBackFacts DEF Inv, FailureInv
<1>8. FailureInv'
  BY <1>4, <1>5, <1>6, <1>7 DEF FailureInv
<1> QED
  BY <1>2, <1>3, <1>8

\* Every step of the broker or of a task keeps the invariant.
LEMMA InvStep == Inv /\ [Next]_vars => Inv'
<1> SUFFICES ASSUME Inv, [Next]_vars PROVE Inv'
  OBVIOUS
<1>0. /\ place \in [Message -> Places] /\ returns \in [Message -> 0..(DeliveryLimit + 1)]
      /\ log \in [Event -> Nat] /\ pc \in [Slot -> Labels]
      /\ msg \in [Slot -> SUBSET Message] /\ failures \in 0..MaxFailures
      /\ \A s \in Slot, m \in Message : Holds(s, m) => place[m] = "unacked"
  BY DEF Inv, TypeOK, Places, Labels, Holds
<1>a. live \in [Slot -> BOOLEAN]
  BY DEF Inv, TypeOK
\* How TypeOK is put together from facts the provers handle apart.
<1>b. ASSUME place' \in [Message -> Places], returns' \in [Message -> 0..(DeliveryLimit + 1)],
             log' \in [Event -> Nat], pc' \in [Slot -> Labels],
             msg' \in [Slot -> SUBSET Message], live' \in [Slot -> BOOLEAN],
             failures' \in 0..MaxFailures,
             \A s \in Slot, m \in Message : Holds(s, m)' => place'[m] = "unacked"
      PROVE  TypeOK'
  BY <1>b, Zenon DEF TypeOK, Places, Labels, Holds
\* A task gives its message back and is over.
<1>c. ASSUME NEW s \in Slot, GiveBack(s), Finish(s), UNCHANGED log,
             failures' \in 0..MaxFailures, failures' >= failures,
             \A m \in Message : Holds(s, m) => returns[m] < failures'
      PROVE  Inv'
  <2>1. /\ FailureInv'
        /\ \A t \in Slot, m \in Message : Holds(t, m)' => place'[m] = "unacked"
        /\ \A m \in Message : place'[m] = "done" => place[m] = "done"
    BY <1>c, GiveBackCounts, FinishFacts
  <2>2. InsertInv' /\ AckedIsLogged' /\ LoggedOnce'
    BY <1>c, <2>1, FinishFacts, LogUnchanged
  <2>3. DeliveryInv'
    BY <1>c, FinishFacts DEF Inv, DeliveryInv
  <2>4. TypeOK'
    BY <1>0, <1>b, <1>c, <2>1, GiveBackFacts, FinishFacts
  <2> QED
    BY <2>1, <2>2, <2>3, <2>4 DEF Inv
\* A task whose delivery is settled is over.
<1>d. ASSUME NEW s \in Slot, NEW fate \in {"done", "dead"}, Settle(s, fate), Finish(s),
             UNCHANGED <<log, failures>>,
             fate = "done" => pc[s] = "ack", fate = "dead" => msg[s] \cap Valid = {}
      PROVE  Inv'
  <2>1. place' \in [Message -> Places]
    BY <1>0, <1>d DEF Settle, Places
  <2>2. \A m \in Message : /\ Holds(s, m) => place'[m] = fate
                           /\ ~Holds(s, m) => place'[m] = place[m]
    BY <1>0, <1>d DEF Settle, Holds
  <2>3. \A t \in Slot, m \in Message : Holds(t, m)' => Holds(t, m) /\ ~Holds(s, m)
    BY <1>d, FinishFacts DEF Inv, DeliveryInv
  <2>4. returns' = returns
    BY <1>d DEF Settle
  <2>5. TypeOK'
    BY <1>0, <1>b, <1>d, <2>1, <2>2, <2>3, <2>4, FinishFacts
  <2>6. DeliveryInv'
    BY <1>d, FinishFacts DEF Inv, DeliveryInv
  <2>7. InsertInv'
    BY <1>d, FinishFacts DEF Inv, InsertInv
  <2>8. FailureInv'
    <3>1. \A t \in Slot, m \in Message : pc'[t] = "failed" /\ Holds(t, m)' => pc[t] = "failed"
      BY <1>d, FinishFacts
    <3>2. \A m \in Valid : ~(fate = "dead" /\ Holds(s, m))
      BY <1>d DEF Holds
    <3>3. \A m \in Message : place'[m] \in {"unsent", "queue", "unacked"} => place'[m] = place[m]
      BY <1>d, <2>2
    <3>4. \A m \in Valid : place'[m] = "dead" => place'[m] = place[m]
      BY <1>d, <2>2, <3>2, ConsumerAssumption
    <3> QED
      BY <1>d, <2>3, <2>4, <3>1, <3>3, <3>4 DEF Inv, FailureInv
  <2>9. AckedIsLogged' /\ LoggedOnce'
    <3>1. \A m \in Message : Holds(s, m) /\ fate = "done" => log[id[m]] > 0
      BY <1>d DEF Inv, InsertInv, Holds
    <3> QED
      BY <1>d, <2>2, <3>1 DEF Inv, AckedIsLogged, LoggedOnce
  <2> QED
    BY <2>5, <2>6, <2>7, <2>8, <2>9 DEF Inv
\* A task of slot s goes on, the broker knowing nothing of it.
<1>e. ASSUME NEW s \in Slot, NEW label \in Labels \ {"idle"}, Goto(s, label),
             UNCHANGED <<place, returns>>, log' \in [Event -> Nat],
             failures' \in 0..MaxFailures, failures' >= failures,
             label = "failed" => failures' > failures
      PROVE  TypeOK' /\ DeliveryInv' /\ FailureInv'
  <2>0. label \in Labels
    BY <1>e
  <2>1. /\ pc' \in [Slot -> Labels] /\ pc'[s] = label
        /\ \A t \in Slot \ {s} : pc'[t] = pc[t]
        /\ UNCHANGED <<msg, live>>
        /\ \A t \in Slot, m \in Message : Holds(t, m)' <=> Holds(t, m)
    BY <1>e, <2>0, GotoFacts
  <2>2. live' \in [Slot -> BOOLEAN]
    BY <1>a, <2>1
  <2>3. TypeOK'
    BY <1>0, <1>b, <1>e, <2>1, <2>2
  <2>4. DeliveryInv'
    BY <2>1 DEF Inv, DeliveryInv
  <2>5. FailureInv'
    BY <1>0, <1>e, <2>1, ConsumerAssumption DEF Inv, FailureInv
  <2> QED
    BY <2>3, <2>4, <2>5
\* The transaction of slot s is committed, and the task goes on to its ack or,
\* not knowing, to its requeue.
<1>f. ASSUME NEW s \in Slot, NEW label \in {"ack", "failed"}, Goto(s, label), Record(s),
             pc[s] \in {"inserted", "skipped"}, UNCHANGED place
      PROVE  log' \in [Event -> Nat] /\ InsertInv' /\ AckedIsLogged' /\ LoggedOnce'
  <2>1. /\ pc'[s] = label /\ \A t \in Slot \ {s} : pc'[t] = pc[t]
        /\ UNCHANGED msg
    <3>1. label \in Labels
      BY DEF Labels
    <3> QED
      BY <1>f, <3>1, GotoFacts
  <2>2. log' = [e \in Event |->
                 log[e] + (IF pc[s] = "inserted" /\ e \in IdsOf(s) THEN 1 ELSE 0)]
    BY <1>f DEF Record
  <2>3. log' \in [Event -> Nat] /\ \A e \in Event : log'[e] >= log[e]
    BY <1>0, <2>2
  <2>4. \A m \in Message : id[m] \in Event
    BY ConsumerAssumption
  <2>5. \A m \in msg[s] : m \in Message /\ id[m] \in IdsOf(s)
    BY <1>0 DEF IdsOf
  <2>6. \A m \in msg[s] : log'[id[m]] > 0
    <3> SUFFICES ASSUME NEW m \in msg[s] PROVE log'[id[m]] > 0
      OBVIOUS
    <3>1. CASE pc[s] = "inserted"
      BY <1>0, <2>2, <2>4, <2>5, <3>1
    <3>2. CASE pc[s] = "skipped"
      BY <1>0, <2>3, <2>4, <2>5, <3>2 DEF Inv, InsertInv
    <3> QED
      BY <1>f, <3>1, <3>2
  <2>7. \A t \in Slot \ {s} : pc[t] = "inserted" => \A m \in msg[t] : log'[id[m]] = 0
    <3> SUFFICES ASSUME NEW t \in Slot \ {s}, pc[t] = "inserted", NEW m \in msg[t]
                 PROVE  log'[id[m]] = 0
      OBVIOUS
    <3>1. pc[s] = "inserted" => id[m] \notin IdsOf(s)
      BY DEF IdsOf, Inv, InsertInv
    <3>2. log[id[m]] = 0 /\ m \in Message
      BY <1>0 DEF Inv, InsertInv
    <3> QED
      BY <2>2, <2>4, <3>1, <3>2
  <2>8. InsertInv'
    <3>1. \A t \in Slot : \A m \in msg[t] :
            /\ pc'[t] = "inserted" => log'[id[m]] = 0
            /\ pc'[t] \in {"skipped", "ack"} => log'[id[m]] > 0
      <4> SUFFICES ASSUME NEW t \in Slot, NEW m \in msg[t]
                   PROVE  /\ pc'[t] = "inserted" => log'[id[m]] = 0
                          /\ pc'[t] \in {"skipped", "ack"} => log'[id[m]] > 0
        OBVIOUS
      <4>1. CASE t = s
        BY <1>f, <2>1, <2>6, <4>1
      <4>2. CASE t # s
        BY <1>0, <2>1, <2>3, <2>4, <2>7, <4>2 DEF Inv, InsertInv
      <4> QED
        BY <4>1, <4>2
    <3>2. \A t, u \in Slot : pc'[t] = "inserted" /\ pc'[u] = "inserted" /\ t # u =>
            \A m \in msg[t], n \in msg[u] : id[m] # id[n]
      BY <1>f, <2>1 DEF Inv, InsertInv
    <3> QED
      BY <2>1, <3>1, <3>2 DEF InsertInv
  <2>9. AckedIsLogged'
    BY <1>0, <1>f, <2>3, <2>4 DEF Inv, AckedIsLogged
  <2>10. LoggedOnce'
    <3> SUFFICES ASSUME NEW e \in Event PROVE log'[e] <= 1
      BY DEF LoggedOnce
    <3>1. CASE pc[s] = "inserted" /\ e \in IdsOf(s)
      <4>1. log[e] = 0
        BY <3>1 DEF IdsOf, Inv, InsertInv
      <4> QED
        BY <2>2, <4>1
    <3>2. CASE ~(pc[s] = "inserted" /\ e \in IdsOf(s))
      BY <1>0, <2>2, <3>2 DEF Inv, LoggedOnce
    <3> QED
      BY <3>1, <3>2
  <2> QED
    BY <2>3, <2>8, <2>9, <2>10
<1>1. ASSUME NEW m \in Message, Publish(m) PROVE Inv'
  <2>1. /\ place[m] = "unsent" /\ place' = [place EXCEPT ![m] = "queue"]
        /\ UNCHANGED <<returns, log, pc, msg, live, failures>>
    BY <1>1 DEF Publish
  <2>2. \A s \in Slot, n \in Message : Holds(s, n)' <=> Holds(s, n)
    BY <2>1 DEF Holds
  <2>3. place' \in [Message -> Places] /\ live' \in [Slot -> BOOLEAN]
    BY <1>0, <1>a, <2>1 DEF Places
  <2>4. TypeOK'
    BY <1>0, <1>b, <2>1, <2>2, <2>3
  <2>5. DeliveryInv'
    BY <2>1, <2>2 DEF Inv, DeliveryInv
  <2>6. InsertInv' /\ AckedIsLogged' /\ LoggedOnce'
    BY <1>0, <2>1, LogUnchanged
  <2>7. FailureInv'
    BY <1>0, <2>1, <2>2, ConsumerAssumption DEF Inv, FailureInv
  <2> QED
    BY <2>4, <2>5, <2>6, <2>7 DEF Inv
<1>2. ASSUME NEW s \in Slot, NEW m \in Message, Deliver(s, m) PROVE Inv'
  <2>1. /\ place[m] = "queue" /\ place' = [place EXCEPT ![m] = "unacked"]
        /\ pc' = [pc EXCEPT ![s] = "handle"] /\ msg' = [msg EXCEPT ![s] = {m}]
        /\ UNCHANGED <<returns, log, failures>>
    BY <1>2 DEF Deliver
  <2>2. live' = [live EXCEPT ![s] = TRUE]
    BY <1>2 DEF Deliver
  <2>3. live' \in [Slot -> BOOLEAN]
    BY <1>a, <2>2
  <2>4. /\ \A n \in Message : Holds(s, n)' <=> n = m
        /\ \A t \in Slot \ {s}, n \in Message : Holds(t, n)' <=> Holds(t, n)
    BY <1>0, <1>a, <2>1, <2>2 DEF Holds
  <2>5. \A t \in Slot : ~Holds(t, m)
    BY <1>0, <2>1
  <2>6. TypeOK'
    <3>1. \A t \in Slot, n \in Message : Holds(t, n)' => place'[n] = "unacked"
      BY <1>0, <2>1, <2>4, <2>5
    <3>2. place' \in [Message -> Places] /\ pc' \in [Slot -> Labels]
          /\ msg' \in [Slot -> SUBSET Message]
      BY <1>0, <2>1 DEF Places, Labels
    <3> QED
      BY <1>0, <1>b, <2>1, <2>3, <3>1, <3>2
  <2>7. DeliveryInv'
    <3>1. \A t \in Slot : \A n, k \in msg'[t] : n = k
      BY <1>0, <2>1 DEF Inv, DeliveryInv
    <3>2. \A t, u \in Slot : \A n \in Message : Holds(t, n)' /\ Holds(u, n)' => t = u
      BY <2>4, <2>5 DEF Inv, DeliveryInv
    <3> QED
      BY <3>1, <3>2 DEF DeliveryInv
  <2>8. InsertInv' /\ AckedIsLogged' /\ LoggedOnce'
    BY <1>0, <2>1, LogUnchanged
  <2>9. FailureInv'
    BY <1>0, <2>1, <2>4, <2>5, ConsumerAssumption DEF Inv, FailureInv
  <2> QED
    BY <2>6, <2>7, <2>8, <2>9 DEF Inv
<1>3. ASSUME NEW s \in Slot, Reject(s) PROVE Inv'
  BY <1>3, <1>d DEF Reject
<1>4. ASSUME NEW s \in Slot, Insert(s) PROVE Inv'
  <2> DEFINE label == IF \E e \in IdsOf(s) : log[e] > 0 THEN "skipped" ELSE "inserted"
  <2>1. Goto(s, label) /\ Inserting(s) = {} /\ UNCHANGED <<place, returns, log, failures>>
    BY <1>4 DEF Insert
  <2>2. label \in Labels \ {"idle", "failed"}
    BY DEF Labels
  <2>3. label = "skipped" => \A m \in msg[s] : log[id[m]] > 0
    <3> SUFFICES ASSUME label = "skipped", NEW m \in msg[s] PROVE log[id[m]] > 0
      OBVIOUS
    <3>1. PICK e \in IdsOf(s) : log[e] > 0
      OBVIOUS
    <3>2. PICK n \in msg[s] : e = id[n]
      BY DEF IdsOf
    <3>3. n = m
      BY DEF Inv, DeliveryInv
    <3> QED
      BY <3>1, <3>2, <3>3
  <2>4. label = "inserted" => \A m \in msg[s] : log[id[m]] = 0
    <3>1. label = "inserted" => \A m \in msg[s] : ~(log[id[m]] > 0)
      BY DEF IdsOf
    <3>2. \A m \in msg[s] : log[id[m]] \in Nat
      BY <1>0, ConsumerAssumption
    <3> QED
      BY <3>1, <3>2
  <2>5. \A t \in Slot \ {s} : pc[t] = "inserted" =>
          \A m \in msg[s], n \in msg[t] : id[m] # id[n]
    BY <2>1 DEF Inserting, IdsOf
  <2>6. label \in {"skipped", "inserted"}
    OBVIOUS
  <2> HIDE DEF label
  <2>7. TypeOK' /\ DeliveryInv' /\ FailureInv'
    BY <1>0, <1>e, <2>1, <2>2, ConsumerAssumption
  <2>8. /\ pc'[s] = label /\ \A t \in Slot \ {s} : pc'[t] = pc[t]
        /\ UNCHANGED msg
    BY <2>1, <2>2, GotoFacts
  <2>9. InsertInv'
    <3>1. \A t \in Slot : \A m \in msg[t] :
            /\ pc'[t] = "inserted" => log[id[m]] = 0
            /\ pc'[t] \in {"skipped", "ack"} => log[id[m]] > 0
      BY <2>3, <2>4, <2>6, <2>8 DEF Inv, InsertInv
    <3>2. \A t, u \in Slot : pc'[t] = "inserted" /\ pc'[u] = "inserted" /\ t # u =>
            \A m \in msg[t], n \in msg[u] : id[m] # id[n]
      BY <2>5, <2>8 DEF Inv, InsertInv
    <3> QED
      BY <2>1, <2>8, <3>1, <3>2 DEF InsertInv
  <2>10. AckedIsLogged' /\ LoggedOnce'
    BY <2>1 DEF Inv, AckedIsLogged, LoggedOnce
  <2> QED
    BY <2>7, <2>9, <2>10 DEF Inv
<1>5. ASSUME NEW s \in Slot, Commit(s) PROVE Inv'
  <2>1. /\ pc[s] \in {"inserted", "skipped"} /\ Record(s) /\ Goto(s, "ack")
        /\ UNCHANGED <<place, returns, failures>>
    BY <1>5 DEF Commit
  <2>2. log' \in [Event -> Nat] /\ InsertInv' /\ AckedIsLogged' /\ LoggedOnce'
    BY <1>f, <2>1
  <2>3. "ack" \in Labels \ {"idle"} /\ "ack" # "failed"
    BY DEF Labels
  <2>4. TypeOK' /\ DeliveryInv' /\ FailureInv'
    BY <1>0, <1>e, <2>1, <2>2, <2>3, ConsumerAssumption
  <2> QED
    BY <2>2, <2>4 DEF Inv
<1>6. ASSUME NEW s \in Slot, Ack(s) PROVE Inv'
  BY <1>6, <1>d DEF Ack
<1>7. ASSUME NEW s \in Slot, HandleFails(s) PROVE Inv'
  <2>1. /\ failures' = failures + 1 /\ failures' \in 0..MaxFailures
        /\ Goto(s, "failed") /\ UNCHANGED <<place, returns, log>>
    BY <1>0, <1>7, ConsumerAssumption DEF HandleFails, Fail
  <2>2. "failed" \in Labels \ {"idle"}
    BY DEF Labels
  <2>3. TypeOK' /\ DeliveryInv' /\ FailureInv'
    BY <1>0, <1>e, <2>1, <2>2, ConsumerAssumption
  <2>4. /\ pc'[s] = "failed" /\ UNCHANGED msg
        /\ \A t \in Slot \ {s} : pc'[t] = pc[t]
    BY <2>1, <2>2, GotoFacts
  <2>5. InsertInv' /\ AckedIsLogged' /\ LoggedOnce'
    BY <2>1, <2>4, LogUnchanged
  <2> QED
    BY <2>3, <2>5 DEF Inv
<1>8. ASSUME NEW s \in Slot, CommitUnanswered(s) PROVE Inv'
  <2>1. /\ pc[s] \in {"inserted", "skipped"} /\ Record(s) /\ Goto(s, "failed")
        /\ failures' = failures + 1 /\ failures' \in 0..MaxFailures
        /\ UNCHANGED <<place, returns>>
    BY <1>0, <1>8, ConsumerAssumption DEF CommitUnanswered, Fail
  <2>2. log' \in [Event -> Nat] /\ InsertInv' /\ AckedIsLogged' /\ LoggedOnce'
    BY <1>f, <2>1
  <2>3. "failed" \in Labels \ {"idle"}
    BY DEF Labels
  <2>4. TypeOK' /\ DeliveryInv' /\ FailureInv'
    BY <1>0, <1>e, <2>1, <2>2, <2>3, ConsumerAssumption
  <2> QED
    BY <2>2, <2>4 DEF Inv
<1>9. ASSUME NEW s \in Slot, Requeue(s) PROVE Inv'
  <2>1. /\ pc[s] = "failed" /\ GiveBack(s) /\ Finish(s) /\ UNCHANGED <<log, failures>>
    BY <1>9 DEF Requeue
  <2>2. \A m \in Message : Holds(s, m) => returns[m] < failures'
    BY <2>1 DEF Inv, FailureInv
  <2> QED
    BY <1>0, <1>c, <2>1, <2>2, ConsumerAssumption
<1>10. ASSUME NEW s \in Slot, LoseDelivery(s) PROVE Inv'
  <2>1. /\ failures' = failures + 1 /\ failures' \in 0..MaxFailures
        /\ GiveBack(s) /\ UNCHANGED <<log, pc, msg>>
    BY <1>0, <1>10, ConsumerAssumption DEF LoseDelivery, Fail
  <2>2. live' = [live EXCEPT ![s] = FALSE]
    BY <1>10 DEF LoseDelivery
  <2>3. live' \in [Slot -> BOOLEAN]
    BY <1>a, <2>2
  <2>4. \A t \in Slot, m \in Message : Holds(t, m)' => t # s /\ Holds(t, m)
    BY <1>a, <2>1, <2>2 DEF Holds
  <2>5. \A m \in Message : Holds(s, m) => returns[m] < failures'
    BY <1>0, <2>1, ConsumerAssumption DEF Inv, FailureInv
  <2>6. failures' >= failures
    BY <1>0, <2>1
  <2>7. /\ FailureInv'
        /\ \A t \in Slot, m \in Message : Holds(t, m)' => place'[m] = "unacked"
        /\ \A m \in Message : place'[m] = "done" => place[m] = "done"
    BY <2>1, <2>4, <2>5, <2>6, GiveBackCounts
  <2>8. TypeOK'
    BY <1>0, <1>b, <2>1, <2>3, <2>7, GiveBackFacts
  <2>9. DeliveryInv'
    BY <2>1, <2>4 DEF Inv, DeliveryInv
  <2>10. InsertInv' /\ AckedIsLogged' /\ LoggedOnce'
    BY <2>1, <2>7, LogUnchanged
  <2> QED
    BY <2>7, <2>8, <2>9, <2>10 DEF Inv
<1>11. ASSUME NEW s \in Slot, Kill(s) PROVE Inv'
  <2>1. /\ failures' = failures + 1 /\ failures' \in 0..MaxFailures
        /\ GiveBack(s) /\ Finish(s) /\ UNCHANGED log
    BY <1>0, <1>11, ConsumerAssumption DEF Kill, Fail
  <2>2. \A m \in Message : Holds(s, m) => returns[m] < failures'
    BY <1>0, <2>1, ConsumerAssumption DEF Inv, FailureInv
  <2> QED
    BY <1>0, <1>c, <2>1, <2>2
<1>12. CASE UNCHANGED vars
  BY <1>12 DEF vars, Inv, TypeOK, DeliveryInv, InsertInv, FailureInv, AckedIsLogged,
               LoggedOnce, Holds
<1> QED
  BY <1>1, <1>2, <1>3, <1>4, <1>5, <1>6, <1>7, <1>8, <1>9, <1>10, <1>11, <1>12 DEF Next, Task

\* Nothing was published, written or delivered yet.
LEMMA InvInit == Init => Inv
<1> SUFFICES ASSUME Init PROVE Inv
  OBVIOUS
<1>1. live \in [Slot -> BOOLEAN] /\ \A s \in Slot : ~live[s]
  BY DEF Init
<1>2. /\ place = [m \in Message |-> "unsent"] /\ returns = [m \in Message |-> 0]
      /\ log = [e \in Event |-> 0] /\ pc = [s \in Slot |-> "idle"]
      /\ msg = [s \in Slot |-> {}] /\ failures = 0
  BY DEF Init
<1>3. TypeOK
  <2>1. /\ place \in [Message -> {"unsent", "queue", "unacked", "done", "dead"}]
        /\ returns \in [Message -> 0..(DeliveryLimit + 1)]
        /\ log \in [Event -> Nat] /\ failures \in 0..MaxFailures
        /\ pc \in [Slot -> {"idle", "handle", "inserted", "skipped", "ack", "failed"}]
        /\ msg \in [Slot -> SUBSET Message]
    BY <1>2, ConsumerAssumption
  <2> QED
    BY <1>1, <2>1, Zenon DEF TypeOK
<1>4. DeliveryInv
  BY <1>1, <1>2 DEF DeliveryInv, Holds
<1>5. InsertInv /\ AckedIsLogged /\ LoggedOnce
  BY <1>2 DEF InsertInv, AckedIsLogged, LoggedOnce
<1>6. FailureInv
  BY <1>2, ConsumerAssumption DEF FailureInv
<1> QED
  BY <1>3, <1>4, <1>5, <1>6 DEF Inv

-----------------------------------------------------------------------------
\* The invariant holds throughout.
LEMMA AlwaysInv == Spec => []Inv
  BY InvInit, InvStep, PTL DEF Spec

\* Types, and that the broker has every live delivery down as unacked: no
\* message is settled by a task that lost it.
THEOREM TypeCorrect == Spec => []TypeOK
<1>1. Inv => TypeOK
  BY DEF Inv
<1> QED
  BY <1>1, AlwaysInv, PTL

\* A message is acked only when its event is in the audit log, for any number
\* of instances and failures.
THEOREM AcksAreKept == Spec => []AckedIsLogged
<1>1. Inv => AckedIsLogged
  BY DEF Inv
<1> QED
  BY <1>1, AlwaysInv, PTL

\* However often an event arrives, and however many tasks handle it at once,
\* the audit log has it once.
THEOREM OneEntryEach == Spec => []LoggedOnce
<1>1. Inv => LoggedOnce
  BY DEF Inv
<1> QED
  BY <1>1, AlwaysInv, PTL

\* A valid event is dead-lettered only after more failures than the delivery
\* limit.
THEOREM DeadMeansFailures == Spec => []OnlyFailuresKill
<1>1. Inv => OnlyFailuresKill
  <2> SUFFICES ASSUME Inv, NEW m \in Valid, place[m] = "dead" PROVE failures > DeliveryLimit
    BY DEF OnlyFailuresKill
  <2>1. m \in Message /\ returns[m] \in 0..(DeliveryLimit + 1) /\ failures \in 0..MaxFailures
    BY ConsumerAssumption DEF Inv, TypeOK
  <2>2. returns[m] > DeliveryLimit /\ returns[m] <= failures
    BY <2>1 DEF Inv, FailureInv
  <2> QED
    BY <2>1, <2>2, ConsumerAssumption
<1> QED
  BY <1>1, AlwaysInv, PTL
=============================================================================
