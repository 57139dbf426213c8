----------------------------- MODULE BatchProofs -----------------------------
(***************************************************************************)
(* Proofs about the two parts that read a table in order and batch by      *)
(* batch: the publishers that empty the outbox (OutboxPublisher) and the   *)
(* search of accounts (Search).                                            *)
(*                                                                         *)
(* The outbox, for any number of rows and instances, any batch size and    *)
(* any number of failures.  That a publisher deletes only rows the broker  *)
(* has, and that a repeated message is always paid for by a failure, both  *)
(* rest on who holds which row: BatchInv says what the rows of an open     *)
(* transaction are.  That NOTIFY is enough rests on WatchInv: until        *)
(* something fails, every row of the table is in the sight of some         *)
(* publisher.                                                              *)
(*                                                                         *)
(* The search, for any accounts, pages and batches.  A list cut at a       *)
(* cursor loses nobody because what LIMIT leaves out comes after           *)
(* everything it takes, although the table has changed by the time the     *)
(* list is used.                                                           *)
(***************************************************************************)
EXTENDS OutboxPublisher, Search, FiniteSetTheorems, WellFoundedInduction, TLAPS

BatchInv ==
  /\ \A p \in Instance : pc[p] \in {"waiting", "drain"} => held[p] = {}
  /\ \A p \in Instance : batch[p] \cup gone[p] \subseteq held[p]
  /\ \A p \in Instance : batch[p] \cap gone[p] = {}
  /\ \A p, q \in Instance : p # q => held[p] \cap held[q] = {}
  /\ \A p \in Instance : \A e \in gone[p] : copies[e] > 0

\* A row that is still to be published was published at most once per failure.
CopyInv ==
  /\ \A e \in Row \ written : copies[e] = 0
  /\ \A e \in outbox : (\A p \in Instance : e \notin gone[p]) => copies[e] <= failures

Inv == TypeOK /\ BatchInv /\ CopyInv /\ NothingLost /\ RepeatsAreFailures

\* Every step of a publisher or a request keeps the invariant.
LEMMA InvStep == Inv /\ [Next]_vars => Inv'
<1> SUFFICES ASSUME Inv, [Next]_vars PROVE Inv'
  OBVIOUS
<1> USE OutboxAssumption DEF Inv, TypeOK, BatchInv, CopyInv, NothingLost,
        RepeatsAreFailures, table
<1>1. ASSUME NEW e \in Row, Insert(e) PROVE Inv'
  <2>1. wake' \in [Instance -> BOOLEAN]
    BY <1>1 DEF Insert, Notify
  <2>2. TypeOK'
    BY <1>1, <2>1 DEF Insert, Notify
  <2>3. (BatchInv /\ CopyInv)'
    BY <1>1 DEF Insert, Notify
  <2>4. (NothingLost /\ RepeatsAreFailures)'
    BY <1>1 DEF Insert, Notify
  <2> QED
    BY <2>2, <2>3, <2>4
<1>2. ASSUME NEW p \in Instance, LoseListener(p) \/ Reconnect(p) \/ StartPass(p) PROVE Inv'
  <2>1. wake' \in [Instance -> BOOLEAN] /\ listening' \in [Instance -> BOOLEAN]
    BY <1>2 DEF LoseListener, Reconnect, StartPass
  <2>2. pc' \in [Instance -> {"waiting", "drain", "batch", "interrupted"}]
    BY <1>2 DEF LoseListener, Reconnect, StartPass
  <2>3. UNCHANGED <<written, outbox, copies, failures, held, batch, gone>>
    BY <1>2 DEF LoseListener, Reconnect, StartPass
  <2>4. \A q \in Instance : pc'[q] = "drain" => pc[q] \in {"waiting", "drain"}
    BY <1>2 DEF LoseListener, Reconnect, StartPass
  <2>5. \A q \in Instance : pc'[q] = "waiting" => pc[q] = "waiting"
    BY <1>2 DEF LoseListener, Reconnect, StartPass
  <2>6. TypeOK'
    BY <2>1, <2>2, <2>3
  <2>7. BatchInv'
    BY <2>3, <2>4, <2>5
  <2> QED
    BY <2>3, <2>6, <2>7
<1>3. ASSUME NEW p \in Instance, LockBatch(p) PROVE Inv'
  <2> DEFINE rows == Oldest(outbox \ HeldByOthers(p), BatchSize)
  <2>1. rows \subseteq outbox /\ \A q \in Instance : q # p => rows \cap held[q] = {}
    BY DEF Oldest, HeldByOthers
  <2>2. /\ pc[p] = "drain" /\ pc' = [pc EXCEPT ![p] = "batch"]
        /\ held' = [held EXCEPT ![p] = rows]
        /\ batch' = [batch EXCEPT ![p] = rows]
        /\ UNCHANGED <<written, outbox, copies, failures, wake, listening, gone>>
    BY <1>3 DEF LockBatch
  <2> HIDE DEF rows
  <2>3. gone[p] = {}
    BY <2>2
  <2>4. TypeOK'
    BY <2>1, <2>2
  <2>5. BatchInv'
    BY <2>1, <2>2, <2>3
  <2> QED
    BY <2>2, <2>4, <2>5
<1>4. ASSUME NEW p \in Instance, NEW e \in Row, Confirm(p, e) PROVE Inv'
  BY <1>4 DEF Confirm, IsNext
<1>5. ASSUME NEW p \in Instance, NEW e \in Row, Return(p, e) PROVE Inv'
  BY <1>5 DEF Return, IsNext
<1>6. ASSUME NEW p \in Instance, NEW e \in Row, Interrupt(p, e) PROVE Inv'
  <2>1. PICK n \in {0, 1} : copies' = [copies EXCEPT ![e] = @ + n]
    BY <1>6 DEF Interrupt
  <2>2. /\ e \in batch[p] /\ failures < MaxFailures /\ failures' = failures + 1
        /\ UNCHANGED <<written, outbox, wake, listening, held, batch, gone>>
        /\ pc' = [pc EXCEPT ![p] = "interrupted"]
    BY <1>6 DEF Interrupt, IsNext, Fail
  <2>3. e \in outbox /\ \A q \in Instance : e \notin gone[q]
    BY <2>2
  <2>4. copies[e] <= failures
    BY <2>3
  <2>5. TypeOK'
    BY <2>1, <2>2
  <2>6. \A d \in Row : copies'[d] >= copies[d] /\ (d # e => copies'[d] = copies[d])
    BY <2>1
  <2>7. BatchInv' /\ NothingLost'
    BY <2>2, <2>5, <2>6
  <2>8. copies'[e] <= failures' /\ e \in written
    BY <2>1, <2>2, <2>3, <2>4
  <2>9. CopyInv' /\ RepeatsAreFailures'
    BY <2>2, <2>5, <2>6, <2>8
  <2> QED
    BY <2>5, <2>7, <2>9
<1>7. ASSUME NEW p \in Instance, CommitBatch(p) PROVE Inv'
  <2>1. /\ outbox' = outbox \ gone[p]
        /\ held' = [held EXCEPT ![p] = {}]
        /\ batch' = [batch EXCEPT ![p] = {}]
        /\ gone' = [gone EXCEPT ![p] = {}]
        /\ UNCHANGED <<written, copies, failures, wake, listening>>
    BY <1>7 DEF CommitBatch
  <2>2. \E next \in {"drain", "waiting"} : pc' = [pc EXCEPT ![p] = next]
    BY <1>7 DEF CommitBatch
  <2>3. held' \in [Instance -> SUBSET outbox']
    <3>1. \A q \in Instance : held'[q] \subseteq outbox'
      BY <2>1
    <3>2. DOMAIN held' = Instance /\ held' = [q \in Instance |-> held'[q]]
      BY <2>1
    <3> QED
      BY <3>1, <3>2
  <2>4. TypeOK'
    <3>1. pc' \in [Instance -> {"waiting", "drain", "batch", "interrupted"}]
      BY <2>2
    <3>2. batch' \in [Instance -> SUBSET Row] /\ gone' \in [Instance -> SUBSET Row]
      BY <2>1
    <3> QED
      BY <2>1, <2>3, <3>1, <3>2
  <2>5. BatchInv'
    BY <2>1, <2>2
  <2>6. \A e \in outbox' : (\A q \in Instance : e \notin gone'[q]) =>
                            (\A q \in Instance : e \notin gone[q])
    BY <2>1
  <2>7. CopyInv'
    BY <2>1, <2>6
  <2>8. (NothingLost /\ RepeatsAreFailures)'
    BY <2>1, <2>4
  <2> QED
    BY <2>4, <2>5, <2>7, <2>8
<1>8. ASSUME NEW p \in Instance, Abort(p) PROVE Inv'
  BY <1>8 DEF Abort, Fail
<1>9. ASSUME NEW p \in Instance, NEW e \in Row, Refuse(p, e) PROVE Inv'
  BY <1>9 DEF Refuse, IsNext, Fail
<1>10. CASE UNCHANGED vars
  BY <1>10 DEF vars
<1> QED
  BY <1>1, <1>2, <1>3, <1>4, <1>5, <1>6, <1>7, <1>8, <1>9, <1>10 DEF Next, Pass

\* The inductive invariant of the publishers.
THEOREM Invariance == Spec => []Inv
<1>1. Init => Inv
  BY OutboxAssumption DEF Init, Inv, TypeOK, BatchInv, CopyInv, NothingLost, RepeatsAreFailures
<1> QED
  BY <1>1, InvStep, PTL DEF Spec

\* The variables keep their types; a transaction only ever holds rows that are
\* still in the table.
THEOREM TypeCorrect == Spec => []TypeOK
<1>1. Inv => TypeOK
  BY DEF Inv
<1> QED
  BY <1>1, Invariance, PTL

\* No event is lost between the transaction that wrote it and the broker.
THEOREM EventsAreKept == Spec => []NothingLost
<1>1. Inv => NothingLost
  BY DEF Inv
<1> QED
  BY <1>1, Invariance, PTL

\* Delivery is at least once, and more than once only by way of failures.
THEOREM RepeatsArePaidFor == Spec => []RepeatsAreFailures
<1>1. Inv => RepeatsAreFailures
  BY DEF Inv
<1> QED
  BY <1>1, Invariance, PTL

-----------------------------------------------------------------------------
(* No insert is missed.                                                    *)

\* A set of naturals has a least element.
LEMMA LeastElement ==
  ASSUME NEW S, S \subseteq Nat, S # {}
  PROVE  \E e \in S : \A d \in S : e <= d
<1>1. PICK e \in S : \A d \in S : ~ (<<d, e>> \in OpToRel(<, Nat))
  BY NatLessThanWellFounded, WFMin
<1>2. \A d \in S : ~ (d < e)
  BY <1>1 DEF OpToRel
<1> QED
  BY <1>2

\* A batch that leaves a free row behind is full: ORDER BY created_at LIMIT n
\* takes fewer than n rows only when it takes all of them.
LEMMA ShortBatchIsAll ==
  ASSUME NEW S, S \subseteq Nat, IsFiniteSet(S), NEW n \in Nat,
         Oldest(S, n) # S
  PROVE  Cardinality(Oldest(S, n)) >= n
<1> DEFINE Older(e) == {d \in S : d < e}
<1>1. S \ Oldest(S, n) # {} /\ S \ Oldest(S, n) \subseteq Nat
  BY DEF Oldest
<1>2. PICK e \in S \ Oldest(S, n) : \A d \in S \ Oldest(S, n) : e <= d
  BY <1>1, LeastElement
<1>3. Older(e) \subseteq S /\ Oldest(S, n) \subseteq S
  BY DEF Oldest
<1>4. Cardinality(Older(e)) \in Nat
  BY <1>3, FS_Subset, FS_CardinalityType
<1>5. Cardinality(Older(e)) >= n
  BY <1>2, <1>4 DEF Oldest
<1>6. Older(e) \subseteq Oldest(S, n)
  <2> SUFFICES ASSUME NEW d \in S, d < e, d \notin Oldest(S, n) PROVE FALSE
    OBVIOUS
  <2>1. e <= d
    BY <1>2
  <2> QED
    BY <2>1, <1>2
<1>7. IsFiniteSet(Oldest(S, n))
  BY <1>3, FS_Subset
<1> HIDE DEF Older
<1>8. Cardinality(Older(e)) <= Cardinality(Oldest(S, n)) /\ Cardinality(Oldest(S, n)) \in Nat
  BY <1>6, <1>7, FS_Subset, FS_CardinalityType
<1> QED
  BY <1>4, <1>5, <1>8

\* Nothing has failed and every event has its consumer, so far.
Calm == failures = 0 /\ outbox \cap Unroutable = {}

\* p is about to look at the table: it looks now, it will once its full batch
\* is committed, or once it is woken or its listener is back.
WillLook(p) ==
  \/ pc[p] = "drain" \/ wake[p] \/ ~listening[p]
  \/ pc[p] = "batch" /\ Cardinality(held[p]) >= BatchSize

\* Every row is being published or somebody is about to look.
RowsInSight == \A e \in outbox : \E p \in Instance : e \in held[p] \/ WillLook(p)

WatchInv ==
  /\ IsFiniteSet(outbox)
  /\ \A p \in Instance : gone[p] \cap Unroutable = {}
  /\ Calm => /\ \A p \in Instance : pc[p] # "interrupted"
             /\ \A p \in Instance : held[p] = batch[p] \cup gone[p]
             /\ RowsInSight

\* Every step keeps the rows in sight.
LEMMA WatchStep == Inv /\ WatchInv /\ [Next]_vars => WatchInv'
<1> SUFFICES ASSUME Inv, WatchInv, [Next]_vars PROVE WatchInv'
  OBVIOUS
<1> USE OutboxAssumption DEF table
<1>0. TypeOK /\ BatchInv
  BY DEF Inv
<1>f. ASSUME failures' = failures + 1 PROVE ~ Calm'
  BY <1>f, <1>0 DEF Calm, TypeOK
<1>1. ASSUME NEW e \in Row, Insert(e) PROVE WatchInv'
  <2>1. /\ outbox' = outbox \cup {e}
        /\ UNCHANGED <<failures, pc, listening, held, batch, gone>>
    BY <1>1 DEF Insert, Notify
  <2>2. \A p \in Instance : wake'[p] \/ ~listening'[p]
    BY <1>1 DEF Insert, Notify
  <2>3. IsFiniteSet(outbox')
    BY <2>1, FS_AddElement DEF WatchInv
  <2>4. RowsInSight'
    BY <2>2 DEF RowsInSight, WillLook
  <2>5. Calm' => Calm
    BY <2>1 DEF Calm
  <2> QED
    BY <2>1, <2>3, <2>4, <2>5 DEF WatchInv
<1>2. ASSUME NEW p \in Instance, LoseListener(p) \/ Reconnect(p) \/ StartPass(p) PROVE WatchInv'
  <2>1. UNCHANGED <<outbox, failures, held, batch, gone>>
    BY <1>2 DEF LoseListener, Reconnect, StartPass
  <2>2. \A q \in Instance : pc'[q] = "interrupted" => pc[q] = "interrupted"
    BY <1>2, <1>0 DEF LoseListener, Reconnect, StartPass, TypeOK
  <2>3. \A q \in Instance : WillLook(q) => WillLook(q)'
    BY <1>2, <1>0 DEF LoseListener, Reconnect, StartPass, TypeOK, WillLook
  <2>4. RowsInSight => RowsInSight'
    BY <2>1, <2>3 DEF RowsInSight
  <2> QED
    BY <2>1, <2>2, <2>4 DEF WatchInv, Calm
<1>3. ASSUME NEW p \in Instance, LockBatch(p) PROVE WatchInv'
  <2> DEFINE free == outbox \ HeldByOthers(p)
             rows == Oldest(free, BatchSize)
  <2>1. /\ pc[p] = "drain" /\ pc' = [pc EXCEPT ![p] = "batch"]
        /\ held' = [held EXCEPT ![p] = rows]
        /\ batch' = [batch EXCEPT ![p] = rows]
        /\ UNCHANGED <<outbox, failures, wake, listening, gone>>
    BY <1>3 DEF LockBatch
  <2>2. gone[p] = {}
    BY <2>1, <1>0 DEF BatchInv
  <2>3. free \subseteq Nat /\ IsFiniteSet(free)
    BY <1>0, FS_Subset DEF TypeOK, WatchInv
  <2>4. \A e \in outbox : e \in free \/ \E q \in Instance : q # p /\ e \in held[q]
    BY DEF HeldByOthers
  <2>5. rows # free => Cardinality(rows) >= BatchSize
    BY <2>3, ShortBatchIsAll
  <2> HIDE DEF free, rows
  <2>6. held'[p] = rows /\ pc'[p] = "batch" /\ \A q \in Instance : q # p => held'[q] = held[q]
    BY <2>1, <1>0 DEF TypeOK
  <2>7. RowsInSight'
    <3>1. CASE rows = free
      BY <3>1, <2>1, <2>4, <2>6 DEF RowsInSight
    <3>2. CASE rows # free
      BY <3>2, <2>5, <2>6 DEF RowsInSight, WillLook
    <3> QED
      BY <3>1, <3>2
  <2>8. Calm' => /\ Calm
                 /\ \A q \in Instance : pc'[q] # "interrupted"
                 /\ \A q \in Instance : held'[q] = batch'[q] \cup gone'[q]
    <3>1. Calm' => Calm
      BY <2>1 DEF Calm
    <3>2. Calm => \A q \in Instance : pc'[q] # "interrupted"
      BY <2>1, <1>0 DEF WatchInv, TypeOK
    <3>3. Calm => \A q \in Instance : held'[q] = batch'[q] \cup gone'[q]
      BY <2>1, <2>2, <1>0 DEF WatchInv, TypeOK
    <3> QED
      BY <3>1, <3>2, <3>3
  <2> QED
    BY <2>1, <2>7, <2>8 DEF WatchInv
<1>4. ASSUME NEW p \in Instance, NEW e \in Row, Confirm(p, e) PROVE WatchInv'
  <2>1. /\ e \in batch[p] /\ e \notin Unroutable
        /\ gone' = [gone EXCEPT ![p] = @ \cup {e}]
        /\ batch' = [batch EXCEPT ![p] = @ \ {e}]
        /\ UNCHANGED <<outbox, failures, pc, wake, listening, held>>
    BY <1>4 DEF Confirm, IsNext
  <2>2. RowsInSight => RowsInSight'
    BY <2>1 DEF RowsInSight, WillLook
  <2>3. \A q \in Instance : batch'[q] \cup gone'[q] = batch[q] \cup gone[q]
    BY <2>1, <1>0 DEF TypeOK
  <2>4. \A q \in Instance : gone'[q] \cap Unroutable = {}
    BY <2>1, <1>0 DEF TypeOK, WatchInv
  <2> QED
    BY <2>1, <2>2, <2>3, <2>4 DEF WatchInv, Calm
<1>5. ASSUME NEW p \in Instance, NEW e \in Row, Return(p, e) PROVE WatchInv'
  <2>1. e \in batch[p] /\ e \in Unroutable /\ UNCHANGED <<outbox, failures, gone>>
    BY <1>5 DEF Return, IsNext
  <2>2. e \in outbox
    BY <2>1, <1>0 DEF TypeOK, BatchInv
  <2> QED
    BY <2>1, <2>2 DEF WatchInv, Calm
<1>6. ASSUME NEW p \in Instance, NEW e \in Row, Refuse(p, e) \/ Interrupt(p, e) PROVE WatchInv'
  <2>1. failures' = failures + 1 /\ UNCHANGED <<outbox, gone>>
    BY <1>6 DEF Refuse, Interrupt, Fail
  <2> QED
    BY <2>1, <1>f DEF WatchInv
<1>7. ASSUME NEW p \in Instance, Abort(p) PROVE WatchInv'
  <2>1. /\ failures' = failures + 1 /\ UNCHANGED outbox
        /\ gone' = [gone EXCEPT ![p] = {}]
    BY <1>7 DEF Abort, Fail
  <2>2. \A q \in Instance : gone'[q] \cap Unroutable = {}
    BY <2>1, <1>0 DEF WatchInv, TypeOK
  <2> QED
    BY <2>1, <2>2, <1>f DEF WatchInv
<1>8. ASSUME NEW p \in Instance, CommitBatch(p) PROVE WatchInv'
  <2>1. /\ outbox' = outbox \ gone[p]
        /\ held' = [held EXCEPT ![p] = {}]
        /\ batch' = [batch EXCEPT ![p] = {}]
        /\ gone' = [gone EXCEPT ![p] = {}]
        /\ UNCHANGED <<failures, wake, listening>>
    BY <1>8 DEF CommitBatch
  <2>2. \A q \in Instance : gone'[q] \cap Unroutable = {}
    BY <2>1, <1>0 DEF WatchInv, TypeOK
  <2>3. IsFiniteSet(outbox')
    BY <2>1, FS_Subset DEF WatchInv
  <2>4. Calm' => Calm
    BY <2>1 DEF Calm, WatchInv
  <2>5. ASSUME Calm
        PROVE  /\ \A q \in Instance : pc'[q] # "interrupted"
               /\ \A q \in Instance : held'[q] = batch'[q] \cup gone'[q]
               /\ RowsInSight'
    <3>1. pc[p] = "batch" /\ held[p] = gone[p]
      BY <1>8, <2>5, <1>0 DEF CommitBatch, WatchInv, TypeOK
    <3>2. pc' = [pc EXCEPT ![p] = IF Cardinality(gone[p]) >= BatchSize
                                  THEN "drain" ELSE "waiting"]
      BY <1>8, <3>1 DEF CommitBatch
    <3>3. \A q \in Instance : pc'[q] # "interrupted"
      BY <3>2, <2>5, <1>0 DEF WatchInv, TypeOK
    <3>4. \A q \in Instance : held'[q] = batch'[q] \cup gone'[q]
      BY <2>1, <2>5, <1>0 DEF WatchInv, TypeOK
    <3>5. \A q \in Instance \ {p} : held'[q] = held[q] /\ pc'[q] = pc[q]
      BY <2>1, <3>2, <1>0 DEF TypeOK
    <3>6. Cardinality(held[p]) >= BatchSize => pc'[p] = "drain"
      BY <3>1, <3>2, <1>0 DEF TypeOK
    <3>7. \A q \in Instance : WillLook(q) => WillLook(q)'
      BY <2>1, <3>1, <3>5, <3>6 DEF WillLook
    <3>8. RowsInSight'
      <4> SUFFICES ASSUME NEW e \in outbox'
                   PROVE  \E q \in Instance : e \in held'[q] \/ WillLook(q)'
        BY DEF RowsInSight
      <4>1. e \in outbox /\ e \notin held[p]
        BY <2>1, <3>1
      <4>2. PICK q \in Instance : e \in held[q] \/ WillLook(q)
        BY <4>1, <2>5 DEF WatchInv, RowsInSight
      <4> QED
        BY <4>1, <4>2, <3>5, <3>7
    <3> QED
      BY <3>3, <3>4, <3>8
  <2> QED
    BY <2>2, <2>3, <2>4, <2>5 DEF WatchInv
<1>9. CASE UNCHANGED vars
  BY <1>9 DEF vars, WatchInv, Calm, RowsInSight, WillLook
<1> QED
  BY <1>1, <1>2, <1>3, <1>4, <1>5, <1>6, <1>7, <1>8, <1>9 DEF Next, Pass

\* While nothing fails a row in the table is always held, or some publisher
\* looks, is woken or reconnects: with everyone idle and listening the table
\* is empty, and the timer is not needed.
THEOREM NoneMissed == Spec => []NoInsertMissed
<1>1. Init => WatchInv
  BY FS_EmptySet DEF Init, WatchInv, RowsInSight
<1>2. Inv /\ WatchInv => NoInsertMissed
  BY DEF Inv, BatchInv, WatchInv, NoInsertMissed, Calm, RowsInSight, WillLook
<1>3. Spec => [](Inv /\ WatchInv)
  BY <1>1, Invariance, WatchStep, PTL DEF Spec
<1> QED
  BY <1>2, <1>3, PTL

-----------------------------------------------------------------------------
(* The account search.                                                     *)

\* The oldest of a list.
LEMMA MinIsLeast ==
  ASSUME NEW S, S \subseteq Nat, S # {}
  PROVE  Min(S) \in S /\ \A a \in S : Min(S) <= a
<1>1. \E e \in S : \A d \in S : e <= d
  BY LeastElement
<1> QED
  BY <1>1 DEF Min

\* There are finitely many accounts, and a set of them has a newest one.
LEMMA AccountsAreFinite ==
  ASSUME NEW S, S \subseteq Account
  PROVE  /\ IsFiniteSet(S) /\ Cardinality(S) \in Nat
         /\ S # {} => \E a \in S : \A b \in S : b <= a
<1>1. S \subseteq 0..Top /\ IsFiniteSet(0..Top)
  BY FS_Interval, SearchAssumption
<1>2. IsFiniteSet(S) /\ Cardinality(S) \in Nat
  BY <1>1, FS_Subset, FS_CardinalityType
<1>3. ASSUME S # {} PROVE \E a \in S : \A b \in S : b <= a
  <2> DEFINE D == {Top - a : a \in S}
  <2>0. \A a \in S : a \in Nat /\ a < Top /\ Top \in Nat
    BY SearchAssumption
  <2>1. D \subseteq Nat /\ D # {}
    BY <1>3, <2>0
  <2>2. PICK d \in D : \A e \in D : d <= e
    BY <2>1, LeastElement
  <2>3. PICK a \in S : d = Top - a
    BY <2>2
  <2>4. \A b \in S : Top - a <= Top - b
    BY <2>2, <2>3
  <2>5. \A b \in S : b <= a
    BY <2>0, <2>4
  <2> QED
    BY <2>5
<1> QED
  BY <1>2, <1>3

\* ORDER BY ... DESC LIMIT n takes no account without every newer one.
LEMMA NewestIsPrefix ==
  ASSUME NEW S, S \subseteq Account, NEW n \in Nat,
         NEW a \in Newest(S, n), NEW b \in S, a <= b
  PROVE  b \in Newest(S, n)
<1> DEFINE Newer(c) == {d \in S : d > c}
<1>0. \A d \in S : d \in Nat /\ d \in Account
  BY SearchAssumption
<1>1. a \in S /\ Cardinality(Newer(a)) < n
  BY DEF Newest
<1>2. Newer(b) \subseteq Newer(a) /\ Newer(a) \subseteq Account /\ Newer(b) \subseteq Account
  BY <1>0, <1>1
<1>3. b \in Newest(S, n) <=> Cardinality(Newer(b)) < n
  BY DEF Newest
<1> HIDE DEF Newer
<1>4. /\ IsFiniteSet(Newer(a))
      /\ Cardinality(Newer(a)) \in Nat /\ Cardinality(Newer(b)) \in Nat
  BY <1>2, AccountsAreFinite
<1>5. Cardinality(Newer(b)) <= Cardinality(Newer(a))
  BY <1>2, <1>4, FS_Subset
<1> QED
  BY <1>1, <1>3, <1>4, <1>5

\* It takes them all when there are no more than n of them.
LEMMA NewestTakesAll ==
  ASSUME NEW S, S \subseteq Account, NEW n \in Nat,
         Cardinality(S) <= n
  PROVE  Newest(S, n) = S
<1> SUFFICES ASSUME NEW a \in S PROVE Cardinality({d \in S : d > a}) < n
  BY DEF Newest
<1> DEFINE Newer == {d \in S : d > a}
<1>1. Newer \subseteq S /\ Newer # S
  BY SearchAssumption
<1> HIDE DEF Newer
<1>2. IsFiniteSet(S) /\ Cardinality(S) \in Nat /\ Cardinality(Newer) \in Nat
  BY <1>1, AccountsAreFinite
<1>3. Cardinality(Newer) <= Cardinality(S) /\ Cardinality(Newer) # Cardinality(S)
  BY <1>1, <1>2, FS_Subset
<1>4. Cardinality(Newer) < n
  BY <1>2, <1>3
<1> QED
  BY <1>4 DEF Newer

\* A list that leaves an account out is full.
LEMMA ShortListIsAll ==
  ASSUME NEW S, S \subseteq Account, NEW n \in Nat,
         Newest(S, n) # S
  PROVE  Cardinality(Newest(S, n)) >= n
<1> DEFINE Newer(c) == {d \in S : d > c}
           list == Newest(S, n)
<1>1. list \subseteq S /\ list \subseteq Account /\ S \ list # {} /\ S \ list \subseteq Account
  BY DEF Newest
<1>2. PICK a \in S \ list : \A b \in S \ list : b <= a
  BY <1>1, AccountsAreFinite
<1>3. Newer(a) \subseteq list
  <2> SUFFICES ASSUME NEW d \in S, d > a, d \notin list PROVE FALSE
    OBVIOUS
  <2>1. d <= a
    BY <1>2
  <2> QED
    BY <2>1, <1>2, SearchAssumption
<1>4. Newer(a) \subseteq Account
  OBVIOUS
<1>5. ~ (Cardinality(Newer(a)) < n)
  BY <1>2 DEF Newest
<1> HIDE DEF Newer, list
<1>6. /\ IsFiniteSet(list) /\ Cardinality(list) \in Nat
      /\ Cardinality(Newer(a)) \in Nat
  BY <1>1, <1>4, AccountsAreFinite
<1>7. Cardinality(Newer(a)) <= Cardinality(list)
  BY <1>3, <1>6, FS_Subset
<1>8. Cardinality(list) >= n
  BY <1>5, <1>6, <1>7
<1> QED
  BY <1>8 DEF list

\* A list of at least one account is empty only when there is none.
LEMMA SomeNewest ==
  ASSUME NEW S, S \subseteq Account, S # {}, NEW n \in Nat \ {0}
  PROVE  Newest(S, n) # {}
<1> SUFFICES ASSUME Newest(S, n) = {} PROVE FALSE
  OBVIOUS
<1>1. Cardinality({}) >= n
  BY ShortListIsAll
<1> QED
  BY <1>1, FS_EmptySet

SearchTypes ==
  /\ matching \subseteq Account /\ excluded \subseteq Account
  /\ steady \subseteq matching \ excluded
  /\ step \in {"ask", "fetch", "filter", "answer", "over"}
  /\ cursor \in Nat /\ at \in Nat
  /\ candidates \subseteq Account /\ visible \subseteq Account /\ shown \subseteq Account

\* The pages so far end where the next one starts, with nobody left behind.
PagesMeet ==
  /\ step # "over" => /\ \A a \in shown : cursor <= a
                      /\ \A a \in steady : cursor <= a => a \in shown
  /\ step = "over" => steady \subseteq shown

\* So does what a request has gathered, where its loop stands.
LoopMeets ==
  step \in {"fetch", "filter", "answer"} =>
    /\ at <= cursor
    /\ \A a \in visible : at <= a /\ a < cursor
    /\ \A a \in steady : at <= a /\ a < cursor => a \in visible

\* A batch starts where the loop stands.  Whoever it left out and was there
\* when it was read comes after all of it, and it was full.
BatchFollows ==
  step = "filter" =>
    /\ candidates # {}
    /\ \A a \in candidates : a < at
    /\ \A a \in steady : a < at /\ a \notin candidates =>
         Cardinality(candidates) >= SearchBatchSize /\ \A b \in candidates : a < b

\* The loop ends with an account past the page, or with no account left.
LoopEnds ==
  step = "answer" =>
    Cardinality(visible) > PageSize \/ \A a \in steady : a < cursor => a \in visible

SearchInv == SearchTypes /\ PagesMeet /\ LoopMeets /\ BatchFollows /\ LoopEnds

\* What happens to the accounts never adds to those that had to be shown.
LEMMA ChangesKeep ==
  ASSUME SearchInv, NEW a \in Account,
         Appear(a) \/ Disappear(a) \/ Block(a) \/ Unblock(a)
  PROVE  SearchInv'
<1>1. UNCHANGED <<step, cursor, at, candidates, visible, shown>>
  BY DEF Appear, Disappear, Block, Unblock, loop
<1>2. steady' \subseteq steady
  BY DEF Appear, Disappear, Block, Unblock
<1>3. SearchTypes'
  <2>1. matching' \subseteq Account /\ excluded' \subseteq Account
    BY DEF SearchInv, SearchTypes, Appear, Disappear, Block, Unblock
  <2>2. steady' \subseteq matching' \ excluded'
    BY DEF SearchInv, SearchTypes, Appear, Disappear, Block, Unblock
  <2> QED
    BY <1>1, <2>1, <2>2 DEF SearchInv, SearchTypes
<1>4. PagesMeet' /\ LoopMeets'
  BY <1>1, <1>2 DEF SearchInv, PagesMeet, LoopMeets
<1>5. BatchFollows' /\ LoopEnds'
  BY <1>1, <1>2 DEF SearchInv, BatchFollows, LoopEnds
<1> QED
  BY <1>3, <1>4, <1>5 DEF SearchInv

\* A batch is the next accounts after the loop's place, at that moment.
LEMMA FetchKeeps ==
  ASSUME SearchInv, Fetch
  PROVE  SearchInv'
<1> DEFINE rows == After(at)
           list == Newest(rows, SearchBatchSize)
<1>1. /\ step = "fetch" /\ candidates' = list
      /\ step' = IF list = {} THEN "answer" ELSE "filter"
      /\ UNCHANGED <<matching, excluded, cursor, at, visible, shown, steady>>
  BY DEF Fetch
<1>2. rows \subseteq Account /\ list \subseteq rows
  BY DEF SearchInv, SearchTypes, After, Newest
<1>3. \A a \in steady : a < at => a \in rows
  BY DEF SearchInv, SearchTypes, After
<1>4. \A a \in rows : a < at
  BY DEF After
<1>5. list = {} => rows = {}
  BY <1>2, SomeNewest, SearchAssumption
<1>6. ASSUME NEW a \in rows, a \notin list
      PROVE  Cardinality(list) >= SearchBatchSize /\ \A b \in list : a < b
  <2>1. list # rows
    BY <1>6
  <2>2. Cardinality(list) >= SearchBatchSize
    BY <1>2, <2>1, ShortListIsAll, SearchAssumption
  <2>3. ASSUME NEW b \in list, ~ (a < b) PROVE FALSE
    <3>0. a \in Nat /\ b \in Nat
      BY <1>2, SearchAssumption
    <3>1. b <= a
      BY <2>3, <3>0
    <3>2. a \in list
      BY <1>2, <3>1, NewestIsPrefix, SearchAssumption
    <3> QED
      BY <3>2, <1>6
  <2> QED
    BY <2>2, <2>3
<1> HIDE DEF rows, list
<1>7. SearchTypes'
  BY <1>1, <1>2 DEF SearchInv, SearchTypes
<1>8. PagesMeet' /\ LoopMeets'
  BY <1>1 DEF SearchInv, PagesMeet, LoopMeets
<1>9. BatchFollows'
  BY <1>1, <1>2, <1>3, <1>4, <1>6 DEF BatchFollows
<1>10. LoopEnds'
  <2> SUFFICES ASSUME list = {}, NEW a \in steady, a < cursor PROVE a \in visible
    BY <1>1 DEF LoopEnds
  <2>1. ~ (a < at)
    BY <1>3, <1>5
  <2>2. at <= a
    BY <2>1, SearchAssumption DEF SearchInv, SearchTypes
  <2> QED
    BY <1>1, <2>2 DEF SearchInv, LoopMeets
<1> QED
  BY <1>7, <1>8, <1>9, <1>10 DEF SearchInv

\* The loop moves past the batch, also past what posts-api filters out.
LEMMA FilterKeeps ==
  ASSUME SearchInv, Filter
  PROVE  SearchInv'
<1> DEFINE last == Min(candidates)
<1>1. /\ step = "filter" /\ at' = last
      /\ visible' = visible \cup (candidates \ excluded)
      /\ step' = IF Cardinality(candidates) < SearchBatchSize \/ Cardinality(visible') > PageSize
                 THEN "answer" ELSE "fetch"
      /\ UNCHANGED <<matching, excluded, cursor, candidates, shown, steady>>
  BY DEF Filter
<1>2. /\ candidates # {} /\ candidates \subseteq Nat /\ candidates \subseteq Account
      /\ at \in Nat /\ cursor \in Nat /\ at <= cursor
      /\ \A a \in candidates : a < at
  BY <1>1, SearchAssumption DEF SearchInv, SearchTypes, BatchFollows, LoopMeets
<1>3. last \in candidates /\ \A a \in candidates : last <= a
  BY <1>2, MinIsLeast
<1> HIDE DEF last
<1>4. last \in Nat /\ last < at
  BY <1>2, <1>3
<1>5. Cardinality(candidates) \in Nat /\ SearchBatchSize \in Nat
  BY <1>2, AccountsAreFinite, SearchAssumption
<1>6. \A a \in steady : a \in Nat /\ a \notin excluded
  BY SearchAssumption DEF SearchInv, SearchTypes
<1>7. \A a \in visible : a \in Nat /\ at <= a /\ a < cursor
  BY <1>1, SearchAssumption DEF SearchInv, SearchTypes, LoopMeets
<1>8. \A a \in steady : at <= a /\ a < cursor => a \in visible
  BY <1>1 DEF SearchInv, LoopMeets
<1>9. \A a \in steady : last <= a /\ a < cursor => a \in visible'
  <2> SUFFICES ASSUME NEW a \in steady, last <= a, a < at, a \notin candidates PROVE FALSE
    BY <1>1, <1>2, <1>6, <1>8
  <2>1. a < last
    BY <1>1, <1>3 DEF SearchInv, BatchFollows
  <2> QED
    BY <2>1, <1>4, <1>6
<1>10. SearchTypes'
  BY <1>1, <1>2, <1>4 DEF SearchInv, SearchTypes
<1>11. PagesMeet'
  BY <1>1 DEF SearchInv, PagesMeet
<1>12. LoopMeets'
  <2>0. \A a \in candidates : a \in Nat /\ last <= a /\ a < cursor
    BY <1>2, <1>3
  <2>1. \A a \in visible' : last <= a /\ a < cursor
    <3>1. \A a \in visible : last <= a /\ a < cursor
      BY <1>2, <1>4, <1>7
    <3> QED
      BY <1>1, <2>0, <3>1
  <2>2. last <= cursor
    BY <1>2, <1>4
  <2> QED
    BY <1>1, <1>9, <2>1, <2>2 DEF LoopMeets
<1>13. BatchFollows'
  BY <1>1 DEF BatchFollows
<1>14. LoopEnds'
  <2> SUFFICES ASSUME Cardinality(candidates) < SearchBatchSize, NEW a \in steady, a < cursor
               PROVE  a \in visible'
    BY <1>1 DEF LoopEnds
  <2>1. a < at => a \in candidates
    BY <1>1, <1>5 DEF SearchInv, BatchFollows
  <2> QED
    BY <2>1, <1>1, <1>2, <1>6, <1>8
<1> QED
  BY <1>10, <1>11, <1>12, <1>13, <1>14 DEF SearchInv

\* The next page starts after the last account of this one.
LEMMA AnswerKeeps ==
  ASSUME SearchInv, Answer
  PROVE  SearchInv'
<1> DEFINE page == Newest(visible, PageSize)
           last == Min(page)
<1>1. /\ step = "answer" /\ shown' = shown \cup page
      /\ UNCHANGED <<matching, excluded, at, candidates, visible, steady>>
      /\ IF Cardinality(visible) > PageSize
         THEN step' = "ask" /\ cursor' = last
         ELSE step' = "over" /\ cursor' = cursor
  BY DEF Answer, NextCursor
<1>2. visible \subseteq Account /\ page \subseteq visible /\ page \subseteq Nat
  BY SearchAssumption DEF SearchInv, SearchTypes, Newest
<1>3. Cardinality(visible) \in Nat /\ PageSize \in Nat
  BY <1>2, AccountsAreFinite, SearchAssumption
<1>4. /\ cursor \in Nat /\ at \in Nat
      /\ \A a \in visible : a \in Nat /\ at <= a /\ a < cursor
      /\ \A a \in steady : a \in Nat /\ (at <= a /\ a < cursor => a \in visible)
      /\ \A a \in shown : a \in Nat /\ cursor <= a
      /\ \A a \in steady : cursor <= a => a \in shown
  BY <1>1, SearchAssumption DEF SearchInv, SearchTypes, LoopMeets, PagesMeet
<1>5. CASE Cardinality(visible) > PageSize
  <2>1. visible # {}
    BY <1>3, <1>5, FS_EmptySet
  <2>2. page # {}
    BY <1>2, <2>1, SomeNewest, SearchAssumption
  <2>3. last \in page /\ \A a \in page : last <= a
    BY <1>2, <2>2, MinIsLeast
  <2>4. \A a \in visible : last <= a => a \in page
    BY <1>2, <1>3, <2>3, NewestIsPrefix
  <2> HIDE DEF page, last
  <2>5. last \in Nat /\ at <= last /\ last < cursor
    BY <1>2, <1>4, <2>3
  <2>6. \A a \in shown' : last <= a
    <3>1. \A a \in shown : last <= a
      BY <1>4, <2>5
    <3> QED
      BY <1>1, <2>3, <3>1
  <2>7. \A a \in steady : last <= a => a \in shown'
    BY <1>1, <1>4, <2>4, <2>5
  <2>8. step' = "ask" /\ cursor' = last
    BY <1>1, <1>5
  <2>9. SearchTypes'
    BY <1>1, <1>2, <2>5, <2>8 DEF SearchInv, SearchTypes
  <2>10. PagesMeet'
    BY <1>1, <2>6, <2>7, <2>8 DEF PagesMeet
  <2>11. LoopMeets' /\ BatchFollows' /\ LoopEnds'
    BY <2>8 DEF LoopMeets, BatchFollows, LoopEnds
  <2> QED
    BY <2>9, <2>10, <2>11 DEF SearchInv
<1>6. CASE ~ (Cardinality(visible) > PageSize)
  <2>1. page = visible
    BY <1>2, <1>3, <1>6, NewestTakesAll
  <2> HIDE DEF page, last
  <2>2. \A a \in steady : a < cursor => a \in visible
    BY <1>1, <1>6 DEF SearchInv, LoopEnds
  <2>3. steady \subseteq shown'
    BY <1>1, <1>4, <2>1, <2>2
  <2>4. step' = "over" /\ cursor' = cursor
    BY <1>1, <1>6
  <2>5. SearchTypes'
    BY <1>1, <1>2, <2>4 DEF SearchInv, SearchTypes
  <2>6. PagesMeet' /\ LoopMeets' /\ BatchFollows' /\ LoopEnds'
    BY <1>1, <2>3, <2>4 DEF PagesMeet, LoopMeets, BatchFollows, LoopEnds
  <2> QED
    BY <2>5, <2>6 DEF SearchInv
<1> QED
  BY <1>5, <1>6

\* Every step of the request and of the accounts keeps it.
LEMMA SearchStep == SearchInv /\ [SearchNext]_searchVars => SearchInv'
<1> SUFFICES ASSUME SearchInv, [SearchNext]_searchVars PROVE SearchInv'
  OBVIOUS
<1>1. CASE Ask
  <2>1. /\ step = "ask" /\ step' = "fetch" /\ at' = cursor /\ visible' = {}
        /\ UNCHANGED <<matching, excluded, cursor, candidates, shown, steady>>
    BY <1>1 DEF Ask
  <2>2. SearchTypes'
    BY <2>1 DEF SearchInv, SearchTypes
  <2>3. PagesMeet' /\ BatchFollows' /\ LoopEnds'
    BY <2>1 DEF SearchInv, PagesMeet, BatchFollows, LoopEnds
  <2>4. \A a \in steady : a \in Nat /\ cursor \in Nat
    BY SearchAssumption DEF SearchInv, SearchTypes
  <2>5. LoopMeets'
    BY <2>1, <2>2, <2>4 DEF LoopMeets, SearchTypes
  <2> QED
    BY <2>2, <2>3, <2>5 DEF SearchInv
<1>2. CASE Unavailable
  <2>1. /\ step = "filter" /\ step' = "ask"
        /\ UNCHANGED <<matching, excluded, cursor, at, candidates, visible, shown, steady>>
    BY <1>2 DEF Unavailable
  <2> QED
    BY <2>1 DEF SearchInv, SearchTypes, PagesMeet, LoopMeets, BatchFollows, LoopEnds
<1>3. CASE UNCHANGED searchVars
  <2>1. UNCHANGED <<matching, excluded, step, cursor, at, candidates, visible, shown, steady>>
    BY <1>3 DEF searchVars
  <2> QED
    BY <2>1 DEF SearchInv, SearchTypes, PagesMeet, LoopMeets, BatchFollows, LoopEnds
<1> QED
  BY <1>1, <1>2, <1>3, ChangesKeep, FetchKeeps, FilterKeeps, AnswerKeeps
     DEF SearchNext, Request

\* Whatever is registered, edited, deleted or blocked between two batches or
\* two pages, nobody is listed twice and nobody who was there is skipped.
THEOREM ListedOnce == SearchSpec => []EachOnce
<1>1. SearchInit => SearchInv
  BY SearchAssumption DEF SearchInit, SearchInv, SearchTypes, PagesMeet, LoopMeets,
     BatchFollows, LoopEnds
<1>2. SearchInv => EachOnce
  <2> SUFFICES ASSUME SearchInv PROVE EachOnce
    OBVIOUS
  <2>1. ASSUME step = "filter", NEW a \in candidates, a \in visible PROVE FALSE
    BY <2>1, SearchAssumption DEF SearchInv, SearchTypes, LoopMeets, BatchFollows
  <2>2. ASSUME step = "answer", NEW a \in visible, a \in shown PROVE FALSE
    BY <2>2, SearchAssumption DEF SearchInv, SearchTypes, LoopMeets, PagesMeet
  <2>3. Newest(visible, PageSize) \subseteq visible
    BY DEF Newest
  <2>4. step = "over" => steady \subseteq shown
    BY DEF SearchInv, PagesMeet
  <2> QED
    BY <2>1, <2>2, <2>3, <2>4 DEF EachOnce
<1> QED
  BY <1>1, <1>2, SearchStep, PTL DEF SearchSpec
==============================================================================
