---------------------------- MODULE OutboxProofs ----------------------------
(***************************************************************************)
(* Proofs about Outbox, for all sizes, caps and limits and any number of   *)
(* outages, failed deletes and restarts.  The first part shows the table   *)
(* to be a window of consecutive ids, the second that it implements        *)
(* FifoDelivery, the third what the sum of body lengths is and that the    *)
(* cap holds.                                                              *)
(***************************************************************************)
EXTENDS Outbox, FiniteSetTheorems, WellFoundedInduction, TLAPS

USE OutboxAssumption

-----------------------------------------------------------------------------
(* The inductive invariant.                                                *)

\* ids are given out one by one and rows leave only from the front
Window(d) ==
  /\ d \in 0..(nextId - 1)
  /\ Ids(outbox) = (d + 1)..(nextId - 1)

TableInv ==
  /\ IsFiniteSet(outbox)
  /\ \E d \in Nat : Window(d)
  /\ \A r, q \in outbox : r.id = q.id => r = q

\* a batch is the front of the table, and what is about to be deleted is sent
BatchInv ==
  /\ batch \subseteq outbox
  /\ \A r \in batch, q \in outbox : q.id < r.id => q \in batch
  /\ wpc = "delete" => \A r \in batch : Turn(r) => r.id \in received

ReceivedInv ==
  /\ received \subseteq 1..(nextId - 1)
  /\ StrictFifo
  /\ NothingLost

OutInv == TypeOK /\ TableInv /\ BatchInv /\ ReceivedInv

-----------------------------------------------------------------------------
(* Lemmas.                                                                 *)

LEMMA IdsIn == \A r \in outbox : r.id \in Ids(outbox)
BY DEF Ids

LEMMA RowOf == \A i \in Ids(outbox) : \E r \in outbox : r.id = i
BY DEF Ids

\* the row whose turn it is is the oldest of the table
LEMMA TurnIsOldest ==
  ASSUME OutInv, NEW r \in batch, Turn(r), NEW d \in Nat, Window(d)
  PROVE  /\ r.id = d + 1 /\ r.id \in Nat /\ d + 1 <= nextId - 1
         /\ nextId \in Nat
<1>1. r \in outbox /\ r \in Rows /\ nextId \in Nat
  BY DEF OutInv, BatchInv, TypeOK
<1>2. r.id \in (d + 1)..(nextId - 1)
  BY <1>1, IdsIn DEF Window
<1>3. r.id \in Nat /\ d + 1 \in Ids(outbox)
  BY <1>1, <1>2 DEF Rows, Window
<1>4. PICK q \in outbox : q.id = d + 1
  BY <1>3, RowOf
<1>5. CASE q.id < r.id
  <2>1. q \in batch
    BY <1>1, <1>4, <1>5 DEF OutInv, BatchInv
  <2> QED BY <1>2, <1>3, <1>4, <1>5, <2>1 DEF Turn
<1>6. CASE ~(q.id < r.id)
  BY <1>1, <1>2, <1>3, <1>4, <1>6
<1> QED BY <1>5, <1>6

\* what SELECT ... ORDER BY id LIMIT reads is the front of the table
LEMMA SelectedIsFront ==
  ASSUME OutInv, NEW r \in Selected, NEW q \in outbox, q.id < r.id
  PROVE  q \in Selected
<1> DEFINE Below(x) == {y \in outbox : y.id < x.id}
<1>1. r \in outbox /\ r.id \in Nat /\ q.id \in Nat
  BY DEF Selected, OutInv, TypeOK, Rows
<1>2. Below(q) \in SUBSET Below(r)
  <2> SUFFICES ASSUME NEW y \in outbox, y.id < q.id PROVE y.id < r.id
    OBVIOUS
  <2> QED BY <1>1 DEF OutInv, TypeOK, Rows
<1>3. IsFiniteSet(Below(r)) /\ IsFiniteSet(Below(q))
  BY FS_Subset DEF OutInv, TableInv
<1>4. Cardinality(Below(q)) <= Cardinality(Below(r))
  <2> HIDE DEF Below
  <2> QED BY <1>2, <1>3, FS_Subset
<1>5. Cardinality(Below(r)) < DrainLimit
  BY DEF Selected
<1>6. Cardinality(Below(q)) \in Nat /\ Cardinality(Below(r)) \in Nat
  <2> HIDE DEF Below
  <2> QED BY <1>3, FS_CardinalityType
<1>7. Cardinality(Below(q)) < DrainLimit
  <2> HIDE DEF Below
  <2> QED BY <1>4, <1>5, <1>6
<1> QED BY <1>7 DEF Selected

\* a nonempty or empty interval with a given upper end has one lower end
LEMMA OneLowerEnd ==
  ASSUME NEW m \in Int, NEW d \in 0..m, NEW e \in 0..m,
         (d + 1)..m = (e + 1)..m
  PROVE  d = e
<1>1. CASE d < e
  <2>1. d + 1 \in (d + 1)..m
    BY <1>1
  <2> QED BY <2>1, <1>1
<1>2. CASE e < d
  <2>1. e + 1 \in (e + 1)..m
    BY <1>2
  <2> QED BY <2>1, <1>2
<1> QED BY <1>1, <1>2

\* the refinement mapping is the lower end of the window
LEMMA GoneIsWindow ==
  ASSUME NEW d \in Nat, Window(d), nextId \in Nat
  PROVE  Gone = d
<1>1. ASSUME NEW e \in 0..(nextId - 1), Ids(outbox) = (e + 1)..(nextId - 1)
      PROVE  e = d
  BY <1>1, OneLowerEnd DEF Window
<1> QED BY <1>1 DEF Gone, Window

-----------------------------------------------------------------------------
(* Insertion.                                                              *)

\* an insert removes a front of the table, up to some e, and appends a row
LEMMA EnqueueWindow ==
  ASSUME OutInv, NEW n \in Sizes, NEW b \in Rejectable, EnqueueWithMarks(n, b),
         NEW d \in Nat, Window(d)
  PROVE  \E e \in d..(nextId - 1) :
           /\ Window(e)'
           /\ outbox' = {r \in outbox : r.id > e}
                          \cup {[id |-> nextId, len |-> n, bad |-> b]}
           /\ evicted' = evicted \cup (d + 1)..e
<1>1. PICK run \in evictOldest(n) :
        /\ outbox' = (outbox \ run) \cup {[id |-> nextId, len |-> n, bad |-> b]}
        /\ evicted' = evicted \cup Ids(run)
  BY DEF EnqueueWithMarks
<1>2. /\ nextId \in Nat \ {0} /\ outbox \subseteq Rows
      /\ nextId' = nextId + 1
  BY DEF OutInv, TypeOK, EnqueueWithMarks
<1>3. \A r \in outbox : r.id \in (d + 1)..(nextId - 1) /\ r.id \in Nat
  BY <1>2, IdsIn DEF Window, Rows
<1>4. \E e \in d..(nextId - 1) : run = {r \in outbox : r.id <= e}
  <2>1. CASE run = {}
    <3>1. \A r \in outbox : ~(r.id <= d)
      BY <1>3
    <3>2. d \in d..(nextId - 1)
      BY <1>2 DEF Window
    <3> QED BY <2>1, <3>1, <3>2
  <2>2. CASE run # {}
    <3>1. PICK i \in Ids(outbox) : run = Upto(i)
      BY <2>2, <1>1 DEF evictOldest
    <3>2. i \in d..(nextId - 1)
      BY <3>1, <1>2 DEF Window
    <3> QED BY <3>1, <3>2 DEF Upto
  <2> QED BY <2>1, <2>2
<1>5. PICK e \in d..(nextId - 1) : run = {r \in outbox : r.id <= e}
  BY <1>4
<1>6. outbox \ run = {r \in outbox : r.id > e}
  BY <1>3, <1>5, <1>2
<1>7. Ids(run) = (d + 1)..e
  <2>1. ASSUME NEW i \in Ids(run) PROVE i \in (d + 1)..e
    BY <2>1, <1>3, <1>5, <1>2 DEF Ids
  <2>2. ASSUME NEW i \in (d + 1)..e PROVE i \in Ids(run)
    <3>1. i \in Ids(outbox)
      BY <1>2, <1>5 DEF Window
    <3>2. PICK r \in outbox : r.id = i
      BY <3>1, RowOf
    <3> QED BY <3>2, <1>5, <2>2, <1>2 DEF Ids
  <2> QED BY <2>1, <2>2
<1>8. Ids(outbox') = (e + 1)..(nextId' - 1)
  <2>1. ASSUME NEW i \in Ids(outbox') PROVE i \in (e + 1)..nextId
    <3>1. PICK r \in outbox' : i = r.id
      BY DEF Ids
    <3>2. CASE r \in outbox /\ r.id > e
      BY <3>1, <3>2, <1>3, <1>5, <1>2
    <3>3. CASE r = [id |-> nextId, len |-> n, bad |-> b]
      BY <3>1, <3>3, <1>5, <1>2
    <3> QED BY <3>1, <3>2, <3>3, <1>1, <1>6
  <2>2. ASSUME NEW i \in (e + 1)..nextId PROVE i \in Ids(outbox')
    <3>1. CASE i = nextId
      <4> DEFINE new == [id |-> nextId, len |-> n, bad |-> b]
      <4>1. new \in outbox' /\ new.id = i
        BY <3>1, <1>1
      <4> HIDE DEF new
      <4> QED BY <4>1 DEF Ids
    <3>2. CASE i # nextId
      <4>1. i \in (d + 1)..(nextId - 1)
        BY <2>2, <3>2, <1>2, <1>5
      <4>2. PICK r \in outbox : r.id = i
        BY <4>1, RowOf DEF Window
      <4>3. r \in outbox'
        BY <4>2, <1>1, <1>6, <2>2, <1>2, <1>5
      <4> QED BY <4>2, <4>3 DEF Ids
    <3> QED BY <3>1, <3>2
  <2>3. nextId' - 1 = nextId
    BY <1>2
  <2> QED BY <2>1, <2>2, <2>3
<1>9. Window(e)'
  BY <1>8, <1>5, <1>2 DEF Window
<1> QED BY <1>1, <1>5, <1>6, <1>7, <1>9

LEMMA EnqueueInv ==
  ASSUME OutInv, NEW n \in Sizes, NEW b \in Rejectable, EnqueueWithMarks(n, b)
  PROVE  OutInv'
<1> DEFINE new == [id |-> nextId, len |-> n, bad |-> b]
<1>1. PICK d \in Nat : Window(d)
  BY DEF OutInv, TableInv
<1>2. PICK e \in d..(nextId - 1) :
        /\ Window(e)'
        /\ outbox' = {r \in outbox : r.id > e} \cup {new}
        /\ evicted' = evicted \cup (d + 1)..e
  BY <1>1, EnqueueWindow
<1>3. /\ nextId \in Nat \ {0} /\ outbox \subseteq Rows /\ evicted \subseteq Nat
      /\ nextId' = nextId + 1 /\ received' = received /\ batch = {}
      /\ batch' = batch /\ wpc = "idle" /\ wpc' = wpc /\ attempt' = attempt
      /\ e \in Nat
  BY <1>1, <1>2 DEF OutInv, TypeOK, EnqueueWithMarks, drain
<1>4. new \in Rows /\ new.id = nextId
  BY <1>3 DEF Rows
<1>5. \A r \in outbox : r.id \in Nat /\ r.id < nextId
  BY <1>1, <1>3, IdsIn DEF Window, Rows
<1> HIDE DEF new
<1>6. TypeOK'
  <2>1. outbox' \subseteq Rows
    BY <1>2, <1>3, <1>4
  <2>2. evicted' \subseteq Nat
    BY <1>2, <1>3, <1>1
  <2>3. UNCHANGED bounds
    BY DEF EnqueueWithMarks
  <2> QED BY <1>3, <2>1, <2>2, <2>3 DEF OutInv, TypeOK, bounds
<1>7. TableInv'
  <2>1. IsFiniteSet(outbox')
    <3>1. {r \in outbox : r.id > e} \in SUBSET outbox
      OBVIOUS
    <3>2. IsFiniteSet({r \in outbox : r.id > e})
      BY <3>1, FS_Subset DEF OutInv, TableInv
    <3> QED BY <3>2, <1>2, FS_AddElement
  <2>2. \A r, q \in outbox' : r.id = q.id => r = q
    <3> SUFFICES ASSUME NEW r \in outbox', NEW q \in outbox', r.id = q.id
                 PROVE  r = q
      OBVIOUS
    <3>1. r \in outbox \/ r = new
      BY <1>2
    <3>2. q \in outbox \/ q = new
      BY <1>2
    <3> QED BY <3>1, <3>2, <1>4, <1>5, <1>3 DEF OutInv, TableInv
  <2> QED BY <2>1, <2>2, <1>2, <1>3 DEF TableInv
<1>8. BatchInv'
  BY <1>3 DEF BatchInv, Turn
<1>9. ReceivedInv'
  <2>1. received' \subseteq 1..(nextId' - 1)
    BY <1>3 DEF OutInv, ReceivedInv
  <2>2. StrictFifo'
    <3> SUFFICES ASSUME NEW i \in received, NEW r \in outbox' PROVE i <= r.id
      BY <1>3 DEF StrictFifo
    <3>1. CASE r \in outbox
      BY <3>1 DEF OutInv, ReceivedInv, StrictFifo
    <3>2. CASE r = new
      BY <3>2, <1>3, <1>4 DEF OutInv, ReceivedInv
    <3> QED BY <3>1, <3>2, <1>2
  <2>3. NothingLost'
    <3> SUFFICES ASSUME NEW i \in 1..(nextId' - 1)
                 PROVE  i \in Ids(outbox') \cup received' \cup evicted'
      BY DEF NothingLost
    <3>1. CASE i = nextId
      <4>1. new \in outbox' /\ new.id = i
        BY <3>1, <1>2, <1>4
      <4> QED BY <4>1 DEF Ids
    <3>2. CASE i # nextId
      <4>1. i \in Ids(outbox) \cup received \cup evicted
        BY <3>2, <1>3 DEF OutInv, ReceivedInv, NothingLost
      <4>2. CASE i \in Ids(outbox)
        <5>1. PICK r \in outbox : r.id = i
          BY <4>2, RowOf
        <5>2. CASE r.id > e
          BY <5>1, <5>2, <1>2 DEF Ids
        <5>3. CASE ~(r.id > e)
          BY <5>1, <5>3, <1>1, <1>2, <1>3, <1>5, <4>2 DEF Window
        <5> QED BY <5>2, <5>3
      <4> QED BY <4>1, <4>2, <1>2, <1>3
    <3> QED BY <3>1, <3>2
  <2> QED BY <2>1, <2>2, <2>3 DEF ReceivedInv
<1> QED BY <1>6, <1>7, <1>8, <1>9 DEF OutInv

-----------------------------------------------------------------------------
(* Draining.                                                               *)

\* steps that leave the table and the cloud alone
LEMMA SameTable ==
  ASSUME OutInv, UNCHANGED <<store, received>>
  PROVE  TableInv' /\ ReceivedInv'
BY DEF OutInv, TableInv, ReceivedInv, StrictFifo, NothingLost, Window, Ids,
       store

\* an empty batch needs nothing
LEMMA StopBatch == ASSUME Stop PROVE BatchInv'
BY DEF Stop, BatchInv

LEMMA StopType ==
  ASSUME OutInv, Stop, UNCHANGED store, received' \subseteq Nat,
         outages' \in 0..MaxOutages, faults' \in 0..MaxFaults,
         crashes' \in 0..MaxCrashes
  PROVE  TypeOK'
BY DEF OutInv, TypeOK, Stop, store

LEMMA DrainInv == ASSUME OutInv, Drain PROVE OutInv'
<1>1. TypeOK'
  <2>1. Selected \subseteq Rows /\ batch' = Selected /\ attempt' = 0
    BY DEF OutInv, TypeOK, Drain, Selected
  <2>2. wpc' = IF Selected = {} THEN "idle" ELSE "send"
    BY DEF Drain
  <2>3. UNCHANGED <<outbox, nextId, evicted, received, outages, faults, crashes>>
    BY DEF Drain, store, bounds
  <2>4. wpc' \in {"idle", "send", "delete"} /\ ((wpc' = "idle") <=> (batch' = {}))
    BY <2>1, <2>2
  <2> QED BY <2>1, <2>3, <2>4 DEF OutInv, TypeOK
<1>2. TableInv' /\ ReceivedInv'
  BY SameTable DEF Drain
<1>3. BatchInv'
  <2>1. /\ batch' = Selected /\ outbox' = outbox /\ Selected \subseteq outbox
        /\ wpc' # "delete"
    BY DEF Drain, store, Selected
  <2> QED BY <2>1, SelectedIsFront DEF BatchInv
<1> QED BY <1>1, <1>2, <1>3 DEF OutInv

\* the cloud stores the oldest row of the table
LEMMA ReceiveInv ==
  ASSUME OutInv, NEW r \in batch, Turn(r), received' = received \cup {r.id},
         UNCHANGED store
  PROVE  ReceivedInv' /\ TableInv' /\ received' \subseteq Nat
<1>1. PICK d \in Nat : Window(d)
  BY DEF OutInv, TableInv
<1>2. r.id = d + 1 /\ r.id \in Nat /\ d + 1 <= nextId - 1 /\ nextId \in Nat
  BY <1>1, TurnIsOldest
<1>3. \A q \in outbox : r.id <= q.id
  BY <1>1, <1>2, IdsIn DEF Window
<1>4. StrictFifo'
  BY <1>3 DEF StrictFifo, OutInv, ReceivedInv, store
<1>5. NothingLost'
  BY DEF NothingLost, OutInv, ReceivedInv, store, Ids
<1>6. received' \subseteq 1..(nextId' - 1)
  BY <1>2 DEF OutInv, ReceivedInv, store
<1>7. TableInv'
  BY DEF OutInv, TableInv, Window, Ids, store
<1> QED BY <1>4, <1>5, <1>6, <1>7, <1>2 DEF ReceivedInv, OutInv, TypeOK

LEMMA AcceptedInv ==
  ASSUME OutInv, NEW r \in batch, SendAccepted(r) PROVE OutInv'
<1>1. Turn(r) /\ received' = received \cup {r.id} /\ UNCHANGED store
  BY DEF SendAccepted
<1>2. ReceivedInv' /\ TableInv' /\ received' \subseteq Nat
  BY <1>1, ReceiveInv
<1>3. /\ wpc = "send" /\ wpc' = "delete" /\ batch' = batch /\ attempt' = attempt
      /\ UNCHANGED <<outbox, nextId, evicted, outages, faults, crashes>>
  BY DEF SendAccepted, store, bounds
<1>4. TypeOK'
  <2>1. batch # {}
    OBVIOUS
  <2> QED BY <1>2, <1>3, <2>1 DEF OutInv, TypeOK
<1>5. BatchInv'
  <2>1. ASSUME NEW q \in batch, Turn(q) PROVE q.id \in received'
    <3>1. q.id \in Nat /\ r.id \in Nat
      BY DEF OutInv, TypeOK, Rows
    <3> QED BY <1>1, <2>1, <3>1 DEF Turn
  <2> QED BY <1>3, <2>1 DEF OutInv, BatchInv, Turn
<1> QED BY <1>2, <1>4, <1>5 DEF OutInv

LEMMA RejectedInv ==
  ASSUME OutInv, NEW r \in batch, SendRejected(r) PROVE OutInv'
<1>1. Stop /\ UNCHANGED store /\ received' = received
  BY DEF SendRejected, DrainPaused
<1>2. TypeOK'
  BY <1>1, StopType DEF SendRejected, bounds, OutInv, TypeOK
<1>3. TableInv' /\ ReceivedInv'
  BY <1>1, SameTable
<1> QED BY <1>1, <1>2, <1>3, StopBatch DEF OutInv

LEMMA FailedInv ==
  ASSUME OutInv, NEW r \in batch, SendFailed(r) PROVE OutInv'
<1>1. Turn(r) /\ UNCHANGED store /\ wpc = "send"
  BY DEF SendFailed
<1>2. ReceivedInv' /\ TableInv' /\ received' \subseteq Nat
  <2>1. CASE received' = received
    BY <2>1, <1>1, SameTable DEF OutInv, TypeOK
  <2>2. CASE received' = received \cup {r.id}
    BY <2>2, <1>1, ReceiveInv
  <2> QED BY <2>1, <2>2 DEF SendFailed
<1>3. /\ outages' \in 0..MaxOutages /\ faults' \in 0..MaxFaults
      /\ crashes' \in 0..MaxCrashes
  BY DEF SendFailed, OutInv, TypeOK
<1>4. CASE LastAttempt
  <2>1. Stop
    BY <1>4 DEF SendFailed, DrainPaused
  <2> QED BY <1>1, <1>2, <1>3, <2>1, StopType, StopBatch DEF OutInv
<1>5. CASE ~LastAttempt
  <2>1. attempt' = attempt + 1 /\ wpc' = wpc /\ batch' = batch
    BY <1>5 DEF SendFailed
  <2>2. attempt' \in 0..(Attempts - 1)
    BY <2>1, <1>5 DEF LastAttempt, OutInv, TypeOK
  <2>3. TypeOK'
    BY <1>1, <1>2, <1>3, <2>1, <2>2 DEF OutInv, TypeOK, store
  <2>4. BatchInv'
    BY <1>1, <2>1 DEF OutInv, BatchInv, store
  <2> QED BY <1>2, <2>3, <2>4 DEF OutInv
<1> QED BY <1>4, <1>5

\* a deleted row is the oldest of the table and the cloud has it
LEMMA DeleteWindow ==
  ASSUME OutInv, NEW r \in batch, DeleteSent(r), NEW d \in Nat, Window(d)
  PROVE  /\ r.id = d + 1 /\ d + 1 \in received /\ d + 1 <= nextId - 1
         /\ nextId \in Nat
         /\ Window(d + 1)'
         /\ outbox' = {q \in outbox : q.id # d + 1}
<1>1. Turn(r)
  BY DEF DeleteSent
<1>2. r.id = d + 1 /\ r.id \in Nat /\ d + 1 <= nextId - 1 /\ nextId \in Nat
  BY <1>1, TurnIsOldest
<1>3. d + 1 \in received
  BY <1>1, <1>2 DEF DeleteSent, OutInv, BatchInv
<1>4. outbox' = {q \in outbox : q.id # d + 1} /\ nextId' = nextId
  BY <1>2 DEF DeleteSent, DeleteRow
<1>5. Ids(outbox') = (d + 2)..(nextId - 1)
  <2>1. ASSUME NEW i \in Ids(outbox') PROVE i \in (d + 2)..(nextId - 1)
    <3>1. PICK q \in outbox : q.id = i /\ q.id # d + 1
      BY <2>1, <1>4 DEF Ids
    <3>2. q.id \in (d + 1)..(nextId - 1)
      BY IdsIn DEF Window
    <3> QED BY <3>1, <3>2, <1>2
  <2>2. ASSUME NEW i \in (d + 2)..(nextId - 1) PROVE i \in Ids(outbox')
    <3>1. i \in Ids(outbox)
      BY <2>2, <1>2 DEF Window
    <3>2. PICK q \in outbox : q.id = i
      BY <3>1, RowOf
    <3>3. q \in outbox'
      BY <3>2, <1>4, <2>2, <1>2
    <3> QED BY <3>2, <3>3 DEF Ids
  <2> QED BY <2>1, <2>2
<1>6. Window(d + 1)'
  <2>1. d + 1 + 1 = d + 2 /\ d + 1 \in 0..(nextId - 1)
    BY <1>2
  <2> QED BY <1>4, <1>5, <2>1 DEF Window
<1> QED BY <1>2, <1>3, <1>4, <1>6

LEMMA DeleteSentInv ==
  ASSUME OutInv, NEW r \in batch, DeleteSent(r) PROVE OutInv'
<1>1. PICK d \in Nat : Window(d)
  BY DEF OutInv, TableInv
<1>2. /\ r.id = d + 1 /\ d + 1 \in received /\ d + 1 <= nextId - 1
      /\ nextId \in Nat /\ Window(d + 1)'
      /\ outbox' = {q \in outbox : q.id # d + 1}
  BY <1>1, DeleteWindow
<1>3. /\ NextRow(r) /\ Turn(r) /\ wpc = "delete"
      /\ UNCHANGED <<nextId, evicted, received, outages, faults, crashes>>
  BY DEF DeleteSent, bounds
<1>4. TypeOK'
  <2>1. outbox' \subseteq Rows
    BY <1>2 DEF OutInv, TypeOK
  <2>2. /\ batch' \subseteq Rows /\ attempt' \in 0..(Attempts - 1)
        /\ wpc' \in {"idle", "send", "delete"}
        /\ (wpc' = "idle") <=> (batch' = {})
    <3>1. CASE batch = {r}
      BY <1>3, <3>1 DEF NextRow, Stop
    <3>2. CASE batch # {r}
      <4>1. batch \ {r} # {}
        BY <3>2
      <4> QED BY <1>3, <3>2, <4>1 DEF NextRow, OutInv, TypeOK
    <3> QED BY <3>1, <3>2
  <2> QED BY <1>3, <2>1, <2>2 DEF OutInv, TypeOK
<1>5. TableInv'
  <2>1. outbox' \in SUBSET outbox
    BY <1>2
  <2>2. IsFiniteSet(outbox')
    BY <2>1, FS_Subset DEF OutInv, TableInv
  <2> QED BY <2>1, <2>2, <1>2 DEF OutInv, TableInv
<1>6. BatchInv'
  <2>1. CASE batch = {r}
    BY <1>3, <2>1, StopBatch DEF NextRow
  <2>2. CASE batch # {r}
    <3>1. batch' = batch \ {r} /\ wpc' = "send"
      BY <1>3, <2>2 DEF NextRow
    <3>2. r \notin outbox'
      BY <1>2
    <3>3. \A q \in batch \ {r} : q.id # d + 1
      BY <1>2 DEF OutInv, BatchInv, TableInv
    <3> QED BY <1>2, <3>1, <3>2, <3>3 DEF OutInv, BatchInv
  <2> QED BY <2>1, <2>2
<1>7. ReceivedInv'
  <2>1. received' \subseteq 1..(nextId' - 1) /\ StrictFifo'
    BY <1>2, <1>3 DEF OutInv, ReceivedInv, StrictFifo
  <2>2. NothingLost'
    <3> SUFFICES ASSUME NEW i \in 1..(nextId - 1),
                        i \notin received, i \notin evicted
                 PROVE  i \in Ids(outbox')
      BY <1>3 DEF NothingLost
    <3>1. i \in Ids(outbox)
      BY DEF OutInv, ReceivedInv, NothingLost
    <3>2. PICK q \in outbox : q.id = i
      BY <3>1, RowOf
    <3> QED BY <3>2, <1>2 DEF Ids
  <2> QED BY <2>1, <2>2 DEF ReceivedInv
<1> QED BY <1>4, <1>5, <1>6, <1>7 DEF OutInv

-----------------------------------------------------------------------------
(* The invariant holds.                                                    *)

LEMMA OutInit == Init => OutInv
<1> SUFFICES ASSUME Init PROVE OutInv
  OBVIOUS
<1>1. TypeOK
  BY DEF Init, TypeOK
<1>2. TableInv
  <2>1. Ids(outbox) = {}
    BY DEF Init, Ids
  <2>2. Window(0)
    BY <2>1 DEF Init, Window
  <2> QED BY <2>2, FS_EmptySet DEF Init, TableInv
<1>3. BatchInv /\ ReceivedInv
  BY DEF Init, BatchInv, ReceivedInv, StrictFifo, NothingLost
<1> QED BY <1>1, <1>2, <1>3 DEF OutInv

LEMMA OutStep == OutInv /\ [Next]_vars => OutInv'
<1> SUFFICES ASSUME OutInv, [Next]_vars PROVE OutInv'
  OBVIOUS
<1>1. CASE UNCHANGED vars
  <2>1. UNCHANGED <<outbox, nextId, evicted, received, wpc, batch, attempt,
                    outages, faults, crashes>>
    BY <1>1 DEF vars, store, drain, bounds
  <2>2. TypeOK' /\ BatchInv'
    BY <2>1 DEF OutInv, TypeOK, BatchInv, Turn
  <2>3. TableInv' /\ ReceivedInv'
    BY <2>1, SameTable DEF store
  <2> QED BY <2>2, <2>3 DEF OutInv
<1>2. ASSUME NEW n \in Sizes, NEW b \in Rejectable, EnqueueWithMarks(n, b)
      PROVE  OutInv'
  BY <1>2, EnqueueInv
<1>3. CASE Drain
  BY <1>3, DrainInv
<1>4. ASSUME NEW r \in batch, SendAccepted(r) PROVE OutInv'
  BY <1>4, AcceptedInv
<1>5. ASSUME NEW r \in batch, SendRejected(r) PROVE OutInv'
  BY <1>5, RejectedInv
<1>6. ASSUME NEW r \in batch, SendFailed(r) PROVE OutInv'
  BY <1>6, FailedInv
<1>7. ASSUME NEW r \in batch, DeleteSent(r) PROVE OutInv'
  BY <1>7, DeleteSentInv
<1>8. CASE DeleteFailed \/ Crash
  <2>1. Stop /\ UNCHANGED store /\ received' = received
    BY <1>8 DEF DeleteFailed, Crash
  <2>2. /\ outages' \in 0..MaxOutages /\ faults' \in 0..MaxFaults
        /\ crashes' \in 0..MaxCrashes
    BY <1>8 DEF DeleteFailed, Crash, OutInv, TypeOK
  <2>3. TypeOK'
    BY <2>1, <2>2, StopType DEF OutInv, TypeOK
  <2> QED BY <2>1, <2>3, StopBatch, SameTable DEF OutInv
<1> QED BY <1>1, <1>2, <1>3, <1>4, <1>5, <1>6, <1>7, <1>8
        DEF Next, flushOutbox

LEMMA OutInvHolds == Spec => []OutInv
BY OutInit, OutStep, PTL DEF Spec

\* No body is lost: at every point each enqueued body is in the outbox table,
\* stored by the cloud or evicted by the cap, whatever sends, deletes and
\* restarts did before.
THEOREM OutboxLosesNothing == Spec => []NothingLost
<1>1. OutInv => NothingLost
  BY DEF OutInv, ReceivedInv
<1> QED BY <1>1, OutInvHolds, PTL

\* Retries, lost answers and restarts never let the cloud see a body before an
\* older one that still waits in the outbox.
THEOREM OutboxIsFifo == Spec => []StrictFifo
<1>1. OutInv => StrictFifo
  BY DEF OutInv, ReceivedInv
<1> QED BY <1>1, OutInvHolds, PTL

-----------------------------------------------------------------------------
(* Refinement.                                                             *)

LEMMA AbstractInit == Init => Abstract!Init
<1> SUFFICES ASSUME Init PROVE Abstract!Init
  OBVIOUS
<1>1. Window(0)
  BY DEF Init, Window, Ids
<1>2. Gone = 0
  BY <1>1, GoneIsWindow DEF Init
<1> QED BY <1>2 DEF Init, Abstract!Init

LEMMA AbstractStep ==
  OutInv /\ OutInv' /\ [Next]_vars => [Abstract!Next]_Abstract!vars
<1> SUFFICES ASSUME OutInv, OutInv', [Next]_vars
             PROVE  Abstract!Next \/ UNCHANGED Abstract!vars
  OBVIOUS
<1>1. PICK d \in Nat : Window(d)
  BY DEF OutInv, TableInv
<1>2. nextId \in Nat /\ nextId' \in Nat /\ d \in 0..(nextId - 1)
  BY <1>1 DEF OutInv, TypeOK, Window
<1>3. Gone = d
  BY <1>1, <1>2, GoneIsWindow
<1>4. ASSUME NEW e \in Nat, Window(e)' PROVE Gone' = e
  <2>1. \A k \in 0..(nextId' - 1) :
          Ids(outbox)' = (k + 1)..(nextId' - 1) => k = e
    <3> SUFFICES ASSUME NEW k \in 0..(nextId' - 1),
                        Ids(outbox)' = (k + 1)..(nextId' - 1)
                 PROVE  k = e
      OBVIOUS
    <3>1. e \in 0..(nextId' - 1) /\ Ids(outbox)' = (e + 1)..(nextId' - 1)
      BY <1>4 DEF Window
    <3>2. (k + 1)..(nextId' - 1) = (e + 1)..(nextId' - 1) /\ nextId' - 1 \in Int
      BY <3>1, <1>2
    <3> QED BY <3>1, <3>2, OneLowerEnd
  <2> QED BY <2>1, <1>4 DEF Gone, Window
<1>5. ASSUME UNCHANGED store PROVE Gone' = Gone /\ nextId' = nextId
  BY <1>5 DEF Gone, Ids, store
<1>6. ASSUME UNCHANGED <<store, received>> PROVE UNCHANGED Abstract!vars
  BY <1>5, <1>6 DEF Abstract!vars
<1>7. ASSUME NEW n \in Sizes, NEW b \in Rejectable, EnqueueWithMarks(n, b)
      PROVE  Abstract!Next
  <2>1. PICK e \in d..(nextId - 1) : Window(e)'
    BY <1>1, <1>7, EnqueueWindow
  <2>2. Gone' = e
    BY <1>2, <1>4, <2>1
  <2>3. nextId' = nextId + 1 /\ received' = received
    BY <1>7 DEF EnqueueWithMarks
  <2> QED BY <1>2, <1>3, <2>1, <2>2, <2>3 DEF Abstract!Next, Abstract!Admit
<1>8. ASSUME NEW r \in batch, Turn(r), received' = received \cup {r.id},
             UNCHANGED store
      PROVE  Abstract!Next
  <2>1. r.id = d + 1 /\ d + 1 <= nextId - 1
    BY <1>1, <1>8, TurnIsOldest
  <2> QED BY <1>2, <1>3, <1>5, <1>8, <2>1 DEF Abstract!Next, Abstract!Deliver
<1>9. ASSUME NEW r \in batch, DeleteSent(r) PROVE Abstract!Next
  <2>1. d + 1 \in received /\ d + 1 <= nextId - 1 /\ Window(d + 1)'
    BY <1>1, <1>9, DeleteWindow
  <2>2. Gone' = d + 1
    BY <1>2, <1>4, <2>1
  <2>3. nextId' = nextId /\ received' = received
    BY <1>9 DEF DeleteSent
  <2> QED BY <1>2, <1>3, <2>1, <2>2, <2>3 DEF Abstract!Next, Abstract!Settle
<1>10. CASE Drain \/ DeleteFailed \/ Crash \/ UNCHANGED vars
  BY <1>6, <1>10 DEF Drain, DeleteFailed, Crash, vars
<1>11. ASSUME NEW r \in batch, SendRejected(r) PROVE UNCHANGED Abstract!vars
  BY <1>6, <1>11 DEF SendRejected
<1>12. ASSUME NEW r \in batch, SendAccepted(r) PROVE Abstract!Next
  BY <1>8, <1>12 DEF SendAccepted
<1>13. ASSUME NEW r \in batch, SendFailed(r)
       PROVE  Abstract!Next \/ UNCHANGED Abstract!vars
  BY <1>6, <1>8, <1>13 DEF SendFailed
<1> QED BY <1>7, <1>9, <1>10, <1>11, <1>12, <1>13 DEF Next, flushOutbox

\* Every variable of the outbox keeps its type: a send makes no more attempts
\* than it may, and the worker is idle exactly when it holds no batch.
THEOREM OutboxTypeCorrect == Spec => []TypeOK
<1>1. OutInv => TypeOK
  BY DEF OutInv
<1> QED BY <1>1, OutInvHolds, PTL

\* The outbox, its worker and its HTTP client implement FifoDelivery: strictly
\* in order, at least once, dropped only from the front to admit a new body.
THEOREM OutboxRefinesFifo == Spec => DeliversInOrder
BY AbstractInit, AbstractStep, OutInvHolds, PTL
   DEF Spec, DeliversInOrder, Abstract!Spec

-----------------------------------------------------------------------------
(* Sums of body lengths.  Payload is a fold, so each fact about it for all *)
(* sets of rows is shown on a smallest set for which it would fail.        *)

\* the one induction principle used: < is well-founded on Nat
LEMMA LeastElement ==
  ASSUME NEW T, T \subseteq Nat, T # {}
  PROVE  \E x \in T : \A y \in T : x <= y
<1>1. PICK x \in T : \A y \in T : ~ (<<y, x>> \in OpToRel(<, Nat))
  BY WFMin, NatLessThanWellFounded, Zenon
<1>2. \A y \in T : ~(y < x)
  BY <1>1 DEF OpToRel
<1> QED BY <1>2

\* a nonempty set of finite sets has one of least cardinality
LEMMA SmallestSet ==
  ASSUME NEW C, C # {}, \A s \in C : IsFiniteSet(s)
  PROVE  \E s \in C : \A t \in C : Cardinality(s) <= Cardinality(t)
<1> DEFINE T == {Cardinality(s) : s \in C}
<1>1. T \subseteq Nat /\ T # {}
  BY FS_CardinalityType
<1>2. PICK x \in T : \A y \in T : x <= y
  <2> HIDE DEF T
  <2> QED BY <1>1, LeastElement
<1> QED BY <1>2

LEMMA OneLess ==
  ASSUME NEW s, IsFiniteSet(s), NEW x \in s
  PROVE  /\ IsFiniteSet(s \ {x}) /\ Cardinality(s) \in Nat
         /\ Cardinality(s \ {x}) = Cardinality(s) - 1
         /\ Cardinality(s \ {x}) < Cardinality(s)
<1>1. Cardinality(s) \in Nat
  BY FS_CardinalityType
<1>2. IsFiniteSet(s \ {x}) /\ Cardinality(s \ {x}) = Cardinality(s) - 1
  BY FS_RemoveElement, Zenon
<1> QED BY <1>1, <1>2

\* the element the fold takes out next
Pick(s) == CHOOSE x \in s : TRUE

\* g is the fold over the sets of D
IsSum(g, D) ==
  g = [s \in D |-> IF s = {} THEN 0 ELSE Pick(s).len + g[s \ {Pick(s)}]]

SumOver(S) == CHOOSE g : IsSum(g, SUBSET S)

LEMMA PayloadIsSum ==
  ASSUME NEW S PROVE Payload(S) = SumOver(S)[S]
BY DEF Payload, SumOver, IsSum, Pick, MapThenSumSet, MapThenFoldSet

LEMMA PickIn == ASSUME NEW s, s # {} PROVE Pick(s) \in s
BY DEF Pick

\* a fold over the sets of up to n rows extends to those of n + 1
LEMMA SumExtends ==
  ASSUME NEW S, IsFiniteSet(S), NEW n \in Nat, NEW g,
         IsSum(g, {s \in SUBSET S : Cardinality(s) <= n})
  PROVE  \E h : IsSum(h, {s \in SUBSET S : Cardinality(s) <= n + 1})
<1> DEFINE D == {s \in SUBSET S : Cardinality(s) <= n}
           E == {s \in SUBSET S : Cardinality(s) <= n + 1}
           h == [s \in E |-> IF s = {} THEN 0 ELSE Pick(s).len + g[s \ {Pick(s)}]]
<1>1. ASSUME NEW s \in E, s # {}
      PROVE  s \ {Pick(s)} \in D /\ s \ {Pick(s)} \in E
  <2>1. IsFiniteSet(s) /\ Pick(s) \in s
    BY <1>1, FS_Subset, PickIn
  <2>2. /\ Cardinality(s \ {Pick(s)}) = Cardinality(s) - 1
        /\ Cardinality(s) \in Nat
    BY <2>1, OneLess
  <2> QED BY <2>1, <2>2, <1>1
<1>2. ASSUME NEW s \in D
      PROVE  g[s] = IF s = {} THEN 0 ELSE Pick(s).len + g[s \ {Pick(s)}]
  BY <1>2, Zenon DEF IsSum
<1>3. ASSUME NEW s \in E, s # {}
      PROVE  h[s \ {Pick(s)}] = g[s \ {Pick(s)}]
  <2> DEFINE t == s \ {Pick(s)}
  <2>1. t \in D /\ t \in E
    BY <1>1, <1>3
  <2> HIDE DEF t, D, E
  <2>2. h[t] = IF t = {} THEN 0 ELSE Pick(t).len + g[t \ {Pick(t)}]
    BY <2>1
  <2>3. h[t] = g[t]
    BY <1>2, <2>1, <2>2
  <2> QED BY <2>3 DEF t
<1>4. IsSum(h, E)
  <2> HIDE DEF E
  <2>1. ASSUME NEW s \in E
        PROVE  (IF s = {} THEN 0 ELSE Pick(s).len + g[s \ {Pick(s)}])
                 = (IF s = {} THEN 0 ELSE Pick(s).len + h[s \ {Pick(s)}])
    <3> HIDE DEF h
    <3> QED BY <1>3, <2>1
  <2>2. h = [s \in E |-> IF s = {} THEN 0 ELSE Pick(s).len + h[s \ {Pick(s)}]]
    BY <2>1, Zenon
  <2> HIDE DEF h
  <2> QED BY <2>2, Zenon DEF IsSum
<1> QED BY <1>4, Zenon

\* so the CHOOSE of the fold's definition has something to choose
LEMMA SumExists ==
  ASSUME NEW S, IsFiniteSet(S)
  PROVE  IsSum(SumOver(S), SUBSET S)
<1> DEFINE D(n) == {s \in SUBSET S : Cardinality(s) <= n}
           T == {n \in Nat : ~ \E g : IsSum(g, D(n))}
<1>1. \E g : IsSum(g, D(0))
  <2>1. \A s \in D(0) : s = {}
    BY FS_Subset, FS_EmptySet, FS_CardinalityType
  <2>2. DEFINE g == [s \in D(0) |-> 0]
  <2>3. g = [s \in D(0) |-> IF s = {} THEN 0 ELSE Pick(s).len + g[s \ {Pick(s)}]]
    <3> HIDE DEF D
    <3> QED BY <2>1, Zenon
  <2>4. IsSum(g, D(0))
    <3> HIDE DEF D, g
    <3> QED BY <2>3, Zenon DEF IsSum
  <2> QED BY <2>4, Zenon
<1>2. T = {}
  <2> SUFFICES ASSUME T # {} PROVE FALSE
    OBVIOUS
  <2>1. PICK n \in T : \A m \in T : n <= m
    <3>1. T \subseteq Nat
      OBVIOUS
    <3> HIDE DEF T
    <3> QED BY <3>1, LeastElement
  <2>2. n \in Nat /\ n # 0
    BY <1>1, <2>1
  <2>3. n - 1 \in Nat /\ ~(n <= n - 1) /\ (n - 1) + 1 = n
    BY <2>2
  <2>4. n - 1 \notin T
    <3> HIDE DEF T
    <3> QED BY <2>1, <2>3
  <2>5. PICK g : IsSum(g, D(n - 1))
    <3> HIDE DEF D
    <3> QED BY <2>3, <2>4
  <2>6. \E h : IsSum(h, D((n - 1) + 1))
    BY <2>3, <2>5, SumExtends
  <2> HIDE DEF D
  <2> QED BY <2>1, <2>3, <2>6
<1>3. Cardinality(S) \in Nat /\ D(Cardinality(S)) = SUBSET S
  BY FS_Subset, FS_CardinalityType
<1>4. \E g : IsSum(g, SUBSET S)
  <2>1. Cardinality(S) \notin T
    <3> HIDE DEF T
    <3> QED BY <1>2
  <2>2. \E g : IsSum(g, D(Cardinality(S)))
    <3> HIDE DEF D
    <3> QED BY <1>3, <2>1
  <2> QED BY <1>3, <2>2, Zenon
<1> QED BY <1>4, Zenon DEF SumOver

LEMMA SumAt ==
  ASSUME NEW S, NEW g, IsSum(g, SUBSET S), NEW s \in SUBSET S
  PROVE  g[s] = IF s = {} THEN 0 ELSE Pick(s).len + g[s \ {Pick(s)}]
BY Zenon DEF IsSum

\* the sum over a set does not depend on the set it was started from
LEMMA SumsAgree ==
  ASSUME NEW S, IsFiniteSet(S), NEW R \in SUBSET S
  PROVE  \A s \in SUBSET R : SumOver(S)[s] = SumOver(R)[s]
<1> DEFINE g == SumOver(S)
           h == SumOver(R)
<1>0. IsSum(g, SUBSET S) /\ IsSum(h, SUBSET R)
  BY SumExists, FS_Subset
<1> HIDE DEF g, h
<1> DEFINE C == {s \in SUBSET R : g[s] # h[s]}
<1> SUFFICES ASSUME C # {} PROVE FALSE
  BY DEF g, h
<1>1. \A s \in C : IsFiniteSet(s)
  BY FS_Subset
<1>2. PICK s \in C : \A t \in C : Cardinality(s) <= Cardinality(t)
  <2> HIDE DEF C
  <2> QED BY <1>1, SmallestSet
<1>3. s \in SUBSET R /\ s \in SUBSET S /\ g[s] # h[s] /\ IsFiniteSet(s)
  BY <1>1, <1>2
<1>4. /\ g[s] = IF s = {} THEN 0 ELSE Pick(s).len + g[s \ {Pick(s)}]
      /\ h[s] = IF s = {} THEN 0 ELSE Pick(s).len + h[s \ {Pick(s)}]
  <2>1. g[s] = IF s = {} THEN 0 ELSE Pick(s).len + g[s \ {Pick(s)}]
    BY <1>0, <1>3, Zenon DEF IsSum
  <2>2. h[s] = IF s = {} THEN 0 ELSE Pick(s).len + h[s \ {Pick(s)}]
    BY <1>0, <1>3, Zenon DEF IsSum
  <2> QED BY <2>1, <2>2
<1>5. s # {} /\ g[s \ {Pick(s)}] # h[s \ {Pick(s)}]
  BY <1>3, <1>4
<1>6. s \ {Pick(s)} \in C
  BY <1>3, <1>5
<1>7. /\ Cardinality(s \ {Pick(s)}) < Cardinality(s)
      /\ Cardinality(s) \in Nat /\ Cardinality(s \ {Pick(s)}) \in Nat
  BY <1>3, <1>5, PickIn, OneLess, FS_CardinalityType
<1> HIDE DEF C
<1> QED BY <1>2, <1>6, <1>7

LEMMA PayloadStep ==
  ASSUME NEW S, IsFiniteSet(S)
  PROVE  Payload(S) = IF S = {} THEN 0 ELSE Pick(S).len + Payload(S \ {Pick(S)})
<1> DEFINE R == S \ {Pick(S)}
<1>1. IsFiniteSet(R) /\ R \in SUBSET S
  BY FS_Subset
<1>2. IsSum(SumOver(S), SUBSET S) /\ IsSum(SumOver(R), SUBSET R)
  BY <1>1, SumExists
<1>3. SumOver(S)[R] = SumOver(R)[R]
  <2>1. R \in SUBSET R
    OBVIOUS
  <2> HIDE DEF R
  <2> QED BY <1>1, <2>1, SumsAgree
<1>4. SumOver(S)[S] = IF S = {} THEN 0 ELSE Pick(S).len + SumOver(S)[R]
  BY <1>2, SumAt
<1>5. Payload(S) = SumOver(S)[S] /\ Payload(R) = SumOver(R)[R]
  BY PayloadIsSum
<1> QED BY <1>3, <1>4, <1>5

LEMMA PayloadEmpty == Payload({}) = 0
BY PayloadStep, FS_EmptySet

LEMMA LenType == ASSUME NEW S \in SUBSET Rows, NEW r \in S PROVE r.len \in Nat
BY DEF Rows

LEMMA PayloadType ==
  ASSUME NEW S \in SUBSET Rows, IsFiniteSet(S)
  PROVE  Payload(S) \in Nat
<1> DEFINE C == {s \in SUBSET S : Payload(s) \notin Nat}
<1> SUFFICES ASSUME C # {} PROVE FALSE
  OBVIOUS
<1>1. \A s \in C : IsFiniteSet(s)
  BY FS_Subset
<1>2. PICK s \in C : \A t \in C : Cardinality(s) <= Cardinality(t)
  <2> HIDE DEF C
  <2> QED BY <1>1, SmallestSet
<1>3. s \in SUBSET S /\ s \in SUBSET Rows /\ Payload(s) \notin Nat /\ IsFiniteSet(s)
  BY <1>1, <1>2
<1>4. s # {}
  BY <1>3, PayloadEmpty
<1>5. Payload(s) = Pick(s).len + Payload(s \ {Pick(s)})
  BY <1>3, <1>4, PayloadStep
<1>6. Pick(s) \in s /\ Pick(s).len \in Nat
  BY <1>3, <1>4, PickIn, LenType
<1>7. s \ {Pick(s)} \in C
  BY <1>3, <1>5, <1>6
<1>8. /\ Cardinality(s \ {Pick(s)}) < Cardinality(s)
      /\ Cardinality(s) \in Nat /\ Cardinality(s \ {Pick(s)}) \in Nat
  BY <1>3, <1>6, OneLess, FS_CardinalityType
<1> HIDE DEF C
<1> QED BY <1>2, <1>7, <1>8

\* any row, not only the one the definition picks, may be taken out first
LEMMA PayloadRemove ==
  ASSUME NEW S \in SUBSET Rows, IsFiniteSet(S), NEW r \in S
  PROVE  Payload(S) = r.len + Payload(S \ {r})
<1> DEFINE Good(s) == \A x \in s : Payload(s) = x.len + Payload(s \ {x})
           C == {s \in SUBSET S : ~Good(s)}
<1> SUFFICES ASSUME C # {} PROVE FALSE
  OBVIOUS
<1>1. \A s \in C : IsFiniteSet(s)
  BY FS_Subset
<1>2. PICK s \in C : \A t \in C : Cardinality(s) <= Cardinality(t)
  <2> HIDE DEF C
  <2> QED BY <1>1, SmallestSet
<1>3. s \in SUBSET S /\ s \in SUBSET Rows /\ IsFiniteSet(s)
  BY <1>1, <1>2
<1>4. PICK x \in s : Payload(s) # x.len + Payload(s \ {x})
  BY <1>2
<1>5. PICK p \in s : Payload(s) = p.len + Payload(s \ {p})
  BY <1>3, <1>4, PayloadStep, PickIn
<1>6. ASSUME NEW y \in s PROVE Good(s \ {y})
  <2>1. /\ Cardinality(s \ {y}) < Cardinality(s)
        /\ Cardinality(s) \in Nat /\ Cardinality(s \ {y}) \in Nat
    BY <1>3, OneLess, FS_CardinalityType
  <2>2. s \ {y} \notin C
    <3> HIDE DEF C
    <3> QED BY <1>2, <2>1
  <2>3. s \ {y} \in SUBSET S
    BY <1>3
  <2> HIDE DEF Good
  <2> QED BY <2>2, <2>3
<1>7. x # p
  BY <1>4, <1>5
<1>8. /\ Payload(s \ {p}) = x.len + Payload((s \ {p}) \ {x})
      /\ Payload(s \ {x}) = p.len + Payload((s \ {x}) \ {p})
  BY <1>6, <1>7
<1>9. (s \ {p}) \ {x} = (s \ {x}) \ {p}
  OBVIOUS
<1>10. Payload((s \ {x}) \ {p}) \in Nat /\ x.len \in Nat /\ p.len \in Nat
  <2>1. IsFiniteSet((s \ {x}) \ {p}) /\ (s \ {x}) \ {p} \in SUBSET Rows
    BY <1>3, FS_Subset
  <2> QED BY <2>1, <1>3, PayloadType, LenType
<1> DEFINE a == Payload((s \ {x}) \ {p})
<1>11. Payload(s) = p.len + (x.len + a) /\ Payload(s \ {x}) = p.len + a
  BY <1>5, <1>8, <1>9
<1> HIDE DEF a
<1> QED BY <1>4, <1>10, <1>11 DEF a

LEMMA PayloadAdd ==
  ASSUME NEW S \in SUBSET Rows, IsFiniteSet(S), NEW r \in Rows, r \notin S
  PROVE  Payload(S \cup {r}) = r.len + Payload(S)
<1>1. S \cup {r} \in SUBSET Rows /\ IsFiniteSet(S \cup {r}) /\ r \in S \cup {r}
  BY FS_AddElement
<1>2. (S \cup {r}) \ {r} = S
  OBVIOUS
<1> QED BY <1>1, <1>2, PayloadRemove

\* what the rows of a part sum to leaves the rest when they are deleted
LEMMA PayloadSplit ==
  ASSUME NEW S \in SUBSET Rows, IsFiniteSet(S), NEW A \in SUBSET S
  PROVE  Payload(S) = Payload(A) + Payload(S \ A)
<1> DEFINE C == {s \in SUBSET S : Payload(S) # Payload(s) + Payload(S \ s)}
<1> SUFFICES ASSUME C # {} PROVE FALSE
  OBVIOUS
<1>1. \A s \in C : IsFiniteSet(s)
  BY FS_Subset
<1>2. PICK s \in C : \A t \in C : Cardinality(s) <= Cardinality(t)
  <2> HIDE DEF C
  <2> QED BY <1>1, SmallestSet
<1>3. /\ s \in SUBSET S /\ s \in SUBSET Rows /\ IsFiniteSet(s)
      /\ Payload(S) # Payload(s) + Payload(S \ s)
  BY <1>1, <1>2
<1>4. s # {}
  <2>1. S \ {} = S /\ Payload(S) \in Nat
    BY PayloadType
  <2> QED BY <1>3, <2>1, PayloadEmpty
<1>5. PICK x \in s : TRUE
  BY <1>4
<1> DEFINE t == s \ {x}
<1>6. t \notin C
  <2>1. /\ Cardinality(t) < Cardinality(s)
        /\ Cardinality(s) \in Nat /\ Cardinality(t) \in Nat
    BY <1>3, OneLess, FS_CardinalityType
  <2> HIDE DEF C, t
  <2> QED BY <1>2, <2>1
<1>7. Payload(S) = Payload(t) + Payload(S \ t)
  BY <1>3, <1>6
<1>8. Payload(s) = x.len + Payload(t)
  BY <1>3, PayloadRemove
<1>9. Payload(S \ t) = x.len + Payload(S \ s)
  <2>1. /\ S \ s \in SUBSET Rows /\ IsFiniteSet(S \ s)
        /\ x \in Rows /\ x \notin S \ s /\ S \ t = (S \ s) \cup {x}
    BY <1>3, FS_Subset
  <2> HIDE DEF t
  <2> QED BY <2>1, PayloadAdd
<1>10. Payload(t) \in Nat /\ Payload(S \ s) \in Nat /\ x.len \in Nat
  <2>1. /\ S \ s \in SUBSET Rows /\ IsFiniteSet(S \ s)
        /\ t \in SUBSET Rows /\ IsFiniteSet(t)
    BY <1>3, FS_Subset
  <2> HIDE DEF t
  <2> QED BY <1>3, <2>1, PayloadType, LenType
<1> HIDE DEF t, C
<1> QED BY <1>3, <1>7, <1>8, <1>9, <1>10

-----------------------------------------------------------------------------
(* The cap.                                                                *)

\* what was evicted is older than all that waits
EvictedInv ==
  /\ evicted \subseteq 1..(nextId - 1)
  /\ \A i \in evicted, r \in outbox : i < r.id

CapInv == EvictedInv /\ PayloadUnderCap

\* the run an insert evicts is part of the table, and the new row is not
LEMMA EnqueueRun ==
  ASSUME OutInv, NEW n \in Sizes, NEW b \in Rejectable, EnqueueWithMarks(n, b)
  PROVE  \E run \in evictOldest(n) :
           /\ outbox' = (outbox \ run) \cup {[id |-> nextId, len |-> n, bad |-> b]}
           /\ evicted' = evicted \cup Ids(run)
           /\ run \in SUBSET outbox
           /\ [id |-> nextId, len |-> n, bad |-> b] \in Rows \ outbox
           /\ n \in Nat /\ outbox \in SUBSET Rows /\ IsFiniteSet(outbox)
<1>1. PICK run \in evictOldest(n) :
        /\ outbox' = (outbox \ run) \cup {[id |-> nextId, len |-> n, bad |-> b]}
        /\ evicted' = evicted \cup Ids(run)
  BY DEF EnqueueWithMarks
<1>2. run \in SUBSET outbox
  BY <1>1 DEF evictOldest, Upto
<1> DEFINE new == [id |-> nextId, len |-> n, bad |-> b]
<1>3. new \in Rows /\ new.id = nextId
  BY DEF Rows, OutInv, TypeOK
<1>4. new \notin outbox
  <2>1. PICK d \in Nat : Window(d)
    BY DEF OutInv, TableInv
  <2>2. \A r \in outbox : r.id # nextId
    BY <2>1, IdsIn DEF Window, OutInv, TypeOK
  <2> QED BY <1>3, <2>2
<1>5. n \in Nat /\ outbox \in SUBSET Rows /\ IsFiniteSet(outbox)
  BY DEF OutInv, TypeOK, TableInv
<1> QED BY <1>1, <1>2, <1>3, <1>4, <1>5

\* an insert adds its body and takes off the evicted ones
LEMMA EnqueuePayload ==
  ASSUME NEW S \in SUBSET Rows, IsFiniteSet(S), NEW A \in SUBSET S,
         NEW new \in Rows, new \notin S
  PROVE  /\ Payload((S \ A) \cup {new}) = new.len + Payload(S \ A)
         /\ Payload(S) = Payload(A) + Payload(S \ A)
         /\ Payload(S) \in Nat /\ Payload(A) \in Nat /\ Payload(S \ A) \in Nat
         /\ new.len \in Nat
<1>1. /\ S \ A \in SUBSET Rows /\ IsFiniteSet(S \ A) /\ new \notin S \ A
      /\ A \in SUBSET Rows /\ IsFiniteSet(A)
  BY FS_Subset
<1>2. Payload((S \ A) \cup {new}) = new.len + Payload(S \ A)
  BY <1>1, PayloadAdd
<1>3. Payload(S) = Payload(A) + Payload(S \ A)
  BY PayloadSplit
<1>4. Payload(S) \in Nat /\ Payload(A) \in Nat /\ Payload(S \ A) \in Nat
  BY <1>1, PayloadType
<1>5. new.len \in Nat
  BY DEF Rows
<1> QED BY <1>2, <1>3, <1>4, <1>5

LEMMA EnqueueUnderCap ==
  ASSUME OutInv, PayloadUnderCap,
         NEW n \in Sizes, NEW b \in Rejectable, EnqueueWithMarks(n, b)
  PROVE  PayloadUnderCap'
<1> DEFINE new == [id |-> nextId, len |-> n, bad |-> b]
<1>1. PICK run \in evictOldest(n) :
        /\ outbox' = (outbox \ run) \cup {new}
        /\ run \in SUBSET outbox /\ new \in Rows \ outbox
        /\ n \in Nat /\ outbox \in SUBSET Rows /\ IsFiniteSet(outbox)
  BY EnqueueRun
<1>2. new.len = n
  OBVIOUS
<1> HIDE DEF new
<1>3. /\ Payload((outbox \ run) \cup {new}) = new.len + Payload(outbox \ run)
      /\ Payload(outbox) = Payload(run) + Payload(outbox \ run)
      /\ Payload(outbox) \in Nat /\ Payload(run) \in Nat
      /\ Payload(outbox \ run) \in Nat
  BY <1>1, EnqueuePayload
<1>4. SUFFICES ASSUME MaxBytes > 0 PROVE n + Payload(outbox \ run) <= MaxBytes
  BY <1>1, <1>2, <1>3 DEF PayloadUnderCap
<1>5. n <= MaxBytes /\ MaxBytes \in Nat
  BY <1>4 DEF EnqueueWithMarks, Admissible
<1>6. CASE Payload(outbox) + n - MaxBytes <= 0
  BY <1>1, <1>3, <1>5, <1>6
<1>7. CASE outbox \ run = {}
  BY <1>5, <1>7, <1>1, PayloadEmpty
<1>8. CASE ~(Payload(outbox) + n - MaxBytes <= 0) /\ outbox \ run # {}
  <2>1. PICK i \in Ids(outbox) : StopsAt(i, n) /\ run = Upto(i)
    BY <1>1, <1>4, <1>8 DEF evictOldest, Excess
  <2>2. ~ \A j \in Ids(outbox) : j <= i
    BY <1>8, <2>1, IdsIn DEF Upto
  <2>3. EnoughFreed(i, n)
    BY <2>1, <2>2 DEF StopsAt
  <2>4. Payload(run) >= Payload(outbox) + n - MaxBytes
    BY <2>1, <2>3 DEF EnoughFreed, Excess
  <2> QED BY <2>4, <1>1, <1>3, <1>5
<1> QED BY <1>6, <1>7, <1>8

LEMMA EnqueueEvicted ==
  ASSUME OutInv, EvictedInv,
         NEW n \in Sizes, NEW b \in Rejectable, EnqueueWithMarks(n, b)
  PROVE  EvictedInv'
<1> DEFINE new == [id |-> nextId, len |-> n, bad |-> b]
<1>1. PICK d \in Nat : Window(d)
  BY DEF OutInv, TableInv
<1>2. PICK e \in d..(nextId - 1) :
        /\ outbox' = {r \in outbox : r.id > e} \cup {new}
        /\ evicted' = evicted \cup (d + 1)..e
  BY <1>1, EnqueueWindow
<1>3. nextId \in Nat \ {0} /\ nextId' = nextId + 1 /\ e \in Nat /\ new.id = nextId
  BY <1>1, <1>2 DEF OutInv, TypeOK, EnqueueWithMarks
<1>4. \A r \in outbox : r.id \in Nat
  BY DEF OutInv, TypeOK, Rows
<1> HIDE DEF new
<1>5. evicted' \subseteq 1..(nextId' - 1)
  BY <1>1, <1>2, <1>3 DEF EvictedInv
<1>6. ASSUME NEW i \in evicted', NEW r \in outbox' PROVE i < r.id
  <2>1. CASE r = new
    BY <2>1, <1>5, <1>2, <1>3, <1>1 DEF EvictedInv
  <2>2. CASE r \in outbox /\ r.id > e
    BY <2>2, <1>1, <1>2, <1>3, <1>4 DEF EvictedInv
  <2> QED BY <2>1, <2>2, <1>2
<1> QED BY <1>5, <1>6 DEF EvictedInv

\* a deletion only makes the table smaller
LEMMA DeleteCap ==
  ASSUME OutInv, CapInv, NEW r \in batch, DeleteSent(r)
  PROVE  CapInv'
<1>1. /\ outbox' \in SUBSET outbox /\ nextId' = nextId /\ evicted' = evicted
      /\ outbox \in SUBSET Rows /\ IsFiniteSet(outbox)
  BY DEF DeleteSent, DeleteRow, OutInv, TypeOK, TableInv
<1>2. IsFiniteSet(outbox') /\ IsFiniteSet(outbox \ outbox')
  BY <1>1, FS_Subset
<1>3. Payload(outbox) = Payload(outbox') + Payload(outbox \ outbox')
  BY <1>1, PayloadSplit
<1>4. Payload(outbox') \in Nat /\ Payload(outbox \ outbox') \in Nat
  BY <1>1, <1>2, PayloadType
<1>5. PayloadUnderCap'
  BY <1>3, <1>4 DEF CapInv, PayloadUnderCap
<1>6. EvictedInv'
  BY <1>1 DEF CapInv, EvictedInv
<1> QED BY <1>5, <1>6 DEF CapInv

LEMMA CapInit == Init => CapInv
BY PayloadEmpty DEF Init, CapInv, EvictedInv, PayloadUnderCap

\* every step but an insert and a deletion leaves the table alone
LEMMA TableSteps ==
  ASSUME [Next]_vars
  PROVE  \/ \E n \in Sizes, b \in Rejectable : EnqueueWithMarks(n, b)
         \/ \E r \in batch : DeleteSent(r) /\ evicted' = evicted
         \/ outbox' = outbox /\ nextId' = nextId /\ evicted' = evicted
BY DEF Next, flushOutbox, Drain, DeleteFailed, SendAccepted, SendRejected,
       SendFailed, DeleteSent, Crash, vars, store

LEMMA CapStep == OutInv /\ CapInv /\ [Next]_vars => CapInv'
<1> SUFFICES ASSUME OutInv, CapInv, [Next]_vars PROVE CapInv'
  OBVIOUS
<1>1. ASSUME NEW n \in Sizes, NEW b \in Rejectable, EnqueueWithMarks(n, b)
      PROVE  CapInv'
  BY <1>1, EnqueueUnderCap, EnqueueEvicted DEF CapInv
<1>2. ASSUME NEW r \in batch, DeleteSent(r) PROVE CapInv'
  BY <1>2, DeleteCap
<1>3. CASE outbox' = outbox /\ nextId' = nextId /\ evicted' = evicted
  BY <1>3 DEF CapInv, EvictedInv, PayloadUnderCap
<1> QED BY <1>1, <1>2, <1>3, TableSteps

LEMMA CapInvHolds == Spec => [](OutInv /\ CapInv)
BY OutInvHolds, CapInit, CapStep, PTL DEF Spec

\* "The outbox never sits over cap": for every cap and all body lengths, the
\* bodies in the table sum to at most buffer_max_bytes after every insert,
\* deletion, failed drain and restart.
THEOREM OutboxUnderCap == Spec => []PayloadUnderCap
<1>1. CapInv => PayloadUnderCap
  BY DEF CapInv
<1> QED BY <1>1, CapInvHolds, PTL


\* The rows evicted but for the newest of them were not enough.  The ids of the
\* table have no gaps, so those rows are what the walk had passed one row
\* earlier.
LEMMA ShorterIsTooShort ==
  ASSUME OutInv, NEW n \in Sizes, Excess(n) > 0,
         NEW i \in Ids(outbox), StopsAt(i, n), NEW r \in outbox, r.id = i
  PROVE  Payload(Upto(i) \ {r}) < Excess(n)
<1>1. PICK d \in Nat : Window(d)
  BY DEF OutInv, TableInv
<1>2. /\ nextId \in Nat /\ d \in 0..(nextId - 1)
      /\ Ids(outbox) = (d + 1)..(nextId - 1)
  BY <1>1 DEF OutInv, TypeOK, Window
<1>3. \A q \in outbox : q.id \in (d + 1)..(nextId - 1) /\ q.id \in Nat
  BY <1>2, IdsIn DEF OutInv, TypeOK, Rows
<1>4. i \in (d + 1)..(nextId - 1) /\ i \in Nat
  BY <1>2
<1>5. \A q \in outbox : q.id = i => q = r
  BY DEF OutInv, TableInv
<1>6. Upto(i) \ {r} = {q \in outbox : q.id <= i - 1}
  BY <1>3, <1>4, <1>5 DEF Upto
<1>7. CASE i = d + 1
  <2>1. Upto(i) \ {r} = {}
    BY <1>3, <1>6, <1>7
  <2>2. Payload(Upto(i) \ {r}) = 0
    BY <2>1, PayloadEmpty
  <2> QED BY <2>2
<1>8. CASE i # d + 1
  <2>1. i - 1 \in Ids(outbox) /\ i - 1 < i
    BY <1>2, <1>4, <1>8
  <2>2. ~EnoughFreed(i - 1, n)
    BY <2>1 DEF StopsAt
  <2>3. ~(Payload({q \in outbox : q.id <= i - 1}) >= Excess(n))
    BY <2>2 DEF EnoughFreed, Upto
  <2>4. Payload(outbox) \in Nat /\ Payload(Upto(i) \ {r}) \in Nat
    <3>1. /\ outbox \in SUBSET Rows /\ IsFiniteSet(outbox)
          /\ Upto(i) \ {r} \in SUBSET outbox
      BY DEF OutInv, TypeOK, TableInv, Upto
    <3>2. IsFiniteSet(Upto(i) \ {r}) /\ Upto(i) \ {r} \in SUBSET Rows
      BY <3>1, FS_Subset
    <3> QED BY <3>1, <3>2, PayloadType
  <2>5. Excess(n) \in Int
    BY <2>4 DEF Excess
  <2>6. ~(Payload(Upto(i) \ {r}) >= Excess(n))
    BY <1>6, <2>3
  <2> QED BY <2>4, <2>5, <2>6
<1> QED BY <1>7, <1>8

LEMMA EnqueueShortest ==
  ASSUME OutInv, EvictedInv,
         NEW n \in Sizes, NEW b \in Rejectable, EnqueueWithMarks(n, b),
         NEW R, R = {r \in outbox : r.id \in evicted' \ evicted}, R # {}
  PROVE  \E r \in R : /\ \A q \in R : q.id <= r.id
                      /\ Payload(outbox' \cup {r}) > MaxBytes
<1> DEFINE new == [id |-> nextId, len |-> n, bad |-> b]
<1>1. PICK run \in evictOldest(n) :
        /\ outbox' = (outbox \ run) \cup {new}
        /\ evicted' = evicted \cup Ids(run)
        /\ run \in SUBSET outbox /\ new \in Rows \ outbox
        /\ n \in Nat /\ outbox \in SUBSET Rows /\ IsFiniteSet(outbox)
  BY EnqueueRun
<1>2. new.len = n
  OBVIOUS
<1> HIDE DEF new
<1>3. run # {}
  BY <1>1 DEF Ids
<1>4. /\ ~(Excess(n) <= 0)
      /\ \E i \in Ids(outbox) : StopsAt(i, n) /\ run = Upto(i)
  BY <1>1, <1>3 DEF evictOldest
<1>5. PICK i \in Ids(outbox) : StopsAt(i, n) /\ run = Upto(i)
  BY <1>4
<1>6. PICK r \in outbox : r.id = i
  BY RowOf
<1>7. \A q \in outbox : q.id \in Nat
  BY DEF OutInv, TypeOK, Rows
<1>8. r \in run
  BY <1>5, <1>6, <1>7 DEF Upto
<1>9. r \in R
  <2>1. r.id \in Ids(run)
    BY <1>8 DEF Ids
  <2>2. r.id \notin evicted
    BY <1>7 DEF EvictedInv
  <2> QED BY <1>1, <2>1, <2>2
<1>10. \A q \in R : q.id <= r.id
  <2> SUFFICES ASSUME NEW q \in R PROVE q.id <= r.id
    OBVIOUS
  <2>1. q.id \in Ids(run)
    BY <1>1
  <2>2. PICK p \in run : p.id = q.id
    BY <2>1 DEF Ids
  <2> QED BY <2>2, <1>5, <1>6 DEF Upto
<1> DEFINE A == run \ {r}
<1>11. /\ Payload((outbox \ A) \cup {new}) = new.len + Payload(outbox \ A)
       /\ Payload(outbox) = Payload(A) + Payload(outbox \ A)
       /\ Payload(outbox) \in Nat /\ Payload(A) \in Nat
       /\ Payload(outbox \ A) \in Nat
  <2>1. A \in SUBSET outbox
    BY <1>1
  <2> HIDE DEF A
  <2> QED BY <1>1, <2>1, EnqueuePayload
<1>12. outbox' \cup {r} = (outbox \ A) \cup {new}
  BY <1>1, <1>8
<1>13. Excess(n) > 0
  <2>1. Excess(n) \in Int
    BY <1>1, <1>11 DEF Excess
  <2> QED BY <1>4, <2>1
<1>14. Payload(A) < Payload(outbox) + n - MaxBytes
  BY <1>5, <1>6, <1>13, ShorterIsTooShort DEF Excess
<1> HIDE DEF A
<1>15. n + Payload(outbox \ A) > MaxBytes
  BY <1>1, <1>11, <1>14
<1> QED BY <1>2, <1>9, <1>10, <1>11, <1>12, <1>15

\* evictOldest evicts "the shortest oldest-first run": had an insert kept the
\* newest of the rows it evicted, the table would be over the cap.
THEOREM OutboxEvictsShortestRun == Spec => ShortestRun
<1>1. ASSUME OutInv, CapInv, [Next]_vars
      PROVE  LET run == {r \in outbox : r.id \in evicted' \ evicted}
             IN  run # {} =>
                   \E r \in run : /\ \A q \in run : q.id <= r.id
                                  /\ Payload(outbox' \cup {r}) > MaxBytes
  <2>1. CASE evicted' = evicted
    BY <2>1
  <2>2. ASSUME NEW n \in Sizes, NEW b \in Rejectable, EnqueueWithMarks(n, b)
        PROVE  \A R : R = {r \in outbox : r.id \in evicted' \ evicted} /\ R # {}
                 => \E r \in R : /\ \A q \in R : q.id <= r.id
                                 /\ Payload(outbox' \cup {r}) > MaxBytes
    BY <1>1, <2>2, EnqueueShortest DEF CapInv
  <2> QED BY <1>1, <2>1, <2>2, TableSteps
<1> QED BY <1>1, CapInvHolds, PTL DEF Spec, ShortestRun

\* the walk stops at exactly one row of a table it has to evict from
LEMMA OneStop ==
  ASSUME OutInv, NEW n \in Sizes, outbox # {}
  PROVE  \E i \in Ids(outbox) : \A j \in Ids(outbox) : StopsAt(j, n) <=> j = i
<1> DEFINE T == {j \in Ids(outbox) : \/ EnoughFreed(j, n)
                                     \/ \A k \in Ids(outbox) : k <= j}
<1>1. PICK d \in Nat : Window(d)
  BY DEF OutInv, TableInv
<1>2. /\ nextId \in Nat /\ d \in 0..(nextId - 1)
      /\ Ids(outbox) = (d + 1)..(nextId - 1)
  BY <1>1 DEF OutInv, TypeOK, Window
<1>3. nextId - 1 \in Ids(outbox) /\ \A k \in Ids(outbox) : k <= nextId - 1
  <2>1. Ids(outbox) # {}
    BY DEF Ids
  <2> QED BY <1>2, <2>1
<1>4. T \subseteq Nat /\ T # {}
  BY <1>2, <1>3
<1>5. PICK i \in T : \A j \in T : i <= j
  <2> HIDE DEF T
  <2> QED BY <1>4, LeastElement
<1>6. Ids(outbox) \subseteq Nat /\ i \in Ids(outbox)
  BY <1>2, <1>5
<1>7. StopsAt(i, n)
  <2>1. ASSUME NEW j \in Ids(outbox), j < i PROVE ~EnoughFreed(j, n)
    <3>1. j \notin T
      <4> HIDE DEF T
      <4> QED BY <1>4, <1>5, <1>6, <2>1
    <3> QED BY <3>1
  <2> QED BY <1>5, <2>1 DEF StopsAt
<1>8. ASSUME NEW j \in Ids(outbox), StopsAt(j, n) PROVE j = i
  <2>1. j \in T
    BY <1>8 DEF StopsAt
  <2>2. i <= j
    <3> HIDE DEF T
    <3> QED BY <1>5, <2>1
  <2>3. CASE EnoughFreed(i, n)
    BY <1>6, <1>8, <2>2, <2>3 DEF StopsAt
  <2>4. CASE \A k \in Ids(outbox) : k <= i
    BY <1>6, <2>2, <2>4
  <2> QED BY <1>5, <2>3, <2>4
<1> QED BY <1>6, <1>7, <1>8

\* evictOldest is a function of the table and the new body: there is exactly
\* one run to evict, so an admissible body is never refused for want of one.
THEOREM EvictionIsDetermined ==
  ASSUME NEW n \in Sizes
  PROVE  Spec => [](\E run \in SUBSET outbox : evictOldest(n) = {run})
<1>1. ASSUME OutInv PROVE \E run \in SUBSET outbox : evictOldest(n) = {run}
  <2>1. CASE MaxBytes = 0 \/ Excess(n) <= 0 \/ outbox = {}
    BY <2>1 DEF evictOldest
  <2>2. CASE ~(MaxBytes = 0 \/ Excess(n) <= 0 \/ outbox = {})
    <3>1. PICK i \in Ids(outbox) :
            \A j \in Ids(outbox) : StopsAt(j, n) <=> j = i
      BY <1>1, <2>2, OneStop
    <3>2. {j \in Ids(outbox) : StopsAt(j, n)} = {i}
      BY <3>1
    <3>3. evictOldest(n) = {Upto(j) : j \in {i}}
      BY <2>2, <3>2 DEF evictOldest
    <3>4. evictOldest(n) = {Upto(i)}
      BY <3>3
    <3>5. Upto(i) \in SUBSET outbox
      BY DEF Upto
    <3> QED BY <3>4, <3>5
  <2> QED BY <2>1, <2>2
<1> QED BY <1>1, OutInvHolds, PTL
=============================================================================
