------------------------------- MODULE Outbox -------------------------------
(***************************************************************************)
(* The telemetry outbox of the agent: the outbox table of buffer/sqlite.go,*)
(* the worker that fills and drains it (worker/worker.go) and the HTTP     *)
(* client that delivers its rows (cloud/client.go).                        *)
(*                                                                         *)
(* One goroutine, the worker's select loop, inserts and drains, so an      *)
(* insert never interleaves with a drain.  What interleaves with both is   *)
(* the cloud (which may be down, reject a body, or answer into a broken    *)
(* connection), the database (whose statements may fail) and the end of    *)
(* the process.                                                            *)
(*                                                                         *)
(* A row is its id, the length of its body and whether the cloud rejects   *)
(* that body with a 4xx status.  Returning free pages to the filesystem    *)
(* changes no row and is left out.                                         *)
(***************************************************************************)
EXTENDS Integers, FiniteSets, FiniteSetsExt

CONSTANTS
  Sizes,        \* lengths of the bodies the worker marshals
  Rejectable,   \* may a body be one the cloud answers with 4xx?
  MaxBytes,     \* buffer_max_bytes; 0 is uncapped
  DrainLimit,   \* rows one Drain reads (100 in the code)
  Attempts,     \* HTTP attempts per send (3 in the code)
  MaxRows,      \* bound: bodies enqueued
  MaxOutages,   \* bound: HTTP attempts that fail or lose their answer
  MaxFaults,    \* bound: failed DELETE statements
  MaxCrashes    \* bound: restarts of the agent

ASSUME OutboxAssumption ==
  /\ Sizes \subseteq Nat /\ Rejectable \subseteq BOOLEAN
  /\ MaxBytes \in Nat
  /\ DrainLimit \in Nat \ {0} /\ Attempts \in Nat \ {0}
  /\ MaxRows \in Nat /\ MaxOutages \in Nat
  /\ MaxFaults \in Nat /\ MaxCrashes \in Nat

VARIABLES
  outbox,    \* the table: a set of rows
  nextId,    \* AUTOINCREMENT: the id of the next insert
  evicted,   \* ids deleted to make room
  received,  \* ids the cloud has stored
  wpc,       \* the worker: "idle", "send" or "delete"
  batch,     \* rows this Drain has read and not yet handled
  attempt,   \* HTTP attempts made for the oldest row of the batch
  outages, faults, crashes

store == <<outbox, nextId, evicted>>
drain == <<wpc, batch, attempt>>
bounds == <<outages, faults, crashes>>
vars == <<store, received, drain, bounds>>

-----------------------------------------------------------------------------
(* The table.                                                              *)

Rows == [id : Nat, len : Sizes, bad : BOOLEAN]

Ids(rows) == {r.id : r \in rows}

Payload(rows) == MapThenSumSet(LAMBDA r : r.len, rows)

Upto(i) == {r \in outbox : r.id <= i}

\* not ErrPayloadTooLarge
Admissible(n) == MaxBytes > 0 => n <= MaxBytes

\* defect: the room for the new body is forgotten
NoIncoming(n) == Payload(outbox) - MaxBytes

Excess(n) == Payload(outbox) + n - MaxBytes

\* defect: the walk frees more than the excess before it stops
OneRowMore(i, n) == Payload(Upto(i)) > Excess(n)

\* the walk over the rows in id order may stop at id i
EnoughFreed(i, n) == Payload(Upto(i)) >= Excess(n)

\* where the walk stops: enough was freed, or there was no further row
StopsAt(i, n) ==
  /\ EnoughFreed(i, n) \/ \A j \in Ids(outbox) : j <= i
  /\ \A j \in Ids(outbox) : j < i => ~EnoughFreed(j, n)

\* the run of rows to evict: a set with this run as its one element
evictOldest(n) ==
  IF MaxBytes = 0 \/ Excess(n) <= 0 \/ outbox = {} THEN {{}}
  ELSE {Upto(i) : i \in {j \in Ids(outbox) : StopsAt(j, n)}}

\* One transaction: evict the run and insert.  A body that is refused and a
\* transaction that is rolled back leave everything as it was.
EnqueueWithMarks(n, b) ==
  /\ wpc = "idle" /\ nextId <= MaxRows
  /\ Admissible(n)
  /\ \E run \in evictOldest(n) :
       /\ outbox' = (outbox \ run) \cup {[id |-> nextId, len |-> n, bad |-> b]}
       /\ evicted' = evicted \cup Ids(run)
  /\ nextId' = nextId + 1
  /\ UNCHANGED <<received, drain, bounds>>

-----------------------------------------------------------------------------
(* Draining.                                                               *)

\* defect: the newest rows first
NewestFirst ==
  {r \in outbox : Cardinality({q \in outbox : q.id > r.id}) < DrainLimit}

\* defect: nothing is sent until a batch is full
FullBatches ==
  IF Cardinality(outbox) < DrainLimit THEN {}
  ELSE {r \in outbox : Cardinality({q \in outbox : q.id < r.id}) < DrainLimit}

\* SELECT ... ORDER BY id LIMIT 100
Selected ==
  {r \in outbox : Cardinality({q \in outbox : q.id < r.id}) < DrainLimit}

Stop == wpc' = "idle" /\ batch' = {} /\ attempt' = 0

Drain ==
  /\ wpc = "idle"
  /\ batch' = Selected
  /\ wpc' = (IF Selected = {} THEN "idle" ELSE "send") /\ attempt' = 0
  /\ UNCHANGED <<store, received, bounds>>

\* the batch is sent in id order: r is its next row
Turn(r) == r \in batch /\ \A q \in batch : r.id <= q.id

NextRow(r) ==
  IF batch = {r} THEN Stop
  ELSE batch' = batch \ {r} /\ attempt' = 0 /\ wpc' = "send"

\* defect: the row is passed over and the drain goes on with the next one
SkipRow(r) == NextRow(r)

\* the send failed: Drain returns the error, the batch is read again later
DrainPaused(r) == Stop

\* an answer below 400
SendAccepted(r) ==
  /\ wpc = "send" /\ Turn(r) /\ ~r.bad
  /\ received' = received \cup {r.id}
  /\ wpc' = "delete"
  /\ UNCHANGED <<store, batch, attempt, bounds>>

\* an answer from 400 to 499 is not retried
SendRejected(r) ==
  /\ wpc = "send" /\ Turn(r) /\ r.bad
  /\ DrainPaused(r)
  /\ UNCHANGED <<store, received, bounds>>

\* defect: one attempt too many
OneTooMany == attempt = Attempts

LastAttempt == attempt + 1 = Attempts

\* a 5xx answer or no answer at all, though the cloud may have stored the
\* body before the connection broke
SendFailed(r) ==
  /\ wpc = "send" /\ Turn(r)
  /\ outages < MaxOutages /\ outages' = outages + 1
  /\ received' = received \/ (~r.bad /\ received' = received \cup {r.id})
  /\ IF LastAttempt THEN DrainPaused(r)
     ELSE attempt' = attempt + 1 /\ UNCHANGED <<wpc, batch>>
  /\ UNCHANGED <<store, faults, crashes>>

\* defect: the whole batch is deleted with its first row
DeleteBatch(rows, i) == rows \ batch

\* DELETE FROM outbox WHERE id = ?
DeleteRow(rows, i) == {r \in rows : r.id # i}

DeleteSent(r) ==
  /\ wpc = "delete" /\ Turn(r)
  /\ outbox' = DeleteRow(outbox, r.id)
  /\ NextRow(r)
  /\ UNCHANGED <<nextId, evicted, received, bounds>>

DeleteFailed ==
  /\ wpc = "delete"
  /\ faults < MaxFaults /\ faults' = faults + 1
  /\ Stop
  /\ UNCHANGED <<store, received, outages, crashes>>

\* the process ends, by a crash or with its context; the table stays
Crash ==
  /\ wpc # "idle" /\ crashes < MaxCrashes /\ crashes' = crashes + 1
  /\ Stop
  /\ UNCHANGED <<store, received, outages, faults>>

-----------------------------------------------------------------------------
Init ==
  /\ outbox = {} /\ nextId = 1 /\ evicted = {} /\ received = {}
  /\ wpc = "idle" /\ batch = {} /\ attempt = 0
  /\ outages = 0 /\ faults = 0 /\ crashes = 0

flushOutbox ==
  \/ Drain \/ DeleteFailed
  \/ \E r \in batch : \/ SendAccepted(r) \/ SendRejected(r) \/ SendFailed(r)
                      \/ DeleteSent(r)

Next ==
  \/ \E n \in Sizes, b \in Rejectable : EnqueueWithMarks(n, b)
  \/ flushOutbox
  \/ Crash

Spec == Init /\ [][Next]_vars

\* every poll tick runs flushOutbox, and a drain that started goes on
FairSpec == Spec /\ WF_vars(flushOutbox)

-----------------------------------------------------------------------------
(* Properties.                                                             *)

\* Every variable keeps its type; the attempts stay below their limit and the
\* batch, empty exactly when the worker is idle, is read from the table.
TypeOK ==
  /\ outbox \subseteq Rows /\ nextId \in Nat \ {0}
  /\ evicted \subseteq Nat /\ received \subseteq Nat
  /\ wpc \in {"idle", "send", "delete"} /\ batch \subseteq Rows
  /\ attempt \in 0..(Attempts - 1)
  /\ outages \in 0..MaxOutages /\ faults \in 0..MaxFaults
  /\ crashes \in 0..MaxCrashes
  /\ (wpc = "idle") <=> (batch = {})

\* "the outbox never sits over cap" (Enqueue): whatever the sizes, the queued
\* payload is within buffer_max_bytes after every insert, drain and restart.
PayloadUnderCap == MaxBytes > 0 => Payload(outbox) <= MaxBytes

\* A body that was enqueued is still stored, was stored by the cloud, or was
\* evicted by the cap: failed sends, lost answers, failed deletes and restarts
\* lose none.
NothingLost ==
  \A i \in 1..(nextId - 1) : i \in Ids(outbox) \cup received \cup evicted

\* "drain order stays strictly FIFO": the cloud never holds a body newer than
\* one that still waits, so a retry never reorders telemetry.
StrictFifo == \A i \in received, r \in outbox : i <= r.id

\* evictOldest: "the shortest oldest-first run".  With the newest of the rows
\* an insert evicts put back, the payload would be over the cap.
ShortestRun ==
  [][LET run == {r \in outbox : r.id \in evicted' \ evicted}
     IN  run # {} =>
           \E r \in run : /\ \A q \in run : q.id <= r.id
                          /\ Payload(outbox' \cup {r}) > MaxBytes]_vars

\* Once the cloud is reachable, every body leaves the outbox, delivered or
\* evicted, unless a body at or before it is one the cloud rejects.
EventuallyLeaves ==
  \A i \in 1..MaxRows :
    (i < nextId) ~> \/ i \in received \cup evicted
                    \/ \E r \in outbox : r.bad /\ r.id <= i

-----------------------------------------------------------------------------
(* The outbox implements FifoDelivery: ids 1..Gone have left the table.    *)

Gone == CHOOSE d \in 0..(nextId - 1) : Ids(outbox) = (d + 1)..(nextId - 1)

Abstract == INSTANCE FifoDelivery
  WITH admitted <- nextId - 1, done <- Gone, delivered <- received

\* Whatever fails, the outbox behaves as FifoDelivery: in order, at least
\* once, and never dropped other than from the front by an insert.
DeliversInOrder == Abstract!Spec
=============================================================================
