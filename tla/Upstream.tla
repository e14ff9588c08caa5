------------------------------ MODULE Upstream ------------------------------
(***************************************************************************)
(* From an upload to the cloud: FtpIngest and Outbox put together, as the  *)
(* select loop of worker/worker.go runs them.                              *)
(*                                                                         *)
(* The two share a goroutine, a transaction and a process.  The goroutine  *)
(* either pushes (FtpIngest's worker) or drains (Outbox), and drains after *)
(* every push that queued something.  An insert is one transaction of both *)
(* modules: the row, the rows evicted for it and the marks of the uploads  *)
(* that end in it.  A restart ends scanner, push and drain at once.        *)
(*                                                                         *)
(* Outbox's wpc, batch, faults and crashes are opc, obatch, ofaults and    *)
(* ocrashes here: FtpIngest has the short names.                           *)
(***************************************************************************)
EXTENDS FtpIngest

CONSTANTS
  Sizes, Rejectable, MaxBytes, DrainLimit, Attempts, MaxRows, MaxOutages,
  MaxDelFaults,   \* bound: failed DELETE statements
  MaxMetrics      \* bound: bodies that carry metrics and alarms only

VARIABLES
  outbox, nextId, evicted, received, opc, obatch, attempt, outages, ofaults,
  ocrashes,       \* drains that a restart has cut
  carries,        \* carries[i]: the events in the body with id i
  unflushed       \* a push has queued a body and not yet drained

O == INSTANCE Outbox
  WITH wpc <- opc, batch <- obatch, faults <- ofaults, crashes <- ocrashes,
       MaxFaults <- MaxDelFaults

ASSUME UpstreamAssumption == O!OutboxAssumption /\ MaxMetrics \in Nat

\* the variables of Outbox
tail == <<outbox, nextId, evicted, received, opc, obatch, attempt,
          outages, ofaults, ocrashes>>
link == <<carries, unflushed>>
upVars == <<vars, tail, link>>

-----------------------------------------------------------------------------
(* The worker's goroutine.                                                 *)

\* defect: a push starts while a drain waits for the cloud
PushMidDrain == DrainFTP /\ UNCHANGED <<tail, link>>

\* pushTier starts, with events to push
StartPush ==
  /\ opc = "idle" /\ ~unflushed
  /\ DrainFTP
  /\ UNCHANGED <<tail, link>>

\* a body is queued with the marks of the uploads that end in it
InsertBody(e, n, b) ==
  /\ EnqueuePart(e)
  /\ O!EnqueueWithMarks(n, b)
  /\ carries' = Append(carries, Span(batch, start, e))
  /\ unflushed' = TRUE

\* ErrPayloadTooLarge
RefuseBody(e) ==
  /\ DropPart(e)
  /\ \E n \in Sizes : ~O!Admissible(n)
  /\ UNCHANGED <<tail, link>>

\* steps of a push that do not touch the outbox
PushAside == (DrainEvents \/ InsertFailed) /\ UNCHANGED <<tail, link>>

pushTier ==
  \/ StartPush \/ PushAside
  \/ \E e \in 1..Len(batch) :
       RefuseBody(e) \/ \E n \in Sizes, b \in Rejectable : InsertBody(e, n, b)

Metrics == {i \in DOMAIN carries : carries[i] = {}}

\* a push without events: metrics and alarms fill one body
pushMetrics(n, b) ==
  /\ wpc = "idle" /\ ~unflushed
  /\ events = << >> /\ cwmpEvents = << >>
  /\ Cardinality(Metrics) < MaxMetrics
  /\ O!EnqueueWithMarks(n, b)
  /\ carries' = Append(carries, {}) /\ unflushed' = TRUE
  /\ UNCHANGED vars

\* defect: the outbox is drained after a push and at no other time
FlushAfterPush ==
  /\ wpc = "idle" /\ (unflushed \/ opc # "idle")
  /\ O!flushOutbox
  /\ unflushed' = FALSE
  /\ UNCHANGED <<vars, carries>>

\* after a push, or on a poll tick
flushOutbox ==
  /\ wpc = "idle"
  /\ O!flushOutbox
  /\ unflushed' = FALSE
  /\ UNCHANGED <<vars, carries>>

-----------------------------------------------------------------------------
(* The scanner, the devices, and the end of the process.                   *)

scanFTP == Scanner /\ UNCHANGED <<tail, link>>

\* no line is larger than a cap that is not there
Outside ==
  /\ Environment /\ crashes' = crashes
  /\ MaxBytes = 0 => \A p \in Paths : dir'[p].body # "huge"
  /\ UNCHANGED <<tail, link>>

\* defect: the ledger survives the process and the outbox does not
VolatileOutbox ==
  /\ Crash
  /\ outbox' = {} /\ opc' = "idle" /\ obatch' = {} /\ attempt' = 0
  /\ UNCHANGED <<nextId, evicted, received, outages, ofaults, ocrashes>>
  /\ unflushed' = FALSE
  /\ UNCHANGED carries

\* the outbox table and the ledger are in one database file
Restart ==
  /\ Crash
  /\ IF opc = "idle" THEN UNCHANGED tail ELSE O!Crash
  /\ unflushed' = FALSE
  /\ UNCHANGED carries

UpInit == Init /\ O!Init /\ carries = << >> /\ unflushed = FALSE

UpNext ==
  \/ pushTier \/ \E n \in Sizes, b \in Rejectable : pushMetrics(n, b)
  \/ flushOutbox
  \/ scanFTP \/ Outside \/ Restart

UpSpec == UpInit /\ [][UpNext]_upVars

\* the tickers drive scans, polls and tiers, and a push or drain that started
\* goes on
FairUpSpec ==
  /\ UpSpec
  /\ WF_upVars(scanFTP) /\ WF_upVars(flushOutbox) /\ WF_upVars(pushTier)

-----------------------------------------------------------------------------
(* Properties.                                                             *)

CarriedBy(ids) == UNION {carries[i] : i \in ids}

\* events that wait in the outbox, are at the cloud, or were evicted
Waiting == CarriedBy(O!Ids(outbox))
AtCloud == CarriedBy(received)
Evicted == CarriedBy(evicted)

\* The link keeps its type: there is an entry of carries for every id given
\* out, and the goroutine is never inside a push and a drain at once.
LinkOK ==
  /\ carries \in Seq(SUBSET Events) /\ Len(carries) = nextId - 1
  /\ unflushed \in BOOLEAN
  /\ wpc = "idle" \/ opc = "idle"

\* An upload that the ledger records as ingested has each of its events at
\* the cloud, in an outbox row, in a row the cap evicted or in a body larger
\* than the cap: whatever stopped or failed on the way, a restart that trusts
\* the ledger skips nothing that is not accounted for.
RecordedIsCarried ==
  \A p \in Paths : (ledger[p] = dir[p].ver /\ HasEvents(dir[p]))
    => EventsIn(p, dir[p]) \subseteq Waiting \cup AtCloud \cup Evicted \cup dropped

\* The cloud never has a line of a log without the lines before it, except
\* those the cap evicted or refused.  Bodies are cut, inserted, sent and retried
\* one by one, inserts fail between them and logs are parsed again.
LinesInOrder ==
  \A x \in AtCloud : x.path # 0 =>
    \A j \in 1..(x.k - 1) : \E y \in AtCloud \cup Evicted \cup dropped :
      y.path = x.path /\ y.ver = x.ver /\ y.k = j

Arrived(p) == EventsIn(p, dir[p]) \subseteq AtCloud \cup Evicted \cup dropped

\* With a ledger, a log that stays in the watch directory, of a device that
\* informs, arrives at the cloud but for what the cap took, or is held up
\* behind a body the cloud rejects.
EventuallyArrives ==
  \A p \in Paths : <>[](Ingestible(p) /\ hasLedger)
    => <>[](Arrived(p) \/ \E r \in outbox : r.bad)
=============================================================================
