--------------------------- MODULE UpstreamProofs ---------------------------
(***************************************************************************)
(* Proofs about Upstream.  Each of its steps is a step of FtpIngest and a  *)
(* step of Outbox, or leaves one of them alone, so what was proved of the  *)
(* two holds of the composition; the rest follows the events along carries.*)
(***************************************************************************)
EXTENDS Upstream, FtpOnceProofs

\* Outbox again, with its theorems
OP == INSTANCE OutboxProofs
  WITH wpc <- opc, batch <- obatch, faults <- ofaults, crashes <- ocrashes,
       MaxFaults <- MaxDelFaults

USE ConstantsAssumption

-----------------------------------------------------------------------------
(* The components.                                                         *)

LEMMA OutboxConstants == OP!OutboxAssumption
BY UpstreamAssumption DEF O!OutboxAssumption, OP!OutboxAssumption

LEMMA SameEnqueue ==
  \A n, b : O!EnqueueWithMarks(n, b) <=> OP!EnqueueWithMarks(n, b)
BY Zenon
   DEF O!EnqueueWithMarks, OP!EnqueueWithMarks, O!evictOldest, OP!evictOldest,
       O!Admissible, OP!Admissible, O!Excess, OP!Excess, O!StopsAt, OP!StopsAt,
       O!EnoughFreed, OP!EnoughFreed, O!Upto, OP!Upto, O!Ids, OP!Ids,
       O!Payload, OP!Payload, O!MapThenSumSet, OP!MapThenSumSet,
       O!MapThenFoldSet, OP!MapThenFoldSet, O!drain, OP!drain,
       O!bounds, OP!bounds

LEMMA SameFlush == O!flushOutbox <=> OP!flushOutbox
<1>1. O!Drain <=> OP!Drain
  BY Zenon DEF O!Drain, OP!Drain, O!Selected, OP!Selected, O!Cardinality,
               OP!Cardinality, O!IsFiniteSet, OP!IsFiniteSet, O!store, OP!store,
               O!bounds, OP!bounds
<1>2. O!DeleteFailed <=> OP!DeleteFailed
  BY Zenon DEF O!DeleteFailed, OP!DeleteFailed, O!Stop, OP!Stop,
               O!store, OP!store
<1>3. ASSUME NEW r PROVE O!SendAccepted(r) <=> OP!SendAccepted(r)
  BY Zenon DEF O!SendAccepted, OP!SendAccepted, O!Turn, OP!Turn,
               O!store, OP!store, O!bounds, OP!bounds
<1>4. ASSUME NEW r PROVE O!SendRejected(r) <=> OP!SendRejected(r)
  BY Zenon DEF O!SendRejected, OP!SendRejected, O!Turn, OP!Turn,
               O!DrainPaused, OP!DrainPaused, O!Stop, OP!Stop,
               O!store, OP!store, O!bounds, OP!bounds
<1>5. ASSUME NEW r PROVE O!SendFailed(r) <=> OP!SendFailed(r)
  BY Zenon DEF O!SendFailed, OP!SendFailed, O!Turn, OP!Turn,
               O!DrainPaused, OP!DrainPaused, O!Stop, OP!Stop,
               O!LastAttempt, OP!LastAttempt, O!store, OP!store
<1>6. ASSUME NEW r PROVE O!DeleteSent(r) <=> OP!DeleteSent(r)
  BY Zenon DEF O!DeleteSent, OP!DeleteSent, O!Turn, OP!Turn,
               O!DeleteRow, OP!DeleteRow, O!NextRow, OP!NextRow,
               O!Stop, OP!Stop, O!bounds, OP!bounds
<1> QED BY <1>1, <1>2, <1>3, <1>4, <1>5, <1>6, Zenon
        DEF O!flushOutbox, OP!flushOutbox

LEMMA SameCrash == O!Crash <=> OP!Crash
BY Zenon DEF O!Crash, OP!Crash, O!Stop, OP!Stop, O!store, OP!store

LEMMA SameInit == O!Init <=> OP!Init
BY Zenon DEF O!Init, OP!Init

LEMMA TailIsOutbox == UNCHANGED tail <=> UNCHANGED OP!vars
BY DEF tail, OP!vars, OP!store, OP!drain, OP!bounds

\* to the outbox a step is one of its own or nothing
LEMMA OutboxStep == [UpNext]_upVars => [OP!Next]_OP!vars
<1> SUFFICES ASSUME [UpNext]_upVars PROVE OP!Next \/ UNCHANGED OP!vars
  OBVIOUS
<1>1. CASE UNCHANGED tail
  BY <1>1, TailIsOutbox
<1>2. ASSUME NEW n \in Sizes, NEW b \in Rejectable, O!EnqueueWithMarks(n, b)
      PROVE  OP!Next
  BY <1>2, SameEnqueue, Zenon DEF OP!Next
<1>3. CASE O!flushOutbox
  BY <1>3, SameFlush, Zenon DEF OP!Next
<1>4. CASE O!Crash
  BY <1>4, SameCrash, Zenon DEF OP!Next
<1> QED BY <1>1, <1>2, <1>3, <1>4, Zenon
        DEF UpNext, upVars, pushTier, StartPush, PushAside, RefuseBody,
            InsertBody, pushMetrics, flushOutbox, scanFTP, Outside, Restart

\* to the ingest likewise
LEMMA IngestStep == [UpNext]_upVars => [Next]_vars
<1> SUFFICES ASSUME [UpNext]_upVars PROVE Next \/ UNCHANGED vars
  OBVIOUS
<1>1. CASE pushTier
  BY <1>1, Zenon
     DEF pushTier, StartPush, PushAside, RefuseBody, InsertBody, Next, Worker
<1>2. CASE scanFTP \/ Outside
  BY <1>2, Zenon DEF scanFTP, Outside, Next
<1>3. CASE Restart
  BY <1>3, Zenon DEF Restart, Next, Environment
<1>4. CASE \/ \E n \in Sizes, b \in Rejectable : pushMetrics(n, b)
           \/ flushOutbox \/ UNCHANGED upVars
  BY <1>4, Zenon DEF pushMetrics, flushOutbox, upVars
<1> QED BY <1>1, <1>2, <1>3, <1>4, Zenon DEF UpNext

LEMMA KeepsOutbox == UpSpec => OP!Spec
<1>1. UpInit => OP!Init
  BY SameInit, Zenon DEF UpInit
<1> QED BY <1>1, OutboxStep, PTL DEF UpSpec, OP!Spec

LEMMA KeepsIngest == UpSpec => Spec
<1>1. UpInit => Init
  BY DEF UpInit
<1> QED BY <1>1, IngestStep, PTL DEF UpSpec, Spec

\* bodies with ids below nextId only were received
Given == received \subseteq 1..(nextId - 1)

LEMMA OutboxFacts ==
  UpSpec => [](OP!TypeOK /\ OP!NothingLost /\ OP!StrictFifo /\ Given)
<1>1. OP!OutInv => OP!TypeOK /\ OP!NothingLost /\ OP!StrictFifo /\ Given
  BY DEF OP!OutInv, OP!ReceivedInv, Given
<1> QED BY <1>1, KeepsOutbox, OutboxConstants, OP!OutInvHolds, PTL

LEMMA IngestFacts == UpSpec => [](TypeOK /\ AtcInv /\ MarkedIsQueued)
<1>1. Spec => []AtcInv
  BY AtcInit, AtcStep, TypeCorrect, PTL DEF Spec
<1> QED BY <1>1, KeepsIngest, TypeCorrect, LedgerSound, PTL


-----------------------------------------------------------------------------
(* What the bodies carry.                                                  *)

\* every event the ingest calls queued is in some body
QueuedIsCarried == \A x \in queued : \E i \in DOMAIN carries : x \in carries[i]

CarryInv == LinkOK /\ QueuedIsCarried

\* a step that leaves carries and the events in it alone
LEMMA SameCarries ==
  ASSUME CarryInv, UNCHANGED <<carries, nextId>>, queued' = queued,
         unflushed' \in BOOLEAN, wpc' = "idle" \/ opc' = "idle"
  PROVE  CarryInv'
BY DEF CarryInv, LinkOK, QueuedIsCarried

\* an insert appends one body
LEMMA AppendCarries ==
  ASSUME CarryInv, nextId \in Nat, NEW B \in SUBSET Events,
         carries' = Append(carries, B), queued' = queued \cup B,
         nextId' = nextId + 1, unflushed' = TRUE, opc' = "idle"
  PROVE  CarryInv'
<1>1. /\ carries \in Seq(SUBSET Events) /\ Len(carries) = nextId - 1
      /\ Len(carries) \in Nat
  BY DEF CarryInv, LinkOK
<1>2. /\ carries' \in Seq(SUBSET Events) /\ Len(carries') = Len(carries) + 1
      /\ carries'[Len(carries) + 1] = B
      /\ \A i \in DOMAIN carries : carries'[i] = carries[i]
      /\ DOMAIN carries' = 1..(Len(carries) + 1)
      /\ DOMAIN carries = 1..Len(carries)
  BY <1>1
<1>3. LinkOK'
  BY <1>1, <1>2 DEF LinkOK
<1>4. QueuedIsCarried'
  <2> SUFFICES ASSUME NEW x \in queued \cup B
               PROVE  \E i \in DOMAIN carries' : x \in carries'[i]
    BY DEF QueuedIsCarried
  <2>1. CASE x \in B
    <3>1. Len(carries) + 1 \in DOMAIN carries'
      BY <1>1, <1>2
    <3> QED BY <1>2, <2>1, <3>1
  <2>2. CASE x \in queued
    <3>1. PICK i \in DOMAIN carries : x \in carries[i]
      BY <2>2 DEF CarryInv, QueuedIsCarried
    <3>2. i \in DOMAIN carries'
      BY <1>1, <1>2
    <3> QED BY <1>2, <3>1, <3>2
  <2> QED BY <2>1, <2>2
<1> QED BY <1>3, <1>4 DEF CarryInv

\* which steps touch what carries depends on
LEMMA LinkSteps ==
  ASSUME TypeOK, LinkOK, [UpNext]_upVars
  PROVE  \/ \E e \in 1..Len(batch), n \in Sizes, b \in Rejectable :
              InsertBody(e, n, b)
         \/ \E n \in Sizes, b \in Rejectable : pushMetrics(n, b)
         \/ /\ UNCHANGED <<carries, nextId>> /\ queued' = queued
            /\ unflushed' \in BOOLEAN /\ (wpc' = "idle" \/ opc' = "idle")
<1> DEFINE Kept == /\ UNCHANGED <<carries, nextId>> /\ queued' = queued
                   /\ unflushed' \in BOOLEAN /\ (wpc' = "idle" \/ opc' = "idle")
<1>1. ASSUME StartPush \/ PushAside \/ \E e \in 1..Len(batch) : RefuseBody(e)
      PROVE  Kept
  <2>1. opc = "idle" /\ UNCHANGED <<tail, link>> /\ queued' = queued
    BY <1>1 DEF StartPush, PushAside, RefuseBody, DrainFTP, DrainEvents,
                InsertFailed, DropPart, LinkOK, disk
  <2> QED BY <2>1 DEF tail, link, LinkOK
<1>2. ASSUME flushOutbox PROVE Kept
  <2>1. /\ wpc = "idle" /\ UNCHANGED <<vars, carries>> /\ unflushed' = FALSE
        /\ O!flushOutbox
    BY <1>2 DEF flushOutbox
  <2>2. nextId' = nextId
    BY <2>1 DEF O!flushOutbox, O!Drain, O!DeleteFailed, O!SendAccepted,
                O!SendRejected, O!SendFailed, O!DeleteSent, O!store
  <2> QED BY <2>1, <2>2 DEF vars, disk, work
<1>3. ASSUME scanFTP PROVE Kept
  <2>1. UNCHANGED <<tail, link>> /\ UNCHANGED <<queued, wpc>>
    BY <1>3 DEF scanFTP, Scanner, ScanStart, SkipSeen, RewriteFound, Defer,
                StampEntry, FinishEntry, ReadUpload, ScanGone, ForgetGone,
                FilterMarks, FlushPending, disk, work
  <2> QED BY <2>1 DEF tail, link, LinkOK
<1>4. ASSUME Outside PROVE Kept
  <2>1. ~Crash
    BY <1>4 DEF Outside, Crash, TypeOK, BoundsType
  <2>2. UNCHANGED <<tail, link>> /\ UNCHANGED <<queued, wpc>>
    BY <1>4, <2>1 DEF Outside, Environment, Remove, Upload, Inform, EmitEvent,
                      disk, work
  <2> QED BY <2>2 DEF tail, link, LinkOK
<1>5. ASSUME Restart PROVE Kept
  <2>1. /\ UNCHANGED carries /\ unflushed' = FALSE /\ Crash
        /\ UNCHANGED tail \/ O!Crash
    BY <1>5 DEF Restart
  <2>2. queued' = queued /\ wpc' = "idle"
    BY <2>1 DEF Crash, Boot, disk
  <2>3. nextId' = nextId
    BY <2>1 DEF tail, O!Crash, O!store
  <2> QED BY <2>1, <2>2, <2>3
<1>6. ASSUME UNCHANGED upVars PROVE Kept
  BY <1>6 DEF upVars, vars, disk, work, tail, link, LinkOK
<1> HIDE DEF Kept
<1>7. \/ \E e \in 1..Len(batch), n \in Sizes, b \in Rejectable :
           InsertBody(e, n, b)
      \/ \E n \in Sizes, b \in Rejectable : pushMetrics(n, b)
      \/ Kept
  BY <1>1, <1>2, <1>3, <1>4, <1>5, <1>6, Zenon DEF UpNext, pushTier
<1> QED BY <1>7, Zenon DEF Kept

LEMMA CarryStep ==
  TypeOK /\ OP!TypeOK /\ CarryInv /\ [UpNext]_upVars => CarryInv'
<1> SUFFICES ASSUME TypeOK, OP!TypeOK, CarryInv, [UpNext]_upVars PROVE CarryInv'
  OBVIOUS
<1>1. nextId \in Nat /\ LinkOK
  BY DEF OP!TypeOK, CarryInv
<1>2. ASSUME NEW n, NEW b, O!EnqueueWithMarks(n, b)
      PROVE  nextId' = nextId + 1 /\ opc' = "idle"
  BY <1>2 DEF O!EnqueueWithMarks, O!drain
<1>3. ASSUME NEW e \in 1..Len(batch), NEW n \in Sizes, NEW b \in Rejectable,
             InsertBody(e, n, b)
      PROVE  CarryInv'
  <2>1. Span(batch, start, e) \in SUBSET Events
    BY SpanType DEF TypeOK, WorkType
  <2>2. /\ queued' = queued \cup Span(batch, start, e)
        /\ carries' = Append(carries, Span(batch, start, e)) /\ unflushed' = TRUE
    BY <1>3 DEF InsertBody, EnqueuePart
  <2>3. nextId' = nextId + 1 /\ opc' = "idle"
    BY <1>2, <1>3 DEF InsertBody
  <2> QED BY <1>1, <2>1, <2>2, <2>3, AppendCarries
<1>4. ASSUME NEW n \in Sizes, NEW b \in Rejectable, pushMetrics(n, b)
      PROVE  CarryInv'
  <2>1. /\ queued' = queued \cup {} /\ carries' = Append(carries, {})
        /\ unflushed' = TRUE /\ {} \in SUBSET Events
    BY <1>4 DEF pushMetrics, vars, disk
  <2>2. nextId' = nextId + 1 /\ opc' = "idle"
    BY <1>2, <1>4 DEF pushMetrics
  <2> QED BY <1>1, <2>1, <2>2, AppendCarries
<1>5. CASE /\ UNCHANGED <<carries, nextId>> /\ queued' = queued
           /\ unflushed' \in BOOLEAN /\ (wpc' = "idle" \/ opc' = "idle")
  BY <1>5, SameCarries
<1> QED BY <1>1, <1>3, <1>4, <1>5, LinkSteps

LEMMA CarryInit == UpInit => CarryInv
<1> SUFFICES ASSUME UpInit PROVE CarryInv
  OBVIOUS
<1>1. /\ carries = << >> /\ unflushed = FALSE /\ nextId = 1 /\ queued = {}
      /\ wpc = "idle"
  BY DEF UpInit, Init, O!Init
<1>2. carries \in Seq(SUBSET Events) /\ Len(carries) = nextId - 1
  BY <1>1
<1>3. unflushed \in BOOLEAN
  BY <1>1, Zenon
<1> QED BY <1>1, <1>2, <1>3 DEF CarryInv, LinkOK, QueuedIsCarried

LEMMA CarryHolds == UpSpec => []CarryInv
BY CarryInit, CarryStep, OutboxFacts, IngestFacts, PTL DEF UpSpec

\* The link keeps its type: every id given out has its entry in carries, and
\* the worker's goroutine is never inside a push and a drain at once.
THEOREM UpstreamLinked == UpSpec => []LinkOK
<1>1. CarryInv => LinkOK
  BY DEF CarryInv
<1> QED BY <1>1, CarryHolds, PTL

\* a body that was queued waits, is at the cloud or was evicted
LEMMA CarriedSomewhere ==
  ASSUME LinkOK, OP!TypeOK, OP!NothingLost, NEW i \in DOMAIN carries,
         NEW x \in carries[i]
  PROVE  x \in Waiting \cup AtCloud \cup Evicted
<1>1. i \in 1..(nextId - 1)
  BY DEF LinkOK
<1>2. i \in OP!Ids(outbox) \cup received \cup evicted
  BY <1>1 DEF OP!NothingLost
<1>3. OP!Ids(outbox) = O!Ids(outbox)
  BY DEF OP!Ids, O!Ids
<1> QED BY <1>2, <1>3 DEF Waiting, AtCloud, Evicted, CarriedBy

\* An upload the ledger records as ingested has each of its events at the
\* cloud, in the outbox table, or in a body the cap evicted or refused: for
\* any number of uploads, failed statements, outages and restarts.
THEOREM UpstreamRecordedIsCarried == UpSpec => []RecordedIsCarried
<1>1. ASSUME MarkedIsQueued, CarryInv, OP!TypeOK, OP!NothingLost
      PROVE  RecordedIsCarried
  <2> SUFFICES ASSUME NEW p \in Paths, ledger[p] = dir[p].ver, HasEvents(dir[p]),
                      NEW x \in EventsIn(p, dir[p])
               PROVE  x \in Waiting \cup AtCloud \cup Evicted \cup dropped
    BY DEF RecordedIsCarried
  <2>1. x \in queued \cup dropped
    BY <1>1 DEF MarkedIsQueued, HandedOff
  <2>2. ASSUME x \in queued PROVE x \in Waiting \cup AtCloud \cup Evicted
    <3>1. PICK i \in DOMAIN carries : x \in carries[i]
      BY <1>1, <2>2 DEF CarryInv, QueuedIsCarried
    <3> QED BY <1>1, <3>1, CarriedSomewhere DEF CarryInv
  <2> QED BY <2>1, <2>2
<1> QED BY <1>1, IngestFacts, OutboxFacts, CarryHolds, PTL


-----------------------------------------------------------------------------
(***************************************************************************)
(* The order of lines.  A log's events enter the queue in line order and   *)
(* together, so the queue and the batch hold each line after the lines     *)
(* before it, and those of a batch up to start are handed off.  A body is  *)
(* therefore never queued before one that carries an earlier line.         *)
(***************************************************************************)

\* y is line j of the log that x comes from
Line(y, x, j) == y.path = x.path /\ y.ver = x.ver /\ y.k = j

InOrder(s) ==
  \A n \in DOMAIN s : s[n].path # 0 =>
    \A j \in 1..(s[n].k - 1) : \E m \in DOMAIN s : m < n /\ Line(s[m], s[n], j)

SeqInv ==
  /\ InOrder(events) /\ InOrder(batch)
  /\ start <= Len(batch)
  /\ Span(batch, 0, start) \subseteq HandedOff

LEMMA InOrderEmpty == InOrder(<< >>)
BY DEF InOrder

LEMMA InOrderConcat ==
  ASSUME NEW s \in Seq(Events), NEW t \in Seq(Events), InOrder(s), InOrder(t)
  PROVE  InOrder(s \o t)
<1> DEFINE u == s \o t
<1>1. /\ u \in Seq(Events) /\ Len(s) \in Nat /\ Len(t) \in Nat
      /\ DOMAIN u = 1..(Len(s) + Len(t))
      /\ DOMAIN s = 1..Len(s) /\ DOMAIN t = 1..Len(t)
  BY ConcatProperties, LenProperties
<1>2. \A n \in DOMAIN s : n \in DOMAIN u /\ u[n] = s[n]
  BY <1>1
<1>3. \A n \in DOMAIN t : n + Len(s) \in DOMAIN u /\ u[n + Len(s)] = t[n]
  BY <1>1
<1> HIDE DEF u
<1>4. ASSUME NEW n \in DOMAIN u, u[n].path # 0, NEW j \in 1..(u[n].k - 1)
      PROVE  \E m \in DOMAIN u : m < n /\ Line(u[m], u[n], j)
  <2>1. CASE n <= Len(s)
    <3>1. n \in DOMAIN s /\ u[n] = s[n]
      BY <1>1, <1>2, <2>1
    <3>2. PICK m \in DOMAIN s : m < n /\ Line(s[m], s[n], j)
      BY <1>4, <3>1 DEF InOrder
    <3> QED BY <1>2, <3>1, <3>2
  <2>2. CASE ~(n <= Len(s))
    <3>1. /\ n - Len(s) \in DOMAIN t /\ (n - Len(s)) + Len(s) = n
          /\ n \in Nat
      BY <1>1, <2>2
    <3>2. u[n] = t[n - Len(s)]
      BY <1>3, <3>1
    <3>3. PICK m \in DOMAIN t : m < n - Len(s) /\ Line(t[m], t[n - Len(s)], j)
      BY <1>4, <3>1, <3>2 DEF InOrder
    <3>4. m + Len(s) \in DOMAIN u /\ u[m + Len(s)] = t[m] /\ m + Len(s) < n
      BY <1>1, <1>3, <3>1, <3>3
    <3> QED BY <3>2, <3>3, <3>4
  <2> QED BY <2>1, <2>2
<1>5. InOrder(u)
  BY <1>4 DEF InOrder
<1> QED BY <1>5 DEF u

LEMMA ParseInOrder ==
  ASSUME NEW p \in Paths, NEW f \in Files
  PROVE  InOrder(parseUpload(p, f))
<1>1. CASE ~HasEvents(f)
  BY <1>1, InOrderEmpty DEF parseUpload
<1>2. CASE HasEvents(f)
  <2> DEFINE s == [k \in 1..PerFile |-> LogEvent(p, f, k)]
  <2>1. \A k \in 1..PerFile : s[k].path = p /\ s[k].ver = f.ver /\ s[k].k = k
    BY DEF LogEvent
  <2>2. DOMAIN s = 1..PerFile /\ parseUpload(p, f) = s /\ PerFile \in Nat
    BY <1>2 DEF parseUpload
  <2> HIDE DEF s
  <2>3. ASSUME NEW n \in 1..PerFile, NEW j \in 1..(n - 1)
        PROVE  j \in 1..PerFile /\ j < n /\ Line(s[j], s[n], j)
    <3>1. j \in 1..PerFile /\ j < n
      BY <2>2
    <3> QED BY <2>1, <3>1 DEF Line
  <2>4. InOrder(s)
    BY <2>1, <2>2, <2>3 DEF InOrder
  <2> QED BY <2>2, <2>4
<1> QED BY <1>1, <1>2

\* rows of cwmp_events come from no log
RowsOnly(s) == s \in Seq(Events) /\ \A i \in DOMAIN s : s[i].path = 0

LEMMA RowsInOrder == ASSUME NEW s, RowsOnly(s) PROVE InOrder(s)
BY DEF RowsOnly, InOrder

LEMMA RowsPart ==
  ASSUME NEW s, RowsOnly(s), NEW i \in 1..(Len(s) + 1), NEW j \in 0..Len(s)
  PROVE  RowsOnly(SubSeq(s, i, j))
<1> DEFINE t == SubSeq(s, i, j)
<1>1. s \in Seq(Events) /\ Len(s) \in Nat
  BY DEF RowsOnly
<1>2. t \in Seq(Events)
  BY <1>1
<1>3. \A n \in DOMAIN t : \E m \in DOMAIN s : t[n] = s[m]
  <2>1. CASE i <= j
    <3>1. Len(t) = j - i + 1 /\ DOMAIN t = 1..(j - i + 1)
      BY <1>1, <2>1
    <3>2. \A n \in 1..(j - i + 1) : t[n] = s[i + n - 1] /\ i + n - 1 \in DOMAIN s
      BY <1>1, <2>1
    <3> QED BY <3>1, <3>2
  <2>2. CASE ~(i <= j)
    <3>1. t = << >>
      BY <1>1, <2>2
    <3> QED BY <3>1
  <2> QED BY <2>1, <2>2
<1> QED BY <1>2, <1>3 DEF RowsOnly

LEMMA RowsConcat ==
  ASSUME NEW s, NEW t, RowsOnly(s), RowsOnly(t)
  PROVE  RowsOnly(s \o t)
<1>1. s \in Seq(Events) /\ t \in Seq(Events) /\ Len(s) \in Nat /\ Len(t) \in Nat
  BY DEF RowsOnly
<1>2. s \o t \in Seq(Events)
  BY <1>1
<1>3. ASSUME NEW n \in DOMAIN (s \o t) PROVE (s \o t)[n].path = 0
  <2>1. n \in 1..(Len(s) + Len(t))
    BY <1>1
  <2>2. CASE n <= Len(s)
    <3>1. n \in DOMAIN s /\ (s \o t)[n] = s[n]
      BY <1>1, <2>1, <2>2
    <3> QED BY <3>1 DEF RowsOnly
  <2>3. CASE n > Len(s)
    <3>1. n - Len(s) \in DOMAIN t /\ (s \o t)[n] = t[n - Len(s)]
      BY <1>1, <2>1, <2>3
    <3> QED BY <3>1 DEF RowsOnly
  <2> QED BY <1>1, <2>1, <2>2, <2>3
<1> QED BY <1>2, <1>3 DEF RowsOnly


\* a drain of cwmp_events appends rows to the batch
LEMMA DrainAppendsRows ==
  ASSUME TypeOK, AtcInv, DrainEvents
  PROVE  \E t : RowsOnly(t) /\ batch' = batch \o t
<1> DEFINE n == IF Len(cwmpEvents) < EventLimit THEN Len(cwmpEvents) ELSE EventLimit
           rows == SubSeq(cwmpEvents, 1, n)
<1>1. RowsOnly(cwmpEvents)
  BY DEF RowsOnly, TypeOK, DiskType, AtcInv, AtcRows
<1>2. n \in 0..Len(cwmpEvents) /\ Len(cwmpEvents) \in Nat
  BY <1>1 DEF RowsOnly
<1>3. \/ batch' = batch \o rows
      \/ batch' = batch
      \/ \E i \in 1..n : batch' = batch \o Updated(rows, i)
  BY Zenon DEF DrainEvents, Joined
<1> HIDE DEF n
<1>4. RowsOnly(rows) /\ Len(rows) = n
  <2>1. 1 \in 1..(Len(cwmpEvents) + 1)
    BY <1>2
  <2>2. RowsOnly(SubSeq(cwmpEvents, 1, n))
    BY <1>1, <1>2, <2>1, RowsPart
  <2>3. Len(SubSeq(cwmpEvents, 1, n)) = n
    BY <1>1, <1>2 DEF RowsOnly
  <2> QED BY <2>2, <2>3
<1> HIDE DEF rows
<1>5. ASSUME NEW i \in 1..n PROVE RowsOnly(Updated(rows, i))
  <2>1. /\ 1 \in 1..(Len(rows) + 1) /\ i - 1 \in 0..Len(rows)
        /\ i + 1 \in 1..(Len(rows) + 1) /\ Len(rows) \in 0..Len(rows)
    BY <1>2, <1>4
  <2>2. RowsOnly(SubSeq(rows, 1, i - 1)) /\ RowsOnly(SubSeq(rows, i + 1, Len(rows)))
    BY <1>4, <2>1, RowsPart
  <2> QED BY <2>2, RowsConcat DEF Updated
<1>6. RowsOnly(<< >>) /\ batch \o << >> = batch
  BY DEF RowsOnly, TypeOK, WorkType
<1> QED BY <1>3, <1>4, <1>5, <1>6

LEMMA SeqInit == Init => SeqInv
BY InOrderEmpty DEF Init, SeqInv, Span

\* what is left of the batch after a body up to e
LEMMA SpanStep ==
  ASSUME NEW s \in Seq(Events), NEW i \in Nat, NEW e \in Nat, NEW S,
         Span(s, 0, i) \subseteq S, Span(s, i, e) \subseteq S
  PROVE  Span(s, 0, e) \subseteq S
<1> SUFFICES ASSUME NEW n \in DOMAIN s, 0 < n, n <= e PROVE s[n] \in S
  BY DEF Span
<1>1. n \in Nat
  OBVIOUS
<1>2. CASE n <= i
  BY <1>1, <1>2 DEF Span
<1>3. CASE i < n
  BY <1>1, <1>3 DEF Span
<1> QED BY <1>1, <1>2, <1>3

LEMMA SeqFrame ==
  ASSUME SeqInv, UNCHANGED <<batch, start>>, InOrder(events'),
         HandedOff \subseteq HandedOff'
  PROVE  SeqInv'
BY DEF SeqInv

\* a batch that has just begun, or none
LEMMA SeqNewBatch ==
  ASSUME InOrder(events'), InOrder(batch'), batch' \in Seq(Events), start' = 0
  PROVE  SeqInv'
<1>1. Span(batch', 0, 0) = {}
  BY DEF Span
<1>2. start' <= Len(batch')
  OBVIOUS
<1>3. Span(batch', 0, start') \subseteq HandedOff'
  BY <1>1
<1> QED BY <1>2, <1>3 DEF SeqInv

LEMMA PartSeq ==
  ASSUME TypeOK, SeqInv, NEW e \in 1..Len(batch), EnqueuePart(e) \/ DropPart(e)
  PROVE  SeqInv'
<1>1. batch \in Seq(Events) /\ start \in Nat /\ e \in Nat /\ Len(batch) \in Nat
  BY DEF TypeOK, WorkType
<1>2. UNCHANGED events /\ HandedOff \subseteq HandedOff' /\ Advance(e)
  BY DEF EnqueuePart, DropPart, HandedOff, shared
<1>3. Span(batch, start, e) \subseteq HandedOff'
  <2>1. CASE EnqueuePart(e)
    BY <2>1 DEF EnqueuePart, HandedOff
  <2>2. CASE DropPart(e)
    <3>1. e = start + 1 /\ dropped' = dropped \cup {batch[e]}
      BY <2>2 DEF DropPart
    <3>2. \A n \in DOMAIN batch : start < n /\ n <= e => n = e
      BY <1>1, <3>1
    <3> QED BY <3>1, <3>2 DEF Span, HandedOff
  <2> QED BY <2>1, <2>2
<1>4. CASE e = Len(batch)
  <2>1. batch' = << >> /\ start' = 0
    BY <1>2, <1>4 DEF Advance, EndBatch
  <2>2. InOrder(events') /\ InOrder(batch') /\ batch' \in Seq(Events)
    BY <1>2, <2>1, InOrderEmpty DEF SeqInv
  <2> QED BY <2>1, <2>2, SeqNewBatch
<1>5. CASE e # Len(batch)
  <2>1. start' = e /\ batch' = batch
    BY <1>2, <1>5 DEF Advance
  <2>2. Span(batch, 0, start) \subseteq HandedOff'
    BY <1>2 DEF SeqInv
  <2>3. Span(batch, 0, e) \subseteq HandedOff'
    BY <1>1, <1>3, <2>2, SpanStep
  <2>4. Span(batch', 0, start') \subseteq HandedOff'
    BY <2>1, <2>3
  <2>5. start' <= Len(batch')
    BY <1>1, <2>1
  <2>6. InOrder(events') /\ InOrder(batch')
    BY <1>2, <2>1 DEF SeqInv
  <2> QED BY <2>4, <2>5, <2>6 DEF SeqInv
<1> QED BY <1>4, <1>5

LEMMA SeqStep == TypeOK /\ AtcInv /\ SeqInv /\ [Next]_vars => SeqInv'
<1> SUFFICES ASSUME TypeOK, AtcInv, SeqInv, [Next]_vars PROVE SeqInv'
  OBVIOUS
<1>1. InOrder(events) /\ InOrder(batch) /\ events \in Seq(Events)
      /\ batch \in Seq(Events) /\ start \in Nat
  BY DEF SeqInv, TypeOK, SharedType, WorkType
<1>2. ASSUME NEW p \in Paths, FinishEntry(p) PROVE SeqInv'
  <2>1. UNCHANGED <<batch, start>> /\ HandedOff' = HandedOff
    BY <1>2 DEF FinishEntry, work, disk, HandedOff
  <2>2. InOrder(events')
    <3>1. events' = events \/ events' = events \o parseUpload(p, content)
      BY <1>2 DEF FinishEntry, markSeen
    <3>2. content \in Files
      BY DEF TypeOK, LoopType
    <3>3. parseUpload(p, content) \in Seq(Events) /\ InOrder(parseUpload(p, content))
      BY <3>2, ParseType, ParseInOrder
    <3>4. InOrder(events \o parseUpload(p, content))
      BY <1>1, <3>3, InOrderConcat
    <3> QED BY <1>1, <3>1, <3>4
  <2> QED BY <2>1, <2>2, SeqFrame
<1>3. ASSUME Scanner, ~ \E p \in Paths : FinishEntry(p) PROVE SeqInv'
  <2>1. UNCHANGED <<events, batch, start, queued, dropped>>
    BY <1>3 DEF Scanner, ScanStart, SkipSeen, RewriteFound, Defer, StampEntry,
                ReadUpload, ScanGone, ForgetGone, FilterMarks, FlushPending,
                disk, shared, work
  <2> QED BY <1>1, <2>1, SeqFrame DEF HandedOff
<1>4. CASE DrainFTP
  <2>1. batch' = events /\ events' = << >> /\ start' = 0
    BY <1>4 DEF DrainFTP
  <2>2. InOrder(events') /\ InOrder(batch') /\ batch' \in Seq(Events)
    BY <1>1, <2>1, InOrderEmpty
  <2> QED BY <2>1, <2>2, SeqNewBatch
<1>5. CASE DrainEvents
  <2>1. PICK t : RowsOnly(t) /\ batch' = batch \o t
    BY <1>5, DrainAppendsRows
  <2>2. UNCHANGED <<events, start>> /\ HandedOff' = HandedOff
    BY <1>5 DEF DrainEvents, shared, HandedOff
  <2>3. t \in Seq(Events) /\ InOrder(t)
    BY <2>1, RowsInOrder DEF RowsOnly
  <2>4. InOrder(batch')
    BY <1>1, <2>1, <2>3, InOrderConcat
  <2>5. Len(batch) \in Nat /\ Len(batch') = Len(batch) + Len(t) /\ Len(t) \in Nat
    BY <1>1, <2>1, <2>3
  <2>6. start <= Len(batch) /\ start' <= Len(batch')
    BY <1>1, <2>2, <2>5 DEF SeqInv
  <2>7. Span(batch', 0, start) \subseteq Span(batch, 0, start)
    <3> SUFFICES ASSUME NEW n \in DOMAIN batch', 0 < n, n <= start
                 PROVE  batch'[n] \in Span(batch, 0, start)
      BY DEF Span
    <3>1. n \in DOMAIN batch /\ batch'[n] = batch[n]
      BY <1>1, <2>1, <2>3, <2>5, <2>6
    <3> QED BY <3>1 DEF Span
  <2>8. Span(batch', 0, start') \subseteq HandedOff'
    BY <2>2, <2>7 DEF SeqInv
  <2> QED BY <1>1, <2>2, <2>4, <2>6, <2>8 DEF SeqInv
<1>6. CASE InsertFailed \/ Crash
  <2>1. batch' = << >> /\ start' = 0 /\ (events' = events \/ events' = << >>)
    BY <1>6 DEF InsertFailed, EndBatch, Crash, Boot
  <2>2. InOrder(events') /\ InOrder(batch') /\ batch' \in Seq(Events)
    BY <1>1, <2>1, InOrderEmpty
  <2> QED BY <2>1, <2>2, SeqNewBatch
<1>7. ASSUME NEW e \in 1..Len(batch), EnqueuePart(e) \/ DropPart(e) PROVE SeqInv'
  BY <1>7, PartSeq
<1>8. CASE \/ \E p \in Paths : Remove(p) \/ \E b \in Bodies \ {"gone"} : Upload(p, b)
           \/ \E d \in Devices : Inform(d)
           \/ EmitEvent \/ UNCHANGED vars
  <2>1. UNCHANGED <<events, batch, start, queued, dropped>>
    BY <1>8 DEF Remove, Upload, Inform, EmitEvent, vars, disk, shared, work
  <2> QED BY <1>1, <2>1, SeqFrame DEF HandedOff
<1> QED BY <1>2, <1>3, <1>4, <1>5, <1>6, <1>7, <1>8, Zenon
        DEF Next, Worker, Environment

LEMMA SeqHolds == UpSpec => []SeqInv
<1>1. Spec => [](TypeOK /\ AtcInv)
  BY AtcInit, AtcStep, TypeCorrect, PTL DEF Spec
<1>2. Spec => []SeqInv
  BY <1>1, SeqInit, SeqStep, PTL DEF Spec
<1> QED BY <1>2, KeepsIngest, PTL


\* line j of x's log was refused, or is in body i or an older one
Earlier(x, j, i) ==
  \E y \in Events : /\ Line(y, x, j)
                    /\ y \in dropped \/ \E h \in 1..i : y \in carries[h]

CarriedInOrder ==
  \A i \in DOMAIN carries : \A x \in carries[i] : x.path # 0 =>
    \A j \in 1..(x.k - 1) : Earlier(x, j, i)

\* a new body keeps the order when what precedes its lines was handed off
LEMMA AppendInOrder ==
  ASSUME CarryInv, CarriedInOrder, dropped \subseteq dropped',
         NEW B \in SUBSET Events, carries' = Append(carries, B),
         \A x \in B : x.path # 0 => \A j \in 1..(x.k - 1) :
           \E y \in Events : Line(y, x, j) /\ y \in B \cup queued \cup dropped
  PROVE  CarriedInOrder'
<1>1. carries \in Seq(SUBSET Events) /\ Len(carries) \in Nat
  BY DEF CarryInv, LinkOK
<1>2. /\ carries'[Len(carries) + 1] = B
      /\ \A i \in DOMAIN carries : carries'[i] = carries[i]
      /\ DOMAIN carries' = 1..(Len(carries) + 1)
      /\ DOMAIN carries = 1..Len(carries)
  BY <1>1
<1> SUFFICES ASSUME NEW i \in DOMAIN carries', NEW x \in carries'[i], x.path # 0,
                    NEW j \in 1..(x.k - 1)
             PROVE  \E y \in Events : /\ Line(y, x, j)
                                      /\ \/ y \in dropped'
                                         \/ \E h \in 1..i : y \in carries'[h]
  BY DEF CarriedInOrder, Earlier
<1>3. CASE i \in DOMAIN carries
  <2>1. x \in carries[i]
    BY <1>2, <1>3
  <2>2. PICK y \in Events : /\ Line(y, x, j)
                            /\ y \in dropped \/ \E h \in 1..i : y \in carries[h]
    BY <1>3, <2>1 DEF CarriedInOrder, Earlier
  <2>3. ASSUME NEW h \in 1..i, y \in carries[h] PROVE y \in carries'[h]
    <3>1. h \in DOMAIN carries
      BY <1>1, <1>2, <1>3
    <3> QED BY <1>2, <2>3, <3>1
  <2> QED BY <2>2, <2>3
<1>4. CASE i \notin DOMAIN carries
  <2>1. i = Len(carries) + 1 /\ x \in B
    BY <1>1, <1>2, <1>4
  <2>2. PICK y \in Events : Line(y, x, j) /\ y \in B \cup queued \cup dropped
    BY <2>1
  <2>3. CASE y \in B
    <3>1. i \in 1..i
      BY <1>1, <2>1
    <3> QED BY <1>2, <2>1, <2>2, <2>3, <3>1
  <2>4. CASE y \in queued
    <3>1. PICK h \in DOMAIN carries : y \in carries[h]
      BY <2>4 DEF CarryInv, QueuedIsCarried
    <3>2. h \in 1..i
      BY <1>1, <1>2, <2>1
    <3> QED BY <1>2, <2>2, <3>1, <3>2
  <2> QED BY <2>2, <2>3, <2>4
<1> QED BY <1>3, <1>4

LEMMA OrderStep ==
  TypeOK /\ CarryInv /\ SeqInv /\ CarriedInOrder /\ [UpNext]_upVars
    => CarriedInOrder'
<1> SUFFICES ASSUME TypeOK, CarryInv, SeqInv, CarriedInOrder, [UpNext]_upVars
             PROVE  CarriedInOrder'
  OBVIOUS
<1>1. dropped \subseteq dropped'
  <2>1. Next \/ UNCHANGED vars
    BY IngestStep
  <2> QED BY <2>1
          DEF Next, Worker, Scanner, Environment, Remove, Upload, Inform,
              EmitEvent, Crash, ScanStart, SkipSeen, RewriteFound, Defer,
              StampEntry, FinishEntry, ReadUpload, ScanGone, ForgetGone,
              FilterMarks, FlushPending, DrainFTP, DrainEvents, EnqueuePart,
              DropPart, InsertFailed, vars, disk
<1>2. LinkOK
  BY DEF CarryInv
<1>3. ASSUME NEW e \in 1..Len(batch), NEW n \in Sizes, NEW b \in Rejectable,
             InsertBody(e, n, b)
      PROVE  CarriedInOrder'
  <2> DEFINE B == Span(batch, start, e)
  <2>1. batch \in Seq(Events) /\ start \in Nat /\ e \in Nat /\ B \in SUBSET Events
    BY SpanType DEF TypeOK, WorkType
  <2>2. carries' = Append(carries, B)
    BY <1>3 DEF InsertBody
  <2>3. ASSUME NEW x \in B, x.path # 0, NEW j \in 1..(x.k - 1)
        PROVE  \E y \in Events : Line(y, x, j) /\ y \in B \cup queued \cup dropped
    <3>1. PICK i \in DOMAIN batch : x = batch[i] /\ start < i /\ i <= e
      BY DEF Span
    <3>2. PICK m \in DOMAIN batch : m < i /\ Line(batch[m], x, j)
      BY <2>3, <3>1 DEF SeqInv, InOrder
    <3>3. batch[m] \in Events /\ m \in Nat /\ i \in Nat /\ 0 < m
      BY <2>1
    <3>4. CASE m <= start
      BY <3>2, <3>3, <3>4 DEF SeqInv, Span, HandedOff
    <3>5. CASE start < m
      <4>1. m <= e
        BY <2>1, <3>1, <3>2, <3>3
      <4> QED BY <3>2, <3>3, <3>5, <4>1 DEF Span
    <3> QED BY <2>1, <3>3, <3>4, <3>5
  <2> HIDE DEF B
  <2> QED BY <1>1, <2>1, <2>2, <2>3, AppendInOrder
<1>4. ASSUME NEW n \in Sizes, NEW b \in Rejectable, pushMetrics(n, b)
      PROVE  CarriedInOrder'
  <2>1. carries' = Append(carries, {})
    BY <1>4 DEF pushMetrics
  <2> QED BY <1>1, <2>1, AppendInOrder
<1>5. CASE UNCHANGED carries
  BY <1>1, <1>5 DEF CarriedInOrder, Earlier
<1> QED BY <1>2, <1>3, <1>4, <1>5, LinkSteps

LEMMA OrderInit == UpInit => CarriedInOrder
BY DEF UpInit, CarriedInOrder

LEMMA OrderHolds == UpSpec => []CarriedInOrder
BY OrderInit, OrderStep, IngestFacts, CarryHolds, SeqHolds, PTL DEF UpSpec

\* The cloud has no line of a log without the lines before it, except those in
\* bodies the cap evicted or refused: however splitTelemetry cuts, whichever
\* inserts, sends and deletes fail, and however often a log is parsed again.
THEOREM UpstreamLinesInOrder == UpSpec => []LinesInOrder
<1>1. ASSUME LinkOK, CarriedInOrder, Given, OP!TypeOK, OP!NothingLost,
             OP!StrictFifo
      PROVE  LinesInOrder
  <2>1. /\ DOMAIN carries = 1..(nextId - 1) /\ nextId \in Nat
        /\ received \subseteq Nat
    BY <1>1 DEF LinkOK, OP!TypeOK
  <2>2. ASSUME NEW i \in received, NEW x \in carries[i], x.path # 0,
               NEW j \in 1..(x.k - 1)
        PROVE  \E y \in AtCloud \cup Evicted \cup dropped : Line(y, x, j)
    <3>1. i \in DOMAIN carries /\ i \in Nat
      BY <1>1, <2>1 DEF Given
    <3>2. PICK y \in Events : /\ Line(y, x, j)
                              /\ y \in dropped \/ \E h \in 1..i : y \in carries[h]
      BY <1>1, <2>2, <3>1 DEF CarriedInOrder, Earlier
    <3>3. ASSUME NEW h \in 1..i, y \in carries[h] PROVE y \in AtCloud \cup Evicted
      <4>1. h \in 1..(nextId - 1) /\ h \in Nat
        BY <2>1, <3>1
      <4>2. h \in received \cup evicted
        <5>1. CASE h = i
          BY <5>1
        <5>2. CASE h # i
          <6>1. h < i
            BY <3>1, <4>1, <5>2
          <6>2. \A r \in outbox : r.id # h
            BY <1>1, <3>1, <4>1, <6>1 DEF OP!StrictFifo
          <6> QED BY <1>1, <4>1, <6>2 DEF OP!NothingLost, OP!Ids
        <5> QED BY <5>1, <5>2
      <4> QED BY <3>3, <4>2 DEF AtCloud, Evicted, CarriedBy
    <3> QED BY <3>2, <3>3
  <2>3. ASSUME NEW x \in AtCloud, x.path # 0, NEW j \in 1..(x.k - 1)
        PROVE  \E y \in AtCloud \cup Evicted \cup dropped : Line(y, x, j)
    <3>1. PICK i \in received : x \in carries[i]
      BY DEF AtCloud, CarriedBy
    <3> QED BY <2>2, <2>3, <3>1
  <2> QED BY <2>3 DEF LinesInOrder, Line
<1> QED BY <1>1, IngestFacts, OutboxFacts, CarryHolds, OrderHolds, UpstreamLinked,
           PTL

-----------------------------------------------------------------------------
(* Without a cap.                                                          *)

NothingTaken == evicted = {} /\ dropped = {}

LEMMA UncappedStep ==
  ASSUME MaxBytes = 0
  PROVE  NothingTaken /\ [UpNext]_upVars => NothingTaken'
<1> SUFFICES ASSUME NothingTaken, [UpNext]_upVars PROVE NothingTaken'
  OBVIOUS
<1>1. ASSUME NEW n, NEW b, O!EnqueueWithMarks(n, b) PROVE evicted' = evicted
  <2>1. O!evictOldest(n) = {{}}
    BY DEF O!evictOldest
  <2> QED BY <1>1, <2>1 DEF O!EnqueueWithMarks, O!Ids
<1>2. evicted' = evicted
  <2>1. CASE UNCHANGED tail
    BY <2>1 DEF tail
  <2>2. CASE O!flushOutbox \/ O!Crash
    BY <2>2 DEF O!flushOutbox, O!Drain, O!DeleteFailed, O!SendAccepted,
                O!SendRejected, O!SendFailed, O!DeleteSent, O!Crash, O!store
  <2>3. \/ UNCHANGED tail \/ O!flushOutbox \/ O!Crash
        \/ \E n \in Sizes, b \in Rejectable : O!EnqueueWithMarks(n, b)
    BY Zenon
       DEF UpNext, upVars, pushTier, StartPush, PushAside, RefuseBody,
           InsertBody, pushMetrics, flushOutbox, scanFTP, Outside, Restart
  <2> QED BY <1>1, <2>1, <2>2, <2>3
<1>3. dropped' = dropped
  <2>1. \A n \in Sizes : O!Admissible(n)
    BY DEF O!Admissible
  <2>2. ~ \E e \in 1..Len(batch) : RefuseBody(e)
    BY <2>1 DEF RefuseBody
  <2>3. CASE pushTier
    BY <2>2, <2>3 DEF pushTier, StartPush, PushAside, InsertBody, DrainFTP,
                      DrainEvents, InsertFailed, EnqueuePart, disk
  <2>4. CASE scanFTP
    BY <2>4 DEF scanFTP, Scanner, ScanStart, SkipSeen, RewriteFound, Defer,
                StampEntry, FinishEntry, ReadUpload, ScanGone, ForgetGone,
                FilterMarks, FlushPending, disk
  <2>5. CASE Outside \/ Restart
    BY <2>5 DEF Outside, Restart, Environment, Remove, Upload, Inform,
                EmitEvent, Crash, disk
  <2>6. CASE \/ \E n \in Sizes, b \in Rejectable : pushMetrics(n, b)
             \/ flushOutbox \/ UNCHANGED upVars
    BY <2>6 DEF pushMetrics, flushOutbox, upVars, vars, disk
  <2> QED BY <2>3, <2>4, <2>5, <2>6 DEF UpNext
<1> QED BY <1>2, <1>3 DEF NothingTaken

\* With buffer_max_bytes = 0 there is no way out but the cloud: every event of
\* an upload that the ledger records waits in the outbox or has arrived.
THEOREM UncappedLosesNothing ==
  ASSUME MaxBytes = 0
  PROVE  UpSpec => [](\A p \in Paths :
           (ledger[p] = dir[p].ver /\ HasEvents(dir[p]))
             => EventsIn(p, dir[p]) \subseteq Waiting \cup AtCloud)
<1>1. UpInit => NothingTaken
  BY DEF UpInit, Init, O!Init, NothingTaken
<1>2. NothingTaken /\ [UpNext]_upVars => NothingTaken'
  BY UncappedStep
<1>3. RecordedIsCarried /\ NothingTaken =>
        \A p \in Paths : (ledger[p] = dir[p].ver /\ HasEvents(dir[p]))
          => EventsIn(p, dir[p]) \subseteq Waiting \cup AtCloud
  BY DEF RecordedIsCarried, NothingTaken, Evicted, CarriedBy
<1> QED BY <1>1, <1>2, <1>3, UpstreamRecordedIsCarried, PTL DEF UpSpec
=============================================================================
