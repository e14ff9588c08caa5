--------------------------- MODULE FtpIngestProofs ---------------------------
(***************************************************************************)
(* Proofs about FtpIngest, for every set of paths, every number of events  *)
(* per log, every retry limit and every number of faults and restarts.     *)
(***************************************************************************)
EXTENDS FtpIngest, SequenceTheorems, TLAPS

USE ConstantsAssumption

-----------------------------------------------------------------------------
(* Facts about the helpers.                                                *)

LEMMA UpsertedType ==
  ASSUME NEW l, NEW ms, NEW m \in Upserted(l, ms)
  PROVE  m \in [Paths -> Vers]
BY DEF Upserted

LEMMA WithoutType ==
  ASSUME NEW T, 0 \in T, NEW f \in [Paths -> T], NEW ps
  PROVE  Without(f, ps) \in [Paths -> T]
BY DEF Without

LEMMA ParseType ==
  ASSUME NEW p \in Paths, NEW f \in Files
  PROVE  parseUpload(p, f) \in Seq(Events)
<1>1. CASE HasEvents(f)
  <2>1. \A k \in 1..PerFile : LogEvent(p, f, k) \in Events
    BY DEF LogEvent, Events, Files, Vers
  <2>2. PerFile \in Nat
    OBVIOUS
  <2> QED BY <1>1, <2>1, <2>2 DEF parseUpload
<1>2. CASE ~HasEvents(f)
  BY <1>2 DEF parseUpload
<1> QED BY <1>1, <1>2

LEMMA MarksInType ==
  ASSUME NEW i, NEW j, marks \subseteq EventMarks
  PROVE  MarksIn(i, j) \subseteq Marks
BY DEF MarksIn, Strip, Marks, EventMarks

LEMMA SpanType ==
  ASSUME NEW s \in Seq(Events), NEW i, NEW j
  PROVE  Span(s, i, j) \subseteq Events
BY DEF Span

-----------------------------------------------------------------------------
(* Type correctness.                                                       *)

LEMMA ZeroType == 0 \in Vers /\ [ver |-> 0, body |-> "gone"] \in Files
BY DEF Vers, Files, Bodies

LEMMA InitType == Init => TypeOK
<1> SUFFICES ASSUME Init PROVE TypeOK
  OBVIOUS
<1>1. WorldType /\ DiskType
  BY ZeroType DEF Init, WorldType, DiskType
<1>2. SharedType /\ WorkType /\ BoundsType
  BY DEF Init, SharedType, WorkType, BoundsType
<1>3. BooksType
  BY ZeroType DEF Init, BooksType
<1>4. LoopType
  BY ZeroType DEF Init, LoopType
<1> QED BY <1>1, <1>2, <1>3, <1>4 DEF TypeOK

LEMMA EnvironmentType == TypeOK /\ Environment => TypeOK'
<1> SUFFICES ASSUME TypeOK, Environment PROVE TypeOK'
  OBVIOUS
<1> USE DEF TypeOK
<1>1. ASSUME NEW p \in Paths, Remove(p) PROVE TypeOK'
  <2>1. WorldType'
    BY <1>1 DEF Remove, WorldType, Files, Bodies, disk
  <2>2. /\ DiskType' /\ SharedType' /\ BooksType' /\ LoopType' /\ WorkType'
        /\ BoundsType'
    BY <1>1 DEF Remove, DiskType, SharedType, BooksType, LoopType, WorkType,
                BoundsType, disk, shared, books, loop, work, bounds
  <2> QED BY <2>1, <2>2
<1>2. ASSUME NEW p \in Paths, NEW b \in Bodies, Upload(p, b) PROVE TypeOK'
  <2>1. WorldType'
    BY <1>2 DEF Upload, WorldType, Files, Vers, disk
  <2>2. /\ DiskType' /\ SharedType' /\ BooksType' /\ LoopType' /\ WorkType'
        /\ BoundsType'
    BY <1>2 DEF Upload, DiskType, SharedType, BooksType, LoopType, WorkType,
                BoundsType, disk, shared, books, loop, work, bounds
  <2> QED BY <2>1, <2>2
<1>3. ASSUME NEW d \in Devices, Inform(d) PROVE TypeOK'
  BY <1>3 DEF Inform, WorldType, DiskType, SharedType, BooksType, LoopType,
              WorkType, BoundsType, shared, books, loop, work, bounds
<1>4. CASE EmitEvent
  <2>1. AtcEvent(atcs + 1) \in Events
    BY DEF AtcEvent, Events, BoundsType
  <2>2. DiskType' /\ BoundsType'
    BY <1>4, <2>1 DEF EmitEvent, DiskType, BoundsType
  <2>3. WorldType' /\ SharedType' /\ BooksType' /\ LoopType' /\ WorkType'
    BY <1>4 DEF EmitEvent, WorldType, SharedType, BooksType, LoopType,
                WorkType, shared, books, loop, work
  <2> QED BY <2>2, <2>3
<1>5. CASE Crash
  <2>1. PICK loaded \in LedgerModes : Boot(ledger, loaded)
    BY <1>5 DEF Crash
  <2>2. WorldType' /\ DiskType' /\ BoundsType'
    BY <1>5 DEF Crash, WorldType, DiskType, BoundsType, disk
  <2>3. SharedType' /\ WorkType'
    BY <2>1 DEF Boot, SharedType, WorkType
  <2>4. BooksType'
    BY <2>1, ZeroType DEF Boot, Restored, BooksType, DiskType
  <2>5. LoopType'
    BY <2>1, ZeroType DEF Boot, LoopType
  <2> QED BY <2>2, <2>3, <2>4, <2>5
<1> QED BY <1>1, <1>2, <1>3, <1>4, <1>5 DEF Environment

LEMMA ScannerType == TypeOK /\ Scanner => TypeOK'
<1> SUFFICES ASSUME TypeOK, Scanner PROVE TypeOK'
  OBVIOUS
<1> USE DEF TypeOK, disk, shared, books, loop, work, bounds
<1>1. CASE ScanStart
  <2>1. takeRequeued(seenPaths, requeued) \in [Paths -> Vers]
    BY ZeroType DEF takeRequeued, BooksType
  <2>2. (scans + 1) % RewriteCheckTicks \in 0..(RewriteCheckTicks - 1)
    BY DEF BooksType
  <2>3. WorldType' /\ DiskType' /\ WorkType'
    BY <1>1 DEF ScanStart, WorldType, DiskType, WorkType
  <2>4. SharedType' /\ BoundsType'
    BY <1>1 DEF ScanStart, SharedType, BoundsType, Fault
  <2>5. BooksType'
    BY <1>1, <2>1, <2>2 DEF ScanStart, BooksType
  <2>6. LoopType'
    <3>1. CASE UNCHANGED loop
      BY <3>1 DEF LoopType
    <3>2. CASE ~UNCHANGED loop
      <4>1. /\ spc' = "scan" /\ checkRewrites' = (scans = 0)
            /\ present' \subseteq Paths /\ todo' \subseteq Paths
            /\ UNCHANGED <<stamp, content, gone>>
        BY <1>1, <3>2 DEF ScanStart
      <4>2. checkRewrites' \in BOOLEAN
        BY <4>1
      <4> QED BY <4>1, <4>2 DEF LoopType
    <3> QED BY <3>1, <3>2
  <2> QED BY <2>3, <2>4, <2>5, <2>6
<1>2. ASSUME NEW p \in Paths, SkipSeen(p) PROVE TypeOK'
  BY <1>2 DEF SkipSeen, WorldType, DiskType, SharedType, BooksType, LoopType,
              WorkType, BoundsType
<1>3. ASSUME NEW p \in Paths, RewriteFound(p) PROVE TypeOK'
  <2>1. BooksType'
    BY <1>3, ZeroType DEF RewriteFound, BooksType
  <2>2. /\ WorldType' /\ DiskType' /\ SharedType' /\ LoopType' /\ WorkType'
        /\ BoundsType'
    BY <1>3 DEF RewriteFound, WorldType, DiskType, SharedType, LoopType,
                WorkType, BoundsType
  <2> QED BY <2>1, <2>2
<1>4. ASSUME NEW p \in Paths, Defer(p) PROVE TypeOK'
  <2>1. BooksType'
    BY <1>4 DEF Defer, Tick, BooksType
  <2>2. /\ WorldType' /\ DiskType' /\ SharedType' /\ LoopType' /\ WorkType'
        /\ BoundsType'
    BY <1>4 DEF Defer, WorldType, DiskType, SharedType, LoopType, WorkType,
                BoundsType
  <2> QED BY <2>1, <2>2
<1>5. ASSUME NEW p \in Paths, StampEntry(p) PROVE TypeOK'
  <2>1. dir[p].ver \in Vers
    BY DEF WorldType, Files
  <2>2. LoopType'
    BY <1>5, <2>1 DEF StampEntry, LoopType
  <2>3. /\ WorldType' /\ DiskType' /\ SharedType' /\ BooksType' /\ WorkType'
        /\ BoundsType'
    BY <1>5 DEF StampEntry, WorldType, DiskType, SharedType, BooksType,
                WorkType, BoundsType
  <2> QED BY <2>2, <2>3
<1>6. ASSUME NEW p \in Paths, FinishEntry(p) PROVE TypeOK'
  <2>1. parseUpload(p, content) \in Seq(Events)
    BY ParseType DEF LoopType
  <2>2. LoopType'
    BY <1>6, ZeroType DEF FinishEntry, LoopType
  <2>3. WorldType' /\ DiskType' /\ WorkType' /\ BoundsType'
    BY <1>6 DEF FinishEntry, WorldType, DiskType, WorkType, BoundsType
  <2>4. CASE Unreadable(content) /\ RetryLeft(p)
    <3>1. BooksType'
      BY <1>6, <2>4 DEF FinishEntry, RetryLeft, BooksType
    <3>2. SharedType'
      BY <1>6, <2>4 DEF FinishEntry, SharedType
    <3> QED BY <2>2, <2>3, <3>1, <3>2
  <2>5. CASE ~(Unreadable(content) /\ RetryLeft(p))
    <3>1. markSeen(p, stamp, parseUpload(p, content))
      BY <1>6, <2>5 DEF FinishEntry
    <3>2. events' \in Seq(Events)
      BY <2>1, <3>1 DEF markSeen, SharedType
    <3>3. Len(events) + Len(parseUpload(p, content)) \in Nat
      BY <2>1 DEF SharedType
    <3>4. eventMarks' \subseteq EventMarks
      BY <3>1, <3>3 DEF markSeen, EventMarks, FTPMark, SharedType, LoopType
    <3>5. SharedType'
      BY <1>6, <3>2, <3>4 DEF FinishEntry, SharedType
    <3>6. pendingMarks' \subseteq Marks
      BY <3>1 DEF markSeen, Marks, FTPMark, BooksType, LoopType
    <3>7. BooksType'
      BY <1>6, <3>1, <3>6 DEF FinishEntry, markSeen, BooksType, LoopType
    <3> QED BY <2>2, <2>3, <3>5, <3>7
  <2> QED BY <2>4, <2>5
<1>7. CASE ReadUpload
  <2>1. content' \in Files
    BY <1>7 DEF ReadUpload, WorldType, LoopType
  <2>2. LoopType'
    BY <1>7, <2>1 DEF ReadUpload, LoopType
  <2>3. /\ WorldType' /\ DiskType' /\ SharedType' /\ BooksType' /\ WorkType'
        /\ BoundsType'
    BY <1>7 DEF ReadUpload, WorldType, DiskType, SharedType, BooksType,
                WorkType, BoundsType
  <2> QED BY <2>2, <2>3
<1>8. CASE ScanGone
  <2>0. /\ 0 \in 0..(MaxDeferTicks + ResolveRetryTicks - 1)
        /\ 0 \in 0..(MaxParseRetries - 1)
    OBVIOUS
  <2>1. BooksType'
    <3>1. /\ Without(seenPaths, Paths \ present) \in [Paths -> Vers]
          /\ Without(deferred, Paths \ present) \in
               [Paths -> 0..(MaxDeferTicks + ResolveRetryTicks - 1)]
          /\ Without(parseFails, Paths \ present) \in
               [Paths -> 0..(MaxParseRetries - 1)]
      BY <2>0, WithoutType, ZeroType DEF BooksType
    <3> QED BY <1>8, <3>1 DEF ScanGone, BooksType
  <2>2. LoopType'
    BY <1>8 DEF ScanGone, LoopType
  <2>3. WorldType' /\ DiskType' /\ SharedType' /\ WorkType' /\ BoundsType'
    BY <1>8 DEF ScanGone, WorldType, DiskType, SharedType, WorkType,
                BoundsType
  <2> QED BY <2>1, <2>2, <2>3
<1>9. CASE ForgetGone
  <2>1. ledger' \in [Paths -> Vers]
    BY <1>9, WithoutType, ZeroType DEF ForgetGone, DiskType
  <2>2. DiskType' /\ BoundsType'
    BY <1>9, <2>1 DEF ForgetGone, DiskType, BoundsType, Fault
  <2>3. WorldType' /\ SharedType' /\ BooksType' /\ LoopType' /\ WorkType'
    BY <1>9 DEF ForgetGone, WorldType, SharedType, BooksType, LoopType,
                WorkType
  <2> QED BY <2>2, <2>3
<1>10. CASE FilterMarks
  <2>1. SharedType' /\ BooksType'
    BY <1>10 DEF FilterMarks, keepPresent, SharedType, BooksType
  <2>2. WorldType' /\ DiskType' /\ LoopType' /\ WorkType' /\ BoundsType'
    BY <1>10 DEF FilterMarks, WorldType, DiskType, LoopType, WorkType,
                 BoundsType
  <2> QED BY <2>1, <2>2
<1>11. CASE FlushPending
  <2>1. ledger' \in [Paths -> Vers]
    BY <1>11, UpsertedType DEF FlushPending
  <2>2. DiskType' /\ BoundsType'
    BY <1>11, <2>1 DEF FlushPending, DiskType, BoundsType, Fault
  <2>3. BooksType'
    BY <1>11 DEF FlushPending, BooksType
  <2>4. WorldType' /\ SharedType' /\ LoopType' /\ WorkType'
    BY <1>11 DEF FlushPending, WorldType, SharedType, LoopType, WorkType
  <2> QED BY <2>2, <2>3, <2>4
<1> QED BY <1>1, <1>2, <1>3, <1>4, <1>5, <1>6, <1>7, <1>8, <1>9, <1>10,
           <1>11 DEF Scanner

LEMMA AdvanceType ==
  ASSUME WorkType, NEW e \in 1..Len(batch), Advance(e)
  PROVE  WorkType'
<1>1. CASE e = Len(batch)
  BY <1>1 DEF Advance, EndBatch, WorkType
<1>2. CASE e # Len(batch)
  BY <1>2 DEF Advance, WorkType
<1> QED BY <1>1, <1>2

LEMMA WorkerType == TypeOK /\ Worker => TypeOK'
<1> SUFFICES ASSUME TypeOK, Worker PROVE TypeOK'
  OBVIOUS
<1> USE DEF TypeOK, disk, shared, books, loop, work, bounds
<1>1. CASE DrainFTP
  BY <1>1 DEF DrainFTP, WorldType, DiskType, SharedType, BooksType, LoopType,
              WorkType, BoundsType
<1>2. CASE DrainEvents
  <2> DEFINE n == IF Len(cwmpEvents) < EventLimit THEN Len(cwmpEvents)
                  ELSE EventLimit
             rows == SubSeq(cwmpEvents, 1, n)
             rest == SubSeq(cwmpEvents, n + 1, Len(cwmpEvents))
  <2>0. n \in 0..Len(cwmpEvents)
    BY DEF DiskType
  <2>1. \/ batch' = Joined(batch, rows) /\ cwmpEvents' = rest
           /\ UNCHANGED faults
        \/ Fault /\ UNCHANGED <<batch, cwmpEvents>>
        \/ Fault /\ \E i \in 1..n :
             /\ batch' = Joined(batch, Updated(rows, i))
             /\ cwmpEvents' = <<rows[i]>> \o rest
    BY <1>2 DEF DrainEvents
  <2> HIDE DEF n
  <2>2. /\ rows \in Seq(Events) /\ Len(rows) = n
        /\ rest \in Seq(Events)
    BY <2>0 DEF DiskType
  <2> HIDE DEF rows, rest
  <2>3. ASSUME NEW i \in 1..n
        PROVE  /\ Updated(rows, i) \in Seq(Events)
               /\ rows[i] \in Events /\ <<rows[i]>> \o rest \in Seq(Events)
    BY <2>0, <2>2 DEF Updated
  <2>4. batch' \in Seq(Events) /\ cwmpEvents' \in Seq(Events)
    <3>1. CASE batch' = Joined(batch, rows) /\ cwmpEvents' = rest
      BY <2>2, <3>1 DEF Joined, WorkType
    <3>2. CASE UNCHANGED <<batch, cwmpEvents>>
      BY <3>2 DEF WorkType, DiskType
    <3>3. ASSUME NEW i \in 1..n, batch' = Joined(batch, Updated(rows, i)),
                 cwmpEvents' = <<rows[i]>> \o rest
          PROVE  batch' \in Seq(Events) /\ cwmpEvents' \in Seq(Events)
      BY <2>3, <3>3 DEF Joined, WorkType
    <3> QED BY <2>1, <3>1, <3>2, <3>3
  <2>5. BoundsType'
    BY <1>2, <2>1 DEF DrainEvents, Fault, BoundsType
  <2>6. DiskType' /\ WorkType'
    BY <1>2, <2>4 DEF DrainEvents, DiskType, WorkType
  <2>7. WorldType' /\ SharedType' /\ BooksType' /\ LoopType'
    BY <1>2 DEF DrainEvents, WorldType, SharedType, BooksType, LoopType
  <2> QED BY <2>5, <2>6, <2>7
<1>3. CASE InsertFailed
  <2>1. requeued' \subseteq Marks
    BY <1>3, MarksInType DEF InsertFailed, NotQueued, SharedType, WorkType
  <2>2. SharedType' /\ WorkType' /\ BoundsType'
    BY <1>3, <2>1 DEF InsertFailed, EndBatch, Fault, SharedType, WorkType,
                      BoundsType
  <2>3. WorldType' /\ DiskType' /\ BooksType' /\ LoopType'
    BY <1>3 DEF InsertFailed, WorldType, DiskType, BooksType, LoopType
  <2> QED BY <2>2, <2>3
<1>4. ASSUME NEW e \in 1..Len(batch), EnqueuePart(e) PROVE TypeOK'
  <2>1. ledger' \in [Paths -> Vers]
    BY <1>4, UpsertedType DEF EnqueuePart
  <2>2. queued' \subseteq Events
    BY <1>4, SpanType DEF EnqueuePart, DiskType, WorkType
  <2>3. DiskType'
    BY <1>4, <2>1, <2>2 DEF EnqueuePart, DiskType
  <2>4. WorkType'
    BY <1>4, AdvanceType DEF EnqueuePart
  <2>5. WorldType' /\ SharedType' /\ BooksType' /\ LoopType' /\ BoundsType'
    BY <1>4 DEF EnqueuePart, WorldType, SharedType, BooksType, LoopType,
                BoundsType
  <2> QED BY <2>3, <2>4, <2>5
<1>5. ASSUME NEW e \in 1..Len(batch), DropPart(e) PROVE TypeOK'
  <2>1. ledger' \in [Paths -> Vers]
    BY <1>5, UpsertedType DEF DropPart, DiskType
  <2>2. requeued' \subseteq Marks
    BY <1>5, MarksInType DEF DropPart, SharedType, WorkType
  <2>3. dropped' \subseteq Events
    BY <1>5 DEF DropPart, DiskType, WorkType
  <2>4. DiskType' /\ SharedType'
    BY <1>5, <2>1, <2>2, <2>3 DEF DropPart, DiskType, SharedType
  <2>5. WorkType'
    BY <1>5, AdvanceType DEF DropPart
  <2>6. BoundsType'
    BY <1>5 DEF DropPart, Fault, BoundsType
  <2>7. WorldType' /\ BooksType' /\ LoopType'
    BY <1>5 DEF DropPart, WorldType, BooksType, LoopType
  <2> QED BY <2>4, <2>5, <2>6, <2>7
<1> QED BY <1>1, <1>2, <1>3, <1>4, <1>5 DEF Worker

LEMMA NextType == TypeOK /\ [Next]_vars => TypeOK'
<1>1. TypeOK /\ UNCHANGED vars => TypeOK'
  BY DEF TypeOK, WorldType, DiskType, SharedType, BooksType, LoopType,
         WorkType, BoundsType, vars, disk, shared, books, loop, work, bounds
<1> QED BY <1>1, EnvironmentType, ScannerType, WorkerType DEF Next

\* Every reachable state is type correct, whatever the constants: stamps stay
\* versions and the retry counters of scanFTP stay below their limits.
THEOREM TypeCorrect == Spec => []TypeOK
BY InitType, NextType, PTL DEF Spec

-----------------------------------------------------------------------------
(***************************************************************************)
(* The inductive invariant behind MarkedIsQueued and SeenAccounted.        *)
(*                                                                         *)
(* MarkedIsQueued speaks of the ledger only.  What keeps it true is that a *)
(* mark is "covered" everywhere it is on its way to the ledger: if it      *)
(* names the version now in the directory, the events of that version are  *)
(* handed off already, or precede the mark in the sequence it travels      *)
(* with.  A new upload makes a version no mark names yet, which is why the *)
(* invariant also bounds every stamp by the current version.               *)
(***************************************************************************)

Covered(p, v, S) ==
  (dir[p].ver = v /\ HasEvents(dir[p])) => EventsIn(p, dir[p]) \subseteq S

\* no stamp is ahead of the directory
StampsBehind ==
  /\ \A p \in Paths : ledger[p] <= dir[p].ver /\ seenPaths[p] <= dir[p].ver
  /\ \A p \in Paths : HasEvents(dir[p]) => dir[p].ver # 0
  /\ \A m \in pendingMarks : m.stamp <= dir[m.path].ver
  /\ \A m \in eventMarks : m.stamp <= dir[m.path].ver
  /\ \A m \in marks : m.stamp <= dir[m.path].ver

\* the file being handled was stamped before it was read
EntryStamped ==
  /\ spc \in {"parse", "mark"} =>
       \A p \in Paths : Entry(p) => stamp <= dir[p].ver
  /\ spc = "mark" =>
       \A p \in Paths : (Entry(p) /\ dir[p].ver = stamp /\ HasEvents(dir[p]))
                           => content = dir[p]

MarksCovered ==
  /\ \A p \in Paths : Covered(p, ledger[p], HandedOff)
  /\ \A m \in pendingMarks : Covered(m.path, m.stamp, HandedOff)
  /\ \A m \in eventMarks :
       /\ m.end <= Len(events)
       /\ Covered(m.path, m.stamp, HandedOff \cup Span(events, 0, m.end))
  /\ \A m \in marks :
       /\ m.end <= Len(batch)
       /\ Covered(m.path, m.stamp, HandedOff \cup Span(batch, start, m.end))
  /\ start <= Len(batch)

IndInv == TypeOK /\ StampsBehind /\ EntryStamped /\ MarksCovered

\* where the events of an upload that counts as seen are
Tracked(p) ==
  \/ EventsIn(p, dir[p]) \subseteq HandedOff
  \/ FTPMark(p, seenPaths[p]) \in requeued
  \/ \E m \in eventMarks : m.path = p /\ m.stamp = seenPaths[p]
  \/ \E m \in marks : m.path = p /\ m.stamp = seenPaths[p] /\ start < m.end

SeenTracked ==
  hasLedger => \A p \in Paths :
    (seenPaths[p] = dir[p].ver /\ HasEvents(dir[p])) => Tracked(p)

\* a scan forgets what rotated away before it filters the marks
GoneUnseen ==
  spc \in {"forget", "filter"} =>
    \A p \in Paths \ present : seenPaths[p] = 0

\* marks never come without events, and none is left behind
MarksInUse ==
  /\ \A m \in eventMarks \cup marks : 0 < m.end
  /\ wpc = "idle" => marks = {}

TrackInv == SeenTracked /\ GoneUnseen /\ MarksInUse

-----------------------------------------------------------------------------
(* Facts about the parts of the invariant.                                 *)

LEMMA UpsertedValue ==
  ASSUME NEW ms, ledger' \in Upserted(ledger, ms), NEW q \in Paths
  PROVE  \/ ledger'[q] = ledger[q]
         \/ \E x \in ms : x.path = q /\ ledger'[q] = x.stamp
BY DEF Upserted

LEMMA MarksInOrigin ==
  ASSUME NEW i, NEW j, NEW x \in MarksIn(i, j)
  PROVE  \E m \in marks : /\ m.path = x.path /\ m.stamp = x.stamp
                          /\ i < m.end /\ m.end <= j
BY DEF MarksIn, Strip

LEMMA SpanMono ==
  ASSUME NEW s, NEW i \in Nat, NEW j \in Nat, NEW k \in Nat, j <= k,
         DOMAIN s \subseteq Nat
  PROVE  Span(s, i, j) \subseteq Span(s, i, k)
BY DEF Span

LEMMA SpanAppend ==
  ASSUME NEW s \in Seq(Events), NEW t \in Seq(Events), NEW i \in Nat,
         NEW j \in Nat, j <= Len(s)
  PROVE  Span(s, i, j) \subseteq Span(s \o t, i, j)
<1> SUFFICES ASSUME NEW n \in DOMAIN s, i < n, n <= j
             PROVE  s[n] \in Span(s \o t, i, j)
  BY DEF Span
<1>1. n \in DOMAIN (s \o t) /\ (s \o t)[n] = s[n]
  OBVIOUS
<1> QED BY <1>1 DEF Span

core == <<dir, ledger, queued, dropped, events, eventMarks, pendingMarks,
          batch, marks, start>>

\* a step that touches neither the files nor the marks and their events
LEMMA CoreFrame ==
  ASSUME StampsBehind, MarksCovered, UNCHANGED core,
         \A p \in Paths : seenPaths'[p] <= dir[p].ver
  PROVE  StampsBehind' /\ MarksCovered'
<1>1. StampsBehind'
  BY DEF core, StampsBehind
<1>2. MarksCovered'
  BY DEF core, MarksCovered, Covered, HandedOff
<1> QED BY <1>1, <1>2

LEMMA LoopFrame ==
  ASSUME EntryStamped, UNCHANGED dir, UNCHANGED loop
  PROVE  EntryStamped'
BY DEF loop, EntryStamped, Entry

LEMMA LoopElsewhere ==
  ASSUME spc' \notin {"parse", "mark"}
  PROVE  EntryStamped'
BY DEF EntryStamped

LEMMA InitInv == Init => StampsBehind /\ EntryStamped /\ MarksCovered
<1> SUFFICES ASSUME Init PROVE StampsBehind /\ EntryStamped /\ MarksCovered
  OBVIOUS
<1>1. \A p \in Paths : ~HasEvents(dir[p])
  BY DEF Init, HasEvents
<1>2. StampsBehind
  BY <1>1 DEF Init, StampsBehind
<1>3. EntryStamped
  BY DEF Init, EntryStamped
<1>4. MarksCovered
  BY <1>1 DEF Init, MarksCovered, Covered
<1> QED BY <1>2, <1>3, <1>4

LEMMA EnvironmentInv ==
  IndInv /\ Environment => StampsBehind' /\ EntryStamped' /\ MarksCovered'
<1> SUFFICES ASSUME IndInv, Environment
             PROVE  StampsBehind' /\ EntryStamped' /\ MarksCovered'
  OBVIOUS
<1> USE DEF IndInv
<1>1. ASSUME NEW p \in Paths, NEW f \in Files,
             dir[p].ver < f.ver \/ (f.ver = dir[p].ver /\ ~HasEvents(f)),
             dir' = [dir EXCEPT ![p] = f],
             UNCHANGED <<disk, shared, books, loop, work>>
      PROVE  StampsBehind' /\ EntryStamped' /\ MarksCovered'
  <2>1. \A q \in Paths : /\ dir[q].ver \in Nat /\ dir'[q].ver \in Nat
                         /\ dir[q].ver <= dir'[q].ver
                         /\ q # p => dir'[q] = dir[q]
    BY <1>1 DEF TypeOK, WorldType, Files, Vers
  <2>2. StampsBehind'
    <3>1. \A q \in Paths, v \in Vers : v <= dir[q].ver => v <= dir'[q].ver
      BY <2>1 DEF Vers
    <3>2. \A q \in Paths : /\ ledger'[q] <= dir'[q].ver
                           /\ seenPaths'[q] <= dir'[q].ver
      BY <1>1, <3>1 DEF StampsBehind, TypeOK, DiskType, BooksType, disk, books
    <3>3. \A q \in Paths : HasEvents(dir'[q]) => dir'[q].ver # 0
      BY <1>1, <2>1 DEF StampsBehind, TypeOK, WorldType
    <3>4. \A m \in pendingMarks' : m.stamp <= dir'[m.path].ver
      BY <1>1, <3>1 DEF StampsBehind, TypeOK, BooksType, Marks, books
    <3>5. \A m \in eventMarks' : m.stamp <= dir'[m.path].ver
      BY <1>1, <3>1 DEF StampsBehind, TypeOK, SharedType, EventMarks, shared
    <3>6. \A m \in marks' : m.stamp <= dir'[m.path].ver
      BY <1>1, <3>1 DEF StampsBehind, TypeOK, WorkType, EventMarks, work
    <3> QED BY <3>2, <3>3, <3>4, <3>5, <3>6 DEF StampsBehind
  <2>3. \A q \in Paths, v \in Vers : \A S :
          (v <= dir[q].ver /\ Covered(q, v, S)) =>
            ((dir'[q].ver = v /\ HasEvents(dir'[q]))
               => EventsIn(q, dir'[q]) \subseteq S)
    BY <1>1, <2>1 DEF Covered, Vers
  <2>4. EntryStamped'
    <3>1. \A q \in Paths : Entry(q)' <=> Entry(q)
      BY <1>1 DEF Entry, loop
    <3>2. stamp \in Nat /\ UNCHANGED <<spc, stamp, content>>
      BY <1>1 DEF TypeOK, LoopType, Vers, loop
    <3>3. ASSUME spc \in {"parse", "mark"}, NEW q \in Paths, Entry(q)
          PROVE  stamp <= dir'[q].ver
      <4>1. stamp <= dir[q].ver
        BY <3>3 DEF EntryStamped
      <4>2. /\ dir[q].ver \in Nat /\ dir'[q].ver \in Nat
            /\ dir[q].ver <= dir'[q].ver
        BY <2>1, <3>3
      <4>3. stamp \in Nat
        BY <3>2
      <4> HIDE DEF IndInv
      <4> QED BY <4>1, <4>2, <4>3
    <3>4. ASSUME spc = "mark", NEW q \in Paths, Entry(q),
                 dir'[q].ver = stamp, HasEvents(dir'[q])
          PROVE  content = dir'[q]
      <4>1. stamp <= dir[q].ver
        BY <3>4 DEF EntryStamped
      <4>2. q # p
        BY <1>1, <2>1, <3>2, <3>4, <4>1 DEF TypeOK, WorldType
      <4> QED BY <2>1, <3>4, <4>2 DEF EntryStamped
    <3> QED BY <3>1, <3>2, <3>3, <3>4 DEF EntryStamped
  <2>5. MarksCovered'
    <3>1. /\ UNCHANGED <<ledger, pendingMarks, events, eventMarks, batch, marks,
                         start>>
          /\ HandedOff' = HandedOff
      BY <1>1 DEF HandedOff, disk, books, shared, work
    <3>2. \A q \in Paths : Covered(q, ledger[q], HandedOff)'
      BY <2>3, <3>1 DEF MarksCovered, Covered, StampsBehind, TypeOK, DiskType
    <3>3. ASSUME NEW m \in pendingMarks PROVE Covered(m.path, m.stamp, HandedOff)'
      <4>1. /\ m.path \in Paths /\ m.stamp \in Vers
            /\ m.stamp <= dir[m.path].ver
            /\ Covered(m.path, m.stamp, HandedOff)
        BY DEF TypeOK, BooksType, Marks, StampsBehind, MarksCovered
      <4> QED BY <2>3, <3>1, <4>1 DEF Covered
    <3>4. ASSUME NEW m \in eventMarks
          PROVE  Covered(m.path, m.stamp, HandedOff \cup Span(events, 0, m.end))'
      <4>1. /\ m.path \in Paths /\ m.stamp \in Vers
            /\ m.stamp <= dir[m.path].ver
            /\ Covered(m.path, m.stamp, HandedOff \cup Span(events, 0, m.end))
        BY DEF TypeOK, SharedType, EventMarks, StampsBehind, MarksCovered
      <4> QED BY <2>3, <3>1, <4>1 DEF Covered
    <3>5. ASSUME NEW m \in marks
          PROVE  Covered(m.path, m.stamp,
                         HandedOff \cup Span(batch, start, m.end))'
      <4>1. /\ m.path \in Paths /\ m.stamp \in Vers
            /\ m.stamp <= dir[m.path].ver
            /\ Covered(m.path, m.stamp, HandedOff \cup Span(batch, start, m.end))
        BY DEF TypeOK, WorkType, EventMarks, StampsBehind, MarksCovered
      <4> QED BY <2>3, <3>1, <4>1 DEF Covered
    <3> QED BY <3>1, <3>2, <3>3, <3>4, <3>5 DEF MarksCovered
  <2> QED BY <2>2, <2>4, <2>5
<1>2. ASSUME NEW p \in Paths, Remove(p)
      PROVE  StampsBehind' /\ EntryStamped' /\ MarksCovered'
  <2> DEFINE f == [dir[p] EXCEPT !.body = "gone"]
  <2>1. /\ f \in Files /\ f.ver = dir[p].ver /\ ~HasEvents(f)
        /\ dir' = [dir EXCEPT ![p] = f]
    BY <1>2 DEF Remove, TypeOK, WorldType, Files, Bodies, HasEvents
  <2> QED BY <1>1, <1>2, <2>1 DEF Remove
<1>3. ASSUME NEW p \in Paths, NEW b \in Bodies, Upload(p, b)
      PROVE  StampsBehind' /\ EntryStamped' /\ MarksCovered'
  <2>1. PICK f \in Files : /\ dir[p].ver < f.ver
                           /\ dir' = [dir EXCEPT ![p] = f]
    <3> DEFINE g == [ver |-> dir[p].ver + 1, body |-> b]
    <3>1. g \in Files /\ dir[p].ver < g.ver
      BY <1>3 DEF Upload, TypeOK, WorldType, Files, Vers
    <3>2. dir' = [dir EXCEPT ![p] = g]
      BY <1>3 DEF Upload
    <3> HIDE DEF g
    <3> QED BY <3>1, <3>2
  <2>2. UNCHANGED <<disk, shared, books, loop, work>>
    BY <1>3 DEF Upload
  <2> QED BY <1>1, <2>1, <2>2
<1>4. ASSUME NEW d \in Devices, Inform(d)
      PROVE  StampsBehind' /\ EntryStamped' /\ MarksCovered'
  <2>1. UNCHANGED core /\ UNCHANGED loop /\ UNCHANGED seenPaths
    BY <1>4 DEF Inform, core, disk, shared, books, loop, work
  <2> QED BY <2>1, CoreFrame, LoopFrame DEF core, StampsBehind
<1>5. CASE EmitEvent
  <2>1. UNCHANGED core /\ UNCHANGED loop /\ UNCHANGED seenPaths
    BY <1>5 DEF EmitEvent, core, disk, shared, books, loop, work
  <2> QED BY <2>1, CoreFrame, LoopFrame DEF core, StampsBehind
<1>6. CASE Crash
  <2>1. PICK loaded \in LedgerModes : Boot(ledger, loaded)
    BY <1>6 DEF Crash
  <2>2. UNCHANGED <<dir, ledger, queued, dropped>>
    BY <1>6 DEF Crash, disk
  <2>3. EntryStamped'
    BY <2>1, LoopElsewhere DEF Boot
  <2>4. StampsBehind'
    BY <2>1, <2>2 DEF Boot, Restored, StampsBehind, TypeOK, WorldType, Files,
                      Vers
  <2>5. MarksCovered'
    BY <2>1, <2>2 DEF Boot, MarksCovered, Covered, HandedOff
  <2> QED BY <2>3, <2>4, <2>5
<1> QED BY <1>2, <1>3, <1>4, <1>5, <1>6 DEF Environment

\* marks whose versions are covered keep the ledger covered
LEMMA UpsertCovered ==
  ASSUME TypeOK, StampsBehind, NEW S, NEW ms, ledger' \in Upserted(ledger, ms),
         UNCHANGED dir,
         \A q \in Paths : Covered(q, ledger[q], S),
         \A x \in ms : /\ x.stamp <= dir[x.path].ver
                        /\ Covered(x.path, x.stamp, S)
  PROVE  \A q \in Paths : ledger'[q] <= dir[q].ver /\ Covered(q, ledger'[q], S)
<1> SUFFICES ASSUME NEW q \in Paths
             PROVE  ledger'[q] <= dir[q].ver /\ Covered(q, ledger'[q], S)
  OBVIOUS
<1>1. CASE ledger'[q] = ledger[q]
  BY <1>1 DEF StampsBehind
<1>2. ASSUME NEW x \in ms, x.path = q, ledger'[q] = x.stamp
      PROVE  ledger'[q] <= dir[q].ver /\ Covered(q, ledger'[q], S)
  <2>1. x.stamp <= dir[x.path].ver /\ Covered(x.path, x.stamp, S)
    OBVIOUS
  <2> QED BY <1>2, <2>1
<1>3. ledger'[q] = ledger[q] \/ \E x \in ms : x.path = q /\ ledger'[q] = x.stamp
  BY UpsertedValue
<1> QED BY <1>1, <1>2, <1>3

LEMMA FinishEntryInv ==
  ASSUME IndInv, NEW p \in Paths, FinishEntry(p)
  PROVE  StampsBehind' /\ EntryStamped' /\ MarksCovered'
<1> USE DEF IndInv
<1>1. /\ spc = "mark" /\ Entry(p) /\ spc' = "scan"
      /\ UNCHANGED <<dir, ledger, queued, dropped, batch, marks, start>>
  BY DEF FinishEntry, disk, work
<1>2. EntryStamped'
  BY <1>1, LoopElsewhere
<1>3. CASE Unreadable(content) /\ RetryLeft(p)
  <2>1. UNCHANGED core /\ UNCHANGED seenPaths
    BY <1>1, <1>3 DEF FinishEntry, core
  <2> QED BY <1>2, <2>1, CoreFrame DEF StampsBehind
<1>4. CASE ~(Unreadable(content) /\ RetryLeft(p))
  <2> DEFINE evs == parseUpload(p, content)
  <2>1. markSeen(p, stamp, evs)
    BY <1>4 DEF FinishEntry
  <2>2. stamp <= dir[p].ver
    BY <1>1 DEF EntryStamped
  <2>3. evs \in Seq(Events) /\ events \in Seq(Events)
    BY ParseType DEF TypeOK, LoopType, SharedType
  <2>4. ASSUME dir[p].ver = stamp, HasEvents(dir[p])
        PROVE  /\ evs # << >>
               /\ EventsIn(p, dir[p]) \subseteq
                    Span(events \o evs, 0, Len(events) + Len(evs))
    <3>1. content = dir[p]
      BY <1>1, <2>4 DEF EntryStamped
    <3>2. evs = [k \in 1..PerFile |-> LogEvent(p, dir[p], k)]
      BY <2>4, <3>1 DEF parseUpload
    <3>3. Len(evs) = PerFile /\ \A k \in 1..PerFile : evs[k] = LogEvent(p, dir[p], k)
      BY <2>3, <3>2
    <3> HIDE DEF evs
    <3>4. ASSUME NEW k \in 1..PerFile
          PROVE  /\ Len(events) + k \in DOMAIN (events \o evs)
                 /\ (events \o evs)[Len(events) + k] = LogEvent(p, dir[p], k)
                 /\ 0 < Len(events) + k /\ Len(events) + k <= Len(events) + Len(evs)
      BY <2>3, <3>3
    <3>5. EventsIn(p, dir[p]) \subseteq
            Span(events \o evs, 0, Len(events) + Len(evs))
      BY <3>4 DEF EventsIn, Span
    <3> QED BY <3>3, <3>5
  <2> HIDE DEF evs
  <2>5. StampsBehind'
    <3>1. \A q \in Paths : seenPaths'[q] <= dir'[q].ver
      BY <1>1, <2>1, <2>2 DEF markSeen, StampsBehind, TypeOK, BooksType
    <3>2. \A m \in pendingMarks' : m.stamp <= dir'[m.path].ver
      BY <1>1, <2>1, <2>2 DEF markSeen, FTPMark, StampsBehind
    <3>3. \A m \in eventMarks' : m.stamp <= dir'[m.path].ver
      BY <1>1, <2>1, <2>2 DEF markSeen, FTPMark, StampsBehind
    <3> QED BY <1>1, <3>1, <3>2, <3>3 DEF StampsBehind
  <2>6. MarksCovered'
    <3>1. HandedOff' = HandedOff
      BY <1>1 DEF HandedOff
    <3>2. \A m \in pendingMarks' : Covered(m.path, m.stamp, HandedOff)'
      BY <1>1, <2>1, <2>4, <3>1 DEF markSeen, FTPMark, MarksCovered, Covered
    <3>3. ASSUME NEW m \in eventMarks'
          PROVE  /\ m.end <= Len(events')
                 /\ Covered(m.path, m.stamp, HandedOff \cup Span(events, 0, m.end))'
      <4>1. events' = events \o evs /\ Len(events') = Len(events) + Len(evs)
        BY <2>1, <2>3 DEF markSeen
      <4>2. CASE m \in eventMarks
        <5>1. /\ m.end \in Nat /\ m.end <= Len(events)
              /\ Covered(m.path, m.stamp, HandedOff \cup Span(events, 0, m.end))
          BY <4>2 DEF MarksCovered, TypeOK, SharedType, EventMarks
        <5>2. Span(events, 0, m.end) \subseteq Span(events', 0, m.end)
          BY <2>3, <4>1, <5>1, SpanAppend
        <5>3. m.end <= Len(events')
          BY <2>3, <4>1, <5>1
        <5> QED BY <1>1, <3>1, <5>1, <5>2, <5>3 DEF Covered
      <4>3. CASE m \notin eventMarks
        <5>1. /\ m.path = p /\ m.stamp = stamp
              /\ m.end = Len(events) + Len(evs)
          BY <2>1, <4>3 DEF markSeen, FTPMark
        <5> QED BY <1>1, <2>3, <2>4, <4>1, <5>1 DEF Covered
      <4> QED BY <4>2, <4>3
    <3> QED BY <1>1, <3>1, <3>2, <3>3 DEF MarksCovered, Covered
  <2> QED BY <1>2, <2>5, <2>6
<1> QED BY <1>3, <1>4

LEMMA ScannerInv ==
  IndInv /\ Scanner => StampsBehind' /\ EntryStamped' /\ MarksCovered'
<1> SUFFICES ASSUME IndInv, Scanner
             PROVE  StampsBehind' /\ EntryStamped' /\ MarksCovered'
  OBVIOUS
<1> USE DEF IndInv
<1>1. CASE ScanStart
  <2>1. UNCHANGED core
    BY <1>1 DEF ScanStart, core, disk, work
  <2>2. \A p \in Paths : seenPaths'[p] <= dir[p].ver
    BY <1>1 DEF ScanStart, takeRequeued, StampsBehind, TypeOK, WorldType,
                Files, Vers
  <2>3. EntryStamped'
    BY <1>1, LoopElsewhere DEF ScanStart, loop
  <2> QED BY <2>1, <2>2, <2>3, CoreFrame
<1>2. ASSUME NEW p \in Paths, SkipSeen(p) \/ RewriteFound(p) \/ Defer(p)
      PROVE  StampsBehind' /\ EntryStamped' /\ MarksCovered'
  <2>1. UNCHANGED core
    BY <1>2 DEF SkipSeen, RewriteFound, Defer, core, disk, shared, books, work
  <2>2. \A q \in Paths : seenPaths'[q] <= dir[q].ver
    BY <1>2 DEF SkipSeen, RewriteFound, Defer, books, StampsBehind, TypeOK,
                BooksType, WorldType, Files, Vers
  <2>3. EntryStamped'
    BY <1>2, LoopElsewhere DEF SkipSeen, RewriteFound, Defer, loop
  <2> QED BY <2>1, <2>2, <2>3, CoreFrame
<1>3. ASSUME NEW p \in Paths, StampEntry(p)
      PROVE  StampsBehind' /\ EntryStamped' /\ MarksCovered'
  <2>1. UNCHANGED core /\ UNCHANGED seenPaths
    BY <1>3 DEF StampEntry, core, disk, shared, books, work
  <2>2. EntryStamped'
    <3>1. CASE dir[p].body = "gone"
      BY <1>3, <3>1, LoopElsewhere DEF StampEntry
    <3>2. CASE dir[p].body # "gone"
      <4>1. /\ Entry(p) /\ spc' = "parse" /\ stamp' = dir[p].ver
            /\ UNCHANGED <<todo, dir>>
        BY <1>3, <3>2 DEF StampEntry
      <4>2. ASSUME NEW q \in Paths, Entry(q)' PROVE q = p
        BY <4>1, <4>2 DEF Entry
      <4>3. dir[p].ver \in Nat
        BY DEF TypeOK, WorldType, Files, Vers
      <4> QED BY <4>1, <4>2, <4>3 DEF EntryStamped
    <3> QED BY <3>1, <3>2
  <2> QED BY <2>1, <2>2, CoreFrame DEF StampsBehind
<1>4. ASSUME NEW p \in Paths, FinishEntry(p)
      PROVE  StampsBehind' /\ EntryStamped' /\ MarksCovered'
  BY <1>4, FinishEntryInv
<1>5. CASE ReadUpload
  <2>1. UNCHANGED core /\ UNCHANGED seenPaths
    BY <1>5 DEF ReadUpload, core, disk, shared, books, work
  <2>2. EntryStamped'
    <3>1. PICK p \in todo : Entry(p) /\ content' = dir[p]
      BY <1>5 DEF ReadUpload
    <3>2. UNCHANGED <<todo, stamp, dir>> /\ spc = "parse"
      BY <1>5 DEF ReadUpload
    <3>3. ASSUME NEW q \in Paths, Entry(q)' PROVE q = p /\ Entry(q)
      BY <3>1, <3>2, <3>3 DEF Entry, TypeOK, LoopType
    <3> QED BY <3>1, <3>2, <3>3 DEF EntryStamped
  <2> QED BY <2>1, <2>2, CoreFrame DEF StampsBehind
<1>6. CASE ScanGone
  <2>1. UNCHANGED core
    BY <1>6 DEF ScanGone, core, disk, shared, work
  <2>2. \A q \in Paths : seenPaths'[q] <= dir[q].ver
    BY <1>6 DEF ScanGone, Without, StampsBehind, TypeOK, BooksType, WorldType,
                Files, Vers
  <2>3. EntryStamped'
    BY <1>6, LoopElsewhere DEF ScanGone
  <2> QED BY <2>1, <2>2, <2>3, CoreFrame
<1>7. CASE ForgetGone
  <2>1. /\ UNCHANGED <<dir, queued, dropped, events, eventMarks, pendingMarks,
                       seenPaths, batch, marks, start>>
        /\ spc' = "filter"
    BY <1>7 DEF ForgetGone, shared, books, work
  <2>2. \A q \in Paths : ledger'[q] = ledger[q] \/ ledger'[q] = 0
    BY <1>7 DEF ForgetGone, Without, TypeOK, DiskType
  <2>3. StampsBehind'
    BY <2>1, <2>2 DEF StampsBehind, TypeOK, WorldType, Files, Vers
  <2>4. \A q \in Paths : Covered(q, ledger[q], HandedOff)'
    BY <2>1, <2>2 DEF Covered, MarksCovered, StampsBehind, HandedOff
  <2>5. MarksCovered'
    BY <2>1, <2>4 DEF MarksCovered, Covered, HandedOff
  <2> QED BY <2>1, <2>3, <2>5, LoopElsewhere
<1>8. CASE FilterMarks
  <2>1. /\ UNCHANGED <<dir, ledger, queued, dropped, events, seenPaths, batch,
                       marks, start>>
        /\ spc' = "flush" /\ pendingMarks' \subseteq pendingMarks
        /\ eventMarks' \subseteq eventMarks
    BY <1>8 DEF FilterMarks, keepPresent, disk, work
  <2>2. StampsBehind'
    BY <2>1 DEF StampsBehind
  <2>3. MarksCovered'
    BY <2>1 DEF MarksCovered, Covered, HandedOff
  <2> QED BY <2>1, <2>2, <2>3, LoopElsewhere
<1>9. CASE FlushPending
  <2>1. /\ UNCHANGED <<dir, queued, dropped, events, eventMarks, seenPaths,
                       batch, marks, start>>
        /\ spc' = "idle" /\ pendingMarks' \subseteq pendingMarks
    BY <1>9 DEF FlushPending, shared, work
  <2>2. PICK done \in SUBSET pendingMarks : ledger' \in Upserted(ledger, done)
    BY <1>9 DEF FlushPending
  <2>3. \A q \in Paths : /\ ledger'[q] <= dir[q].ver
                         /\ Covered(q, ledger'[q], HandedOff)
    BY <2>1, <2>2, UpsertCovered DEF MarksCovered, StampsBehind
  <2>4. StampsBehind'
    BY <2>1, <2>3 DEF StampsBehind
  <2>5. MarksCovered'
    BY <2>1, <2>3 DEF MarksCovered, Covered, HandedOff
  <2> QED BY <2>1, <2>4, <2>5, LoopElsewhere
<1> QED BY <1>1, <1>2, <1>3, <1>4, <1>5, <1>6, <1>7, <1>8, <1>9 DEF Scanner

\* one body of the batch leaves: every mark that ends in it is covered by what
\* is handed off now, every later one by that and the rest of the batch
LEMMA PartInv ==
  ASSUME IndInv, NEW e \in 1..Len(batch), start < e,
         Span(batch, start, e) \subseteq HandedOff', HandedOff \subseteq HandedOff',
         \/ ledger' \in Upserted(ledger, MarksIn(start, e))
         \/ UNCHANGED ledger,
         Advance(e), UNCHANGED dir, UNCHANGED loop, UNCHANGED books,
         UNCHANGED <<events, eventMarks>>
  PROVE  StampsBehind' /\ EntryStamped' /\ MarksCovered'
<1> USE DEF IndInv
<1>1. batch \in Seq(Events) /\ start \in Nat /\ marks \subseteq EventMarks
  BY DEF TypeOK, WorkType
<1>2. ASSUME NEW m \in marks
      PROVE  /\ m.path \in Paths /\ m.end \in Nat /\ m.end <= Len(batch)
             /\ m.stamp <= dir[m.path].ver
             /\ Covered(m.path, m.stamp, HandedOff \cup Span(batch, start, m.end))
  BY <1>1 DEF EventMarks, MarksCovered, StampsBehind
<1>3. ASSUME NEW x \in MarksIn(start, e)
      PROVE  x.stamp <= dir[x.path].ver /\ Covered(x.path, x.stamp, HandedOff')
  <2>1. PICK m \in marks : /\ m.path = x.path /\ m.stamp = x.stamp
                           /\ start < m.end /\ m.end <= e
    BY MarksInOrigin
  <2>2. Span(batch, start, m.end) \subseteq Span(batch, start, e)
    <3>1. DOMAIN batch = 1..Len(batch) /\ Len(batch) \in Nat
      BY <1>1
    <3>2. DOMAIN batch \subseteq Nat
      BY <3>1
    <3>3. e \in Nat
      BY <3>1
    <3>4. m.end \in Nat
      BY <1>1 DEF EventMarks
    <3> QED BY <1>1, <2>1, <3>2, <3>3, <3>4, SpanMono
  <2> QED BY <1>2, <2>1, <2>2 DEF Covered
<1>4. \A q \in Paths : Covered(q, ledger[q], HandedOff')
  BY DEF MarksCovered, Covered
<1>5. \A q \in Paths : /\ ledger'[q] <= dir[q].ver
                       /\ Covered(q, ledger'[q], HandedOff')
  <2>1. CASE UNCHANGED ledger
    BY <1>4, <2>1 DEF StampsBehind
  <2>2. CASE ledger' \in Upserted(ledger, MarksIn(start, e))
    BY <1>3, <1>4, <2>2, UpsertCovered
  <2> QED BY <2>1, <2>2
<1>6. marks' \subseteq marks
  BY DEF Advance, EndBatch
<1>7. StampsBehind'
  BY <1>5, <1>6 DEF StampsBehind, books
<1>8. EntryStamped'
  BY LoopFrame
<1>9. MarksCovered'
  <2>1. \A q \in Paths : Covered(q, ledger[q], HandedOff)'
    BY <1>5 DEF Covered
  <2>2. \A m \in pendingMarks' : Covered(m.path, m.stamp, HandedOff)'
    BY DEF MarksCovered, Covered, books
  <2>3. ASSUME NEW m \in eventMarks'
        PROVE  /\ m.end <= Len(events')
               /\ Covered(m.path, m.stamp, HandedOff \cup Span(events, 0, m.end))'
    BY DEF MarksCovered, Covered
  <2>4. ASSUME NEW m \in marks'
        PROVE  /\ m.end <= Len(batch')
               /\ Covered(m.path, m.stamp, HandedOff \cup Span(batch, start, m.end))'
    <3>1. m \in marks /\ start' = e /\ batch' = batch
      BY <2>4 DEF Advance, EndBatch
    <3>2. Span(batch, start, m.end) \subseteq
            Span(batch, start, e) \cup Span(batch, e, m.end)
      BY <1>1, <1>2, <3>1 DEF Span
    <3> QED BY <1>2, <3>1, <3>2 DEF Covered
  <2>5. start' <= Len(batch')
    <3>1. CASE e = Len(batch)
      BY <3>1 DEF Advance, EndBatch
    <3>2. CASE e # Len(batch)
      BY <1>1, <3>2 DEF Advance
    <3> QED BY <3>1, <3>2
  <2> QED BY <2>1, <2>2, <2>3, <2>4, <2>5 DEF MarksCovered
<1> QED BY <1>7, <1>8, <1>9

LEMMA WorkerInv ==
  IndInv /\ Worker => StampsBehind' /\ EntryStamped' /\ MarksCovered'
<1> SUFFICES ASSUME IndInv, Worker
             PROVE  StampsBehind' /\ EntryStamped' /\ MarksCovered'
  OBVIOUS
<1> USE DEF IndInv
<1>1. CASE DrainFTP
  <2>1. /\ UNCHANGED <<dir, ledger, queued, dropped, pendingMarks, seenPaths>>
        /\ UNCHANGED loop
        /\ batch' = events /\ marks' = eventMarks /\ start' = 0
        /\ events' = << >> /\ eventMarks' = {}
    BY <1>1 DEF DrainFTP, disk, books
  <2>2. StampsBehind'
    BY <2>1 DEF StampsBehind
  <2>3. MarksCovered'
    BY <2>1 DEF MarksCovered, Covered, HandedOff, TypeOK, SharedType
  <2> QED BY <2>1, <2>2, <2>3, LoopFrame
<1>2. CASE DrainEvents
  <2>1. /\ UNCHANGED <<dir, ledger, queued, dropped, pendingMarks, seenPaths,
                       events, eventMarks, marks, start>>
        /\ UNCHANGED loop
    BY <1>2 DEF DrainEvents, shared, books
  <2>2. \E t \in Seq(Events) : batch' = batch \o t
    <3> DEFINE n == IF Len(cwmpEvents) < EventLimit THEN Len(cwmpEvents)
                    ELSE EventLimit
               rows == SubSeq(cwmpEvents, 1, n)
    <3>1. n \in 0..Len(cwmpEvents)
      BY DEF TypeOK, DiskType
    <3>2. \/ batch' = Joined(batch, rows)
          \/ UNCHANGED batch
          \/ \E i \in 1..n : batch' = Joined(batch, Updated(rows, i))
      BY <1>2 DEF DrainEvents
    <3> HIDE DEF n
    <3>3. rows \in Seq(Events) /\ Len(rows) = n
      BY <3>1 DEF TypeOK, DiskType
    <3> HIDE DEF rows
    <3>4. \A i \in 1..n : Updated(rows, i) \in Seq(Events)
      BY <3>1, <3>3 DEF Updated
    <3>5. << >> \in Seq(Events) /\ batch = batch \o << >>
      BY DEF TypeOK, WorkType
    <3> QED BY <3>2, <3>3, <3>4, <3>5 DEF Joined
  <2>3. PICK t \in Seq(Events) : batch' = batch \o t
    BY <2>2
  <2>4. /\ batch \in Seq(Events) /\ start \in Nat
        /\ Len(batch) <= Len(batch')
    BY <2>3 DEF TypeOK, WorkType
  <2>5. StampsBehind'
    BY <2>1 DEF StampsBehind
  <2>6. ASSUME NEW m \in marks
        PROVE  /\ m.end <= Len(batch')
               /\ Covered(m.path, m.stamp, HandedOff \cup Span(batch, start, m.end))'
    <3>1. /\ m.end \in Nat /\ m.end <= Len(batch)
          /\ Covered(m.path, m.stamp, HandedOff \cup Span(batch, start, m.end))
      BY DEF MarksCovered, TypeOK, WorkType, EventMarks
    <3>2. Span(batch, start, m.end) \subseteq Span(batch', start, m.end)
      BY <2>3, <2>4, <3>1, SpanAppend
    <3>3. m.end <= Len(batch')
      BY <2>3, <2>4, <3>1
    <3> QED BY <2>1, <3>1, <3>2, <3>3 DEF Covered, HandedOff
  <2>7. start' <= Len(batch')
    BY <2>1, <2>3, <2>4 DEF MarksCovered
  <2>8. MarksCovered'
    BY <2>1, <2>6, <2>7 DEF MarksCovered, Covered, HandedOff
  <2> QED BY <2>1, <2>5, <2>8, LoopFrame
<1>3. CASE InsertFailed
  <2>1. /\ UNCHANGED <<dir, ledger, queued, dropped, pendingMarks, seenPaths,
                       events, eventMarks>>
        /\ UNCHANGED loop
        /\ batch' = << >> /\ marks' = {} /\ start' = 0
    BY <1>3 DEF InsertFailed, EndBatch, disk, books
  <2>2. StampsBehind'
    BY <2>1 DEF StampsBehind
  <2>3. MarksCovered'
    BY <2>1 DEF MarksCovered, Covered, HandedOff
  <2> QED BY <2>1, <2>2, <2>3, LoopFrame
<1>4. ASSUME NEW e \in 1..Len(batch), EnqueuePart(e)
      PROVE  StampsBehind' /\ EntryStamped' /\ MarksCovered'
  <2>1. start < e
    BY <1>4 DEF EnqueuePart, TypeOK, WorkType
  <2>2. Span(batch, start, e) \subseteq HandedOff' /\ HandedOff \subseteq HandedOff'
    BY <1>4 DEF EnqueuePart, HandedOff
  <2> QED BY <1>4, <2>1, <2>2, PartInv DEF EnqueuePart, shared
<1>5. ASSUME NEW e \in 1..Len(batch), DropPart(e)
      PROVE  StampsBehind' /\ EntryStamped' /\ MarksCovered'
  <2>1. start \in Nat /\ e = start + 1
    BY <1>5 DEF DropPart, TypeOK, WorkType
  <2>2. Span(batch, start, e) \subseteq {batch[e]}
    BY <2>1 DEF Span, TypeOK, WorkType
  <2>3. Span(batch, start, e) \subseteq HandedOff' /\ HandedOff \subseteq HandedOff'
    BY <1>5, <2>2 DEF DropPart, HandedOff
  <2> QED BY <1>5, <2>1, <2>3, PartInv DEF DropPart
<1> QED BY <1>1, <1>2, <1>3, <1>4, <1>5 DEF Worker

LEMMA IndInvStep == IndInv /\ [Next]_vars => IndInv'
<1> SUFFICES ASSUME IndInv, [Next]_vars PROVE IndInv'
  OBVIOUS
<1>1. TypeOK'
  BY NextType DEF IndInv
<1>2. CASE UNCHANGED vars
  <2>1. UNCHANGED core /\ UNCHANGED loop /\ UNCHANGED seenPaths
    BY <1>2 DEF vars, core, disk, shared, books, work
  <2>2. StampsBehind' /\ MarksCovered'
    BY <2>1, CoreFrame DEF IndInv, StampsBehind
  <2>3. EntryStamped'
    BY <2>1, LoopFrame DEF IndInv, core
  <2> QED BY <1>1, <2>2, <2>3 DEF IndInv
<1>3. CASE Next
  BY <1>1, <1>3, EnvironmentInv, ScannerInv, WorkerInv DEF Next, IndInv
<1> QED BY <1>2, <1>3

LEMMA IndInvHolds == Spec => []IndInv
<1>1. Init => IndInv
  BY InitType, InitInv DEF IndInv
<1> QED BY <1>1, IndInvStep, PTL DEF Spec

\* The ledger is never ahead of the outbox: whenever it records the version of
\* an upload that is in the watch directory, every event of that version has
\* been inserted into the outbox or refused as larger than the cap, whatever
\* files are rewritten, statements fail or restarts happen in between.
THEOREM LedgerSound == Spec => []MarkedIsQueued
<1>1. IndInv => MarkedIsQueued
  BY DEF IndInv, MarksCovered, Covered, MarkedIsQueued
<1> QED BY <1>1, IndInvHolds, PTL

-----------------------------------------------------------------------------
(* Nothing that counts as seen is lost.                                    *)

LEMMA TrackedFrame ==
  ASSUME SeenTracked,
         UNCHANGED <<dir, queued, dropped, hasLedger, seenPaths, requeued,
                     eventMarks, marks, start>>
  PROVE  SeenTracked'
BY DEF SeenTracked, Tracked, HandedOff, FTPMark

LEMMA UnseenElsewhere ==
  ASSUME spc' \notin {"forget", "filter"}
  PROVE  GoneUnseen'
BY DEF GoneUnseen

LEMMA UnseenFrame ==
  ASSUME GoneUnseen, UNCHANGED loop, UNCHANGED books
  PROVE  GoneUnseen'
BY DEF GoneUnseen, loop, books

LEMMA UseFrame ==
  ASSUME MarksInUse, eventMarks' \subseteq eventMarks, UNCHANGED work
  PROVE  MarksInUse'
BY DEF MarksInUse, work

\* a path without a stamp cannot be mistaken for a file with events
LEMMA UnseenIsNoVersion ==
  ASSUME StampsBehind, NEW p \in Paths, HasEvents(dir[p])
  PROVE  dir[p].ver # 0
BY DEF StampsBehind

LEMMA EnvironmentTrack == IndInv /\ TrackInv /\ Environment => TrackInv'
<1> SUFFICES ASSUME IndInv, TrackInv, Environment PROVE TrackInv'
  OBVIOUS
<1> USE DEF IndInv, TrackInv
<1>1. ASSUME NEW p \in Paths, NEW f \in Files,
             dir[p].ver < f.ver \/ ~HasEvents(f),
             dir' = [dir EXCEPT ![p] = f],
             UNCHANGED <<disk, shared, books, loop, work>>
      PROVE  TrackInv'
  <2>1. GoneUnseen' /\ MarksInUse'
    BY <1>1, UnseenFrame, UseFrame DEF shared
  <2>2. ASSUME hasLedger', NEW q \in Paths, seenPaths'[q] = dir'[q].ver,
               HasEvents(dir'[q])
        PROVE  Tracked(q)'
    <3>1. /\ UNCHANGED <<hasLedger, seenPaths, queued, dropped, requeued,
                         eventMarks, marks, start>>
          /\ seenPaths[q] <= dir[q].ver
          /\ seenPaths[q] \in Nat /\ dir[q].ver \in Nat
      BY <1>1 DEF disk, shared, books, work, StampsBehind, TypeOK, BooksType,
                  WorldType, Files, Vers
    <3>2. q # p
      BY <1>1, <2>2, <3>1 DEF TypeOK, WorldType, Files, Vers
    <3>3. dir'[q] = dir[q]
      BY <1>1, <3>2 DEF TypeOK, WorldType
    <3> QED BY <2>2, <3>1, <3>3 DEF SeenTracked, Tracked, HandedOff, FTPMark
  <2> QED BY <2>1, <2>2 DEF SeenTracked
<1>2. ASSUME NEW p \in Paths, Remove(p) PROVE TrackInv'
  <2> DEFINE f == [dir[p] EXCEPT !.body = "gone"]
  <2>1. f \in Files /\ ~HasEvents(f) /\ dir' = [dir EXCEPT ![p] = f]
    BY <1>2 DEF Remove, TypeOK, WorldType, Files, Bodies, HasEvents
  <2> QED BY <1>1, <1>2, <2>1 DEF Remove
<1>3. ASSUME NEW p \in Paths, NEW b \in Bodies, Upload(p, b) PROVE TrackInv'
  <2>1. PICK f \in Files : /\ dir[p].ver < f.ver
                           /\ dir' = [dir EXCEPT ![p] = f]
    <3> DEFINE g == [ver |-> dir[p].ver + 1, body |-> b]
    <3>1. g \in Files /\ dir[p].ver < g.ver
      BY <1>3 DEF Upload, TypeOK, WorldType, Files, Vers
    <3>2. dir' = [dir EXCEPT ![p] = g]
      BY <1>3 DEF Upload
    <3> HIDE DEF g
    <3> QED BY <3>1, <3>2
  <2> QED BY <1>1, <1>3, <2>1 DEF Upload
<1>4. ASSUME NEW d \in Devices, Inform(d) PROVE TrackInv'
  BY <1>4, TrackedFrame, UnseenFrame, UseFrame
     DEF Inform, disk, shared, books, work
<1>5. CASE EmitEvent
  BY <1>5, TrackedFrame, UnseenFrame, UseFrame
     DEF EmitEvent, disk, shared, books, work
<1>6. CASE Crash
  <2>1. PICK loaded \in LedgerModes : Boot(ledger, loaded)
    BY <1>6 DEF Crash
  <2>2. UNCHANGED <<dir, queued, dropped>>
    BY <1>6 DEF Crash, disk
  <2>3. GoneUnseen' /\ MarksInUse'
    BY <2>1, UnseenElsewhere DEF Boot, MarksInUse
  <2>4. SeenTracked'
    BY <2>1, <2>2 DEF Boot, Restored, SeenTracked, Tracked, MarksCovered,
                      Covered, HandedOff
  <2> QED BY <2>3, <2>4
<1> QED BY <1>2, <1>3, <1>4, <1>5, <1>6 DEF Environment

LEMMA FinishEntryTrack ==
  ASSUME IndInv, TrackInv, NEW p \in Paths, FinishEntry(p)
  PROVE  TrackInv'
<1> USE DEF IndInv, TrackInv
<1>1. /\ spc = "mark" /\ Entry(p) /\ spc' = "scan" /\ UNCHANGED work
      /\ UNCHANGED <<dir, queued, dropped, hasLedger, requeued>>
  BY DEF FinishEntry, disk
<1>2. GoneUnseen'
  BY <1>1, UnseenElsewhere
<1>3. CASE Unreadable(content) /\ RetryLeft(p)
  BY <1>1, <1>2, <1>3, TrackedFrame, UseFrame DEF FinishEntry, work
<1>4. CASE ~(Unreadable(content) /\ RetryLeft(p))
  <2> DEFINE evs == parseUpload(p, content)
  <2>1. markSeen(p, stamp, evs)
    BY <1>4 DEF FinishEntry
  <2>2. evs \in Seq(Events) /\ events \in Seq(Events)
    BY ParseType DEF TypeOK, LoopType, SharedType
  <2>3. ASSUME dir[p].ver = stamp, HasEvents(dir[p]) PROVE evs # << >>
    <3>1. content = dir[p]
      BY <1>1, <2>3 DEF EntryStamped
    <3>2. evs = [k \in 1..PerFile |-> LogEvent(p, dir[p], k)]
      BY <2>3, <3>1 DEF parseUpload
    <3> QED BY <2>2, <3>2
  <2> HIDE DEF evs
  <2>4. MarksInUse'
    <3>1. ASSUME evs # << >> PROVE 0 < Len(events) + Len(evs)
      BY <2>2, <3>1
    <3> QED BY <1>1, <2>1, <3>1 DEF markSeen, MarksInUse, work
  <2>5. ASSUME hasLedger', NEW q \in Paths, seenPaths'[q] = dir'[q].ver,
               HasEvents(dir'[q])
        PROVE  Tracked(q)'
    <3>1. CASE q = p
      <4>1. seenPaths'[p] = stamp /\ dir'[p] = dir[p] /\ hasLedger
        BY <1>1, <2>1, <2>5 DEF markSeen, TypeOK, BooksType
      <4>2. evs # << >>
        BY <2>3, <2>5, <3>1, <4>1
      <4>3. \E m \in eventMarks' : m.path = p /\ m.stamp = stamp
        <5> DEFINE m == [path |-> p, stamp |-> stamp,
                         end |-> Len(events) + Len(evs)]
        <5>1. m \in eventMarks'
          BY <2>1, <4>1, <4>2 DEF markSeen, FTPMark
        <5>2. m.path = p /\ m.stamp = stamp
          OBVIOUS
        <5> HIDE DEF m
        <5> QED BY <5>1, <5>2
      <4> QED BY <3>1, <4>1, <4>3 DEF Tracked
    <3>2. CASE q # p
      <4>1. /\ seenPaths'[q] = seenPaths[q] /\ eventMarks \subseteq eventMarks'
            /\ dir'[q] = dir[q] /\ hasLedger
        BY <1>1, <2>1, <2>5, <3>2 DEF markSeen, TypeOK, BooksType
      <4>2. Tracked(q)
        BY <2>5, <4>1 DEF SeenTracked
      <4> QED BY <1>1, <4>1, <4>2 DEF Tracked, HandedOff, FTPMark, work
    <3> QED BY <3>1, <3>2
  <2> QED BY <1>2, <2>4, <2>5 DEF SeenTracked
<1> QED BY <1>3, <1>4

LEMMA ScannerTrack == IndInv /\ TrackInv /\ Scanner => TrackInv'
<1> SUFFICES ASSUME IndInv, TrackInv, Scanner PROVE TrackInv'
  OBVIOUS
<1> USE DEF IndInv, TrackInv
<1>1. CASE ScanStart
  <2>1. /\ UNCHANGED <<dir, queued, dropped, hasLedger, eventMarks, marks, start>>
        /\ UNCHANGED work
        /\ seenPaths' = takeRequeued(seenPaths, requeued)
    BY <1>1 DEF ScanStart, disk, work
  <2>2. spc' \notin {"forget", "filter"}
    BY <1>1 DEF ScanStart, loop
  <2>3. ASSUME hasLedger', NEW p \in Paths, seenPaths'[p] = dir'[p].ver,
               HasEvents(dir'[p])
        PROVE  Tracked(p)'
    <3>1. seenPaths'[p] = seenPaths[p] /\ FTPMark(p, seenPaths[p]) \notin requeued
      BY <2>1, <2>3, UnseenIsNoVersion DEF takeRequeued, FTPMark
    <3>2. Tracked(p)
      BY <2>1, <2>3, <3>1 DEF SeenTracked
    <3> QED BY <2>1, <3>1, <3>2 DEF Tracked, HandedOff
  <2> QED BY <2>1, <2>2, <2>3, UnseenElsewhere, UseFrame DEF SeenTracked
<1>2. ASSUME NEW p \in Paths, SkipSeen(p) \/ Defer(p) \/ StampEntry(p)
      PROVE  TrackInv'
  <2>1. /\ UNCHANGED <<dir, queued, dropped, hasLedger, seenPaths, requeued,
                       eventMarks, marks, start>>
        /\ UNCHANGED work /\ spc' \notin {"forget", "filter"}
    BY <1>2 DEF SkipSeen, Defer, StampEntry, disk, shared, books, work
  <2> QED BY <2>1, TrackedFrame, UnseenElsewhere, UseFrame
<1>3. ASSUME NEW p \in Paths, RewriteFound(p) PROVE TrackInv'
  <2>1. /\ UNCHANGED <<dir, queued, dropped, hasLedger, requeued, eventMarks,
                       marks, start>>
        /\ UNCHANGED work /\ spc' \notin {"forget", "filter"}
        /\ seenPaths' = [seenPaths EXCEPT ![p] = 0]
    BY <1>3 DEF RewriteFound, disk, shared, work, loop
  <2>2. ASSUME hasLedger', NEW q \in Paths, seenPaths'[q] = dir'[q].ver,
               HasEvents(dir'[q])
        PROVE  Tracked(q)'
    <3>1. seenPaths'[q] = seenPaths[q]
      BY <2>1, <2>2, UnseenIsNoVersion DEF TypeOK, BooksType
    <3>2. Tracked(q)
      BY <2>1, <2>2, <3>1 DEF SeenTracked
    <3> QED BY <2>1, <3>1, <3>2 DEF Tracked, HandedOff, FTPMark
  <2> QED BY <2>1, <2>2, UnseenElsewhere, UseFrame DEF SeenTracked
<1>4. ASSUME NEW p \in Paths, FinishEntry(p) PROVE TrackInv'
  BY <1>4, FinishEntryTrack
<1>5. CASE ReadUpload
  <2>1. /\ UNCHANGED <<dir, queued, dropped, hasLedger, seenPaths, requeued,
                       eventMarks, marks, start>>
        /\ UNCHANGED work /\ spc' \notin {"forget", "filter"}
    BY <1>5 DEF ReadUpload, disk, shared, books, work
  <2> QED BY <2>1, TrackedFrame, UnseenElsewhere, UseFrame
<1>6. CASE ScanGone
  <2>1. /\ UNCHANGED <<dir, queued, dropped, hasLedger, requeued, eventMarks,
                       marks, start, present>>
        /\ UNCHANGED work
        /\ seenPaths' = Without(seenPaths, Paths \ present)
    BY <1>6 DEF ScanGone, disk, shared, work
  <2>2. \A q \in Paths : seenPaths'[q] = IF q \in present THEN seenPaths[q] ELSE 0
    BY <2>1 DEF Without, TypeOK, BooksType
  <2>3. GoneUnseen'
    BY <2>1, <2>2 DEF GoneUnseen
  <2>4. ASSUME hasLedger', NEW q \in Paths, seenPaths'[q] = dir'[q].ver,
               HasEvents(dir'[q])
        PROVE  Tracked(q)'
    <3>1. seenPaths'[q] = seenPaths[q]
      BY <2>1, <2>2, <2>4, UnseenIsNoVersion
    <3>2. Tracked(q)
      BY <2>1, <2>4, <3>1 DEF SeenTracked
    <3> QED BY <2>1, <3>1, <3>2 DEF Tracked, HandedOff, FTPMark
  <2> QED BY <2>1, <2>3, <2>4, UseFrame DEF SeenTracked
<1>7. CASE ForgetGone
  <2>1. /\ UNCHANGED <<dir, queued, dropped, hasLedger, seenPaths, requeued,
                       eventMarks, marks, start, present>>
        /\ UNCHANGED work /\ spc = "forget"
    BY <1>7 DEF ForgetGone, shared, books, work
  <2>2. GoneUnseen'
    BY <2>1 DEF GoneUnseen
  <2> QED BY <2>1, <2>2, TrackedFrame, UseFrame
<1>8. CASE FilterMarks
  <2>1. /\ UNCHANGED <<dir, queued, dropped, hasLedger, seenPaths, requeued,
                       marks, start>>
        /\ UNCHANGED work /\ spc = "filter" /\ spc' = "flush"
        /\ eventMarks' = keepPresent(eventMarks)
    BY <1>8 DEF FilterMarks, disk, work
  <2>2. eventMarks' \subseteq eventMarks
    BY <2>1 DEF keepPresent
  <2>3. ASSUME hasLedger', NEW q \in Paths, seenPaths'[q] = dir'[q].ver,
               HasEvents(dir'[q])
        PROVE  Tracked(q)'
    <3>1. q \in present
      BY <2>1, <2>3, UnseenIsNoVersion DEF GoneUnseen
    <3>2. Tracked(q)
      BY <2>1, <2>3 DEF SeenTracked
    <3> QED BY <2>1, <3>1, <3>2 DEF Tracked, HandedOff, FTPMark, keepPresent
  <2> QED BY <2>1, <2>2, <2>3, UnseenElsewhere, UseFrame DEF SeenTracked
<1>9. CASE FlushPending
  <2>1. /\ UNCHANGED <<dir, queued, dropped, hasLedger, seenPaths, requeued,
                       eventMarks, marks, start>>
        /\ UNCHANGED work /\ spc' = "idle"
    BY <1>9 DEF FlushPending, shared, work
  <2> QED BY <2>1, TrackedFrame, UnseenElsewhere, UseFrame
<1> QED BY <1>1, <1>2, <1>3, <1>4, <1>5, <1>6, <1>7, <1>8, <1>9 DEF Scanner

\* the upload of a mark that ends in the body just handed off is covered by it
LEMMA PartTrack ==
  ASSUME IndInv, TrackInv, NEW e \in 1..Len(batch), start < e,
         Span(batch, start, e) \subseteq HandedOff', HandedOff \subseteq HandedOff',
         requeued \subseteq requeued', Advance(e), UNCHANGED dir,
         UNCHANGED loop, UNCHANGED books, UNCHANGED <<events, eventMarks>>
  PROVE  TrackInv'
<1> USE DEF IndInv, TrackInv
<1>1. GoneUnseen'
  BY UnseenFrame
<1>2. /\ batch \in Seq(Events) /\ start \in Nat /\ marks \subseteq EventMarks
      /\ DOMAIN batch \subseteq Nat /\ e \in Nat
  <2>1. batch \in Seq(Events) /\ start \in Nat /\ marks \subseteq EventMarks
    BY DEF TypeOK, WorkType
  <2>2. DOMAIN batch = 1..Len(batch) /\ Len(batch) \in Nat
    BY <2>1
  <2> QED BY <2>1, <2>2
<1>3. MarksInUse'
  BY DEF MarksInUse, Advance, EndBatch
<1>4. ASSUME hasLedger', NEW q \in Paths, seenPaths'[q] = dir'[q].ver,
             HasEvents(dir'[q])
      PROVE  Tracked(q)'
  <2>1. UNCHANGED <<seenPaths, dir, hasLedger>>
    BY DEF books
  <2>2. Tracked(q)
    BY <1>4, <2>1 DEF SeenTracked
  <2>3. ASSUME NEW m \in marks, m.path = q, m.stamp = seenPaths[q],
               start < m.end
        PROVE  Tracked(q)'
    <3>1. m.end \in Nat /\ m.end <= Len(batch)
      BY <1>2 DEF EventMarks, MarksCovered
    <3>2. CASE m.end <= e
      <4>1. Span(batch, start, m.end) \subseteq Span(batch, start, e)
        BY <1>2, <3>1, <3>2, SpanMono
      <4>2. Covered(q, seenPaths[q], HandedOff \cup Span(batch, start, m.end))
        BY <2>3 DEF MarksCovered
      <4>3. EventsIn(q, dir[q]) \subseteq HandedOff'
        BY <1>4, <2>1, <4>1, <4>2 DEF Covered
      <4> QED BY <2>1, <4>3 DEF Tracked
    <3>3. CASE e < m.end
      <4>1. m \in marks' /\ start' = e
        BY <1>2, <3>1, <3>3 DEF Advance
      <4> QED BY <2>1, <2>3, <3>3, <4>1 DEF Tracked
    <3> QED BY <1>2, <3>1, <3>2, <3>3
  <2> QED BY <2>1, <2>2, <2>3 DEF Tracked, FTPMark
<1> QED BY <1>1, <1>3, <1>4 DEF SeenTracked

LEMMA WorkerTrack ==
  IndInv /\ IndInv' /\ TrackInv /\ Worker => TrackInv'
<1> SUFFICES ASSUME IndInv, IndInv', TrackInv, Worker PROVE TrackInv'
  OBVIOUS
<1> USE DEF TrackInv
<1>1. CASE DrainFTP
  <2>1. /\ UNCHANGED <<dir, queued, dropped, hasLedger, seenPaths, requeued>>
        /\ UNCHANGED loop /\ UNCHANGED books
        /\ wpc = "idle" /\ wpc' = "events"
        /\ marks' = eventMarks /\ start' = 0 /\ eventMarks' = {}
    BY <1>1 DEF DrainFTP, disk, books
  <2>2. MarksInUse' /\ marks = {}
    BY <2>1 DEF MarksInUse
  <2>3. SeenTracked'
    BY <2>1, <2>2 DEF SeenTracked, Tracked, HandedOff, FTPMark, MarksInUse
  <2> QED BY <2>1, <2>2, <2>3, UnseenFrame
<1>2. CASE DrainEvents
  <2>1. /\ UNCHANGED <<dir, queued, dropped, hasLedger, seenPaths, requeued,
                       eventMarks, marks, start>>
        /\ UNCHANGED loop /\ UNCHANGED books
        /\ wpc' = "idle" => batch' = << >>
    BY <1>2 DEF DrainEvents, shared, books
  <2>2. ASSUME wpc' = "idle" PROVE marks' = {}
    <3>1. Len(batch') = 0
      BY <2>1, <2>2
    <3>2. \A m \in marks' : m.end <= 0 /\ 0 < m.end /\ m.end \in Nat
      BY <2>1, <3>1 DEF IndInv, MarksCovered, MarksInUse, TypeOK, WorkType,
                        EventMarks
    <3> QED BY <3>2
  <2>3. MarksInUse'
    BY <2>1, <2>2 DEF MarksInUse
  <2> QED BY <2>1, <2>3, TrackedFrame, UnseenFrame
<1>3. CASE InsertFailed
  <2>1. /\ UNCHANGED <<dir, queued, dropped, hasLedger, seenPaths, eventMarks>>
        /\ UNCHANGED loop /\ UNCHANGED books
        /\ requeued' = requeued \cup MarksIn(start, Len(batch))
        /\ marks' = {}
    BY <1>3 DEF InsertFailed, NotQueued, EndBatch, disk, books
  <2>2. MarksInUse'
    BY <2>1 DEF MarksInUse
  <2>3. ASSUME hasLedger', NEW q \in Paths, seenPaths'[q] = dir'[q].ver,
               HasEvents(dir'[q])
        PROVE  Tracked(q)'
    <3>1. Tracked(q)
      BY <2>1, <2>3 DEF SeenTracked
    <3>2. ASSUME NEW m \in marks, m.path = q, m.stamp = seenPaths[q],
                 start < m.end
          PROVE  FTPMark(q, seenPaths[q]) \in requeued'
      <4>1. m.end <= Len(batch)
        BY DEF IndInv, MarksCovered
      <4> QED BY <2>1, <3>2, <4>1 DEF MarksIn, Strip, FTPMark
    <3> QED BY <2>1, <3>1, <3>2 DEF Tracked, HandedOff, FTPMark
  <2> QED BY <2>1, <2>2, <2>3, UnseenFrame DEF SeenTracked
<1>4. ASSUME NEW e \in 1..Len(batch), EnqueuePart(e) PROVE TrackInv'
  <2>1. start < e
    BY <1>4 DEF EnqueuePart, IndInv, TypeOK, WorkType
  <2>2. Span(batch, start, e) \subseteq HandedOff' /\ HandedOff \subseteq HandedOff'
    BY <1>4 DEF EnqueuePart, HandedOff
  <2> QED BY <1>4, <2>1, <2>2, PartTrack DEF EnqueuePart, shared
<1>5. ASSUME NEW e \in 1..Len(batch), DropPart(e) PROVE TrackInv'
  <2>1. start \in Nat /\ e = start + 1
    BY <1>5 DEF DropPart, IndInv, TypeOK, WorkType
  <2>2. Span(batch, start, e) \subseteq {batch[e]}
    BY <2>1 DEF Span, IndInv, TypeOK, WorkType
  <2>3. Span(batch, start, e) \subseteq HandedOff' /\ HandedOff \subseteq HandedOff'
    BY <1>5, <2>2 DEF DropPart, HandedOff
  <2>4. requeued \subseteq requeued'
    BY <1>5 DEF DropPart
  <2> QED BY <1>5, <2>1, <2>3, <2>4, PartTrack DEF DropPart
<1> QED BY <1>1, <1>2, <1>3, <1>4, <1>5 DEF Worker

LEMMA TrackStep == IndInv /\ TrackInv /\ [Next]_vars => TrackInv'
<1> SUFFICES ASSUME IndInv, TrackInv, [Next]_vars PROVE TrackInv'
  OBVIOUS
<1>1. IndInv'
  BY IndInvStep
<1>2. CASE UNCHANGED vars
  BY <1>2, TrackedFrame, UnseenFrame, UseFrame
     DEF TrackInv, vars, disk, shared, books, work
<1>3. CASE Next
  BY <1>1, <1>3, EnvironmentTrack, ScannerTrack, WorkerTrack DEF Next
<1> QED BY <1>2, <1>3

\* With a ledger, an upload the scanner skips because it is in seenPaths is
\* never lost: its events are handed off, or still in the collector's queue or
\* the worker's batch, or its mark is requeued and the next scan parses it.
THEOREM SeenNeverLost == Spec => []SeenAccounted
<1>1. Init => TrackInv
  <2>1. ASSUME Init PROVE \A p \in Paths : ~HasEvents(dir[p])
    BY <2>1 DEF Init, HasEvents
  <2> QED BY <2>1 DEF Init, TrackInv, SeenTracked, GoneUnseen, MarksInUse
<1>2. IndInv /\ TrackInv => SeenAccounted
  <2> SUFFICES ASSUME IndInv, TrackInv, hasLedger, NEW p \in Paths,
                      seenPaths[p] = dir[p].ver, HasEvents(dir[p])
               PROVE  \/ EventsIn(p, dir[p]) \subseteq HandedOff \cup InMemory
                      \/ FTPMark(p, seenPaths[p]) \in requeued
    BY DEF SeenAccounted, FTPMark
  <2>1. Tracked(p)
    BY DEF TrackInv, SeenTracked
  <2>2. /\ events \in Seq(Events) /\ batch \in Seq(Events) /\ start \in Nat
        /\ eventMarks \subseteq EventMarks /\ marks \subseteq EventMarks
    BY DEF IndInv, TypeOK, SharedType, WorkType
  <2>3. ASSUME NEW m \in eventMarks, m.path = p, m.stamp = seenPaths[p]
        PROVE  EventsIn(p, dir[p]) \subseteq HandedOff \cup InMemory
    <3>1. Span(events, 0, m.end) \subseteq Span(events, 0, Len(events))
      BY <2>2 DEF Span, IndInv, MarksCovered, EventMarks
    <3> QED BY <2>3, <3>1 DEF IndInv, MarksCovered, Covered, InMemory
  <2>4. ASSUME NEW m \in marks, m.path = p, m.stamp = seenPaths[p]
        PROVE  EventsIn(p, dir[p]) \subseteq HandedOff \cup InMemory
    <3>1. Span(batch, start, m.end) \subseteq Span(batch, start, Len(batch))
      BY <2>2 DEF Span, IndInv, MarksCovered, EventMarks
    <3> QED BY <2>4, <3>1 DEF IndInv, MarksCovered, Covered, InMemory
  <2> QED BY <2>1, <2>3, <2>4 DEF Tracked
<1>3. Spec => []TrackInv
  BY <1>1, IndInvHolds, TrackStep, PTL DEF Spec
<1> QED BY <1>2, <1>3, IndInvHolds, PTL
=============================================================================
