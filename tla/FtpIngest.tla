------------------------------ MODULE FtpIngest ------------------------------
(***************************************************************************)
(* How the agent turns FTP log uploads into telemetry, and how it          *)
(* remembers which uploads it is done with.                                *)
(*                                                                         *)
(* Two goroutines share a Collector.  The scanner (WatchFTP / scanFTP in   *)
(* collector/collector.go) polls the watch directory, parses new uploads   *)
(* and appends their events to an in-memory queue.  The worker (pushTier / *)
(* enqueueTelemetry in worker/worker.go) drains that queue and inserts the *)
(* events into the outbox, body by body.  What is done is remembered twice:*)
(* in memory (seenPaths) and in the ftp_ingested table (the ledger, see    *)
(* buffer/ftp_ledger.go), which a restart loads.                           *)
(*                                                                         *)
(* The directory changes under the scanner, every database statement may   *)
(* fail, and the process may stop between any two steps.                   *)
(*                                                                         *)
(* A path is a positive number: its position in the order in which         *)
(* os.ReadDir lists names.  The version of a file stands for its stamp     *)
(* (size and mtime): every write to a name makes a new version, so two     *)
(* files with equal stamps are the same file.  Stamp 0 means "no entry".   *)
(***************************************************************************)
EXTENDS Integers, Sequences, FiniteSets

CONSTANTS
  Paths,              \* names the device uploads may take
  Devices,            \* devices that may be onboarded
  DeviceOf,           \* the device whose OUI and serial a name carries
  PerFile,            \* classifiable lines in one log
  MaxDeferTicks,      \* scans in the fast resolution window
  ResolveRetryTicks,  \* scans between two lookups after it
  MaxParseRetries,    \* failed parses after which an upload is given up
  RewriteCheckTicks,  \* scans between two re-stats of ingested uploads
  EventLimit,         \* rows one DrainEvents reads (500 in the code)
  LedgerModes,        \* may UseIngestLedger succeed (TRUE), fail (FALSE)
  MaxVer,             \* bound: writes to one name
  MaxFaults,          \* bound: failed directory reads and DB statements
  MaxCrashes,         \* bound: restarts of the agent
  MaxAtc              \* bound: ATC events emitted by the CWMP server

ASSUME ConstantsAssumption ==
  /\ Paths \subseteq Nat \ {0}
  /\ DeviceOf \in [Paths -> Devices]
  /\ PerFile \in Nat \ {0} /\ EventLimit \in Nat \ {0}
  /\ MaxDeferTicks \in Nat \ {0} /\ ResolveRetryTicks \in Nat \ {0}
  /\ MaxParseRetries \in Nat \ {0} /\ RewriteCheckTicks \in Nat \ {0}
  /\ LedgerModes \subseteq BOOLEAN /\ LedgerModes # {}
  /\ MaxVer \in Nat /\ MaxFaults \in Nat
  /\ MaxCrashes \in Nat /\ MaxAtc \in Nat

VARIABLES
  \* the world outside the process
  dir,          \* dir[p]: the file at p, its version and what it holds
  \* the database
  known,        \* devices with a row in cwmp_devices
  ledger,       \* ftp_ingested: path to stamp
  cwmpEvents,   \* cwmp_events rows with uploaded = 0, by id
  queued,       \* events ever inserted into the outbox
  dropped,      \* events of bodies refused with ErrPayloadTooLarge
  \* memory shared by both goroutines, under Collector.mu
  events, eventMarks, requeued,
  \* memory of the scanner
  hasLedger, seenPaths, deferred, parseFails, scans, pendingMarks,
  spc, todo, present, checkRewrites, stamp, content, gone,
  \* memory of the worker
  wpc, batch, marks, start,
  \* counters that bound the environment
  atcs, faults, crashes

disk == <<known, ledger, cwmpEvents, queued, dropped>>
shared == <<events, eventMarks, requeued>>
books == <<hasLedger, seenPaths, deferred, parseFails, scans, pendingMarks>>
loop == <<spc, todo, present, checkRewrites, stamp, content, gone>>
work == <<wpc, batch, marks, start>>
bounds == <<atcs, faults, crashes>>
vars == <<dir, disk, shared, books, loop, work, bounds>>

-----------------------------------------------------------------------------
(* Data.                                                                   *)

Vers == 0..MaxVer
\* "partial" is a gzip caught in mid-STOR or corrupt, "quiet" a log without
\* a classifiable line, "huge" a log with a line larger than buffer_max_bytes
Bodies == {"gone", "partial", "quiet", "log", "huge"}
Files == [ver : Vers, body : Bodies]
Marks == [path : Paths, stamp : Vers]
EventMarks == [path : Paths, stamp : Vers, end : Nat]
Events == [path : Paths \cup {0}, ver : Nat, k : Nat, big : BOOLEAN]

HasEvents(f) == f.body \in {"log", "huge"}
Unreadable(f) == f.body \in {"gone", "partial"}

\* the events rules.Apply finds in file f at path p, in line order
LogEvent(p, f, k) ==
  [path |-> p, ver |-> f.ver, k |-> k, big |-> f.body = "huge" /\ k = 1]

parseUpload(p, f) ==
  IF HasEvents(f) THEN [k \in 1..PerFile |-> LogEvent(p, f, k)] ELSE << >>

EventsIn(p, f) == {LogEvent(p, f, k) : k \in 1..PerFile}

AtcEvent(n) == [path |-> 0, ver |-> n, k |-> 1, big |-> FALSE]

Span(s, i, j) == {s[n] : n \in {m \in DOMAIN s : i < m /\ m <= j}}

\* The ledger after upserting a set of marks: per path the mark appended last
\* wins, which is the newest, as versions only grow.
Upserted(l, ms) ==
  {m \in [Paths -> Vers] : \A p \in Paths :
     LET mine == {x.stamp : x \in {y \in ms : y.path = p}}
     IN  IF mine = {} THEN m[p] = l[p]
         ELSE m[p] \in mine /\ \A s \in mine : s <= m[p]}

Without(f, ps) == [p \in DOMAIN f |-> IF p \in ps THEN 0 ELSE f[p]]

\* defect: the mark takes the stamp the file has after it was read
LateMark(p, st) == [path |-> p, stamp |-> dir[p].ver]

FTPMark(p, st) == [path |-> p, stamp |-> st]

Strip(ms) == {[path |-> m.path, stamp |-> m.stamp] : m \in ms}

\* a statement or system call fails: the environment has finitely many
Fault == faults < MaxFaults /\ faults' = faults + 1

-----------------------------------------------------------------------------
(* Start and restart.                                                      *)

\* defect: the ledger is written and never read back
Forgetful(l, loaded) == [p \in Paths |-> 0]

\* UseIngestLedger: the loaded ledger, or nothing when loading it failed
Restored(l, loaded) == IF loaded THEN l ELSE [p \in Paths |-> 0]

Boot(l, loaded) ==
  /\ hasLedger' = loaded
  /\ seenPaths' = Restored(l, loaded)
  /\ deferred' = [p \in Paths |-> 0] /\ parseFails' = [p \in Paths |-> 0]
  /\ scans' = 0 /\ pendingMarks' = {}
  /\ events' = << >> /\ eventMarks' = {} /\ requeued' = {}
  /\ spc' = "idle" /\ todo' = {} /\ present' = {} /\ checkRewrites' = FALSE
  /\ stamp' = 0 /\ content' = [ver |-> 0, body |-> "gone"] /\ gone' = {}
  /\ wpc' = "idle" /\ batch' = << >> /\ marks' = {} /\ start' = 0

Init ==
  /\ dir = [p \in Paths |-> [ver |-> 0, body |-> "gone"]]
  /\ known = {} /\ ledger = [p \in Paths |-> 0] /\ cwmpEvents = << >>
  /\ queued = {} /\ dropped = {}
  /\ hasLedger \in LedgerModes
  /\ seenPaths = [p \in Paths |-> 0]
  /\ deferred = [p \in Paths |-> 0] /\ parseFails = [p \in Paths |-> 0]
  /\ scans = 0 /\ pendingMarks = {}
  /\ events = << >> /\ eventMarks = {} /\ requeued = {}
  /\ spc = "idle" /\ todo = {} /\ present = {} /\ checkRewrites = FALSE
  /\ stamp = 0 /\ content = [ver |-> 0, body |-> "gone"] /\ gone = {}
  /\ wpc = "idle" /\ batch = << >> /\ marks = {} /\ start = 0
  /\ atcs = 0 /\ faults = 0 /\ crashes = 0

Crash ==
  /\ crashes < MaxCrashes /\ crashes' = crashes + 1
  /\ \E loaded \in LedgerModes : Boot(ledger, loaded)
  /\ UNCHANGED <<dir, disk, atcs, faults>>

-----------------------------------------------------------------------------
(* The devices, through FTP and CWMP.                                      *)

Upload(p, b) ==
  /\ dir[p].ver < MaxVer
  /\ dir' = [dir EXCEPT ![p] = [ver |-> dir[p].ver + 1, body |-> b]]
  /\ UNCHANGED <<disk, shared, books, loop, work, bounds>>

Remove(p) ==
  /\ dir[p].body # "gone"
  /\ dir' = [dir EXCEPT ![p].body = "gone"]
  /\ UNCHANGED <<disk, shared, books, loop, work, bounds>>

\* an Inform makes UpsertDevice write the device's row
Inform(d) ==
  /\ d \notin known
  /\ known' = known \cup {d}
  /\ UNCHANGED <<dir, ledger, cwmpEvents, queued, dropped,
                 shared, books, loop, work, bounds>>

EmitEvent ==
  /\ atcs < MaxAtc /\ atcs' = atcs + 1
  /\ cwmpEvents' = Append(cwmpEvents, AtcEvent(atcs + 1))
  /\ UNCHANGED <<dir, known, ledger, queued, dropped,
                 shared, books, loop, work, faults, crashes>>

-----------------------------------------------------------------------------
(* The scanner: one pass of scanFTP.                                       *)

\* defect: the marks are taken and no path is forgotten
TakeNothing(seen, ms) == seen

\* a path re-marked with a newer stamp since the drain is a new upload
takeRequeued(seen, ms) ==
  [p \in Paths |-> IF [path |-> p, stamp |-> seen[p]] \in ms THEN 0
                   ELSE seen[p]]

ScanStart ==
  /\ spc = "idle"
  /\ seenPaths' = takeRequeued(seenPaths, requeued)
  /\ requeued' = {}
  /\ \/ /\ Fault            \* ReadDir failed
        /\ UNCHANGED <<loop, scans>>
     \/ /\ present' = {p \in Paths : dir[p].body # "gone"}
        /\ todo' = present'
        /\ checkRewrites' = (scans = 0)
        /\ scans' = (scans + 1) % RewriteCheckTicks
        /\ spc' = "scan"
        /\ UNCHANGED <<stamp, content, gone, faults>>
  /\ UNCHANGED <<dir, disk, events, eventMarks, hasLedger, deferred,
                 parseFails, pendingMarks, work, atcs, crashes>>

\* ReadDir sorts: the first entry not yet handled
Entry(p) == p \in todo /\ \A q \in todo : p <= q

Rewritten(p) == dir[p].body # "gone" /\ dir[p].ver # seenPaths[p]

SkipSeen(p) ==
  /\ spc = "scan" /\ Entry(p) /\ seenPaths[p] # 0
  /\ ~(checkRewrites /\ Rewritten(p))
  /\ todo' = todo \ {p}
  /\ UNCHANGED <<dir, disk, shared, books, spc, present, checkRewrites,
                 stamp, content, gone, work, bounds>>

\* the entry is no longer seen and is handled as a new upload
RewriteFound(p) ==
  /\ spc = "scan" /\ Entry(p) /\ seenPaths[p] # 0
  /\ checkRewrites /\ Rewritten(p)
  /\ seenPaths' = [seenPaths EXCEPT ![p] = 0]
  /\ UNCHANGED <<dir, disk, shared, hasLedger, deferred, parseFails, scans,
                 pendingMarks, loop, work, bounds>>

\* defect: past the fast window there is no retry at all
NeverAgain(p) == deferred[p] >= MaxDeferTicks

\* past the fast window and not at a retry tick: no lookup in this scan
Backoff(p) ==
  /\ deferred[p] >= MaxDeferTicks
  /\ (deferred[p] - MaxDeferTicks) % ResolveRetryTicks # 0

\* deferred[p]++, folded where the code no longer tells two counts apart
Tick(n) == IF n + 1 = MaxDeferTicks + ResolveRetryTicks THEN MaxDeferTicks
           ELSE n + 1

Defer(p) ==
  /\ spc = "scan" /\ Entry(p) /\ seenPaths[p] = 0
  /\ Backoff(p) \/ DeviceOf[p] \notin known
  /\ deferred' = [deferred EXCEPT ![p] = Tick(@)]
  /\ todo' = todo \ {p}
  /\ UNCHANGED <<dir, disk, shared, hasLedger, seenPaths, parseFails, scans,
                 pendingMarks, spc, present, checkRewrites, stamp, content,
                 gone, work, bounds>>

\* stampOf, before the file is read; it fails when the file is gone
StampEntry(p) ==
  /\ spc = "scan" /\ Entry(p) /\ seenPaths[p] = 0
  /\ ~Backoff(p) /\ DeviceOf[p] \in known
  /\ IF dir[p].body = "gone"
       THEN todo' = todo \ {p} /\ UNCHANGED <<spc, stamp>>
       ELSE stamp' = dir[p].ver /\ spc' = "parse" /\ UNCHANGED todo
  /\ UNCHANGED <<dir, disk, shared, books, present, checkRewrites, content,
                 gone, work, bounds>>

ReadUpload ==
  /\ spc = "parse"
  /\ \E p \in todo : Entry(p) /\ content' = dir[p]
  /\ spc' = "mark"
  /\ UNCHANGED <<dir, disk, shared, books, todo, present, checkRewrites,
                 stamp, gone, work, bounds>>

\* A mark without events is persisted by this scan, a mark with events
\* travels with them.  Without a ledger nothing is kept for later.
markSeen(p, st, evs) ==
  /\ seenPaths' = [seenPaths EXCEPT ![p] = st]
  /\ deferred' = [deferred EXCEPT ![p] = 0]
  /\ parseFails' = [parseFails EXCEPT ![p] = 0]
  /\ events' = events \o evs
  /\ pendingMarks' = IF hasLedger /\ evs = << >>
                     THEN pendingMarks \cup {FTPMark(p, st)}
                     ELSE pendingMarks
  /\ eventMarks' = IF hasLedger /\ evs # << >>
                   THEN eventMarks \cup
                          {[path |-> p, stamp |-> FTPMark(p, st).stamp,
                            end |-> Len(events) + Len(evs)]}
                   ELSE eventMarks

\* defect: one retry too many
OneMore(p) == parseFails[p] + 1 <= MaxParseRetries

RetryLeft(p) == parseFails[p] + 1 < MaxParseRetries

FinishEntry(p) ==
  /\ spc = "mark" /\ Entry(p)
  /\ IF Unreadable(content) /\ RetryLeft(p)
       THEN /\ parseFails' = [parseFails EXCEPT ![p] = @ + 1]
            /\ UNCHANGED <<seenPaths, deferred, pendingMarks,
                           events, eventMarks>>
       ELSE markSeen(p, stamp, parseUpload(p, content))
  /\ todo' = todo \ {p} /\ spc' = "scan"
  /\ stamp' = 0 /\ content' = [ver |-> 0, body |-> "gone"]
  /\ UNCHANGED <<dir, disk, requeued, hasLedger, scans, present,
                 checkRewrites, gone, work, bounds>>

\* every entry handled: forget, in memory, what has rotated away
ScanGone ==
  /\ spc = "scan" /\ todo = {}
  /\ gone' = {p \in Paths \ present : seenPaths[p] # 0}
  /\ seenPaths' = Without(seenPaths, Paths \ present)
  /\ deferred' = Without(deferred, Paths \ present)
  /\ parseFails' = Without(parseFails, Paths \ present)
  /\ spc' = IF ~hasLedger THEN "idle"
            ELSE IF gone' = {} THEN "flush" ELSE "forget"
  /\ checkRewrites' = FALSE
  /\ UNCHANGED <<dir, disk, shared, hasLedger, scans, pendingMarks, todo,
                 present, stamp, content, work, bounds>>

\* ForgetFTPIngested runs in chunks: a failure leaves the later ones
ForgetGone ==
  /\ spc = "forget"
  /\ \/ ledger' = Without(ledger, gone) /\ UNCHANGED faults
     \/ Fault /\ \E done \in SUBSET gone : ledger' = Without(ledger, done)
  /\ spc' = "filter" /\ gone' = {}
  /\ UNCHANGED <<dir, known, cwmpEvents, queued, dropped, shared, books,
                 todo, present, checkRewrites, stamp, content, work,
                 atcs, crashes>>

keepPresent(ms) == {m \in ms : m.path \in present}

FilterMarks ==
  /\ spc = "filter"
  /\ pendingMarks' = keepPresent(pendingMarks)
  /\ eventMarks' = keepPresent(eventMarks)
  /\ spc' = "flush"
  /\ UNCHANGED <<dir, disk, events, requeued, hasLedger, seenPaths, deferred,
                 parseFails, scans, todo, present, checkRewrites, stamp,
                 content, gone, work, bounds>>

\* MarkFTPIngested, also in chunks; after a failure all marks are retried
FlushPending ==
  /\ spc = "flush"
  /\ \/ /\ ledger' \in Upserted(ledger, pendingMarks)
        /\ pendingMarks' = {}
        /\ UNCHANGED faults
     \/ /\ pendingMarks # {} /\ Fault
        /\ \E done \in SUBSET pendingMarks :
             ledger' \in Upserted(ledger, done)
        /\ UNCHANGED pendingMarks
  /\ spc' = "idle" /\ present' = {}
  /\ UNCHANGED <<dir, known, cwmpEvents, queued, dropped, shared, hasLedger,
                 seenPaths, deferred, parseFails, scans, todo,
                 checkRewrites, stamp, content, gone, work, atcs, crashes>>

-----------------------------------------------------------------------------
(* The worker: one pushTier.                                               *)

DrainFTP ==
  /\ wpc = "idle" /\ (events # << >> \/ cwmpEvents # << >>)
  /\ batch' = events /\ marks' = eventMarks /\ start' = 0
  /\ events' = << >> /\ eventMarks' = {}
  /\ wpc' = "events"
  /\ UNCHANGED <<dir, disk, requeued, books, loop, bounds>>

\* defect: the CWMP events go before the FTP events
CwmpFirst(ftp, cwmp) == cwmp \o ftp

\* defect: the CWMP events go out only when there are no FTP events
FtpOrCwmp(ftp, cwmp) == IF ftp = << >> THEN cwmp ELSE ftp

\* the FTP events come first, so the batch's mark indices stay valid
Joined(ftp, cwmp) == ftp \o cwmp

\* defect: a row whose update failed is sent all the same
AllRows(rows, i) == rows

\* the rows a drain returns when the update of the i-th failed
Updated(rows, i) == SubSeq(rows, 1, i - 1) \o SubSeq(rows, i + 1, Len(rows))

\* The rows read are marked uploaded one by one.  A row whose update fails is
\* left for the next drain; a failed query returns nothing.
DrainEvents ==
  /\ wpc = "events"
  /\ LET n == IF Len(cwmpEvents) < EventLimit THEN Len(cwmpEvents)
              ELSE EventLimit
         rows == SubSeq(cwmpEvents, 1, n)
         rest == SubSeq(cwmpEvents, n + 1, Len(cwmpEvents))
     IN  \/ /\ batch' = Joined(batch, rows)
            /\ cwmpEvents' = rest
            /\ UNCHANGED faults
         \/ /\ rows # << >> /\ Fault
            /\ UNCHANGED <<batch, cwmpEvents>>
         \/ /\ Fault
            /\ \E i \in 1..n :
                 /\ batch' = Joined(batch, Updated(rows, i))
                 /\ cwmpEvents' = <<rows[i]>> \o rest
  /\ wpc' = IF batch' = << >> THEN "idle" ELSE "enqueue"
  /\ UNCHANGED <<dir, known, ledger, queued, dropped, shared, books, loop,
                 marks, start, atcs, crashes>>

\* defect: an upload is marked with the body that carries its first event
EarlyMarks(i, j) == Strip({m \in marks : i < m.end})

\* the marks of the uploads whose last event lies in batch[i+1..j]
MarksIn(i, j) == Strip({m \in marks : i < m.end /\ m.end <= j})

EndBatch ==
  wpc' = "idle" /\ batch' = << >> /\ marks' = {} /\ start' = 0

\* the next body starts where this one ends
Advance(e) ==
  IF e = Len(batch) THEN EndBatch
  ELSE start' = e /\ UNCHANGED <<wpc, batch, marks>>

\* splitTelemetry cuts the events into contiguous bodies; which cut depends
\* on sizes, so any is possible here.  EnqueueWithMarks inserts one body with
\* the marks of the uploads that end in it, in one transaction.
EnqueuePart(e) ==
  /\ wpc = "enqueue" /\ e \in (start + 1)..Len(batch)
  /\ \A x \in Span(batch, start, e) : ~x.big
  /\ queued' = queued \cup Span(batch, start, e)
  /\ ledger' \in Upserted(ledger, MarksIn(start, e))
  /\ Advance(e)
  /\ UNCHANGED <<dir, known, cwmpEvents, dropped, shared, books, loop,
                 bounds>>

\* A body larger than the whole cap holds one event, and either that event is
\* too large or the metrics and alarms that ride with the first body are.
\* Its uploads are recorded as done, or requeued when that fails.
DropPart(e) ==
  /\ wpc = "enqueue" /\ start < Len(batch) /\ e = start + 1
  /\ batch[e].big \/ start = 0
  /\ dropped' = dropped \cup {batch[e]}
  /\ \/ /\ ledger' \in Upserted(ledger, MarksIn(start, e))
        /\ UNCHANGED <<requeued, faults>>
     \/ /\ MarksIn(start, e) # {} /\ Fault
        /\ requeued' = requeued \cup MarksIn(start, e)
        /\ UNCHANGED ledger
  /\ Advance(e)
  /\ UNCHANGED <<dir, known, cwmpEvents, queued, events, eventMarks, books,
                 loop, atcs, crashes>>

\* defect: only the marks of the failed body go back
FailedBody == MarksIn(start, start + 1)

NotQueued == MarksIn(start, Len(batch))

\* an insert failed: the marks of this body and of all later ones go back
InsertFailed ==
  /\ wpc = "enqueue" /\ Fault
  /\ requeued' = requeued \cup NotQueued
  /\ EndBatch
  /\ UNCHANGED <<dir, disk, events, eventMarks, books, loop, atcs, crashes>>

-----------------------------------------------------------------------------
Scanner ==
  \/ ScanStart
  \/ \E p \in Paths : \/ SkipSeen(p) \/ RewriteFound(p)
                      \/ Defer(p) \/ StampEntry(p) \/ FinishEntry(p)
  \/ ReadUpload
  \/ ScanGone \/ ForgetGone \/ FilterMarks \/ FlushPending

Worker ==
  \/ DrainFTP \/ DrainEvents \/ InsertFailed
  \/ \E e \in 1..Len(batch) : EnqueuePart(e) \/ DropPart(e)

Environment ==
  \/ \E p \in Paths : Remove(p) \/ \E b \in Bodies \ {"gone"} : Upload(p, b)
  \/ \E d \in Devices : Inform(d)
  \/ EmitEvent
  \/ Crash

Next == Scanner \/ Worker \/ Environment

Spec == Init /\ [][Next]_vars

\* the 2 s ticker drives the scanner and the telemetry tickers the worker
FairSpec == Spec /\ WF_vars(Scanner) /\ WF_vars(Worker)

-----------------------------------------------------------------------------
(* Properties.                                                             *)

WorldType == dir \in [Paths -> Files] /\ known \subseteq Devices

DiskType ==
  /\ ledger \in [Paths -> Vers] /\ cwmpEvents \in Seq(Events)
  /\ queued \subseteq Events /\ dropped \subseteq Events

SharedType ==
  /\ events \in Seq(Events) /\ eventMarks \subseteq EventMarks
  /\ requeued \subseteq Marks

BooksType ==
  /\ hasLedger \in BOOLEAN /\ seenPaths \in [Paths -> Vers]
  /\ deferred \in [Paths -> 0..(MaxDeferTicks + ResolveRetryTicks - 1)]
  /\ parseFails \in [Paths -> 0..(MaxParseRetries - 1)]
  /\ scans \in 0..(RewriteCheckTicks - 1) /\ pendingMarks \subseteq Marks

LoopType ==
  /\ spc \in {"idle", "scan", "parse", "mark", "forget", "filter", "flush"}
  /\ todo \subseteq Paths /\ present \subseteq Paths
  /\ checkRewrites \in BOOLEAN /\ stamp \in Vers /\ content \in Files
  /\ gone \subseteq Paths

WorkType ==
  /\ wpc \in {"idle", "events", "enqueue"} /\ batch \in Seq(Events)
  /\ marks \subseteq EventMarks /\ start \in Nat

BoundsType ==
  /\ atcs \in 0..MaxAtc /\ faults \in 0..MaxFaults
  /\ crashes \in 0..MaxCrashes

\* Every variable keeps its type: stamps are versions, a mark's end is an
\* index, the retry counters stay below their limits, the scanner and the
\* worker are at one of their steps.
TypeOK ==
  /\ WorldType /\ DiskType /\ SharedType /\ BooksType /\ LoopType
  /\ WorkType /\ BoundsType

HandedOff == queued \cup dropped

\* An upload that the ledger records as ingested, in the version that is in
\* the watch directory, has all its events in the outbox (or refused as
\* larger than the cap): a restart, which trusts the ledger, loses nothing.
MarkedIsQueued ==
  \A p \in Paths : (ledger[p] = dir[p].ver /\ HasEvents(dir[p]))
                     => EventsIn(p, dir[p]) \subseteq HandedOff

InMemory == Span(events, 0, Len(events)) \cup Span(batch, start, Len(batch))

\* With a ledger, an upload the scanner skips as seen has every event either
\* handed off or still on its way in memory, or is due to be parsed again.
SeenAccounted ==
  hasLedger => \A p \in Paths :
    (seenPaths[p] = dir[p].ver /\ HasEvents(dir[p]))
      => \/ EventsIn(p, dir[p]) \subseteq HandedOff \cup InMemory
         \/ [path |-> p, stamp |-> seenPaths[p]] \in requeued

\* With a ledger no step marks an upload seen at a stamp the ledger already
\* holds: a restart resumes and does not parse what it finished.
NoReparse ==
  [][\A p \in Paths :
       (spc = "mark" /\ hasLedger /\ seenPaths[p] = 0 /\ seenPaths'[p] # 0
          /\ crashes' = crashes) => ledger[p] # seenPaths'[p]]_vars

Ingestible(p) == HasEvents(dir[p]) /\ DeviceOf[p] \in known
Ingested(p) == EventsIn(p, dir[p]) \subseteq HandedOff

\* With a ledger, a log that stays in the watch directory, of a device that
\* informs, has its events handed off, whatever failed or restarted before.
\* (Without one a failed insert has no mark to hand back: markSeen.)
EventuallyIngested ==
  \A p \in Paths : <>[](Ingestible(p) /\ hasLedger) => <>[]Ingested(p)

\* An emitted ATC event is stored, in a batch on its way, or handed off, until
\* a statement fails or the agent stops: uploaded=1 is set before the insert,
\* so those two can lose what a drain took, and nothing else can.
AtcKept ==
  (faults = 0 /\ crashes = 0) =>
    \A n \in 1..atcs : AtcEvent(n) \in
      HandedOff \cup InMemory \cup Span(cwmpEvents, 0, Len(cwmpEvents))

\* DrainEvents hands out a row only once its update succeeded: an ATC event
\* that is still stored as not uploaded is in no batch and not handed off.
AtcAtMostOnce ==
  \A n \in 1..Len(cwmpEvents) :
    cwmpEvents[n] \notin HandedOff \cup Span(batch, 0, Len(batch))
=============================================================================
