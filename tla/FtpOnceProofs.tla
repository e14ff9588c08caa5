---------------------------- MODULE FtpOnceProofs ----------------------------
(***************************************************************************)
(* Proofs that FtpIngest does nothing twice: an ATC event still stored as  *)
(* not uploaded was never sent, and no upload is parsed again at a stamp   *)
(* the ledger holds.  Nor does it lose an ATC event without a failure.     *)
(***************************************************************************)
EXTENDS FtpIngestProofs

USE ConstantsAssumption

-----------------------------------------------------------------------------
(***************************************************************************)
(* The rows of cwmp_events.  A row that is still there is in no batch, but *)
(* the step that takes it needs more: rows are numbered upwards, so that   *)
(* those a drain leaves behind differ from those it takes, and no event    *)
(* already reported has a number that EmitEvent is still to give.  The     *)
(* events of uploads are told apart from rows by their path.               *)
(***************************************************************************)

Reported == HandedOff \cup {batch[i] : i \in DOMAIN batch}

AtcRows ==
  /\ \A i \in DOMAIN cwmpEvents :
       cwmpEvents[i].path = 0 /\ cwmpEvents[i].ver <= atcs
  /\ \A i, j \in DOMAIN cwmpEvents : i < j => cwmpEvents[i].ver < cwmpEvents[j].ver

AtcReported ==
  \A x \in Reported : /\ x.path = 0 => x.ver <= atcs
                      /\ \A i \in DOMAIN cwmpEvents : cwmpEvents[i] # x

FtpEvents == \A i \in DOMAIN events : events[i].path # 0

AtcInv == AtcRows /\ AtcReported /\ FtpEvents

LEMMA AtcInit == Init => AtcInv
BY DEF Init, AtcInv, AtcRows, AtcReported, FtpEvents, Reported, HandedOff

LEMMA AtcFrame ==
  ASSUME AtcInv, UNCHANGED <<atcs, cwmpEvents>>, Reported' \subseteq Reported,
         UNCHANGED events \/ events' = << >>
  PROVE  AtcInv'
BY DEF AtcInv, AtcRows, AtcReported, FtpEvents

LEMMA EmitAtc ==
  ASSUME TypeOK, AtcInv, EmitEvent
  PROVE  AtcInv'
<1> DEFINE a == AtcEvent(atcs + 1)
<1>1. cwmpEvents \in Seq(Events) /\ atcs \in Nat /\ atcs' = atcs + 1
      /\ cwmpEvents' = Append(cwmpEvents, a)
      /\ UNCHANGED <<queued, dropped, batch, events>>
  BY DEF EmitEvent, TypeOK, DiskType, BoundsType, shared, work
<1>2. a.path = 0 /\ a.ver = atcs + 1
  BY DEF AtcEvent
<1> HIDE DEF a
<1>3. \A i \in DOMAIN cwmpEvents' :
        \/ i \in DOMAIN cwmpEvents /\ cwmpEvents'[i] = cwmpEvents[i] /\ i < Len(cwmpEvents')
        \/ i = Len(cwmpEvents') /\ cwmpEvents'[i] = a
  BY <1>1
<1>4. \A i \in DOMAIN cwmpEvents :
        cwmpEvents[i].ver \in Nat /\ cwmpEvents[i].ver <= atcs /\ cwmpEvents[i].path = 0
  <2>1. \A x \in Events : x.ver \in Nat
    BY DEF Events
  <2>2. \A i \in DOMAIN cwmpEvents : cwmpEvents[i] \in Events
    BY <1>1
  <2> QED BY <2>1, <2>2 DEF AtcInv, AtcRows
<1>5. Reported' = Reported
  BY <1>1 DEF Reported, HandedOff
<1>6. \A x \in Reported : x.path = 0 => x.ver \in Nat /\ x.ver <= atcs
  <2>1. Reported \subseteq Events
    BY DEF Reported, HandedOff, TypeOK, DiskType, WorkType
  <2> QED BY <2>1 DEF AtcInv, AtcReported, Events
<1>7. AtcRows'
  <2>1. \A i \in DOMAIN cwmpEvents' :
          cwmpEvents'[i].path = 0 /\ cwmpEvents'[i].ver <= atcs'
    BY <1>1, <1>2, <1>3, <1>4
  <2>2. ASSUME NEW i \in DOMAIN cwmpEvents', NEW j \in DOMAIN cwmpEvents', i < j
        PROVE  cwmpEvents'[i].ver < cwmpEvents'[j].ver
    <3>1. i \in DOMAIN cwmpEvents /\ cwmpEvents'[i] = cwmpEvents[i]
      BY <1>1, <1>3, <2>2
    <3>2. CASE j \in DOMAIN cwmpEvents /\ cwmpEvents'[j] = cwmpEvents[j]
      BY <2>2, <3>1, <3>2 DEF AtcInv, AtcRows
    <3>3. CASE cwmpEvents'[j] = a
      BY <1>1, <1>2, <1>4, <3>1, <3>3
    <3> QED BY <1>3, <3>2, <3>3
  <2> QED BY <2>1, <2>2 DEF AtcRows
<1>8. AtcReported'
  <2> SUFFICES ASSUME NEW x \in Reported
               PROVE  /\ x.path = 0 => x.ver <= atcs'
                      /\ \A i \in DOMAIN cwmpEvents' : cwmpEvents'[i] # x
    BY <1>5 DEF AtcReported
  <2>1. x.path = 0 => x.ver \in Nat /\ x.ver <= atcs
    BY <1>6
  <2>2. a # x
    BY <1>1, <1>2, <2>1
  <2>3. \A i \in DOMAIN cwmpEvents : cwmpEvents[i] # x
    BY DEF AtcInv, AtcReported
  <2> QED BY <1>1, <1>3, <2>1, <2>2, <2>3
<1> QED BY <1>1, <1>7, <1>8 DEF AtcInv, FtpEvents

\* what a drain takes and what it leaves
LEMMA DrainedRows ==
  ASSUME TypeOK, DrainEvents
  PROVE  \/ /\ UNCHANGED cwmpEvents
            /\ \A x \in Reported' : x \in Reported
         \/ \E n \in 0..Len(cwmpEvents), i \in Nat :
              /\ \A x \in Reported' :
                   \/ x \in Reported
                   \/ \E k \in 1..n : x = cwmpEvents[k] /\ k # i
              /\ \A j \in DOMAIN cwmpEvents' :
                   \E k \in DOMAIN cwmpEvents :
                     /\ cwmpEvents'[j] = cwmpEvents[k] /\ (k = i \/ k > n)
              /\ \A j, l \in DOMAIN cwmpEvents' : j < l =>
                   \E k, m \in DOMAIN cwmpEvents :
                     k < m /\ cwmpEvents'[j] = cwmpEvents[k] /\ cwmpEvents'[l] = cwmpEvents[m]
<1> DEFINE n == IF Len(cwmpEvents) < EventLimit THEN Len(cwmpEvents) ELSE EventLimit
           rows == SubSeq(cwmpEvents, 1, n)
           rest == SubSeq(cwmpEvents, n + 1, Len(cwmpEvents))
<1>1. cwmpEvents \in Seq(Events) /\ batch \in Seq(Events) /\ n \in 0..Len(cwmpEvents)
      /\ Len(cwmpEvents) \in Nat /\ n \in Nat
  BY DEF TypeOK, DiskType, WorkType
<1>2. UNCHANGED <<queued, dropped>>
  BY DEF DrainEvents
<1>3. \/ batch' = batch \o rows /\ cwmpEvents' = rest
      \/ UNCHANGED <<batch, cwmpEvents>>
      \/ \E i \in 1..n : batch' = batch \o Updated(rows, i) /\ cwmpEvents' = <<rows[i]>> \o rest
  BY DEF DrainEvents, Joined
<1> HIDE DEF n
<1>4. /\ rows \in Seq(Events) /\ Len(rows) = n
      /\ \A k \in 1..n : rows[k] = cwmpEvents[k]
  BY <1>1
<1>5. /\ rest \in Seq(Events) /\ Len(rest) = Len(cwmpEvents) - n
      /\ \A k \in 1..(Len(cwmpEvents) - n) : rest[k] = cwmpEvents[n + k]
  BY <1>1
<1> HIDE DEF rows, rest
<1>6. ASSUME NEW t \in Seq(Events), batch' = batch \o t
      PROVE  \A x \in Reported' : x \in Reported \/ \E k \in DOMAIN t : x = t[k]
  <2>1. \A j \in DOMAIN batch' :
          \/ j \in DOMAIN batch /\ batch'[j] = batch[j]
          \/ \E k \in DOMAIN t : batch'[j] = t[k]
    <3> SUFFICES ASSUME NEW j \in DOMAIN batch'
                 PROVE  \/ j \in DOMAIN batch /\ batch'[j] = batch[j]
                        \/ \E k \in DOMAIN t : batch'[j] = t[k]
      OBVIOUS
    <3>1. j \in 1..(Len(batch) + Len(t)) /\ Len(batch) \in Nat /\ Len(t) \in Nat
      BY <1>1, <1>6
    <3>2. CASE j <= Len(batch)
      BY <1>1, <1>6, <3>1, <3>2
    <3>3. CASE j > Len(batch)
      <4>1. j - Len(batch) \in DOMAIN t /\ batch'[j] = t[j - Len(batch)]
        BY <1>1, <1>6, <3>1, <3>3
      <4> QED BY <4>1
    <3> QED BY <3>1, <3>2, <3>3
  <2> QED BY <1>2, <2>1 DEF Reported, HandedOff
<1>7. CASE batch' = batch \o rows /\ cwmpEvents' = rest
  <2>1. \A x \in Reported' :
          x \in Reported \/ \E k \in 1..n : x = cwmpEvents[k] /\ k # 0
    <3>1. DOMAIN rows = 1..n
      BY <1>4
    <3>2. \A x \in Reported' : x \in Reported \/ \E k \in DOMAIN rows : x = rows[k]
      BY <1>4, <1>6, <1>7
    <3>3. \A k \in 1..n : k # 0
      BY <1>1
    <3> QED BY <1>4, <3>1, <3>2, <3>3
  <2>2. \A j \in DOMAIN cwmpEvents' :
          /\ n + j \in DOMAIN cwmpEvents /\ cwmpEvents'[j] = cwmpEvents[n + j]
          /\ n + j > n /\ j \in Nat
    <3>1. DOMAIN rest = 1..(Len(cwmpEvents) - n) /\ DOMAIN cwmpEvents = 1..Len(cwmpEvents)
      BY <1>1, <1>5, LenProperties
    <3> SUFFICES ASSUME NEW j \in 1..(Len(cwmpEvents) - n)
                 PROVE  /\ n + j \in 1..Len(cwmpEvents) /\ rest[j] = cwmpEvents[n + j]
                        /\ n + j > n /\ j \in Nat
      BY <1>7, <3>1
    <3>2. n + j \in 1..Len(cwmpEvents) /\ n + j > n /\ j \in Nat
      BY <1>1
    <3> QED BY <1>5, <3>2
  <2>3. \A j, l \in DOMAIN cwmpEvents' : j < l => n + j < n + l
    BY <1>1, <2>2
  <2>4. \A j, l \in DOMAIN cwmpEvents' : j < l =>
          \E k, m \in DOMAIN cwmpEvents :
            k < m /\ cwmpEvents'[j] = cwmpEvents[k] /\ cwmpEvents'[l] = cwmpEvents[m]
    BY <2>2, <2>3
  <2>5. \A j \in DOMAIN cwmpEvents' : \E k \in DOMAIN cwmpEvents :
          cwmpEvents'[j] = cwmpEvents[k] /\ (k = 0 \/ k > n)
    BY <2>2
  <2> QED BY <1>1, <2>1, <2>4, <2>5
<1>8. ASSUME NEW i \in 1..n, batch' = batch \o Updated(rows, i),
             cwmpEvents' = <<rows[i]>> \o rest
      PROVE  /\ \A x \in Reported' :
                  \/ x \in Reported
                  \/ \E k \in 1..n : x = cwmpEvents[k] /\ k # i
             /\ \A j \in DOMAIN cwmpEvents' :
                  \E k \in DOMAIN cwmpEvents :
                    cwmpEvents'[j] = cwmpEvents[k] /\ (k = i \/ k > n)
             /\ \A j, l \in DOMAIN cwmpEvents' : j < l =>
                  \E k, m \in DOMAIN cwmpEvents :
                    k < m /\ cwmpEvents'[j] = cwmpEvents[k] /\ cwmpEvents'[l] = cwmpEvents[m]
  <2>1. /\ Updated(rows, i) \in Seq(Events)
        /\ \A k \in DOMAIN Updated(rows, i) :
             \E m \in 1..n : Updated(rows, i)[k] = rows[m] /\ m # i
    <3> DEFINE u == SubSeq(rows, 1, i - 1)  w == SubSeq(rows, i + 1, Len(rows))
    <3>1. /\ u \in Seq(Events) /\ Len(u) = i - 1
          /\ \A k \in 1..(i - 1) : u[k] = rows[k]
      BY <1>1, <1>4
    <3>2. /\ w \in Seq(Events) /\ Len(w) = n - i
          /\ \A k \in 1..(n - i) : w[k] = rows[i + k]
      BY <1>1, <1>4
    <3>3. Updated(rows, i) = u \o w
      BY DEF Updated
    <3> HIDE DEF u, w
    <3>4. ASSUME NEW k \in DOMAIN (u \o w)
          PROVE  \E m \in 1..n : (u \o w)[k] = rows[m] /\ m # i
      <4>1. k \in 1..(n - 1) /\ i \in 1..n /\ n \in Nat
        BY <1>1, <3>1, <3>2
      <4>2. CASE k <= i - 1
        <5>1. (u \o w)[k] = rows[k] /\ k \in 1..n /\ k # i
          BY <3>1, <3>2, <4>1, <4>2
        <5> QED BY <5>1
      <4>3. CASE k > i - 1
        <5>1. (u \o w)[k] = w[k - (i - 1)] /\ k - (i - 1) \in 1..(n - i)
          BY <3>1, <3>2, <4>1, <4>3
        <5>2. w[k - (i - 1)] = rows[k + 1] /\ k + 1 \in 1..n /\ k + 1 # i
          BY <3>2, <4>1, <4>3, <5>1
        <5> QED BY <5>1, <5>2
      <4> QED BY <4>1, <4>2, <4>3
    <3>5. u \o w \in Seq(Events)
      BY <3>1, <3>2
    <3> QED BY <3>3, <3>4, <3>5
  <2>2. \A x \in Reported' :
          x \in Reported \/ \E k \in 1..n : x = cwmpEvents[k] /\ k # i
    <3> SUFFICES ASSUME NEW x \in Reported', x \notin Reported
                 PROVE  \E k \in 1..n : x = cwmpEvents[k] /\ k # i
      OBVIOUS
    <3>1. PICK k \in DOMAIN Updated(rows, i) : x = Updated(rows, i)[k]
      BY <1>6, <1>8, <2>1
    <3> QED BY <1>4, <2>1, <3>1
  <2> DEFINE Src(j) == IF j = 1 THEN i ELSE n + (j - 1)
  <2>3. Len(cwmpEvents') = Len(cwmpEvents) - n + 1
        /\ DOMAIN cwmpEvents' = 1..(Len(cwmpEvents) - n + 1)
        /\ cwmpEvents'[1] = rows[i]
        /\ \A j \in 2..(Len(cwmpEvents) - n + 1) : cwmpEvents'[j] = rest[j - 1]
    <3> DEFINE h == <<rows[i]>>
    <3>1. rows[i] \in Events
      BY <1>1, <1>4
    <3>2. h \in Seq(Events) /\ Len(h) = 1 /\ h[1] = rows[i]
      BY <3>1
    <3> HIDE DEF h
    <3>3. cwmpEvents' = h \o rest
      BY <1>8 DEF h
    <3> DEFINE N == Len(cwmpEvents) - n
    <3>0. N \in Nat /\ Len(rest) = N
      BY <1>1, <1>5
    <3> HIDE DEF N
    <3>4. /\ h \o rest \in Seq(Events) /\ Len(h \o rest) = 1 + N
          /\ \A j \in 1..(1 + N) : (h \o rest)[j] = IF j <= 1 THEN h[j] ELSE rest[j - 1]
      <4>1. /\ h \o rest \in Seq(Events) /\ Len(h \o rest) = Len(h) + Len(rest)
            /\ \A j \in 1..(Len(h) + Len(rest)) :
                 (h \o rest)[j] = IF j <= Len(h) THEN h[j] ELSE rest[j - Len(h)]
        <5>1. h \in Seq(Events) /\ rest \in Seq(Events)
          BY <1>5, <3>2, Zenon
        <5> QED BY <5>1, ConcatProperties, ZenonT(60)
      <4>2. Len(h) = 1 /\ Len(rest) = N
        BY <3>0, <3>2
      <4> QED BY <4>1, <4>2, Zenon
    <3>5. DOMAIN (h \o rest) = 1..(N + 1) /\ Len(h \o rest) = N + 1
      BY <3>0, <3>4, LenProperties
    <3>6. (h \o rest)[1] = rows[i]
      BY <3>0, <3>2, <3>4
    <3>7. \A j \in 2..(N + 1) : (h \o rest)[j] = rest[j - 1]
      BY <3>0, <3>4
    <3> USE DEF N
    <3> QED BY <3>3, <3>4, <3>5, <3>6, <3>7
  <2>4. ASSUME NEW j \in DOMAIN cwmpEvents'
        PROVE  /\ j \in Nat /\ Src(j) \in DOMAIN cwmpEvents
               /\ cwmpEvents'[j] = cwmpEvents[Src(j)]
               /\ Src(j) = i \/ Src(j) > n
    <3>1. CASE j = 1
      BY <1>1, <1>4, <2>3, <3>1
    <3>2. CASE j # 1
      <4>1. j \in 2..(Len(cwmpEvents) - n + 1) /\ j - 1 \in 1..(Len(cwmpEvents) - n)
        BY <1>1, <2>3, <3>2
      <4>2. cwmpEvents'[j] = cwmpEvents[n + (j - 1)]
        BY <1>5, <2>3, <4>1
      <4> QED BY <1>1, <3>2, <4>1, <4>2
    <3> QED BY <3>1, <3>2
  <2>5. ASSUME NEW j \in DOMAIN cwmpEvents', NEW l \in DOMAIN cwmpEvents', j < l
        PROVE  Src(j) < Src(l)
    BY <1>1, <2>3, <2>5
  <2> HIDE DEF Src
  <2>6. \A j \in DOMAIN cwmpEvents' :
          \E k \in DOMAIN cwmpEvents :
            cwmpEvents'[j] = cwmpEvents[k] /\ (k = i \/ k > n)
    BY <2>4
  <2>7. \A j, l \in DOMAIN cwmpEvents' : j < l =>
          \E k, m \in DOMAIN cwmpEvents :
            k < m /\ cwmpEvents'[j] = cwmpEvents[k] /\ cwmpEvents'[l] = cwmpEvents[m]
    BY <2>4, <2>5
  <2> QED BY <2>2, <2>6, <2>7
<1>9. CASE UNCHANGED <<batch, cwmpEvents>>
  BY <1>2, <1>9 DEF Reported, HandedOff
<1>10. ASSUME NEW i \in 1..n PROVE i \in Nat
  BY <1>1
<1>11. CASE \E i \in 1..n : /\ batch' = batch \o Updated(rows, i)
                             /\ cwmpEvents' = <<rows[i]>> \o rest
  <2>1. PICK i \in 1..n : /\ batch' = batch \o Updated(rows, i)
                          /\ cwmpEvents' = <<rows[i]>> \o rest
    BY <1>11, Zenon
  <2>2. i \in Nat
    BY <1>10
  <2> QED BY <1>1, <1>8, <2>1, <2>2, ZenonT(90)
<1> QED BY <1>3, <1>7, <1>9, <1>11, Zenon


LEMMA DrainAtc ==
  ASSUME TypeOK, AtcInv, DrainEvents
  PROVE  AtcInv'
<1>1. UNCHANGED <<atcs, events>> /\ cwmpEvents \in Seq(Events)
  BY DEF DrainEvents, shared, TypeOK, DiskType
<1>2. CASE UNCHANGED cwmpEvents /\ \A x \in Reported' : x \in Reported
  BY <1>1, <1>2, AtcFrame
<1>3. ASSUME NEW n \in 0..Len(cwmpEvents), NEW i \in Nat,
             \A x \in Reported' :
               \/ x \in Reported
               \/ \E k \in 1..n : x = cwmpEvents[k] /\ k # i,
             \A j \in DOMAIN cwmpEvents' :
               \E k \in DOMAIN cwmpEvents :
                 /\ cwmpEvents'[j] = cwmpEvents[k] /\ (k = i \/ k > n),
             \A j, l \in DOMAIN cwmpEvents' : j < l =>
               \E k, m \in DOMAIN cwmpEvents :
                 k < m /\ cwmpEvents'[j] = cwmpEvents[k] /\ cwmpEvents'[l] = cwmpEvents[m]
      PROVE  AtcInv'
  <2>1. AtcRows'
    BY <1>1, <1>3 DEF AtcInv, AtcRows
  <2>2. /\ DOMAIN cwmpEvents = 1..Len(cwmpEvents) /\ Len(cwmpEvents) \in Nat
        /\ \A k \in DOMAIN cwmpEvents : cwmpEvents[k].ver \in Nat
    <3>1. \A x \in Events : x.ver \in Nat
      BY DEF Events
    <3> QED BY <1>1, <3>1
  <2>3. ASSUME NEW k \in DOMAIN cwmpEvents, NEW m \in DOMAIN cwmpEvents, k # m
        PROVE  cwmpEvents[k] # cwmpEvents[m]
    <3>1. k < m \/ m < k
      BY <2>2, <2>3
    <3>2. cwmpEvents[k].ver < cwmpEvents[m].ver \/ cwmpEvents[m].ver < cwmpEvents[k].ver
      BY <3>1 DEF AtcInv, AtcRows
    <3> QED BY <2>2, <3>2
  <2>4. ASSUME NEW x \in Reported'
        PROVE  /\ x.path = 0 => x.ver <= atcs'
               /\ \A j \in DOMAIN cwmpEvents' : cwmpEvents'[j] # x
    <3>1. CASE x \in Reported
      BY <1>1, <1>3, <3>1 DEF AtcInv, AtcReported
    <3>2. ASSUME NEW k \in 1..n, x = cwmpEvents[k], k # i
          PROVE  /\ x.path = 0 => x.ver <= atcs'
                 /\ \A j \in DOMAIN cwmpEvents' : cwmpEvents'[j] # x
      <4>1. k \in DOMAIN cwmpEvents /\ ~(k > n)
        BY <2>2
      <4>2. x.ver <= atcs'
        BY <1>1, <3>2, <4>1 DEF AtcInv, AtcRows
      <4>3. \A j \in DOMAIN cwmpEvents' : cwmpEvents'[j] # x
        BY <1>3, <2>3, <3>2, <4>1
      <4> QED BY <4>2, <4>3
    <3> QED BY <1>3, <3>1, <3>2
  <2> QED BY <1>1, <2>1, <2>4 DEF AtcInv, AtcReported, FtpEvents
<1> QED BY <1>2, <1>3, DrainedRows

LEMMA ScannerAtc == TypeOK /\ AtcInv /\ Scanner => AtcInv'
<1> SUFFICES ASSUME TypeOK, AtcInv, Scanner PROVE AtcInv'
  OBVIOUS
<1>1. UNCHANGED <<atcs, cwmpEvents, queued, dropped, batch>>
  BY DEF Scanner, ScanStart, SkipSeen, RewriteFound, Defer, StampEntry, FinishEntry,
         ReadUpload, ScanGone, ForgetGone, FilterMarks, FlushPending, disk, bounds, work
<1>2. Reported' = Reported
  BY <1>1 DEF Reported, HandedOff
<1>3. ASSUME NEW p \in Paths, FinishEntry(p) PROVE AtcInv'
  <2>1. CASE UNCHANGED events
    BY <1>1, <1>2, <2>1, AtcFrame
  <2> DEFINE evs == parseUpload(p, content)
  <2>2. CASE events' = events \o evs
    <3>1. events \in Seq(Events) /\ content \in Files /\ evs \in Seq(Events)
      BY ParseType DEF TypeOK, SharedType, LoopType
    <3>2. \A i \in DOMAIN evs : evs[i].path # 0
      BY DEF parseUpload, LogEvent
    <3> HIDE DEF evs
    <3>3. FtpEvents'
      <4> SUFFICES ASSUME NEW i \in DOMAIN (events \o evs)
                   PROVE  (events \o evs)[i].path # 0
        BY <2>2 DEF FtpEvents
      <4>1. i \in 1..(Len(events) + Len(evs)) /\ Len(events) \in Nat /\ Len(evs) \in Nat
        BY <3>1
      <4>2. CASE i <= Len(events)
        <5>1. i \in DOMAIN events /\ (events \o evs)[i] = events[i]
          BY <3>1, <4>1, <4>2
        <5> QED BY <5>1 DEF AtcInv, FtpEvents
      <4>3. CASE i > Len(events)
        <5>1. i - Len(events) \in DOMAIN evs /\ (events \o evs)[i] = evs[i - Len(events)]
          BY <3>1, <4>1, <4>3
        <5> QED BY <3>2, <5>1
      <4> QED BY <4>1, <4>2, <4>3
    <3> QED BY <1>1, <1>2, <3>3 DEF AtcInv, AtcRows, AtcReported
  <2> QED BY <1>3, <2>1, <2>2 DEF FinishEntry, markSeen
<1>4. CASE UNCHANGED events
  BY <1>1, <1>2, <1>4, AtcFrame
<1>5. UNCHANGED events \/ \E p \in Paths : FinishEntry(p)
  BY DEF Scanner, ScanStart, SkipSeen, RewriteFound, Defer, StampEntry,
         ReadUpload, ScanGone, ForgetGone, FilterMarks, FlushPending, shared
<1> QED BY <1>3, <1>4, <1>5

LEMMA WorkerAtc == TypeOK /\ AtcInv /\ Worker => AtcInv'
<1> SUFFICES ASSUME TypeOK, AtcInv, Worker PROVE AtcInv'
  OBVIOUS
<1>1. CASE DrainFTP
  <2>1. UNCHANGED <<atcs, cwmpEvents, queued, dropped>> /\ batch' = events /\ events' = << >>
    BY <1>1 DEF DrainFTP, disk, bounds
  <2>2. \A x \in Reported' : x \in Reported \/ x.path # 0
    BY <2>1 DEF Reported, HandedOff, AtcInv, FtpEvents
  <2>3. \A i \in DOMAIN cwmpEvents : cwmpEvents[i].path = 0
    BY DEF AtcInv, AtcRows
  <2>4. AtcReported'
    BY <2>1, <2>2, <2>3 DEF AtcInv, AtcReported
  <2> QED BY <2>1, <2>4 DEF AtcInv, AtcRows, FtpEvents
<1>2. CASE DrainEvents
  BY <1>2, DrainAtc
<1>3. CASE InsertFailed
  <2>1. UNCHANGED <<atcs, cwmpEvents, queued, dropped, events>> /\ batch' = << >>
    BY <1>3 DEF InsertFailed, EndBatch, disk
  <2> QED BY <2>1, AtcFrame DEF Reported, HandedOff
<1>4. ASSUME NEW e \in 1..Len(batch), EnqueuePart(e) \/ DropPart(e) PROVE AtcInv'
  <2>1. UNCHANGED <<atcs, cwmpEvents, events>> /\ (UNCHANGED batch \/ batch' = << >>)
    BY <1>4 DEF EnqueuePart, DropPart, Advance, EndBatch, bounds, shared
  <2>2. e \in DOMAIN batch
    BY DEF TypeOK, WorkType
  <2>3. HandedOff' \subseteq Reported
    BY <1>4, <2>2 DEF EnqueuePart, DropPart, Reported, HandedOff, Span
  <2> QED BY <2>1, <2>3, AtcFrame DEF Reported
<1> QED BY <1>1, <1>2, <1>3, <1>4 DEF Worker

LEMMA AtcStep == TypeOK /\ AtcInv /\ [Next]_vars => AtcInv'
<1> SUFFICES ASSUME TypeOK, AtcInv, [Next]_vars PROVE AtcInv'
  OBVIOUS
<1>1. CASE Crash
  <2>1. UNCHANGED <<atcs, cwmpEvents, queued, dropped>> /\ batch' = << >> /\ events' = << >>
    BY <1>1 DEF Crash, Boot, disk
  <2> QED BY <2>1, AtcFrame DEF Reported, HandedOff
<1>2. CASE \/ \E p \in Paths : Remove(p) \/ \E b \in Bodies \ {"gone"} : Upload(p, b)
           \/ \E d \in Devices : Inform(d)
           \/ UNCHANGED vars
  <2>1. UNCHANGED <<atcs, cwmpEvents, queued, dropped, batch, events>>
    BY <1>2 DEF Remove, Upload, Inform, vars, disk, shared, work, bounds
  <2> QED BY <2>1, AtcFrame DEF Reported, HandedOff
<1> QED BY <1>1, <1>2, EmitAtc, ScannerAtc, WorkerAtc DEF Next, Environment

\* DrainEvents hands out a row of cwmp_events only with its update: an ATC event
\* that is still stored as not uploaded was never in a batch that reached the
\* outbox and is in none now, whatever query or update failed.
THEOREM AtcSentOnce == Spec => []AtcAtMostOnce
<1>1. TypeOK /\ AtcInv => AtcAtMostOnce
  <2> SUFFICES ASSUME TypeOK, AtcInv, NEW n \in 1..Len(cwmpEvents)
               PROVE  cwmpEvents[n] \notin HandedOff \cup Span(batch, 0, Len(batch))
    BY DEF AtcAtMostOnce
  <2>1. n \in DOMAIN cwmpEvents
    BY DEF TypeOK, DiskType
  <2>2. HandedOff \cup Span(batch, 0, Len(batch)) \subseteq Reported
    BY DEF Span, Reported
  <2> QED BY <2>1, <2>2 DEF AtcInv, AtcReported
<1> QED BY <1>1, AtcInit, AtcStep, TypeCorrect, PTL DEF Spec

-----------------------------------------------------------------------------
(***************************************************************************)
(* Every ATC event stays somewhere until a failure.  What a step takes     *)
(* from one place it puts into another: rows into the batch, the batch     *)
(* into the outbox.  For DrainFTP, which overwrites the batch, this needs  *)
(* that an idle worker has none, and for DrainEvents that the rows come    *)
(* after start.                                                            *)
(***************************************************************************)

Somewhere == HandedOff \cup InMemory \cup Span(cwmpEvents, 0, Len(cwmpEvents))

BatchAtRest ==
  /\ wpc = "idle" => batch = << >>
  /\ wpc # "enqueue" => start = 0

KeptInv == BatchAtRest /\ AtcKept

LEMMA SpanAll ==
  ASSUME NEW s \in Seq(Events), NEW n \in DOMAIN s, NEW i \in Nat, i < n
  PROVE  s[n] \in Span(s, i, Len(s))
BY DEF Span

LEMMA SpanPick ==
  ASSUME NEW s \in Seq(Events), NEW i \in Nat, NEW j \in Nat, NEW x \in Span(s, i, j)
  PROVE  \E n \in DOMAIN s : i < n /\ n <= j /\ x = s[n]
BY DEF Span

\* a longer sequence has every event of the shorter
LEMMA SpanLonger ==
  ASSUME NEW s \in Seq(Events), NEW t \in Seq(Events), NEW i \in Nat
  PROVE  /\ Span(s, i, Len(s)) \subseteq Span(s \o t, i, Len(s \o t))
         /\ i <= Len(s) => Span(t, 0, Len(t)) \subseteq Span(s \o t, i, Len(s \o t))
<1>1. /\ s \o t \in Seq(Events) /\ Len(s \o t) = Len(s) + Len(t)
      /\ Len(s) \in Nat /\ Len(t) \in Nat
  OBVIOUS
<1>2. ASSUME NEW n \in DOMAIN s, i < n
      PROVE  s[n] \in Span(s \o t, i, Len(s \o t))
  <2>1. n \in DOMAIN (s \o t) /\ (s \o t)[n] = s[n]
    OBVIOUS
  <2> QED BY <1>1, <1>2, <2>1, SpanAll
<1>3. ASSUME i <= Len(s), NEW n \in DOMAIN t
      PROVE  t[n] \in Span(s \o t, i, Len(s \o t))
  <2>1. /\ Len(s) + n \in DOMAIN (s \o t) /\ (s \o t)[Len(s) + n] = t[n]
        /\ i < Len(s) + n
    BY <1>1, <1>3
  <2> QED BY <1>1, <2>1, SpanAll
<1> QED BY <1>2, <1>3 DEF Span

LEMMA KeptInit == Init => KeptInv
BY DEF Init, KeptInv, BatchAtRest, AtcKept

\* a step that numbers no event and loses none
LEMMA KeptFrame ==
  ASSUME TypeOK, AtcKept, atcs' = atcs, faults' >= faults, crashes' >= crashes,
         (faults' = 0 /\ crashes' = 0) => Somewhere \subseteq Somewhere',
         faults' \in Nat, crashes' \in Nat
  PROVE  AtcKept'
<1> SUFFICES ASSUME faults' = 0, crashes' = 0, NEW n \in 1..atcs
             PROVE  AtcEvent(n) \in Somewhere'
  BY DEF AtcKept, Somewhere, AtcEvent
<1>1. faults = 0 /\ crashes = 0
  BY DEF TypeOK, BoundsType
<1>2. AtcEvent(n) \in Somewhere
  BY <1>1 DEF AtcKept, Somewhere
<1> QED BY <1>2

LEMMA EmitKept ==
  ASSUME TypeOK, KeptInv, EmitEvent
  PROVE  KeptInv'
<1>1. /\ UNCHANGED <<queued, dropped, events, batch, start, wpc, faults, crashes>>
      /\ atcs' = atcs + 1 /\ cwmpEvents' = Append(cwmpEvents, AtcEvent(atcs + 1))
      /\ cwmpEvents \in Seq(Events) /\ AtcEvent(atcs + 1) \in Events
  BY DEF EmitEvent, shared, work, TypeOK, DiskType, BoundsType, AtcEvent, Events
<1> DEFINE t == <<AtcEvent(atcs + 1)>>
<1>2. t \in Seq(Events) /\ cwmpEvents' = cwmpEvents \o t
  BY <1>1
<1>3. /\ Span(cwmpEvents, 0, Len(cwmpEvents))
           \subseteq Span(cwmpEvents', 0, Len(cwmpEvents'))
      /\ Span(t, 0, Len(t)) \subseteq Span(cwmpEvents', 0, Len(cwmpEvents'))
  <2>1. 0 <= Len(cwmpEvents)
    BY <1>1
  <2> HIDE DEF t
  <2> QED BY <1>1, <1>2, <2>1, SpanLonger
<1>4. AtcEvent(atcs + 1) \in Span(t, 0, Len(t))
  <2>1. t \in Seq(Events) /\ 1 \in DOMAIN t /\ t[1] = AtcEvent(atcs + 1) /\ 0 < 1
    BY <1>2
  <2> HIDE DEF t
  <2> QED BY <2>1, SpanAll
<1>5. AtcKept'
  <2> SUFFICES ASSUME faults = 0, crashes = 0, NEW n \in 1..(atcs + 1)
               PROVE  AtcEvent(n) \in Somewhere'
    BY <1>1 DEF AtcKept, Somewhere, AtcEvent
  <2>1. Somewhere \subseteq Somewhere'
    BY <1>1, <1>3 DEF Somewhere, HandedOff, InMemory
  <2>2. CASE n = atcs + 1
    BY <1>3, <1>4, <2>2 DEF Somewhere
  <2>3. CASE n \in 1..atcs
    BY <2>1, <2>3 DEF KeptInv, AtcKept, Somewhere
  <2> QED BY <2>2, <2>3 DEF TypeOK, BoundsType
<1> QED BY <1>1, <1>5 DEF KeptInv, BatchAtRest

\* without a fault a drain moves the first rows behind the batch
LEMMA DrainKept ==
  ASSUME TypeOK, KeptInv, DrainEvents
  PROVE  KeptInv'
<1>1. /\ batch \in Seq(Events) /\ cwmpEvents \in Seq(Events) /\ start \in Nat
      /\ faults \in Nat /\ crashes \in Nat /\ start = 0
  BY DEF TypeOK, WorkType, DiskType, BoundsType, KeptInv, BatchAtRest, DrainEvents
<1>2. UNCHANGED <<atcs, crashes, events, start, queued, dropped>>
  BY DEF DrainEvents, shared
<1>3. BatchAtRest'
  <2>1. wpc' = IF batch' = << >> THEN "idle" ELSE "enqueue"
    BY DEF DrainEvents
  <2> QED BY <1>1, <1>2, <2>1 DEF BatchAtRest
<1>4. faults' \in Nat /\ faults' >= faults
  <2>1. UNCHANGED faults \/ Fault
    BY Zenon DEF DrainEvents
  <2> QED BY <1>1, <2>1 DEF Fault
<1>5. ASSUME faults' = 0 PROVE Somewhere \subseteq Somewhere'
  <2>1. faults' = faults
    BY <1>1, <1>4, <1>5
  <2> DEFINE n == IF Len(cwmpEvents) < EventLimit THEN Len(cwmpEvents) ELSE EventLimit
             rows == SubSeq(cwmpEvents, 1, n)
             rest == SubSeq(cwmpEvents, n + 1, Len(cwmpEvents))
  <2>2. batch' = batch \o rows /\ cwmpEvents' = rest
    <3>1. (batch' = Joined(batch, rows) /\ cwmpEvents' = rest) \/ Fault
      BY Zenon DEF DrainEvents
    <3>2. ~Fault
      BY <1>1, <2>1 DEF Fault
    <3> QED BY <3>1, <3>2 DEF Joined
  <2>3. n \in Nat /\ n <= Len(cwmpEvents) /\ Len(cwmpEvents) \in Nat
    BY <1>1
  <2> HIDE DEF n
  <2>4. /\ rows \in Seq(Events) /\ rest \in Seq(Events) /\ Len(rows) = n
        /\ Len(rest) = Len(cwmpEvents) - n
        /\ \A i \in 1..n : rows[i] = cwmpEvents[i]
        /\ \A i \in 1..(Len(cwmpEvents) - n) : rest[i] = cwmpEvents[n + i]
    BY <1>1, <2>3
  <2> HIDE DEF rows, rest
  <2>5. /\ Span(batch, start, Len(batch)) \subseteq Span(batch', start, Len(batch'))
        /\ Span(rows, 0, Len(rows)) \subseteq Span(batch', start, Len(batch'))
    <3>1. start <= Len(batch)
      BY <1>1
    <3>2. start' = start
      BY <1>2
    <3> QED BY <1>1, <2>2, <2>4, <3>1, <3>2, SpanLonger
  <2>6. ASSUME NEW x \in Span(cwmpEvents, 0, Len(cwmpEvents))
        PROVE  x \in Span(rows, 0, Len(rows)) \cup Span(rest, 0, Len(rest))
    <3>1. PICK k \in DOMAIN cwmpEvents : x = cwmpEvents[k]
      BY DEF Span
    <3>2. k \in 1..Len(cwmpEvents)
      BY <1>1
    <3>3. CASE k <= n
      <4>1. k \in DOMAIN rows /\ rows[k] = x /\ 0 < k
        BY <2>3, <2>4, <3>1, <3>2, <3>3
      <4> QED BY <2>4, <4>1, SpanAll
    <3>4. CASE k > n
      <4>1. k - n \in DOMAIN rest /\ rest[k - n] = x /\ 0 < k - n
        BY <2>3, <2>4, <3>1, <3>2, <3>4
      <4> QED BY <2>4, <4>1, SpanAll
    <3> QED BY <2>3, <3>2, <3>3, <3>4
  <2> QED BY <1>2, <2>2, <2>5, <2>6 DEF Somewhere, HandedOff, InMemory
<1>6. AtcKept'
  BY <1>1, <1>2, <1>4, <1>5, KeptFrame DEF KeptInv
<1> QED BY <1>3, <1>6 DEF KeptInv

\* a body that is inserted or refused keeps its events among those handed off
LEMMA PartKept ==
  ASSUME TypeOK, KeptInv, NEW e \in 1..Len(batch), EnqueuePart(e) \/ DropPart(e)
  PROVE  KeptInv'
<1>1. /\ batch \in Seq(Events) /\ start \in Nat /\ e \in Nat /\ Len(batch) \in Nat
      /\ faults \in Nat /\ crashes \in Nat
  BY DEF TypeOK, WorkType, BoundsType
<1>2. /\ UNCHANGED <<events, atcs, crashes, cwmpEvents>> /\ Advance(e)
      /\ HandedOff \subseteq HandedOff'
  BY DEF EnqueuePart, DropPart, HandedOff, shared, bounds
<1>3. faults' \in Nat /\ faults' >= faults
  BY <1>1 DEF EnqueuePart, DropPart, bounds, Fault
<1>4. Span(batch, start, e) \subseteq HandedOff'
  <2>1. CASE EnqueuePart(e)
    BY <2>1 DEF EnqueuePart, HandedOff
  <2>2. CASE DropPart(e)
    <3>1. e = start + 1 /\ dropped' = dropped \cup {batch[e]}
      BY <2>2 DEF DropPart
    <3>2. \A n \in DOMAIN batch : start < n /\ n <= e => n = e
      BY <1>1, <3>1
    <3> QED BY <3>1, <3>2 DEF Span, HandedOff
  <2> QED BY <2>1, <2>2
<1>5. /\ BatchAtRest'
      /\ Span(batch, start, Len(batch)) \subseteq HandedOff' \cup InMemory'
  <2>1. CASE e = Len(batch)
    <3>1. batch' = << >> /\ start' = 0
      BY <1>2, <2>1 DEF Advance, EndBatch
    <3> QED BY <1>4, <2>1, <3>1 DEF BatchAtRest
  <2>2. CASE e # Len(batch)
    <3>1. start' = e /\ UNCHANGED <<wpc, batch>> /\ wpc = "enqueue"
      BY <1>2, <2>2 DEF Advance, EnqueuePart, DropPart
    <3>2. Span(batch, start, Len(batch)) \subseteq Span(batch, start, e) \cup Span(batch, e, Len(batch))
      BY <1>1 DEF Span
    <3>3. Span(batch, e, Len(batch)) \subseteq InMemory'
      BY <3>1 DEF InMemory
    <3>4. BatchAtRest'
      BY <1>1, <3>1 DEF BatchAtRest
    <3> QED BY <1>4, <3>2, <3>3, <3>4
  <2> QED BY <2>1, <2>2
<1>6. Somewhere \subseteq Somewhere'
  BY <1>2, <1>5 DEF Somewhere, InMemory
<1>7. AtcKept'
  BY <1>1, <1>2, <1>3, <1>6, KeptFrame DEF KeptInv
<1> QED BY <1>5, <1>7 DEF KeptInv

LEMMA KeptStep == TypeOK /\ KeptInv /\ [Next]_vars => KeptInv'
<1> SUFFICES ASSUME TypeOK, KeptInv, [Next]_vars PROVE KeptInv'
  OBVIOUS
<1>1. /\ events \in Seq(Events) /\ start \in Nat /\ faults \in Nat /\ crashes \in Nat
      /\ AtcKept /\ BatchAtRest
  BY DEF TypeOK, SharedType, WorkType, BoundsType, KeptInv
<1>2. ASSUME Scanner PROVE KeptInv'
  <2>1. /\ UNCHANGED <<atcs, crashes, cwmpEvents, queued, dropped, wpc, batch, start>>
        /\ faults' = faults \/ Fault
    BY <1>2 DEF Scanner, ScanStart, SkipSeen, RewriteFound, Defer, StampEntry, FinishEntry,
           ReadUpload, ScanGone, ForgetGone, FilterMarks, FlushPending, disk, bounds, work
  <2>2. faults' \in Nat /\ faults' >= faults
    BY <1>1, <2>1 DEF Fault
  <2>3. Span(events, 0, Len(events)) \subseteq Span(events', 0, Len(events'))
    <3>1. ASSUME NEW p \in Paths, FinishEntry(p)
          PROVE  events' = events \/ events' = events \o parseUpload(p, content)
      BY <3>1 DEF FinishEntry, markSeen
    <3>2. ASSUME NEW p \in Paths PROVE parseUpload(p, content) \in Seq(Events)
      BY ParseType DEF TypeOK, LoopType
    <3>3. UNCHANGED events \/ \E p \in Paths : FinishEntry(p)
      BY <1>2 DEF Scanner, ScanStart, SkipSeen, RewriteFound, Defer, StampEntry,
             ReadUpload, ScanGone, ForgetGone, FilterMarks, FlushPending, shared
    <3>4. ASSUME NEW p \in Paths, events' = events \o parseUpload(p, content)
          PROVE  Span(events, 0, Len(events)) \subseteq Span(events', 0, Len(events'))
      BY <1>1, <3>2, <3>4, SpanLonger
    <3> QED BY <3>1, <3>3, <3>4
  <2>4. Somewhere \subseteq Somewhere'
    BY <2>1, <2>3 DEF Somewhere, HandedOff, InMemory
  <2>5. AtcKept'
    BY <1>1, <2>1, <2>2, <2>4, KeptFrame
  <2> QED BY <1>1, <2>1, <2>5 DEF KeptInv, BatchAtRest
<1>3. CASE DrainFTP
  <2>1. /\ UNCHANGED <<atcs, faults, crashes, cwmpEvents, queued, dropped>>
        /\ batch' = events /\ start' = 0 /\ wpc' = "events" /\ batch = << >>
    BY <1>1, <1>3 DEF DrainFTP, disk, bounds, BatchAtRest
  <2>2. Span(batch, start, Len(batch)) = {}
    BY <2>1 DEF Span
  <2>3. Span(events, 0, Len(events)) \subseteq InMemory'
    BY <2>1 DEF InMemory
  <2>4. Somewhere \subseteq Somewhere'
    BY <2>1, <2>2, <2>3 DEF Somewhere, HandedOff, InMemory
  <2>5. BatchAtRest'
    BY <1>1, <2>1 DEF BatchAtRest
  <2>6. AtcKept'
    BY <1>1, <2>1, <2>4, KeptFrame
  <2> QED BY <2>5, <2>6 DEF KeptInv
<1>4. CASE InsertFailed \/ Crash
  <2>1. /\ batch' = << >> /\ start' = 0
        /\ faults' = faults + 1 \/ crashes' = crashes + 1
        /\ faults' \in Nat /\ crashes' \in Nat /\ wpc' = "idle"
    BY <1>1, <1>4 DEF InsertFailed, EndBatch, Fault, Crash, Boot
  <2>2. ~(faults' = 0 /\ crashes' = 0)
    BY <1>1, <2>1
  <2> QED BY <2>1, <2>2 DEF KeptInv, BatchAtRest, AtcKept
<1>5. CASE \/ \E p \in Paths : Remove(p) \/ \E b \in Bodies \ {"gone"} : Upload(p, b)
           \/ \E d \in Devices : Inform(d)
           \/ UNCHANGED vars
  <2>1. UNCHANGED <<atcs, faults, crashes, cwmpEvents, queued, dropped, wpc,
                    batch, start, events>>
    BY <1>5 DEF Remove, Upload, Inform, vars, disk, shared, work, bounds
  <2>2. Somewhere' = Somewhere
    BY <2>1 DEF Somewhere, HandedOff, InMemory
  <2>3. AtcKept'
    BY <1>1, <2>1, <2>2, KeptFrame
  <2> QED BY <1>1, <2>1, <2>3 DEF KeptInv, BatchAtRest
<1> QED BY <1>2, <1>3, <1>4, <1>5, EmitKept, DrainKept, PartKept, Zenon
        DEF Next, Environment, Worker

\* As long as no statement failed and the agent did not stop, every ATC event
\* emitted is stored, in a batch on its way, or handed off: for any number of
\* uploads and events and however the batch is cut into bodies.
THEOREM AtcStaysKept == Spec => []AtcKept
<1>1. Spec => []KeptInv
  BY KeptInit, KeptStep, TypeCorrect, PTL DEF Spec
<1> QED BY <1>1, PTL DEF KeptInv


-----------------------------------------------------------------------------
(***************************************************************************)
(* No upload is parsed again at a stamp the ledger holds.  A stamp gets    *)
(* into the ledger from a mark, and a mark is on its way in one of four    *)
(* places.  The invariant says that the stamp of the entry being parsed is *)
(* in none of them (EntryFresh).  That stamp is the version found in the   *)
(* directory, so it follows from the same fact about every present file    *)
(* that does not count as seen (Fresh).  A file stops to count as seen     *)
(* when its mark is requeued, so that a mark has to be in one place only   *)
(* (Single), and when it was gone at the start of the scan (AbsentOld).    *)
(***************************************************************************)

At(ms, p, s) == \E m \in ms : m.path = p /\ m.stamp = s

\* the marks of the batch that are still to be handed on
Live == {m \in marks : start < m.end}

Unrecorded(p, s) ==
  /\ ledger[p] # s /\ ~At(pendingMarks, p, s)
  /\ ~At(eventMarks, p, s) /\ ~At(Live, p, s) /\ ~At(requeued, p, s)

Numbered ==
  /\ \A p \in Paths : dir[p].body # "gone" => dir[p].ver # 0
  /\ \A m \in requeued : m.stamp <= dir[m.path].ver
  /\ \A m \in requeued \cup eventMarks \cup marks : m.stamp # 0
  /\ spc \in {"parse", "mark"} => stamp # 0

Fresh ==
  hasLedger => \A p \in Paths :
    (dir[p].body # "gone" /\ seenPaths[p] # dir[p].ver) => Unrecorded(p, dir[p].ver)

EntryFresh ==
  spc \in {"parse", "mark"} =>
    \A p \in Paths : Entry(p) => /\ seenPaths[p] = 0
                                 /\ hasLedger => Unrecorded(p, stamp)

AbsentOld ==
  /\ spc \in {"scan", "parse", "mark"} => todo \subseteq present
  /\ spc # "idle" => \A p \in Paths \ present :
       dir[p].body # "gone" => seenPaths[p] # dir[p].ver

OneMark(ms) ==
  \A m, n \in ms : (m.path = n.path /\ m.stamp = n.stamp) => m.end = n.end

Single ==
  hasLedger =>
    /\ \A p \in Paths, s \in Vers :
         /\ At(requeued, p, s) => ~At(Live, p, s) /\ ~At(eventMarks, p, s)
         /\ At(Live, p, s) => ~At(eventMarks, p, s)
         /\ (At(requeued, p, s) \/ At(Live, p, s) \/ At(eventMarks, p, s))
              => ledger[p] # s /\ ~At(pendingMarks, p, s)
    /\ OneMark(Live) /\ OneMark(eventMarks)

OnceInv == Numbered /\ Fresh /\ EntryFresh /\ AbsentOld /\ Single

records == <<ledger, pendingMarks, eventMarks, marks, start, requeued>>

LEMMA OnceInit == Init => OnceInv
<1> SUFFICES ASSUME Init PROVE OnceInv
  OBVIOUS
<1>1. /\ \A p \in Paths : dir[p].body = "gone"
      /\ requeued = {} /\ eventMarks = {} /\ marks = {} /\ pendingMarks = {}
      /\ spc = "idle"
  BY DEF Init
<1>2. Live = {}
  BY <1>1 DEF Live
<1>3. Numbered /\ Fresh /\ EntryFresh /\ AbsentOld
  BY <1>1 DEF Numbered, Fresh, EntryFresh, AbsentOld
<1>4. Single
  BY <1>1, <1>2 DEF Single, At, OneMark
<1> QED BY <1>3, <1>4 DEF OnceInv

\* ReadDir lists a name once
LEMMA EntryUnique ==
  ASSUME NEW p \in Paths, NEW q \in Paths, Entry(p), Entry(q)
  PROVE  p = q
<1>1. p \in Nat /\ q \in Nat /\ p <= q /\ q <= p
  BY DEF Entry
<1> QED BY <1>1

LEMMA SameRecords ==
  ASSUME UNCHANGED records
  PROVE  \A p, s : Unrecorded(p, s)' <=> Unrecorded(p, s)
BY DEF records, Unrecorded, Live

LEMMA SingleFrame ==
  ASSUME Single, UNCHANGED records, UNCHANGED hasLedger
  PROVE  Single'
BY DEF records, Single, Live

\* a step that leaves the files and the scanner's place alone
LEMMA FreshFrame ==
  ASSUME TypeOK, OnceInv, UNCHANGED <<dir, seenPaths, hasLedger>>, UNCHANGED loop,
         \A p \in Paths, s \in Vers : (s # 0 /\ Unrecorded(p, s)) => Unrecorded(p, s)'
  PROVE  Fresh' /\ EntryFresh' /\ AbsentOld'
<1>1. \A p \in Paths : dir[p].ver \in Vers
  BY DEF TypeOK, WorldType, Files
<1>2. stamp \in Vers
  BY DEF TypeOK, LoopType
<1>3. Fresh'
  <2> SUFFICES ASSUME hasLedger, NEW p \in Paths, dir[p].body # "gone",
                      seenPaths[p] # dir[p].ver
               PROVE  Unrecorded(p, dir[p].ver)'
    BY DEF Fresh
  <2> SUFFICES ASSUME NEW s, s = dir[p].ver PROVE Unrecorded(p, s)'
    BY DEF Unrecorded
  <2>1. Unrecorded(p, s)
    BY DEF OnceInv, Fresh, Unrecorded
  <2> QED BY <1>1, <2>1 DEF OnceInv, Numbered
<1>4. EntryFresh'
  <2> SUFFICES ASSUME spc \in {"parse", "mark"}, NEW p \in Paths, Entry(p)
               PROVE  seenPaths[p] = 0 /\ (hasLedger => Unrecorded(p, stamp)')
    BY DEF EntryFresh, Entry, loop
  <2>1. seenPaths[p] = 0
    BY DEF OnceInv, EntryFresh
  <2> SUFFICES ASSUME hasLedger, NEW s, s = stamp PROVE Unrecorded(p, s)'
    BY <2>1 DEF Unrecorded, loop
  <2>2. Unrecorded(p, s)
    BY DEF OnceInv, EntryFresh, Unrecorded
  <2> QED BY <1>2, <2>2 DEF OnceInv, Numbered
<1>5. AbsentOld'
  BY DEF OnceInv, AbsentOld, loop
<1> QED BY <1>3, <1>4, <1>5

LEMMA NumberedFrame ==
  ASSUME Numbered, UNCHANGED <<dir, requeued, eventMarks, marks>>,
         spc' \in {"parse", "mark"} => spc \in {"parse", "mark"} /\ stamp' = stamp
  PROVE  Numbered'
BY DEF Numbered

-----------------------------------------------------------------------------
LEMMA UploadOnce ==
  ASSUME IndInv, OnceInv, NEW p \in Paths, NEW b \in Bodies,
         Remove(p) \/ (b # "gone" /\ Upload(p, b))
  PROVE  OnceInv'
<1>1. /\ UNCHANGED records /\ UNCHANGED <<seenPaths, hasLedger>> /\ UNCHANGED loop
      /\ \A q \in Paths : q # p => dir'[q] = dir[q]
  BY DEF Remove, Upload, records, disk, shared, books, work, IndInv, TypeOK, WorldType
<1>2. /\ dir[p].ver \in Nat
      /\ \/ dir'[p].body = "gone" /\ dir'[p].ver = dir[p].ver
         \/ dir'[p].ver = dir[p].ver + 1
  BY DEF Remove, Upload, IndInv, TypeOK, WorldType, Files, Vers
<1>3. \A q \in Paths : dir[q].ver <= dir'[q].ver /\ dir[q].ver \in Nat /\ dir'[q].ver \in Nat
  BY <1>1, <1>2 DEF IndInv, TypeOK, WorldType, Files, Vers
<1>4. requeued \subseteq Marks
  BY DEF IndInv, TypeOK, SharedType
<1>5. Numbered'
  <2>1. \A m \in requeued : m.stamp <= dir'[m.path].ver
    <3> SUFFICES ASSUME NEW m \in requeued PROVE m.stamp <= dir'[m.path].ver
      OBVIOUS
    <3>1. m.path \in Paths /\ m.stamp \in Nat /\ m.stamp <= dir[m.path].ver
      BY <1>4 DEF Marks, Vers, OnceInv, Numbered
    <3>2. /\ dir[m.path].ver <= dir'[m.path].ver
          /\ dir[m.path].ver \in Nat /\ dir'[m.path].ver \in Nat
      BY <1>3, <3>1
    <3> QED BY <3>1, <3>2
  <2>2. \A q \in Paths : dir'[q].body # "gone" => dir'[q].ver # 0
    BY <1>1, <1>2 DEF OnceInv, Numbered
  <2> QED BY <1>1, <2>1, <2>2 DEF OnceInv, Numbered, records, loop
<1>6. ASSUME NEW s, s = dir[p].ver + 1 PROVE Unrecorded(p, s)
  <2>1. ledger[p] # s
    BY <1>2, <1>6 DEF IndInv, StampsBehind, TypeOK, DiskType, Vers
  <2>2. /\ pendingMarks \subseteq Marks /\ eventMarks \subseteq EventMarks
        /\ marks \subseteq EventMarks
    BY DEF IndInv, TypeOK, SharedType, BooksType, WorkType
  <2>3. \A m \in pendingMarks \cup eventMarks \cup marks \cup requeued :
          m.path = p => m.stamp \in Nat /\ m.stamp <= dir[p].ver
    BY <1>4, <2>2 DEF IndInv, StampsBehind, OnceInv, Numbered, Marks, EventMarks, Vers
  <2>4. \A m \in pendingMarks \cup eventMarks \cup marks \cup requeued :
          m.path = p => m.stamp # s
    BY <1>2, <1>6, <2>3
  <2> QED BY <2>1, <2>4 DEF Unrecorded, At, Live
<1>7. Fresh'
  <2> SUFFICES ASSUME hasLedger, NEW q \in Paths, dir'[q].body # "gone",
                      seenPaths[q] # dir'[q].ver, NEW s, s = dir'[q].ver
               PROVE  Unrecorded(q, s)
    <3>1. \A q, s : Unrecorded(q, s)' <=> Unrecorded(q, s)
      BY <1>1, SameRecords
    <3> QED BY <1>1, <3>1 DEF Fresh, Unrecorded
  <2>1. CASE q = p
    BY <1>2, <1>6, <2>1
  <2>2. CASE q # p
    BY <1>1, <2>2 DEF OnceInv, Fresh, Unrecorded
  <2> QED BY <2>1, <2>2
<1>8. EntryFresh'
  <2>1. \A q \in Paths : Entry(q)' <=> Entry(q)
    BY <1>1 DEF Entry, loop
  <2>2. \A q \in Paths : Unrecorded(q, stamp)' <=> Unrecorded(q, stamp)
    BY <1>1 DEF Unrecorded, Live, records, loop
  <2> QED BY <1>1, <2>1, <2>2 DEF OnceInv, EntryFresh, loop
<1>9. AbsentOld'
  <2> SUFFICES ASSUME spc # "idle", NEW q \in Paths \ present, dir'[q].body # "gone"
               PROVE  seenPaths[q] # dir'[q].ver
    BY <1>1 DEF OnceInv, AbsentOld, loop
  <2>1. CASE q = p
    BY <1>2, <2>1 DEF IndInv, StampsBehind, TypeOK, BooksType, Vers
  <2>2. CASE q # p
    BY <1>1, <2>2 DEF OnceInv, AbsentOld
  <2> QED BY <2>1, <2>2
<1>10. Single'
  BY <1>1, SingleFrame DEF OnceInv
<1> QED BY <1>5, <1>7, <1>8, <1>9, <1>10 DEF OnceInv

LEMMA EnvironmentOnce == IndInv /\ OnceInv /\ Environment => OnceInv'
<1> SUFFICES ASSUME IndInv, OnceInv, Environment PROVE OnceInv'
  OBVIOUS
<1>1. ASSUME NEW p \in Paths, Remove(p) \/ \E b \in Bodies \ {"gone"} : Upload(p, b)
      PROVE  OnceInv'
  <2>1. "gone" \in Bodies
    BY DEF Bodies
  <2> QED BY <1>1, <2>1, UploadOnce
<1>2. CASE (\E d \in Devices : Inform(d)) \/ EmitEvent
  <2>1. UNCHANGED records /\ UNCHANGED <<dir, seenPaths, hasLedger>> /\ UNCHANGED loop
    BY <1>2 DEF Inform, EmitEvent, records, shared, books, work
  <2>2. Numbered'
    BY <2>1, NumberedFrame DEF OnceInv, records, loop
  <2>3. Single'
    BY <2>1, SingleFrame DEF OnceInv
  <2>4. Fresh' /\ EntryFresh' /\ AbsentOld'
    BY <2>1, SameRecords, FreshFrame DEF IndInv
  <2> QED BY <2>2, <2>3, <2>4 DEF OnceInv
<1>3. CASE Crash
  <2>1. PICK loaded \in LedgerModes : Boot(ledger, loaded)
    BY <1>3 DEF Crash
  <2>2. /\ UNCHANGED <<dir, ledger>> /\ hasLedger' = loaded /\ spc' = "idle"
        /\ seenPaths' = (IF loaded THEN ledger ELSE [p \in Paths |-> 0])
        /\ requeued' = {} /\ eventMarks' = {} /\ marks' = {} /\ pendingMarks' = {}
    BY <1>3, <2>1 DEF Crash, Boot, Restored, disk
  <2>3. Live' = {}
    BY <2>2 DEF Live
  <2>4. Numbered' /\ EntryFresh' /\ AbsentOld'
    BY <2>2 DEF OnceInv, Numbered, EntryFresh, AbsentOld
  <2>5. Fresh'
    BY <2>2, <2>3 DEF Fresh, Unrecorded, At
  <2>6. Single'
    BY <2>2, <2>3 DEF Single, At, OneMark
  <2> QED BY <2>4, <2>5, <2>6 DEF OnceInv
<1> QED BY <1>1, <1>2, <1>3 DEF Environment


-----------------------------------------------------------------------------
(* The scanner.                                                            *)

\* marks are dropped, and rows of the ledger deleted
LEMMA Shrink ==
  ASSUME pendingMarks' \subseteq pendingMarks, eventMarks' \subseteq eventMarks,
         requeued' \subseteq requeued, UNCHANGED <<marks, start>>,
         \A p \in Paths : ledger'[p] \in {0, ledger[p]}
  PROVE  \A p \in Paths, s \in Vers : (s # 0 /\ Unrecorded(p, s)) => Unrecorded(p, s)'
BY DEF Unrecorded, Live, At

LEMMA ShrinkSingle ==
  ASSUME OnceInv, pendingMarks' \subseteq pendingMarks, eventMarks' \subseteq eventMarks,
         requeued' \subseteq requeued, UNCHANGED <<marks, start, hasLedger>>,
         \A p \in Paths : ledger'[p] \in {0, ledger[p]}
  PROVE  Single'
<1> SUFFICES ASSUME hasLedger
             PROVE  /\ \A p \in Paths, s \in Vers :
                         /\ At(requeued', p, s) => ~At(Live', p, s) /\ ~At(eventMarks', p, s)
                         /\ At(Live', p, s) => ~At(eventMarks', p, s)
                         /\ (At(requeued', p, s) \/ At(Live', p, s) \/ At(eventMarks', p, s))
                              => ledger'[p] # s /\ ~At(pendingMarks', p, s)
                    /\ OneMark(Live') /\ OneMark(eventMarks')
  BY DEF Single
<1>1. Live' = Live
  BY DEF Live
<1>2. \A p, s : /\ At(requeued', p, s) => At(requeued, p, s)
                /\ At(eventMarks', p, s) => At(eventMarks, p, s)
                /\ At(pendingMarks', p, s) => At(pendingMarks, p, s)
  BY DEF At
<1>3. \A p, s : (At(requeued, p, s) \/ At(Live, p, s) \/ At(eventMarks, p, s)) => s # 0
  BY DEF OnceInv, Numbered, At, Live
<1>4. OneMark(Live') /\ OneMark(eventMarks')
  BY <1>1 DEF OnceInv, Single, OneMark
<1>5. ASSUME NEW p \in Paths, NEW s \in Vers
      PROVE  /\ At(requeued', p, s) => ~At(Live', p, s) /\ ~At(eventMarks', p, s)
             /\ At(Live', p, s) => ~At(eventMarks', p, s)
             /\ (At(requeued', p, s) \/ At(Live', p, s) \/ At(eventMarks', p, s))
                  => ledger'[p] # s /\ ~At(pendingMarks', p, s)
  <2>1. /\ At(requeued, p, s) => ~At(Live, p, s) /\ ~At(eventMarks, p, s)
        /\ At(Live, p, s) => ~At(eventMarks, p, s)
        /\ (At(requeued, p, s) \/ At(Live, p, s) \/ At(eventMarks, p, s))
             => ledger[p] # s /\ ~At(pendingMarks, p, s)
    BY DEF OnceInv, Single
  <2> QED BY <1>1, <1>2, <1>3, <2>1
<1> QED BY <1>4, <1>5

LEMMA ScanStartOnce ==
  ASSUME IndInv, OnceInv, ScanStart
  PROVE  OnceInv'
<1>1. /\ spc = "idle" /\ UNCHANGED <<dir, ledger, pendingMarks, eventMarks, marks, start, hasLedger>>
      /\ seenPaths' = takeRequeued(seenPaths, requeued) /\ requeued' = {}
      /\ \/ spc' = "idle"
         \/ spc' = "scan" /\ present' = {p \in Paths : dir[p].body # "gone"} /\ todo' = present'
  BY DEF ScanStart, disk, work, loop
<1>2. \A p \in Paths : \/ seenPaths'[p] = seenPaths[p]
                       \/ seenPaths'[p] = 0 /\ At(requeued, p, seenPaths[p])
  BY <1>1 DEF takeRequeued, At
<1>3. Numbered'
  BY <1>1 DEF OnceInv, Numbered
<1>4. EntryFresh' /\ AbsentOld'
  BY <1>1 DEF EntryFresh, AbsentOld
<1>5. Single'
  BY <1>1, ShrinkSingle
<1>6. Fresh'
  <2> SUFFICES ASSUME hasLedger, NEW p \in Paths, dir[p].body # "gone",
                      seenPaths'[p] # dir[p].ver, NEW s, s = dir[p].ver
               PROVE  Unrecorded(p, s)'
    BY <1>1 DEF Fresh, Unrecorded
  <2>1. s \in Vers /\ s # 0
    BY DEF IndInv, TypeOK, WorldType, Files, OnceInv, Numbered
  <2>2. CASE seenPaths[p] # dir[p].ver
    <3>1. Unrecorded(p, s)
      BY <2>2 DEF OnceInv, Fresh, Unrecorded
    <3> QED BY <1>1, <2>1, <3>1, Shrink
  <2>3. CASE At(requeued, p, s)
    <3>1. /\ ~At(Live, p, s) /\ ~At(eventMarks, p, s)
          /\ ledger[p] # s /\ ~At(pendingMarks, p, s)
      BY <2>1, <2>3 DEF OnceInv, Single
    <3>2. ~At(requeued', p, s)
      BY <1>1 DEF At
    <3>3. Live' = Live
      BY <1>1 DEF Live
    <3> QED BY <1>1, <3>1, <3>2, <3>3 DEF Unrecorded
  <2> QED BY <1>2, <2>2, <2>3
<1> QED BY <1>3, <1>4, <1>5, <1>6 DEF OnceInv

\* the entry is skipped, put off, stamped or read: nothing is recorded
LEMMA EntryOnce ==
  ASSUME IndInv, OnceInv, NEW p \in Paths,
         SkipSeen(p) \/ Defer(p) \/ StampEntry(p) \/ (ReadUpload /\ Entry(p))
  PROVE  OnceInv'
<1>1. UNCHANGED records /\ UNCHANGED <<dir, seenPaths, hasLedger, present>>
  BY DEF SkipSeen, Defer, StampEntry, ReadUpload, records, disk, shared, books, work
<1>2. /\ spc \in {"scan", "parse"} /\ todo' \subseteq todo /\ Entry(p)
      /\ \/ spc' = "scan"
         \/ spc' = "parse" /\ stamp' = dir[p].ver /\ UNCHANGED todo
            /\ dir[p].body # "gone" /\ seenPaths[p] = 0
         \/ spc = "parse" /\ spc' = "mark" /\ UNCHANGED <<stamp, todo>>
  BY DEF SkipSeen, Defer, StampEntry, ReadUpload
<1>3. Numbered'
  BY <1>1, <1>2 DEF OnceInv, Numbered, records
<1>4. Single'
  BY <1>1, SingleFrame DEF OnceInv
<1>5. \A q, s : Unrecorded(q, s)' <=> Unrecorded(q, s)
  BY <1>1, SameRecords
<1>6. Fresh'
  BY <1>1, <1>5 DEF OnceInv, Fresh, Unrecorded
<1>7. AbsentOld'
  BY <1>1, <1>2 DEF OnceInv, AbsentOld
<1>8. EntryFresh'
  <2>1. CASE spc' = "scan"
    BY <2>1 DEF EntryFresh
  <2>2. CASE spc' \in {"parse", "mark"}
    <3>1. \A q \in Paths : Entry(q)' <=> Entry(q)
      BY <1>2, <2>2 DEF Entry
    <3>2. seenPaths[p] = 0
      BY <1>2, <2>2 DEF OnceInv, EntryFresh
    <3>3. ASSUME hasLedger, NEW s, s = stamp' PROVE Unrecorded(p, s)
      <4>1. CASE spc' = "parse"
        BY <1>2, <3>3, <4>1 DEF OnceInv, Fresh, Numbered, Unrecorded
      <4>2. CASE spc = "parse" /\ spc' = "mark"
        BY <1>2, <3>3, <4>2 DEF OnceInv, EntryFresh, Unrecorded
      <4> QED BY <1>2, <2>2, <4>1, <4>2
    <3>4. hasLedger' => Unrecorded(p, stamp)'
      BY <1>1, <1>5, <3>3 DEF Unrecorded
    <3>5. \A q \in Paths : Entry(q) => q = p
      BY <1>2, EntryUnique
    <3> QED BY <1>1, <3>1, <3>2, <3>4, <3>5 DEF EntryFresh
  <2> QED BY <1>2, <2>1, <2>2
<1> QED BY <1>3, <1>4, <1>6, <1>7, <1>8 DEF OnceInv

LEMMA RewriteOnce ==
  ASSUME IndInv, OnceInv, NEW p \in Paths, RewriteFound(p)
  PROVE  OnceInv'
<1>1. /\ UNCHANGED records /\ UNCHANGED <<dir, hasLedger>> /\ UNCHANGED loop
      /\ spc = "scan" /\ Entry(p) /\ dir[p].ver # seenPaths[p]
      /\ \A q \in Paths : q # p => seenPaths'[q] = seenPaths[q]
  BY DEF RewriteFound, Rewritten, records, disk, shared, work, IndInv, TypeOK, BooksType
<1>2. Numbered'
  BY <1>1 DEF OnceInv, Numbered, records, loop
<1>3. Single'
  BY <1>1, SingleFrame DEF OnceInv
<1>4. \A q, s : Unrecorded(q, s)' <=> Unrecorded(q, s)
  BY <1>1, SameRecords
<1>5. Fresh'
  BY <1>1, <1>4 DEF OnceInv, Fresh, Unrecorded
<1>6. p \in present
  BY <1>1 DEF OnceInv, AbsentOld, Entry
<1>7. AbsentOld' /\ EntryFresh'
  BY <1>1, <1>6 DEF OnceInv, AbsentOld, EntryFresh, loop
<1> QED BY <1>2, <1>3, <1>5, <1>7 DEF OnceInv

LEMMA ScanEndOnce ==
  ASSUME IndInv, OnceInv, ScanGone \/ ForgetGone \/ FilterMarks
  PROVE  OnceInv'
<1>1. /\ UNCHANGED <<dir, hasLedger, requeued, marks, start, present>>
      /\ pendingMarks' \subseteq pendingMarks /\ eventMarks' \subseteq eventMarks
      /\ spc # "idle" /\ spc' \in {"idle", "forget", "filter", "flush"}
  BY DEF ScanGone, ForgetGone, FilterMarks, keepPresent, disk, shared, books, work
<1>2. \A p \in Paths : ledger'[p] \in {0, ledger[p]}
  BY DEF ScanGone, ForgetGone, FilterMarks, Without, disk, IndInv, TypeOK, DiskType
<1>3. \A p \in Paths : \/ seenPaths'[p] = seenPaths[p]
                       \/ p \notin present /\ seenPaths'[p] = 0
  BY DEF ScanGone, ForgetGone, FilterMarks, Without, books, IndInv, TypeOK, BooksType
<1>4. Numbered'
  BY <1>1 DEF OnceInv, Numbered
<1>5. Single'
  BY <1>1, <1>2, ShrinkSingle
<1>6. EntryFresh'
  BY <1>1 DEF EntryFresh
<1>7. AbsentOld'
  BY <1>1, <1>3 DEF OnceInv, AbsentOld, Numbered
<1>8. Fresh'
  <2> SUFFICES ASSUME hasLedger, NEW p \in Paths, dir[p].body # "gone",
                      seenPaths'[p] # dir[p].ver, NEW s, s = dir[p].ver
               PROVE  Unrecorded(p, s)'
    BY <1>1 DEF Fresh, Unrecorded
  <2>1. s \in Vers /\ s # 0
    BY DEF IndInv, TypeOK, WorldType, Files, OnceInv, Numbered
  <2>2. seenPaths[p] # dir[p].ver
    BY <1>1, <1>3 DEF OnceInv, AbsentOld
  <2>3. Unrecorded(p, s)
    BY <2>2 DEF OnceInv, Fresh, Unrecorded
  <2> QED BY <1>1, <1>2, <2>1, <2>3, Shrink
<1> QED BY <1>4, <1>5, <1>6, <1>7, <1>8 DEF OnceInv


LEMMA FlushOnce ==
  ASSUME IndInv, OnceInv, FlushPending
  PROVE  OnceInv'
<1>1. /\ UNCHANGED <<dir, hasLedger, requeued, eventMarks, marks, start, seenPaths>>
      /\ pendingMarks' \subseteq pendingMarks /\ spc' = "idle"
  BY DEF FlushPending, shared, work
<1>2. \A p \in Paths : ledger'[p] = ledger[p] \/ At(pendingMarks, p, ledger'[p])
  <2>1. ASSUME NEW done, done \subseteq pendingMarks, ledger' \in Upserted(ledger, done)
        PROVE  \A p \in Paths : ledger'[p] = ledger[p] \/ At(pendingMarks, p, ledger'[p])
    BY <2>1, UpsertedValue DEF At
  <2> QED BY <2>1 DEF FlushPending
<1>3. Live' = Live
  BY <1>1 DEF Live
<1>4. \A p, s : At(pendingMarks', p, s) => At(pendingMarks, p, s)
  BY <1>1 DEF At
<1>5. Numbered' /\ EntryFresh' /\ AbsentOld'
  BY <1>1 DEF OnceInv, Numbered, EntryFresh, AbsentOld
<1>6. Fresh'
  <2> SUFFICES ASSUME hasLedger, NEW p \in Paths, dir[p].body # "gone",
                      seenPaths[p] # dir[p].ver, NEW s, s = dir[p].ver
               PROVE  Unrecorded(p, s)'
    BY <1>1 DEF Fresh, Unrecorded
  <2>1. Unrecorded(p, s)
    BY DEF OnceInv, Fresh, Unrecorded
  <2>2. ledger'[p] # s
    BY <1>2, <2>1 DEF Unrecorded
  <2> QED BY <1>1, <1>3, <1>4, <2>1, <2>2 DEF Unrecorded
<1>7. Single'
  <2> SUFFICES ASSUME hasLedger
               PROVE  \A p \in Paths, s \in Vers :
                        (At(requeued, p, s) \/ At(Live, p, s) \/ At(eventMarks, p, s))
                          => ledger'[p] # s /\ ~At(pendingMarks', p, s)
    BY <1>1, <1>3 DEF OnceInv, Single
  <2>1. \A p \in Paths, s \in Vers :
          (At(requeued, p, s) \/ At(Live, p, s) \/ At(eventMarks, p, s))
            => ledger[p] # s /\ ~At(pendingMarks, p, s)
    BY DEF OnceInv, Single
  <2> QED BY <1>2, <1>4, <2>1
<1> QED BY <1>5, <1>6, <1>7 DEF OnceInv

\* one new mark, of a stamp that was nowhere
LEMMA FinishOnce ==
  ASSUME IndInv, OnceInv, NEW p \in Paths, FinishEntry(p)
  PROVE  OnceInv'
<1>1. /\ spc = "mark" /\ Entry(p) /\ spc' = "scan" /\ todo' \subseteq todo
      /\ UNCHANGED <<dir, ledger, requeued, hasLedger, present, marks, start>>
  BY DEF FinishEntry, disk, work
<1>2. /\ stamp \in Vers /\ stamp # 0 /\ seenPaths[p] = 0 /\ p \in present
      /\ hasLedger => Unrecorded(p, stamp)
  BY <1>1 DEF OnceInv, Numbered, EntryFresh, AbsentOld, Entry, IndInv, TypeOK, LoopType
<1>3. CASE UNCHANGED <<seenPaths, pendingMarks, eventMarks>>
  <2>1. UNCHANGED records
    BY <1>1, <1>3 DEF records
  <2>2. Numbered' /\ AbsentOld' /\ EntryFresh'
    BY <1>1, <1>3 DEF OnceInv, Numbered, AbsentOld, EntryFresh
  <2>3. Fresh'
    BY <1>1, <1>3, <2>1, SameRecords DEF OnceInv, Fresh, Unrecorded
  <2> QED BY <1>1, <2>1, <2>2, <2>3, SingleFrame DEF OnceInv
<1> DEFINE evs == parseUpload(p, content)
           e == Len(events) + Len(evs)
           m == [path |-> p, stamp |-> stamp, end |-> e]
<1>4. CASE markSeen(p, stamp, evs)
  <2>1. /\ \A q \in Paths : q # p => seenPaths'[q] = seenPaths[q]
        /\ seenPaths'[p] = stamp
    BY <1>4 DEF markSeen, IndInv, TypeOK, BooksType
  <2>2. \/ pendingMarks' = pendingMarks /\ eventMarks' = eventMarks
        \/ hasLedger /\ pendingMarks' = pendingMarks \cup {FTPMark(p, stamp)}
           /\ eventMarks' = eventMarks
        \/ hasLedger /\ pendingMarks' = pendingMarks /\ eventMarks' = eventMarks \cup {m}
    BY <1>4 DEF markSeen, FTPMark
  <2>3. m.path = p /\ m.stamp = stamp
    OBVIOUS
  <2>4. FTPMark(p, stamp).path = p /\ FTPMark(p, stamp).stamp = stamp
    BY DEF FTPMark
  <2> HIDE DEF m
  <2>5. \A q, s : /\ At(pendingMarks', q, s) => At(pendingMarks, q, s) \/ (q = p /\ s = stamp)
                  /\ At(eventMarks', q, s) => At(eventMarks, q, s) \/ (q = p /\ s = stamp)
                  /\ At(pendingMarks', q, s) /\ At(eventMarks', q, s)
                       => At(pendingMarks, q, s) \/ At(eventMarks, q, s)
    BY <2>2, <2>3, <2>4 DEF At
  <2>6. Live' = Live
    BY <1>1 DEF Live
  <2>7. Numbered'
    BY <1>1, <1>2, <2>2, <2>3 DEF OnceInv, Numbered
  <2>8. EntryFresh' /\ AbsentOld'
    BY <1>1, <1>2, <2>1 DEF OnceInv, EntryFresh, AbsentOld
  <2>9. Fresh'
    <3> SUFFICES ASSUME hasLedger, NEW q \in Paths, dir[q].body # "gone",
                        seenPaths'[q] # dir[q].ver, NEW s, s = dir[q].ver
                 PROVE  Unrecorded(q, s)'
      BY <1>1 DEF Fresh, Unrecorded
    <3>1. seenPaths[q] # s
      BY <1>2, <2>1 DEF OnceInv, Numbered
    <3>2. Unrecorded(q, s)
      BY <3>1 DEF OnceInv, Fresh, Unrecorded
    <3>3. ~(q = p /\ s = stamp)
      BY <2>1
    <3> QED BY <1>1, <2>5, <2>6, <3>2, <3>3 DEF Unrecorded
  <2>10. ASSUME hasLedger PROVE OneMark(Live') /\ OneMark(eventMarks')
    <3>1. OneMark(Live) /\ OneMark(eventMarks)
      BY <2>10 DEF OnceInv, Single
    <3>2. \A n \in eventMarks : ~(n.path = p /\ n.stamp = stamp)
      BY <1>2, <2>10 DEF Unrecorded, At
    <3> QED BY <2>2, <2>3, <2>6, <3>1, <3>2 DEF OneMark
  <2>11. ASSUME hasLedger, NEW q \in Paths, NEW s \in Vers
         PROVE  /\ At(requeued, q, s) => ~At(Live, q, s) /\ ~At(eventMarks', q, s)
                /\ At(Live, q, s) => ~At(eventMarks', q, s)
                /\ (At(requeued, q, s) \/ At(Live, q, s) \/ At(eventMarks', q, s))
                     => ledger[q] # s /\ ~At(pendingMarks', q, s)
    <3>1. /\ At(requeued, q, s) => ~At(Live, q, s) /\ ~At(eventMarks, q, s)
          /\ At(Live, q, s) => ~At(eventMarks, q, s)
          /\ (At(requeued, q, s) \/ At(Live, q, s) \/ At(eventMarks, q, s))
               => ledger[q] # s /\ ~At(pendingMarks, q, s)
      BY <2>11 DEF OnceInv, Single
    <3>2. ASSUME q = p, s = stamp
          PROVE  /\ ledger[q] # s /\ ~At(pendingMarks, q, s)
                 /\ ~At(eventMarks, q, s) /\ ~At(Live, q, s) /\ ~At(requeued, q, s)
      BY <1>2, <2>11, <3>2 DEF Unrecorded
    <3> QED BY <2>5, <3>1, <3>2
  <2>12. Single'
    BY <1>1, <2>6, <2>10, <2>11 DEF Single
  <2> QED BY <2>7, <2>8, <2>9, <2>12 DEF OnceInv
<1> QED BY <1>3, <1>4 DEF FinishEntry

LEMMA ScannerOnce == IndInv /\ OnceInv /\ Scanner => OnceInv'
<1> SUFFICES ASSUME IndInv, OnceInv, Scanner PROVE OnceInv'
  OBVIOUS
<1>1. CASE ReadUpload
  <2>1. PICK p \in Paths : Entry(p)
    BY <1>1 DEF ReadUpload, IndInv, TypeOK, LoopType
  <2> QED BY <1>1, <2>1, EntryOnce
<1> QED BY <1>1, ScanStartOnce, EntryOnce, RewriteOnce, FinishOnce, ScanEndOnce, FlushOnce
        DEF Scanner

-----------------------------------------------------------------------------
(* The worker.                                                             *)

\* the marks of the body just handed on leave the batch: for the ledger, or
\* for the scanner's list
LEMMA PartOnce ==
  ASSUME IndInv, OnceInv, NEW e \in 1..Len(batch), start < e, Advance(e),
         UNCHANGED <<dir, seenPaths, hasLedger, pendingMarks, eventMarks>>, UNCHANGED loop,
         \/ ledger' \in Upserted(ledger, MarksIn(start, e)) /\ UNCHANGED requeued
         \/ UNCHANGED ledger /\ requeued' = requeued \cup MarksIn(start, e)
  PROVE  OnceInv'
<1> DEFINE Moved(p, s) == At(MarksIn(start, e), p, s)
<1>1. start \in Nat /\ marks \subseteq EventMarks /\ e \in Nat /\ MarksIn(start, e) \subseteq Marks
  <2>1. start \in Nat /\ marks \subseteq EventMarks /\ Len(batch) \in Nat
    BY DEF IndInv, TypeOK, WorkType
  <2> QED BY <2>1, MarksInType
<1>2. Live' \subseteq {m \in Live : e < m.end}
  <2>1. marks' = {} \/ (marks' = marks /\ start' = e)
    BY DEF Advance, EndBatch
  <2> QED BY <1>1, <2>1 DEF Live, EventMarks
<1>3. \A p, s : Moved(p, s) => \E m \in Live : m.path = p /\ m.stamp = s /\ m.end <= e
  BY MarksInOrigin DEF At, Live
<1>4. \A p, s : At(Live', p, s) => At(Live, p, s)
  BY <1>2 DEF At
<1>5. \A p, s : Moved(p, s) => At(Live, p, s)
  BY <1>3 DEF At
<1>6. ASSUME hasLedger, NEW p, NEW s, Moved(p, s) PROVE ~At(Live', p, s)
  <2>1. OneMark(Live)
    BY <1>6 DEF OnceInv, Single
  <2>2. PICK m \in Live : m.path = p /\ m.stamp = s /\ m.end <= e
    BY <1>3, <1>6
  <2>3. ASSUME NEW n \in Live', n.path = p, n.stamp = s PROVE FALSE
    <3>1. n \in Live /\ e < n.end
      BY <1>2, <2>3
    <3>2. m.end = n.end
      BY <2>1, <2>2, <2>3, <3>1 DEF OneMark
    <3>3. m.end \in Nat
      BY <1>1, <2>2 DEF Live, EventMarks
    <3> QED BY <1>1, <2>2, <3>1, <3>2, <3>3
  <2> QED BY <2>3 DEF At
<1>7. \/ /\ UNCHANGED requeued
         /\ \A p \in Paths : ledger'[p] = ledger[p] \/ Moved(p, ledger'[p])
      \/ /\ UNCHANGED ledger
         /\ \A p, s : At(requeued', p, s) => At(requeued, p, s) \/ Moved(p, s)
  <2>1. CASE ledger' \in Upserted(ledger, MarksIn(start, e)) /\ UNCHANGED requeued
    BY <2>1, UpsertedValue DEF At
  <2>2. CASE UNCHANGED ledger /\ requeued' = requeued \cup MarksIn(start, e)
    BY <2>2 DEF At
  <2> QED BY <2>1, <2>2
<1>8. Numbered'
  <2>1. marks' \subseteq marks
    BY DEF Advance, EndBatch
  <2>2. \A m \in requeued' : m.stamp # 0 /\ m.stamp <= dir[m.path].ver
    <3> SUFFICES ASSUME NEW x \in MarksIn(start, e)
                 PROVE  x.stamp # 0 /\ x.stamp <= dir[x.path].ver
      BY DEF OnceInv, Numbered
    <3>1. PICK m \in marks : m.path = x.path /\ m.stamp = x.stamp
      BY MarksInOrigin
    <3> QED BY <3>1 DEF OnceInv, Numbered, IndInv, StampsBehind
  <2> QED BY <2>1, <2>2 DEF OnceInv, Numbered, loop
<1> HIDE DEF Moved
<1>9. \A p \in Paths, s \in Vers : (s # 0 /\ Unrecorded(p, s)) => Unrecorded(p, s)'
  BY <1>4, <1>5, <1>7 DEF Unrecorded
<1>10. Fresh' /\ EntryFresh' /\ AbsentOld'
  BY <1>9, FreshFrame DEF IndInv
<1>11. ASSUME hasLedger, NEW p \in Paths, NEW s \in Vers
       PROVE  /\ At(requeued', p, s) => ~At(Live', p, s) /\ ~At(eventMarks, p, s)
              /\ At(Live', p, s) => ~At(eventMarks, p, s)
              /\ (At(requeued', p, s) \/ At(Live', p, s) \/ At(eventMarks, p, s))
                   => ledger'[p] # s /\ ~At(pendingMarks, p, s)
  <2>1. /\ At(requeued, p, s) => ~At(Live, p, s) /\ ~At(eventMarks, p, s)
        /\ At(Live, p, s) => ~At(eventMarks, p, s)
        /\ (At(requeued, p, s) \/ At(Live, p, s) \/ At(eventMarks, p, s))
             => ledger[p] # s /\ ~At(pendingMarks, p, s)
    BY <1>11 DEF OnceInv, Single
  <2>2. Moved(p, s) => At(Live, p, s) /\ ~At(Live', p, s)
    BY <1>5, <1>6, <1>11
  <2>3. \/ /\ At(requeued', p, s) <=> At(requeued, p, s)
           /\ ledger'[p] = s => ledger[p] = s \/ Moved(p, s)
        \/ /\ ledger'[p] = ledger[p]
           /\ At(requeued', p, s) => At(requeued, p, s) \/ Moved(p, s)
    BY <1>7
  <2>4. At(Live', p, s) => At(Live, p, s)
    BY <1>4
  <2> QED BY <2>1, <2>2, <2>3, <2>4
<1>12. hasLedger => OneMark(Live') /\ OneMark(eventMarks)
  BY <1>2 DEF OnceInv, Single, OneMark
<1>13. Single'
  BY <1>11, <1>12 DEF Single
<1> QED BY <1>8, <1>10, <1>13 DEF OnceInv

LEMMA WorkerOnce == IndInv /\ OnceInv /\ Worker => OnceInv'
<1> SUFFICES ASSUME IndInv, OnceInv, Worker PROVE OnceInv'
  OBVIOUS
<1>1. CASE DrainFTP
  <2>1. /\ UNCHANGED <<dir, ledger, seenPaths, hasLedger, pendingMarks, requeued>>
        /\ UNCHANGED loop /\ marks' = eventMarks /\ start' = 0 /\ eventMarks' = {}
    BY <1>1 DEF DrainFTP, disk, books
  <2>2. Live' \subseteq eventMarks
    BY <2>1 DEF Live
  <2>3. \A p, s : (At(Live', p, s) => At(eventMarks, p, s)) /\ ~At(eventMarks', p, s)
    BY <2>1, <2>2 DEF At
  <2>4. Numbered'
    BY <2>1 DEF OnceInv, Numbered, loop
  <2>5. \A p \in Paths, s \in Vers : (s # 0 /\ Unrecorded(p, s)) => Unrecorded(p, s)'
    BY <2>1, <2>3 DEF Unrecorded
  <2>6. Fresh' /\ EntryFresh' /\ AbsentOld'
    BY <2>1, <2>5, FreshFrame DEF IndInv
  <2>7. hasLedger => OneMark(Live') /\ OneMark(eventMarks')
    BY <2>1, <2>2 DEF OnceInv, Single, OneMark
  <2>8. Single'
    <3> SUFFICES ASSUME hasLedger, NEW p \in Paths, NEW s \in Vers
                 PROVE  /\ At(requeued, p, s) => ~At(Live', p, s) /\ ~At(eventMarks', p, s)
                        /\ At(Live', p, s) => ~At(eventMarks', p, s)
                        /\ (At(requeued, p, s) \/ At(Live', p, s) \/ At(eventMarks', p, s))
                             => ledger[p] # s /\ ~At(pendingMarks, p, s)
      BY <2>1, <2>7 DEF Single
    <3>1. /\ At(requeued, p, s) => ~At(Live, p, s) /\ ~At(eventMarks, p, s)
          /\ (At(requeued, p, s) \/ At(Live, p, s) \/ At(eventMarks, p, s))
               => ledger[p] # s /\ ~At(pendingMarks, p, s)
      BY DEF OnceInv, Single
    <3> QED BY <2>3, <3>1
  <2> QED BY <2>4, <2>6, <2>8 DEF OnceInv
<1>2. CASE DrainEvents
  <2>1. UNCHANGED records /\ UNCHANGED <<dir, seenPaths, hasLedger>> /\ UNCHANGED loop
    BY <1>2 DEF DrainEvents, records, shared, books
  <2>2. Numbered'
    BY <2>1, NumberedFrame DEF OnceInv, records, loop
  <2>3. Single'
    BY <2>1, SingleFrame DEF OnceInv
  <2>4. Fresh' /\ EntryFresh' /\ AbsentOld'
    BY <2>1, SameRecords, FreshFrame DEF IndInv
  <2> QED BY <2>2, <2>3, <2>4 DEF OnceInv
<1>3. CASE InsertFailed
  <2>1. /\ UNCHANGED <<dir, ledger, seenPaths, hasLedger, pendingMarks, eventMarks>>
        /\ UNCHANGED loop /\ marks' = {}
        /\ requeued' = requeued \cup MarksIn(start, Len(batch))
    BY <1>3 DEF InsertFailed, EndBatch, NotQueued, disk, books
  <2>2. Live' = {} /\ \A p, s : ~At(Live', p, s)
    BY <2>1 DEF Live, At
  <2>3. \A p, s : At(requeued', p, s) => At(requeued, p, s) \/ At(Live, p, s)
    BY <2>1, MarksInOrigin DEF At, Live
  <2>4. Numbered'
    <3>1. \A m \in requeued' : m.stamp # 0 /\ m.stamp <= dir[m.path].ver
      <4> SUFFICES ASSUME NEW x \in MarksIn(start, Len(batch))
                   PROVE  x.stamp # 0 /\ x.stamp <= dir[x.path].ver
        BY <2>1 DEF OnceInv, Numbered
      <4>1. PICK m \in marks : m.path = x.path /\ m.stamp = x.stamp
        BY MarksInOrigin
      <4> QED BY <4>1 DEF OnceInv, Numbered, IndInv, StampsBehind
    <3> QED BY <2>1, <3>1 DEF OnceInv, Numbered, loop
  <2>5. \A p \in Paths, s \in Vers : (s # 0 /\ Unrecorded(p, s)) => Unrecorded(p, s)'
    BY <2>1, <2>2, <2>3 DEF Unrecorded
  <2>6. Fresh' /\ EntryFresh' /\ AbsentOld'
    BY <2>1, <2>5, FreshFrame DEF IndInv
  <2>7. Single'
    <3> SUFFICES ASSUME hasLedger
                 PROVE  /\ \A p \in Paths, s \in Vers :
                             /\ At(requeued', p, s) => ~At(eventMarks, p, s)
                             /\ (At(requeued', p, s) \/ At(eventMarks, p, s))
                                  => ledger[p] # s /\ ~At(pendingMarks, p, s)
                        /\ OneMark(eventMarks)
      BY <2>1, <2>2 DEF Single, OneMark
    <3>1. OneMark(eventMarks)
      BY DEF OnceInv, Single
    <3>2. \A p \in Paths, s \in Vers :
            /\ At(requeued, p, s) => ~At(Live, p, s) /\ ~At(eventMarks, p, s)
            /\ At(Live, p, s) => ~At(eventMarks, p, s)
            /\ (At(requeued, p, s) \/ At(Live, p, s) \/ At(eventMarks, p, s))
                 => ledger[p] # s /\ ~At(pendingMarks, p, s)
      BY DEF OnceInv, Single
    <3> QED BY <2>3, <3>1, <3>2
  <2> QED BY <2>4, <2>6, <2>7 DEF OnceInv
<1>4. ASSUME NEW e \in 1..Len(batch), EnqueuePart(e) PROVE OnceInv'
  <2>1. start < e
    BY <1>4 DEF EnqueuePart, IndInv, TypeOK, WorkType
  <2>2. /\ Advance(e) /\ UNCHANGED loop /\ UNCHANGED requeued
        /\ UNCHANGED <<dir, seenPaths, hasLedger, pendingMarks, eventMarks>>
        /\ ledger' \in Upserted(ledger, MarksIn(start, e))
    BY <1>4 DEF EnqueuePart, shared, books
  <2> QED BY <2>1, <2>2, PartOnce
<1>5. ASSUME NEW e \in 1..Len(batch), DropPart(e) PROVE OnceInv'
  <2>1. start < e
    BY <1>5 DEF DropPart, IndInv, TypeOK, WorkType
  <2>2. /\ Advance(e) /\ UNCHANGED loop
        /\ UNCHANGED <<dir, seenPaths, hasLedger, pendingMarks, eventMarks>>
        /\ \/ ledger' \in Upserted(ledger, MarksIn(start, e)) /\ UNCHANGED requeued
           \/ UNCHANGED ledger /\ requeued' = requeued \cup MarksIn(start, e)
    BY <1>5 DEF DropPart, books
  <2> QED BY <2>1, <2>2, PartOnce
<1> QED BY <1>1, <1>2, <1>3, <1>4, <1>5 DEF Worker

LEMMA OnceStep == IndInv /\ OnceInv /\ [Next]_vars => OnceInv'
<1> SUFFICES ASSUME IndInv, OnceInv, [Next]_vars PROVE OnceInv'
  OBVIOUS
<1>1. CASE UNCHANGED vars
  <2>1. UNCHANGED records /\ UNCHANGED <<dir, seenPaths, hasLedger>> /\ UNCHANGED loop
    BY <1>1 DEF vars, records, disk, shared, books, work
  <2>2. Numbered'
    BY <2>1, NumberedFrame DEF OnceInv, records, loop
  <2>3. Single'
    BY <2>1, SingleFrame DEF OnceInv
  <2>4. Fresh' /\ EntryFresh' /\ AbsentOld'
    BY <2>1, SameRecords, FreshFrame DEF IndInv
  <2> QED BY <2>2, <2>3, <2>4 DEF OnceInv
<1> QED BY <1>1, EnvironmentOnce, ScannerOnce, WorkerOnce DEF Next

\* With a ledger, an upload is never parsed at a stamp that the ledger already
\* holds: neither after a restart, which resumes from the ledger, nor after a
\* requeued mark, a rewrite or a rotation made the scanner look at it again.
THEOREM NothingIsReparsed == Spec => NoReparse
<1>1. IndInv /\ OnceInv /\ [Next]_vars =>
        [\A p \in Paths :
           (spc = "mark" /\ hasLedger /\ seenPaths[p] = 0 /\ seenPaths'[p] # 0
              /\ crashes' = crashes) => ledger[p] # seenPaths'[p]]_vars
  <2> SUFFICES ASSUME IndInv, OnceInv, [Next]_vars, NEW p \in Paths, spc = "mark",
                      hasLedger, seenPaths[p] = 0, seenPaths'[p] # 0, crashes' = crashes
               PROVE  ledger[p] # seenPaths'[p]
    OBVIOUS
  <2>1. seenPaths' # seenPaths
    OBVIOUS
  <2>2. ~Crash
    BY DEF Crash, IndInv, TypeOK, BoundsType
  <2>3. \E q \in Paths : FinishEntry(q)
    BY <2>1, <2>2 DEF Next, Scanner, Worker, Environment, ScanStart, SkipSeen, RewriteFound,
                      Defer, StampEntry, ReadUpload, ScanGone, ForgetGone, FilterMarks,
                      FlushPending, DrainFTP, DrainEvents, InsertFailed, EnqueuePart,
                      DropPart, Remove, Upload, Inform, EmitEvent, vars, books
  <2>4. PICK q \in Paths : FinishEntry(q)
    BY <2>3
  <2>5. q = p /\ seenPaths'[p] = stamp
    BY <2>4 DEF FinishEntry, markSeen, IndInv, TypeOK, BooksType
  <2>6. Entry(p)
    BY <2>4, <2>5 DEF FinishEntry
  <2> QED BY <2>5, <2>6 DEF OnceInv, EntryFresh, Unrecorded
<1>2. Spec => []OnceInv
  BY OnceInit, OnceStep, IndInvHolds, PTL DEF Spec
<1> QED BY <1>1, <1>2, IndInvHolds, PTL DEF Spec, NoReparse
=============================================================================
