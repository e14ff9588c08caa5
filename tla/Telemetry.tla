----------------------------- MODULE Telemetry -----------------------------
(***************************************************************************)
(* The third telemetry tier (CollectTier in collector/collector.go, the    *)
(* builders of collector/metrics.go) and the parameter cache it reads      *)
(* (cwmp_params in buffer/cwmp_store.go), for one device.                  *)
(*                                                                         *)
(* The worker takes its sample from the cache and queues a read, whose     *)
(* answer is cached in one of the next sessions: parameter by parameter,   *)
(* in statements of their own, while the worker may take the next sample.  *)
(* Rows of the alarm table that are gone stay in the cache.                *)
(*                                                                         *)
(* Of the parameters there are the two counters of rrc_success_pct, the    *)
(* number of alarms, and the type and the severity of each row of the      *)
(* alarm table; the other metrics are passed on one by one.                *)
(***************************************************************************)
EXTENDS Naturals, Sequences, FiniteSets

CONSTANTS
  Alarms,
  Tables,       \* the alarm tables the device may have
  None,
  MaxAlarmRows, \* rows of the alarm table that are read
  QueueCap,     \* capacity of the task queue
  MaxEvents,    \* bound: steps of the device between reads
  MaxTroubles   \* bound: failed statements and stops of the agent

ASSUME TelemetryAssumption ==
  /\ None \notin Alarms \cup Nat /\ Tables \subseteq Seq(Alarms) /\ << >> \in Tables
  /\ MaxAlarmRows \in Nat \ {0} /\ QueueCap \in Nat \ {0}
  /\ MaxEvents \in Nat /\ MaxTroubles \in Nat

VARIABLES
  \* the device
  table, att, succ,
  \* the session: reads in the queue, and what is left to cache of an answer
  queued, caching,
  cache,        \* the value of each path, None for none
  sample,       \* the last sample of the worker
  \* for the properties
  read,         \* what the device had when it gave the last answer
  partial,      \* some of that answer did not reach the cache
  events,       \* what happened on the device
  reset,        \* its counters have started again
  faults, stops

device == <<table, att, succ, events, reset>>
vars == <<device, queued, caching, cache, sample, read, partial, faults, stops>>

Rows == 1..MaxAlarmRows
Numbers == {"att", "succ", "count"} \X {0}
Columns == {"type", "severity"} \X Rows
Paths == Numbers \cup Columns
Params == [path : Numbers, val : Nat] \cup [path : Columns, val : Alarms]

\* the worker has no sample yet
NoSample == [pct |-> None, alarms |-> << >>, of |-> None]

Least(m, n) == IF m < n THEN m ELSE n

-----------------------------------------------------------------------------
(* The device.                                                             *)

Event == events < MaxEvents /\ events' = events + 1

Change(t) ==
  /\ Event
  /\ t # table /\ table' = t
  /\ UNCHANGED <<att, succ, reset, queued, caching, cache, sample, read,
                 partial, faults, stops>>

\* a connection attempt, which succeeds or not
Call ==
  /\ Event
  /\ att' = att + 1 /\ succ' \in {succ, succ + 1}
  /\ UNCHANGED <<table, reset, queued, caching, cache, sample, read,
                 partial, faults, stops>>

\* the counters start again with every granularity period
Reset ==
  /\ Event /\ reset' = TRUE
  /\ att' = 0 /\ succ' = 0
  /\ UNCHANGED <<table, queued, caching, cache, sample, read,
                 partial, faults, stops>>

\* defect: the counters are read in the other order
SuccessesFirst == << <<"succ", 0>>, <<"att", 0>> >>

\* the counters, in the order of tierReadPaths
CounterPaths == << <<"att", 0>>, <<"succ", 0>> >>

alarmReadPaths ==
  [i \in 1..(2 * MaxAlarmRows + 1) |->
     IF i = 1 THEN <<"count", 0>>
     ELSE <<IF i % 2 = 0 THEN "type" ELSE "severity", i \div 2>>]

Asked == CounterPaths \o alarmReadPaths

\* how many of them exist: those of the rows beyond the table, which are asked
\* for last, do not
Answered == 3 + 2 * Least(Len(table), MaxAlarmRows)

\* the value the device has for a path
ValueOf(p) ==
  CASE p[1] = "att" -> att
    [] p[1] = "succ" -> succ
    [] p[1] = "count" -> Len(table)
    [] OTHER -> table[p[2]]

\* a read is executed: the answer has what exists, in the order asked for
Answer ==
  /\ queued > 0 /\ queued' = queued - 1
  /\ caching = << >>
  /\ caching' = [i \in 1..Answered |-> [path |-> Asked[i], val |-> ValueOf(Asked[i])]]
  /\ read' = [table |-> table, att |-> att, succ |-> succ]
  /\ partial' = FALSE
  /\ UNCHANGED <<device, cache, sample, faults, stops>>

-----------------------------------------------------------------------------
(* The agent.                                                              *)

\* onGPV caches the next parameter; an error is ignored
CacheParam ==
  /\ caching # << >> /\ caching' = Tail(caching)
  /\ \/ /\ cache' = [cache EXCEPT ![Head(caching).path] = Head(caching).val]
        /\ UNCHANGED <<partial, faults>>
     \/ /\ faults + stops < MaxTroubles /\ faults' = faults + 1
        /\ partial' = TRUE
        /\ UNCHANGED cache
  /\ UNCHANGED <<device, queued, sample, read, stops>>

\* GetParams returns the paths that have a value
InParams(p) == cache[p] # None

rrcSuccessPct ==
  IF ~InParams(<<"att", 0>>) \/ ~InParams(<<"succ", 0>>) THEN None
  ELSE IF cache[<<"att", 0>>] = 0 THEN None
  ELSE [succ |-> cache[<<"succ", 0>>], att |-> cache[<<"att", 0>>]]

\* defect: all rows in the cache are reported
AllRows == MaxAlarmRows

\* the rows that count: as many as there are alarms
RowLimit ==
  IF ~InParams(<<"count", 0>>) THEN MaxAlarmRows
  ELSE Least(cache[<<"count", 0>>], MaxAlarmRows)

\* one alarm for each row with a type, listed in the order of the rows
buildAlarms ==
  [i \in {j \in 1..RowLimit : InParams(<<"type", j>>)} |->
     [type |-> cache[<<"type", i>>], severity |-> cache[<<"severity", i>>]]]

\* defect: no read is queued while there are values in the cache
ReadOnce == IF cache[<<"att", 0>>] = None THEN Least(queued + 1, QueueCap) ELSE queued

\* defect: the queue has no end
Unbounded == queued + 1

\* a read that finds the queue full is dropped
Refresh == Least(queued + 1, QueueCap)

CollectTier ==
  /\ sample' = [pct |-> rrcSuccessPct, alarms |-> buildAlarms,
                of |-> IF caching = << >> /\ ~partial THEN read ELSE None]
  /\ queued' = Refresh
  /\ UNCHANGED <<device, caching, cache, read, partial, faults, stops>>

\* the agent stops and starts: the cache is on disk
Restart ==
  /\ faults + stops < MaxTroubles /\ stops' = stops + 1
  /\ queued' = 0 /\ caching' = << >>
  /\ partial' = (partial \/ caching # << >>)
  /\ sample' = NoSample
  /\ UNCHANGED <<device, cache, read, faults>>

-----------------------------------------------------------------------------
Init ==
  /\ table = << >> /\ att = 0 /\ succ = 0
  /\ queued = 0 /\ caching = << >>
  /\ cache = [p \in Paths |-> None]
  /\ sample = NoSample /\ read = None /\ partial = FALSE
  /\ events = 0 /\ reset = FALSE /\ faults = 0 /\ stops = 0

Next ==
  \/ \E t \in Tables : Change(t)
  \/ Call \/ Reset \/ Answer \/ CacheParam \/ CollectTier \/ Restart

Spec == Init /\ [][Next]_vars

\* the device opens sessions, a handler that has begun goes on, and the ticker
\* of the tier fires
FairSpec == Spec /\ WF_vars(Answer) /\ WF_vars(CacheParam) /\ WF_vars(CollectTier)

-----------------------------------------------------------------------------
(* Properties.                                                             *)

\* what a device with these alarms and counters is to be reported with
AlarmsOf(t) ==
  [i \in 1..Least(Len(t), MaxAlarmRows) |-> [type |-> t[i], severity |-> t[i]]]
PctOf(a, s) == IF a = 0 THEN None ELSE [succ |-> s, att |-> a]

\* Every variable keeps its type.
TypeOK ==
  /\ table \in Tables /\ att \in Nat /\ succ \in Nat
  /\ queued \in 0..QueueCap
  /\ caching \in Seq(Params) /\ DOMAIN cache = Paths
  /\ \A p \in Numbers : cache[p] \in Nat \cup {None}
  /\ \A p \in Columns : cache[p] \in Alarms \cup {None}
  /\ DOMAIN sample.alarms \subseteq Rows
  /\ read \in {None} \cup [table : Tables, att : Nat, succ : Nat]
  /\ partial \in BOOLEAN
  /\ events \in 0..MaxEvents /\ reset \in BOOLEAN
  /\ faults \in 0..MaxTroubles /\ stops \in 0..MaxTroubles

\* A sample taken between two answers shows the device as it was at the last
\* answer: the rows of alarms that are gone, which stay in the cache, are not
\* reported, and the counters belong together.
SampleIsOneRead ==
  sample.of # None =>
    /\ sample.alarms = AlarmsOf(sample.of.table)
    /\ sample.pct = PctOf(sample.of.att, sample.of.succ)

\* rrc_success_pct is at most 100, also in a sample that is taken while an
\* answer is being cached or after one was cut short: the attempts are cached
\* before the successes.  Counters that start again, or a failed statement, can
\* break it.
PctAtMost100 ==
  (~reset /\ faults = 0 /\ sample.pct # None) =>
    sample.pct.succ <= sample.pct.att

\* Once a device has settled, its samples come to show it as it is, whatever
\* was mixed up before.
EventuallyReported ==
  <>[](/\ sample.alarms = AlarmsOf(table)
       /\ sample.pct = PctOf(att, succ))
=============================================================================
