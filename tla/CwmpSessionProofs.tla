------------------------- MODULE CwmpSessionProofs -------------------------
(***************************************************************************)
(* Proofs about CwmpSession, for any callers and kinds of calls, any       *)
(* capacities of the queue and of the shared channel, and any number of    *)
(* calls, abandoned sessions, late requests and faults.                    *)
(***************************************************************************)
EXTENDS CwmpSession, SequenceTheorems, FiniteSetTheorems, TLAPS

USE SessionAssumption

-----------------------------------------------------------------------------
(* The inductive invariants.                                               *)

Issued == 1..calls
IdOf(n) == CommandID(kind[n], n)

\* A caller has a call while it is in RequestAndAwait, and the call is its own;
\* no snapshot is asked for while another one is being waited for.
CallInv ==
  /\ \A n \in Calls : kind[n] = "none" <=> n > calls
  /\ \A c \in Callers :
       IF pc[c] = "idle" THEN cur[c] = 0 ELSE cur[c] \in Issued
  /\ \A c, d \in Callers : pc[c] # "idle" /\ cur[c] = cur[d] => c = d
  /\ \A c \in Callers : (pc[c] # "idle" /\ kind[cur[c]] = "snapshot") =>
       \A n \in Calls : kind[n] = "snapshot" => n <= cur[c]
  /\ \A c \in Callers : pc[c] # "passing" => held[c] = NoResult /\ found[c] = 0
  /\ executed \subseteq Issued

\* a task is a read nobody waits for, or that of the call it names
KnownTasks ==
  {t \in Tasks : \/ t.call = 0 /\ t.cid = 0
                 \/ t.call \in Issued /\ t = TaskOf(kind[t.call], t.call)}

TaskInv ==
  /\ \A i \in DOMAIN taskQueue : taskQueue[i] \in KnownTasks
  /\ inflight \in KnownTasks /\ cpe.task \in KnownTasks
  /\ cpe.st # "exec" => cpe.task = NoTask
  /\ handling.msg # NoMessage => inflight.cid # 0

\* a waiter that is looked up for a CommandID waits for that CommandID
WaitsFor(n, id) == n # 0 => n \in Issued /\ id = IdOf(n)

WaiterInv ==
  /\ \A id \in 1..Snapshot : WaitsFor(waiters[id], id)
  /\ WaitsFor(target, inflight.cid)
  /\ handling.msg = NoMessage => target = 0
  /\ \A c \in Callers : WaitsFor(found[c], held[c].cid)

\* a result in a channel has a CommandID, in a private one that of the call
ResultInv ==
  /\ \A i \in DOMAIN results : results[i].cid # 0
  /\ \A n \in Calls : chan[n] # NoResult => n \in Issued /\ chan[n].cid = IdOf(n)
  /\ \A c \in Callers : pc[c] = "passing" => held[c].cid # 0

Basic == TypeOK /\ CallInv /\ TaskInv /\ WaiterInv /\ ResultInv

\* There is one copy of a reboot at most that was not sent yet, and none once
\* the device executed it; the one in flight never returns to the queue.
Unsent(n) ==
  /\ n \notin repeated
  /\ \A i, j \in DOMAIN taskQueue :
       taskQueue[i].call = n /\ taskQueue[j].call = n => i = j
  /\ \A i \in DOMAIN taskQueue :
       taskQueue[i].call = n => n \notin executed /\ cpe.task.call # n
  /\ cpe.task.call = n => n \notin executed
RebootInv ==
  repeated \subseteq executed /\ \A n \in Calls : Rebooting(n) => Unsent(n)

\* While no request was handled late, the device and the agent agree on the
\* task in flight, and the answer on its way is the answer to it.
AgreeInv ==
  lates = 0 =>
    /\ late = {}
    /\ post # NoMessage => cpe.st = "wait"
    /\ post.kind \in {"answer", "fault"} => post.from = inflight.call
    /\ cpe.st = "exec" => cpe.task = inflight
    /\ (cpe.st = "ready" \/ post.kind = "empty") => inflight = NoTask
    /\ handling.msg # NoMessage =>
         /\ handling.msg.from = inflight.call
         /\ cpe.st \in {"off", "wait"} /\ post.kind \in {"none", "inform"}
         /\ handling.live => cpe.st = "wait" /\ post = NoMessage

\* ... so that every result carries the CommandID of the call it answers
Answers == {r \in Results : r.from \in Issued /\ r.cid = IdOf(r.from)}
TrueInv ==
  lates = 0 =>
    /\ \A i \in DOMAIN results : results[i] \in Answers
    /\ \A n \in Calls : chan[n] \in Answers \cup {NoResult}
    /\ \A c \in Callers : held[c] \in Answers \cup {NoResult}

\* A call has one task or one result at a time: the ones under way are no
\* more than the calls.
Asked(q) == {i \in DOMAIN q : q[i].call # 0}
Passing == {n \in Calls : \E c \in Callers : pc[c] = "passing" /\ cur[c] = n}
InFlight == IF inflight.call = 0 THEN 0 ELSE 1
CountInv ==
  Len(results) + Cardinality(Passing) + Cardinality(Asked(taskQueue)) + InFlight
    <= calls

\* the conclusion of AwaitedIsKept
Has(n) ==
  \/ \E i \in DOMAIN taskQueue : taskQueue[i].call = n
  \/ inflight.call = n
  \/ \E i \in DOMAIN results : results[i].cid = IdOf(n)
  \/ \E m \in Calls : chan[m].cid = IdOf(n)
  \/ \E c \in Callers : held[c].cid = IdOf(n)
KeptInv ==
  (lates = 0 /\ calls <= ResultsCap) =>
    \A n \in Calls : (Waiting(n) /\ ~Rebooting(n) /\ n \notin dropped) => Has(n)

-----------------------------------------------------------------------------
(* The steps.                                                              *)

LEMMA NextCases ==
  ASSUME [Next]_vars
  PROVE  \/ \E c \in Callers, k \in Kinds : Call(c, k)
         \/ \E c \in Callers :
              \/ Register(c) \/ TakeMine(c) \/ TakeShared(c) \/ TakeForeign(c)
              \/ PutBack(c) \/ Timeout(c)
         \/ Refresh \/ finishInflight
         \/ \E m \in {post} \cup late, live \in BOOLEAN :
              \/ onInform(m, live) \/ onEmptyPost(m, live)
              \/ onAnswerUnawaited(m, live) \/ onAnswer(m, live)
         \/ Inform \/ EmptyPost \/ Execute \/ Refuse \/ Abandon
         \/ UNCHANGED vars
BY DEF Next, Caller, Handler, Device

-----------------------------------------------------------------------------
(* Tasks and results.                                                      *)

LEMMA TaskTypes ==
  /\ NoTask \in Tasks /\ \A ty \in Types : Background(ty) \in Tasks
  /\ \A k \in Kinds, n \in Calls :
       /\ TaskOf(k, n) \in Tasks /\ TaskOf(k, n).call = n
       /\ TaskOf(k, n).cid = CommandID(k, n)
       /\ CommandID(k, n) \in 1..Snapshot
BY DEF NoTask, Tasks, Background, Types, TaskOf, Calls, CommandID, CommandIDs,
       Snapshot

LEMMA ResultTypes ==
  /\ NoResult \in Results /\ NoMessage \in Messages
  /\ NoResult.cid = 0 /\ NoResult.from = 0 /\ NoTask.cid = 0 /\ NoTask.call = 0
<1>1. NoResult \in Results
  <2>1. 0 \in CommandIDs /\ 0 \in 0..MaxCalls
    BY DEF CommandIDs, Snapshot
  <2> QED BY <2>1, Zenon DEF NoResult, Results
<1>2. NoMessage \in Messages
  BY DEF NoMessage, Messages, Types
<1> QED BY <1>1, <1>2 DEF NoResult, NoTask


-----------------------------------------------------------------------------
(* The channels.                                                           *)

LEMMA AppendFacts ==
  ASSUME NEW S, NEW q \in Seq(S), NEW e \in S
  PROVE  /\ Append(q, e) \in Seq(S)
         /\ DOMAIN q = 1..Len(q) /\ Len(q) \in Nat
         /\ Len(Append(q, e)) = Len(q) + 1
         /\ DOMAIN Append(q, e) = 1..(Len(q) + 1)
         /\ \A i \in DOMAIN q : Append(q, e)[i] = q[i]
         /\ Append(q, e)[Len(q) + 1] = e
BY AppendProperties, LenProperties

LEMMA TailFacts ==
  ASSUME NEW S, NEW q \in Seq(S), q # << >>
  PROVE  /\ Tail(q) \in Seq(S) /\ Head(q) \in S /\ Head(q) = q[1]
         /\ 1 \in DOMAIN q /\ Len(q) \in Nat \ {0} /\ DOMAIN q = 1..Len(q)
         /\ Len(Tail(q)) = Len(q) - 1 /\ DOMAIN Tail(q) = 1..(Len(q) - 1)
         /\ \A i \in DOMAIN Tail(q) : i + 1 \in DOMAIN q /\ Tail(q)[i] = q[i + 1]
         /\ \A i \in DOMAIN q : i = 1 \/ (i - 1 \in DOMAIN Tail(q) /\ Tail(q)[i - 1] = q[i])
BY HeadTailProperties, LenProperties, EmptySeq

LEMMA ElementType ==
  ASSUME NEW S, NEW q \in Seq(S)
  PROVE  \A i \in DOMAIN q : q[i] \in S
BY ElementOfSeq, LenProperties

\* what was queued stays where it is, and the task is at the end, unless the
\* queue is full
LEMMA EnqueueFacts ==
  ASSUME NEW q \in Seq(Tasks), Len(q) <= QueueCap, NEW t \in Tasks
  PROVE  /\ enqueue(q, t) \in Seq(Tasks) /\ Len(enqueue(q, t)) <= QueueCap
         /\ \A i \in DOMAIN q : i \in DOMAIN enqueue(q, t) /\ enqueue(q, t)[i] = q[i]
         /\ \A i \in DOMAIN enqueue(q, t) :
              i \in DOMAIN q \/ (i = Len(q) + 1 /\ enqueue(q, t)[i] = t)
         /\ ~Full(q) => /\ Len(q) + 1 \in DOMAIN enqueue(q, t)
                        /\ enqueue(q, t)[Len(q) + 1] = t
<1>1. DOMAIN q = 1..Len(q) /\ Len(q) \in Nat
  BY LenProperties
<1>2. CASE Len(q) < QueueCap
  <2>1. enqueue(q, t) = Append(q, t) /\ ~Full(q)
    BY <1>1, <1>2 DEF enqueue, Full
  <2> QED BY <1>1, <1>2, <2>1, AppendFacts
<1>3. CASE ~(Len(q) < QueueCap)
  BY <1>1, <1>3 DEF enqueue, Full
<1> QED BY <1>2, <1>3

\* the reads of the first contact, which nobody waits for
Reads == {t \in Tasks : t.call = 0 /\ t.cid = 0}

\* An Inform leaves the queue as it is and adds the unanswered task, when it is
\* one that is sent again, and reads nobody waits for.
LEMMA InformQueue ==
  ASSUME NEW q \in Seq(Tasks), Len(q) <= QueueCap, NEW t \in Tasks,
         NEW q2, q2 = FirstReads(requeueOrphanedTask(q, t))
  PROVE  /\ q2 \in Seq(Tasks) /\ Len(q2) <= QueueCap
         /\ \A i \in DOMAIN q : i \in DOMAIN q2 /\ q2[i] = q[i]
         /\ \A i \in DOMAIN q2 :
              \/ i \in DOMAIN q
              \/ i = Len(q) + 1 /\ q2[i] = t /\ Retried(t)
              \/ q2[i] \in Reads
         /\ (Retried(t) /\ ~Full(q)) =>
              Len(q) + 1 \in DOMAIN q2 /\ q2[Len(q) + 1] = t
<1> DEFINE q1 == requeueOrphanedTask(q, t)
           walk == enqueue(q1, Background("gpn"))
<1>1. /\ q1 \in Seq(Tasks) /\ Len(q1) <= QueueCap
      /\ \A i \in DOMAIN q : i \in DOMAIN q1 /\ q1[i] = q[i]
      /\ \A i \in DOMAIN q1 :
           i \in DOMAIN q \/ (i = Len(q) + 1 /\ q1[i] = t /\ Retried(t))
      /\ (Retried(t) /\ ~Full(q)) => Len(q) + 1 \in DOMAIN q1 /\ q1[Len(q) + 1] = t
  <2>1. CASE Retried(t)
    <3>1. q1 = enqueue(q, t)
      BY <2>1 DEF requeueOrphanedTask
    <3> QED BY <2>1, <3>1, EnqueueFacts
  <2>2. CASE ~Retried(t)
    BY <2>2 DEF requeueOrphanedTask
  <2> QED BY <2>1, <2>2
<1>2. /\ Background("gpn") \in Tasks /\ Background("gpv") \in Tasks
      /\ Background("gpn") \in Reads /\ Background("gpv") \in Reads
  BY TaskTypes DEF Types, Background, Reads
<1> HIDE DEF q1
<1>3. /\ walk \in Seq(Tasks) /\ Len(walk) <= QueueCap
      /\ \A i \in DOMAIN q1 : i \in DOMAIN walk /\ walk[i] = q1[i]
      /\ \A i \in DOMAIN walk : i \in DOMAIN q1 \/ walk[i] = Background("gpn")
  BY <1>1, <1>2, EnqueueFacts
<1> HIDE DEF walk
<1>4. /\ enqueue(walk, Background("gpv")) \in Seq(Tasks)
      /\ Len(enqueue(walk, Background("gpv"))) <= QueueCap
      /\ \A i \in DOMAIN walk : /\ i \in DOMAIN enqueue(walk, Background("gpv"))
                                /\ enqueue(walk, Background("gpv"))[i] = walk[i]
      /\ \A i \in DOMAIN enqueue(walk, Background("gpv")) :
           i \in DOMAIN walk \/ enqueue(walk, Background("gpv"))[i] = Background("gpv")
  BY <1>2, <1>3, EnqueueFacts
<1>5. q2 \in {q1, walk, enqueue(walk, Background("gpv"))}
  BY DEF FirstReads, walk, q1
<1>6. CASE q2 = q1
  BY <1>1, <1>6
<1>7. CASE q2 = walk
  BY <1>1, <1>2, <1>3, <1>7
<1>8. CASE q2 = enqueue(walk, Background("gpv"))
  BY <1>1, <1>2, <1>3, <1>4, <1>8
<1> QED BY <1>5, <1>6, <1>7, <1>8

\* the response reaches a device that waits for it
LEMMA RespondFacts ==
  ASSUME NEW live \in BOOLEAN, NEW st, NEW t, Respond(live, st, t)
  PROVE  \/ live /\ cpe' = [st |-> st, task |-> t]
         \/ ~live /\ UNCHANGED cpe
BY DEF Respond

\* the first task leaves the queue and is in flight
LEMMA NextTaskFacts ==
  ASSUME taskQueue \in Seq(Tasks), NEW live \in BOOLEAN, NEW u, nextTask(live, u)
  PROVE  \/ /\ taskQueue = << >> /\ UNCHANGED taskQueue /\ inflight' = u
            /\ \/ live /\ cpe' = [st |-> "off", task |-> NoTask]
               \/ ~live /\ UNCHANGED cpe
         \/ /\ taskQueue # << >> /\ taskQueue' = Tail(taskQueue)
            /\ inflight' = Head(taskQueue)
            /\ \/ live /\ cpe' = [st |-> "exec", task |-> Head(taskQueue)]
               \/ ~live /\ UNCHANGED cpe
BY DEF nextTask, Respond

\* a result is sent to the waiter, or to all, or dropped
LEMMA SendFacts ==
  ASSUME NEW n, NEW r, Send(n, r)
  PROVE  \/ /\ n # 0 /\ chan[n] = NoResult
            /\ chan' = [chan EXCEPT ![n] = r] /\ UNCHANGED results
         \/ Len(results) < ResultsCap /\ results' = Append(results, r) /\ UNCHANGED chan
         \/ ~(Len(results) < ResultsCap) /\ UNCHANGED <<results, chan>>
BY DEF Send


-----------------------------------------------------------------------------
(* Types.                                                                  *)

USE DEF session, callers, wire, history, bounds, vars

LEMMA CallerFacts ==
  ASSUME Basic, NEW c \in Callers, pc[c] # "idle"
  PROVE  /\ cur[c] \in Issued /\ cur[c] \in Calls /\ cur[c] # 0
         /\ kind[cur[c]] \in Kinds /\ IdOf(cur[c]) \in 1..Snapshot
         /\ IdOf(cur[c]) = CommandID(kind[cur[c]], cur[c])
<1>1. cur[c] \in Issued /\ calls \in 0..MaxCalls
  BY DEF Basic, CallInv, TypeOK, HistoryType
<1>2. cur[c] \in Calls /\ ~(cur[c] > calls)
  BY <1>1 DEF Issued, Calls
<1>3. kind[cur[c]] \in Kinds
  BY <1>2 DEF Basic, CallInv, TypeOK, HistoryType
<1>4. CommandID(kind[cur[c]], cur[c]) \in 1..Snapshot
  BY <1>2, <1>3, TaskTypes
<1> QED BY <1>1, <1>2, <1>3, <1>4 DEF IdOf, Calls

LEMMA CallFacts ==
  ASSUME Basic, NEW c \in Callers, NEW k \in Kinds, Call(c, k)
  PROVE  /\ calls + 1 \in Calls /\ calls' = calls + 1 /\ pc[c] = "idle"
         /\ TaskOf(k, calls + 1) \in Tasks /\ k # "none"
         /\ kind[calls + 1] = "none" /\ Issued' = Issued \cup {calls + 1}
         /\ calls + 1 \notin Issued
         /\ kind'[calls + 1] = k
         /\ \A n \in Calls : n # calls + 1 => kind'[n] = kind[n]
         /\ \A n \in Issued : n \in Calls /\ kind'[n] = kind[n]
<1>1. calls \in 0..MaxCalls /\ calls + 1 \in Calls /\ calls' = calls + 1
      /\ kind \in [Calls -> Kinds \cup {"none"}]
  BY DEF Call, Basic, TypeOK, HistoryType, Calls
<1>2. kind' = [kind EXCEPT ![calls + 1] = k] /\ pc[c] = "idle"
  BY DEF Call
<1>3. kind[calls + 1] = "none"
  BY <1>1 DEF Basic, CallInv
<1>4. k # "none"
  OBVIOUS
<1> QED BY <1>1, <1>2, <1>3, <1>4, TaskTypes DEF Issued, Calls

LEMMA ArrivesFacts ==
  ASSUME TypeOK, NEW m, NEW live \in BOOLEAN, Arrives(m, live)
  PROVE  /\ m \in Messages /\ handling.msg = NoMessage
         /\ post' \in Messages /\ late' \subseteq Messages
         /\ \/ live /\ post = m /\ m # NoMessage /\ post' = NoMessage /\ UNCHANGED late
            \/ ~live /\ m \in late /\ late' = late \ {m} /\ UNCHANGED post
BY ResultTypes DEF Arrives, TypeOK, WireType

\* what a handler does to the queue, the task in flight and the device
LEMMA NextTaskType ==
  ASSUME TypeOK, NEW live \in BOOLEAN, NEW u \in Tasks, nextTask(live, u)
  PROVE  /\ taskQueue' \in Seq(Tasks) /\ Len(taskQueue') <= QueueCap
         /\ inflight' \in Tasks
         /\ cpe' \in [st : {"off", "ready", "wait", "exec"}, task : Tasks]
<1>1. taskQueue \in Seq(Tasks) /\ Len(taskQueue) <= QueueCap /\ NoTask \in Tasks
      /\ cpe \in [st : {"off", "ready", "wait", "exec"}, task : Tasks]
  BY TaskTypes DEF TypeOK, SessionType, WireType
<1>2. CASE taskQueue = << >>
  <2>1. taskQueue' = taskQueue /\ inflight' = u
    BY <1>1, <1>2, NextTaskFacts
  <2>2. cpe' = [st |-> "off", task |-> NoTask] \/ cpe' = cpe
    BY <1>1, <1>2, NextTaskFacts
  <2> QED BY <1>1, <2>1, <2>2
<1>3. CASE taskQueue # << >>
  <2>1. /\ Tail(taskQueue) \in Seq(Tasks) /\ Head(taskQueue) \in Tasks
        /\ Len(Tail(taskQueue)) <= QueueCap
    BY <1>1, <1>3, TailFacts
  <2> QED BY <1>1, <1>3, <2>1, NextTaskFacts
<1> QED BY <1>2, <1>3

LEMMA SendType ==
  ASSUME TypeOK, NEW n \in 0..MaxCalls, NEW r \in Results, Send(n, r)
  PROVE  /\ results' \in Seq(Results) /\ Len(results') <= ResultsCap
         /\ chan' \in [Calls -> Results]
<1>1. /\ results \in Seq(Results) /\ Len(results) <= ResultsCap
      /\ chan \in [Calls -> Results] /\ Len(results) \in Nat
  BY LenProperties DEF TypeOK, SessionType
<1>2. CASE n # 0 /\ chan' = [chan EXCEPT ![n] = r] /\ UNCHANGED results
  BY <1>1, <1>2
<1>3. CASE Len(results) < ResultsCap /\ results' = Append(results, r) /\ UNCHANGED chan
  BY <1>1, <1>3, AppendFacts
<1> QED BY <1>1, <1>2, <1>3, SendFacts


LEMMA CallerTypes ==
  ASSUME Basic, NEW c \in Callers,
         \/ \E k \in Kinds : Call(c, k)
         \/ Register(c) \/ TakeMine(c) \/ TakeShared(c) \/ TakeForeign(c)
         \/ PutBack(c) \/ Timeout(c)
  PROVE  TypeOK'
<1>1. TypeOK /\ SessionType /\ CallerType /\ WireType /\ HistoryType
  BY DEF Basic, TypeOK
<1>2. ASSUME NEW k \in Kinds, Call(c, k) PROVE TypeOK'
  <2>1. /\ taskQueue' = enqueue(taskQueue, TaskOf(k, calls + 1))
        /\ dropped' \in {dropped \cup {calls + 1}, dropped}
        /\ calls + 1 \in Calls /\ TaskOf(k, calls + 1) \in Tasks
    BY <1>2, CallFacts DEF Call
  <2>2. SessionType'
    <3>1. taskQueue' \in Seq(Tasks) /\ Len(taskQueue') <= QueueCap
      BY <1>1, <2>1, EnqueueFacts DEF SessionType
    <3> QED BY <1>1, <1>2, <3>1 DEF Call, SessionType
  <2>3. CallerType'
    BY <1>1, <1>2, <2>1 DEF Call, CallerType, Calls
  <2>4. HistoryType'
    <3>1. kind' \in [Calls -> Kinds \cup {"none"}] /\ calls' \in 0..MaxCalls
      BY <1>1, <1>2, <2>1 DEF Call, HistoryType, Calls
    <3>2. dropped' \subseteq Calls
      BY <1>1, <2>1 DEF HistoryType
    <3> QED BY <1>1, <1>2, <3>1, <3>2 DEF Call, HistoryType
  <2> QED BY <1>1, <1>2, <2>2, <2>3, <2>4 DEF Call, TypeOK, WireType
<1>3. CASE Register(c)
  <2>1. SessionType'
    BY <1>1, <1>3, CallerFacts DEF Register, SessionType, CallerType
  <2>2. CallerType'
    BY <1>1, <1>3 DEF Register, CallerType
  <2> QED BY <1>1, <1>3, <2>1, <2>2 DEF Register, TypeOK, WireType, HistoryType
<1>4. ASSUME Release(c), pc[c] # "idle"
      PROVE  /\ waiters' \in [1..Snapshot -> 0..MaxCalls]
             /\ pc' \in [Callers -> {"idle", "queued", "waiting", "passing"}]
             /\ cur' \in [Callers -> 0..MaxCalls]
  BY <1>1, <1>4, CallerFacts DEF Release, SessionType, CallerType
<1>5. ASSUME TakeMine(c) PROVE TypeOK'
  <2>1. cur[c] \in Calls /\ Release(c)
    BY <1>5, CallerFacts DEF TakeMine, Return
  <2>2. SessionType'
    BY <1>1, <1>4, <1>5, <2>1, ResultTypes DEF TakeMine, SessionType
  <2>3. CallerType'
    BY <1>1, <1>4, <1>5, <2>1 DEF TakeMine, CallerType
  <2>4. HistoryType'
    BY <1>1, <1>5, <2>1 DEF TakeMine, Return, HistoryType, SessionType
  <2> QED BY <1>1, <1>5, <2>2, <2>3, <2>4 DEF TakeMine, TypeOK, WireType
<1>6. ASSUME TakeShared(c) PROVE TypeOK'
  <2>1. cur[c] \in Calls /\ Release(c)
    BY <1>6, CallerFacts DEF TakeShared, Return
  <2>2. /\ Tail(results) \in Seq(Results) /\ Head(results) \in Results
        /\ Len(Tail(results)) <= ResultsCap
    BY <1>1, <1>6, TailFacts DEF TakeShared, SessionType
  <2>3. SessionType'
    BY <1>1, <1>4, <1>6, <2>1, <2>2 DEF TakeShared, SessionType
  <2>4. CallerType'
    BY <1>1, <1>4, <1>6, <2>1 DEF TakeShared, CallerType
  <2>5. HistoryType'
    BY <1>1, <1>6, <2>1, <2>2 DEF TakeShared, Return, HistoryType
  <2> QED BY <1>1, <1>6, <2>3, <2>4, <2>5 DEF TakeShared, TypeOK, WireType
<1>7. ASSUME TakeForeign(c) PROVE TypeOK'
  <2>1. /\ Tail(results) \in Seq(Results) /\ Head(results) \in Results
        /\ Len(Tail(results)) <= ResultsCap /\ Head(results).cid # 0
    BY <1>1, <1>7, TailFacts DEF TakeForeign, SessionType, Basic, ResultInv
  <2>2. Head(results).cid \in 1..Snapshot
    BY <2>1 DEF Results, CommandIDs, Snapshot
  <2>3. waiters[Head(results).cid] \in 0..MaxCalls
    BY <1>1, <2>2 DEF SessionType
  <2>4. SessionType'
    BY <1>1, <1>7, <2>1 DEF TakeForeign, SessionType
  <2>5. CallerType'
    BY <1>1, <1>7, <2>1, <2>3 DEF TakeForeign, CallerType
  <2> QED BY <1>1, <1>7, <2>4, <2>5 DEF TakeForeign, TypeOK, WireType, HistoryType
<1>8. ASSUME PutBack(c) PROVE TypeOK'
  <2>1. found[c] \in 0..MaxCalls /\ held[c] \in Results /\ Send(found[c], held[c])
    BY <1>1, <1>8 DEF PutBack, PassOn, CallerType
  <2>2. /\ results' \in Seq(Results) /\ Len(results') <= ResultsCap
        /\ chan' \in [Calls -> Results]
    BY <1>1, <2>1, SendType
  <2>3. SessionType'
    BY <1>1, <1>8, <2>2 DEF PutBack, SessionType
  <2>4. CallerType'
    BY <1>1, <1>8, ResultTypes DEF PutBack, CallerType
  <2> QED BY <1>1, <1>8, <2>3, <2>4 DEF PutBack, TypeOK, WireType, HistoryType
<1>9. ASSUME Timeout(c) PROVE TypeOK'
  <2>1. SessionType'
    BY <1>1, <1>4, <1>9 DEF Timeout, SessionType
  <2>2. CallerType'
    BY <1>1, <1>4, <1>9 DEF Timeout, CallerType
  <2> QED BY <1>1, <1>9, <2>1, <2>2 DEF Timeout, TypeOK, WireType, HistoryType
<1> QED BY <1>2, <1>3, <1>5, <1>6, <1>7, <1>8, <1>9

LEMMA HandlerTypes ==
  ASSUME Basic, NEW m, NEW live \in BOOLEAN,
         \/ onInform(m, live) \/ onEmptyPost(m, live)
         \/ onAnswerUnawaited(m, live) \/ onAnswer(m, live)
  PROVE  TypeOK'
<1>1. TypeOK /\ SessionType /\ CallerType /\ WireType /\ HistoryType
  BY DEF Basic, TypeOK
<1>2. Arrives(m, live)
  BY DEF onInform, onEmptyPost, onAnswerUnawaited, onAnswer
<1>3. m \in Messages /\ post' \in Messages /\ late' \subseteq Messages
  BY <1>1, <1>2, ArrivesFacts
<1>4. CallerType'
  BY <1>1 DEF CallerType, onInform, onEmptyPost, onAnswerUnawaited, onAnswer
<1>5. ASSUME SaveWritability(m)
      PROVE  loaded' \in BOOLEAN /\ faults' \in 0..MaxFaults
  <2>1. loaded' \in {loaded, TRUE}
    BY <1>5 DEF SaveWritability
  <2>2. faults' \in {faults, faults + 1} /\ (faults' = faults \/ faults < MaxFaults)
    BY <1>5 DEF SaveWritability
  <2>3. loaded' \in BOOLEAN
    BY <1>1, <2>1, Zenon DEF SessionType
  <2> QED BY <1>1, <2>2, <2>3 DEF TypeOK
<1>6. CASE onInform(m, live)
  <2>1. cpe' \in [st : {"off", "ready", "wait", "exec"}, task : Tasks]
    <3>1. cpe' = cpe \/ cpe' = [st |-> "ready", task |-> NoTask]
      BY <1>6 DEF onInform, Respond
    <3> QED BY <1>1, <3>1, TaskTypes DEF WireType
  <2>2. SessionType'
    BY <1>1, <1>6, InformQueue, TaskTypes DEF onInform, SessionType
  <2>3. HistoryType'
    <3>1. inflight.call \in 0..MaxCalls
      BY <1>1 DEF SessionType, Tasks
    <3>2. {inflight.call} \ {0} \subseteq Calls
      BY <3>1 DEF Calls
    <3> QED BY <1>1, <1>6, <3>2 DEF onInform, HistoryType
  <2> QED BY <1>1, <1>3, <1>4, <1>6, <2>1, <2>2, <2>3 DEF onInform, TypeOK, WireType
<1>7. CASE onEmptyPost(m, live)
  <2>1. /\ taskQueue' \in Seq(Tasks) /\ Len(taskQueue') <= QueueCap
        /\ inflight' \in Tasks
        /\ cpe' \in [st : {"off", "ready", "wait", "exec"}, task : Tasks]
    BY <1>1, <1>7, NextTaskType DEF onEmptyPost, SessionType
  <2>2. SessionType'
    BY <1>1, <1>7, <2>1 DEF onEmptyPost, SessionType
  <2> QED BY <1>1, <1>3, <1>4, <1>7, <2>1, <2>2
          DEF onEmptyPost, TypeOK, WireType, HistoryType
<1>8. CASE onAnswerUnawaited(m, live)
  <2>1. /\ taskQueue' \in Seq(Tasks) /\ Len(taskQueue') <= QueueCap
        /\ inflight' \in Tasks
        /\ cpe' \in [st : {"off", "ready", "wait", "exec"}, task : Tasks]
    <3>1. CASE nextTask(live, NoTask)
      BY <1>1, <3>1, NextTaskType, TaskTypes
    <3>2. CASE Respond(live, "off", NoTask) /\ UNCHANGED <<taskQueue, inflight>>
      <4>1. cpe' = cpe \/ cpe' = [st |-> "off", task |-> NoTask]
        BY <3>2 DEF Respond
      <4> QED BY <1>1, <3>2, <4>1, TaskTypes DEF SessionType, WireType
    <3> QED BY <1>8, <3>1, <3>2 DEF onAnswerUnawaited
  <2>2. SessionType'
    BY <1>1, <1>5, <1>8, <2>1 DEF onAnswerUnawaited, SessionType
  <2> QED BY <1>1, <1>3, <1>4, <1>5, <1>8, <2>1, <2>2
          DEF onAnswerUnawaited, TypeOK, WireType, HistoryType
<1>9. CASE onAnswer(m, live)
  <2>1. inflight.cid \in 1..Snapshot
    BY <1>1, <1>9 DEF onAnswer, SessionType, Tasks, CommandIDs, Snapshot
  <2>2. target' \in 0..MaxCalls
    BY <1>1, <1>9, <2>1 DEF onAnswer, SessionType
  <2>3. handling' \in [msg : Messages, live : BOOLEAN]
    BY <1>3, <1>9 DEF onAnswer
  <2>4. SessionType'
    BY <1>1, <1>5, <1>9, <2>2, <2>3 DEF onAnswer, SessionType
  <2> QED BY <1>1, <1>3, <1>4, <1>5, <1>9, <2>4
          DEF onAnswer, TypeOK, WireType, HistoryType
<1> QED BY <1>6, <1>7, <1>8, <1>9


LEMMA TypeInit == Init => TypeOK
<1> SUFFICES ASSUME Init PROVE TypeOK
  OBVIOUS
<1>1. /\ << >> \in Seq(Tasks) /\ Len(<< >>) = 0 /\ << >> \in Seq(Results)
      /\ QueueCap \in Nat /\ ResultsCap \in Nat
  BY EmptySeq
<1>2. handling \in [msg : Messages, live : BOOLEAN]
  BY ResultTypes, Zenon DEF Init
<1>3. loaded \in BOOLEAN
  BY Zenon DEF Init
<1>4. SessionType
  BY <1>1, <1>2, <1>3, TaskTypes, ResultTypes DEF Init, SessionType
<1>5. CallerType
  BY ResultTypes DEF Init, CallerType
<1>6. WireType
  BY TaskTypes, ResultTypes DEF Init, WireType
<1>7. HistoryType
  BY ResultTypes DEF Init, HistoryType
<1> QED BY <1>4, <1>5, <1>6, <1>7 DEF Init, TypeOK

LEMMA AnswerType ==
  ASSUME TypeOK, NEW kd \in {"answer", "fault"}
  PROVE  Answer(kd) \in Messages
BY DEF TypeOK, WireType, Answer, Messages, Tasks

\* what finishInflight delivers
LEMMA FinishResult ==
  ASSUME TypeOK
  PROVE  /\ handling.live \in BOOLEAN /\ target \in 0..MaxCalls
         /\ [cid |-> inflight.cid, from |-> handling.msg.from,
             err |-> handling.msg.kind = "fault"] \in Results
<1>1. handling.live \in BOOLEAN /\ target \in 0..MaxCalls
  BY Zenon DEF TypeOK, SessionType
<1>2. inflight.cid \in CommandIDs /\ handling.msg.from \in 0..MaxCalls
  BY DEF TypeOK, SessionType, Tasks, Messages
<1>3. (handling.msg.kind = "fault") \in BOOLEAN
  OBVIOUS
<1>4. [cid |-> inflight.cid, from |-> handling.msg.from,
       err |-> handling.msg.kind = "fault"] \in Results
  BY <1>2, <1>3, Zenon DEF Results
<1> QED BY <1>1, <1>4

LEMMA TypeStep == Basic /\ [Next]_vars => TypeOK'
<1> SUFFICES ASSUME Basic, [Next]_vars PROVE TypeOK'
  OBVIOUS
<1>1. TypeOK /\ SessionType /\ CallerType /\ WireType /\ HistoryType
  BY DEF Basic, TypeOK
<1>2. CASE Refresh
  <2>1. Background("gpv") \in Tasks
    BY TaskTypes DEF Types
  <2>2. SessionType'
    BY <1>1, <1>2, <2>1, EnqueueFacts DEF Refresh, SessionType
  <2> QED BY <1>1, <1>2, <2>2 DEF Refresh, TypeOK, CallerType, WireType, HistoryType
<1>3. CASE finishInflight
  <2>1. handling.live \in BOOLEAN /\ target \in 0..MaxCalls
    BY <1>1, FinishResult
  <2> DEFINE r == [cid |-> inflight.cid, from |-> handling.msg.from,
                   err |-> handling.msg.kind = "fault"]
  <2>2. r \in Results
    BY <1>1, FinishResult
  <2>3. Send(target, r) /\ nextTask(handling.live, NoTask)
    BY <1>3 DEF finishInflight
  <2> HIDE DEF r
  <2>4. /\ results' \in Seq(Results) /\ Len(results') <= ResultsCap
        /\ chan' \in [Calls -> Results]
    BY <1>1, <2>1, <2>2, <2>3, SendType
  <2>5. /\ taskQueue' \in Seq(Tasks) /\ Len(taskQueue') <= QueueCap
        /\ inflight' \in Tasks
        /\ cpe' \in [st : {"off", "ready", "wait", "exec"}, task : Tasks]
    BY <1>1, <2>1, <2>3, TaskTypes, NextTaskType
  <2>6. handling' \in [msg : Messages, live : BOOLEAN] /\ target' = 0
    BY <1>3, ResultTypes, Zenon DEF finishInflight
  <2>7. SessionType'
    BY <1>1, <1>3, <2>4, <2>5, <2>6 DEF finishInflight, SessionType
  <2> QED BY <1>1, <1>3, <2>5, <2>7
          DEF finishInflight, TypeOK, CallerType, WireType, HistoryType
<1>4. CASE Inform \/ EmptyPost
  <2>1. /\ [NoMessage EXCEPT !.kind = "inform"] \in Messages
        /\ [NoMessage EXCEPT !.kind = "empty"] \in Messages
    BY DEF NoMessage, Messages, Types
  <2>2. WireType'
    BY <1>1, <1>4, <2>1, TaskTypes DEF Inform, EmptyPost, Posted, WireType
  <2> QED BY <1>1, <1>4, <2>2
          DEF Inform, EmptyPost, TypeOK, SessionType, CallerType, HistoryType
<1>5. CASE Execute \/ Refuse
  <2>1. post' \in Messages /\ cpe' = [st |-> "wait", task |-> NoTask]
    BY <1>1, <1>5, AnswerType DEF Execute, Refuse, Posted
  <2>2. WireType'
    BY <1>1, <1>5, <2>1, TaskTypes DEF Execute, Refuse, WireType
  <2>3. {cpe.task.call} \ {0} \subseteq Calls
    BY <1>1 DEF WireType, Tasks, Calls
  <2>4. HistoryType'
    BY <1>1, <1>5, <2>3 DEF Execute, Refuse, HistoryType
  <2>5. faults' \in 0..MaxFaults /\ UNCHANGED <<refreshes, drops, lates>>
    BY <1>1, <1>5 DEF Execute, Refuse, TypeOK
  <2> QED BY <1>1, <1>5, <2>2, <2>4, <2>5
          DEF Execute, Refuse, TypeOK, SessionType, CallerType
<1>6. CASE Abandon
  <2>1. handling' \in [msg : Messages, live : BOOLEAN]
    BY <1>1, <1>6, Zenon DEF Abandon, SessionType
  <2>2. SessionType'
    BY <1>1, <1>6, <2>1 DEF Abandon, SessionType
  <2>3. WireType'
    BY <1>1, <1>6, TaskTypes, ResultTypes DEF Abandon, WireType
  <2>4. drops' \in 0..MaxDrops /\ lates' \in 0..MaxLate
    BY <1>1, <1>6 DEF Abandon, TypeOK
  <2> QED BY <1>1, <1>6, <2>2, <2>3, <2>4 DEF Abandon, TypeOK, CallerType, HistoryType
<1>7. CASE UNCHANGED vars
  BY <1>1, <1>7 DEF TypeOK, SessionType, CallerType, WireType, HistoryType
<1> QED BY <1>2, <1>3, <1>4, <1>5, <1>6, <1>7, NextCases, CallerTypes, HandlerTypes


-----------------------------------------------------------------------------
(* The calls.                                                              *)

\* handlers and the device leave the callers alone
LEMMA CallersQuiet ==
  ASSUME \/ Refresh \/ finishInflight
         \/ \E m \in {post} \cup late, live \in BOOLEAN :
              \/ onInform(m, live) \/ onEmptyPost(m, live)
              \/ onAnswerUnawaited(m, live) \/ onAnswer(m, live)
         \/ Inform \/ EmptyPost \/ Execute \/ Refuse \/ Abandon
         \/ UNCHANGED vars
  PROVE  /\ UNCHANGED <<callers, waiters, calls, kind, got>>
         /\ Execute \/ UNCHANGED <<executed, repeated>>
BY DEF Refresh, finishInflight, onInform, onEmptyPost, onAnswerUnawaited, onAnswer,
       Inform, EmptyPost, Execute, Refuse, Abandon

\* callers leave the device and the task in flight alone
LEMMA DeviceUntouched ==
  ASSUME NEW c \in Callers,
         \/ \E k \in Kinds : Call(c, k)
         \/ Register(c) \/ TakeMine(c) \/ TakeShared(c) \/ TakeForeign(c)
         \/ PutBack(c) \/ Timeout(c)
  PROVE  /\ UNCHANGED <<inflight, handling, target, loaded, wire, executed,
                        repeated, bounds>>
         /\ \/ \E k \in Kinds : Call(c, k)
            \/ UNCHANGED <<taskQueue, calls, kind, dropped>>
BY DEF Call, Register, TakeMine, TakeShared, TakeForeign, PutBack, Timeout

\* the calls that were issued stay what they are
LEMMA KindFixed ==
  ASSUME Basic, [Next]_vars
  PROVE  /\ Issued \subseteq Issued'
         /\ \A n \in Issued : n \in Calls /\ n # 0 /\ kind'[n] = kind[n] /\ IdOf(n)' = IdOf(n)
<1>1. calls \in 0..MaxCalls
  BY DEF Basic, TypeOK, HistoryType
<1>2. CASE \E c \in Callers, k \in Kinds : Call(c, k)
  <2>1. Issued \subseteq Issued' /\ \A n \in Issued : n \in Calls /\ kind'[n] = kind[n]
    BY <1>2, CallFacts
  <2> QED BY <1>1, <2>1 DEF IdOf, Calls
<1>3. CASE UNCHANGED <<calls, kind>>
  BY <1>1, <1>3 DEF Issued, IdOf, Calls
<1> QED BY <1>2, <1>3, NextCases, CallersQuiet, DeviceUntouched

LEMMA CallInit == Init => CallInv
<1>1. ASSUME NEW n \in Calls PROVE n > 0
  BY <1>1 DEF Calls
<1> QED BY <1>1 DEF Init, CallInv

LEMMA ReleaseStep ==
  ASSUME Basic, NEW c \in Callers, pc[c] = "waiting", Release(c),
         UNCHANGED <<held, found, calls, kind, executed>>
  PROVE  CallInv'
<1>1. /\ \A d \in Callers : d # c => pc'[d] = pc[d] /\ cur'[d] = cur[d]
      /\ pc'[c] = "idle" /\ cur'[c] = 0
  BY DEF Release, Basic, TypeOK, CallerType
<1>2. CallInv /\ 0 \notin Issued
  BY DEF Basic, Issued
<1>3. \A d \in Callers : IF pc'[d] = "idle" THEN cur'[d] = 0 ELSE cur'[d] \in Issued'
  BY <1>1, <1>2 DEF CallInv, Issued
<1>4. \A d, e \in Callers : pc'[d] # "idle" /\ cur'[d] = cur'[e] => d = e
  BY <1>1, <1>2, <1>3 DEF CallInv
<1>5. \A d \in Callers : (pc'[d] # "idle" /\ kind'[cur'[d]] = "snapshot") =>
        \A n \in Calls : kind'[n] = "snapshot" => n <= cur'[d]
  BY <1>1, <1>2 DEF CallInv
<1>6. \A d \in Callers : pc'[d] # "passing" => held'[d] = NoResult /\ found'[d] = 0
  BY <1>1, <1>2 DEF CallInv
<1> QED BY <1>2, <1>3, <1>4, <1>5, <1>6 DEF CallInv, Issued

LEMMA CallStep == Basic /\ [Next]_vars => CallInv'
<1> SUFFICES ASSUME Basic, [Next]_vars PROVE CallInv'
  OBVIOUS
<1>1. CallInv /\ CallerType /\ calls \in 0..MaxCalls /\ 0 \notin Issued
  BY DEF Basic, TypeOK, HistoryType, Issued
<1>2. ASSUME NEW c \in Callers, NEW k \in Kinds, Call(c, k) PROVE CallInv'
  <2> DEFINE n == calls + 1
  <2>1. /\ n \in Calls /\ calls' = n /\ kind'[n] = k /\ k # "none" /\ n \notin Issued
        /\ Issued' = Issued \cup {n} /\ pc[c] = "idle"
        /\ \A i \in Calls : i # n => kind'[i] = kind[i]
        /\ \A i \in Issued : i \in Calls /\ kind'[i] = kind[i]
    BY <1>2, CallFacts
  <2>2. /\ \A d \in Callers : d # c => pc'[d] = pc[d] /\ cur'[d] = cur[d]
        /\ pc'[c] = "queued" /\ cur'[c] = n
    BY <1>1, <1>2 DEF Call, CallerType
  <2>3. \A i \in Calls : kind'[i] = "none" <=> i > calls'
    BY <1>1, <2>1 DEF CallInv, Calls
  <2>4. \A d \in Callers : IF pc'[d] = "idle" THEN cur'[d] = 0 ELSE cur'[d] \in Issued'
    BY <1>1, <2>1, <2>2 DEF CallInv
  <2>5. \A d, e \in Callers : pc'[d] # "idle" /\ cur'[d] = cur'[e] => d = e
    <3>1. \A d \in Callers : d # c => cur'[d] # n
      BY <1>1, <2>1, <2>2 DEF CallInv, Calls
    <3> QED BY <1>1, <2>2, <3>1 DEF CallInv
  <2>6. ASSUME NEW d \in Callers, pc'[d] # "idle", kind'[cur'[d]] = "snapshot",
               NEW i \in Calls, kind'[i] = "snapshot"
        PROVE  i <= cur'[d]
    <3>1. CASE d = c
      BY <1>1, <2>1, <2>2, <2>3, <2>6, <3>1 DEF Calls
    <3>2. CASE d # c
      <4>1. cur[d] \in Issued /\ cur[d] \in Calls /\ kind[cur[d]] = "snapshot"
        BY <1>1, <2>1, <2>2, <2>6, <3>2 DEF CallInv
      <4>2. k # "snapshot"
        BY <1>2, <4>1 DEF Call, Asks, Calls
      <4> QED BY <1>1, <2>1, <2>2, <2>6, <3>2, <4>1, <4>2 DEF CallInv
    <3> QED BY <3>1, <3>2
  <2>7. \A d \in Callers : pc'[d] # "passing" => held'[d] = NoResult /\ found'[d] = 0
    BY <1>1, <1>2, <2>1, <2>2 DEF CallInv, Call
  <2>8. executed' \subseteq Issued'
    BY <1>1, <1>2, <2>1 DEF CallInv, Call
  <2> QED BY <2>3, <2>4, <2>5, <2>6, <2>7, <2>8 DEF CallInv
<1>3. ASSUME NEW c \in Callers, Register(c) PROVE CallInv'
  <2>1. /\ \A d \in Callers : d # c => pc'[d] = pc[d]
        /\ pc'[c] = "waiting" /\ pc[c] = "queued"
        /\ UNCHANGED <<cur, kind, calls, held, found, executed>>
    BY <1>1, <1>3 DEF Register, CallerType
  <2> QED BY <1>1, <2>1 DEF CallInv, Issued
<1>4. ASSUME NEW c \in Callers, TakeMine(c) \/ TakeShared(c) \/ Timeout(c)
      PROVE  CallInv'
  BY <1>4, ReleaseStep DEF TakeMine, TakeShared, Timeout, Return
<1>5. ASSUME NEW c \in Callers, TakeForeign(c) \/ PutBack(c) PROVE CallInv'
  <2>1. /\ \A d \in Callers : d # c =>
             pc'[d] = pc[d] /\ held'[d] = held[d] /\ found'[d] = found[d]
        /\ pc'[c] # "idle" /\ pc[c] # "idle"
        /\ pc'[c] # "passing" => held'[c] = NoResult /\ found'[c] = 0
        /\ UNCHANGED <<cur, kind, calls, executed>>
    BY <1>1, <1>5 DEF TakeForeign, PutBack, CallerType
  <2> QED BY <1>1, <2>1 DEF CallInv, Issued
<1>6. CASE Execute
  <2>1. cpe.task.call = 0 \/ cpe.task.call \in Issued
    BY DEF Basic, TaskInv, KnownTasks
  <2>2. executed' \subseteq Issued /\ UNCHANGED <<pc, cur, held, found, kind, calls>>
    BY <1>1, <1>6, <2>1 DEF Execute, CallInv
  <2> QED BY <1>1, <2>2 DEF CallInv, Issued
<1>7. CASE UNCHANGED <<pc, cur, held, found, kind, calls, executed>>
  BY <1>1, <1>7 DEF CallInv, Issued
<1> QED BY <1>2, <1>3, <1>4, <1>5, <1>6, <1>7, NextCases, CallersQuiet


-----------------------------------------------------------------------------
(* The tasks.                                                              *)

LEMMA TaskInit == Init => TaskInv
BY ResultTypes, TaskTypes DEF Init, TaskInv, KnownTasks

LEMMA EnqueueStep ==
  ASSUME TypeOK, NEW t \in Tasks, taskQueue' = enqueue(taskQueue, t)
  PROVE  /\ \A i \in DOMAIN taskQueue :
              i \in DOMAIN taskQueue' /\ taskQueue'[i] = taskQueue[i]
         /\ \A i \in DOMAIN taskQueue' :
              \/ i \in DOMAIN taskQueue /\ taskQueue'[i] = taskQueue[i]
              \/ i = Len(taskQueue) + 1 /\ taskQueue'[i] = t
         /\ ~Full(taskQueue) => /\ Len(taskQueue) + 1 \in DOMAIN taskQueue'
                               /\ taskQueue'[Len(taskQueue) + 1] = t
<1>1. taskQueue \in Seq(Tasks) /\ Len(taskQueue) <= QueueCap
  BY DEF TypeOK, SessionType
<1>2. \A i \in DOMAIN taskQueue :
        i \in DOMAIN taskQueue' /\ taskQueue'[i] = taskQueue[i]
  BY <1>1, EnqueueFacts
<1>3. \A i \in DOMAIN taskQueue' :
        i \in DOMAIN taskQueue \/ (i = Len(taskQueue) + 1 /\ taskQueue'[i] = t)
  BY <1>1, EnqueueFacts
<1>4. ~Full(taskQueue) => /\ Len(taskQueue) + 1 \in DOMAIN taskQueue'
                          /\ taskQueue'[Len(taskQueue) + 1] = t
  BY <1>1, EnqueueFacts DEF Full
<1> QED BY <1>2, <1>3, <1>4

LEMMA InformStep ==
  ASSUME TypeOK, NEW m, NEW live, onInform(m, live)
  PROVE  /\ \A i \in DOMAIN taskQueue :
              i \in DOMAIN taskQueue' /\ taskQueue'[i] = taskQueue[i]
         /\ \A i \in DOMAIN taskQueue' :
              /\ taskQueue'[i] \in Tasks
              /\ \/ i \in DOMAIN taskQueue
                 \/ /\ i = Len(taskQueue) + 1 /\ taskQueue'[i] = inflight
                    /\ Retried(inflight)
                 \/ taskQueue'[i] \in Reads
         /\ (Retried(inflight) /\ ~Full(taskQueue)) =>
              /\ Len(taskQueue) + 1 \in DOMAIN taskQueue'
              /\ taskQueue'[Len(taskQueue) + 1] = inflight
<1>1. taskQueue' = FirstReads(requeueOrphanedTask(taskQueue, inflight))
  BY DEF onInform
<1>2. taskQueue \in Seq(Tasks) /\ Len(taskQueue) <= QueueCap /\ inflight \in Tasks
  BY DEF TypeOK, SessionType
<1>3. taskQueue' \in Seq(Tasks)
  BY <1>1, <1>2, InformQueue
<1>4. \A i \in DOMAIN taskQueue' : taskQueue'[i] \in Tasks
  BY <1>3, ElementType
<1>5. \A i \in DOMAIN taskQueue :
        i \in DOMAIN taskQueue' /\ taskQueue'[i] = taskQueue[i]
  BY <1>1, <1>2, InformQueue DEF Retried, Full
<1>6. \A i \in DOMAIN taskQueue' :
        \/ i \in DOMAIN taskQueue
        \/ /\ i = Len(taskQueue) + 1 /\ taskQueue'[i] = inflight
           /\ Retried(inflight)
        \/ taskQueue'[i] \in Reads
  BY <1>1, <1>2, InformQueue DEF Retried
<1>7. (Retried(inflight) /\ ~Full(taskQueue)) =>
         /\ Len(taskQueue) + 1 \in DOMAIN taskQueue'
         /\ taskQueue'[Len(taskQueue) + 1] = inflight
  BY <1>1, <1>2, InformQueue DEF Retried, Full
<1> QED BY <1>4, <1>5, <1>6, <1>7

\* The tasks after a step are tasks from before, or that of a new call, or
\* reads nobody waits for.
LEMMA TaskMoves ==
  ASSUME Basic, [Next]_vars
  PROVE  /\ \A i \in DOMAIN taskQueue' :
              \/ taskQueue'[i] \in KnownTasks
              \/ \E c \in Callers, k \in Kinds :
                   Call(c, k) /\ taskQueue'[i] = TaskOf(k, calls + 1)
         /\ inflight' \in KnownTasks /\ cpe'.task \in KnownTasks
         /\ cpe'.st # "exec" => cpe'.task = NoTask
<1>1. /\ TypeOK /\ taskQueue \in Seq(Tasks) /\ Len(taskQueue) <= QueueCap
      /\ inflight \in Tasks /\ NoTask \in KnownTasks
      /\ \A i \in DOMAIN taskQueue : taskQueue[i] \in KnownTasks
      /\ inflight \in KnownTasks /\ cpe.task \in KnownTasks
      /\ cpe.st # "exec" => cpe.task = NoTask
  BY ResultTypes, TaskTypes DEF Basic, TypeOK, SessionType, TaskInv, KnownTasks
<1>2. ASSUME NEW c \in Callers, NEW k \in Kinds, Call(c, k)
      PROVE  \A i \in DOMAIN taskQueue' :
               taskQueue'[i] \in KnownTasks \/ taskQueue'[i] = TaskOf(k, calls + 1)
  <2>1. TaskOf(k, calls + 1) \in Tasks /\ taskQueue' = enqueue(taskQueue, TaskOf(k, calls + 1))
    BY <1>2, CallFacts DEF Call
  <2> QED BY <1>1, <2>1, EnqueueFacts
<1>3. ASSUME Refresh PROVE \A i \in DOMAIN taskQueue' : taskQueue'[i] \in KnownTasks
  <2>1. /\ Background("gpv") \in Tasks /\ Background("gpv").call = 0
        /\ Background("gpv").cid = 0
    BY TaskTypes DEF Types, Background
  <2>2. taskQueue' = enqueue(taskQueue, Background("gpv")) /\ Background("gpv") \in KnownTasks
    BY <1>3, <2>1 DEF Refresh, KnownTasks
  <2>3. \A i \in DOMAIN taskQueue' :
          \/ i \in DOMAIN taskQueue /\ taskQueue'[i] = taskQueue[i]
          \/ taskQueue'[i] = Background("gpv")
    BY <1>1, <2>1, <2>2, EnqueueFacts
  <2> QED BY <1>1, <2>2, <2>3
<1>4. ASSUME NEW m, NEW live \in BOOLEAN, onInform(m, live)
      PROVE  /\ \A i \in DOMAIN taskQueue' : taskQueue'[i] \in KnownTasks
             /\ inflight' = NoTask /\ cpe' \in {cpe, [st |-> "ready", task |-> NoTask]}
  <2>1. \A i \in DOMAIN taskQueue' :
          \/ i \in DOMAIN taskQueue /\ taskQueue'[i] = taskQueue[i]
          \/ taskQueue'[i] = inflight
          \/ taskQueue'[i] \in Reads
    BY <1>1, <1>4, InformStep
  <2>2. \A i \in DOMAIN taskQueue' : taskQueue'[i] \in KnownTasks
    BY <1>1, <2>1 DEF KnownTasks, Reads
  <2> QED BY <1>4, <2>2, RespondFacts DEF onInform
<1>5. ASSUME NEW live \in BOOLEAN, NEW u, nextTask(live, u), u \in KnownTasks
      PROVE  /\ \A i \in DOMAIN taskQueue' : taskQueue'[i] \in KnownTasks
             /\ inflight' \in KnownTasks /\ cpe'.task \in KnownTasks
             /\ cpe'.st # "exec" => cpe'.task = NoTask
  <2>1. CASE taskQueue = << >>
    BY <1>1, <1>5, <2>1, NextTaskFacts
  <2>2. CASE taskQueue # << >>
    <3>1. /\ taskQueue' = Tail(taskQueue) /\ inflight' = taskQueue[1]
          /\ cpe' = [st |-> "exec", task |-> taskQueue[1]] \/ cpe' = cpe
      BY <1>1, <1>5, <2>2, NextTaskFacts, TailFacts
    <3>2. taskQueue[1] \in KnownTasks /\ \A i \in DOMAIN taskQueue' : taskQueue'[i] \in KnownTasks
      BY <1>1, <2>2, <3>1, TailFacts
    <3> QED BY <1>1, <3>1, <3>2
  <2> QED BY <2>1, <2>2
<1>6. ASSUME \/ finishInflight
             \/ \E m \in {post} \cup late, live \in BOOLEAN :
                  onEmptyPost(m, live) \/ onAnswerUnawaited(m, live)
      PROVE  \/ \E live \in BOOLEAN, u \in {inflight, NoTask} : nextTask(live, u)
             \/ /\ UNCHANGED <<taskQueue, inflight>>
                /\ cpe' \in {cpe, [st |-> "off", task |-> NoTask]}
  <2>1. handling.live \in BOOLEAN
    BY <1>1, Zenon DEF TypeOK, SessionType
  <2>2. CASE finishInflight
    BY <2>1, <2>2 DEF finishInflight
  <2>3. ASSUME NEW m, NEW live \in BOOLEAN, onEmptyPost(m, live)
        PROVE  nextTask(live, inflight)
    BY <2>3 DEF onEmptyPost
  <2>4. ASSUME NEW m, NEW live \in BOOLEAN, onAnswerUnawaited(m, live)
        PROVE  \/ nextTask(live, NoTask)
               \/ /\ UNCHANGED <<taskQueue, inflight>>
                  /\ cpe' \in {cpe, [st |-> "off", task |-> NoTask]}
    BY <2>4, RespondFacts DEF onAnswerUnawaited
  <2> QED BY <1>6, <2>2, <2>3, <2>4
<1>7. CASE \/ Inform \/ EmptyPost \/ Execute \/ Refuse \/ Abandon
  <2>1. UNCHANGED <<taskQueue, inflight>> /\ cpe'.task = NoTask
    BY <1>7 DEF Inform, EmptyPost, Execute, Refuse, Abandon, Posted
  <2> QED BY <1>1, <2>1
<1>8. ASSUME NEW c \in Callers,
             \/ Register(c) \/ TakeMine(c) \/ TakeShared(c) \/ TakeForeign(c)
             \/ PutBack(c) \/ Timeout(c)
      PROVE  UNCHANGED <<taskQueue, inflight, cpe>>
  BY <1>8 DEF Register, TakeMine, TakeShared, TakeForeign, PutBack, Timeout
<1>9. ASSUME \E m \in {post} \cup late, live \in BOOLEAN : onAnswer(m, live)
      PROVE  UNCHANGED <<taskQueue, inflight, cpe>>
  BY <1>9 DEF onAnswer
<1>10. CASE UNCHANGED <<taskQueue, inflight, cpe>>
  BY <1>1, <1>10
<1>11. CASE \E c \in Callers, k \in Kinds : Call(c, k)
  <2>1. UNCHANGED <<inflight, cpe>>
    BY <1>11, DeviceUntouched
  <2> QED BY <1>1, <1>2, <1>11, <2>1
<1>12. CASE Refresh
  BY <1>1, <1>3, <1>12 DEF Refresh
<1>13. CASE \E m \in {post} \cup late, live \in BOOLEAN : onInform(m, live)
  BY <1>1, <1>4, <1>13
<1>14. CASE \/ finishInflight
            \/ \E m \in {post} \cup late, live \in BOOLEAN :
                 onEmptyPost(m, live) \/ onAnswerUnawaited(m, live)
  BY <1>1, <1>5, <1>6, <1>14
<1> QED BY <1>7, <1>8, <1>9, <1>10, <1>11, <1>12, <1>13, <1>14, NextCases

\* the handler goes on with an abandoned request
LEMMA AbandonFacts ==
  ASSUME TypeOK, Abandon
  PROVE  handling'.msg = handling.msg /\ ~handling'.live
<1>1. handling \in [msg : Messages, live : BOOLEAN]
  BY DEF TypeOK, SessionType
<1>2. handling' = [handling EXCEPT !.live = FALSE]
  BY DEF Abandon
<1> QED BY <1>1, <1>2, Zenon

LEMMA TaskStep == Basic /\ [Next]_vars => TaskInv'
<1> SUFFICES ASSUME Basic, [Next]_vars PROVE TaskInv'
  OBVIOUS
<1>1. KnownTasks \subseteq KnownTasks'
  BY KindFixed DEF KnownTasks
<1>2. ASSUME NEW c \in Callers, NEW k \in Kinds, Call(c, k)
      PROVE  TaskOf(k, calls + 1) \in KnownTasks'
  <2> DEFINE n == calls + 1
  <2>1. n \in Calls /\ n \in Issued' /\ kind'[n] = k
    BY <1>2, CallFacts
  <2>2. TaskOf(k, n).call = n /\ TaskOf(k, n) \in Tasks
    BY <2>1, TaskTypes
  <2> QED BY <2>1, <2>2 DEF KnownTasks
<1>3. \A i \in DOMAIN taskQueue' : taskQueue'[i] \in KnownTasks'
  BY <1>1, <1>2, TaskMoves
<1>4. inflight' \in KnownTasks' /\ cpe'.task \in KnownTasks'
      /\ (cpe'.st # "exec" => cpe'.task = NoTask)
  BY <1>1, TaskMoves
<1>5. ASSUME handling'.msg # NoMessage PROVE inflight'.cid # 0
  <2>1. CASE UNCHANGED <<handling, inflight>> \/ Abandon
    BY <1>5, <2>1, AbandonFacts DEF Abandon, Basic, TaskInv
  <2>2. ASSUME NEW m, NEW live, onAnswer(m, live) PROVE inflight'.cid # 0
    BY <2>2 DEF onAnswer
  <2>3. ASSUME NEW m, NEW live,
               onInform(m, live) \/ onEmptyPost(m, live) \/ onAnswerUnawaited(m, live)
        PROVE  FALSE
    BY <1>5, <2>3 DEF onInform, onEmptyPost, onAnswerUnawaited, Arrives
  <2>4. CASE finishInflight
    BY <1>5, <2>4 DEF finishInflight
  <2>5. CASE Refresh \/ Inform \/ EmptyPost \/ Execute \/ Refuse \/ UNCHANGED vars
    BY <2>1, <2>5 DEF Refresh, Inform, EmptyPost, Execute, Refuse
  <2> QED BY <2>1, <2>2, <2>3, <2>4, <2>5, NextCases, DeviceUntouched
<1> QED BY <1>3, <1>4, <1>5 DEF TaskInv


-----------------------------------------------------------------------------
(* Waiters and results.                                                    *)

LEMMA WaiterInit == Init => WaiterInv
BY DEF Init, WaiterInv, WaitsFor

LEMMA WaiterStep == Basic /\ [Next]_vars => WaiterInv'
<1> SUFFICES ASSUME Basic, [Next]_vars PROVE WaiterInv'
  OBVIOUS
<1>1. /\ WaiterInv /\ TypeOK /\ SessionType /\ CallerType
      /\ \A n \in Issued : n \in Issued' /\ kind'[n] = kind[n]
  BY KindFixed DEF Basic, TypeOK
<1>2. \A id \in 1..Snapshot : WaitsFor(waiters[id], id)'
  <2>1. CASE UNCHANGED waiters
    BY <1>1, <2>1 DEF WaiterInv, WaitsFor, IdOf
  <2>2. ASSUME NEW c \in Callers, Register(c)
        PROVE  \A id \in 1..Snapshot : WaitsFor(waiters[id], id)'
    <3>1. /\ cur[c] \in Issued /\ IdOf(cur[c]) \in 1..Snapshot
          /\ IdOf(cur[c]) = CommandID(kind[cur[c]], cur[c])
          /\ waiters' = [waiters EXCEPT ![IdOf(cur[c])] = cur[c]]
      BY <2>2, CallerFacts DEF Register
    <3>2. ASSUME NEW id \in 1..Snapshot
          PROVE  waiters'[id] = waiters[id] \/ (waiters'[id] = cur[c] /\ id = IdOf(cur[c]))
      BY <1>1, <3>1 DEF SessionType
    <3> QED BY <1>1, <3>1, <3>2 DEF WaiterInv, WaitsFor, IdOf
  <2>3. ASSUME NEW c \in Callers, TakeMine(c) \/ TakeShared(c) \/ Timeout(c)
        PROVE  \A id \in 1..Snapshot : WaitsFor(waiters[id], id)'
    <3>1. ASSUME NEW id \in 1..Snapshot
          PROVE  waiters'[id] = waiters[id] \/ waiters'[id] = 0
      BY <1>1, <2>3 DEF TakeMine, TakeShared, Timeout, Return, Release, SessionType
    <3> QED BY <1>1, <3>1 DEF WaiterInv, WaitsFor, IdOf
  <2>4. ASSUME NEW c \in Callers, TakeForeign(c) \/ PutBack(c) \/ \E k \in Kinds : Call(c, k)
        PROVE  UNCHANGED waiters
    BY <2>4 DEF TakeForeign, PutBack, Call
  <2> QED BY <2>1, <2>2, <2>3, <2>4, NextCases, CallersQuiet
<1>3. WaitsFor(target, inflight.cid)' /\ (handling'.msg = NoMessage => target' = 0)
  <2>1. CASE UNCHANGED <<target, inflight, handling>> \/ Abandon
    BY <1>1, <2>1, AbandonFacts DEF Abandon, WaiterInv, WaitsFor, IdOf
  <2>2. target' = 0 => WaitsFor(target, inflight.cid)'
    BY DEF WaitsFor
  <2>3. ASSUME NEW m, NEW live \in BOOLEAN,
               onInform(m, live) \/ onEmptyPost(m, live) \/ onAnswerUnawaited(m, live)
        PROVE  target' = 0
    <3>1. handling.msg = NoMessage /\ target' = target
      BY <2>3 DEF onInform, onEmptyPost, onAnswerUnawaited, Arrives
    <3> QED BY <1>1, <3>1 DEF WaiterInv
  <2>4. CASE finishInflight
    BY <2>2, <2>4 DEF finishInflight
  <2>5. ASSUME NEW m \in {post} \cup late, NEW live \in BOOLEAN, onAnswer(m, live)
        PROVE  WaitsFor(target, inflight.cid)' /\ (handling'.msg = NoMessage => target' = 0)
    <3>1. /\ inflight' = inflight /\ target' = waiters[inflight.cid] /\ inflight.cid # 0
          /\ m.kind \in {"answer", "fault"}
      BY <2>5 DEF onAnswer
    <3>2. handling'.msg = m
      BY <2>5 DEF onAnswer
    <3>3. inflight.cid \in 1..Snapshot
      BY <1>1, <3>1 DEF SessionType, Tasks, CommandIDs, Snapshot
    <3>4. m # NoMessage
      BY <3>1 DEF NoMessage
    <3>5. WaitsFor(waiters[inflight.cid], inflight.cid)
      BY <1>1, <3>3 DEF WaiterInv
    <3> QED BY <1>1, <3>1, <3>2, <3>4, <3>5 DEF WaitsFor, IdOf
  <2>6. CASE Refresh \/ Inform \/ EmptyPost \/ Execute \/ Refuse \/ UNCHANGED vars
    BY <2>1, <2>6 DEF Refresh, Inform, EmptyPost, Execute, Refuse
  <2> QED BY <2>1, <2>2, <2>3, <2>4, <2>5, <2>6, NextCases, DeviceUntouched
<1>4. \A c \in Callers : WaitsFor(found[c], held[c].cid)'
  <2>1. CASE UNCHANGED <<found, held>>
    BY <1>1, <2>1 DEF WaiterInv, WaitsFor, IdOf
  <2>2. ASSUME NEW c \in Callers, TakeForeign(c)
        PROVE  \A d \in Callers : WaitsFor(found[d], held[d].cid)'
    <3>1. Head(results) \in Results /\ Head(results).cid # 0
      BY <1>1, <2>2, TailFacts DEF TakeForeign, SessionType, Basic, ResultInv
    <3>2. Head(results).cid \in 1..Snapshot
      BY <3>1 DEF Results, CommandIDs, Snapshot
    <3>3. found'[c] = waiters[Head(results).cid] /\ held'[c] = Head(results)
      BY <1>1, <2>2 DEF TakeForeign, CallerType
    <3>4. \A d \in Callers : d # c => found'[d] = found[d] /\ held'[d] = held[d]
      BY <1>1, <2>2 DEF TakeForeign, CallerType
    <3>5. WaitsFor(waiters[Head(results).cid], Head(results).cid)
      BY <1>1, <3>2 DEF WaiterInv
    <3>6. WaitsFor(found[c], held[c].cid)'
      BY <1>1, <3>3, <3>5 DEF WaitsFor, IdOf
    <3> QED BY <1>1, <3>4, <3>6 DEF WaiterInv, WaitsFor, IdOf
  <2>3. ASSUME NEW c \in Callers, PutBack(c)
        PROVE  \A d \in Callers : WaitsFor(found[d], held[d].cid)'
    <3>1. /\ found'[c] = 0
          /\ \A d \in Callers : d # c => found'[d] = found[d] /\ held'[d] = held[d]
      BY <1>1, <2>3 DEF PutBack, CallerType
    <3> QED BY <1>1, <3>1 DEF WaiterInv, WaitsFor, IdOf
  <2>4. ASSUME NEW c \in Callers,
               \/ \E k \in Kinds : Call(c, k)
               \/ Register(c) \/ TakeMine(c) \/ TakeShared(c) \/ Timeout(c)
        PROVE  UNCHANGED <<found, held>>
    BY <2>4 DEF Call, Register, TakeMine, TakeShared, Timeout
  <2> QED BY <2>1, <2>2, <2>3, <2>4, NextCases, CallersQuiet
<1> QED BY <1>2, <1>3, <1>4 DEF WaiterInv


LEMMA ResultInit == Init => ResultInv
BY DEF Init, ResultInv

LEMMA ResultStep == Basic /\ [Next]_vars => ResultInv'
<1> SUFFICES ASSUME Basic, [Next]_vars PROVE ResultInv'
  OBVIOUS
<1>1. /\ ResultInv /\ TypeOK /\ SessionType /\ CallerType
      /\ results \in Seq(Results)
      /\ \A n \in Issued : n \in Calls /\ n # 0 /\ n \in Issued' /\ kind'[n] = kind[n]
  BY KindFixed DEF Basic, TypeOK, SessionType
<1>2. ASSUME UNCHANGED results
      PROVE  \A i \in DOMAIN results' : results'[i].cid # 0
  BY <1>1, <1>2 DEF ResultInv
<1>3. ASSUME results # << >>, results' = Tail(results)
      PROVE  \A i \in DOMAIN results' : results'[i].cid # 0
  BY <1>1, <1>3, TailFacts DEF ResultInv
<1>4. ASSUME NEW r \in Results, r.cid # 0, results' = Append(results, r)
      PROVE  \A i \in DOMAIN results' : results'[i].cid # 0
  BY <1>1, <1>4, AppendFacts DEF ResultInv
<1>5. ASSUME UNCHANGED chan
      PROVE  \A n \in Calls : chan'[n] # NoResult => n \in Issued' /\ chan'[n].cid = IdOf(n)'
  BY <1>1, <1>5 DEF ResultInv, IdOf
<1>6. ASSUME NEW n \in 0..MaxCalls, NEW r \in Results, Send(n, r), WaitsFor(n, r.cid),
             r.cid # 0
      PROVE  /\ \A i \in DOMAIN results' : results'[i].cid # 0
             /\ \A j \in Calls : chan'[j] # NoResult => j \in Issued' /\ chan'[j].cid = IdOf(j)'
  <2>1. CASE n # 0 /\ chan' = [chan EXCEPT ![n] = r] /\ UNCHANGED results
    <3>1. n \in Issued /\ r.cid = CommandID(kind[n], n)
      BY <1>6, <2>1 DEF WaitsFor, IdOf
    <3>2. \A j \in Calls : chan'[j] = chan[j] \/ (j = n /\ chan'[j] = r)
      BY <1>1, <2>1 DEF SessionType
    <3> QED BY <1>1, <1>2, <2>1, <3>1, <3>2 DEF ResultInv, IdOf
  <2>2. CASE results' = Append(results, r) /\ UNCHANGED chan
    BY <1>4, <1>5, <1>6, <2>2
  <2>3. CASE UNCHANGED <<results, chan>>
    BY <1>2, <1>5, <2>3
  <2> QED BY <1>6, <2>1, <2>2, <2>3, SendFacts
<1>7. ASSUME UNCHANGED <<pc, held>>
      PROVE  \A c \in Callers : pc'[c] = "passing" => held'[c].cid # 0
  BY <1>1, <1>7 DEF ResultInv
<1>8. ASSUME NEW c \in Callers, pc' = [pc EXCEPT ![c] = "waiting"] \/
                               pc' = [pc EXCEPT ![c] = "idle"] \/
                               pc' = [pc EXCEPT ![c] = "queued"],
             \A d \in Callers : d # c => held'[d] = held[d]
      PROVE  \A d \in Callers : pc'[d] = "passing" => held'[d].cid # 0
  <2>1. pc'[c] # "passing" /\ \A d \in Callers : d # c => pc'[d] = pc[d]
    BY <1>1, <1>8 DEF CallerType
  <2> QED BY <1>1, <1>8, <2>1 DEF ResultInv
<1>9. ASSUME NEW c \in Callers, NEW k \in Kinds, Call(c, k) PROVE ResultInv'
  BY <1>2, <1>5, <1>8, <1>9 DEF Call, ResultInv
<1>10. ASSUME NEW c \in Callers, Register(c) \/ Timeout(c) PROVE ResultInv'
  BY <1>2, <1>5, <1>8, <1>10 DEF Register, Timeout, Release, ResultInv
<1>11. ASSUME NEW c \in Callers, TakeMine(c) PROVE ResultInv'
  <2>1. \A n \in Calls : chan'[n] = chan[n] \/ chan'[n] = NoResult
    BY <1>1, <1>11 DEF TakeMine, SessionType
  <2>2. \A n \in Calls : chan'[n] # NoResult => n \in Issued' /\ chan'[n].cid = IdOf(n)'
    BY <1>1, <2>1 DEF ResultInv, IdOf
  <2> QED BY <1>2, <1>8, <1>11, <2>2 DEF TakeMine, Return, Release, ResultInv
<1>12. ASSUME NEW c \in Callers, TakeShared(c) PROVE ResultInv'
  BY <1>3, <1>5, <1>8, <1>12 DEF TakeShared, Return, Release, ResultInv
<1>13. ASSUME NEW c \in Callers, TakeForeign(c) PROVE ResultInv'
  <2>1. Head(results).cid # 0
    BY <1>1, <1>13, TailFacts DEF TakeForeign, ResultInv
  <2>2. /\ held'[c] = Head(results)
        /\ \A d \in Callers : d # c => held'[d] = held[d] /\ pc'[d] = pc[d]
    BY <1>1, <1>13 DEF TakeForeign, CallerType
  <2>3. \A d \in Callers : pc'[d] = "passing" => held'[d].cid # 0
    BY <1>1, <2>1, <2>2 DEF ResultInv
  <2> QED BY <1>3, <1>5, <1>13, <2>3 DEF TakeForeign, ResultInv
<1>14. ASSUME NEW c \in Callers, PutBack(c) PROVE ResultInv'
  <2>1. /\ found[c] \in 0..MaxCalls /\ held[c] \in Results /\ Send(found[c], held[c])
        /\ held[c].cid # 0 /\ WaitsFor(found[c], held[c].cid)
    BY <1>1, <1>14 DEF PutBack, PassOn, CallerType, ResultInv, Basic, WaiterInv
  <2>2. \A d \in Callers : d # c => held'[d] = held[d]
    BY <1>1, <1>14 DEF PutBack, CallerType
  <2>3. ASSUME NEW n, n = found[c], NEW r, r = held[c]
        PROVE  n \in 0..MaxCalls /\ r \in Results /\ Send(n, r) /\ WaitsFor(n, r.cid) /\ r.cid # 0
    BY <2>1, <2>3 DEF Send, WaitsFor, IdOf
  <2>4. /\ \A i \in DOMAIN results' : results'[i].cid # 0
        /\ \A j \in Calls : chan'[j] # NoResult => j \in Issued' /\ chan'[j].cid = IdOf(j)'
    BY <1>6, <2>3
  <2> QED BY <1>8, <1>14, <2>2, <2>4 DEF PutBack, ResultInv
<1>15. CASE finishInflight
  <2> DEFINE r == [cid |-> inflight.cid, from |-> handling.msg.from,
                   err |-> handling.msg.kind = "fault"]
  <2>1. target \in 0..MaxCalls /\ r \in Results
    BY <1>1, <1>15, FinishResult
  <2>2. r.cid = inflight.cid /\ inflight.cid # 0 /\ WaitsFor(target, inflight.cid)
    BY <1>15 DEF finishInflight, Basic, TaskInv, WaiterInv
  <2>3. Send(target, r)
    BY <1>15 DEF finishInflight
  <2> HIDE DEF r
  <2>4. ASSUME NEW n, n = target, NEW s, s = r
        PROVE  n \in 0..MaxCalls /\ s \in Results /\ Send(n, s) /\ WaitsFor(n, s.cid) /\ s.cid # 0
    BY <2>1, <2>2, <2>3, <2>4 DEF Send, WaitsFor, IdOf
  <2>5. /\ \A i \in DOMAIN results' : results'[i].cid # 0
        /\ \A j \in Calls : chan'[j] # NoResult => j \in Issued' /\ chan'[j].cid = IdOf(j)'
    BY <1>6, <2>4
  <2> QED BY <1>7, <1>15, <2>5 DEF finishInflight, ResultInv
<1>16. CASE \/ Refresh
            \/ \E m \in {post} \cup late, live \in BOOLEAN :
                 \/ onInform(m, live) \/ onEmptyPost(m, live)
                 \/ onAnswerUnawaited(m, live) \/ onAnswer(m, live)
            \/ Inform \/ EmptyPost \/ Execute \/ Refuse \/ Abandon
            \/ UNCHANGED vars
  <2>1. UNCHANGED <<results, chan, pc, held>>
    BY <1>16 DEF Refresh, onInform, onEmptyPost, onAnswerUnawaited, onAnswer, Inform,
                 EmptyPost, Execute, Refuse, Abandon
  <2> QED BY <1>2, <1>5, <1>7, <2>1 DEF ResultInv
<1> QED BY <1>9, <1>10, <1>11, <1>12, <1>13, <1>14, <1>15, <1>16, NextCases


LEMMA BasicHolds == Spec => []Basic
<1>1. Init => Basic
  BY TypeInit, CallInit, TaskInit, WaiterInit, ResultInit DEF Basic
<1>2. Basic /\ [Next]_vars => Basic'
  BY TypeStep, CallStep, TaskStep, WaiterStep, ResultStep DEF Basic
<1> QED BY <1>1, <1>2, PTL DEF Spec

\* Every variable keeps its type, and neither the queue nor the shared channel
\* grows past its capacity, for any capacities and any number of callers.
THEOREM SessionTypeCorrect == Spec => []TypeOK
<1>1. Basic => TypeOK
  BY DEF Basic
<1> QED BY <1>1, BasicHolds, PTL

-----------------------------------------------------------------------------
(* Reboots.                                                                *)

\* the call of a task is 0, or the task is the one of that call
LEMMA KnownFacts ==
  ASSUME Basic, NEW t \in KnownTasks
  PROVE  /\ t.call \in Issued \cup {0} /\ t.call \in 0..MaxCalls
         /\ t.call # 0 => /\ t.call \in Calls /\ t.type # "none"
                          /\ t.cid = CommandID(kind[t.call], t.call) /\ t.cid # 0
                          /\ kind[t.call] = "reboot" => ~Retried(t)
                          /\ kind[t.call] # "reboot" => Retried(t)
         /\ t.call = 0 => t.cid = 0 /\ ~Retried(t)
<1>1. calls \in 0..MaxCalls /\ t \in Tasks
  BY DEF Basic, TypeOK, HistoryType, KnownTasks
<1>2. CASE t.call = 0 /\ t.cid = 0
  BY <1>1, <1>2 DEF Retried
<1>3. CASE t.call \in Issued /\ t = TaskOf(kind[t.call], t.call)
  <2>1. t.call \in Calls /\ ~(t.call > calls) /\ t.call # 0
    BY <1>1, <1>3 DEF Issued, Calls
  <2>2. kind[t.call] \in Kinds
    BY <2>1 DEF Basic, CallInv, TypeOK, HistoryType
  <2>3. /\ t.cid = CommandID(kind[t.call], t.call)
        /\ t.type = IF kind[t.call] \in {"query", "snapshot"} THEN "gpv" ELSE kind[t.call]
    BY <1>3 DEF TaskOf
  <2>4. CommandID(kind[t.call], t.call) \in 1..Snapshot
    BY <2>1, <2>2, TaskTypes
  <2>5. t.type # "none" /\ (t.type = "reboot" <=> kind[t.call] = "reboot")
    BY <2>2, <2>3
  <2>6. t.cid # 0
    BY <2>3, <2>4
  <2> QED BY <1>1, <1>3, <2>1, <2>3, <2>5, <2>6 DEF Retried, Calls
<1> QED BY <1>2, <1>3 DEF KnownTasks

LEMMA RebootInit == Init => RebootInv
BY ResultTypes DEF Init, RebootInv, Rebooting

LEMMA RebootStep == Basic /\ RebootInv /\ [Next]_vars => RebootInv'
<1> SUFFICES ASSUME Basic, RebootInv, [Next]_vars PROVE RebootInv'
  OBVIOUS
<1>1. /\ TypeOK /\ taskQueue \in Seq(Tasks) /\ Len(taskQueue) <= QueueCap
      /\ repeated \subseteq executed /\ executed \subseteq Issued
      /\ \A i \in DOMAIN taskQueue : taskQueue[i] \in KnownTasks
      /\ inflight \in KnownTasks /\ cpe.task \in KnownTasks
  BY DEF Basic, TypeOK, SessionType, TaskInv, CallInv, RebootInv
<1>2. repeated' \subseteq executed'
  <2>1. CASE UNCHANGED <<repeated, executed>>
    BY <1>1, <2>1
  <2>2. CASE Execute
    BY <1>1, <2>2 DEF Execute
  <2> QED BY <2>1, <2>2, NextCases, CallersQuiet, DeviceUntouched
<1>3. ASSUME NEW n \in Calls, Unsent(n),
             \A i \in DOMAIN taskQueue' : taskQueue'[i].call = n =>
                i \in DOMAIN taskQueue /\ taskQueue[i].call = n,
             cpe'.task.call \in {cpe.task.call, 0},
             UNCHANGED <<executed, repeated>>
      PROVE  Unsent(n)'
  BY <1>3 DEF Unsent, Calls
<1>4. ASSUME NEW n \in Calls, Unsent(n), NEW live \in BOOLEAN, NEW u, nextTask(live, u),
             UNCHANGED <<executed, repeated>>
      PROVE  Unsent(n)'
  <2>1. CASE taskQueue = << >>
    <3>1. taskQueue' = taskQueue /\ cpe'.task.call \in {cpe.task.call, 0}
      BY <1>1, <1>4, <2>1, NextTaskFacts, ResultTypes
    <3> QED BY <1>3, <1>4, <3>1
  <2>2. CASE taskQueue # << >>
    <3>1. /\ taskQueue' = Tail(taskQueue) /\ 1 \in DOMAIN taskQueue
          /\ cpe' = cpe \/ cpe'.task = taskQueue[1]
      BY <1>1, <1>4, <2>2, NextTaskFacts, TailFacts
    <3>2. \A i \in DOMAIN taskQueue' :
            /\ i \in Nat \ {0} /\ i + 1 \in DOMAIN taskQueue
            /\ taskQueue'[i] = taskQueue[i + 1]
      BY <1>1, <2>2, <3>1, TailFacts
    <3>3. \A i, j \in DOMAIN taskQueue' :
            taskQueue'[i].call = n /\ taskQueue'[j].call = n => i = j
      <4> SUFFICES ASSUME NEW i \in DOMAIN taskQueue', NEW j \in DOMAIN taskQueue',
                          taskQueue'[i].call = n, taskQueue'[j].call = n
                   PROVE  i = j
        OBVIOUS
      <4>1. i + 1 = j + 1
        BY <1>4, <3>2 DEF Unsent
      <4> QED BY <3>2, <4>1
    <3>4. \A i \in DOMAIN taskQueue' :
            taskQueue'[i].call = n => n \notin executed' /\ cpe'.task.call # n
      <4> SUFFICES ASSUME NEW i \in DOMAIN taskQueue', taskQueue'[i].call = n
                   PROVE  n \notin executed' /\ cpe'.task.call # n
        OBVIOUS
      <4>1. n \notin executed /\ cpe.task.call # n
        BY <1>4, <3>2 DEF Unsent
      <4>2. taskQueue[1].call # n
        <5>1. i + 1 # 1 /\ taskQueue[i + 1].call = n /\ i + 1 \in DOMAIN taskQueue
          BY <3>2
        <5> QED BY <1>4, <3>1, <5>1 DEF Unsent
      <4> QED BY <1>4, <3>1, <4>1, <4>2
    <3>5. cpe'.task.call = n => n \notin executed'
      BY <1>4, <3>1 DEF Unsent
    <3> QED BY <1>4, <3>3, <3>4, <3>5 DEF Unsent
  <2> QED BY <2>1, <2>2
<1>5. ASSUME NEW n \in Calls, Rebooting(n), Unsent(n) PROVE Unsent(n)'
  <2>1. CASE UNCHANGED <<taskQueue, cpe, executed, repeated>>
    BY <1>3, <1>5, <2>1
  <2>2. ASSUME NEW c \in Callers, NEW k \in Kinds, Call(c, k) PROVE Unsent(n)'
    <3>1. /\ TaskOf(k, calls + 1) \in Tasks /\ calls + 1 \in Calls
          /\ taskQueue' = enqueue(taskQueue, TaskOf(k, calls + 1))
          /\ kind[calls + 1] = "none"
      BY <2>2, CallFacts DEF Call
    <3>2. TaskOf(k, calls + 1).call # n
      BY <1>5, <3>1, TaskTypes DEF Rebooting
    <3>3. \A i \in DOMAIN taskQueue' : taskQueue'[i].call = n =>
            i \in DOMAIN taskQueue /\ taskQueue[i].call = n
      BY <1>1, <3>1, <3>2, EnqueueStep
    <3> QED BY <1>3, <1>5, <2>2, <3>3 DEF Call
  <2>3. CASE Refresh
    <3>1. /\ Background("gpv") \in Tasks /\ Background("gpv").call = 0 /\ n # 0
          /\ taskQueue' = enqueue(taskQueue, Background("gpv"))
      BY <2>3, TaskTypes DEF Types, Background, Refresh, Calls
    <3>2. \A i \in DOMAIN taskQueue' : taskQueue'[i].call = n =>
            i \in DOMAIN taskQueue /\ taskQueue[i].call = n
      BY <1>1, <3>1, EnqueueStep
    <3> QED BY <1>3, <1>5, <2>3, <3>2 DEF Refresh
  <2>4. ASSUME NEW m, NEW live \in BOOLEAN, onInform(m, live) PROVE Unsent(n)'
    <3>1. Retried(inflight) => inflight.call # n
      BY <1>1, <1>5, KnownFacts DEF Rebooting, Calls
    <3>2. \A i \in DOMAIN taskQueue' :
            \/ i \in DOMAIN taskQueue /\ taskQueue'[i] = taskQueue[i]
            \/ taskQueue'[i] = inflight /\ Retried(inflight)
            \/ taskQueue'[i] \in Reads
      BY <1>1, <2>4, InformStep
    <3>3. \A i \in DOMAIN taskQueue' : taskQueue'[i].call = n =>
            i \in DOMAIN taskQueue /\ taskQueue[i].call = n
      BY <3>1, <3>2 DEF Reads, Calls
    <3>4. cpe' = cpe \/ cpe'.task = NoTask
      BY <2>4, RespondFacts DEF onInform
    <3>5. cpe'.task.call \in {cpe.task.call, 0} /\ UNCHANGED <<executed, repeated>>
      BY <2>4, <3>4, ResultTypes DEF onInform
    <3> QED BY <1>3, <1>5, <3>3, <3>5
  <2>5. CASE finishInflight
    BY <1>1, <1>4, <1>5, <2>5, FinishResult DEF finishInflight
  <2>6. ASSUME NEW m, NEW live \in BOOLEAN, onEmptyPost(m, live) PROVE Unsent(n)'
    BY <1>4, <1>5, <2>6 DEF onEmptyPost
  <2>7. ASSUME NEW m, NEW live \in BOOLEAN, onAnswerUnawaited(m, live) PROVE Unsent(n)'
    <3>1. CASE nextTask(live, NoTask)
      BY <1>4, <1>5, <2>7, <3>1 DEF onAnswerUnawaited
    <3>2. CASE Respond(live, "off", NoTask) /\ UNCHANGED <<taskQueue, inflight>>
      <4>1. cpe'.task.call \in {cpe.task.call, 0}
        BY <3>2, RespondFacts, ResultTypes
      <4> QED BY <1>3, <1>5, <2>7, <3>2, <4>1 DEF onAnswerUnawaited
    <3> QED BY <2>7, <3>1, <3>2 DEF onAnswerUnawaited
  <2>8. ASSUME NEW m, NEW live, onAnswer(m, live) PROVE Unsent(n)'
    BY <2>1, <2>8 DEF onAnswer
  <2>9. CASE Inform \/ EmptyPost \/ Refuse \/ Abandon
    <3>1. cpe'.task.call = 0 /\ UNCHANGED <<taskQueue, executed, repeated>>
      BY <2>9, ResultTypes DEF Inform, EmptyPost, Refuse, Abandon, Posted
    <3> QED BY <1>3, <1>5, <3>1
  <2>10. CASE Execute
    <3>1. /\ cpe'.task.call = 0 /\ UNCHANGED taskQueue /\ n # 0
          /\ executed' = executed \cup ({cpe.task.call} \ {0})
          /\ repeated' = repeated \cup ({cpe.task.call} \cap executed)
      BY <2>10, ResultTypes DEF Execute, Posted, Calls
    <3> QED BY <1>5, <3>1 DEF Unsent
  <2>11. ASSUME NEW c \in Callers,
                \/ Register(c) \/ TakeMine(c) \/ TakeShared(c) \/ TakeForeign(c)
                \/ PutBack(c) \/ Timeout(c)
         PROVE  UNCHANGED <<taskQueue, cpe, executed, repeated>>
    BY <2>11 DEF Register, TakeMine, TakeShared, TakeForeign, PutBack, Timeout
  <2> QED BY <2>1, <2>2, <2>3, <2>4, <2>5, <2>6, <2>7, <2>8, <2>9, <2>10, <2>11,
             NextCases
<1>6. ASSUME NEW n \in Calls, Rebooting(n)', ~Rebooting(n) PROVE Unsent(n)'
  <2>1. PICK c \in Callers, k \in Kinds : Call(c, k)
    BY <1>6, NextCases, CallersQuiet, DeviceUntouched DEF Rebooting
  <2>2. n = calls + 1 /\ n \notin Issued /\ n # 0
    BY <1>6, <2>1, CallFacts DEF Rebooting, Calls
  <2>3. /\ TaskOf(k, n) \in Tasks /\ taskQueue' = enqueue(taskQueue, TaskOf(k, n))
        /\ UNCHANGED <<cpe, executed, repeated>>
    BY <2>1, <2>2, CallFacts, DeviceUntouched DEF Call
  <2>4. n \notin executed /\ n \notin repeated
    BY <1>1, <2>2
  <2>5. cpe.task.call # n /\ \A i \in DOMAIN taskQueue : taskQueue[i].call # n
    BY <1>1, <2>2, KnownFacts
  <2>6. \A i \in DOMAIN taskQueue' : taskQueue'[i].call = n => i = Len(taskQueue) + 1
    BY <1>1, <2>3, <2>5, EnqueueStep
  <2>7. \A i, j \in DOMAIN taskQueue' :
          taskQueue'[i].call = n /\ taskQueue'[j].call = n => i = j
    BY <2>6
  <2> QED BY <2>3, <2>4, <2>5, <2>7 DEF Unsent
<1>7. \A n \in Calls : Rebooting(n) => Unsent(n)
  BY DEF RebootInv
<1> QED BY <1>2, <1>5, <1>6, <1>7 DEF RebootInv

\* Whatever sessions the device abandons and whatever requests are handled
\* late, one reboot command reboots the device at most once.
THEOREM RebootsOnce == Spec => []RebootAtMostOnce
<1>1. RebootInv => RebootAtMostOnce
  BY DEF RebootInv, RebootAtMostOnce, Unsent
<1> QED BY <1>1, BasicHolds, RebootInit, RebootStep, PTL DEF Spec


-----------------------------------------------------------------------------
(* Own answers.                                                            *)

LEMMA LatesGrow ==
  ASSUME TypeOK, [Next]_vars, lates' = 0
  PROVE  lates = 0
<1>1. lates \in 0..MaxLate
  BY DEF TypeOK
<1>2. CASE UNCHANGED lates
  BY <1>2
<1>3. CASE Abandon
  BY <1>1, <1>3 DEF Abandon
<1>4. CASE \/ Refresh \/ finishInflight
           \/ \E m \in {post} \cup late, live \in BOOLEAN :
                \/ onInform(m, live) \/ onEmptyPost(m, live)
                \/ onAnswerUnawaited(m, live) \/ onAnswer(m, live)
           \/ Inform \/ EmptyPost \/ Execute \/ Refuse \/ UNCHANGED vars
  BY <1>2, <1>4 DEF Refresh, finishInflight, onInform, onEmptyPost, onAnswerUnawaited,
                    onAnswer, Inform, EmptyPost, Execute, Refuse
<1> QED BY <1>2, <1>3, <1>4, NextCases, DeviceUntouched

LEMMA AgreeInit == Init => AgreeInv
BY DEF Init, AgreeInv, NoMessage

LEMMA AgreeStep == Basic /\ AgreeInv /\ [Next]_vars => AgreeInv'
<1> SUFFICES ASSUME Basic, AgreeInv, [Next]_vars, lates' = 0 PROVE AgreeInv'
  BY DEF AgreeInv
<1>1. /\ TypeOK /\ late = {}
      /\ post # NoMessage => cpe.st = "wait"
      /\ post.kind \in {"answer", "fault"} => post.from = inflight.call
      /\ cpe.st = "exec" => cpe.task = inflight
      /\ (cpe.st = "ready" \/ post.kind = "empty") => inflight = NoTask
  BY LatesGrow DEF Basic, AgreeInv
<1>2. handling.msg # NoMessage =>
         /\ handling.msg.from = inflight.call
         /\ cpe.st \in {"off", "wait"} /\ post.kind \in {"none", "inform"}
  BY LatesGrow DEF Basic, AgreeInv
<1>3. (handling.msg # NoMessage /\ handling.live) => cpe.st = "wait" /\ post = NoMessage
  BY LatesGrow DEF Basic, AgreeInv
<1>4. NoMessage.kind = "none" /\ NoTask.call = 0 /\ taskQueue \in Seq(Tasks)
  BY <1>1 DEF NoMessage, NoTask, TypeOK, SessionType
<1>5. ASSUME UNCHANGED <<late, post, cpe, inflight, handling>> PROVE AgreeInv'
  BY <1>1, <1>2, <1>3, <1>5 DEF AgreeInv
<1>6. ASSUME NEW m \in {post} \cup late, NEW live \in BOOLEAN, Arrives(m, live)
      PROVE  /\ live /\ post = m /\ post' = NoMessage /\ late' = {} /\ cpe.st = "wait"
             /\ handling.msg = NoMessage
  BY <1>1, <1>6, ArrivesFacts
<1>7. ASSUME late' = {}, post' = NoMessage, cpe'.st \in {"off", "ready", "exec"},
             cpe'.st = "exec" => cpe'.task = inflight',
             cpe'.st = "ready" => inflight' = NoTask,
             handling'.msg = NoMessage
      PROVE  AgreeInv'
  BY <1>4, <1>7 DEF AgreeInv
<1>8. ASSUME NEW live \in BOOLEAN, live, NEW u, nextTask(live, u)
      PROVE  /\ cpe'.st \in {"off", "exec"}
             /\ cpe'.st = "exec" => cpe'.task = inflight'
  BY <1>8 DEF nextTask, Respond
<1>9. ASSUME NEW m \in {post} \cup late, NEW live \in BOOLEAN, onInform(m, live)
      PROVE  AgreeInv'
  <2>1. /\ post' = NoMessage /\ late' = {} /\ inflight' = NoTask
        /\ cpe'.st = "ready" /\ handling'.msg = NoMessage
    BY <1>6, <1>9, RespondFacts DEF onInform
  <2> QED BY <1>7, <2>1
<1>10. ASSUME NEW m \in {post} \cup late, NEW live \in BOOLEAN,
              onEmptyPost(m, live) \/ onAnswerUnawaited(m, live)
       PROVE  AgreeInv'
  <2>1. /\ live /\ post' = NoMessage /\ late' = {} /\ handling'.msg = NoMessage
    BY <1>6, <1>10 DEF onEmptyPost, onAnswerUnawaited
  <2>2. CASE nextTask(live, inflight) \/ nextTask(live, NoTask)
    <3>1. /\ cpe'.st \in {"off", "exec"}
          /\ cpe'.st = "exec" => cpe'.task = inflight'
      BY <1>8, <2>1, <2>2
    <3> QED BY <1>7, <2>1, <3>1
  <2>3. CASE Respond(live, "off", NoTask)
    <3>1. cpe' = [st |-> "off", task |-> NoTask]
      BY <2>1, <2>3 DEF Respond
    <3> QED BY <1>7, <2>1, <3>1
  <2> QED BY <1>10, <2>2, <2>3 DEF onEmptyPost, onAnswerUnawaited
<1>11. ASSUME NEW m \in {post} \cup late, NEW live \in BOOLEAN, onAnswer(m, live)
       PROVE  AgreeInv'
  <2>1. /\ post = m /\ post' = NoMessage /\ late' = {} /\ cpe.st = "wait"
        /\ m.kind \in {"answer", "fault"} /\ UNCHANGED <<cpe, inflight>>
    BY <1>6, <1>11 DEF onAnswer
  <2>2. handling'.msg = m
    BY <1>11 DEF onAnswer
  <2>3. handling'.msg.from = inflight'.call
    BY <1>1, <2>1, <2>2
  <2> QED BY <1>4, <2>1, <2>3 DEF AgreeInv
<1>12. CASE finishInflight
  <2>1. /\ handling'.msg = NoMessage /\ UNCHANGED <<post, late>>
        /\ handling.msg # NoMessage /\ nextTask(handling.live, NoTask)
    BY <1>12 DEF finishInflight
  <2>2. CASE handling.live
    <3>1. post = NoMessage
      BY <1>3, <2>1, <2>2
    <3>2. /\ cpe'.st \in {"off", "exec"}
          /\ cpe'.st = "exec" => cpe'.task = inflight'
      BY <2>1, <2>2 DEF nextTask, Respond
    <3> QED BY <1>1, <1>7, <2>1, <3>1, <3>2
  <2>3. CASE ~handling.live
    <3>1. cpe' = cpe
      BY <2>1, <2>3 DEF nextTask, Respond
    <3> QED BY <1>1, <1>2, <2>1, <3>1 DEF AgreeInv
  <2> QED BY <2>2, <2>3
<1>13. CASE Inform
  <2>1. /\ post' = [NoMessage EXCEPT !.kind = "inform"] /\ cpe'.st = "wait"
        /\ cpe.st = "off" /\ UNCHANGED <<late, inflight, handling>>
    BY <1>13 DEF Inform, Posted
  <2>2. post'.kind = "inform"
    BY <2>1 DEF NoMessage
  <2>3. handling.msg # NoMessage => ~handling.live
    BY <1>3, <2>1
  <2> QED BY <1>1, <1>2, <2>1, <2>2, <2>3 DEF AgreeInv
<1>14. CASE EmptyPost
  <2>1. /\ post' = [NoMessage EXCEPT !.kind = "empty"] /\ cpe'.st = "wait"
        /\ cpe.st = "ready" /\ UNCHANGED <<late, inflight, handling>>
    BY <1>14 DEF EmptyPost, Posted
  <2>2. post'.kind = "empty" /\ handling'.msg = NoMessage
    BY <1>2, <2>1 DEF NoMessage
  <2> QED BY <1>1, <2>1, <2>2 DEF AgreeInv
<1>15. CASE Execute \/ Refuse
  <2>1. /\ post' \in {Answer("answer"), Answer("fault")} /\ cpe'.st = "wait"
        /\ cpe.st = "exec" /\ UNCHANGED <<late, inflight, handling>>
    BY <1>15 DEF Execute, Refuse, Posted
  <2>2. /\ post'.kind \in {"answer", "fault"} /\ post'.from = inflight'.call
        /\ handling'.msg = NoMessage
    BY <1>1, <1>2, <2>1 DEF Answer
  <2> QED BY <1>1, <2>1, <2>2 DEF AgreeInv
<1>16. CASE Abandon
  <2>1. /\ post' = NoMessage /\ cpe'.st = "off" /\ UNCHANGED inflight
        /\ handling'.msg = handling.msg /\ ~handling'.live
    BY <1>1, <1>16, AbandonFacts DEF Abandon
  <2>2. late' = late
    BY <1>1, <1>16 DEF Abandon, TypeOK
  <2> QED BY <1>1, <1>2, <1>4, <2>1, <2>2 DEF AgreeInv
<1>17. CASE Refresh \/ UNCHANGED vars
  BY <1>5, <1>17 DEF Refresh
<1> QED BY <1>5, <1>9, <1>10, <1>11, <1>12, <1>13, <1>14, <1>15, <1>16, <1>17,
           NextCases, DeviceUntouched


LEMMA TrueInit == Init => TrueInv
BY DEF Init, TrueInv

\* the result of the task in flight
LEMMA FinishAnswers ==
  ASSUME Basic, AgreeInv, lates = 0, finishInflight
  PROVE  [cid |-> inflight.cid, from |-> handling.msg.from,
          err |-> handling.msg.kind = "fault"] \in Answers
<1> DEFINE r == [cid |-> inflight.cid, from |-> handling.msg.from,
                 err |-> handling.msg.kind = "fault"]
<1>1. handling.msg # NoMessage /\ inflight \in KnownTasks /\ inflight.cid # 0
  BY DEF finishInflight, Basic, TaskInv
<1>2. handling.msg.from = inflight.call
  BY <1>1 DEF AgreeInv
<1>3. inflight.call \in Issued /\ inflight.cid = CommandID(kind[inflight.call], inflight.call)
  BY <1>1, KnownFacts
<1>4. r \in Results /\ r.from = handling.msg.from /\ r.cid = inflight.cid
  BY FinishResult DEF Basic
<1> HIDE DEF r
<1>5. r \in Answers
  BY <1>2, <1>3, <1>4 DEF Answers, IdOf
<1> QED BY <1>5 DEF r

LEMMA TrueStep == Basic /\ AgreeInv /\ TrueInv /\ [Next]_vars => TrueInv'
<1> SUFFICES ASSUME Basic, AgreeInv, TrueInv, [Next]_vars, lates' = 0 PROVE TrueInv'
  BY DEF TrueInv
<1>1. /\ TypeOK /\ lates = 0 /\ SessionType /\ CallerType /\ results \in Seq(Results)
      /\ \A i \in DOMAIN results : results[i] \in Answers
      /\ \A n \in Calls : chan[n] \in Answers \cup {NoResult}
      /\ \A c \in Callers : held[c] \in Answers \cup {NoResult}
  BY LatesGrow DEF Basic, TrueInv, TypeOK, SessionType
<1>2. Answers \subseteq Answers'
  BY KindFixed DEF Answers, IdOf
<1>3. UNCHANGED results => \A i \in DOMAIN results' : results'[i] \in Answers
  BY <1>1
<1>4. ASSUME NEW n, NEW r \in Answers, Send(n, r), n # 0 => n \in Calls
      PROVE  /\ \A i \in DOMAIN results' : results'[i] \in Answers
             /\ \A j \in Calls : chan'[j] \in Answers \cup {NoResult}
  <2>1. CASE n # 0 /\ chan' = [chan EXCEPT ![n] = r] /\ UNCHANGED results
    BY <1>1, <1>3, <1>4, <2>1 DEF SessionType
  <2>2. CASE results' = Append(results, r) /\ UNCHANGED chan
    <3>1. r \in Results
      BY <1>4 DEF Answers
    <3>2. \A i \in DOMAIN results' :
            (i \in DOMAIN results /\ results'[i] = results[i]) \/ results'[i] = r
      BY <1>1, <2>2, <3>1, AppendFacts
    <3> QED BY <1>1, <1>4, <2>2, <3>2
  <2>3. CASE UNCHANGED <<results, chan>>
    BY <1>1, <2>3
  <2> QED BY <1>4, <2>1, <2>2, <2>3, SendFacts
<1>5. ASSUME results # << >>
      PROVE  /\ Head(results) \in Answers
             /\ results' = Tail(results) =>
                  \A i \in DOMAIN results' : results'[i] \in Answers
  BY <1>1, <1>5, TailFacts
<1>6. ASSUME NEW c \in Callers,
             \/ \E k \in Kinds : Call(c, k)
             \/ Register(c) \/ Timeout(c)
      PROVE  UNCHANGED <<results, chan, held>>
  BY <1>6 DEF Call, Register, Timeout
<1>7. CASE UNCHANGED <<results, chan, held>>
  BY <1>1, <1>2, <1>7 DEF TrueInv
<1>8. ASSUME NEW c \in Callers, TakeMine(c) PROVE TrueInv'
  <2>1. \A n \in Calls : chan'[n] \in Answers \cup {NoResult}
    BY <1>1, <1>8 DEF TakeMine, SessionType
  <2> QED BY <1>1, <1>2, <1>8, <2>1 DEF TakeMine, TrueInv
<1>9. ASSUME NEW c \in Callers, TakeShared(c) PROVE TrueInv'
  BY <1>1, <1>2, <1>5, <1>9 DEF TakeShared, TrueInv
<1>10. ASSUME NEW c \in Callers, TakeForeign(c) PROVE TrueInv'
  <2>1. \A d \in Callers : held'[d] \in Answers \cup {NoResult}
    BY <1>1, <1>5, <1>10 DEF TakeForeign, CallerType
  <2> QED BY <1>1, <1>2, <1>5, <1>10, <2>1 DEF TakeForeign, TrueInv
<1>11. ASSUME NEW c \in Callers, PutBack(c) PROVE TrueInv'
  <2>1. /\ found[c] \in 0..MaxCalls /\ Send(found[c], held[c])
        /\ held[c] \in Answers \cup {NoResult} /\ held[c].cid # 0
    BY <1>1, <1>11 DEF PutBack, PassOn, CallerType, Basic, ResultInv
  <2>2. held[c] # NoResult /\ (found[c] # 0 => found[c] \in Calls)
    BY <2>1, ResultTypes DEF Calls
  <2>3. ASSUME NEW n, n = found[c], NEW r, r = held[c] PROVE Send(n, r)
    BY <2>1, <2>3 DEF Send
  <2>4. /\ \A i \in DOMAIN results' : results'[i] \in Answers
        /\ \A j \in Calls : chan'[j] \in Answers \cup {NoResult}
    BY <1>4, <2>1, <2>2, <2>3
  <2>5. \A d \in Callers : held'[d] \in Answers \cup {NoResult}
    BY <1>1, <1>11 DEF PutBack, CallerType
  <2> QED BY <1>2, <2>4, <2>5 DEF TrueInv
<1>12. CASE finishInflight
  <2> DEFINE r == [cid |-> inflight.cid, from |-> handling.msg.from,
                   err |-> handling.msg.kind = "fault"]
  <2>1. Send(target, r) /\ r \in Answers /\ inflight.cid # 0 /\ r.cid = inflight.cid
    BY <1>1, <1>12, FinishAnswers DEF finishInflight, Basic, TaskInv
  <2>2. target # 0 => target \in Calls
    BY <1>1 DEF SessionType, Calls
  <2> HIDE DEF r
  <2>3. r # NoResult
    BY <2>1, ResultTypes
  <2>4. ASSUME NEW n, n = target, NEW s, s = r PROVE Send(n, s)
    BY <2>1, <2>4 DEF Send
  <2>5. /\ \A i \in DOMAIN results' : results'[i] \in Answers
        /\ \A j \in Calls : chan'[j] \in Answers \cup {NoResult}
    BY <1>4, <2>1, <2>2, <2>3, <2>4
  <2> QED BY <1>1, <1>2, <1>12, <2>5 DEF finishInflight, TrueInv
<1>13. CASE \/ Refresh
            \/ \E m \in {post} \cup late, live \in BOOLEAN :
                 \/ onInform(m, live) \/ onEmptyPost(m, live)
                 \/ onAnswerUnawaited(m, live) \/ onAnswer(m, live)
            \/ Inform \/ EmptyPost \/ Execute \/ Refuse \/ Abandon
            \/ UNCHANGED vars
  <2>1. UNCHANGED <<results, chan, held>>
    BY <1>13 DEF Refresh, onInform, onEmptyPost, onAnswerUnawaited, onAnswer, Inform,
                 EmptyPost, Execute, Refuse, Abandon
  <2> QED BY <1>7, <2>1
<1> QED BY <1>6, <1>7, <1>8, <1>9, <1>10, <1>11, <1>12, <1>13, NextCases

\* two calls with one CommandID are the same call, or snapshots
LEMMA SameID ==
  ASSUME NEW m \in Calls, NEW n \in Calls, NEW j, NEW k,
         CommandID(j, m) = CommandID(k, n)
  PROVE  m = n \/ (j = "snapshot" /\ k = "snapshot")
BY DEF CommandID, Snapshot, Calls

\* what Await returns is the answer to the call, or to an earlier snapshot
LEMMA ReturnsOwn ==
  ASSUME Basic, NEW c \in Callers, pc[c] # "idle", NEW r \in Answers,
         r.cid = IdOf(cur[c])
  PROVE  \/ r.from = cur[c]
         \/ /\ kind[cur[c]] = "snapshot" /\ kind[r.from] = "snapshot"
            /\ r.from \in 1..cur[c]
<1>1. /\ cur[c] \in Calls /\ r.from \in Issued /\ r.cid = CommandID(kind[r.from], r.from)
      /\ r.cid = CommandID(kind[cur[c]], cur[c]) /\ calls \in 0..MaxCalls
  BY CallerFacts DEF Answers, IdOf, Basic, TypeOK, HistoryType
<1>2. r.from \in Calls
  BY <1>1 DEF Issued, Calls
<1>3. CASE kind[cur[c]] = "snapshot" /\ kind[r.from] = "snapshot"
  <2>1. r.from <= cur[c]
    BY <1>2, <1>3 DEF Basic, CallInv
  <2> QED BY <1>1, <1>2, <1>3, <2>1 DEF Calls
<1> QED BY <1>1, <1>2, <1>3, SameID

LEMMA OwnInit == Init => OwnAnswer
BY DEF Init, OwnAnswer

LEMMA OwnStep ==
  Basic /\ TrueInv /\ (lates = 0 => OwnAnswer) /\ [Next]_vars
    => (lates = 0 => OwnAnswer)'
<1> SUFFICES ASSUME Basic, TrueInv, lates = 0 => OwnAnswer, [Next]_vars, lates' = 0
             PROVE  OwnAnswer'
  OBVIOUS
<1>1. /\ TypeOK /\ lates = 0 /\ SessionType /\ HistoryType /\ OwnAnswer
      /\ results \in Seq(Results)
  BY LatesGrow DEF Basic, TypeOK, SessionType
<1>2. CASE UNCHANGED <<got, kind>>
  BY <1>1, <1>2 DEF OwnAnswer
<1>3. ASSUME NEW c \in Callers, NEW k \in Kinds, Call(c, k) PROVE OwnAnswer'
  <2>1. /\ UNCHANGED got /\ kind[calls + 1] = "none"
        /\ \A n \in Calls : n # calls + 1 => kind'[n] = kind[n]
    BY <1>3, CallFacts DEF Call
  <2>2. \A n \in Calls : kind[n] = "snapshot" => kind'[n] = "snapshot"
    BY <2>1
  <2>3. \A n \in Calls : \A i \in 1..n : i \in Calls
    BY DEF Calls
  <2> SUFFICES ASSUME NEW n \in Calls, got[n] # NoResult, got[n].from # n
               PROVE  /\ kind'[n] = "snapshot"
                      /\ \E i \in 1..n : kind'[i] = kind'[n] /\ got[n].from = i
    BY <2>1 DEF OwnAnswer
  <2>4. kind[n] = "snapshot" /\ \E i \in 1..n : kind[i] = kind[n] /\ got[n].from = i
    BY <1>1 DEF OwnAnswer
  <2> QED BY <2>2, <2>3, <2>4
<1>4. ASSUME NEW c \in Callers, NEW r \in Answers, pc[c] # "idle", Return(c, r),
             r.cid = IdOf(cur[c]), UNCHANGED kind
      PROVE  OwnAnswer'
  <2>1. /\ cur[c] \in Calls /\ got'[cur[c]] = r
        /\ \A n \in Calls : n # cur[c] => got'[n] = got[n]
    BY <1>1, <1>4, CallerFacts DEF Return, HistoryType
  <2>2. \/ r.from = cur[c]
        \/ /\ kind[cur[c]] = "snapshot"
           /\ \E i \in 1..cur[c] : kind[i] = kind[cur[c]] /\ r.from = i
    BY <1>4, ReturnsOwn
  <2> QED BY <1>1, <1>4, <2>1, <2>2 DEF OwnAnswer
<1>5. ASSUME NEW c \in Callers, TakeMine(c) PROVE OwnAnswer'
  <2>1. cur[c] \in Calls /\ chan[cur[c]] # NoResult /\ pc[c] # "idle"
    BY <1>5, CallerFacts DEF TakeMine
  <2>2. chan[cur[c]] \in Answers /\ chan[cur[c]].cid = IdOf(cur[c])
    BY <1>1, <2>1 DEF Basic, ResultInv, TrueInv, IdOf
  <2>3. ASSUME NEW r, r = chan[cur[c]] PROVE Return(c, r) /\ r \in Answers /\ r.cid = IdOf(cur[c])
    BY <1>5, <2>2, <2>3 DEF TakeMine, Return
  <2> QED BY <1>4, <1>5, <2>1, <2>3 DEF TakeMine
<1>6. ASSUME NEW c \in Callers, TakeShared(c) PROVE OwnAnswer'
  <2>1. Head(results) \in Answers
    BY <1>1, <1>6, TailFacts DEF TakeShared, TrueInv
  <2>2. Head(results).cid = IdOf(cur[c]) /\ pc[c] # "idle"
    BY <1>6 DEF TakeShared, IsMine, IdOf
  <2>3. ASSUME NEW r, r = Head(results) PROVE Return(c, r) /\ r \in Answers /\ r.cid = IdOf(cur[c])
    BY <1>6, <2>1, <2>2, <2>3 DEF TakeShared, Return
  <2> QED BY <1>4, <1>6, <2>2, <2>3 DEF TakeShared
<1>7. ASSUME NEW c \in Callers,
             \/ Register(c) \/ TakeForeign(c) \/ PutBack(c) \/ Timeout(c)
      PROVE  UNCHANGED <<got, kind>>
  BY <1>7 DEF Register, TakeForeign, PutBack, Timeout
<1> QED BY <1>2, <1>3, <1>5, <1>6, <1>7, NextCases, CallersQuiet

\* Unless a request of an abandoned session was handled late, a caller gets the
\* answer to its own command, whoever met the result on the way.
THEOREM AnswersAreOwn == Spec => [](lates = 0 => OwnAnswer)
<1>1. Init => AgreeInv /\ TrueInv /\ (lates = 0 => OwnAnswer)
  BY AgreeInit, TrueInit, OwnInit
<1> QED BY <1>1, BasicHolds, AgreeStep, TrueStep, OwnStep, PTL DEF Spec


-----------------------------------------------------------------------------
(* The room in the shared channel.                                         *)

LEMMA AskedType ==
  ASSUME NEW q \in Seq(Tasks)
  PROVE  IsFiniteSet(Asked(q)) /\ Cardinality(Asked(q)) \in Nat
<1>1. Len(q) \in Int /\ 1 \in Int /\ DOMAIN q = 1..Len(q)
  BY LenProperties
<1>2. IsFiniteSet(DOMAIN q)
  BY <1>1, FS_Interval
<1>3. Asked(q) \in SUBSET (DOMAIN q)
  BY DEF Asked
<1> QED BY <1>2, <1>3, FS_Subset, FS_CardinalityType

LEMMA AskedEmpty == Asked(<< >>) = {} /\ Cardinality(Asked(<< >>)) = 0
<1>1. Asked(<< >>) = {}
  BY DEF Asked
<1> QED BY <1>1, FS_EmptySet

\* where tasks were only added, and one of them at most is somebody's
LEMMA AskedGrows ==
  ASSUME NEW q \in Seq(Tasks), NEW p \in Seq(Tasks), NEW k,
         \A i \in DOMAIN p :
           (i \in DOMAIN q /\ p[i] = q[i]) \/ p[i].call = 0 \/ i = k
  PROVE  /\ Cardinality(Asked(p)) <= Cardinality(Asked(q)) + 1
         /\ (k \in DOMAIN p => (k \in DOMAIN q /\ p[k] = q[k]) \/ p[k].call = 0)
              => Cardinality(Asked(p)) <= Cardinality(Asked(q))
<1>1. /\ IsFiniteSet(Asked(q)) /\ Cardinality(Asked(q)) \in Nat
      /\ Cardinality(Asked(p)) \in Nat
  BY AskedType
<1>2. Asked(p) \in SUBSET (Asked(q) \cup {k})
  BY DEF Asked
<1>3. IsFiniteSet(Asked(q) \cup {k})
      /\ Cardinality(Asked(q) \cup {k}) <= Cardinality(Asked(q)) + 1
  <2> DEFINE A == Asked(q)
  <2> HIDE DEF A
  <2>1. IsFiniteSet(A) /\ Cardinality(A) \in Nat
    BY <1>1 DEF A
  <2>2. /\ IsFiniteSet(A \cup {k})
        /\ Cardinality(A \cup {k}) = IF k \in A THEN Cardinality(A) ELSE Cardinality(A) + 1
    BY <2>1, FS_AddElement
  <2> QED BY <2>1, <2>2 DEF A
<1>4. Cardinality(Asked(p)) <= Cardinality(Asked(q) \cup {k})
  BY <1>2, <1>3, FS_Subset
<1>5. Cardinality(Asked(q) \cup {k}) \in Nat
  BY <1>3, FS_CardinalityType
<1>6. ASSUME k \in DOMAIN p => (k \in DOMAIN q /\ p[k] = q[k]) \/ p[k].call = 0
      PROVE  Cardinality(Asked(p)) <= Cardinality(Asked(q))
  <2>1. Asked(p) \in SUBSET Asked(q)
    BY <1>6 DEF Asked
  <2> QED BY <1>1, <2>1, FS_Subset
<1> QED BY <1>1, <1>3, <1>4, <1>5, <1>6

LEMMA AskedTail ==
  ASSUME NEW q \in Seq(Tasks), q # << >>
  PROVE  Cardinality(Asked(Tail(q))) + (IF Head(q).call = 0 THEN 0 ELSE 1)
           <= Cardinality(Asked(q))
<1> DEFINE A == Asked(q)
           B == Asked(Tail(q))
           f == [i \in B |-> i + 1]
<1>1. /\ Head(q) = q[1] /\ Len(q) \in Nat \ {0} /\ DOMAIN q = 1..Len(q)
      /\ Tail(q) \in Seq(Tasks) /\ DOMAIN Tail(q) = 1..(Len(q) - 1)
      /\ \A i \in DOMAIN Tail(q) : i + 1 \in DOMAIN q /\ Tail(q)[i] = q[i + 1]
  BY TailFacts
<1>2. IsFiniteSet(A) /\ Cardinality(A) \in Nat /\ Cardinality(B) \in Nat
  BY <1>1, AskedType
<1>3. B \subseteq Nat \ {0}
  BY <1>1 DEF Asked
<1>4. f \in [B -> A \ {1}]
  BY <1>1, <1>3 DEF Asked
<1>5. \A i, j \in B : f[i] = f[j] => i = j
  BY <1>3
<1>6. f \in Injection(B, A \ {1})
  <2> HIDE DEF f, A, B
  <2>1. DOMAIN f = B
    BY <1>4
  <2> QED BY <1>4, <1>5, <2>1 DEF Injection, IsInjective
<1>7. /\ IsFiniteSet(A \ {1})
      /\ Cardinality(A \ {1}) = IF 1 \in A THEN Cardinality(A) - 1 ELSE Cardinality(A)
  BY <1>2, FS_RemoveElement
<1>8. Cardinality(B) <= Cardinality(A \ {1})
  BY <1>6, <1>7, FS_Injection
<1>9. 1 \in A <=> Head(q).call # 0
  BY <1>1 DEF Asked
<1> HIDE DEF A, B
<1>10. Cardinality(B) + (IF Head(q).call = 0 THEN 0 ELSE 1) <= Cardinality(A)
  BY <1>2, <1>7, <1>8, <1>9
<1> QED BY <1>10 DEF A, B


LEMMA CallsFinite ==
  ASSUME NEW S \in SUBSET Calls
  PROVE  IsFiniteSet(S) /\ Cardinality(S) \in Nat
<1>1. IsFiniteSet(Calls)
  <2>1. MaxCalls \in Int /\ 1 \in Int
    OBVIOUS
  <2> QED BY <2>1, FS_Interval DEF Calls
<1> QED BY <1>1, FS_Subset, FS_CardinalityType

LEMMA PassingType ==
  /\ IsFiniteSet(Passing) /\ Cardinality(Passing) \in Nat
  /\ IsFiniteSet(Passing') /\ Cardinality(Passing') \in Nat
<1>1. Passing \in SUBSET Calls /\ Passing' \in SUBSET Calls
  BY DEF Passing
<1> QED BY <1>1, CallsFinite

\* the callers that hold somebody's result, by their calls
LEMMA PassingFacts ==
  ASSUME Basic, [Next]_vars, NEW c \in Callers, pc[c] # "idle", cur'[c] = cur[c],
         \A d \in Callers : d # c => pc'[d] = pc[d] /\ cur'[d] = cur[d]
  PROVE  /\ (pc[c] # "passing" /\ pc'[c] = "passing") =>
              Cardinality(Passing') = Cardinality(Passing) + 1
         /\ (pc[c] = "passing" /\ pc'[c] # "passing") =>
              Cardinality(Passing') = Cardinality(Passing) - 1 /\ Cardinality(Passing) > 0
<1>1. cur[c] \in Calls /\ \A d \in Callers : d # c => cur[d] # cur[c]
  BY CallerFacts DEF Basic, CallInv
<1>2. ASSUME pc[c] # "passing", pc'[c] = "passing"
      PROVE  Passing' = Passing \cup {cur[c]} /\ cur[c] \notin Passing
  BY <1>1, <1>2 DEF Passing
<1>3. ASSUME pc[c] = "passing", pc'[c] # "passing"
      PROVE  Passing' = Passing \ {cur[c]} /\ cur[c] \in Passing
  BY <1>1, <1>3 DEF Passing
<1> DEFINE P == Passing
           R == Passing'
           n == cur[c]
<1>4. IsFiniteSet(P) /\ Cardinality(P) \in Nat
  BY PassingType
<1> HIDE DEF P, R, n
<1>5. (R = P \cup {n} /\ n \notin P) => Cardinality(R) = Cardinality(P) + 1
  BY <1>4, FS_AddElement
<1>6. (R = P \ {n} /\ n \in P) => Cardinality(R) = Cardinality(P) - 1 /\ Cardinality(P) > 0
  <2>1. (n \in P) => Cardinality(P) # 0
    BY <1>4, FS_EmptySet
  <2>2. (R = P \ {n} /\ n \in P) => Cardinality(R) = Cardinality(P) - 1
    BY <1>4, FS_RemoveElement
  <2> QED BY <1>4, <2>1, <2>2
<1> QED BY <1>2, <1>3, <1>5, <1>6 DEF P, R, n

LEMMA NextTaskCount ==
  ASSUME TypeOK, NEW live \in BOOLEAN, NEW u, nextTask(live, u)
  PROVE  Cardinality(Asked(taskQueue')) + InFlight'
           <= Cardinality(Asked(taskQueue)) + (IF u.call = 0 THEN 0 ELSE 1)
<1>1. taskQueue \in Seq(Tasks) /\ Cardinality(Asked(taskQueue)) \in Nat
  BY AskedType DEF TypeOK, SessionType
<1>2. CASE taskQueue = << >>
  <2>1. taskQueue' = taskQueue /\ inflight' = u
    BY <1>1, <1>2, NextTaskFacts
  <2> QED BY <1>1, <2>1 DEF InFlight
<1>3. CASE taskQueue # << >>
  <2>1. taskQueue' = Tail(taskQueue) /\ inflight' = Head(taskQueue)
    BY <1>1, <1>3, NextTaskFacts
  <2>2. Tail(taskQueue) \in Seq(Tasks)
    BY <1>1, <1>3, TailFacts
  <2>3. Cardinality(Asked(Tail(taskQueue))) \in Nat
    BY <2>2, AskedType
  <2>4. InFlight' = IF Head(taskQueue).call = 0 THEN 0 ELSE 1
    BY <2>1 DEF InFlight
  <2>5. Cardinality(Asked(Tail(taskQueue))) + InFlight' <= Cardinality(Asked(taskQueue))
    BY <1>1, <1>3, <2>4, AskedTail
  <2> QED BY <1>1, <2>1, <2>3, <2>4, <2>5
<1> QED BY <1>2, <1>3

LEMMA CountInit == Init => CountInv
<1> SUFFICES ASSUME Init PROVE CountInv
  OBVIOUS
<1>1. Passing = {}
  BY DEF Init, Passing
<1>2. Cardinality(Passing) = 0 /\ Len(results) = 0 /\ InFlight = 0 /\ calls = 0
      /\ Cardinality(Asked(taskQueue)) = 0
  BY <1>1, FS_EmptySet, AskedEmpty, EmptySeq, ResultTypes DEF Init, InFlight
<1> QED BY <1>2 DEF CountInv

LEMMA CountStep == Basic /\ CountInv /\ [Next]_vars => CountInv'
<1> SUFFICES ASSUME Basic, CountInv, [Next]_vars PROVE CountInv'
  OBVIOUS
<1> DEFINE L == Len(results)
           P == Cardinality(Passing)
           A == Cardinality(Asked(taskQueue))
           F == InFlight
           L2 == Len(results')
           P2 == Cardinality(Passing')
           A2 == Cardinality(Asked(taskQueue'))
           F2 == InFlight'
<1>1. /\ TypeOK /\ taskQueue \in Seq(Tasks) /\ Len(taskQueue) <= QueueCap
      /\ results \in Seq(Results) /\ results' \in Seq(Results) /\ taskQueue' \in Seq(Tasks)
      /\ calls \in Nat /\ CallerType
  <2>1. TypeOK /\ TypeOK'
    BY TypeStep DEF Basic
  <2>2. results' \in Seq(Results) /\ taskQueue' \in Seq(Tasks)
    BY <2>1 DEF TypeOK, SessionType
  <2>3. taskQueue \in Seq(Tasks) /\ Len(taskQueue) <= QueueCap /\ results \in Seq(Results)
    BY <2>1 DEF TypeOK, SessionType
  <2>4. calls \in Nat
    BY <2>1 DEF TypeOK, HistoryType
  <2>5. CallerType
    BY <2>1, Zenon DEF TypeOK
  <2> QED BY <2>1, <2>2, <2>3, <2>4, <2>5, Zenon
<1>2. L \in Nat /\ L2 \in Nat /\ P \in Nat /\ P2 \in Nat /\ A \in Nat /\ A2 \in Nat
  BY <1>1, LenProperties, PassingType, AskedType
<1>3. F \in {0, 1} /\ F2 \in {0, 1}
  BY DEF InFlight
<1>4. L + P + A + F <= calls
  BY DEF CountInv
<1>5. ASSUME NEW d \in Int, L2 + P2 + A2 + F2 <= L + P + A + F + d, calls' = calls + d
      PROVE  CountInv'
  <2> HIDE DEF L, P, A, F, L2, P2, A2, F2
  <2>1. L2 + P2 + A2 + F2 <= calls'
    BY <1>1, <1>2, <1>3, <1>4, <1>5
  <2> QED BY <2>1 DEF CountInv, L, P, A, F, L2, P2, A2, F2
<1>6. UNCHANGED <<pc, cur>> => P2 = P
  BY DEF Passing
<1>7. ASSUME NEW c \in Callers, NEW k \in Kinds, Call(c, k) PROVE CountInv'
  <2>1. TaskOf(k, calls + 1) \in Tasks /\ taskQueue' = enqueue(taskQueue, TaskOf(k, calls + 1))
    BY <1>7, CallFacts DEF Call
  <2>2. \A i \in DOMAIN taskQueue' :
          \/ i \in DOMAIN taskQueue /\ taskQueue'[i] = taskQueue[i]
          \/ i = Len(taskQueue) + 1
    BY <1>1, <2>1, EnqueueStep
  <2>3. A2 <= A + 1
    BY <1>1, <2>2, AskedGrows
  <2>4. Passing' = Passing
    BY <1>1, <1>7, CallFacts DEF Call, Passing, CallerType
  <2>5. L2 = L /\ F2 = F /\ P2 = P /\ calls' = calls + 1
    BY <1>7, <2>4 DEF Call, InFlight
  <2> HIDE DEF L, P, A, F, L2, P2, A2, F2
  <2>6. L2 + P2 + A2 + F2 <= L + P + A + F + 1
    BY <1>2, <1>3, <2>3, <2>5
  <2> QED BY <1>5, <2>5, <2>6
<1>8. ASSUME NEW c \in Callers, Register(c) \/ TakeMine(c) \/ Timeout(c)
      PROVE  CountInv'
  <2>1. Passing' = Passing
    BY <1>1, <1>8 DEF Register, TakeMine, Timeout, Return, Release, Passing, CallerType
  <2>2. L2 = L /\ F2 = F /\ P2 = P /\ A2 = A /\ calls' = calls + 0
    BY <1>1, <1>8, <2>1 DEF Register, TakeMine, Timeout, InFlight
  <2> HIDE DEF L, P, A, F, L2, P2, A2, F2
  <2>3. L2 + P2 + A2 + F2 <= L + P + A + F + 0
    BY <1>2, <1>3, <2>2
  <2> QED BY <1>5, <2>2, <2>3
<1>9. ASSUME results # << >>, results' = Tail(results) PROVE L2 = L - 1
  BY <1>1, <1>9, TailFacts
<1>10. ASSUME NEW c \in Callers, TakeShared(c) PROVE CountInv'
  <2>1. Passing' = Passing
    BY <1>1, <1>10 DEF TakeShared, Return, Release, Passing, CallerType
  <2>2. L2 = L - 1 /\ F2 = F /\ P2 = P /\ A2 = A /\ calls' = calls + 0
    <3>1. L2 = L - 1
      BY <1>9, <1>10 DEF TakeShared
    <3>2. F2 = F /\ P2 = P /\ A2 = A /\ calls' = calls + 0
      BY <1>1, <1>10, <2>1 DEF TakeShared, InFlight
    <3> QED BY <3>1, <3>2
  <2> HIDE DEF L, P, A, F, L2, P2, A2, F2
  <2>3. L2 + P2 + A2 + F2 <= L + P + A + F + 0
    BY <1>2, <1>3, <2>2
  <2> QED BY <1>5, <2>2, <2>3
<1>11. ASSUME NEW c \in Callers, TakeForeign(c) PROVE CountInv'
  <2>1. /\ pc[c] = "waiting" /\ pc'[c] = "passing" /\ cur'[c] = cur[c]
        /\ \A d \in Callers : d # c => pc'[d] = pc[d] /\ cur'[d] = cur[d]
    BY <1>1, <1>11 DEF TakeForeign, CallerType
  <2>2. P2 = P + 1
    BY <2>1, PassingFacts
  <2>3. L2 = L - 1 /\ F2 = F /\ A2 = A /\ calls' = calls + 0
    <3>1. L2 = L - 1
      BY <1>9, <1>11 DEF TakeForeign
    <3>2. F2 = F /\ A2 = A /\ calls' = calls + 0
      BY <1>1, <1>11 DEF TakeForeign, InFlight
    <3> QED BY <3>1, <3>2
  <2> HIDE DEF L, P, A, F, L2, P2, A2, F2
  <2>4. L2 + P2 + A2 + F2 <= L + P + A + F + 0
    BY <1>2, <1>3, <2>2, <2>3
  <2> QED BY <1>5, <2>3, <2>4
<1>12. ASSUME NEW n, NEW r \in Results, Send(n, r) PROVE L2 <= L + 1
  BY <1>1, <1>2, <1>12, SendFacts, AppendFacts
<1>13. ASSUME NEW c \in Callers, PutBack(c) PROVE CountInv'
  <2>1. /\ pc[c] = "passing" /\ pc'[c] = "waiting" /\ cur'[c] = cur[c]
        /\ \A d \in Callers : d # c => pc'[d] = pc[d] /\ cur'[d] = cur[d]
        /\ held[c] \in Results /\ Send(found[c], held[c])
    BY <1>1, <1>13 DEF PutBack, PassOn, CallerType
  <2>2. P2 = P - 1
    BY <2>1, PassingFacts
  <2>3. ASSUME NEW n, n = found[c], NEW r, r = held[c] PROVE r \in Results /\ Send(n, r)
    BY <2>1, <2>3 DEF Send
  <2>4. L2 <= L + 1
    BY <1>12, <2>3
  <2>5. F2 = F /\ A2 = A /\ calls' = calls + 0
    BY <1>1, <1>13 DEF PutBack, InFlight
  <2> HIDE DEF L, P, A, F, L2, P2, A2, F2
  <2>6. L2 + P2 + A2 + F2 <= L + P + A + F + 0
    BY <1>2, <1>3, <2>2, <2>4, <2>5
  <2> QED BY <1>5, <2>5, <2>6
<1>14. CASE Refresh
  <2>1. /\ Background("gpv") \in Tasks /\ Background("gpv").call = 0
        /\ taskQueue' = enqueue(taskQueue, Background("gpv"))
    BY <1>14, TaskTypes DEF Types, Background, Refresh
  <2>2. \A i \in DOMAIN taskQueue' :
          (i \in DOMAIN taskQueue /\ taskQueue'[i] = taskQueue[i]) \/ taskQueue'[i].call = 0
    BY <1>1, <2>1, EnqueueStep
  <2>3. A2 <= A
    BY <1>1, <2>2, AskedGrows
  <2>4. L2 = L /\ F2 = F /\ P2 = P /\ calls' = calls + 0
    BY <1>1, <1>6, <1>14 DEF Refresh, InFlight
  <2> HIDE DEF L, P, A, F, L2, P2, A2, F2
  <2>5. L2 + P2 + A2 + F2 <= L + P + A + F + 0
    BY <1>2, <1>3, <2>3, <2>4
  <2> QED BY <1>5, <2>4, <2>5
<1>15. ASSUME NEW m, NEW live \in BOOLEAN, onInform(m, live) PROVE CountInv'
  <2>1. \A i \in DOMAIN taskQueue' :
          \/ i \in DOMAIN taskQueue /\ taskQueue'[i] = taskQueue[i]
          \/ taskQueue'[i].call = 0
          \/ i = Len(taskQueue) + 1 /\ taskQueue'[i] = inflight
    BY <1>1, <1>15, InformStep DEF Reads
  <2>2. A2 <= A + 1 /\ (inflight.call = 0 => A2 <= A)
    <3>1. A2 <= A + 1
      BY <1>1, <2>1, AskedGrows
    <3>2. ASSUME inflight.call = 0 PROVE A2 <= A
      <4>1. \A i \in DOMAIN taskQueue' :
              (i \in DOMAIN taskQueue /\ taskQueue'[i] = taskQueue[i]) \/ taskQueue'[i].call = 0
        BY <2>1, <3>2
      <4> QED BY <1>1, <4>1, AskedGrows
    <3> QED BY <3>1, <3>2
  <2>3. F2 = 0 /\ L2 = L /\ P2 = P /\ calls' = calls + 0
    BY <1>1, <1>6, <1>15, ResultTypes DEF onInform, InFlight
  <2>4. inflight.call # 0 => F = 1
    BY DEF InFlight
  <2> HIDE DEF L, P, A, F, L2, P2, A2, F2
  <2>5. L2 + P2 + A2 + F2 <= L + P + A + F + 0
    BY <1>2, <1>3, <2>2, <2>3, <2>4
  <2> QED BY <1>5, <2>3, <2>5
<1>16. ASSUME NEW m, NEW live \in BOOLEAN, onEmptyPost(m, live) PROVE CountInv'
  <2>1. nextTask(live, inflight) /\ F = IF inflight.call = 0 THEN 0 ELSE 1
    BY <1>16 DEF onEmptyPost, InFlight
  <2>2. A2 + F2 <= A + F
    <3>1. ASSUME NEW u, u = inflight PROVE nextTask(live, u)
      BY <2>1, <3>1 DEF nextTask
    <3>2. ASSUME NEW u, u = inflight PROVE A2 + F2 <= A + (IF u.call = 0 THEN 0 ELSE 1)
      BY <1>1, <3>1, <3>2, NextTaskCount
    <3> QED BY <2>1, <3>2
  <2>3. L2 = L /\ P2 = P /\ calls' = calls + 0
    BY <1>1, <1>6, <1>16 DEF onEmptyPost
  <2> HIDE DEF L, P, A, F, L2, P2, A2, F2
  <2>4. L2 + P2 + A2 + F2 <= L + P + A + F + 0
    BY <1>2, <1>3, <2>2, <2>3
  <2> QED BY <1>5, <2>3, <2>4
<1>17. ASSUME NEW live \in BOOLEAN, nextTask(live, NoTask) PROVE A2 + F2 <= A
  <2>1. A2 + F2 <= A + (IF NoTask.call = 0 THEN 0 ELSE 1)
    BY <1>1, <1>17, NextTaskCount
  <2> QED BY <1>2, <2>1, ResultTypes
<1>18. ASSUME NEW m, NEW live \in BOOLEAN, onAnswerUnawaited(m, live) PROVE CountInv'
  <2>1. A2 + F2 <= A + F
    <3>1. CASE nextTask(live, NoTask)
      <4> HIDE DEF A, F, A2, F2
      <4> QED BY <1>2, <1>3, <1>17, <3>1
    <3>2. CASE UNCHANGED <<taskQueue, inflight>>
      BY <1>2, <1>3, <3>2 DEF InFlight
    <3> QED BY <1>18, <3>1, <3>2 DEF onAnswerUnawaited
  <2>2. L2 = L /\ P2 = P /\ calls' = calls + 0
    BY <1>1, <1>6, <1>18 DEF onAnswerUnawaited
  <2> HIDE DEF L, P, A, F, L2, P2, A2, F2
  <2>3. L2 + P2 + A2 + F2 <= L + P + A + F + 0
    BY <1>2, <1>3, <2>1, <2>2
  <2> QED BY <1>5, <2>2, <2>3
<1>19. CASE finishInflight
  <2>1. A2 + F2 <= A
    BY <1>1, <1>17, <1>19, FinishResult DEF finishInflight
  <2>2. L2 <= L + 1
    <3> DEFINE r == [cid |-> inflight.cid, from |-> handling.msg.from,
                     err |-> handling.msg.kind = "fault"]
    <3>1. Send(target, r) /\ r \in Results
      BY <1>1, <1>19, FinishResult DEF finishInflight
    <3> HIDE DEF r
    <3>2. ASSUME NEW n, n = target, NEW s, s = r PROVE s \in Results /\ Send(n, s)
      BY <3>1, <3>2 DEF Send
    <3> QED BY <1>12, <3>2
  <2>3. F = 1
    <3>1. inflight \in KnownTasks /\ inflight.cid # 0
      BY <1>19 DEF finishInflight, Basic, TaskInv
    <3> QED BY <3>1, KnownFacts DEF InFlight
  <2>4. P2 = P /\ calls' = calls + 0
    BY <1>1, <1>6, <1>19 DEF finishInflight
  <2> HIDE DEF L, P, A, F, L2, P2, A2, F2
  <2>5. L2 + P2 + A2 + F2 <= L + P + A + F + 0
    BY <1>2, <1>3, <2>1, <2>2, <2>3, <2>4
  <2> QED BY <1>5, <2>4, <2>5
<1>20. CASE \/ \E m \in {post} \cup late, live \in BOOLEAN : onAnswer(m, live)
            \/ Inform \/ EmptyPost \/ Execute \/ Refuse \/ Abandon \/ UNCHANGED vars
  <2>1. UNCHANGED <<results, taskQueue, inflight, pc, cur, calls>>
    BY <1>20 DEF onAnswer, Inform, EmptyPost, Execute, Refuse, Abandon
  <2> QED BY <2>1 DEF CountInv, Passing, InFlight
<1> QED BY <1>7, <1>8, <1>10, <1>11, <1>13, <1>14, <1>15, <1>16, <1>18, <1>19, <1>20,
           NextCases


-----------------------------------------------------------------------------
(* What is awaited is kept.                                                *)

LEMMA WaitingFacts ==
  ASSUME Basic, NEW n \in Calls, Waiting(n)
  PROVE  n \in Issued /\ IdOf(n) \in 1..Snapshot /\ IdOf(n) # 0
<1>1. PICK c \in Callers : pc[c] # "idle" /\ cur[c] = n
  BY DEF Waiting
<1> QED BY <1>1, CallerFacts

\* two callers that wait for one CommandID are the same
LEMMA WaitersDiffer ==
  ASSUME Basic, NEW n \in Calls, Waiting(n), NEW c \in Callers, pc[c] # "idle",
         IdOf(cur[c]) = IdOf(n)
  PROVE  cur[c] = n
<1>1. PICK d \in Callers : pc[d] # "idle" /\ cur[d] = n
  BY DEF Waiting
<1>2. cur[c] \in Calls /\ cur[d] \in Calls
  BY <1>1, CallerFacts
<1>3. CASE kind[cur[c]] = "snapshot" /\ kind[n] = "snapshot"
  <2>1. n <= cur[c] /\ cur[c] <= n
    BY <1>1, <1>2, <1>3 DEF Basic, CallInv
  <2> QED BY <1>2, <2>1 DEF Calls
<1> QED BY <1>2, <1>3, SameID DEF IdOf

\* there is room for the result, so it is sent
LEMMA Sent ==
  ASSUME TypeOK, NEW n, NEW r \in Results, Send(n, r), n # 0 => n \in Calls,
         Len(results) < ResultsCap, NEW id, id # 0
  PROVE  /\ \A i \in DOMAIN results : i \in DOMAIN results' /\ results'[i] = results[i]
         /\ \A m \in Calls : chan[m].cid = id => chan'[m].cid = id
<1>1. results \in Seq(Results) /\ chan \in [Calls -> Results]
  BY DEF TypeOK, SessionType
<1>2. CASE n # 0 /\ chan[n] = NoResult /\ chan' = [chan EXCEPT ![n] = r] /\ UNCHANGED results
  <2>1. \A m \in Calls : m # n => chan'[m] = chan[m]
    BY <1>1, <1>2
  <2>2. n \in Calls /\ chan'[n] = r /\ chan[n].cid # id
    BY <1>1, <1>2, ResultTypes
  <2> QED BY <1>2, <2>1, <2>2
<1>3. CASE results' = Append(results, r) /\ UNCHANGED chan
  <2>1. /\ Len(results) + 1 \in DOMAIN results' /\ results'[Len(results) + 1] = r
        /\ \A i \in DOMAIN results : i \in DOMAIN results' /\ results'[i] = results[i]
    BY <1>1, <1>3, AppendFacts
  <2> QED BY <1>3, <2>1
<1> QED BY <1>2, <1>3, SendFacts

\* and is then in a channel
LEMMA SentArrives ==
  ASSUME TypeOK, NEW n, NEW r \in Results, Send(n, r), n # 0 => n \in Calls,
         Len(results) < ResultsCap
  PROVE  \/ \E i \in DOMAIN results' : results'[i] = r
         \/ \E m \in Calls : chan'[m] = r
<1>1. results \in Seq(Results) /\ chan \in [Calls -> Results]
  BY DEF TypeOK, SessionType
<1>2. CASE n # 0 /\ chan[n] = NoResult /\ chan' = [chan EXCEPT ![n] = r] /\ UNCHANGED results
  BY <1>1, <1>2
<1>3. CASE results' = Append(results, r) /\ UNCHANGED chan
  <2>1. Len(results) + 1 \in DOMAIN results' /\ results'[Len(results) + 1] = r
    BY <1>1, <1>3, AppendFacts
  <2> QED BY <2>1
<1> QED BY <1>2, <1>3, SendFacts

LEMMA KeptInit == Init => KeptInv
BY DEF Init, KeptInv, Waiting

\* the tasks and results of another command are where they were, or moved
LEMMA HasStep ==
  ASSUME Basic, AgreeInv, CountInv, [Next]_vars, lates' = 0, calls' <= ResultsCap,
         NEW n \in Calls, Waiting(n), Waiting(n)', ~Rebooting(n), n \notin dropped',
         Has(n)
  PROVE  Has(n)'
<1> DEFINE id == IdOf(n)
<1>1. /\ TypeOK /\ lates = 0 /\ SessionType /\ CallerType
      /\ taskQueue \in Seq(Tasks) /\ results \in Seq(Results)
      /\ inflight \in KnownTasks /\ n # 0
  <2>1. TypeOK /\ TaskInv
    BY Zenon DEF Basic
  <2>2. SessionType /\ CallerType
    BY <2>1, Zenon DEF TypeOK
  <2>3. lates = 0
    BY <2>1, LatesGrow DEF TypeOK
  <2>4. taskQueue \in Seq(Tasks) /\ results \in Seq(Results) /\ inflight \in KnownTasks
    BY <2>1, <2>2 DEF SessionType, TaskInv
  <2>5. n # 0
    BY DEF Calls
  <2> QED BY <2>1, <2>2, <2>3, <2>4, <2>5, Zenon
<1>2. n \in Issued /\ id # 0 /\ id' = id
  BY WaitingFacts, KindFixed
<1> HIDE DEF id
<1>3. Has(n)' <=> \/ \E i \in DOMAIN taskQueue' : taskQueue'[i].call = n
                  \/ inflight'.call = n
                  \/ \E i \in DOMAIN results' : results'[i].cid = id
                  \/ \E m \in Calls : chan'[m].cid = id
                  \/ \E c \in Callers : held'[c].cid = id
  BY <1>2 DEF Has, id
<1>4. \/ \E i \in DOMAIN taskQueue : taskQueue[i].call = n
      \/ inflight.call = n
      \/ \E i \in DOMAIN results : results[i].cid = id
      \/ \E m \in Calls : chan[m].cid = id
      \/ \E c \in Callers : held[c].cid = id
  BY DEF Has, id
<1>5. calls \in 0..MaxCalls /\ calls <= ResultsCap
  <2>1. calls \in 0..MaxCalls
    BY <1>1 DEF TypeOK, HistoryType
  <2>2. calls' = calls \/ calls' = calls + 1
    BY NextCases, CallersQuiet, DeviceUntouched, CallFacts
  <2> QED BY <2>1, <2>2
<1>6. CASE UNCHANGED <<taskQueue, inflight, results, chan, held>>
  BY <1>3, <1>4, <1>6
<1>7. ASSUME NEW c \in Callers, NEW k \in Kinds, Call(c, k) PROVE Has(n)'
  <2>1. TaskOf(k, calls + 1) \in Tasks /\ taskQueue' = enqueue(taskQueue, TaskOf(k, calls + 1))
        /\ UNCHANGED <<inflight, results, chan, held>>
    BY <1>7, CallFacts DEF Call
  <2>2. \A i \in DOMAIN taskQueue : i \in DOMAIN taskQueue' /\ taskQueue'[i] = taskQueue[i]
    BY <1>1, <2>1, EnqueueStep
  <2> QED BY <1>3, <1>4, <2>1, <2>2
<1>8. ASSUME NEW c \in Callers, Register(c) \/ Timeout(c)
      PROVE  UNCHANGED <<taskQueue, inflight, results, chan, held>>
  BY <1>8 DEF Register, Timeout
<1>9. ASSUME NEW c \in Callers, pc[c] = "waiting", Release(c)
      PROVE  IdOf(cur[c]) # id
  <2> SUFFICES ASSUME IdOf(cur[c]) = id PROVE FALSE
    OBVIOUS
  <2>1. cur[c] = n
    BY <1>9, WaitersDiffer DEF id
  <2>2. \A d \in Callers : d # c => cur[d] # n /\ cur'[d] = cur[d]
    BY <1>1, <1>9, <2>1 DEF Basic, CallInv, Release, CallerType
  <2>3. cur'[c] = 0
    BY <1>1, <1>9 DEF Release, CallerType
  <2> QED BY <1>1, <2>2, <2>3 DEF Waiting
<1>10. ASSUME NEW c \in Callers, TakeMine(c) PROVE Has(n)'
  <2>1. /\ cur[c] \in Calls /\ chan[cur[c]] # NoResult
        /\ UNCHANGED <<taskQueue, inflight, results, held>>
        /\ \A m \in Calls : m # cur[c] => chan'[m] = chan[m]
    BY <1>1, <1>10, CallerFacts DEF TakeMine, SessionType
  <2>2. chan[cur[c]].cid = IdOf(cur[c]) /\ IdOf(cur[c]) # id
    BY <1>9, <1>10, <2>1 DEF TakeMine, Return, Basic, ResultInv, IdOf
  <2> QED BY <1>3, <1>4, <2>1, <2>2
<1>11. ASSUME results # << >>, results' = Tail(results)
       PROVE  \A i \in DOMAIN results :
                \/ results[i] = Head(results)
                \/ \E j \in DOMAIN results' : results'[j] = results[i]
  BY <1>1, <1>11, TailFacts
<1>12. ASSUME NEW c \in Callers, TakeShared(c) PROVE Has(n)'
  <2>1. /\ results # << >> /\ results' = Tail(results)
        /\ UNCHANGED <<taskQueue, inflight, chan, held>>
    BY <1>12 DEF TakeShared
  <2>2. Head(results).cid = IdOf(cur[c]) /\ IdOf(cur[c]) # id
    BY <1>9, <1>12 DEF TakeShared, Return, IsMine, IdOf
  <2> QED BY <1>3, <1>4, <1>11, <2>1, <2>2
<1>13. ASSUME NEW c \in Callers, TakeForeign(c) PROVE Has(n)'
  <2>1. /\ results # << >> /\ results' = Tail(results)
        /\ UNCHANGED <<taskQueue, inflight, chan>>
    BY <1>13 DEF TakeForeign
  <2>2. /\ held'[c] = Head(results) /\ held[c] = NoResult
        /\ \A d \in Callers : d # c => held'[d] = held[d]
    BY <1>1, <1>13 DEF TakeForeign, CallerType, Basic, CallInv
  <2>3. held[c].cid # id
    BY <1>2, <2>2, ResultTypes
  <2> QED BY <1>3, <1>4, <1>11, <2>1, <2>2, <2>3
<1>14. /\ Len(results) \in Nat /\ Cardinality(Passing) \in Nat
       /\ Cardinality(Asked(taskQueue)) \in Nat /\ InFlight \in {0, 1}
       /\ Len(results) + Cardinality(Passing) + Cardinality(Asked(taskQueue)) + InFlight
            <= calls
  BY <1>1, LenProperties, PassingType, AskedType DEF InFlight, CountInv
<1>15. ASSUME NEW c \in Callers, PutBack(c) PROVE Has(n)'
  <2>1. /\ pc[c] = "passing" /\ held[c] \in Results /\ Send(found[c], held[c])
        /\ found[c] \in 0..MaxCalls /\ UNCHANGED <<taskQueue, inflight>>
        /\ pc'[c] = "waiting" /\ cur'[c] = cur[c]
        /\ \A d \in Callers : d # c =>
             held'[d] = held[d] /\ pc'[d] = pc[d] /\ cur'[d] = cur[d]
    BY <1>1, <1>15 DEF PutBack, PassOn, CallerType
  <2>2. Cardinality(Passing) > 0
    BY <2>1, PassingFacts
  <2>3. Len(results) < ResultsCap
    BY <1>5, <1>14, <2>2
  <2>4. found[c] # 0 => found[c] \in Calls
    BY <2>1 DEF Calls
  <2>5. ASSUME NEW m, m = found[c], NEW r, r = held[c]
        PROVE  r \in Results /\ Send(m, r) /\ (m # 0 => m \in Calls)
    BY <2>1, <2>4, <2>5 DEF Send
  <2>6. /\ \A i \in DOMAIN results : i \in DOMAIN results' /\ results'[i] = results[i]
        /\ \A m \in Calls : chan[m].cid = id => chan'[m].cid = id
        /\ held[c].cid = id => \/ \E i \in DOMAIN results' : results'[i].cid = id
                               \/ \E m \in Calls : chan'[m].cid = id
    <3> SUFFICES ASSUME NEW m, m = found[c], NEW r, r = held[c]
                 PROVE  /\ \A i \in DOMAIN results :
                             i \in DOMAIN results' /\ results'[i] = results[i]
                        /\ \A j \in Calls : chan[j].cid = id => chan'[j].cid = id
                        /\ r.cid = id => \/ \E i \in DOMAIN results' : results'[i].cid = id
                                         \/ \E j \in Calls : chan'[j].cid = id
      OBVIOUS
    <3>1. r \in Results /\ Send(m, r) /\ (m # 0 => m \in Calls)
      BY <2>5
    <3>2. \A i \in DOMAIN results : i \in DOMAIN results' /\ results'[i] = results[i]
      BY <1>1, <1>2, <2>3, <3>1, Sent
    <3>3. \A j \in Calls : chan[j].cid = id => chan'[j].cid = id
      BY <1>1, <1>2, <2>3, <3>1, Sent
    <3>4. \/ \E i \in DOMAIN results' : results'[i] = r
          \/ \E j \in Calls : chan'[j] = r
      BY <1>1, <2>3, <3>1, SentArrives
    <3> QED BY <3>2, <3>3, <3>4
  <2> QED BY <1>3, <1>4, <2>1, <2>6
<1>16. ASSUME NEW live \in BOOLEAN, NEW u, nextTask(live, u),
              \E i \in DOMAIN taskQueue : taskQueue[i].call = n
       PROVE  Has(n)'
  <2>1. PICK i \in DOMAIN taskQueue : taskQueue[i].call = n
    BY <1>16
  <2>2. taskQueue # << >>
    BY <2>1
  <2>3. taskQueue' = Tail(taskQueue) /\ inflight' = taskQueue[1]
    BY <1>1, <1>16, <2>2, NextTaskFacts, TailFacts
  <2>4. i = 1 \/ (i - 1 \in DOMAIN taskQueue' /\ taskQueue'[i - 1] = taskQueue[i])
    BY <1>1, <2>1, <2>2, <2>3, TailFacts
  <2> QED BY <1>3, <2>1, <2>3, <2>4
<1>17. CASE finishInflight
  <2> DEFINE r == [cid |-> inflight.cid, from |-> handling.msg.from,
                   err |-> handling.msg.kind = "fault"]
  <2>1. /\ inflight.cid # 0 /\ Send(target, r) /\ r \in Results /\ r.cid = inflight.cid
        /\ handling.live \in BOOLEAN /\ nextTask(handling.live, NoTask)
        /\ target \in 0..MaxCalls /\ UNCHANGED held
    BY <1>1, <1>17, FinishResult DEF finishInflight, Basic, TaskInv
  <2>2. InFlight = 1 /\ (inflight.call = n => inflight.cid = id)
    BY <1>1, <2>1, KnownFacts DEF InFlight, id, IdOf
  <2>3. Len(results) < ResultsCap
    BY <1>5, <1>14, <2>2
  <2>4. target # 0 => target \in Calls
    BY <2>1 DEF Calls
  <2> HIDE DEF r
  <2>5. /\ \A i \in DOMAIN results : i \in DOMAIN results' /\ results'[i] = results[i]
        /\ \A m \in Calls : chan[m].cid = id => chan'[m].cid = id
        /\ r.cid = id => \/ \E i \in DOMAIN results' : results'[i].cid = id
                         \/ \E m \in Calls : chan'[m].cid = id
    <3> SUFFICES ASSUME NEW m, m = target, NEW s, s = r
                 PROVE  /\ \A i \in DOMAIN results :
                             i \in DOMAIN results' /\ results'[i] = results[i]
                        /\ \A j \in Calls : chan[j].cid = id => chan'[j].cid = id
                        /\ s.cid = id => \/ \E i \in DOMAIN results' : results'[i].cid = id
                                         \/ \E j \in Calls : chan'[j].cid = id
      OBVIOUS
    <3>1. s \in Results /\ Send(m, s) /\ (m # 0 => m \in Calls)
      BY <2>1, <2>4 DEF Send
    <3>2. \A i \in DOMAIN results : i \in DOMAIN results' /\ results'[i] = results[i]
      BY <1>1, <1>2, <2>3, <3>1, Sent
    <3>3. \A j \in Calls : chan[j].cid = id => chan'[j].cid = id
      BY <1>1, <1>2, <2>3, <3>1, Sent
    <3>4. \/ \E i \in DOMAIN results' : results'[i] = s
          \/ \E j \in Calls : chan'[j] = s
      BY <1>1, <2>3, <3>1, SentArrives
    <3> QED BY <3>2, <3>3, <3>4
  <2>6. CASE \E i \in DOMAIN taskQueue : taskQueue[i].call = n
    <3> SUFFICES ASSUME NEW live, live = handling.live PROVE Has(n)'
      OBVIOUS
    <3>1. live \in BOOLEAN /\ nextTask(live, NoTask)
      BY <2>1 DEF nextTask, Respond
    <3> QED BY <1>16, <2>6, <3>1
  <2> QED BY <1>3, <1>4, <2>1, <2>2, <2>5, <2>6
<1>18. CASE Refresh
  <2>1. /\ Background("gpv") \in Tasks
        /\ taskQueue' = enqueue(taskQueue, Background("gpv"))
        /\ UNCHANGED <<inflight, results, chan, held>>
    BY <1>18, TaskTypes DEF Types, Refresh
  <2>2. \A i \in DOMAIN taskQueue : i \in DOMAIN taskQueue' /\ taskQueue'[i] = taskQueue[i]
    BY <1>1, <2>1, EnqueueStep
  <2> QED BY <1>3, <1>4, <2>1, <2>2
<1>19. ASSUME NEW m, NEW live \in BOOLEAN, onInform(m, live) PROVE Has(n)'
  <2>1. /\ UNCHANGED <<results, chan, held>>
        /\ dropped' = IF Full(taskQueue) THEN dropped \cup ({inflight.call} \ {0})
                      ELSE dropped
    BY <1>19 DEF onInform
  <2>2. \A i \in DOMAIN taskQueue : i \in DOMAIN taskQueue' /\ taskQueue'[i] = taskQueue[i]
    BY <1>1, <1>19, InformStep
  <2>3. CASE inflight.call = n
    <3>1. Retried(inflight) /\ ~Full(taskQueue)
      BY <1>1, <2>1, <2>3, KnownFacts DEF Rebooting
    <3>2. /\ Len(taskQueue) + 1 \in DOMAIN taskQueue'
          /\ taskQueue'[Len(taskQueue) + 1] = inflight
      BY <1>1, <1>19, <3>1, InformStep
    <3> QED BY <1>3, <2>3, <3>2
  <2> QED BY <1>3, <1>4, <2>1, <2>2, <2>3
<1>20. ASSUME NEW m \in {post} \cup late, NEW live \in BOOLEAN, onEmptyPost(m, live)
       PROVE  Has(n)'
  <2>1. UNCHANGED <<results, chan, held>> /\ nextTask(live, inflight) /\ m.kind = "empty"
        /\ Arrives(m, live)
    BY <1>20 DEF onEmptyPost
  <2>2. late = {} /\ m = post
    BY <1>1, <1>20 DEF AgreeInv
  <2>3. inflight.call # n
    BY <1>1, <2>1, <2>2, ResultTypes DEF AgreeInv
  <2>4. CASE \E i \in DOMAIN taskQueue : taskQueue[i].call = n
    <3> SUFFICES ASSUME NEW u, u = inflight PROVE Has(n)'
      OBVIOUS
    <3>1. nextTask(live, u)
      BY <2>1 DEF nextTask
    <3> QED BY <1>16, <2>4, <3>1
  <2> QED BY <1>3, <1>4, <2>1, <2>3, <2>4
<1>21. ASSUME NEW m, NEW live \in BOOLEAN, onAnswerUnawaited(m, live) PROVE Has(n)'
  <2>1. UNCHANGED <<results, chan, held>> /\ inflight.cid = 0
    BY <1>21 DEF onAnswerUnawaited
  <2>2. inflight.call # n
    BY <1>1, <2>1, KnownFacts
  <2>3. CASE nextTask(live, NoTask)
    BY <1>3, <1>4, <1>16, <2>1, <2>2, <2>3
  <2>4. CASE UNCHANGED <<taskQueue, inflight>>
    BY <1>3, <1>4, <2>1, <2>4
  <2> QED BY <1>21, <2>3, <2>4 DEF onAnswerUnawaited
<1>22. CASE \/ \E m \in {post} \cup late, live \in BOOLEAN : onAnswer(m, live)
            \/ Inform \/ EmptyPost \/ Execute \/ Refuse \/ Abandon \/ UNCHANGED vars
  <2>1. UNCHANGED <<taskQueue, inflight, results, chan, held>>
    BY <1>22 DEF onAnswer, Inform, EmptyPost, Execute, Refuse, Abandon
  <2> QED BY <1>6, <2>1
<1> QED BY <1>6, <1>7, <1>8, <1>10, <1>12, <1>13, <1>15, <1>17, <1>18, <1>19, <1>20,
           <1>21, <1>22, NextCases


\* who waits after a step waited before it, or has just called
LEMMA WaitingBefore ==
  ASSUME Basic, [Next]_vars, NEW n \in Calls, Waiting(n)'
  PROVE  \/ Waiting(n)
         \/ \E c \in Callers, k \in Kinds : Call(c, k) /\ n = calls + 1
<1>1. CallerType /\ n # 0
  BY DEF Basic, TypeOK, Calls
<1>2. PICK c \in Callers : pc'[c] # "idle" /\ cur'[c] = n
  BY DEF Waiting
<1>3. CASE pc[c] # "idle" /\ cur[c] = n
  BY <1>3 DEF Waiting
<1>4. ASSUME NEW d \in Callers, NEW k \in Kinds, Call(d, k)
      PROVE  \/ pc[c] # "idle" /\ cur[c] = n
             \/ n = calls + 1
  BY <1>1, <1>2, <1>4 DEF Call, CallerType
<1>5. ASSUME NEW d \in Callers,
             Register(d) \/ TakeForeign(d) \/ PutBack(d)
      PROVE  pc[c] # "idle" /\ cur[c] = n
  BY <1>1, <1>2, <1>5 DEF Register, TakeForeign, PutBack, CallerType
<1>6. ASSUME NEW d \in Callers, TakeMine(d) \/ TakeShared(d) \/ Timeout(d)
      PROVE  pc[c] # "idle" /\ cur[c] = n
  <2>1. Release(d)
    BY <1>6 DEF TakeMine, TakeShared, Timeout, Return
  <2> QED BY <1>1, <1>2, <2>1 DEF Release, CallerType
<1>7. CASE UNCHANGED callers
  BY <1>2, <1>3, <1>7 DEF callers
<1> QED BY <1>3, <1>4, <1>5, <1>6, <1>7, NextCases, CallersQuiet

LEMMA DroppedStays ==
  ASSUME [Next]_vars
  PROVE  dropped \subseteq dropped'
<1>1. ASSUME NEW c \in Callers, NEW k \in Kinds, Call(c, k) PROVE dropped \subseteq dropped'
  BY <1>1 DEF Call
<1>2. ASSUME NEW m, NEW live, onInform(m, live) PROVE dropped \subseteq dropped'
  BY <1>2 DEF onInform
<1>3. CASE \/ \E m \in {post} \cup late, live \in BOOLEAN :
                \/ onEmptyPost(m, live) \/ onAnswerUnawaited(m, live) \/ onAnswer(m, live)
           \/ Refresh \/ finishInflight \/ Inform \/ EmptyPost \/ Execute \/ Refuse
           \/ Abandon \/ UNCHANGED vars
  BY <1>3 DEF onEmptyPost, onAnswerUnawaited, onAnswer, Refresh, finishInflight, Inform,
              EmptyPost, Execute, Refuse, Abandon, history, vars
<1> QED BY <1>1, <1>2, <1>3, NextCases, DeviceUntouched

LEMMA KeptStep == Basic /\ AgreeInv /\ CountInv /\ KeptInv /\ [Next]_vars => KeptInv'
<1> SUFFICES ASSUME Basic, AgreeInv, CountInv, KeptInv, [Next]_vars,
                    lates' = 0, calls' <= ResultsCap,
                    NEW n \in Calls, Waiting(n)', ~Rebooting(n)', n \notin dropped'
             PROVE  Has(n)'
  BY DEF KeptInv, Calls
<1>1. TypeOK /\ lates = 0 /\ calls \in 0..MaxCalls
  BY LatesGrow DEF Basic, TypeOK, HistoryType
<1>2. CASE Waiting(n)
  <2>1. n \in Issued
    BY <1>2, WaitingFacts
  <2>2. ~Rebooting(n)
    BY <2>1, KindFixed DEF Rebooting
  <2>3. n \notin dropped
    BY DroppedStays
  <2>4. calls <= ResultsCap
    <3>1. calls' = calls \/ calls' = calls + 1
      BY NextCases, CallersQuiet, DeviceUntouched, CallFacts
    <3> QED BY <1>1, <3>1, SessionAssumption
  <2>5. Has(n)
    BY <1>1, <1>2, <2>2, <2>3, <2>4 DEF KeptInv
  <2> QED BY <1>2, <2>2, <2>5, HasStep
<1>3. ASSUME NEW c \in Callers, NEW k \in Kinds, Call(c, k), n = calls + 1
      PROVE  Has(n)'
  <2>1. TaskOf(k, n) \in Tasks /\ taskQueue' = enqueue(taskQueue, TaskOf(k, n))
        /\ TaskOf(k, n).call = n
    BY <1>3, CallFacts DEF Call, TaskOf
  <2>2. ~Full(taskQueue)
    BY <1>3 DEF Call
  <2>3. /\ Len(taskQueue) + 1 \in DOMAIN taskQueue'
        /\ taskQueue'[Len(taskQueue) + 1] = TaskOf(k, n)
    BY <1>1, <2>1, <2>2, EnqueueStep
  <2> QED BY <2>1, <2>3 DEF Has
<1> QED BY <1>2, <1>3, WaitingBefore

LEMMA KeptMeans ==
  ASSUME KeptInv, lates = 0, calls <= ResultsCap
  PROVE  AwaitedIsKept
<1> SUFFICES ASSUME NEW n \in Calls, Has(n)
             PROVE  \/ \E t \in Elements(taskQueue) \cup {inflight} : t.call = n
                    \/ \E r \in ResultsInHand : r.cid = CommandID(kind[n], n)
  BY DEF KeptInv, AwaitedIsKept
<1> QED BY DEF Has, IdOf, Elements, ResultsInHand

\* While a caller waits, its task or the result of it is never lost, whatever
\* sessions the device abandons and whichever caller meets the result.  This
\* holds for as many calls as the shared channel has room for (256: a result
\* that finds it full is dropped), and as long as no request of an abandoned
\* session is handled late (an empty POST overwrites the task in flight).
THEOREM AwaitedStaysKept ==
  Spec => []((lates = 0 /\ calls <= ResultsCap) => AwaitedIsKept)
<1>1. Init => AgreeInv /\ CountInv /\ KeptInv
  BY AgreeInit, CountInit, KeptInit
<1>2. KeptInv => ((lates = 0 /\ calls <= ResultsCap) => AwaitedIsKept)
  BY KeptMeans
<1> QED BY <1>1, <1>2, BasicHolds, AgreeStep, CountStep, KeptStep, PTL DEF Spec
=============================================================================
