----------------------------- MODULE CwmpSession -----------------------------
(***************************************************************************)
(* One device's CWMP session in the agent's ACS (cwmp/session.go), the     *)
(* calls that queue tasks on it and wait for their results (Enqueue, Await *)
(* and RequestAndAwait in cwmp/server.go), and the device.                 *)
(*                                                                         *)
(* HTTP requests of the device are handled one at a time, under the        *)
(* session's mutex.  Callers are other goroutines: they meet the handler   *)
(* in the task queue, in the map of waiters and in the result channels.    *)
(* The device may abandon a session at any point; a request it had already *)
(* sent is then lost, or is handled late, after requests of its next       *)
(* session.                                                                *)
(*                                                                         *)
(* A task is known by its call: the number of the RequestAndAwait that     *)
(* queued it, or 0 for a read nobody waits for.  A result carries the call *)
(* of the task that the device really answered, which the code does not    *)
(* know; it is what the properties compare with.                           *)
(***************************************************************************)
EXTENDS Integers, Sequences, FiniteSets

CONSTANTS
  Callers,        \* goroutines that call RequestAndAwait
  Kinds,          \* what they ask for
  QueueCap,       \* capacity of taskQueue (256 in the code)
  ResultsCap,     \* capacity of results (256 in the code)
  FirstContact,   \* is firstContactGPV configured?
  MaxCalls,       \* bound: calls of RequestAndAwait
  MaxRefresh,     \* bound: calls of Refresh
  MaxDrops,       \* bound: sessions the device abandons
  MaxLate,        \* bound: requests handled after their session was abandoned
  MaxFaults       \* bound: CWMP faults and failed SaveWritability

ASSUME SessionAssumption ==
  /\ Kinds \subseteq {"spv", "query", "reboot", "snapshot"}
  /\ QueueCap \in Nat \ {0} /\ ResultsCap \in Nat \ {0}
  /\ FirstContact \in BOOLEAN
  /\ MaxCalls \in Nat \ {0} /\ MaxRefresh \in Nat /\ MaxDrops \in Nat
  /\ MaxLate \in Nat /\ MaxFaults \in Nat

VARIABLES
  \* the session
  taskQueue, results, waiters, inflight,
  loaded,     \* writability_loaded of the device's row
  handling,   \* the request whose result is being delivered
  target,     \* the waiter that deliver has looked up for it
  chan,       \* chan[n]: the private channel of call n
  \* the callers
  pc, cur, held, found,
  \* the device and the network
  cpe, post, late,
  \* what happened, for the properties
  calls, kind, got, executed, repeated, dropped,
  \* counters that bound the environment
  refreshes, drops, lates, faults

session == <<taskQueue, results, waiters, inflight, loaded, handling, target, chan>>
callers == <<pc, cur, held, found>>
wire == <<cpe, post, late>>
history == <<calls, kind, got, executed, repeated, dropped>>
bounds == <<refreshes, drops, lates, faults>>
vars == <<session, callers, wire, history, bounds>>

-----------------------------------------------------------------------------
(* Data.                                                                   *)

Calls == 1..MaxCalls
Snapshot == MaxCalls + 1        \* the CommandID all snapshots share
CommandIDs == 0..Snapshot       \* 0 is the empty CommandID
Types == {"gpv", "spv", "gpn", "reboot", "none"}

Tasks == [type : Types, cid : CommandIDs, call : 0..MaxCalls]
Results == [cid : CommandIDs, from : 0..MaxCalls, err : BOOLEAN]
Messages == [kind : {"none", "inform", "empty", "answer", "fault"},
             type : Types, from : 0..MaxCalls]

\* in the place of a nil pointer, an empty channel or no request
NoTask == [type |-> "none", cid |-> 0, call |-> 0]
NoResult == [cid |-> 0, from |-> 0, err |-> FALSE]
NoMessage == [kind |-> "none", type |-> "none", from |-> 0]

\* fire-and-forget reads
Background(ty) == [type |-> ty, cid |-> 0, call |-> 0]

CommandID(k, n) == IF k = "snapshot" THEN Snapshot ELSE n

TaskOf(k, n) ==
  [type |-> IF k \in {"query", "snapshot"} THEN "gpv" ELSE k,
   cid  |-> CommandID(k, n), call |-> n]

Elements(s) == {s[i] : i \in DOMAIN s}

-----------------------------------------------------------------------------
(* The channels.                                                           *)

\* defect: the queue grows past its capacity
Unbounded(q, t) == Append(q, t)

\* a full queue drops the task rather than block the caller
enqueue(q, t) == IF Len(q) < QueueCap THEN Append(q, t) ELSE q

Full(q) == Len(q) >= QueueCap

\* deliver, second half: the waiter's channel if it is empty, else the shared
\* one; when that is full as well the result is dropped
Send(n, r) ==
  IF n # 0 /\ chan[n] = NoResult
    THEN chan' = [chan EXCEPT ![n] = r] /\ UNCHANGED results
    ELSE /\ results' = IF Len(results) < ResultsCap THEN Append(results, r)
                       ELSE results
         /\ UNCHANGED chan

-----------------------------------------------------------------------------
(* Callers: RequestAndAwait.                                               *)

\* snapshots are taken by one goroutine (pushSnapshots), one after the other
Asks(k) == k = "snapshot" => \A c \in Callers : cur[c] # 0 => kind[cur[c]] # k

Call(c, k) ==
  /\ pc[c] = "idle" /\ calls < MaxCalls
  /\ Asks(k)
  /\ LET n == calls + 1
     IN  /\ taskQueue' = enqueue(taskQueue, TaskOf(k, n))
         /\ dropped' = IF Full(taskQueue) THEN dropped \cup {n} ELSE dropped
         /\ calls' = n /\ kind' = [kind EXCEPT ![n] = k]
         /\ cur' = [cur EXCEPT ![c] = n]
  /\ pc' = [pc EXCEPT ![c] = "queued"]
  /\ UNCHANGED <<results, waiters, inflight, loaded, handling, target, chan,
                 held, found, wire, got, executed, repeated, bounds>>

\* Await, up to waitFor: the task is already queued by now
Register(c) ==
  /\ pc[c] = "queued"
  /\ waiters' = [waiters EXCEPT ![CommandID(kind[cur[c]], cur[c])] = cur[c]]
  /\ pc' = [pc EXCEPT ![c] = "waiting"]
  /\ UNCHANGED <<taskQueue, results, inflight, loaded, handling, target, chan,
                 cur, held, found, wire, history, bounds>>

\* every return from Await releases the waiter
Release(c) ==
  /\ waiters' = [waiters EXCEPT ![CommandID(kind[cur[c]], cur[c])] = 0]
  /\ pc' = [pc EXCEPT ![c] = "idle"] /\ cur' = [cur EXCEPT ![c] = 0]

Return(c, r) == Release(c) /\ got' = [got EXCEPT ![cur[c]] = r]

TakeMine(c) ==
  /\ pc[c] = "waiting" /\ chan[cur[c]] # NoResult
  /\ Return(c, chan[cur[c]])
  /\ chan' = [chan EXCEPT ![cur[c]] = NoResult]
  /\ UNCHANGED <<taskQueue, results, inflight, loaded, handling, target, held,
                 found, wire, calls, kind, executed, repeated, dropped, bounds>>

\* defect: the first result on the shared channel is taken for one's own
AnyResult(c, r) == TRUE

IsMine(c, r) == r.cid = CommandID(kind[cur[c]], cur[c])

TakeShared(c) ==
  /\ pc[c] = "waiting" /\ results # << >> /\ IsMine(c, Head(results))
  /\ Return(c, Head(results)) /\ results' = Tail(results)
  /\ UNCHANGED <<taskQueue, inflight, loaded, handling, target, chan, held,
                 found, wire, calls, kind, executed, repeated, dropped, bounds>>

\* a result of another caller: it is handed to its waiter or put back
TakeForeign(c) ==
  /\ pc[c] = "waiting" /\ results # << >> /\ ~IsMine(c, Head(results))
  /\ held' = [held EXCEPT ![c] = Head(results)]
  /\ found' = [found EXCEPT ![c] = waiters[Head(results).cid]]
  /\ results' = Tail(results)
  /\ pc' = [pc EXCEPT ![c] = "passing"]
  /\ UNCHANGED <<taskQueue, waiters, inflight, loaded, handling, target, chan,
                 cur, wire, history, bounds>>

\* defect: a result that is not one's own is thrown away
Discard(c) == UNCHANGED <<chan, results>>

PassOn(c) == Send(found[c], held[c])

PutBack(c) ==
  /\ pc[c] = "passing"
  /\ PassOn(c)
  /\ held' = [held EXCEPT ![c] = NoResult] /\ found' = [found EXCEPT ![c] = 0]
  /\ pc' = [pc EXCEPT ![c] = "waiting"]
  /\ UNCHANGED <<taskQueue, waiters, inflight, loaded, handling, target, cur,
                 wire, history, bounds>>

\* the deadline, which the code meets in any pass of its select
Timeout(c) ==
  /\ pc[c] = "waiting"
  /\ Release(c)
  /\ UNCHANGED <<taskQueue, results, inflight, loaded, handling, target, chan,
                 held, found, wire, history, bounds>>

\* telemetry queues a read that nobody waits for
Refresh ==
  /\ refreshes < MaxRefresh /\ refreshes' = refreshes + 1
  /\ taskQueue' = enqueue(taskQueue, Background("gpv"))
  /\ UNCHANGED <<results, waiters, inflight, loaded, handling, target, chan,
                 callers, wire, history, drops, lates, faults>>

-----------------------------------------------------------------------------
(* The session: Handle, under its mutex.  The device's own RPCs (ATC,      *)
(* TransferComplete, GetRPCMethods) are answered without touching this     *)
(* state and are left out.                                                 *)

\* The request m and whether the device still waits for the response to it.
Arrives(m, live) ==
  /\ handling.msg = NoMessage
  /\ \/ live /\ post = m /\ m # NoMessage /\ post' = NoMessage /\ UNCHANGED late
     \/ ~live /\ m \in late /\ late' = late \ {m} /\ UNCHANGED post

\* the response, when the device is there to read it
Respond(live, st, t) ==
  cpe' = IF live THEN [st |-> st, task |-> t] ELSE cpe

\* defect: an unanswered reboot is sent again
AnyCommand(t) == t.cid # 0

\* an unanswered task goes back to the queue, a reboot or a read nobody waits
\* for does not
Retried(t) == t.cid # 0 /\ t.type # "reboot"

requeueOrphanedTask(q, t) == IF Retried(t) THEN enqueue(q, t) ELSE q

\* first contact: until the writability map is stored, every Inform queues the
\* walk and the managed parameters
FirstReads(q) ==
  IF loaded THEN q
  ELSE LET walk == enqueue(q, Background("gpn"))
       IN  IF FirstContact THEN enqueue(walk, Background("gpv")) ELSE walk

onInform(m, live) ==
  /\ m.kind = "inform" /\ Arrives(m, live)
  /\ taskQueue' = FirstReads(requeueOrphanedTask(taskQueue, inflight))
  /\ dropped' = IF Full(taskQueue) THEN dropped \cup ({inflight.call} \ {0})
                ELSE dropped
  /\ inflight' = NoTask
  /\ Respond(live, "ready", NoTask)
  /\ UNCHANGED <<results, waiters, loaded, handling, target, chan, callers,
                 calls, kind, got, executed, repeated, bounds>>

\* defect: the last task stays in the queue
KeepsOne(live, unanswered) ==
  IF Len(taskQueue) <= 1
    THEN inflight' = unanswered /\ Respond(live, "off", NoTask)
         /\ UNCHANGED taskQueue
    ELSE inflight' = Head(taskQueue) /\ taskQueue' = Tail(taskQueue)
         /\ Respond(live, "exec", Head(taskQueue))

\* hands out the next task, or 204, which ends the session
nextTask(live, unanswered) ==
  IF taskQueue = << >>
    THEN inflight' = unanswered /\ Respond(live, "off", NoTask)
         /\ UNCHANGED taskQueue
    ELSE inflight' = Head(taskQueue) /\ taskQueue' = Tail(taskQueue)
         /\ Respond(live, "exec", Head(taskQueue))

onEmptyPost(m, live) ==
  /\ m.kind = "empty" /\ Arrives(m, live)
  /\ nextTask(live, inflight)
  /\ UNCHANGED <<results, waiters, loaded, handling, target, chan, callers,
                 history, bounds>>

\* a GetParameterNamesResponse stores the map, unless the database fails
SaveWritability(m) ==
  IF m.kind = "answer" /\ m.type = "gpn"
    THEN \/ loaded' = TRUE /\ UNCHANGED faults
         \/ faults < MaxFaults /\ faults' = faults + 1 /\ UNCHANGED loaded
    ELSE UNCHANGED <<loaded, faults>>

\* an answer that nobody is to be told of; a fault out of turn gets 204
onAnswerUnawaited(m, live) ==
  /\ m.kind \in {"answer", "fault"} /\ Arrives(m, live)
  /\ inflight.cid = 0
  /\ SaveWritability(m)
  /\ IF m.kind = "fault" /\ inflight = NoTask
       THEN Respond(live, "off", NoTask) /\ UNCHANGED <<taskQueue, inflight>>
       ELSE nextTask(live, NoTask)
  /\ UNCHANGED <<results, waiters, handling, target, chan, callers, history,
                 refreshes, drops, lates>>

\* finishInflight, up to the waiter's lookup in deliver.  The answer is taken
\* for that of the task in flight.
onAnswer(m, live) ==
  /\ m.kind \in {"answer", "fault"} /\ Arrives(m, live)
  /\ inflight.cid # 0
  /\ SaveWritability(m)
  /\ handling' = [msg |-> m, live |-> live]
  /\ target' = waiters[inflight.cid]
  /\ UNCHANGED <<taskQueue, results, waiters, inflight, chan, callers, cpe,
                 history, refreshes, drops, lates>>

\* the rest of it: the result is sent and the next task handed out
finishInflight ==
  /\ handling.msg # NoMessage
  /\ Send(target, [cid |-> inflight.cid, from |-> handling.msg.from,
                   err |-> handling.msg.kind = "fault"])
  /\ nextTask(handling.live, NoTask)
  /\ handling' = [msg |-> NoMessage, live |-> FALSE] /\ target' = 0
  /\ UNCHANGED <<waiters, loaded, callers, post, late, history, bounds>>

-----------------------------------------------------------------------------
(* The device.                                                             *)

Posted(m) == post' = m /\ cpe' = [st |-> "wait", task |-> NoTask]

\* it dials in: its period is over or a connection request reached it
Inform ==
  /\ cpe.st = "off"
  /\ Posted([NoMessage EXCEPT !.kind = "inform"])
  /\ UNCHANGED <<session, callers, late, history, bounds>>

\* it has nothing (more) to send and leaves the turn to the ACS
EmptyPost ==
  /\ cpe.st = "ready"
  /\ Posted([NoMessage EXCEPT !.kind = "empty"])
  /\ UNCHANGED <<session, callers, late, history, bounds>>

Answer(kd) == [kind |-> kd, type |-> cpe.task.type, from |-> cpe.task.call]

Execute ==
  /\ cpe.st = "exec"
  /\ Posted(Answer("answer"))
  /\ executed' = executed \cup ({cpe.task.call} \ {0})
  /\ repeated' = repeated \cup ({cpe.task.call} \cap executed)
  /\ UNCHANGED <<session, callers, late, calls, kind, got, dropped, bounds>>

Refuse ==
  /\ cpe.st = "exec"
  /\ faults < MaxFaults /\ faults' = faults + 1
  /\ Posted(Answer("fault"))
  /\ UNCHANGED <<session, callers, late, history, refreshes, drops, lates>>

\* The session ends early.  A task just handed out was perhaps never read; a
\* request on its way is lost or will be handled late.
Abandon ==
  /\ cpe.st # "off"
  /\ drops < MaxDrops /\ drops' = drops + 1
  /\ cpe' = [st |-> "off", task |-> NoTask]
  /\ post' = NoMessage
  /\ \/ UNCHANGED <<late, lates>>
     \/ /\ post # NoMessage /\ lates < MaxLate /\ lates' = lates + 1
        /\ late' = late \cup {post}
  /\ handling' = [handling EXCEPT !.live = FALSE]
  /\ UNCHANGED <<taskQueue, results, waiters, inflight, loaded, target, chan,
                 callers, history, refreshes, faults>>

-----------------------------------------------------------------------------
Init ==
  /\ taskQueue = << >> /\ results = << >>
  /\ waiters = [i \in 1..Snapshot |-> 0]
  /\ inflight = NoTask /\ loaded = FALSE
  /\ handling = [msg |-> NoMessage, live |-> FALSE] /\ target = 0
  /\ chan = [n \in Calls |-> NoResult]
  /\ pc = [c \in Callers |-> "idle"] /\ cur = [c \in Callers |-> 0]
  /\ held = [c \in Callers |-> NoResult] /\ found = [c \in Callers |-> 0]
  /\ cpe = [st |-> "off", task |-> NoTask] /\ post = NoMessage /\ late = {}
  /\ calls = 0 /\ kind = [n \in Calls |-> "none"]
  /\ got = [n \in Calls |-> NoResult]
  /\ executed = {} /\ repeated = {} /\ dropped = {}
  /\ refreshes = 0 /\ drops = 0 /\ lates = 0 /\ faults = 0

Caller(c) ==
  \/ \E k \in Kinds : Call(c, k)
  \/ Register(c) \/ TakeMine(c) \/ TakeShared(c) \/ TakeForeign(c)
  \/ PutBack(c) \/ Timeout(c)

Handler ==
  \/ finishInflight
  \/ \E m \in {post} \cup late, live \in BOOLEAN :
       \/ onInform(m, live) \/ onEmptyPost(m, live)
       \/ onAnswerUnawaited(m, live) \/ onAnswer(m, live)

Device == Inform \/ EmptyPost \/ Execute \/ Refuse

Next ==
  \/ \E c \in Callers : Caller(c)
  \/ Refresh \/ Handler \/ Device \/ Abandon

Spec == Init /\ [][Next]_vars

\* requests are handled, and the device informs periodically and follows the
\* protocol
FairSpec == Spec /\ WF_vars(Handler) /\ WF_vars(Device)

-----------------------------------------------------------------------------
(* Properties.                                                             *)

SessionType ==
  /\ taskQueue \in Seq(Tasks) /\ Len(taskQueue) <= QueueCap
  /\ results \in Seq(Results) /\ Len(results) <= ResultsCap
  /\ waiters \in [1..Snapshot -> 0..MaxCalls]
  /\ inflight \in Tasks /\ loaded \in BOOLEAN
  /\ handling \in [msg : Messages, live : BOOLEAN] /\ target \in 0..MaxCalls
  /\ chan \in [Calls -> Results]

CallerType ==
  /\ pc \in [Callers -> {"idle", "queued", "waiting", "passing"}]
  /\ cur \in [Callers -> 0..MaxCalls] /\ held \in [Callers -> Results]
  /\ found \in [Callers -> 0..MaxCalls]

WireType ==
  /\ cpe \in [st : {"off", "ready", "wait", "exec"}, task : Tasks]
  /\ post \in Messages /\ late \subseteq Messages

HistoryType ==
  /\ calls \in 0..MaxCalls /\ kind \in [Calls -> Kinds \cup {"none"}]
  /\ got \in [Calls -> Results]
  /\ executed \subseteq Calls /\ repeated \subseteq Calls
  /\ dropped \subseteq Calls

\* Every variable keeps its type; the queue and the shared channel stay within
\* their capacities.
TypeOK ==
  /\ SessionType /\ CallerType /\ WireType /\ HistoryType
  /\ refreshes \in 0..MaxRefresh /\ drops \in 0..MaxDrops
  /\ lates \in 0..MaxLate /\ faults \in 0..MaxFaults

Rebooting(n) == kind[n] = "reboot"

\* "Reboot is deliberately excluded: an unanswered reboot may well have
\* happened, and re-sending it is not idempotent" (Handle): whatever sessions
\* the device abandons, one reboot command reboots it at most once.
RebootAtMostOnce == \A n \in Calls : Rebooting(n) => n \notin repeated

\* "deliver hands a result to the goroutine waiting for THAT command": what
\* Await returns to the caller of a command is the device's answer to the task
\* of that command, and to a snapshot the answer to a snapshot, be it the one
\* of an earlier cycle that timed out.
OwnAnswer ==
  \A n \in Calls :
    got[n] # NoResult =>
      \/ got[n].from = n
      \/ kind[n] = "snapshot" /\ \E i \in 1..n : kind[i] = kind[n] /\ got[n].from = i

Waiting(n) == \E c \in Callers : pc[c] # "idle" /\ cur[c] = n

ResultsInHand ==
  Elements(results) \cup {chan[n] : n \in Calls} \cup {held[c] : c \in Callers}

\* While a caller waits, its task or the result of it is never lost: not when
\* the device abandons a session, not when another caller meets the result.
\* Excepted are a task the full queue dropped, which is logged, and a reboot.
AwaitedIsKept ==
  \A n \in Calls :
    (Waiting(n) /\ ~Rebooting(n) /\ n \notin dropped)
      => \/ \E t \in Elements(taskQueue) \cup {inflight} : t.call = n
         \/ \E r \in ResultsInHand : r.cid = CommandID(kind[n], n)

\* A task that was queued and is not a reboot is answered in the end, although
\* sessions are abandoned: the device executes it, unless it refuses tasks, or
\* the queue was full.
EventuallyExecuted ==
  \A n \in Calls :
    (kind[n] \in {"spv", "query"})
      ~> (n \in executed \cup dropped \/ faults > 0)
=============================================================================
