------------------------------ MODULE Commands ------------------------------
(***************************************************************************)
(* The command loop of the worker (handleCommands and apply in             *)
(* worker/worker.go) between the cloud that hands out commands, the table  *)
(* `applied` of the buffer, and the device.                                *)
(*                                                                         *)
(* Commands are numbered in the order the operator issues them.  A write   *)
(* sets the one parameter of the model, and write n sets it to n, so a     *)
(* value tells which command it is of; two spellings of one value (true    *)
(* and 1, 1e6 and 1000000) are one value here.                             *)
(*                                                                         *)
(* The session between worker and device is what CwmpSession shows of it:  *)
(* tasks are handed out in the order they were queued, one at a time; a    *)
(* task without an answer goes to the end of the queue when the device     *)
(* informs again, unless it is a reboot; a result waits for whoever asks   *)
(* for its CommandID.  Queue and results are in memory.  A request of a    *)
(* session that the device gave up may still be on its way: it is lost, or *)
(* handled late, between any two requests of the next sessions.            *)
(***************************************************************************)
EXTENDS Integers, Sequences, FiniteSets, SequencesExt

CONSTANTS
  MaxCmd,       \* bound: commands the operator issues
  Scripts,      \* the types of commands 1, 2, ..., one sequence per instance
  MaxTroubles   \* bound: failures of any kind in one behaviour

ASSUME CommandsAssumption ==
  /\ MaxCmd \in Nat \ {0}
  /\ Scripts \subseteq [1..MaxCmd -> {"write", "query", "reboot", "other"}]
  /\ MaxTroubles \in Nat

VARIABLES
  \* the cloud
  issued, type, acks, snapshot,
  \* the database
  known,        \* the device has a row with an address: it informed once
  applied,
  \* the session
  taskQueue, inflight, results,
  \* the worker
  wpc, batch, ack, cancelled,
  \* the device
  online, handed, value, staged,
  \* requests of sessions that were given up
  late,
  \* what happened, for the properties
  runs,         \* runs[c]: how often the device executed c
  last,         \* the write the device executed last
  lost,         \* calls of the cloud that failed in all three attempts
  faults,       \* failed statements on `applied`
  stops,        \* crashes, and signals to stop
  drops,        \* sessions the device gave up
  lates         \* requests that were handled after that

cloud == <<issued, type, acks, snapshot>>
disk == <<known, applied>>
session == <<taskQueue, inflight, results>>
worker == <<wpc, batch, ack, cancelled>>
device == <<online, handed, value, staged, runs, last>>
net == <<late, lates>>
vars == <<cloud, disk, session, worker, device, lost, faults, stops, drops, net>>

\* there may be k more failures, next to the requests that may be late
Room(k) ==
  lost + faults + stops + drops + lates + Len(late) + k <= MaxTroubles

\* one more failure, counted in n
Trouble(n) == Room(1) /\ n' = n + 1

Cmds == 1..MaxCmd
Verdicts == {"applied", "failed"}

\* rb is the read-back of a write, whose CommandID ends in ":rb"
Tasks == [cmd : Cmds, type : {"spv", "rb", "gpv", "reboot"}]
NoTask == [cmd |-> 0, type |-> "none"]
Results == [task : Tasks, err : BOOLEAN, status : 0..1, val : 0..MaxCmd]
Requests == [kind : {"inform", "empty", "answer"}, err : BOOLEAN,
             status : 0..1, val : 0..MaxCmd]

\* an acknowledgement; val is the read-back, 0 for none
NoAck == [status |-> "none", val |-> 0]

Cmd == Head(batch)

MainTask(c) ==
  [cmd  |-> c,
   type |-> CASE type[c] = "write"  -> "spv"
              [] type[c] = "query"  -> "gpv"
              [] type[c] = "reboot" -> "reboot"]
ReadBack(c) == [cmd |-> c, type |-> "rb"]

\* what the worker waits for
Awaited == IF wpc = "readback" THEN ReadBack(Cmd) ELSE MainTask(Cmd)

-----------------------------------------------------------------------------
(* The cloud.                                                              *)

Issue ==
  /\ issued < MaxCmd /\ issued' = issued + 1
  /\ UNCHANGED <<type, acks, snapshot, disk, session, worker, device,
                 lost, faults, stops, drops, net>>

\* a command is handed out with every poll until it is acknowledged
Outstanding == {c \in 1..issued : acks[c] = "none"}

\* A call of the cloud: it arrives, or fails in all three attempts.  Once the
\* context is cancelled nothing is sent.
Arrives == ~cancelled /\ UNCHANGED lost
Lost == \/ cancelled /\ UNCHANGED lost
        \/ ~cancelled /\ Trouble(lost)

\* the last acknowledgement counts
SendAck(c, s) ==
  \/ Arrives /\ acks' = [acks EXCEPT ![c] = s]
  \/ Lost /\ UNCHANGED acks

-----------------------------------------------------------------------------
(* The worker: handleCommands.                                             *)

\* defect: the queue is a stack
Push(t) == taskQueue' = <<t>> \o taskQueue

enqueue(t) == taskQueue' = Append(taskQueue, t)

\* what apply returns
Verdict(s, v) == ack' = [status |-> s, val |-> v] /\ wpc' = "mark"

\* the elements of S in the order they were issued
InOrder(S) ==
  {s \in [1..Cardinality(S) -> S] :
     /\ \A i, j \in DOMAIN s : i < j => s[i] < s[j]
     /\ S = {s[i] : i \in DOMAIN s}}

Poll ==
  /\ wpc = "idle" /\ ~cancelled
  /\ batch' \in InOrder(Outstanding)
  /\ wpc' = "next"
  /\ UNCHANGED <<cloud, disk, session, ack, cancelled, device, lost, faults,
                 stops, drops, net>>

\* A statement on `applied` fails: at random, and always once the context is
\* cancelled.
StatementFails ==
  \/ cancelled /\ UNCHANGED faults
  \/ ~cancelled /\ Trouble(faults)

\* defect: a command the cloud still asks for is reported as failed
ReackFailed(c) == "failed"

\* the outcome on record
Recorded(c) == applied[c]

\* defect: a command on record is skipped without a word
Skip ==
  /\ wpc = "next" /\ batch # << >> /\ ~cancelled
  /\ applied[Cmd] # "none"
  /\ batch' = Tail(batch)
  /\ UNCHANGED <<cloud, disk, session, wpc, ack, cancelled, device, lost, faults,
                 stops, drops, net>>

\* AlreadyApplied finds the command: it is acknowledged again
Reack ==
  /\ wpc = "next" /\ batch # << >> /\ ~cancelled
  /\ applied[Cmd] # "none"
  /\ SendAck(Cmd, Recorded(Cmd))
  /\ batch' = Tail(batch)
  /\ UNCHANGED <<issued, type, snapshot, disk, session, wpc, ack, cancelled,
                 device, faults, stops, drops, net>>

NotRecorded(c) == applied[c] = "none"

\* AlreadyApplied finds nothing, or fails, which counts as nothing
Runnable ==
  \/ NotRecorded(Cmd) /\ UNCHANGED faults
  \/ StatementFails

\* apply, up to the first wait
Apply ==
  /\ wpc = "next" /\ batch # << >>
  /\ Runnable
  /\ IF ~known \/ type[Cmd] = "other"
       THEN Verdict("failed", 0) /\ UNCHANGED taskQueue
       ELSE /\ enqueue(MainTask(Cmd))
            /\ wpc' = "await" /\ UNCHANGED ack
  /\ UNCHANGED <<cloud, disk, inflight, results, batch, cancelled, device,
                 lost, stops, drops, net>>

\* Await: any result with the CommandID will do
Take(i) ==
  /\ i \in DOMAIN results /\ results[i].task = Awaited
  /\ results' = RemoveAt(results, i)

\* a refusal counts for a write only
OnAnswer(i) ==
  /\ wpc = "await" /\ Take(i)
  /\ LET r == results[i]
     IN  CASE type[Cmd] = "write" /\ r.err -> Verdict("failed", 0)
           [] type[Cmd] = "write" /\ ~r.err /\ r.status = 1
                -> Verdict("applied", 0)
           [] type[Cmd] = "write" /\ ~r.err /\ r.status = 0
                -> wpc' = "verify" /\ UNCHANGED ack
           [] type[Cmd] = "query" -> Verdict("applied", r.val)
           [] type[Cmd] = "reboot" -> Verdict("applied", 0)
  /\ UNCHANGED <<cloud, disk, taskQueue, inflight, batch, cancelled, device,
                 lost, faults, stops, drops, net>>

\* defect: silence is taken for consent
Optimistic == Verdict("applied", 0)

OnTimeout == Verdict("failed", 0)

\* the task stays where it is, and the device may execute it later
AwaitTimeout ==
  /\ wpc \in {"await", "readback"}
  /\ OnTimeout
  /\ UNCHANGED <<cloud, disk, session, batch, cancelled, device, lost, faults,
                 stops, drops, net>>

\* after command_verify_delay, one read-back
VerifyDelay ==
  /\ wpc = "verify"
  /\ IF cancelled
       THEN Verdict("failed", 0) /\ UNCHANGED taskQueue
       ELSE enqueue(ReadBack(Cmd)) /\ wpc' = "readback" /\ UNCHANGED ack
  /\ UNCHANGED <<cloud, disk, inflight, results, batch, cancelled, device,
                 lost, faults, stops, drops, net>>

\* defect: the answer to the read-back is not compared
AnyReadback(r) == {}

\* the parameters that are missing or have another value
verifyExpected(r) == IF r.val # r.task.cmd THEN {r.task.cmd} ELSE {}

OnReadback(i) ==
  /\ wpc = "readback" /\ Take(i)
  /\ IF verifyExpected(results[i]) = {}
       THEN Verdict("applied", Cmd)
       ELSE Verdict("failed", results[i].val)
  /\ UNCHANGED <<cloud, disk, taskQueue, inflight, batch, cancelled, device,
                 lost, faults, stops, drops, net>>

MarkApplied ==
  /\ wpc = "mark"
  /\ \/ /\ ~cancelled /\ UNCHANGED faults
        /\ applied' = [applied EXCEPT ![Cmd] = ack.status]
     \/ StatementFails /\ UNCHANGED applied
  /\ wpc' = "ack"
  /\ UNCHANGED <<cloud, known, session, batch, ack, cancelled, device, lost,
                 stops, drops, net>>

Ack ==
  /\ wpc = "ack"
  /\ SendAck(Cmd, ack.status)
  /\ wpc' = "snapshot"
  /\ UNCHANGED <<issued, type, snapshot, disk, session, batch, ack, cancelled,
                 device, faults, stops, drops, net>>

\* the read-back of an applied write becomes the cloud's snapshot
postCommandSnapshot ==
  /\ wpc = "snapshot"
  /\ IF ack.status = "applied" /\ type[Cmd] = "write" /\ ack.val # 0
       THEN \/ Arrives /\ snapshot' = ack.val
            \/ Lost /\ UNCHANGED snapshot
       ELSE UNCHANGED <<snapshot, lost>>
  /\ batch' = Tail(batch) /\ ack' = NoAck /\ wpc' = "next"
  /\ UNCHANGED <<issued, type, acks, disk, session, cancelled, device,
                 faults, stops, drops, net>>

\* back to the select of Run
EndOfBatch ==
  /\ wpc = "next" /\ batch = << >>
  /\ wpc' = "idle"
  /\ UNCHANGED <<cloud, disk, session, batch, ack, cancelled, device, lost,
                 faults, stops, drops, net>>

-----------------------------------------------------------------------------
(* Stops and starts.  Only the database survives.                          *)

Boot ==
  /\ taskQueue' = << >> /\ inflight' = NoTask /\ results' = << >>
  /\ wpc' = "idle" /\ batch' = << >> /\ ack' = NoAck /\ cancelled' = FALSE
  /\ late' = << >>
  /\ UNCHANGED <<cloud, disk, device, lost, faults, drops, lates>>

\* SIGTERM: the context is cancelled, the loop over the batch goes on
Cancel ==
  /\ ~cancelled
  /\ Trouble(stops)
  /\ cancelled' = TRUE
  /\ UNCHANGED <<cloud, disk, session, wpc, batch, ack, device, lost, faults,
                 drops, net>>

\* Run returns, and the agent is started again
Exit == wpc = "idle" /\ cancelled /\ Boot /\ UNCHANGED stops

Crash == Trouble(stops) /\ Boot

-----------------------------------------------------------------------------
(* The device and its session.                                             *)

\* defect: a session without an unanswered task has one
Anything(t) == TRUE

\* defect: an unanswered reboot is queued again
AnyTask(t) == t # NoTask

Retried(t) == t # NoTask /\ t.type # "reboot"

\* requeueOrphanedTask, and onInform; UpsertDevice ignores an error
HandleInform ==
  /\ known' \in {known, TRUE}
  /\ taskQueue' = IF Retried(inflight) THEN Append(taskQueue, inflight)
                  ELSE taskQueue
  /\ inflight' = NoTask

Inform ==
  /\ ~online /\ online' = TRUE
  /\ HandleInform
  /\ UNCHANGED <<cloud, applied, results, worker, handed, value, staged, runs,
                 last, lost, faults, stops, drops, net>>

\* the device takes the next task of the session, if there is one
nextTask ==
  /\ online /\ handed = NoTask /\ taskQueue # << >>
  /\ handed' = Head(taskQueue)
  /\ inflight' = Head(taskQueue) /\ taskQueue' = Tail(taskQueue)
  /\ UNCHANGED <<cloud, disk, results, worker, online, value, staged, runs,
                 last, lost, faults, stops, drops, net>>

\* 204: the session is over
NothingQueued ==
  /\ online /\ handed = NoTask /\ taskQueue = << >>
  /\ online' = FALSE
  /\ UNCHANGED <<cloud, disk, session, worker, handed, value, staged, runs,
                 last, lost, faults, stops, drops, net>>

IsRead(t) == t.type \in {"gpv", "rb"}

\* the task in flight is done, whatever the answer was to
finishInflight(err, status, val) ==
  results' = IF inflight = NoTask THEN results
             ELSE Append(results, [task |-> inflight, err |-> err,
                                   status |-> status, val |-> val])

\* a Fault with nothing in flight gets 204
Stray(err) == err /\ inflight = NoTask

\* request m is still on its way when the device gives the session up
MayBeLate(m) == Room(2) /\ late' = Append(late, m)

\* The answer reaches the agent, where a restart may have forgotten the task,
\* and the device turns to the next one (nextTask); or the device gives the
\* session up, and the answer is lost or late.
Answer(err, status) ==
  LET val == IF IsRead(handed) /\ ~err THEN value ELSE 0
  IN  /\ handed' = NoTask
      /\ \/ /\ finishInflight(err, status, val)
            /\ inflight' = NoTask
            /\ online' = (online /\ ~Stray(err))
            /\ UNCHANGED <<drops, late>>
         \/ /\ Trouble(drops)
            /\ online' = FALSE
            /\ \/ UNCHANGED late
               \/ MayBeLate([kind |-> "answer", err |-> err,
                             status |-> status, val |-> val])
            /\ UNCHANGED <<results, inflight>>

Ran(c) == runs' = [runs EXCEPT ![c] = @ + 1]

NothingStaged == [val |-> 0, boot |-> FALSE]

\* A write is in effect at once, or soon (Settle), or after a reboot, which
\* is what status 1 says.
Write ==
  /\ handed.type = "spv" /\ Ran(handed.cmd) /\ last' = handed.cmd
  /\ \/ /\ value' = handed.cmd /\ staged' = NothingStaged
        /\ Answer(FALSE, 0)
     \/ /\ staged' = [val |-> handed.cmd, boot |-> FALSE] /\ UNCHANGED value
        /\ Answer(FALSE, 0)
     \/ /\ staged' = [val |-> handed.cmd, boot |-> TRUE] /\ UNCHANGED value
        /\ Answer(FALSE, 1)
  /\ UNCHANGED <<cloud, disk, taskQueue, worker, lost, faults, stops, lates>>

Settle ==
  /\ staged.val # 0 /\ ~staged.boot
  /\ value' = staged.val /\ staged' = NothingStaged
  /\ UNCHANGED <<cloud, disk, session, worker, online, handed, runs, last, lost,
                 faults, stops, drops, net>>

Reboot ==
  /\ handed.type = "reboot" /\ Ran(handed.cmd)
  /\ value' = IF staged.val # 0 THEN staged.val ELSE value
  /\ staged' = NothingStaged
  /\ Answer(FALSE, 0)
  /\ UNCHANGED <<cloud, disk, taskQueue, worker, last, lost, faults, stops, lates>>

Read ==
  /\ IsRead(handed)
  /\ Answer(FALSE, 0)
  /\ UNCHANGED <<cloud, disk, taskQueue, worker, value, staged, runs, last, lost,
                 faults, stops, lates>>

\* a CWMP fault: the task has no effect
Refuse ==
  /\ handed # NoTask
  /\ Answer(TRUE, 0)
  /\ UNCHANGED <<cloud, disk, taskQueue, worker, value, staged, runs, last, lost,
                 faults, stops, lates>>

\* the session ends before the task was read or executed
Abandon ==
  /\ online /\ handed # NoTask
  /\ Trouble(drops)
  /\ online' = FALSE /\ handed' = NoTask
  /\ UNCHANGED <<cloud, disk, session, worker, value, staged, runs, last, lost,
                 faults, stops, net>>

\* The session ends while its Inform or its empty POST is on the way.  (The
\* model lets a device send an empty POST after an answer as well.)
GiveUp ==
  /\ handed = NoTask
  /\ Trouble(drops)
  /\ online' = FALSE
  /\ MayBeLate([kind |-> IF online THEN "empty" ELSE "inform",
                err |-> FALSE, status |-> 0, val |-> 0])
  /\ UNCHANGED <<cloud, disk, session, worker, handed, value, staged, runs, last,
                 lost, faults, stops, lates>>

-----------------------------------------------------------------------------
(* Late requests.  Nobody reads the response.                              *)

\* nextTask: the next task is in flight, or rest if there is none
Pop(rest) ==
  IF taskQueue = << >> THEN inflight' = rest /\ UNCHANGED taskQueue
  ELSE inflight' = Head(taskQueue) /\ taskQueue' = Tail(taskQueue)

LateInform(i) ==
  /\ late[i].kind = "inform"
  /\ HandleInform /\ UNCHANGED results

\* an unanswered task that was in flight is forgotten
LateEmpty(i) ==
  /\ late[i].kind = "empty"
  /\ Pop(inflight) /\ UNCHANGED <<known, results>>

LateAnswer(i) ==
  /\ late[i].kind = "answer"
  /\ finishInflight(late[i].err, late[i].status, late[i].val)
  /\ IF Stray(late[i].err) THEN UNCHANGED <<taskQueue, inflight>>
     ELSE Pop(NoTask)
  /\ UNCHANGED known

Late(i) ==
  /\ late' = RemoveAt(late, i) /\ lates' = lates + 1
  /\ LateInform(i) \/ LateEmpty(i) \/ LateAnswer(i)
  /\ UNCHANGED <<cloud, applied, worker, device, lost, faults, stops, drops>>

-----------------------------------------------------------------------------
Init ==
  /\ issued = 0 /\ type \in Scripts
  /\ acks = [c \in Cmds |-> "none"] /\ snapshot = 0
  /\ known = FALSE /\ applied = [c \in Cmds |-> "none"]
  /\ taskQueue = << >> /\ inflight = NoTask /\ results = << >>
  /\ wpc = "idle" /\ batch = << >> /\ ack = NoAck /\ cancelled = FALSE
  /\ online = FALSE /\ handed = NoTask /\ value = 0 /\ staged = NothingStaged
  /\ runs = [c \in Cmds |-> 0] /\ last = 0
  /\ late = << >>
  /\ lost = 0 /\ faults = 0 /\ stops = 0 /\ drops = 0 /\ lates = 0

Worker ==
  \/ Poll \/ Reack \/ Apply \/ AwaitTimeout \/ VerifyDelay
  \/ \E i \in DOMAIN results : OnAnswer(i) \/ OnReadback(i)
  \/ MarkApplied \/ Ack \/ postCommandSnapshot \/ EndOfBatch \/ Exit

Device ==
  \/ Inform \/ nextTask \/ NothingQueued \/ Write \/ Reboot \/ Read \/ Refuse
  \/ Settle \/ Abandon \/ GiveUp

Next ==
  \/ Issue \/ Worker \/ Cancel \/ Crash \/ Device
  \/ \E i \in DOMAIN late : Late(i)

Spec == Init /\ [][Next]_vars

\* the poll ticker drives the worker, and every wait of it has a deadline;
\* nothing is assumed of the device
FairSpec == Spec /\ WF_vars(Worker)

-----------------------------------------------------------------------------
(* Properties.                                                             *)

Interruptions == faults + stops

FlagsType == known \in BOOLEAN /\ cancelled \in BOOLEAN /\ online \in BOOLEAN
CloudType ==
  /\ issued \in 0..MaxCmd /\ type \in Scripts
  /\ acks \in [Cmds -> Verdicts \cup {"none"}] /\ snapshot \in 0..MaxCmd
SessionType ==
  /\ taskQueue \in Seq(Tasks) /\ inflight \in Tasks \cup {NoTask}
  /\ results \in Seq(Results) /\ late \in Seq(Requests)
WorkerType ==
  /\ wpc \in {"idle", "next", "await", "verify", "readback", "mark", "ack",
              "snapshot"}
  /\ batch \in Seq(Cmds)
  /\ ack \in [status : Verdicts \cup {"none"}, val : 0..MaxCmd]
  /\ applied \in [Cmds -> Verdicts \cup {"none"}]
DeviceType ==
  /\ handed \in Tasks \cup {NoTask}
  /\ value \in 0..MaxCmd /\ staged \in [val : 0..MaxCmd, boot : BOOLEAN]
  /\ runs \in [Cmds -> Nat] /\ last \in 0..MaxCmd
BoundsType ==
  /\ lost \in Nat /\ faults \in Nat /\ stops \in Nat /\ drops \in Nat
  /\ lates \in Nat /\ Room(0)

\* Every variable keeps its type.
TypeOK ==
  /\ FlagsType /\ CloudType /\ SessionType /\ WorkerType /\ DeviceType
  /\ BoundsType

\* The table `applied` keeps a command from running twice: whatever polls,
\* acknowledgements and sessions are lost, each extra reboot of one reboot
\* command is paid for by a stop of the agent or a failed statement.
RebootsPaidFor ==
  \A c \in Cmds : type[c] = "reboot" => runs[c] <= 1 + Interruptions

\* "an unanswered reboot may well have happened, and re-sending it is not
\* idempotent" (Handle): one reboot command reboots the device at most once.
RebootOnce == \A c \in Cmds : type[c] = "reboot" => runs[c] <= 1

\* A write that the cloud was told is applied was executed by the device, as
\* long as no request is handled late: with late requests the answer to one
\* write completes another that is in flight (finishInflight), and with status
\* 1 the worker takes its word for it without a read-back.
AppliedWasExecuted ==
  lates = 0 =>
    \A c \in Cmds :
      (type[c] = "write" /\ acks[c] = "applied") => runs[c] > 0

\* "Treats every device write as a closed-loop operation": the value that a
\* write was verified with, and that the cloud got as snapshot, is in effect
\* on the device until the device executes another write.  A command that runs
\* twice, after a stop or a failed statement, may be in effect only later, and
\* a late answer to an older read may pass for the read-back.
VerifiedIsInEffect ==
  (Interruptions = 0 /\ lates = 0 /\ snapshot # 0 /\ snapshot = last)
    => value = snapshot

\* What the cloud was told of a command is what the database has on record,
\* whichever acknowledgements were lost and wherever the agent was stopped:
\* MarkApplied comes before Ack, and a command on record is acknowledged from
\* the record.  A failed statement breaks it.
OutcomeOnRecord ==
  \A c \in Cmds : (faults = 0 /\ acks[c] # "none") => acks[c] = applied[c]

\* Writes reach the device in the order they were issued, also when they time
\* out and are executed long after.  Only an abandoned session, whose task goes
\* to the end of the queue, and what makes a command run twice break the order.
WritesInOrder ==
  [][(drops = 0 /\ Interruptions = 0 /\ last' # last) => last' > last]_vars

\* Every command is acknowledged, although the device may be silent, calls and
\* statements fail and the agent stops.
EventuallyAcked == \A c \in Cmds : (issued >= c) ~> (acks[c] # "none")
=============================================================================
