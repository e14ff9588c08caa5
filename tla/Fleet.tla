------------------------------- MODULE Fleet -------------------------------
(***************************************************************************)
(* The ACS and a fleet of devices (routeSession and ServeHTTP in           *)
(* cwmp/server.go, runSession in testsuite/device.go).                     *)
(*                                                                         *)
(* Only an Inform says which device sends it.  Every other request of a    *)
(* session is attributed by the session cookie, or by the source address:  *)
(* to the device that informed last from there.  The devices that return   *)
(* cookies, and the address each session comes from, are arbitrary, so     *)
(* several devices may share an address (NAT) and an address may change    *)
(* hands (DHCP).                                                           *)
(*                                                                         *)
(* CwmpSession has what one session does with tasks and results in detail. *)
(* Here a task is the device it is for, and what an answer or an event is  *)
(* filed under is the key of the session it is routed to.                  *)
(***************************************************************************)
EXTENDS Naturals, Sequences, FiniteSets

CONSTANTS
  Devices, Hosts,
  None,
  QueueCap,     \* capacity of a task queue
  MaxSessionTasks,  \* tasks a device does in one session
  MaxRestarts,  \* bound: restarts of the agent
  MaxDrops      \* bound: sessions that end early

ASSUME FleetAssumption ==
  /\ None \notin Devices \cup Hosts /\ Devices \cap Hosts = {}
  /\ QueueCap \in Nat \ {0} /\ MaxSessionTasks \in Nat \ {0}
  /\ MaxRestarts \in Nat /\ MaxDrops \in Nat

VARIABLES
  known,        \* the devices with a row in the database
  \* the ACS
  sessions, byIP, taskQueue, inflight,
  \* the devices: those that return cookies; for each its open session's
  \* address, its cookie, the task it is working on, and the number of tasks
  \* it was handed
  cookies, host, jar, task, tasks,
  \* for the properties
  fresh,        \* sessions begun since the agent's last start
  mixed,        \* sessions that overlapped with another from their address
  restarts, drops

acs == <<sessions, byIP, taskQueue, inflight>>
device == <<cookies, host, jar, task, tasks>>
view == <<fresh, mixed>>
bounds == <<restarts, drops>>
vars == <<known, acs, device, view, bounds>>

\* a session has the key of a device, or of an address: a provisional one
Keys == Devices \cup Hosts
Open(d) == host[d] # None

\* The requests of d's session can be told from those of other devices: d
\* returns the cookie it got, or no other device talked from its address.
Exact(d) == d \in fresh /\ (d \in cookies \/ d \notin mixed)

-----------------------------------------------------------------------------
(* The ACS.                                                                *)

\* defect: the address decides even where there is a cookie
ByAddress(d) ==
  IF byIP[host[d]] \in sessions THEN byIP[host[d]] ELSE host[d]

\* the session of a request that is not an Inform
routeSession(d) ==
  CASE d \in cookies /\ jar[d] \in sessions -> jar[d]
    [] ~(d \in cookies /\ jar[d] \in sessions) /\ byIP[host[d]] \in sessions
         -> byIP[host[d]]
    [] OTHER -> host[d]

\* the session is created if there is none
deviceSessionLocked(k) == sessions' = sessions \cup {k}

\* A request is answered from session k; the answer of a device's session sets
\* the cookie.
Serve(d, k) ==
  /\ deviceSessionLocked(k)
  /\ jar' = IF d \in cookies /\ k \in Devices THEN [jar EXCEPT ![d] = k]
            ELSE jar

\* a provisional session takes the address over
Provisional(d, k) == byIP' = IF k = host[d] THEN [byIP EXCEPT ![k] = k] ELSE byIP

\* defect: a full queue takes one task more
Unbounded(q, ts) == q \o ts

FirstOf(q, n) == SubSeq(q, 1, IF Len(q) < n THEN Len(q) ELSE n)

\* defect: the last place of the queue is never used
OneLess(q, ts) == FirstOf(q \o ts, QueueCap - 1)

\* tasks that find the queue full are dropped
enqueue(q, ts) == FirstOf(q \o ts, QueueCap)

\* the first task of session k, if there is one, is handed out
nextTask(k) ==
  IF taskQueue[k] = << >>
    THEN UNCHANGED taskQueue
    ELSE taskQueue' = [taskQueue EXCEPT ![k] = Tail(@)]
Handed(k) == IF taskQueue[k] = << >> THEN None ELSE Head(taskQueue[k])

\* defect: an address stays with the device that informed from it first
FirstComer(d, h) == byIP' = IF byIP[h] \in Devices THEN byIP
                            ELSE [byIP EXCEPT ![h] = d]

InformsFrom(d, h) == byIP' = [byIP EXCEPT ![h] = d]

\* On first contact the device is read; whether the database has its names
\* already is left open.
FirstContact(k) == {<< >>, <<k>>}

\* defect: the task in flight is not kept per session
AnyOrphan(k) == {<< >>} \cup {<<t>> : t \in {inflight[j] : j \in Keys} \ {None}}

\* An unanswered task is queued again, unless it is a reboot or nobody waits
\* for it.
requeueOrphanedTask(k) ==
  IF inflight[k] = None THEN {<< >>} ELSE {<< >>, <<inflight[k]>>}

Inform(d, h) ==
  /\ ~Open(d) /\ host' = [host EXCEPT ![d] = h]
  /\ Serve(d, d) /\ InformsFrom(d, h)
  /\ known' = known \cup {d}
  /\ \E orphan \in requeueOrphanedTask(d), reads \in FirstContact(d) :
       taskQueue' = [taskQueue EXCEPT ![d] = enqueue(enqueue(@, orphan), reads)]
  /\ inflight' = [inflight EXCEPT ![d] = None]
  /\ LET sharing == {e \in Devices : host[e] = h}
     IN  mixed' = IF sharing = {} THEN mixed \ {d} ELSE mixed \cup sharing \cup {d}
  /\ fresh' = fresh \cup {d}
  /\ UNCHANGED <<cookies, task, tasks, bounds>>

\* AutonomousTransferComplete: the event is stored under the session's id
onATC(d) ==
  LET k == routeSession(d) IN
  /\ Open(d) /\ task[d] = None
  /\ Serve(d, k) /\ Provisional(d, k)
  /\ UNCHANGED <<known, taskQueue, inflight, cookies, host, task, tasks,
                 view, bounds>>

\* The device goes on with the task it is handed.  204 ends the session.
Take(d, t) ==
  /\ task' = [task EXCEPT ![d] = t]
  /\ tasks' = [tasks EXCEPT ![d] = IF t = None THEN 0 ELSE @ + 1]
  /\ host' = IF t = None THEN [host EXCEPT ![d] = None] ELSE host

\* An empty POST: the device is ready for a task.
EmptyPost(d) ==
  LET k == routeSession(d) IN
  /\ Open(d) /\ task[d] = None
  /\ Serve(d, k) /\ Provisional(d, k)
  /\ nextTask(k)
  /\ inflight' = IF Handed(k) = None THEN inflight
                 ELSE [inflight EXCEPT ![k] = Handed(k)]
  /\ Take(d, Handed(k))
  /\ UNCHANGED <<known, cookies, view, bounds>>

\* The device answers its task, and is handed the next, which it leaves when
\* it has done its share.  The answer is the result of the task in flight in
\* the session it is routed to, and its parameters are filed under that id.
Answer(d) ==
  LET k == routeSession(d) IN
  /\ Open(d) /\ task[d] # None
  /\ Serve(d, k) /\ Provisional(d, k)
  /\ nextTask(k)
  /\ inflight' = [inflight EXCEPT ![k] = Handed(k)]
  /\ Take(d, IF tasks[d] < MaxSessionTasks THEN Handed(k) ELSE None)
  /\ UNCHANGED <<known, cookies, view, bounds>>

-----------------------------------------------------------------------------
(* The worker.                                                             *)

\* A command, a snapshot or a telemetry cycle queues a task for a device that
\* has informed.
Enqueue(d) ==
  /\ d \in known
  /\ deviceSessionLocked(d)
  /\ taskQueue' = [taskQueue EXCEPT ![d] = enqueue(@, <<d>>)]
  /\ UNCHANGED <<known, byIP, inflight, device, view, bounds>>

\* the agent stops and starts: what it has in memory is lost
Restart ==
  /\ restarts < MaxRestarts /\ restarts' = restarts + 1
  /\ sessions' = {} /\ byIP' = [h \in Hosts |-> None]
  /\ taskQueue' = [k \in Keys |-> << >>] /\ inflight' = [k \in Keys |-> None]
  /\ fresh' = {}
  /\ UNCHANGED <<known, device, mixed, drops>>

-----------------------------------------------------------------------------
(* The devices.                                                            *)

\* the session ends early
Drop(d) ==
  /\ Open(d)
  /\ drops < MaxDrops /\ drops' = drops + 1
  /\ Take(d, None)
  /\ UNCHANGED <<known, acs, cookies, jar, view, restarts>>

Init ==
  /\ known = {}
  /\ sessions = {} /\ byIP = [h \in Hosts |-> None]
  /\ taskQueue = [k \in Keys |-> << >>] /\ inflight = [k \in Keys |-> None]
  /\ cookies \in SUBSET Devices
  /\ host = [d \in Devices |-> None] /\ jar = [d \in Devices |-> None]
  /\ task = [d \in Devices |-> None] /\ tasks = [d \in Devices |-> 0]
  /\ fresh = {} /\ mixed = {}
  /\ restarts = 0 /\ drops = 0

Session(d) == \E h \in Hosts : Inform(d, h)
Turn(d) == EmptyPost(d) \/ Answer(d)

Next ==
  \/ \E d \in Devices :
       \/ Session(d) \/ onATC(d) \/ Turn(d) \/ Drop(d)
       \/ Enqueue(d)
  \/ Restart

Spec == Init /\ [][Next]_vars

\* A device opens sessions and works through them; the tickers of the worker
\* queue reads.
FairSpec ==
  /\ Spec
  /\ \A d \in Devices :
       WF_vars(Session(d)) /\ WF_vars(Turn(d)) /\ WF_vars(Enqueue(d))

-----------------------------------------------------------------------------
(* Properties.                                                             *)

\* Every variable keeps its type.
TypeOK ==
  /\ known \subseteq Devices
  /\ sessions \subseteq Keys /\ byIP \in [Hosts -> Keys \cup {None}]
  /\ taskQueue \in [Keys -> Seq(Keys)]
  /\ \A k \in Keys : Len(taskQueue[k]) <= QueueCap
  /\ inflight \in [Keys -> Keys \cup {None}]
  /\ cookies \subseteq Devices
  /\ host \in [Devices -> Hosts \cup {None}]
  /\ jar \in [Devices -> Devices \cup {None}]
  /\ task \in [Devices -> Keys \cup {None}]
  /\ tasks \in [Devices -> 0..MaxSessionTasks]
  /\ fresh \subseteq Devices /\ mixed \subseteq Devices
  /\ restarts \in 0..MaxRestarts
  /\ drops \in 0..MaxDrops

\* "an IP-routed SPV could be executed by the wrong femtocell" (apply): a
\* device whose requests can be told apart works on its own tasks only,
\* whatever sessions run next to it, come and go or end early.
OwnTasksOnly ==
  \A d \in Devices : Exact(d) => task[d] \in {d, None}

\* What such a device says of itself, an event or an answer, is filed under
\* its own id.
RoutedRight ==
  \A d \in Devices : (Open(d) /\ Exact(d)) => routeSession(d) = d

\* A device that has its address to itself is never taken for another one, not
\* even after a restart in the middle of its session, when it is nobody.
AloneIsNeverAnother ==
  \A d \in Devices :
    (Open(d) /\ d \notin mixed) => routeSession(d) \in {d} \cup Hosts

\* "N devices are fully isolated even behind one source IP" (Server): if all
\* devices return cookies, none is taken for another.
IsolatedBehindOneIP ==
  cookies = Devices =>
    \A d \in Devices : Open(d) => routeSession(d) \in {d} \cup Hosts

\* If all devices return cookies, each is read into its own record again and
\* again, whatever was routed wrongly around a restart.
FleetHeals ==
  cookies = Devices =>
    \A d \in Devices :
      []<>(Open(d) /\ task[d] = d /\ routeSession(d) = d)
=============================================================================
