---------------------------- MODULE FleetProofs ----------------------------
(***************************************************************************)
(* Proofs about Fleet, for any devices, addresses, queue lengths, restarts *)
(* and sessions that end early.                                            *)
(***************************************************************************)
EXTENDS Fleet, SequenceTheorems, TLAPS

USE FleetAssumption

-----------------------------------------------------------------------------
(* The inductive invariant.                                                *)

\* tasks are queued by device id, and stay in the session of that id
QueueInv ==
  \A k \in Keys : taskQueue[k] \in Seq({k}) /\ inflight[k] \in {k, None}

\* a device without a task has begun none, and without a session it has none
IdleInv ==
  \A d \in Devices :
    /\ ~Open(d) => task[d] = None
    /\ task[d] = None => tasks[d] = 0

\* since the last start a device with a cookie has the cookie of its session
CookieInv ==
  \A d \in Devices :
    (d \in fresh /\ d \in cookies) => jar[d] = d /\ d \in sessions

\* ... and a device that has its address to itself is the last one that
\* informed from there
AddressInv ==
  \A d \in Devices :
    (d \in fresh /\ Open(d) /\ d \notin mixed) =>
      byIP[host[d]] = d /\ d \in sessions

\* also after a restart, nobody else stands for such a device
AloneInv ==
  \A d \in Devices :
    (Open(d) /\ d \notin mixed) =>
      /\ d \in cookies => jar[d] = d
      /\ byIP[host[d]] \in {d, host[d], None}

RouteInv == CookieInv /\ AddressInv /\ AloneInv

FleetInv == TypeOK /\ QueueInv /\ IdleInv /\ RouteInv /\ OwnTasksOnly

-----------------------------------------------------------------------------
(* Lemmas.                                                                 *)

LEMMA NoneIsNoKey == None \notin Keys
BY DEF Keys

\* what a full queue does not take is cut off, and nothing else happens
LEMMA EnqueueType ==
  ASSUME NEW S, NEW q \in Seq(S), NEW ts \in Seq(S)
  PROVE  enqueue(q, ts) \in Seq(S) /\ Len(enqueue(q, ts)) <= QueueCap
<1> DEFINE s == q \o ts
           n == IF Len(s) < QueueCap THEN Len(s) ELSE QueueCap
<1>1. s \in Seq(S) /\ Len(s) \in Nat
  BY ConcatProperties, LenProperties
<1> HIDE DEF s
<1>2. n \in Nat /\ n <= Len(s) /\ n <= QueueCap
  BY <1>1
<1> HIDE DEF n
<1>3. \A i \in 1..n : s[i] \in S
  BY <1>1, <1>2, ElementOfSeq
<1>4. SubSeq(s, 1, n) \in Seq(S) /\ Len(SubSeq(s, 1, n)) = n
  BY <1>2, <1>3, SubSeqProperties
<1> QED BY <1>2, <1>4 DEF enqueue, FirstOf, s, n

\* a request is routed to a session of some key
LEMMA RouteIsKey ==
  ASSUME FleetInv, NEW d \in Devices, Open(d)
  PROVE  routeSession(d) \in Keys
BY DEF FleetInv, TypeOK, routeSession, Open, Keys

\* the requests of a device that can be told from others come to its session
LEMMA RouteExact ==
  ASSUME FleetInv, NEW d \in Devices, Open(d), Exact(d)
  PROVE  routeSession(d) = d
BY DEF FleetInv, RouteInv, CookieInv, AddressInv, Exact, routeSession

\* a device that is alone on its address is itself or nobody
LEMMA RouteAlone ==
  ASSUME FleetInv, NEW d \in Devices, Open(d), d \notin mixed
  PROVE  routeSession(d) \in {d, host[d]}
BY NoneIsNoKey
   DEF FleetInv, TypeOK, RouteInv, AloneInv, routeSession, Open, Keys

\* a request other than an Inform leaves what its session and the others are
\* found by
LEMMA RequestRoutes ==
  ASSUME FleetInv, NEW d \in Devices, Open(d),
         Serve(d, routeSession(d)), Provisional(d, routeSession(d)),
         host' = host \/ host' = [host EXCEPT ![d] = None],
         UNCHANGED <<cookies, view>>
  PROVE  /\ RouteInv'
         /\ sessions' \subseteq Keys /\ byIP' \in [Hosts -> Keys \cup {None}]
         /\ jar' \in [Devices -> Devices \cup {None}]
<1> DEFINE k == routeSession(d)
<1> USE DEF view
<1>1. /\ k \in Keys /\ host[d] \in Hosts
      /\ jar \in [Devices -> Devices \cup {None}]
      /\ byIP \in [Hosts -> Keys \cup {None}] /\ sessions \subseteq Keys
      /\ host \in [Devices -> Hosts \cup {None}]
  BY RouteIsKey DEF FleetInv, TypeOK, Open
<1>2. sessions' = sessions \cup {k}
  BY DEF Serve, deviceSessionLocked
<1>3. /\ jar' \in [Devices -> Devices \cup {None}]
      /\ \A e \in Devices : e # d => jar'[e] = jar[e]
      /\ jar'[d] = jar[d] \/ (d \in cookies /\ k \in Devices /\ jar'[d] = k)
  BY <1>1 DEF Serve
<1>4. /\ byIP' \in [Hosts -> Keys \cup {None}]
      /\ \A h \in Hosts : byIP'[h] = byIP[h] \/ (h = host[d] /\ k = h /\ byIP'[h] = h)
  BY <1>1 DEF Provisional, Keys
<1>5. \A e \in Devices : Open(e)' => Open(e) /\ host'[e] = host[e]
  BY <1>1 DEF Open
<1>6. CookieInv'
  <2> SUFFICES ASSUME NEW e \in Devices, e \in fresh, e \in cookies
               PROVE  jar'[e] = e /\ e \in sessions'
    BY DEF CookieInv
  <2>1. jar[e] = e /\ e \in sessions
    BY DEF FleetInv, RouteInv, CookieInv
  <2>2. CASE e = d
    <3>1. k = d
      BY <2>2, RouteExact DEF Exact
    <3> QED BY <1>2, <1>3, <2>1, <2>2, <3>1
  <2> QED BY <1>2, <1>3, <2>1, <2>2
<1>7. AddressInv'
  <2> SUFFICES ASSUME NEW e \in Devices, e \in fresh, Open(e)', e \notin mixed
               PROVE  byIP'[host'[e]] = e /\ e \in sessions'
    BY DEF AddressInv
  <2>1. host'[e] = host[e] /\ host[e] \in Hosts /\ Open(e)
    BY <1>1, <1>5 DEF Open
  <2>2. byIP[host[e]] = e /\ e \in sessions
    BY <2>1 DEF FleetInv, RouteInv, AddressInv
  <2>3. ~(host[e] = host[d] /\ k = host[d])
    <3> SUFFICES ASSUME host[e] = host[d], k = host[d] PROVE FALSE
      OBVIOUS
    <3>1. byIP[host[d]] \in sessions
      BY <2>2
    <3>2. k \in Devices
      BY <1>1, <2>2, <3>1, NoneIsNoKey DEF routeSession
    <3> QED BY <1>1, <3>2
  <2> QED BY <1>2, <1>4, <2>1, <2>2, <2>3
<1>8. AloneInv'
  <2> SUFFICES ASSUME NEW e \in Devices, Open(e)', e \notin mixed
               PROVE  /\ e \in cookies => jar'[e] = e
                      /\ byIP'[host'[e]] \in {e, host'[e], None}
    BY DEF AloneInv
  <2>1. host'[e] = host[e] /\ host[e] \in Hosts /\ Open(e)
    BY <1>1, <1>5 DEF Open
  <2>2. /\ e \in cookies => jar[e] = e
        /\ byIP[host[e]] \in {e, host[e], None}
    BY <2>1 DEF FleetInv, RouteInv, AloneInv
  <2>3. e = d => k \in {d, host[d]}
    BY <2>1, RouteAlone
  <2>4. e \in cookies => jar'[e] = e
    BY <1>1, <1>3, <2>2, <2>3
  <2> QED BY <1>4, <2>1, <2>2, <2>4
<1> QED BY <1>1, <1>2, <1>3, <1>4, <1>6, <1>7, <1>8 DEF RouteInv

-----------------------------------------------------------------------------
(* The steps.                                                              *)

\* a step of d that leaves Exact as it was
LEMMA OwnTasksKept ==
  ASSUME FleetInv, NEW d \in Devices, UNCHANGED <<cookies, view>>,
         \A e \in Devices : e # d => task'[e] = task[e],
         Exact(d) => task'[d] \in {d, None}
  PROVE  OwnTasksOnly'
BY DEF FleetInv, OwnTasksOnly, Exact, view

LEMMA InformInv ==
  ASSUME FleetInv, NEW d \in Devices, NEW h \in Hosts, Inform(d, h)
  PROVE  FleetInv'
<1> USE DEF view, bounds
<1>1. /\ TypeOK /\ QueueInv /\ IdleInv /\ RouteInv /\ OwnTasksOnly
      /\ host' = [host EXCEPT ![d] = h] /\ ~Open(d) /\ d \in Keys
  BY DEF FleetInv, Inform, Keys
<1>2. /\ sessions' = sessions \cup {d} /\ byIP' = [byIP EXCEPT ![h] = d]
      /\ known' = known \cup {d} /\ fresh' = fresh \cup {d}
      /\ jar' = IF d \in cookies THEN [jar EXCEPT ![d] = d] ELSE jar
      /\ inflight' = [inflight EXCEPT ![d] = None]
      /\ UNCHANGED <<cookies, task, tasks, restarts, drops>>
  BY DEF Inform, Serve, deviceSessionLocked, InformsFrom
<1>3. PICK orphan \in requeueOrphanedTask(d), reads \in FirstContact(d) :
        taskQueue' = [taskQueue EXCEPT ![d] = enqueue(enqueue(@, orphan), reads)]
  BY DEF Inform
<1>4. mixed' = IF {e \in Devices : host[e] = h} = {} THEN mixed \ {d}
               ELSE mixed \cup {e \in Devices : host[e] = h} \cup {d}
  BY DEF Inform
<1>5. orphan \in Seq({d}) /\ reads \in Seq({d})
  <2>1. inflight[d] \in {d, None}
    BY <1>1 DEF QueueInv
  <2>2. << >> \in Seq({d}) /\ <<d>> \in Seq({d})
    OBVIOUS
  <2>3. orphan \in {<< >>, <<d>>}
    BY <2>1 DEF requeueOrphanedTask
  <2>4. reads \in {<< >>, <<d>>}
    BY DEF FirstContact
  <2> QED BY <2>2, <2>3, <2>4
<1>6. taskQueue'[d] \in Seq({d}) /\ Len(taskQueue'[d]) <= QueueCap
  <2>1. taskQueue[d] \in Seq({d})
    BY <1>1 DEF QueueInv
  <2>2. enqueue(taskQueue[d], orphan) \in Seq({d})
    BY <1>5, <2>1, EnqueueType
  <2>3. /\ enqueue(enqueue(taskQueue[d], orphan), reads) \in Seq({d})
        /\ Len(enqueue(enqueue(taskQueue[d], orphan), reads)) <= QueueCap
    BY <1>5, <2>2, EnqueueType
  <2> QED BY <1>1, <1>3, <2>3 DEF TypeOK
<1>7. TypeOK'
  <2>1. taskQueue' \in [Keys -> Seq(Keys)]
    <3>1. taskQueue'[d] \in Seq(Keys)
      BY <1>1, <1>6, SeqMonotonic
    <3> QED BY <1>1, <1>3, <3>1 DEF TypeOK
  <2>2. \A k \in Keys : Len(taskQueue'[k]) <= QueueCap
    BY <1>1, <1>3, <1>6 DEF TypeOK
  <2> QED BY <1>1, <1>2, <1>4, <2>1, <2>2 DEF TypeOK, Keys
<1>8. QueueInv'
  BY <1>1, <1>2, <1>3, <1>6 DEF QueueInv, TypeOK
<1>9. IdleInv'
  BY <1>1, <1>2 DEF IdleInv, Open, TypeOK
<1>10. \A e \in Devices : e # d => (Open(e)' <=> Open(e)) /\ host'[e] = host[e]
  BY <1>1 DEF Open, TypeOK
<1>11. CookieInv'
  BY <1>1, <1>2 DEF RouteInv, CookieInv, TypeOK
<1>12. \A e \in Devices : (e # d /\ e \notin mixed' /\ Open(e)') =>
                            e \notin mixed /\ host[e] # h /\ host[e] \in Hosts
  BY <1>1, <1>4, <1>10 DEF Open, TypeOK
<1>13. AddressInv' /\ AloneInv'
  <2> SUFFICES ASSUME NEW e \in Devices, Open(e)', e \notin mixed'
               PROVE  /\ e \in fresh' => byIP'[host'[e]] = e /\ e \in sessions'
                      /\ e \in cookies => jar'[e] = e
                      /\ byIP'[host'[e]] \in {e, host'[e], None}
    BY <1>2 DEF AddressInv, AloneInv
  <2>1. CASE e = d
    BY <1>1, <1>2, <2>1 DEF TypeOK
  <2>2. CASE e # d
    BY <1>1, <1>2, <1>10, <1>12, <2>2 DEF RouteInv, AddressInv, AloneInv, TypeOK
  <2> QED BY <2>1, <2>2
<1>14. OwnTasksOnly'
  <2> SUFFICES ASSUME NEW e \in Devices, Exact(e)' PROVE task[e] \in {e, None}
    BY <1>2 DEF OwnTasksOnly
  <2>1. CASE e = d
    BY <1>1, <2>1 DEF IdleInv
  <2>2. CASE e # d
    <3>1. Exact(e)
      BY <1>2, <1>4, <2>2 DEF Exact
    <3> QED BY <1>1, <3>1 DEF OwnTasksOnly
  <2> QED BY <2>1, <2>2
<1> QED BY <1>7, <1>8, <1>9, <1>11, <1>13, <1>14 DEF FleetInv, RouteInv

LEMMA AtcInv ==
  ASSUME FleetInv, NEW d \in Devices, onATC(d) PROVE FleetInv'
<1>1. /\ Open(d) /\ Serve(d, routeSession(d)) /\ Provisional(d, routeSession(d))
      /\ UNCHANGED <<known, taskQueue, inflight, cookies, host, task, tasks,
                     view, bounds>>
  BY DEF onATC
<1>2. /\ RouteInv'
      /\ sessions' \subseteq Keys /\ byIP' \in [Hosts -> Keys \cup {None}]
      /\ jar' \in [Devices -> Devices \cup {None}]
  BY <1>1, RequestRoutes
<1>3. TypeOK'
  BY <1>1, <1>2 DEF FleetInv, TypeOK, view, bounds
<1>4. QueueInv' /\ IdleInv' /\ OwnTasksOnly'
  BY <1>1 DEF FleetInv, QueueInv, IdleInv, OwnTasksOnly, Exact, Open, view
<1> QED BY <1>2, <1>3, <1>4 DEF FleetInv

\* what a session hands out is a task of the session's own device
LEMMA HandedOut ==
  ASSUME FleetInv, NEW k \in Keys, nextTask(k)
  PROVE  /\ Handed(k) \in {k, None}
         /\ taskQueue' \in [Keys -> Seq(Keys)]
         /\ \A j \in Keys : /\ taskQueue'[j] \in Seq({j})
                            /\ Len(taskQueue'[j]) <= QueueCap
<1>1. /\ taskQueue \in [Keys -> Seq(Keys)] /\ taskQueue[k] \in Seq({k})
      /\ \A j \in Keys : taskQueue[j] \in Seq({j}) /\ Len(taskQueue[j]) <= QueueCap
  BY DEF FleetInv, TypeOK, QueueInv
<1>2. CASE taskQueue[k] = << >>
  BY <1>1, <1>2 DEF nextTask, Handed
<1>3. CASE taskQueue[k] # << >>
  <2>1. /\ Head(taskQueue[k]) = k /\ Tail(taskQueue[k]) \in Seq({k})
        /\ Len(Tail(taskQueue[k])) = Len(taskQueue[k]) - 1
        /\ Len(taskQueue[k]) \in Nat
    BY <1>1, <1>3, HeadTailProperties, LenProperties
  <2>2. Tail(taskQueue[k]) \in Seq(Keys)
    BY <2>1, SeqMonotonic
  <2>3. taskQueue' = [taskQueue EXCEPT ![k] = Tail(@)]
    BY <1>3 DEF nextTask
  <2>4. Handed(k) = k
    BY <1>3, <2>1 DEF Handed
  <2>5. Len(Tail(taskQueue[k])) <= QueueCap
    BY <1>1, <2>1
  <2> QED BY <1>1, <2>1, <2>2, <2>3, <2>4, <2>5
<1> QED BY <1>2, <1>3

\* an empty POST and an answer: the device goes on with what it is handed, or
\* has done its share
LEMMA TurnInv ==
  ASSUME FleetInv, NEW d \in Devices, EmptyPost(d) \/ Answer(d)
  PROVE  FleetInv'
<1> DEFINE k == routeSession(d)
<1>1. /\ Open(d) /\ Serve(d, k) /\ Provisional(d, k) /\ nextTask(k)
      /\ UNCHANGED <<known, cookies, view, bounds>> /\ k \in Keys
  BY RouteIsKey DEF EmptyPost, Answer
<1>2. /\ Handed(k) \in {k, None}
      /\ taskQueue' \in [Keys -> Seq(Keys)]
      /\ \A j \in Keys : /\ taskQueue'[j] \in Seq({j})
                         /\ Len(taskQueue'[j]) <= QueueCap
  BY <1>1, HandedOut
<1>3. PICK t \in {Handed(k), None} :
        Take(d, t) /\ (t # None => tasks[d] < MaxSessionTasks)
  <2>1. CASE EmptyPost(d)
    <3>1. Take(d, Handed(k)) /\ tasks[d] = 0
      BY <2>1 DEF EmptyPost, FleetInv, IdleInv
    <3> QED BY <3>1
  <2>2. CASE Answer(d)
    BY <2>2 DEF Answer
  <2> QED BY <2>1, <2>2
<1>4. inflight' \in {inflight, [inflight EXCEPT ![k] = Handed(k)]}
  BY DEF EmptyPost, Answer
<1>5. /\ inflight' \in [Keys -> Keys \cup {None}]
      /\ \A j \in Keys : inflight'[j] \in {j, None}
  <2> HIDE DEF k
  <2>1. /\ inflight \in [Keys -> Keys \cup {None}]
        /\ \A j \in Keys : inflight[j] \in {j, None}
    BY DEF FleetInv, TypeOK, QueueInv
  <2>2. CASE inflight' = inflight
    BY <2>1, <2>2
  <2>3. CASE inflight' = [inflight EXCEPT ![k] = Handed(k)]
    BY <1>1, <1>2, <2>1, <2>3
  <2> QED BY <1>4, <2>2, <2>3
<1>6. /\ task' = [task EXCEPT ![d] = t]
      /\ tasks' = [tasks EXCEPT ![d] = IF t = None THEN 0 ELSE @ + 1]
      /\ host' = IF t = None THEN [host EXCEPT ![d] = None] ELSE host
  BY <1>3 DEF Take
<1>7. /\ RouteInv'
      /\ sessions' \subseteq Keys /\ byIP' \in [Hosts -> Keys \cup {None}]
      /\ jar' \in [Devices -> Devices \cup {None}]
  BY <1>1, <1>6, RequestRoutes
<1>8. TypeOK'
  <2>1. tasks' \in [Devices -> 0..MaxSessionTasks]
    BY <1>3, <1>6 DEF FleetInv, TypeOK
  <2>2. task' \in [Devices -> Keys \cup {None}]
    BY <1>1, <1>2, <1>6 DEF FleetInv, TypeOK
  <2>3. host' \in [Devices -> Hosts \cup {None}]
    BY <1>6 DEF FleetInv, TypeOK
  <2> QED BY <1>1, <1>2, <1>5, <1>7, <2>1, <2>2, <2>3
         DEF FleetInv, TypeOK, view, bounds
<1>9. QueueInv'
  BY <1>2, <1>5 DEF QueueInv
<1>10. IdleInv'
  <2>1. task \in [Devices -> Keys \cup {None}] /\ host[d] # None
        /\ tasks \in [Devices -> 0..MaxSessionTasks]
        /\ host \in [Devices -> Hosts \cup {None}]
    BY <1>1 DEF FleetInv, TypeOK, Open
  <2> SUFFICES ASSUME NEW e \in Devices
               PROVE  /\ ~Open(e)' => task'[e] = None
                      /\ task'[e] = None => tasks'[e] = 0
    BY DEF IdleInv
  <2>2. CASE e = d /\ t = None
    BY <1>6, <2>1, <2>2
  <2>3. CASE e = d /\ t # None
    BY <1>6, <2>1, <2>3 DEF Open
  <2>4. CASE e # d
    <3>1. task'[e] = task[e] /\ tasks'[e] = tasks[e] /\ host'[e] = host[e]
      BY <1>6, <2>1, <2>4
    <3> QED BY <3>1 DEF FleetInv, IdleInv, Open
  <2> QED BY <2>2, <2>3, <2>4
<1>11. OwnTasksOnly'
  <2>1. Exact(d) => t \in {d, None}
    BY <1>1, <1>2, <1>3, RouteExact
  <2>2. task'[d] = t /\ \A e \in Devices : e # d => task'[e] = task[e]
    BY <1>6 DEF FleetInv, TypeOK
  <2> QED BY <1>1, <2>1, <2>2, OwnTasksKept
<1> QED BY <1>7, <1>8, <1>9, <1>10, <1>11 DEF FleetInv

LEMMA DropInv ==
  ASSUME FleetInv, NEW d \in Devices, Drop(d) PROVE FleetInv'
<1>1. /\ task' = [task EXCEPT ![d] = None] /\ tasks' = [tasks EXCEPT ![d] = 0]
      /\ host' = [host EXCEPT ![d] = None] /\ drops' = drops + 1
      /\ drops < MaxDrops
      /\ UNCHANGED <<known, sessions, byIP, taskQueue, inflight, cookies, jar,
                     fresh, mixed, restarts>>
  BY DEF Drop, Take, acs, view
<1>2. TypeOK'
  BY <1>1 DEF FleetInv, TypeOK
<1>3. QueueInv' /\ IdleInv' /\ CookieInv' /\ OwnTasksOnly'
  BY <1>1 DEF FleetInv, TypeOK, QueueInv, IdleInv, RouteInv, CookieInv,
              OwnTasksOnly, Exact, Open
<1>4. AddressInv' /\ AloneInv'
  BY <1>1 DEF FleetInv, TypeOK, RouteInv, AddressInv, AloneInv, Open
<1> QED BY <1>2, <1>3, <1>4 DEF FleetInv, RouteInv

LEMMA EnqueueInv ==
  ASSUME FleetInv, NEW d \in Devices, Enqueue(d) PROVE FleetInv'
<1>1. /\ sessions' = sessions \cup {d} /\ d \in Keys
      /\ taskQueue' = [taskQueue EXCEPT ![d] = enqueue(@, <<d>>)]
      /\ UNCHANGED <<known, byIP, inflight, cookies, host, jar, task, tasks,
                     fresh, mixed, restarts, drops>>
  BY DEF Enqueue, deviceSessionLocked, device, view, bounds, Keys
<1>2. /\ enqueue(taskQueue[d], <<d>>) \in Seq({d})
      /\ Len(enqueue(taskQueue[d], <<d>>)) <= QueueCap
  <2>1. taskQueue[d] \in Seq({d}) /\ <<d>> \in Seq({d})
    BY <1>1 DEF FleetInv, QueueInv
  <2> QED BY <2>1, EnqueueType
<1>3. enqueue(taskQueue[d], <<d>>) \in Seq(Keys)
  BY <1>1, <1>2, SeqMonotonic
<1>4. TypeOK'
  <2>1. taskQueue' \in [Keys -> Seq(Keys)]
        /\ \A k \in Keys : Len(taskQueue'[k]) <= QueueCap
    BY <1>1, <1>2, <1>3 DEF FleetInv, TypeOK
  <2> QED BY <1>1, <2>1 DEF FleetInv, TypeOK
<1>5. QueueInv'
  BY <1>1, <1>2 DEF FleetInv, TypeOK, QueueInv
<1>6. IdleInv' /\ RouteInv' /\ OwnTasksOnly'
  BY <1>1 DEF FleetInv, IdleInv, RouteInv, CookieInv, AddressInv, AloneInv,
              OwnTasksOnly, Exact, Open
<1> QED BY <1>4, <1>5, <1>6 DEF FleetInv

LEMMA RestartInv ==
  ASSUME FleetInv, Restart PROVE FleetInv'
<1>1. /\ sessions' = {} /\ byIP' = [h \in Hosts |-> None]
      /\ taskQueue' = [k \in Keys |-> << >>] /\ inflight' = [k \in Keys |-> None]
      /\ fresh' = {} /\ restarts < MaxRestarts /\ restarts' = restarts + 1
      /\ UNCHANGED <<known, cookies, host, jar, task, tasks, mixed, drops>>
  BY DEF Restart, device
<1>2. TypeOK' /\ QueueInv'
  BY <1>1 DEF FleetInv, TypeOK, QueueInv
<1>3. IdleInv' /\ CookieInv' /\ AddressInv' /\ OwnTasksOnly'
  BY <1>1 DEF FleetInv, IdleInv, CookieInv, AddressInv, OwnTasksOnly, Exact, Open
<1>4. AloneInv'
  BY <1>1 DEF FleetInv, TypeOK, RouteInv, AloneInv, Open
<1> QED BY <1>2, <1>3, <1>4 DEF FleetInv, RouteInv

LEMMA FleetInit == Init => FleetInv
<1> SUFFICES ASSUME Init PROVE FleetInv
  OBVIOUS
<1>1. TypeOK /\ QueueInv
  BY DEF Init, TypeOK, QueueInv
<1>2. IdleInv /\ RouteInv /\ OwnTasksOnly
  BY DEF Init, IdleInv, RouteInv, CookieInv, AddressInv, AloneInv, OwnTasksOnly,
         Exact, Open
<1> QED BY <1>1, <1>2 DEF FleetInv

LEMMA FleetStep == FleetInv /\ [Next]_vars => FleetInv'
<1> SUFFICES ASSUME FleetInv, [Next]_vars PROVE FleetInv'
  OBVIOUS
<1>1. CASE UNCHANGED vars
  BY <1>1 DEF vars, acs, device, view, bounds, FleetInv, TypeOK, QueueInv, IdleInv,
              RouteInv, CookieInv, AddressInv, AloneInv, OwnTasksOnly, Exact, Open
<1>2. ASSUME NEW d \in Devices, Session(d) PROVE FleetInv'
  BY <1>2, InformInv DEF Session
<1>3. ASSUME NEW d \in Devices, onATC(d) PROVE FleetInv'
  BY <1>3, AtcInv
<1>4. ASSUME NEW d \in Devices, Turn(d) PROVE FleetInv'
  BY <1>4, TurnInv DEF Turn
<1>5. ASSUME NEW d \in Devices, Drop(d) PROVE FleetInv'
  BY <1>5, DropInv
<1>6. ASSUME NEW d \in Devices, Enqueue(d) PROVE FleetInv'
  BY <1>6, EnqueueInv
<1>7. CASE Restart
  BY <1>7, RestartInv
<1> QED BY <1>1, <1>2, <1>3, <1>4, <1>5, <1>6, <1>7 DEF Next

LEMMA FleetInvHolds == Spec => []FleetInv
BY FleetInit, FleetStep, PTL DEF Spec

-----------------------------------------------------------------------------
(* The theorems.                                                           *)

\* Every variable keeps its type, and no task queue grows past its capacity,
\* for any fleet.
THEOREM FleetTypeCorrect == Spec => []TypeOK
<1>1. FleetInv => TypeOK
  BY DEF FleetInv
<1> QED BY <1>1, FleetInvHolds, PTL

\* A device that returns the cookie it got since the agent's last start, or has
\* had its address to itself, is handed its own tasks only (routeSession,
\* nextTask).
THEOREM FleetOwnTasks == Spec => []OwnTasksOnly
<1>1. FleetInv => OwnTasksOnly
  BY DEF FleetInv
<1> QED BY <1>1, FleetInvHolds, PTL

\* What such a device sends is attributed to its own session (routeSession).
THEOREM FleetRoutesRight == Spec => []RoutedRight
<1>1. FleetInv => RoutedRight
  BY RouteExact DEF RoutedRight
<1> QED BY <1>1, FleetInvHolds, PTL

\* A device that is alone on its address is routed to its own session or to a
\* provisional one, whatever restarts fall into its session.
THEOREM FleetAlone == Spec => []AloneIsNeverAnother
<1>1. FleetInv => AloneIsNeverAnother
  <2> SUFFICES ASSUME FleetInv, NEW d \in Devices, Open(d), d \notin mixed
               PROVE  routeSession(d) \in {d} \cup Hosts
    BY DEF AloneIsNeverAnother
  <2>1. host[d] \in Hosts
    BY DEF FleetInv, TypeOK, Open
  <2> QED BY <2>1, RouteAlone
<1> QED BY <1>1, FleetInvHolds, PTL
=============================================================================
