--------------------------- MODULE CommandsProofs ---------------------------
(***************************************************************************)
(* Proofs about Commands, for every number of commands, every sequence of  *)
(* command types and every number of failures.                             *)
(***************************************************************************)
EXTENDS Commands, SequenceTheorems, FiniteSetTheorems, TLAPS

USE CommandsAssumption

-----------------------------------------------------------------------------
(* The inductive invariant.                                                *)

Working == {"await", "verify", "readback", "mark", "ack", "snapshot"}
InProgress(c) == wpc \in Working /\ Cmd = c

\* the batch, and what the worker is doing with its head
WorkInv ==
  /\ \A i, j \in DOMAIN batch : i < j => batch[i] < batch[j]
  /\ wpc = "idle" => batch = << >>
  /\ wpc \in Working => batch # << >>
  /\ wpc = "await" => type[Cmd] # "other"
  /\ wpc \in {"verify", "readback"} => type[Cmd] = "write"
  /\ wpc \in {"mark", "ack", "snapshot"} => ack.status \in Verdicts

\* the device works on the task in flight, unless a restart has forgotten it,
\* as long as no request is handled late
HandedInv ==
  handed # NoTask => online /\ (lates = 0 => inflight \in {handed, NoTask})

\* only the requests of sessions that were given up are late
QuietInv == drops = 0 => late = << >> /\ lates = 0

Basic == TypeOK /\ WorkInv /\ HandedInv /\ QuietInv

\* The cloud is told what is on record, and the record has no entry of the
\* command that is being worked on.
RecordInv ==
  faults = 0 =>
    /\ \A c \in Cmds : acks[c] # "none" => acks[c] = applied[c]
    /\ ~cancelled =>
         /\ wpc \in {"await", "verify", "readback", "mark"} => applied[Cmd] = "none"
         /\ wpc \in {"ack", "snapshot"} => applied[Cmd] = ack.status

\* whatever says of a write that it was applied
Executed(c) == type[c] = "write" => runs[c] > 0
ExecutedInv ==
  /\ \A i \in DOMAIN results :
       (results[i].task.type = "spv" /\ ~results[i].err)
         => runs[results[i].task.cmd] > 0
  /\ wpc \in {"verify", "readback"} => Executed(Cmd)
  /\ (wpc \in {"mark", "ack", "snapshot"} /\ ack.status = "applied")
       => Executed(Cmd)
  /\ \A c \in Cmds : "applied" \in {applied[c], acks[c]} => Executed(c)
OwnInv == lates = 0 => ExecutedInv

\* a task is one of a command of its kind
Fits(t) ==
  /\ t.type \in {"spv", "rb"} => type[t.cmd] = "write"
  /\ t.type = "gpv" => type[t.cmd] = "query"
  /\ t.type = "reboot" => type[t.cmd] = "reboot"
Queued(t) == \E i \in DOMAIN taskQueue : taskQueue[i] = t
Answered(t) == \E i \in DOMAIN results : results[i].task = t
Alive(t) == Queued(t) \/ inflight = t \/ handed = t \/ Answered(t)
TasksInv == \A t \in Tasks : Alive(t) => Fits(t)

\* The reboots of command c that are under way, and the tasks that the worker
\* may still queue for c before another failure: one for a command that is not
\* on record, and, once the agent is told to stop, one for a command in the
\* rest of the batch, whose record is not read any more.
RebootTask(c) == [cmd |-> c, type |-> "reboot"]
Occ(q, t) == Cardinality({i \in DOMAIN q : q[i] = t})
Copies(c) ==
  Occ(taskQueue, RebootTask(c)) + (IF handed = RebootTask(c) THEN 1 ELSE 0)
Unrecorded(c) == IF applied[c] = "none" THEN 1 ELSE 0
Ahead(c) == ~InProgress(c) /\ \E i \in DOMAIN batch : batch[i] = c
More(c) ==
  IF cancelled
    THEN (IF Ahead(c) THEN 1 ELSE 0) + Unrecorded(c)
    ELSE IF InProgress(c) /\ wpc \notin {"ack", "snapshot"} THEN 0
         ELSE Unrecorded(c)
PaidInv ==
  \A c \in Cmds :
    type[c] = "reboot" => runs[c] + Copies(c) + More(c) <= 1 + faults + stops

\* the last write is in effect, or staged
LastInv == staged.val \in {0, last} /\ (staged.val = 0 => value = last)

\* Without stops, failed statements and late requests: commands are begun in
\* the order they were issued, each once, and until then nothing of them is
\* under way.
Clean == faults = 0 /\ stops = 0 /\ lates = 0
Begun(c) == applied[c] # "none" \/ InProgress(c)
NotBegun(c) ==
  /\ \A t \in Tasks : Alive(t) => t.cmd # c
  /\ last # c
  /\ \A d \in Cmds : Begun(d) => d < c
  /\ \A i \in DOMAIN batch : c < batch[i] => \E j \in DOMAIN batch : batch[j] = c
CleanInv ==
  Clean => /\ ~cancelled
           /\ handed # NoTask => inflight = handed
           /\ \A c \in Cmds : ~Begun(c) => NotBegun(c)

\* There is one copy of a write at most, and none once it was verified: then
\* its value is in effect until another write is executed.
Spv(c) == [cmd |-> c, type |-> "spv"]
Unique(t) ==
  /\ \A i, j \in DOMAIN taskQueue : taskQueue[i] = t /\ taskQueue[j] = t => i = j
  /\ \A i, j \in DOMAIN results : results[i].task = t /\ results[j].task = t => i = j
  /\ ~(Queued(t) /\ Answered(t)) /\ ~(Queued(t) /\ inflight = t)
  /\ ~(Answered(t) /\ inflight = t)
Settled(c) == ~Alive(Spv(c)) /\ Begun(c) /\ (last = c => value = c)
VerifiedAck ==
  /\ wpc \in {"mark", "ack", "snapshot"} /\ type[Cmd] = "write"
  /\ ack.status = "applied" /\ ack.val # 0
EffectInv ==
  Clean =>
    /\ \A c \in Cmds : /\ Unique(Spv(c))
                       /\ Alive(ReadBack(c)) => ~Alive(Spv(c))
    /\ wpc \in {"verify", "readback"} => ~Alive(Spv(Cmd))
    /\ \A i \in DOMAIN results :
         (results[i].task.type = "rb" /\ results[i].val = results[i].task.cmd)
           => Settled(results[i].val)
    /\ VerifiedAck => ack.val = Cmd /\ Settled(Cmd)
    /\ snapshot # 0 => Settled(snapshot)

\* without abandoned sessions the writes under way are in order
OrderInv ==
  (Clean /\ drops = 0) =>
    /\ inflight = handed
    /\ handed.type = "spv" => last < handed.cmd
    /\ \A i \in DOMAIN taskQueue : taskQueue[i].type = "spv" =>
         /\ last < taskQueue[i].cmd
         /\ handed.type = "spv" => handed.cmd < taskQueue[i].cmd
         /\ \A j \in DOMAIN taskQueue :
              (taskQueue[j].type = "spv" /\ i < j) => taskQueue[i].cmd < taskQueue[j].cmd

-----------------------------------------------------------------------------
(* Sequences.                                                              *)

LEMMA AppendFacts ==
  ASSUME NEW S, NEW q \in Seq(S), NEW e \in S
  PROVE  /\ Append(q, e) \in Seq(S)
         /\ DOMAIN q = 1..Len(q) /\ Len(q) \in Nat
         /\ DOMAIN Append(q, e) = 1..(Len(q) + 1)
         /\ \A i \in DOMAIN q : Append(q, e)[i] = q[i]
         /\ Append(q, e)[Len(q) + 1] = e
BY AppendProperties, LenProperties

LEMMA TailFacts ==
  ASSUME NEW S, NEW q \in Seq(S), q # << >>
  PROVE  /\ Head(q) \in S /\ Head(q) = q[1]
         /\ DOMAIN q = 1..Len(q) /\ Len(q) \in Nat \ {0}
         /\ Tail(q) \in Seq(S)
         /\ DOMAIN Tail(q) = 1..(Len(q) - 1)
         /\ \A i \in 1..(Len(q) - 1) : Tail(q)[i] = q[i + 1]
<1>1. Len(q) \in Nat \ {0} /\ DOMAIN q = 1..Len(q)
  BY LenProperties, EmptySeq
<1>2. /\ Tail(q) \in Seq(S) /\ Len(Tail(q)) = Len(q) - 1
      /\ \A i \in 1..Len(Tail(q)) : Tail(q)[i] = q[i + 1]
  BY HeadTailProperties
<1>3. DOMAIN Tail(q) = 1..(Len(q) - 1)
  BY <1>2, LenProperties
<1>4. Head(q) = q[1] /\ Head(q) \in S
  BY HeadTailProperties, <1>1
<1> QED BY <1>1, <1>2, <1>3, <1>4

LEMMA RemoveFacts ==
  ASSUME NEW S, NEW s \in Seq(S), NEW i \in DOMAIN s
  PROVE  /\ RemoveAt(s, i) \in Seq(S)
         /\ DOMAIN s = 1..Len(s) /\ Len(s) \in Nat
         /\ DOMAIN RemoveAt(s, i) = 1..(Len(s) - 1)
         /\ \A j \in 1..(Len(s) - 1) :
              RemoveAt(s, i)[j] = IF j < i THEN s[j] ELSE s[j + 1]
<1>1. DOMAIN s = 1..Len(s) /\ Len(s) \in Nat /\ i \in 1..Len(s)
  BY LenProperties
<1> DEFINE a == SubSeq(s, 1, i - 1)
           b == SubSeq(s, i + 1, Len(s))
<1>2. a \in Seq(S) /\ Len(a) = i - 1 /\ \A j \in 1..(i - 1) : a[j] = s[j]
  BY <1>1, SubSeqProperties
<1>3. /\ b \in Seq(S) /\ Len(b) = Len(s) - i
      /\ \A j \in 1..(Len(s) - i) : b[j] = s[i + j]
  BY <1>1, SubSeqProperties
<1> HIDE DEF a, b
<1>4. /\ a \o b \in Seq(S) /\ Len(a \o b) = Len(a) + Len(b)
      /\ \A j \in 1..(Len(a) + Len(b)) :
           (a \o b)[j] = IF j <= Len(a) THEN a[j] ELSE b[j - Len(a)]
  <2>1. a \in Seq(S) /\ b \in Seq(S)
    BY <1>2, <1>3, Zenon
  <2> QED BY <2>1, ConcatProperties, ZenonT(60)
<1>5. Len(a \o b) = Len(s) - 1 /\ DOMAIN (a \o b) = 1..(Len(s) - 1)
  <2>1. Len(a \o b) = (i - 1) + (Len(s) - i)
    BY <1>2, <1>3, <1>4
  <2>2. Len(a \o b) = Len(s) - 1
    BY <1>1, <2>1
  <2> QED BY <1>4, <2>2, LenProperties
<1>6. \A j \in 1..(Len(s) - 1) : (a \o b)[j] = IF j < i THEN s[j] ELSE s[j + 1]
  <2> SUFFICES ASSUME NEW j \in 1..(Len(s) - 1)
               PROVE  (a \o b)[j] = IF j < i THEN s[j] ELSE s[j + 1]
    OBVIOUS
  <2>1. CASE j < i
    BY <1>1, <1>2, <1>3, <1>4, <2>1
  <2>2. CASE ~(j < i)
    <3>1. (a \o b)[j] = b[j - (i - 1)] /\ j - (i - 1) \in 1..(Len(s) - i)
      <4>1. j \in 1..(Len(a) + Len(b)) /\ ~(j <= Len(a))
        BY <1>1, <1>2, <1>3, <2>2
      <4>2. (a \o b)[j] = b[j - Len(a)]
        BY <1>4, <4>1
      <4>3. j - (i - 1) \in 1..(Len(s) - i)
        BY <1>1, <2>2
      <4> QED BY <1>2, <4>2, <4>3
    <3>2. b[j - (i - 1)] = s[i + (j - (i - 1))]
      BY <1>3, <3>1
    <3>3. i + (j - (i - 1)) = j + 1
      BY <1>1
    <3> QED BY <2>2, <3>1, <3>2, <3>3
  <2> QED BY <2>1, <2>2
<1> QED BY <1>1, <1>4, <1>5, <1>6 DEF RemoveAt, a, b

LEMMA RemoveLen ==
  ASSUME NEW S, NEW s \in Seq(S), NEW i \in DOMAIN s
  PROVE  Len(RemoveAt(s, i)) = Len(s) - 1
<1> DEFINE n == Len(RemoveAt(s, i))
           k == Len(s) - 1
<1>1. RemoveAt(s, i) \in Seq(S) /\ DOMAIN RemoveAt(s, i) = 1..k /\ k \in Nat
  BY RemoveFacts
<1>2. n \in Nat /\ DOMAIN RemoveAt(s, i) = 1..n
  BY <1>1, LenProperties
<1> HIDE DEF n, k
<1>3. 1..n = 1..k
  BY <1>1, <1>2
<1>4. ~(n < k) /\ ~(k < n)
  <2>1. n < k => k \in 1..k /\ k \notin 1..n
    BY <1>1, <1>2
  <2>2. k < n => n \in 1..n /\ n \notin 1..k
    BY <1>1, <1>2
  <2> QED BY <1>3, <2>1, <2>2
<1>5. n = k
  BY <1>1, <1>2, <1>4
<1> QED BY <1>5 DEF n, k

\* what is left are other elements than the one removed
LEMMA RemoveFrom ==
  ASSUME NEW S, NEW s \in Seq(S), NEW i \in DOMAIN s
  PROVE  /\ \A j \in DOMAIN RemoveAt(s, i) :
              \E k \in DOMAIN s : k # i /\ RemoveAt(s, i)[j] = s[k]
         /\ \A j, l \in DOMAIN RemoveAt(s, i) : j # l =>
              \E k, m \in DOMAIN s :
                /\ k # m /\ k # i /\ m # i
                /\ RemoveAt(s, i)[j] = s[k] /\ RemoveAt(s, i)[l] = s[m]
<1> DEFINE k(j) == IF j < i THEN j ELSE j + 1
<1>1. /\ DOMAIN s = 1..Len(s) /\ Len(s) \in Nat /\ i \in 1..Len(s)
      /\ DOMAIN RemoveAt(s, i) = 1..(Len(s) - 1)
  BY RemoveFacts
<1>2. \A j \in 1..(Len(s) - 1) :
        k(j) \in 1..Len(s) /\ k(j) # i /\ RemoveAt(s, i)[j] = s[k(j)]
  BY <1>1, RemoveFacts
<1>3. \A j, l \in 1..(Len(s) - 1) : j # l => k(j) # k(l)
  BY <1>1
<1> HIDE DEF k
<1> QED BY <1>1, <1>2, <1>3

-----------------------------------------------------------------------------
(* Types.                                                                  *)

LEMMA CmdType == ASSUME TypeOK, batch # << >> PROVE Cmd \in Cmds
BY TailFacts DEF TypeOK, WorkerType, Cmd

LEMMA TypeType ==
  ASSUME TypeOK, NEW c \in Cmds
  PROVE  type[c] \in {"write", "query", "reboot", "other"}
BY DEF TypeOK, CloudType, Cmds

LEMMA MainTaskType ==
  ASSUME TypeOK, NEW c \in Cmds, type[c] # "other"
  PROVE  /\ MainTask(c) \in Tasks /\ MainTask(c).cmd = c
         /\ MainTask(c).type = "spv" <=> type[c] = "write"
         /\ MainTask(c).type = "gpv" <=> type[c] = "query"
         /\ MainTask(c).type = "reboot" <=> type[c] = "reboot"
         /\ MainTask(c).type # "rb"
BY TypeType DEF MainTask, Tasks

LEMMA ReadBackType == ASSUME NEW c \in Cmds PROVE ReadBack(c) \in Tasks
BY DEF ReadBack, Tasks

LEMMA NoTaskType == NoTask \notin Tasks
BY DEF NoTask, Tasks, Cmds

LEMMA InOrderType ==
  ASSUME TypeOK, NEW s \in InOrder(Outstanding)
  PROVE  /\ s \in Seq(Cmds)
         /\ \A i, j \in DOMAIN s : i < j => s[i] < s[j]
         /\ {s[i] : i \in DOMAIN s} = Outstanding
<1>1. IsFiniteSet(1..issued) /\ Outstanding \subseteq 1..issued
  <2>1. 1 \in Int /\ issued \in Int
    BY DEF TypeOK, CloudType
  <2>2. IsFiniteSet(1..issued)
    BY <2>1, FS_Interval
  <2> QED BY <2>2 DEF Outstanding
<1>2. Cardinality(Outstanding) \in Nat
  BY <1>1, FS_Subset, FS_CardinalityType
<1>3. s \in [1..Cardinality(Outstanding) -> Outstanding]
  BY DEF InOrder
<1>4. Outstanding \subseteq Cmds
  BY <1>1 DEF TypeOK, CloudType, Cmds
<1>5. s \in Seq(Outstanding)
  BY <1>2, <1>3, IsASeq
<1>6. s \in Seq(Cmds)
  BY <1>4, <1>5, SeqMonotonic
<1> QED BY <1>6 DEF InOrder

LEMMA NothingStagedType == NothingStaged \in [val : 0..MaxCmd, boot : BOOLEAN]
<1>1. 0 \in 0..MaxCmd
  OBVIOUS
<1> QED BY <1>1, Zenon DEF NothingStaged

LEMMA InitType == Init => TypeOK
<1> SUFFICES ASSUME Init PROVE TypeOK
  OBVIOUS
<1>1. /\ << >> \in Seq(Tasks) /\ << >> \in Seq(Results) /\ << >> \in Seq(Cmds)
      /\ << >> \in Seq(Requests) /\ Len(<< >>) = 0
  BY EmptySeq
<1>2. FlagsType
  BY DEF Init, FlagsType
<1>3. CloudType
  BY DEF Init, CloudType
<1>4. SessionType
  BY <1>1 DEF Init, SessionType
<1>5. WorkerType
  BY <1>1 DEF Init, WorkerType, NoAck
<1>6. DeviceType
  BY NothingStagedType DEF Init, DeviceType
<1>7. BoundsType
  BY <1>1 DEF Init, BoundsType, Room
<1> QED BY <1>2, <1>3, <1>4, <1>5, <1>6, <1>7 DEF TypeOK

LEMMA OneMore ==
  ASSUME NEW a \in Nat, NEW b \in Nat, NEW c \in Nat, NEW d \in Nat,
         NEW e \in Nat, NEW f \in Nat, a + b + c + d + e + f + 1 <= MaxTroubles
  PROVE  /\ (a + 1) + b + c + d + e + f + 0 <= MaxTroubles
         /\ a + (b + 1) + c + d + e + f + 0 <= MaxTroubles
         /\ a + b + (c + 1) + d + e + f + 0 <= MaxTroubles
         /\ a + b + c + (d + 1) + e + f + 0 <= MaxTroubles
OBVIOUS

\* one failure more is within the bounds, and so is a request that may be late
LEMMA TroubleType ==
  ASSUME BoundsType, late \in Seq(Requests)
  PROVE  /\ Trouble(lost) /\ UNCHANGED <<faults, stops, drops, net>> => BoundsType'
         /\ Trouble(faults) /\ UNCHANGED <<lost, stops, drops, net>> => BoundsType'
         /\ Trouble(stops) /\ UNCHANGED <<lost, faults, drops, net>> => BoundsType'
         /\ Trouble(drops) /\ UNCHANGED <<lost, faults, stops, net>> => BoundsType'
         /\ UNCHANGED <<lost, faults, stops, drops, net>> => BoundsType'
<1>1. Len(late) \in Nat
  BY LenProperties
<1>2. UNCHANGED net => late' = late /\ lates' = lates
  BY DEF net
<1>3. BoundsType <=> /\ lost \in Nat /\ faults \in Nat /\ stops \in Nat
                     /\ drops \in Nat /\ lates \in Nat
                     /\ lost + faults + stops + drops + lates + Len(late) + 0 <= MaxTroubles
  BY DEF BoundsType, Room
<1>4. BoundsType' <=> /\ lost' \in Nat /\ faults' \in Nat /\ stops' \in Nat
                      /\ drops' \in Nat /\ lates' \in Nat
                      /\ lost' + faults' + stops' + drops' + lates' + Len(late') + 0
                           <= MaxTroubles
  BY DEF BoundsType, Room
<1>5. Trouble(lost) /\ UNCHANGED <<faults, stops, drops, net>> => BoundsType'
  <2> SUFFICES ASSUME Trouble(lost), UNCHANGED <<faults, stops, drops, net>> PROVE BoundsType'
    OBVIOUS
  <2>1. /\ lost' = lost + 1 /\ UNCHANGED <<faults, stops, drops, late, lates>>
        /\ lost + faults + stops + drops + lates + Len(late) + 1 <= MaxTroubles
    BY <1>2 DEF Trouble, Room
  <2>2. /\ lost \in Nat /\ faults \in Nat /\ stops \in Nat /\ drops \in Nat
        /\ lates \in Nat
    BY <1>3
  <2>3. (lost + 1) + faults + stops + drops + lates + Len(late) + 0 <= MaxTroubles
    BY <1>1, <2>1, <2>2, OneMore
  <2>4. lost' \in Nat /\ faults' \in Nat /\ stops' \in Nat /\ drops' \in Nat
    BY <2>1, <2>2
  <2> QED BY <1>4, <2>1, <2>2, <2>3, <2>4
<1>6. Trouble(faults) /\ UNCHANGED <<lost, stops, drops, net>> => BoundsType'
  <2> SUFFICES ASSUME Trouble(faults), UNCHANGED <<lost, stops, drops, net>> PROVE BoundsType'
    OBVIOUS
  <2>1. /\ faults' = faults + 1 /\ UNCHANGED <<lost, stops, drops, late, lates>>
        /\ lost + faults + stops + drops + lates + Len(late) + 1 <= MaxTroubles
    BY <1>2 DEF Trouble, Room
  <2>2. /\ lost \in Nat /\ faults \in Nat /\ stops \in Nat /\ drops \in Nat
        /\ lates \in Nat
    BY <1>3
  <2>3. lost + (faults + 1) + stops + drops + lates + Len(late) + 0 <= MaxTroubles
    BY <1>1, <2>1, <2>2, OneMore
  <2>4. lost' \in Nat /\ faults' \in Nat /\ stops' \in Nat /\ drops' \in Nat
    BY <2>1, <2>2
  <2> QED BY <1>4, <2>1, <2>2, <2>3, <2>4
<1>7. Trouble(stops) /\ UNCHANGED <<lost, faults, drops, net>> => BoundsType'
  <2> SUFFICES ASSUME Trouble(stops), UNCHANGED <<lost, faults, drops, net>> PROVE BoundsType'
    OBVIOUS
  <2>1. /\ stops' = stops + 1 /\ UNCHANGED <<lost, faults, drops, late, lates>>
        /\ lost + faults + stops + drops + lates + Len(late) + 1 <= MaxTroubles
    BY <1>2 DEF Trouble, Room
  <2>2. /\ lost \in Nat /\ faults \in Nat /\ stops \in Nat /\ drops \in Nat
        /\ lates \in Nat
    BY <1>3
  <2>3. lost + faults + (stops + 1) + drops + lates + Len(late) + 0 <= MaxTroubles
    BY <1>1, <2>1, <2>2, OneMore
  <2>4. lost' \in Nat /\ faults' \in Nat /\ stops' \in Nat /\ drops' \in Nat
    BY <2>1, <2>2
  <2> QED BY <1>4, <2>1, <2>2, <2>3, <2>4
<1>8. Trouble(drops) /\ UNCHANGED <<lost, faults, stops, net>> => BoundsType'
  <2> SUFFICES ASSUME Trouble(drops), UNCHANGED <<lost, faults, stops, net>> PROVE BoundsType'
    OBVIOUS
  <2>1. /\ drops' = drops + 1 /\ UNCHANGED <<lost, faults, stops, late, lates>>
        /\ lost + faults + stops + drops + lates + Len(late) + 1 <= MaxTroubles
    BY <1>2 DEF Trouble, Room
  <2>2. /\ lost \in Nat /\ faults \in Nat /\ stops \in Nat /\ drops \in Nat
        /\ lates \in Nat
    BY <1>3
  <2>3. lost + faults + stops + (drops + 1) + lates + Len(late) + 0 <= MaxTroubles
    BY <1>1, <2>1, <2>2, OneMore
  <2>4. lost' \in Nat /\ faults' \in Nat /\ stops' \in Nat /\ drops' \in Nat
    BY <2>1, <2>2
  <2> QED BY <1>4, <2>1, <2>2, <2>3, <2>4
<1>9. UNCHANGED <<lost, faults, stops, drops, net>> => BoundsType'
  BY <1>2, <1>3, <1>4
<1> QED BY <1>5, <1>6, <1>7, <1>8, <1>9

LEMMA LateType ==
  ASSUME BoundsType, late \in Seq(Requests), NEW m \in Requests, Trouble(drops),
         MayBeLate(m), UNCHANGED <<lost, faults, stops, lates>>
  PROVE  late' \in Seq(Requests) /\ BoundsType'
<1>1. late' \in Seq(Requests) /\ Len(late') = Len(late) + 1 /\ Len(late) \in Nat
  BY AppendProperties, LenProperties DEF MayBeLate
<1> QED BY <1>1 DEF Trouble, MayBeLate, BoundsType, Room

\* what an answer of the device leaves behind
LEMMA AnswerType ==
  ASSUME TypeOK, NEW err \in BOOLEAN, NEW status \in 0..1, Answer(err, status),
         UNCHANGED <<taskQueue, lost, faults, stops, lates>>
  PROVE  SessionType' /\ online' \in BOOLEAN /\ handed' = NoTask /\ BoundsType'
<1> DEFINE v == IF IsRead(handed) /\ ~err THEN value ELSE 0
           r == [task |-> inflight, err |-> err, status |-> status, val |-> v]
           m == [kind |-> "answer", err |-> err, status |-> status, val |-> v]
<1>1. handed' = NoTask /\ late \in Seq(Requests) /\ BoundsType
  BY DEF Answer, TypeOK, SessionType
<1>2. \/ /\ results' = IF inflight = NoTask THEN results ELSE Append(results, r)
         /\ inflight' = NoTask /\ online' = (online /\ ~Stray(err))
         /\ UNCHANGED <<drops, late>>
      \/ /\ Trouble(drops) /\ online' = FALSE /\ UNCHANGED <<results, inflight>>
         /\ UNCHANGED late \/ MayBeLate(m)
  BY DEF Answer, finishInflight
<1>3. v \in 0..MaxCmd
  BY DEF TypeOK, DeviceType
<1> HIDE DEF v
<1>4. m \in Requests /\ (inflight # NoTask => r \in Results)
  BY <1>3, Zenon DEF TypeOK, SessionType, Results, Requests
<1> HIDE DEF r, m
<1>5. CASE /\ Trouble(drops) /\ online' = FALSE /\ UNCHANGED <<results, inflight>>
           /\ UNCHANGED late \/ MayBeLate(m)
  <2>1. BoundsType' /\ late' \in Seq(Requests)
    BY <1>1, <1>4, <1>5, TroubleType, LateType DEF net
  <2>2. SessionType'
    BY <1>5, <2>1 DEF TypeOK, SessionType
  <2> QED BY <1>1, <1>5, <2>1, <2>2
<1>6. CASE /\ results' = IF inflight = NoTask THEN results ELSE Append(results, r)
           /\ inflight' = NoTask /\ online' = (online /\ ~Stray(err))
           /\ UNCHANGED <<drops, late>>
  <2>1. results' \in Seq(Results)
    BY <1>4, <1>6, AppendFacts DEF TypeOK, SessionType
  <2>2. SessionType'
    BY <1>6, <2>1 DEF TypeOK, SessionType
  <2>3. BoundsType'
    BY <1>1, <1>6, TroubleType DEF net
  <2>4. online' \in BOOLEAN
    BY <1>6
  <2> QED BY <1>1, <2>2, <2>3, <2>4
<1> QED BY <1>2, <1>5, <1>6

LEMMA DeviceTypes == TypeOK /\ Device => TypeOK'
<1> SUFFICES ASSUME TypeOK, Device PROVE TypeOK'
  OBVIOUS
<1> USE DEF cloud, disk, session, worker, device, net, TypeOK
<1>12. UNCHANGED <<lost, faults, stops, drops, net>> => BoundsType'
  BY TroubleType DEF SessionType
<1>1. CASE Inform
  <2>1. taskQueue' \in Seq(Tasks)
    BY <1>1, AppendFacts DEF Inform, HandleInform, Retried, SessionType
  <2>2. FlagsType'
    BY <1>1 DEF Inform, HandleInform, FlagsType
  <2>3. SessionType'
    BY <1>1, <2>1 DEF Inform, HandleInform, SessionType
  <2> QED BY <1>1, <1>12, <2>2, <2>3
          DEF Inform, CloudType, WorkerType, DeviceType
<1>2. CASE nextTask
  <2>1. Head(taskQueue) \in Tasks /\ Tail(taskQueue) \in Seq(Tasks)
    BY <1>2, TailFacts DEF nextTask, SessionType
  <2>2. FlagsType'
    BY <1>2 DEF nextTask, FlagsType
  <2> QED BY <1>2, <1>12, <2>1, <2>2 DEF nextTask, CloudType, SessionType, WorkerType,
             DeviceType
<1>3. CASE NothingQueued
  <2>1. FlagsType'
    BY <1>3 DEF NothingQueued, FlagsType
  <2> QED BY <1>3, <1>12, <2>1 DEF NothingQueued, CloudType, SessionType, WorkerType,
             DeviceType
<1>4. CASE Settle
  <2>1. FlagsType'
    BY <1>4 DEF Settle, FlagsType
  <2>2. DeviceType'
    BY <1>4, NothingStagedType DEF Settle, DeviceType
  <2> QED BY <1>4, <1>12, <2>1, <2>2 DEF Settle, CloudType, SessionType, WorkerType
<1>5. CASE Abandon
  <2>1. FlagsType'
    BY <1>5 DEF Abandon, FlagsType
  <2>2. BoundsType'
    BY <1>5, TroubleType DEF Abandon, SessionType
  <2> QED BY <1>5, <2>1, <2>2 DEF Abandon, CloudType, SessionType, WorkerType,
             DeviceType
<1>11. CASE GiveUp
  <2> DEFINE m == [kind |-> IF online THEN "empty" ELSE "inform",
                   err |-> FALSE, status |-> 0, val |-> 0]
  <2>1. m \in Requests
    BY DEF Requests
  <2>2. MayBeLate(m) /\ Trouble(drops)
    BY <1>11 DEF GiveUp
  <2> HIDE DEF m
  <2>3. late' \in Seq(Requests) /\ BoundsType'
    BY <1>11, <2>1, <2>2, LateType DEF GiveUp, SessionType
  <2>4. FlagsType'
    BY <1>11 DEF GiveUp, FlagsType
  <2> QED BY <1>11, <2>3, <2>4 DEF GiveUp, CloudType, SessionType, WorkerType,
             DeviceType
<1>6. ASSUME NEW err \in BOOLEAN, NEW status \in 0..1, Answer(err, status),
             UNCHANGED <<cloud, disk, taskQueue, worker, lost, faults, stops, lates>>,
             value' \in 0..MaxCmd, staged' \in [val : 0..MaxCmd, boot : BOOLEAN],
             runs' \in [Cmds -> Nat], last' \in 0..MaxCmd
      PROVE  TypeOK'
  <2>1. SessionType' /\ online' \in BOOLEAN /\ handed' = NoTask /\ BoundsType'
    BY <1>6, AnswerType
  <2>2. FlagsType'
    BY <1>6, <2>1 DEF FlagsType
  <2> QED BY <1>6, <2>1, <2>2 DEF CloudType, WorkerType, DeviceType
<1>7. ASSUME NEW t \in {"spv", "reboot"}, handed.type = t, Ran(handed.cmd)
      PROVE  handed.cmd \in Cmds /\ runs' \in [Cmds -> Nat]
  <2>1. handed # NoTask
    BY <1>7 DEF NoTask
  <2>2. handed.cmd \in Cmds
    BY <2>1 DEF DeviceType, Tasks
  <2> QED BY <1>7, <2>2 DEF Ran, DeviceType
<1>8. CASE Write
  <2>1. /\ handed.cmd \in Cmds /\ runs' \in [Cmds -> Nat]
        /\ handed.cmd \in 0..MaxCmd /\ last' \in 0..MaxCmd
    BY <1>7, <1>8 DEF Write, Cmds
  <2>2. value' \in 0..MaxCmd
    BY <1>8, <2>1 DEF Write, DeviceType
  <2>3. staged' \in [val : 0..MaxCmd, boot : BOOLEAN]
    <3>1. /\ [val |-> handed.cmd, boot |-> FALSE] \in [val : 0..MaxCmd, boot : BOOLEAN]
          /\ [val |-> handed.cmd, boot |-> TRUE] \in [val : 0..MaxCmd, boot : BOOLEAN]
      BY <2>1, Zenon
    <3>2. staged' \in {NothingStaged, [val |-> handed.cmd, boot |-> FALSE],
                       [val |-> handed.cmd, boot |-> TRUE]}
      BY <1>8 DEF Write
    <3> QED BY <3>1, <3>2, NothingStagedType
  <2>4. UNCHANGED <<cloud, disk, taskQueue, worker, lost, faults, stops, lates>>
    BY <1>8 DEF Write
  <2>5. Answer(FALSE, 0) \/ Answer(FALSE, 1)
    BY <1>8 DEF Write
  <2>6. 0 \in 0..1 /\ 1 \in 0..1
    OBVIOUS
  <2>7. CASE Answer(FALSE, 0)
    BY <1>6, <2>1, <2>2, <2>3, <2>4, <2>6, <2>7, Zenon
  <2>8. CASE Answer(FALSE, 1)
    BY <1>6, <2>1, <2>2, <2>3, <2>4, <2>6, <2>8, Zenon
  <2> QED BY <2>5, <2>7, <2>8
<1>9. CASE Reboot
  <2>1. runs' \in [Cmds -> Nat]
    BY <1>7, <1>9 DEF Reboot
  <2>2. value' \in 0..MaxCmd /\ last' \in 0..MaxCmd
    BY <1>9 DEF Reboot, DeviceType
  <2>3. staged' \in [val : 0..MaxCmd, boot : BOOLEAN]
    BY <1>9, NothingStagedType DEF Reboot
  <2>4. UNCHANGED <<cloud, disk, taskQueue, worker, lost, faults, stops, lates>>
        /\ Answer(FALSE, 0)
    BY <1>9 DEF Reboot
  <2>5. 0 \in 0..1
    OBVIOUS
  <2> QED BY <1>6, <2>1, <2>2, <2>3, <2>4, <2>5, Zenon
<1>10. CASE Read \/ Refuse
  <2>1. /\ value' \in 0..MaxCmd /\ last' \in 0..MaxCmd /\ runs' \in [Cmds -> Nat]
        /\ staged' \in [val : 0..MaxCmd, boot : BOOLEAN]
    BY <1>10 DEF Read, Refuse, DeviceType
  <2>2. UNCHANGED <<cloud, disk, taskQueue, worker, lost, faults, stops, lates>>
        /\ (Answer(FALSE, 0) \/ Answer(TRUE, 0))
    BY <1>10 DEF Read, Refuse
  <2>3. 0 \in 0..1
    OBVIOUS
  <2> QED BY <1>6, <2>1, <2>2, <2>3, Zenon
<1> QED BY <1>1, <1>2, <1>3, <1>4, <1>5, <1>8, <1>9, <1>10, <1>11 DEF Device

\* what a late request leaves behind
\* a late answer finds nothing in flight, or becomes the result of the task
\* that is in flight now
LEMMA LateResult ==
  ASSUME TypeOK, NEW i \in DOMAIN late, LateAnswer(i)
  PROVE  \/ UNCHANGED results
         \/ \E r \in Results : results' = Append(results, r) /\ r.task = inflight
<1> DEFINE r == [task |-> inflight, err |-> late[i].err,
                 status |-> late[i].status, val |-> late[i].val]
<1>1. late[i] \in Requests
  BY ElementOfSeq, LenProperties DEF TypeOK, SessionType
<1>2. inflight # NoTask => r \in Results
  BY <1>1, Zenon DEF TypeOK, SessionType, Results, Requests
<1>3. results' = IF inflight = NoTask THEN results ELSE Append(results, r)
  BY DEF LateAnswer, finishInflight
<1>4. r.task = inflight
  BY Zenon
<1> HIDE DEF r
<1> QED BY <1>2, <1>3, <1>4

LEMMA LateTypes ==
  ASSUME TypeOK, NEW i \in DOMAIN late, Late(i) PROVE TypeOK'
<1> USE DEF cloud, disk, session, worker, device, TypeOK
<1>1. /\ late[i] \in Requests /\ late' \in Seq(Requests)
      /\ Len(late) \in Nat /\ Len(late') = Len(late) - 1
  <2>1. late \in Seq(Requests)
    BY DEF SessionType
  <2>2. /\ RemoveAt(late, i) \in Seq(Requests) /\ Len(late) \in Nat
        /\ DOMAIN late = 1..Len(late) /\ DOMAIN RemoveAt(late, i) = 1..(Len(late) - 1)
    BY <2>1, RemoveFacts
  <2>3. late' = RemoveAt(late, i)
    BY DEF Late
  <2>4. Len(late') = Len(late) - 1
    BY <2>1, <2>3, RemoveLen
  <2>5. late[i] \in Requests
    BY <2>1, <2>2, ElementOfSeq
  <2> QED BY <2>2, <2>3, <2>4, <2>5
<1>2. BoundsType'
  BY <1>1 DEF Late, BoundsType, Room
<1>3. ASSUME NEW rest \in Tasks \cup {NoTask}, Pop(rest)
      PROVE  taskQueue' \in Seq(Tasks) /\ inflight' \in Tasks \cup {NoTask}
  <2>1. taskQueue # << >> => Head(taskQueue) \in Tasks /\ Tail(taskQueue) \in Seq(Tasks)
    BY TailFacts DEF SessionType
  <2> QED BY <1>3, <2>1 DEF Pop, SessionType
<1>4. known' \in BOOLEAN
  BY DEF Late, LateInform, LateEmpty, LateAnswer, HandleInform, FlagsType
<1>5. ASSUME LateInform(i) PROVE SessionType'
  <2>1. taskQueue' \in Seq(Tasks)
    BY <1>5, AppendFacts DEF LateInform, HandleInform, Retried, SessionType
  <2>2. inflight' \in Tasks \cup {NoTask} /\ results' = results
    BY <1>5 DEF LateInform, HandleInform
  <2> QED BY <1>1, <2>1, <2>2 DEF SessionType
<1>6. ASSUME LateEmpty(i) PROVE SessionType'
  <2>1. taskQueue' \in Seq(Tasks) /\ inflight' \in Tasks \cup {NoTask}
    BY <1>3, <1>6 DEF LateEmpty, SessionType
  <2>2. results' = results
    BY <1>6 DEF LateEmpty
  <2> QED BY <1>1, <2>1, <2>2 DEF SessionType
<1>7. ASSUME LateAnswer(i) PROVE SessionType'
  <2>1. results \in Seq(Results)
    BY DEF SessionType
  <2>2. UNCHANGED results \/ \E r \in Results : results' = Append(results, r)
    BY <1>7, LateResult
  <2>3. results' \in Seq(Results)
    BY <2>1, <2>2, AppendFacts
  <2>4. taskQueue' \in Seq(Tasks) /\ inflight' \in Tasks \cup {NoTask}
    BY <1>3, <1>7 DEF LateAnswer, SessionType
  <2> QED BY <1>1, <2>3, <2>4 DEF SessionType
<1>8. SessionType'
  BY <1>5, <1>6, <1>7 DEF Late
<1>9. FlagsType'
  BY <1>4 DEF Late, FlagsType
<1> QED BY <1>2, <1>8, <1>9 DEF Late, CloudType, WorkerType, DeviceType

-----------------------------------------------------------------------------
(* The worker and its batch.                                               *)

LEMMA BatchFacts ==
  ASSUME TypeOK, WorkInv, batch # << >>
  PROVE  /\ Cmd \in Cmds /\ Cmd = batch[1] /\ Tail(batch) \in Seq(Cmds)
         /\ \A i, j \in DOMAIN Tail(batch) : i < j => Tail(batch)[i] < Tail(batch)[j]
         /\ \A i \in DOMAIN batch : batch[i] \in Cmds /\ Cmd <= batch[i]
         /\ \A i \in DOMAIN Tail(batch) :
              /\ Tail(batch)[i] \in Cmds /\ Cmd < Tail(batch)[i]
              /\ \E j \in DOMAIN batch : batch[j] = Tail(batch)[i]
         /\ \A i \in DOMAIN batch :
              batch[i] # Cmd => \E j \in DOMAIN Tail(batch) : Tail(batch)[j] = batch[i]
<1>1. /\ Cmd \in Cmds /\ Cmd = batch[1]
      /\ DOMAIN batch = 1..Len(batch) /\ Len(batch) \in Nat \ {0}
      /\ Tail(batch) \in Seq(Cmds) /\ DOMAIN Tail(batch) = 1..(Len(batch) - 1)
      /\ \A i \in 1..(Len(batch) - 1) : Tail(batch)[i] = batch[i + 1]
  BY TailFacts DEF TypeOK, WorkerType, Cmd
<1>2. \A i \in 1..Len(batch) : batch[i] \in Cmds
  BY ElementOfSeq DEF TypeOK, WorkerType
<1>3. \A i, j \in 1..Len(batch) : i < j => batch[i] < batch[j]
  BY <1>1 DEF WorkInv
<1>4. \A i \in 1..(Len(batch) - 1) :
        i + 1 \in 1..Len(batch) /\ 1 < i + 1 /\ 1 \in 1..Len(batch)
  BY <1>1
<1>5. \A i, j \in DOMAIN Tail(batch) : i < j => Tail(batch)[i] < Tail(batch)[j]
  BY <1>1, <1>3, <1>4
<1>6. \A i \in DOMAIN Tail(batch) :
        /\ Tail(batch)[i] \in Cmds /\ Cmd < Tail(batch)[i]
        /\ \E j \in DOMAIN batch : batch[j] = Tail(batch)[i]
  BY <1>1, <1>2, <1>3, <1>4
<1>7. \A i \in DOMAIN batch : i # 1 => i - 1 \in DOMAIN Tail(batch) /\ 1 < i
                                       /\ Tail(batch)[i - 1] = batch[i]
  <2> SUFFICES ASSUME NEW i \in DOMAIN batch, i # 1
               PROVE  i - 1 \in DOMAIN Tail(batch) /\ 1 < i
                      /\ Tail(batch)[i - 1] = batch[i]
    OBVIOUS
  <2>1. i - 1 \in 1..(Len(batch) - 1) /\ 1 < i /\ (i - 1) + 1 = i
    BY <1>1
  <2> QED BY <1>1, <2>1
<1>8. \A i \in DOMAIN batch : Cmd <= batch[i]
  <2> SUFFICES ASSUME NEW i \in DOMAIN batch PROVE Cmd <= batch[i]
    OBVIOUS
  <2>1. CASE i = 1
    BY <1>1, <2>1 DEF Cmds
  <2>2. CASE i # 1
    <3>1. batch[1] < batch[i] /\ batch[1] \in Nat /\ batch[i] \in Nat
      BY <1>1, <1>2, <1>3, <1>7, <2>2 DEF Cmds
    <3> QED BY <1>1, <3>1
  <2> QED BY <2>1, <2>2
<1> QED BY <1>1, <1>2, <1>5, <1>6, <1>7, <1>8

\* types, and what Reack and postCommandSnapshot have in common
LEMMA TailWork ==
  ASSUME TypeOK, WorkInv, batch # << >>, batch' = Tail(batch), wpc' = "next"
  PROVE  WorkInv' /\ batch' \in Seq(Cmds)
BY BatchFacts DEF WorkInv, Working

LEMMA AckTypes ==
  ASSUME TypeOK, NEW c \in Cmds, NEW s \in Verdicts, SendAck(c, s),
         UNCHANGED <<issued, type, snapshot, faults, stops, drops, net>>
  PROVE  CloudType' /\ BoundsType'
<1>1. CloudType'
  BY DEF SendAck, TypeOK, CloudType
<1>2. BoundsType'
  BY TroubleType DEF SendAck, Arrives, Lost, TypeOK, SessionType
<1> QED BY <1>1, <1>2

LEMMA BootBounds ==
  ASSUME TypeOK, Boot, UNCHANGED stops \/ Trouble(stops) PROVE BoundsType'
<1>1. /\ Len(late) \in Nat /\ Len(late') = 0 /\ UNCHANGED <<lost, faults, drops, lates>>
      /\ lost \in Nat /\ faults \in Nat /\ stops \in Nat /\ drops \in Nat
      /\ lates \in Nat /\ Room(0)
  BY LenProperties, EmptySeq DEF TypeOK, SessionType, BoundsType, Boot
<1>2. CASE UNCHANGED stops
  BY <1>1, <1>2 DEF BoundsType, Room
<1>3. CASE Trouble(stops)
  <2>1. stops' = stops + 1
        /\ lost + faults + stops + drops + lates + Len(late) + 1 <= MaxTroubles
    BY <1>3 DEF Trouble, Room
  <2>2. lost + faults + (stops + 1) + drops + lates + Len(late) + 0 <= MaxTroubles
    BY <1>1, <2>1, OneMore
  <2> QED BY <1>1, <2>1, <2>2 DEF BoundsType, Room
<1> QED BY <1>2, <1>3

LEMMA BootTypes ==
  ASSUME TypeOK, Boot, BoundsType' PROVE TypeOK' /\ WorkInv'
<1> USE DEF cloud, disk, device
<1>1. /\ << >> \in Seq(Tasks) /\ << >> \in Seq(Results) /\ << >> \in Seq(Cmds)
      /\ << >> \in Seq(Requests) /\ Len(<< >>) = 0
  BY EmptySeq
<1>2. FlagsType'
  BY DEF Boot, TypeOK, FlagsType
<1>3. CloudType' /\ DeviceType'
  BY DEF Boot, TypeOK, CloudType, DeviceType
<1>4. SessionType'
  BY <1>1 DEF Boot, SessionType
<1>5. WorkerType'
  BY <1>1 DEF Boot, TypeOK, WorkerType, NoAck
<1>6. WorkInv'
  BY <1>1 DEF Boot, WorkInv, Working
<1> QED BY <1>2, <1>3, <1>4, <1>5, <1>6 DEF TypeOK

\* what the worker makes of an answer
LEMMA WorkerAnswers ==
  ASSUME TypeOK, WorkInv, NEW i \in DOMAIN results, OnAnswer(i) \/ OnReadback(i)
  PROVE  /\ batch # << >> /\ Cmd \in Cmds /\ batch' = batch /\ type' = type
         /\ Cmd' = Cmd /\ results[i] \in Results
         /\ results' = RemoveAt(results, i)
         /\ \/ /\ wpc = "await" /\ results[i].task = MainTask(Cmd)
               /\ type[Cmd] = "write" /\ ~results[i].err
               /\ wpc' = "verify" /\ UNCHANGED ack
            \/ /\ wpc = "await" /\ results[i].task = MainTask(Cmd)
               /\ wpc' = "mark"
               /\ \E s \in Verdicts, v \in 0..MaxCmd :
                    /\ ack' = [status |-> s, val |-> v]
                    /\ (type[Cmd] = "write" /\ s = "applied")
                         => ~results[i].err /\ v = 0
            \/ /\ wpc = "readback" /\ results[i].task = ReadBack(Cmd)
               /\ wpc' = "mark"
               /\ \E s \in Verdicts, v \in 0..MaxCmd :
                    /\ ack' = [status |-> s, val |-> v]
                    /\ s = "applied" => v = Cmd /\ results[i].val = Cmd
<1>1. /\ batch # << >> /\ Cmd \in Cmds /\ batch' = batch /\ type' = type
      /\ Cmd' = Cmd
  BY CmdType DEF OnAnswer, OnReadback, WorkInv, Working, Cmd, cloud
<1>2. results[i] \in Results /\ results' = RemoveAt(results, i)
  BY ElementOfSeq, LenProperties
     DEF OnAnswer, OnReadback, Take, TypeOK, SessionType
<1>3. results[i].val \in 0..MaxCmd /\ 0 \in 0..MaxCmd /\ results[i].status \in {0, 1}
  BY <1>2 DEF Results
<1>4. results[i].err \in BOOLEAN
  BY <1>2 DEF Results
<1>5. CASE OnAnswer(i)
  <2>1. /\ wpc = "await" /\ type[Cmd] # "other" /\ results[i].task = MainTask(Cmd)
    BY <1>5 DEF OnAnswer, Take, Awaited, WorkInv
  <2>2. type[Cmd] \in {"write", "query", "reboot"}
    BY <1>1, <2>1, TypeType
  <2>3. CASE type[Cmd] = "write" /\ results[i].err
    BY <1>1, <1>2, <1>3, <1>5, <2>1, <2>3 DEF OnAnswer, Verdict, Verdicts
  <2>4. CASE type[Cmd] = "write" /\ ~results[i].err /\ results[i].status = 1
    BY <1>1, <1>2, <1>3, <1>5, <2>1, <2>4 DEF OnAnswer, Verdict, Verdicts
  <2>5. CASE type[Cmd] = "write" /\ ~results[i].err /\ results[i].status = 0
    BY <1>1, <1>2, <1>5, <2>1, <2>5 DEF OnAnswer, Verdict, Verdicts
  <2>6. CASE type[Cmd] # "write"
    BY <1>1, <1>2, <1>3, <1>5, <2>1, <2>2, <2>6 DEF OnAnswer, Verdict, Verdicts
  <2> QED BY <1>3, <1>4, <2>3, <2>4, <2>5, <2>6
<1>6. CASE OnReadback(i)
  <2>1. wpc = "readback" /\ results[i].task = ReadBack(Cmd) /\ ReadBack(Cmd).cmd = Cmd
        /\ wpc' = "mark"
    BY <1>6 DEF OnReadback, Take, Awaited, ReadBack, Verdict
  <2>2. \E s \in Verdicts, v \in 0..MaxCmd :
          /\ ack' = [status |-> s, val |-> v]
          /\ s = "applied" => v = Cmd /\ results[i].val = Cmd
    BY <1>1, <1>3, <1>6, <2>1 DEF OnReadback, Verdict, Verdicts, verifyExpected, Cmds
  <2> QED BY <1>1, <1>2, <2>1, <2>2
<1> QED BY <1>5, <1>6

LEMMA WorkerTypes == TypeOK /\ WorkInv /\ Worker => TypeOK' /\ WorkInv'
<1> SUFFICES ASSUME TypeOK, WorkInv, Worker PROVE TypeOK' /\ WorkInv'
  OBVIOUS
<1> USE DEF cloud, disk, session, worker, device, net
<1>13. late \in Seq(Requests) /\ BoundsType
  BY DEF TypeOK, SessionType
<1>14. UNCHANGED <<lost, faults, stops, drops, net>> => BoundsType'
  BY <1>13, TroubleType
\* all but the worker's own state is left alone
<1>1. ASSUME UNCHANGED <<cloud, disk, session, cancelled, device, lost, faults,
                         stops, drops, net>>, WorkerType'
      PROVE  TypeOK'
  <2>1. FlagsType'
    BY <1>1 DEF TypeOK, FlagsType
  <2> QED BY <1>1, <1>14, <2>1 DEF TypeOK, CloudType, SessionType, DeviceType
<1>2. CASE Poll
  <2>1. batch' \in InOrder(Outstanding)
    BY <1>2 DEF Poll
  <2>2. batch' \in Seq(Cmds) /\ \A i, j \in DOMAIN batch' : i < j => batch'[i] < batch'[j]
    BY <2>1, InOrderType
  <2>3. WorkInv'
    BY <1>2, <2>2 DEF Poll, WorkInv, Working
  <2>4. WorkerType'
    BY <1>2, <2>2 DEF Poll, TypeOK, WorkerType
  <2> QED BY <1>1, <1>2, <2>3, <2>4 DEF Poll
<1>3. CASE Reack
  <2>1. batch # << >> /\ Cmd \in Cmds /\ Recorded(Cmd) \in Verdicts
    BY <1>3, CmdType DEF Reack, Recorded, TypeOK, WorkerType
  <2>2. WorkInv' /\ batch' \in Seq(Cmds)
    BY <1>3, <2>1, TailWork DEF Reack
  <2>3. CloudType' /\ BoundsType'
    BY <1>3, <2>1, AckTypes DEF Reack
  <2>4. FlagsType'
    BY <1>3 DEF Reack, TypeOK, FlagsType
  <2> QED BY <1>3, <2>2, <2>3, <2>4
          DEF Reack, TypeOK, SessionType, WorkerType, DeviceType
<1>4. CASE Apply
  <2>1. batch # << >> /\ Cmd \in Cmds /\ batch' = batch /\ type' = type /\ Cmd' = Cmd
    BY <1>4, CmdType DEF Apply, Cmd
  <2>2. \/ /\ ack' = [status |-> "failed", val |-> 0] /\ wpc' = "mark"
           /\ UNCHANGED taskQueue
        \/ /\ type[Cmd] # "other" /\ taskQueue' = Append(taskQueue, MainTask(Cmd))
           /\ wpc' = "await" /\ UNCHANGED ack
    BY <1>4 DEF Apply, Verdict, enqueue
  <2>3. WorkInv'
    BY <2>1, <2>2 DEF WorkInv, Working, Verdicts
  <2>4. WorkerType'
    BY <1>4, <2>1, <2>2 DEF Apply, TypeOK, WorkerType, Verdicts
  <2>5. taskQueue' \in Seq(Tasks)
    <3>1. taskQueue \in Seq(Tasks) /\ (type[Cmd] # "other" => MainTask(Cmd) \in Tasks)
      BY <2>1, MainTaskType DEF TypeOK, SessionType
    <3> QED BY <2>2, <3>1, AppendFacts
  <2>6. BoundsType'
    BY <1>4, <1>13, TroubleType DEF Apply, Runnable, StatementFails
  <2>7. FlagsType'
    BY <1>4 DEF Apply, TypeOK, FlagsType
  <2> QED BY <1>4, <2>3, <2>4, <2>5, <2>6, <2>7
          DEF Apply, TypeOK, CloudType, SessionType, DeviceType
<1>5. CASE AwaitTimeout
  <2>1. WorkInv'
    BY <1>5 DEF AwaitTimeout, OnTimeout, Verdict, WorkInv, Working, Verdicts, Cmd
  <2>2. WorkerType'
    BY <1>5 DEF AwaitTimeout, OnTimeout, Verdict, TypeOK, WorkerType, Verdicts
  <2> QED BY <1>1, <1>5, <2>1, <2>2 DEF AwaitTimeout
<1>6. CASE VerifyDelay
  <2>1. batch # << >> /\ Cmd \in Cmds /\ batch' = batch /\ type' = type /\ Cmd' = Cmd
    BY <1>6, CmdType DEF VerifyDelay, WorkInv, Working, Cmd
  <2>2. \/ /\ ack' = [status |-> "failed", val |-> 0] /\ wpc' = "mark"
           /\ UNCHANGED taskQueue
        \/ /\ taskQueue' = Append(taskQueue, ReadBack(Cmd))
           /\ wpc' = "readback" /\ UNCHANGED ack
    BY <1>6 DEF VerifyDelay, Verdict, enqueue
  <2>3. WorkInv'
    BY <1>6, <2>1, <2>2 DEF VerifyDelay, WorkInv, Working, Verdicts
  <2>4. WorkerType'
    BY <1>6, <2>1, <2>2 DEF VerifyDelay, TypeOK, WorkerType, Verdicts
  <2>5. taskQueue' \in Seq(Tasks)
    BY <2>1, <2>2, ReadBackType, AppendFacts DEF TypeOK, SessionType
  <2>6. FlagsType'
    BY <1>6 DEF VerifyDelay, TypeOK, FlagsType
  <2> QED BY <1>6, <1>14, <2>3, <2>4, <2>5, <2>6
          DEF VerifyDelay, TypeOK, CloudType, SessionType, DeviceType
<1>7. ASSUME NEW i \in DOMAIN results, OnAnswer(i) \/ OnReadback(i)
      PROVE  TypeOK' /\ WorkInv'
  <2>1. /\ batch # << >> /\ Cmd \in Cmds /\ batch' = batch /\ type' = type
        /\ Cmd' = Cmd /\ results' = RemoveAt(results, i)
    BY <1>7, WorkerAnswers
  <2>3. results' \in Seq(Results)
    BY <2>1, RemoveFacts DEF TypeOK, SessionType
  <2>4. \/ /\ wpc' = "verify" /\ type[Cmd] = "write" /\ UNCHANGED ack
        \/ /\ wpc' = "mark"
           /\ \E s \in Verdicts, v \in 0..MaxCmd : ack' = [status |-> s, val |-> v]
    BY <1>7, WorkerAnswers
  <2>5. WorkInv'
    BY <2>1, <2>4 DEF WorkInv, Working
  <2>6. UNCHANGED <<cloud, disk, taskQueue, inflight, cancelled, device, lost,
                    faults, stops, drops, net>>
    BY <1>7 DEF OnAnswer, OnReadback
  <2>7. WorkerType'
    BY <2>1, <2>4, <2>6 DEF TypeOK, WorkerType
  <2>8. FlagsType'
    BY <2>6 DEF TypeOK, FlagsType
  <2> QED BY <1>14, <2>3, <2>5, <2>6, <2>7, <2>8
          DEF TypeOK, CloudType, SessionType, DeviceType
<1>8. CASE MarkApplied
  <2>1. /\ Cmd \in Cmds /\ batch' = batch /\ type' = type /\ Cmd' = Cmd
        /\ ack' = ack /\ ack.status \in Verdicts
    BY <1>8, CmdType DEF MarkApplied, WorkInv, Working, Cmd
  <2>2. WorkInv'
    BY <1>8, <2>1 DEF MarkApplied, WorkInv, Working
  <2>3. WorkerType'
    BY <1>8, <2>1 DEF MarkApplied, TypeOK, WorkerType
  <2>4. BoundsType'
    BY <1>8, <1>13, TroubleType DEF MarkApplied, StatementFails
  <2>5. FlagsType'
    BY <1>8 DEF MarkApplied, TypeOK, FlagsType
  <2> QED BY <1>8, <2>2, <2>3, <2>4, <2>5
          DEF MarkApplied, TypeOK, CloudType, SessionType, DeviceType
<1>9. CASE Ack
  <2>1. /\ Cmd \in Cmds /\ batch' = batch /\ type' = type /\ Cmd' = Cmd
        /\ ack' = ack /\ ack.status \in Verdicts
    BY <1>9, CmdType DEF Ack, WorkInv, Working, Cmd
  <2>2. WorkInv'
    BY <1>9, <2>1 DEF Ack, WorkInv, Working
  <2>3. CloudType' /\ BoundsType'
    BY <1>9, <2>1, AckTypes DEF Ack
  <2>4. FlagsType'
    BY <1>9 DEF Ack, TypeOK, FlagsType
  <2> QED BY <1>9, <2>1, <2>2, <2>3, <2>4
          DEF Ack, TypeOK, SessionType, WorkerType, DeviceType
<1>10. CASE postCommandSnapshot
  <2>1. WorkInv' /\ batch' \in Seq(Cmds)
    BY <1>10, TailWork DEF postCommandSnapshot, WorkInv, Working
  <2>2. CloudType'
    BY <1>10 DEF postCommandSnapshot, TypeOK, CloudType, WorkerType
  <2>3. BoundsType'
    BY <1>10, <1>13, TroubleType DEF postCommandSnapshot, Arrives, Lost
  <2>4. FlagsType'
    BY <1>10 DEF postCommandSnapshot, TypeOK, FlagsType
  <2>5. WorkerType'
    BY <1>10, <2>1 DEF postCommandSnapshot, TypeOK, WorkerType, NoAck
  <2> QED BY <1>10, <2>1, <2>2, <2>3, <2>4, <2>5
          DEF postCommandSnapshot, TypeOK, SessionType, DeviceType
<1>11. CASE EndOfBatch
  <2>1. WorkInv'
    BY <1>11 DEF EndOfBatch, WorkInv, Working, Cmd
  <2>2. WorkerType'
    BY <1>11 DEF EndOfBatch, TypeOK, WorkerType
  <2> QED BY <1>1, <1>11, <2>1, <2>2 DEF EndOfBatch
<1>12. CASE Exit
  <2>1. Boot /\ UNCHANGED stops
    BY <1>12 DEF Exit
  <2>2. BoundsType'
    BY <2>1, BootBounds
  <2> QED BY <2>1, <2>2, BootTypes
<1> QED BY <1>2, <1>3, <1>4, <1>5, <1>6, <1>7, <1>8, <1>9, <1>10, <1>11, <1>12
        DEF Worker

LEMMA BasicInit == Init => Basic
BY InitType, EmptySeq DEF Init, Basic, WorkInv, HandedInv, QuietInv, Working

LEMMA BasicStep == Basic /\ [Next]_vars => Basic'
<1> SUFFICES ASSUME Basic, [Next]_vars PROVE Basic'
  OBVIOUS
<1> USE DEF cloud, disk, session, worker, device, net
<1>1. /\ TypeOK /\ WorkInv /\ HandedInv /\ QuietInv
      /\ late \in Seq(Requests) /\ BoundsType
  BY DEF Basic, TypeOK, SessionType
\* a step that leaves the requests under way alone, or forgets them
<1>10. ASSUME UNCHANGED <<drops, lates>>, late' \in {late, << >>} PROVE QuietInv'
  BY <1>1, <1>10 DEF QuietInv
\* a step of which the device and the session know nothing
<1>11. ASSUME UNCHANGED <<handed, online, lates>>, inflight' \in {inflight, NoTask}
       PROVE  HandedInv'
  BY <1>1, <1>11 DEF HandedInv
<1>2. CASE Worker
  <2>1. TypeOK' /\ WorkInv'
    BY <1>1, <1>2, WorkerTypes
  <2>2. /\ UNCHANGED <<handed, online, lates, drops>>
        /\ inflight' \in {inflight, NoTask} /\ late' \in {late, << >>}
    BY <1>2 DEF Worker, Poll, Reack, Apply, AwaitTimeout, VerifyDelay, OnAnswer,
                OnReadback, MarkApplied, Ack, postCommandSnapshot, EndOfBatch,
                Exit, Boot
  <2> QED BY <1>10, <1>11, <2>1, <2>2 DEF Basic
<1>3. CASE Device
  <2>1. TypeOK'
    BY <1>1, <1>3, DeviceTypes
  <2>2. UNCHANGED <<type, worker>>
    BY <1>3 DEF Device, Inform, nextTask, NothingQueued, Write, Reboot, Read,
                Refuse, Settle, Abandon, GiveUp
  <2>3. WorkInv'
    BY <1>1, <2>2 DEF WorkInv, Cmd
  <2>4. HandedInv'
    <3>1. CASE handed' = NoTask
      BY <3>1 DEF HandedInv
    <3>2. CASE UNCHANGED <<handed, inflight, online, lates>>
      BY <1>1, <3>2 DEF HandedInv
    <3>3. CASE Inform
      BY <1>1, <3>3 DEF Inform, HandedInv
    <3>4. CASE nextTask
      BY <3>4 DEF nextTask, HandedInv
    <3>5. CASE NothingQueued
      BY <3>5 DEF NothingQueued, HandedInv
    <3> QED BY <1>3, <3>1, <3>2, <3>3, <3>4, <3>5 DEF Device, Write, Reboot,
               Read, Refuse, Answer, Settle, Abandon, GiveUp
  <2>5. QuietInv'
    <3>1. drops \in Nat
      BY <1>1 DEF BoundsType
    <3>2. UNCHANGED <<drops, late, lates>> \/ (Trouble(drops) /\ UNCHANGED lates)
      <4>1. CASE Write \/ Reboot \/ Read \/ Refuse
        BY <4>1 DEF Write, Reboot, Read, Refuse, Answer
      <4> QED BY <1>3, <4>1 DEF Device, Inform, nextTask, NothingQueued, Settle,
                 Abandon, GiveUp
    <3> QED BY <1>1, <3>1, <3>2 DEF QuietInv, Trouble
  <2> QED BY <2>1, <2>3, <2>4, <2>5 DEF Basic
<1>4. CASE Crash
  <2>1. Boot /\ Trouble(stops)
    BY <1>4 DEF Crash
  <2>2. BoundsType'
    BY <1>1, <2>1, BootBounds
  <2>3. TypeOK' /\ WorkInv'
    BY <1>1, <2>1, <2>2, BootTypes
  <2>4. HandedInv' /\ QuietInv'
    BY <1>10, <1>11, <2>1 DEF Boot
  <2> QED BY <2>3, <2>4 DEF Basic
<1>5. CASE Issue
  <2>1. FlagsType'
    BY <1>1, <1>5 DEF Issue, TypeOK, FlagsType
  <2>2. TypeOK'
    BY <1>1, <1>5, <2>1 DEF Issue, TypeOK, CloudType, SessionType, WorkerType,
                            DeviceType, BoundsType, Room
  <2>3. WorkInv'
    BY <1>1, <1>5 DEF Issue, WorkInv, Cmd
  <2>4. HandedInv' /\ QuietInv'
    BY <1>10, <1>11, <1>5 DEF Issue
  <2> QED BY <2>2, <2>3, <2>4 DEF Basic
<1>6. CASE Cancel
  <2>1. FlagsType'
    BY <1>1, <1>6 DEF Cancel, TypeOK, FlagsType
  <2>2. BoundsType'
    BY <1>1, <1>6, TroubleType DEF Cancel, TypeOK
  <2>3. TypeOK'
    BY <1>1, <1>6, <2>1, <2>2 DEF Cancel, TypeOK, CloudType, SessionType,
                                  WorkerType, DeviceType
  <2>4. WorkInv'
    BY <1>1, <1>6 DEF Cancel, WorkInv, Cmd
  <2>5. HandedInv' /\ QuietInv'
    BY <1>10, <1>11, <1>6 DEF Cancel
  <2> QED BY <2>3, <2>4, <2>5 DEF Basic
<1>7. CASE UNCHANGED vars
  <2>1. FlagsType'
    BY <1>1, <1>7 DEF vars, TypeOK, FlagsType
  <2>2. TypeOK'
    BY <1>1, <1>7, <2>1 DEF vars, TypeOK, CloudType, SessionType, WorkerType,
                            DeviceType, BoundsType, Room
  <2>3. WorkInv'
    BY <1>1, <1>7 DEF vars, WorkInv, Cmd
  <2>4. HandedInv' /\ QuietInv'
    BY <1>10, <1>11, <1>7 DEF vars
  <2> QED BY <2>2, <2>3, <2>4 DEF Basic
<1>8. ASSUME NEW i \in DOMAIN late, Late(i) PROVE Basic'
  <2>1. TypeOK'
    BY <1>1, <1>8, LateTypes
  <2>2. UNCHANGED <<type, worker, handed, online, drops>> /\ lates' = lates + 1
    BY <1>8 DEF Late
  <2>3. WorkInv'
    BY <1>1, <2>2 DEF WorkInv, Cmd
  <2>4. HandedInv'
    BY <1>1, <2>2 DEF HandedInv, BoundsType
  <2>5. late # << >>
    BY <1>8
  <2>6. QuietInv'
    BY <1>1, <2>2, <2>5 DEF QuietInv
  <2> QED BY <2>1, <2>3, <2>4, <2>6 DEF Basic
<1> QED BY <1>2, <1>3, <1>4, <1>5, <1>6, <1>7, <1>8 DEF Next

\* Every variable of the command loop keeps its type: the worker is in the
\* middle of a command only with a batch, and every task and result there is
\* is one of a command that was issued.
THEOREM CommandsTypeCorrect == Spec => []TypeOK
<1>1. Basic => TypeOK
  BY DEF Basic
<1> QED BY <1>1, BasicInit, BasicStep, PTL DEF Spec

LEMMA BasicHolds == Spec => []Basic
BY BasicInit, BasicStep, PTL DEF Spec

-----------------------------------------------------------------------------
(* What the cloud is told.                                                 *)

LEMMA RecordInit == Init => RecordInv
BY DEF Init, RecordInv

LEMMA RecordStep == Basic /\ RecordInv /\ [Next]_vars => RecordInv'
<1> SUFFICES ASSUME Basic, RecordInv, [Next]_vars, faults' = 0 PROVE RecordInv'
  BY DEF RecordInv
<1> USE DEF cloud, disk, session, worker, device, net
<1>1. TypeOK /\ WorkInv /\ faults \in Nat /\ acks \in [Cmds -> Verdicts \cup {"none"}]
      /\ applied \in [Cmds -> Verdicts \cup {"none"}]
  BY DEF Basic, TypeOK, BoundsType, CloudType, WorkerType
<1>2. ASSUME UNCHANGED <<acks, applied, faults, wpc, batch, ack, cancelled>>
      PROVE  RecordInv'
  BY <1>2 DEF RecordInv, Cmd
<1>3. ASSUME faults = 0, batch # << >> PROVE Cmd \in Cmds
  BY <1>1, <1>3, CmdType
<1>4. ASSUME UNCHANGED <<acks, applied, faults>>,
             wpc' \notin {"await", "verify", "readback", "mark", "ack", "snapshot"}
      PROVE  RecordInv'
  BY <1>4 DEF RecordInv
<1>5. ASSUME UNCHANGED <<acks, applied, faults, cancelled, batch>>,
             wpc \in {"await", "verify", "readback"},
             wpc' \in {"await", "verify", "readback", "mark"}
      PROVE  RecordInv'
  BY <1>5 DEF RecordInv, Cmd
<1>6. ASSUME NEW c \in Cmds, NEW s, SendAck(c, s), UNCHANGED <<applied, faults>>,
             ~cancelled /\ faults = 0 => applied[c] = s
      PROVE  faults = 0 => \A d \in Cmds : acks'[d] # "none" => acks'[d] = applied'[d]
  <2>1. CASE acks' = acks
    BY <1>6, <2>1 DEF RecordInv
  <2>2. CASE acks' = [acks EXCEPT ![c] = s] /\ ~cancelled
    BY <1>1, <1>6, <2>2 DEF RecordInv
  <2> QED BY <1>6, <2>1, <2>2 DEF SendAck, Arrives
<1>18. ASSUME NEW i \in DOMAIN late, Late(i) PROVE RecordInv'
  BY <1>2, <1>18 DEF Late
<1>7. CASE Device \/ Issue \/ UNCHANGED vars
  BY <1>2, <1>7 DEF Device, Inform, nextTask, NothingQueued, Write, Reboot,
                    Read, Refuse, Settle, Abandon, GiveUp, Issue, vars
<1>8. CASE Crash \/ Exit
  BY <1>4, <1>8 DEF Crash, Exit, Boot
<1>9. CASE Cancel
  <2>1. UNCHANGED <<acks, applied, faults>> /\ cancelled'
    BY <1>9 DEF Cancel
  <2> QED BY <2>1 DEF RecordInv
<1>10. CASE Poll \/ EndOfBatch
  BY <1>4, <1>10 DEF Poll, EndOfBatch
<1>11. CASE Reack
  <2>1. /\ Cmd \in Cmds /\ SendAck(Cmd, applied[Cmd]) /\ wpc' = "next"
        /\ UNCHANGED <<applied, faults>>
    BY <1>1, <1>11, CmdType DEF Reack, Recorded
  <2> QED BY <1>6, <2>1 DEF RecordInv
<1>12. CASE Apply
  <2>1. UNCHANGED <<acks, applied, cancelled, batch>> /\ wpc' \in {"mark", "await"}
        /\ Runnable
    BY <1>12 DEF Apply, Verdict
  <2>2. faults = 0 /\ (~cancelled => applied[Cmd] = "none")
    BY <1>1, <2>1 DEF Runnable, NotRecorded, StatementFails, Trouble
  <2> QED BY <2>1, <2>2 DEF RecordInv, Cmd
<1>13. CASE AwaitTimeout \/ VerifyDelay
  BY <1>5, <1>13 DEF AwaitTimeout, VerifyDelay, OnTimeout, Verdict
<1>14. ASSUME NEW i \in DOMAIN results, OnAnswer(i) \/ OnReadback(i)
       PROVE  RecordInv'
  <2>1. /\ UNCHANGED <<acks, applied, faults, cancelled, batch>>
        /\ wpc \in {"await", "verify", "readback"}
    BY <1>14 DEF OnAnswer, OnReadback
  <2>2. wpc' \in {"await", "verify", "readback", "mark"}
    BY <1>14, WorkerAnswers DEF Basic
  <2> QED BY <1>5, <2>1, <2>2
<1>15. CASE MarkApplied
  <2>1. /\ Cmd \in Cmds /\ UNCHANGED <<acks, cancelled, ack, batch>> /\ wpc' = "ack"
        /\ Cmd' = Cmd /\ wpc = "mark"
    BY <1>1, <1>15, CmdType DEF MarkApplied, WorkInv, Working, Cmd
  <2>2. CASE ~cancelled /\ UNCHANGED faults /\ applied' = [applied EXCEPT ![Cmd] = ack.status]
    <3>1. applied[Cmd] = "none" /\ acks[Cmd] = "none" /\ faults = 0
      BY <2>1, <2>2 DEF RecordInv
    <3> QED BY <1>1, <2>1, <2>2, <3>1 DEF RecordInv
  <2>3. CASE StatementFails /\ UNCHANGED applied
    <3>1. cancelled /\ faults = 0
      BY <1>1, <2>3 DEF StatementFails, Trouble
    <3> QED BY <2>1, <2>3, <3>1 DEF RecordInv
  <2> QED BY <1>15, <2>2, <2>3 DEF MarkApplied
<1>16. CASE Ack
  <2>1. /\ Cmd \in Cmds /\ UNCHANGED <<applied, faults, cancelled, ack, batch>>
        /\ wpc' = "snapshot" /\ Cmd' = Cmd /\ wpc = "ack" /\ SendAck(Cmd, ack.status)
    BY <1>1, <1>16, CmdType DEF Ack, WorkInv, Working, Cmd
  <2>2. faults = 0 => \A d \in Cmds : acks'[d] # "none" => acks'[d] = applied'[d]
    BY <1>6, <2>1 DEF RecordInv
  <2> QED BY <2>1, <2>2 DEF RecordInv
<1>17. CASE postCommandSnapshot
  BY <1>4, <1>17 DEF postCommandSnapshot
<1> QED BY <1>7, <1>8, <1>9, <1>10, <1>11, <1>12, <1>13, <1>14, <1>15, <1>16,
           <1>17, <1>18 DEF Next, Worker

\* What the cloud was told of a command is what the database has on record, if
\* no statement fails.
THEOREM ToldIsOnRecord == Spec => []OutcomeOnRecord
<1>1. RecordInv => OutcomeOnRecord
  BY DEF RecordInv, OutcomeOnRecord
<1> QED BY <1>1, BasicHolds, RecordInit, RecordStep, PTL DEF Spec

-----------------------------------------------------------------------------
(* What the device did.                                                    *)

\* as long as no request is handled late, none was
LEMMA NotLate ==
  ASSUME Basic, [Next]_vars, lates' = 0
  PROVE  lates = 0 /\ ~\E i \in DOMAIN late : Late(i)
<1>1. lates \in Nat
  BY DEF Basic, TypeOK, BoundsType
<1>2. \A i \in DOMAIN late : ~Late(i)
  BY <1>1 DEF Late
<1>3. CASE Write \/ Reboot \/ Read \/ Refuse
  BY <1>2, <1>3 DEF Write, Reboot, Read, Refuse
<1>4. CASE Issue \/ Cancel \/ Crash \/ Worker \/ UNCHANGED vars
  <2>1. UNCHANGED lates
    BY <1>4 DEF Issue, Cancel, Crash, Exit, Boot, Worker, Poll, Reack, Apply,
       AwaitTimeout, VerifyDelay, OnAnswer, OnReadback, MarkApplied, Ack,
       postCommandSnapshot, EndOfBatch, vars, net
  <2> QED BY <1>2, <2>1
<1> QED BY <1>2, <1>3, <1>4 DEF Next, Device, Inform, nextTask, NothingQueued,
           Settle, Abandon, GiveUp, net

\* The answer is lost with the session or will be late, or finds nothing in
\* flight, or is the result of the task in flight, which without late requests
\* is the task the device was handed.
LEMMA AnswerMoves ==
  ASSUME Basic, handed # NoTask, NEW err \in BOOLEAN, NEW status \in 0..1,
         Answer(err, status)
  PROVE  /\ handed' = NoTask
         /\ lates = 0 => inflight \in {handed, NoTask}
         /\ \/ UNCHANGED <<results, inflight>> /\ drops' = drops + 1
            \/ UNCHANGED <<results, drops>> /\ inflight = NoTask /\ inflight' = NoTask
            \/ /\ inflight # NoTask /\ inflight' = NoTask /\ UNCHANGED drops
               /\ \E r \in Results :
                    /\ results' = Append(results, r)
                    /\ r.task = inflight /\ r.err = err
                    /\ r.val = IF IsRead(handed) /\ ~err THEN value ELSE 0
<1> DEFINE v == IF IsRead(handed) /\ ~err THEN value ELSE 0
           r == [task |-> inflight, err |-> err, status |-> status, val |-> v]
<1>1. handed' = NoTask /\ (lates = 0 => inflight \in {handed, NoTask})
  BY DEF Basic, HandedInv, Answer
<1>2. \/ UNCHANGED <<results, inflight>> /\ drops' = drops + 1
      \/ /\ results' = IF inflight = NoTask THEN results ELSE Append(results, r)
         /\ inflight' = NoTask /\ UNCHANGED drops
  BY DEF Answer, finishInflight, Trouble
<1>3. v \in 0..MaxCmd
  BY DEF Basic, TypeOK, DeviceType
<1> HIDE DEF v
<1>4. r.task = inflight /\ r.err = err /\ r.val = v
  BY Zenon
<1>5. inflight # NoTask => r \in Results
  BY <1>3, Zenon DEF Basic, TypeOK, SessionType, Results
<1> HIDE DEF r
<1>6. CASE UNCHANGED <<results, inflight>> /\ drops' = drops + 1
  BY <1>1, <1>6
<1>7. CASE inflight = NoTask /\ UNCHANGED <<results, drops>> /\ inflight' = NoTask
  BY <1>1, <1>7
<1>8. CASE /\ inflight # NoTask /\ results' = Append(results, r)
           /\ inflight' = NoTask /\ UNCHANGED drops
  <2>1. r.val = IF IsRead(handed) /\ ~err THEN value ELSE 0
    BY <1>4 DEF v
  <2> QED BY <1>1, <1>4, <1>5, <1>8, <2>1, Zenon
<1> QED BY <1>2, <1>6, <1>7, <1>8

\* What a step of the device does with the task it was handed.
LEMMA DeviceAnswers ==
  ASSUME Basic, Write \/ Reboot \/ Read \/ Refuse
  PROVE  /\ handed \in Tasks /\ handed # NoTask
         /\ handed.cmd \in Cmds /\ handed.type \in {"spv", "rb", "gpv", "reboot"}
         /\ UNCHANGED <<cloud, disk, taskQueue, worker, lost, faults, stops, lates>>
         /\ \E err \in BOOLEAN, status \in 0..1 :
              /\ Answer(err, status)
              /\ \/ ~err /\ handed.type = "spv" /\ Write
                 \/ ~err /\ handed.type = "reboot" /\ Reboot
                 \/ ~err /\ handed.type \in {"rb", "gpv"} /\ Read
                 \/ err /\ Refuse
         /\ Refuse \/ Read => UNCHANGED <<value, staged, runs, last>>
<1>1. handed # NoTask
  <2>1. \/ handed.type = "spv" \/ handed.type = "reboot" \/ handed.type \in {"gpv", "rb"}
        \/ handed # NoTask
    BY DEF Write, Reboot, Read, Refuse, IsRead
  <2> QED BY <2>1 DEF NoTask
<1>2. handed \in Tasks
  BY <1>1 DEF Basic, TypeOK, DeviceType
<1>3. handed.cmd \in Cmds /\ handed.type \in {"spv", "rb", "gpv", "reboot"}
  BY <1>2 DEF Tasks
<1>4. UNCHANGED <<cloud, disk, taskQueue, worker, lost, faults, stops, lates>>
  BY DEF Write, Reboot, Read, Refuse
<1>5. 0 \in 0..1 /\ 1 \in 0..1
  OBVIOUS
<1>6. CASE Write
  <2>1. handed.type = "spv" /\ (Answer(FALSE, 0) \/ Answer(FALSE, 1))
    BY <1>6 DEF Write
  <2> QED BY <1>1, <1>2, <1>3, <1>4, <1>5, <1>6, <2>1, Zenon DEF Read, Refuse
<1>7. CASE Reboot
  <2>1. handed.type = "reboot" /\ Answer(FALSE, 0)
    BY <1>7 DEF Reboot
  <2> QED BY <1>1, <1>2, <1>3, <1>4, <1>5, <1>7, <2>1, Zenon DEF Read, Refuse
<1>8. CASE Read
  <2>1. /\ handed.type \in {"rb", "gpv"} /\ Answer(FALSE, 0)
        /\ UNCHANGED <<value, staged, runs, last>>
    BY <1>8 DEF Read, IsRead
  <2> QED BY <1>1, <1>2, <1>3, <1>4, <1>5, <1>8, <2>1, Zenon
<1>9. CASE Refuse
  <2>1. Answer(TRUE, 0) /\ UNCHANGED <<value, staged, runs, last>>
    BY <1>9 DEF Refuse
  <2> QED BY <1>1, <1>2, <1>3, <1>4, <1>5, <1>9, <2>1, Zenon
<1> QED BY <1>6, <1>7, <1>8, <1>9

\* the other steps of the device execute nothing
LEMMA DeviceQuiet ==
  ASSUME Inform \/ nextTask \/ NothingQueued \/ Settle \/ Abandon \/ GiveUp
  PROVE  UNCHANGED <<cloud, applied, results, worker, runs, last, lost, faults, stops, lates>>
BY DEF Inform, nextTask, NothingQueued, Settle, Abandon, GiveUp, session, disk,
       device, net

LEMMA OwnInit == Init => OwnInv
BY EmptySeq DEF Init, OwnInv, ExecutedInv

LEMMA OwnStep == Basic /\ OwnInv /\ [Next]_vars => OwnInv'
<1> SUFFICES ASSUME Basic, ExecutedInv, [Next]_vars, lates = 0,
                    ~\E i \in DOMAIN late : Late(i)
             PROVE  ExecutedInv'
  BY NotLate DEF OwnInv
<1> USE DEF cloud, disk, session, worker, device, net
<1>1. /\ TypeOK /\ WorkInv /\ acks \in [Cmds -> Verdicts \cup {"none"}]
      /\ applied \in [Cmds -> Verdicts \cup {"none"}] /\ runs \in [Cmds -> Nat]
      /\ results \in Seq(Results)
      /\ \A i \in DOMAIN results : results[i].task.cmd \in Cmds
  <2>1. \A i \in DOMAIN results : results[i] \in Results
    BY ElementOfSeq, LenProperties DEF Basic, TypeOK, SessionType
  <2> QED BY <2>1 DEF Basic, TypeOK, CloudType, WorkerType, DeviceType,
             SessionType, Results, Tasks
<1>2. ASSUME UNCHANGED <<type, acks, applied, wpc, batch, ack, runs, results>>
      PROVE  ExecutedInv'
  BY <1>2 DEF ExecutedInv, Executed, Cmd
<1>3. ASSUME UNCHANGED <<type, acks, applied, wpc, batch, ack>>,
             \A c \in Cmds : runs'[c] >= runs[c], runs' \in [Cmds -> Nat],
             \A i \in DOMAIN results' :
               (results'[i].task.type = "spv" /\ ~results'[i].err)
                 => runs'[results'[i].task.cmd] > 0
      PROVE  ExecutedInv'
  <2>1. \A c \in Cmds : Executed(c) => Executed(c)'
    BY <1>1, <1>3 DEF Executed
  <2>2. wpc \in Working => Cmd \in Cmds /\ Cmd' = Cmd
    BY <1>1, <1>3, CmdType DEF WorkInv, Cmd
  <2> QED BY <1>3, <2>1, <2>2 DEF ExecutedInv, Working
<1>4. CASE Write \/ Reboot \/ Read \/ Refuse
  <2>1. /\ handed \in Tasks /\ handed # NoTask /\ handed.cmd \in Cmds
        /\ UNCHANGED <<cloud, disk, worker>>
    BY <1>4, DeviceAnswers
  <2>2. PICK err \in BOOLEAN, status \in 0..1 :
          /\ Answer(err, status)
          /\ \/ ~err /\ handed.type = "spv" /\ Write
             \/ ~err /\ handed.type = "reboot" /\ Reboot
             \/ ~err /\ handed.type \in {"rb", "gpv"} /\ Read
             \/ err /\ Refuse
    BY <1>4, DeviceAnswers
  <2>3. Ran(handed.cmd) \/ UNCHANGED runs
    BY <1>4, DeviceAnswers DEF Write, Reboot
  <2>4. runs' \in [Cmds -> Nat] /\ \A c \in Cmds : runs'[c] >= runs[c]
    <3>1. CASE Ran(handed.cmd)
      <4>1. runs' \in [Cmds -> Nat]
        BY <1>1, <2>1, <3>1 DEF Ran
      <4>2. \A c \in Cmds : runs'[c] = IF c = handed.cmd THEN runs[c] + 1 ELSE runs[c]
        BY <1>1, <2>1, <3>1 DEF Ran
      <4> QED BY <1>1, <4>1, <4>2
    <3>2. CASE UNCHANGED runs
      BY <1>1, <3>2
    <3> QED BY <2>3, <3>1, <3>2
  <2>5. handed.type = "spv" /\ ~err => runs'[handed.cmd] > 0
    <3>1. handed.type = "spv" /\ ~err => Ran(handed.cmd)
      BY <2>2 DEF Write
    <3> QED BY <1>1, <2>1, <3>1 DEF Ran
  <2>6. \/ results' = results
        \/ \E r \in Results : /\ results' = Append(results, r)
                              /\ r.task = handed /\ r.err = err
    BY <2>1, <2>2, AnswerMoves
  <2>7. \A i \in DOMAIN results :
          (results[i].task.type = "spv" /\ ~results[i].err)
             => runs'[results[i].task.cmd] > 0
    BY <1>1, <2>4 DEF ExecutedInv
  <2>8. ASSUME NEW r \in Results, results' = Append(results, r), r.task = handed,
               r.err = err, NEW i \in DOMAIN results',
               results'[i].task.type = "spv", ~results'[i].err
        PROVE  runs'[results'[i].task.cmd] > 0
    <3>1. \/ i \in DOMAIN results /\ results'[i] = results[i]
          \/ results'[i] = r
      BY <1>1, <2>8, AppendFacts
    <3>2. CASE results'[i] = r
      BY <2>5, <2>8, <3>2
    <3> QED BY <2>7, <2>8, <3>1, <3>2
  <2>9. \A i \in DOMAIN results' :
          (results'[i].task.type = "spv" /\ ~results'[i].err)
             => runs'[results'[i].task.cmd] > 0
    BY <2>6, <2>7, <2>8
  <2> QED BY <1>3, <2>1, <2>4, <2>9
<1>5. CASE Inform \/ nextTask \/ NothingQueued \/ Settle \/ Abandon \/ GiveUp
  BY <1>2, <1>5, DeviceQuiet
<1>6. CASE Issue \/ Cancel \/ UNCHANGED vars
  BY <1>2, <1>6 DEF Issue, Cancel, vars
<1>7. CASE Crash \/ Exit
  BY <1>7, EmptySeq DEF Crash, Exit, Boot, ExecutedInv, Executed
\* the worker goes on to a command, or leaves it
<1>8. ASSUME UNCHANGED <<type, acks, applied, runs, results>>,
             wpc' \notin {"verify", "readback"},
             wpc' \in {"mark", "ack", "snapshot"} => ack'.status # "applied"
      PROVE  ExecutedInv'
  BY <1>8 DEF ExecutedInv, Executed
<1>9. CASE Poll \/ Apply \/ AwaitTimeout \/ EndOfBatch
  BY <1>8, <1>9 DEF Poll, Apply, AwaitTimeout, EndOfBatch, OnTimeout, Verdict
<1>10. CASE VerifyDelay
  <2>1. UNCHANGED <<type, acks, applied, runs, results, batch>> /\ wpc = "verify"
        /\ (wpc' = "readback" \/ (wpc' = "mark" /\ ack' = [status |-> "failed", val |-> 0]))
    BY <1>10 DEF VerifyDelay, Verdict
  <2> QED BY <2>1 DEF ExecutedInv, Executed, Cmd
<1>11. ASSUME NEW c \in Cmds, NEW s, SendAck(c, s), UNCHANGED <<type, applied, runs, results>>,
             s = "applied" => Executed(c), wpc' \in {"next", "snapshot"},
             wpc' = "snapshot" => UNCHANGED <<ack, batch>> /\ wpc = "ack"
       PROVE ExecutedInv'
  <2>1. \A d \in Cmds : Executed(d)' <=> Executed(d)
    BY <1>11 DEF Executed
  <2>2. \A d \in Cmds : "applied" \in {applied'[d], acks'[d]} => Executed(d)
    BY <1>1, <1>11 DEF ExecutedInv, SendAck
  <2>3. wpc' = "snapshot" => Cmd' = Cmd /\ Cmd \in Cmds
    BY <1>1, <1>11, CmdType DEF Cmd, WorkInv, Working
  <2> QED BY <1>11, <2>1, <2>2, <2>3 DEF ExecutedInv
<1>12. CASE Reack
  <2>1. Cmd \in Cmds /\ SendAck(Cmd, applied[Cmd]) /\ wpc' = "next"
        /\ UNCHANGED <<type, applied, runs, results>>
    BY <1>1, <1>12, CmdType DEF Reack, Recorded
  <2>2. applied[Cmd] = "applied" => Executed(Cmd)
    BY <2>1 DEF ExecutedInv
  <2> QED BY <1>11, <2>1, <2>2
<1>13. CASE Ack
  <2>1. Cmd \in Cmds /\ SendAck(Cmd, ack.status) /\ wpc' = "snapshot" /\ wpc = "ack"
        /\ UNCHANGED <<type, applied, runs, results, ack, batch>>
    BY <1>1, <1>13, CmdType DEF Ack, WorkInv, Working
  <2>2. ack.status = "applied" => Executed(Cmd)
    BY <2>1 DEF ExecutedInv
  <2> QED BY <1>11, <2>1, <2>2
<1>14. CASE MarkApplied
  <2>1. /\ Cmd \in Cmds /\ Cmd' = Cmd /\ wpc = "mark" /\ wpc' = "ack"
        /\ UNCHANGED <<type, acks, runs, results, ack, batch>>
        /\ applied' \in {applied, [applied EXCEPT ![Cmd] = ack.status]}
    BY <1>1, <1>14, CmdType DEF MarkApplied, WorkInv, Working, Cmd
  <2>2. \A d \in Cmds : Executed(d)' <=> Executed(d)
    BY <2>1 DEF Executed
  <2>3. \A d \in Cmds : "applied" \in {applied'[d], acks[d]} => Executed(d)
    BY <1>1, <2>1 DEF ExecutedInv
  <2> QED BY <2>1, <2>2, <2>3 DEF ExecutedInv
<1>15. CASE postCommandSnapshot
  BY <1>8, <1>15 DEF postCommandSnapshot
<1>16. ASSUME NEW i \in DOMAIN results, OnAnswer(i) \/ OnReadback(i)
       PROVE  ExecutedInv'
  <2>1. /\ Cmd \in Cmds /\ Cmd' = Cmd /\ results' = RemoveAt(results, i)
        /\ UNCHANGED <<type, acks, applied, runs>>
    BY <1>1, <1>16, WorkerAnswers DEF OnAnswer, OnReadback
  <2>2. \A j \in DOMAIN results' : \E k \in DOMAIN results : results'[j] = results[k]
    BY <1>1, <2>1, RemoveFrom
  <2>3. \A d \in Cmds : Executed(d)' <=> Executed(d)
    BY <2>1 DEF Executed
  <2>4. \/ wpc' = "verify" \/ (wpc' = "mark" /\ ack'.status = "applied")
        => Executed(Cmd)
    <3>1. CASE wpc = "await" /\ type[Cmd] = "write"
      <4>1. results[i].task = MainTask(Cmd)
        BY <1>1, <1>16, <3>1, WorkerAnswers
      <4>3. results[i].task.type = "spv" /\ results[i].task.cmd = Cmd
        BY <1>1, <2>1, <3>1, <4>1, MainTaskType
      <4>2. (\/ wpc' = "verify" \/ (wpc' = "mark" /\ ack'.status = "applied"))
               => ~results[i].err
        BY <1>1, <1>16, <3>1, WorkerAnswers
      <4> QED BY <4>2, <4>3 DEF ExecutedInv, Executed
    <3>2. CASE wpc = "readback"
      BY <3>2 DEF ExecutedInv
    <3>3. CASE type[Cmd] # "write"
      BY <3>3 DEF Executed
    <3> QED BY <1>16, <3>1, <3>2, <3>3 DEF OnAnswer, OnReadback
  <2>5. wpc' \in {"verify", "mark"}
    BY <1>1, <1>16, WorkerAnswers
  <2> QED BY <2>1, <2>2, <2>3, <2>4, <2>5 DEF ExecutedInv
<1> QED BY <1>4, <1>5, <1>6, <1>7, <1>9, <1>10, <1>12, <1>13, <1>14, <1>15, <1>16
        DEF Next, Worker, Device

\* A write that the cloud was told is applied was executed by the device,
\* whatever fails, is lost, or is restarted, as long as no request is handled
\* late.
THEOREM AppliedMeansExecuted == Spec => []AppliedWasExecuted
<1>1. OwnInv => AppliedWasExecuted
  BY DEF OwnInv, ExecutedInv, Executed, AppliedWasExecuted
<1> QED BY <1>1, BasicHolds, OwnInit, OwnStep, PTL DEF Spec

-----------------------------------------------------------------------------
(* The tasks under way.                                                    *)

LEMMA QueuedAppend ==
  ASSUME TypeOK, NEW u \in Tasks, taskQueue' = Append(taskQueue, u), NEW t
  PROVE  Queued(t)' <=> Queued(t) \/ t = u
<1>1. /\ DOMAIN taskQueue = 1..Len(taskQueue) /\ Len(taskQueue) \in Nat
      /\ DOMAIN taskQueue' = 1..(Len(taskQueue) + 1)
      /\ \A i \in DOMAIN taskQueue : taskQueue'[i] = taskQueue[i]
      /\ taskQueue'[Len(taskQueue) + 1] = u
  BY AppendFacts DEF TypeOK, SessionType
<1> QED BY <1>1 DEF Queued

LEMMA QueuedTail ==
  ASSUME TypeOK, taskQueue # << >>, taskQueue' = Tail(taskQueue), NEW t
  PROVE  /\ Head(taskQueue) \in Tasks /\ Queued(Head(taskQueue))
         /\ Queued(t)' => Queued(t)
<1>1. /\ Head(taskQueue) \in Tasks /\ Head(taskQueue) = taskQueue[1]
      /\ DOMAIN taskQueue = 1..Len(taskQueue) /\ Len(taskQueue) \in Nat \ {0}
      /\ DOMAIN Tail(taskQueue) = 1..(Len(taskQueue) - 1)
      /\ \A i \in 1..(Len(taskQueue) - 1) : Tail(taskQueue)[i] = taskQueue[i + 1]
  BY TailFacts DEF TypeOK, SessionType
<1>2. \A i \in 1..(Len(taskQueue) - 1) : i + 1 \in 1..Len(taskQueue)
  BY <1>1
<1> QED BY <1>1, <1>2 DEF Queued

LEMMA AnsweredAppend ==
  ASSUME TypeOK, NEW r \in Results, results' = Append(results, r), NEW t
  PROVE  Answered(t)' <=> Answered(t) \/ t = r.task
<1>1. /\ DOMAIN results = 1..Len(results) /\ Len(results) \in Nat
      /\ DOMAIN results' = 1..(Len(results) + 1)
      /\ \A i \in DOMAIN results : results'[i] = results[i]
      /\ results'[Len(results) + 1] = r
  BY AppendFacts DEF TypeOK, SessionType
<1> QED BY <1>1 DEF Answered

\* Where a task comes from: the worker queues one, and every other step hands
\* on what there is.
LEMMA AliveStep ==
  ASSUME Basic, [Next]_vars, NEW t \in Tasks, Alive(t)'
  PROVE  \/ Alive(t)
         \/ Apply /\ batch # << >> /\ type[Cmd] # "other" /\ t = MainTask(Cmd)
         \/ VerifyDelay /\ t = ReadBack(Cmd)
<1> USE DEF cloud, disk, session, worker, device, net
<1>1. TypeOK /\ WorkInv /\ HandedInv /\ t # NoTask
  BY NoTaskType DEF Basic
<1>2. CASE UNCHANGED <<taskQueue, inflight, handed, results>>
  BY <1>2 DEF Alive, Queued, Answered
<1>3. CASE Issue \/ Cancel \/ UNCHANGED vars \/ Poll \/ Reack \/ AwaitTimeout
           \/ MarkApplied \/ Ack \/ postCommandSnapshot \/ EndOfBatch
           \/ NothingQueued \/ Settle \/ GiveUp
  BY <1>2, <1>3 DEF Issue, Cancel, vars, Poll, Reack, AwaitTimeout, MarkApplied,
     Ack, postCommandSnapshot, EndOfBatch, NothingQueued, Settle, GiveUp
<1>4. CASE Crash \/ Exit
  BY <1>1, <1>4, EmptySeq DEF Crash, Exit, Boot, Alive, Queued, Answered
<1>5. CASE Apply
  <2>1. UNCHANGED <<inflight, handed, results>> /\ batch # << >>
    BY <1>5 DEF Apply
  <2>2. CASE UNCHANGED taskQueue
    BY <1>2, <2>1, <2>2
  <2>3. CASE taskQueue' = Append(taskQueue, MainTask(Cmd)) /\ type[Cmd] # "other"
    <3>1. MainTask(Cmd) \in Tasks
      BY <1>1, <2>1, <2>3, CmdType, MainTaskType
    <3>2. Queued(t)' <=> Queued(t) \/ t = MainTask(Cmd)
      BY <1>1, <2>3, <3>1, QueuedAppend
    <3> QED BY <1>5, <2>1, <2>3, <3>2 DEF Alive, Answered
  <2> QED BY <1>5, <2>2, <2>3 DEF Apply, enqueue
<1>6. CASE VerifyDelay
  <2>1. UNCHANGED <<inflight, handed, results>> /\ batch # << >>
    BY <1>1, <1>6 DEF VerifyDelay, WorkInv, Working
  <2>2. CASE UNCHANGED taskQueue
    BY <1>2, <2>1, <2>2
  <2>3. CASE taskQueue' = Append(taskQueue, ReadBack(Cmd))
    <3>1. ReadBack(Cmd) \in Tasks
      BY <1>1, <2>1, CmdType, ReadBackType
    <3>2. Queued(t)' <=> Queued(t) \/ t = ReadBack(Cmd)
      BY <1>1, <2>3, <3>1, QueuedAppend
    <3> QED BY <1>6, <2>1, <3>2 DEF Alive, Answered
  <2> QED BY <1>6, <2>2, <2>3 DEF VerifyDelay, enqueue
<1>7. ASSUME NEW i \in DOMAIN results, OnAnswer(i) \/ OnReadback(i)
      PROVE  Alive(t)
  <2>1. results' = RemoveAt(results, i) /\ UNCHANGED <<taskQueue, inflight, handed>>
    BY <1>7 DEF OnAnswer, OnReadback, Take
  <2>2. \A j \in DOMAIN results' : \E k \in DOMAIN results : results'[j] = results[k]
    BY <1>1, <2>1, RemoveFrom DEF TypeOK, SessionType
  <2> QED BY <2>1, <2>2 DEF Alive, Queued, Answered
<1>8. ASSUME HandleInform, UNCHANGED <<handed, results>> PROVE Alive(t)
  <2>1. inflight' = NoTask /\ UNCHANGED <<handed, results>>
    BY <1>8 DEF HandleInform
  <2>2. CASE UNCHANGED taskQueue
    BY <1>1, <2>1, <2>2 DEF Alive, Queued, Answered
  <2>3. CASE taskQueue' = Append(taskQueue, inflight) /\ inflight # NoTask
    <3>1. Queued(t)' <=> Queued(t) \/ t = inflight
      BY <1>1, <2>3, QueuedAppend DEF TypeOK, SessionType
    <3> QED BY <1>1, <2>1, <3>1 DEF Alive, Answered
  <2> QED BY <1>8, <2>2, <2>3 DEF HandleInform, Retried
<1>9. CASE nextTask
  <2>1. /\ taskQueue # << >> /\ taskQueue' = Tail(taskQueue) /\ UNCHANGED results
        /\ handed' = Head(taskQueue) /\ inflight' = Head(taskQueue)
    BY <1>9 DEF nextTask
  <2>2. Queued(Head(taskQueue)) /\ (Queued(t)' => Queued(t))
    BY <1>1, <2>1, QueuedTail
  <2> QED BY <2>1, <2>2 DEF Alive, Answered
<1>10. CASE Abandon
  BY <1>1, <1>10 DEF Abandon, Alive, Queued, Answered
<1>11. CASE Write \/ Reboot \/ Read \/ Refuse
  <2>1. UNCHANGED taskQueue /\ handed # NoTask
    BY <1>11, DeviceAnswers
  <2>2. PICK err \in BOOLEAN, status \in 0..1 : Answer(err, status)
    BY <1>11, DeviceAnswers
  <2>3. /\ handed' = NoTask /\ inflight' \in {inflight, NoTask}
        /\ \/ UNCHANGED results
           \/ \E r \in Results : results' = Append(results, r) /\ r.task = inflight
    BY <2>1, <2>2, AnswerMoves
  <2>4. Answered(t)' => Answered(t) \/ t = inflight
    BY <1>1, <2>3, AnsweredAppend DEF Answered
  <2> QED BY <1>1, <2>1, <2>3, <2>4 DEF Alive, Queued
<1>12. CASE Inform
  BY <1>8, <1>12 DEF Inform
<1>13. ASSUME NEW i \in DOMAIN late, Late(i) PROVE Alive(t)
  <2>1. UNCHANGED handed /\ (LateInform(i) \/ LateEmpty(i) \/ LateAnswer(i))
    BY <1>13 DEF Late
  <2>2. CASE LateInform(i)
    BY <1>8, <2>1, <2>2 DEF LateInform
  <2>3. ASSUME NEW rest \in {inflight, NoTask}, Pop(rest)
        PROVE  /\ Queued(t)' => Queued(t)
               /\ inflight' = t => inflight = t \/ Queued(t)
    <3>1. CASE taskQueue = << >>
      BY <1>1, <2>3, <3>1 DEF Pop, Queued
    <3>2. CASE taskQueue # << >>
      <4>1. inflight' = Head(taskQueue) /\ taskQueue' = Tail(taskQueue)
        BY <2>3, <3>2 DEF Pop
      <4>2. Queued(Head(taskQueue)) /\ (Queued(t)' => Queued(t))
        BY <1>1, <3>2, <4>1, QueuedTail
      <4> QED BY <4>1, <4>2
    <3> QED BY <3>1, <3>2
  <2>4. CASE LateEmpty(i)
    BY <2>1, <2>3, <2>4 DEF LateEmpty, Alive, Answered
  <2>5. CASE LateAnswer(i)
    <3>1. \/ UNCHANGED results
          \/ \E r \in Results : results' = Append(results, r) /\ r.task = inflight
      BY <1>1, <2>5, LateResult
    <3>2. Answered(t)' => Answered(t) \/ t = inflight
      BY <1>1, <3>1, AnsweredAppend DEF Answered
    <3>3. CASE UNCHANGED <<taskQueue, inflight>>
      BY <2>1, <3>2, <3>3 DEF Alive, Queued
    <3>4. CASE Pop(NoTask)
      BY <2>1, <2>3, <3>2, <3>4 DEF Alive
    <3> QED BY <2>5, <3>3, <3>4 DEF LateAnswer
  <2> QED BY <2>1, <2>2, <2>4, <2>5
<1> QED BY <1>3, <1>4, <1>5, <1>6, <1>7, <1>9, <1>10, <1>11, <1>12, <1>13
        DEF Next, Worker, Device

LEMMA TypeFixed == ASSUME [Next]_vars PROVE type' = type
BY DEF Next, vars, cloud, Issue, Cancel, Crash, Exit, Boot, Worker, Poll, Reack,
   Apply, AwaitTimeout, VerifyDelay, OnAnswer, OnReadback, MarkApplied, Ack,
   postCommandSnapshot, EndOfBatch, Device, Inform, nextTask, NothingQueued,
   Write, Reboot, Read, Refuse, Settle, Abandon, GiveUp, Late

LEMMA TasksInit == Init => TasksInv
BY NoTaskType, EmptySeq DEF Init, TasksInv, Alive, Queued, Answered

LEMMA TasksStep == Basic /\ TasksInv /\ [Next]_vars => TasksInv'
<1> SUFFICES ASSUME Basic, TasksInv, [Next]_vars, NEW t \in Tasks, Alive(t)'
             PROVE  Fits(t)'
  BY DEF TasksInv
<1>1. Fits(t)' <=> Fits(t)
  BY TypeFixed DEF Fits
<1>2. CASE Alive(t)
  BY <1>1, <1>2 DEF TasksInv
<1>3. CASE Apply /\ batch # << >> /\ type[Cmd] # "other" /\ t = MainTask(Cmd)
  BY <1>1, <1>3, CmdType, TypeType, MainTaskType DEF Fits, Basic
<1>4. CASE VerifyDelay /\ t = ReadBack(Cmd)
  BY <1>1, <1>4 DEF VerifyDelay, Basic, WorkInv, ReadBack, Fits
<1> QED BY <1>2, <1>3, <1>4, AliveStep

-----------------------------------------------------------------------------
(* How often a reboot is under way.                                        *)

LEMMA OccType ==
  ASSUME NEW S, NEW q \in Seq(S), NEW t
  PROVE  Occ(q, t) \in Nat /\ IsFiniteSet({i \in DOMAIN q : q[i] = t})
<1>1. IsFiniteSet(1..Len(q)) /\ DOMAIN q = 1..Len(q)
  <2>1. Len(q) \in Int /\ 1 \in Int /\ DOMAIN q = 1..Len(q)
    BY LenProperties
  <2> QED BY <2>1, FS_Interval
<1>2. IsFiniteSet({i \in DOMAIN q : q[i] = t})
  BY <1>1, FS_Subset
<1> QED BY <1>2, FS_CardinalityType DEF Occ

LEMMA OccEmpty == ASSUME NEW t PROVE Occ(<< >>, t) = 0
<1>1. {i \in DOMAIN << >> : << >>[i] = t} = {}
  OBVIOUS
<1> QED BY <1>1, FS_EmptySet DEF Occ

LEMMA OccAppend ==
  ASSUME NEW S, NEW q \in Seq(S), NEW e \in S, NEW t
  PROVE  Occ(Append(q, e), t) = Occ(q, t) + (IF e = t THEN 1 ELSE 0)
<1> DEFINE A == {i \in DOMAIN q : q[i] = t}
           B == {i \in DOMAIN Append(q, e) : Append(q, e)[i] = t}
           n == Len(q) + 1
<1>1. /\ DOMAIN q = 1..Len(q) /\ Len(q) \in Nat
      /\ DOMAIN Append(q, e) = 1..n
      /\ \A i \in DOMAIN q : Append(q, e)[i] = q[i]
      /\ Append(q, e)[n] = e
  BY AppendFacts
<1>2. IsFiniteSet(A) /\ Cardinality(A) \in Nat
  BY OccType DEF Occ
<1>3. n \notin A
  BY <1>1
<1>4. CASE e = t
  <2>1. B = A \cup {n}
    BY <1>1, <1>4
  <2>2. Cardinality(B) = Cardinality(A) + 1
    BY <1>2, <1>3, <2>1, FS_AddElement
  <2> QED BY <1>4, <2>2 DEF Occ
<1>5. CASE e # t
  <2>1. B = A
    BY <1>1, <1>5
  <2> HIDE DEF A, B
  <2>2. Cardinality(B) = Cardinality(A) + 0
    BY <1>2, <2>1
  <2> QED BY <1>5, <2>2 DEF Occ, A, B
<1> QED BY <1>4, <1>5

LEMMA OccTail ==
  ASSUME NEW S, NEW q \in Seq(S), q # << >>, NEW t
  PROVE  Occ(q, t) = Occ(Tail(q), t) + (IF Head(q) = t THEN 1 ELSE 0)
<1> DEFINE A == {i \in DOMAIN q : q[i] = t}
           B == {i \in DOMAIN Tail(q) : Tail(q)[i] = t}
           f == [i \in B |-> i + 1]
<1>1. /\ Head(q) = q[1] /\ Len(q) \in Nat \ {0} /\ DOMAIN q = 1..Len(q)
      /\ Tail(q) \in Seq(S) /\ DOMAIN Tail(q) = 1..(Len(q) - 1)
      /\ \A i \in 1..(Len(q) - 1) : Tail(q)[i] = q[i + 1]
  BY TailFacts
<1>2. IsFiniteSet(A) /\ IsFiniteSet(B) /\ Cardinality(A) \in Nat /\ Cardinality(B) \in Nat
  <2>1. q \in Seq(S) /\ Tail(q) \in Seq(S)
    BY <1>1
  <2> QED BY <2>1, OccType, ZenonT(60) DEF Occ
<1>3. B \subseteq Nat
  BY <1>1
<1>4. f \in [B -> A \ {1}]
  BY <1>1
<1>5. \A i, j \in B : f[i] = f[j] => i = j
  BY <1>3
<1>6. \A k \in A \ {1} : \E i \in B : f[i] = k
  <2> SUFFICES ASSUME NEW k \in A \ {1} PROVE k - 1 \in B /\ f[k - 1] = k
    OBVIOUS
  <2>1. k - 1 \in 1..(Len(q) - 1) /\ (k - 1) + 1 = k
    BY <1>1
  <2> QED BY <1>1, <2>1
<1>7. ExistsBijection(B, A \ {1})
  <2> HIDE DEF f, A, B
  <2>1. DOMAIN f = B
    BY <1>4
  <2>2. f \in Injection(B, A \ {1})
    BY <1>4, <1>5, <2>1 DEF Injection, IsInjective
  <2>3. f \in Surjection(B, A \ {1})
    BY <1>4, <1>6 DEF Surjection
  <2> QED BY <2>2, <2>3 DEF ExistsBijection, Bijection
<1>8. Cardinality(A \ {1}) = Cardinality(B)
  BY <1>2, <1>7, FS_Bijection
<1>9. Cardinality(A \ {1}) = IF 1 \in A THEN Cardinality(A) - 1 ELSE Cardinality(A)
  BY <1>2, FS_RemoveElement
<1>10. 1 \in A <=> Head(q) = t
  BY <1>1
<1> HIDE DEF A, B
<1>11. Cardinality(A) = Cardinality(B) + (IF Head(q) = t THEN 1 ELSE 0)
  BY <1>2, <1>8, <1>9, <1>10
<1> QED BY <1>11 DEF Occ, A, B

LEMMA CopiesType ==
  ASSUME TypeOK, NEW c \in Cmds PROVE Copies(c) \in Nat
<1>1. Occ(taskQueue, RebootTask(c)) \in Nat
  BY OccType DEF TypeOK, SessionType
<1> QED BY <1>1 DEF Copies

LEMMA MoreType ==
  ASSUME NEW c \in Cmds
  PROVE  More(c) \in Nat /\ Unrecorded(c) \in {0, 1}
BY DEF More, Unrecorded

\* what the worker queues for other commands, or as a read-back, is no copy
LEMMA CopiesAppend ==
  ASSUME TypeOK, NEW c \in Cmds, NEW u \in Tasks, UNCHANGED handed,
         taskQueue' = Append(taskQueue, u)
  PROVE  Copies(c)' = Copies(c) + (IF u = RebootTask(c) THEN 1 ELSE 0)
<1> DEFINE n == IF u = RebootTask(c) THEN 1 ELSE 0
           h == IF handed = RebootTask(c) THEN 1 ELSE 0
<1>1. Occ(taskQueue', RebootTask(c)) = Occ(taskQueue, RebootTask(c)) + n
  BY OccAppend DEF TypeOK, SessionType
<1>2. Occ(taskQueue, RebootTask(c)) \in Nat
  BY OccType DEF TypeOK, SessionType
<1>3. Copies(c) = Occ(taskQueue, RebootTask(c)) + h
  BY DEF Copies
<1>4. Copies(c)' = Occ(taskQueue', RebootTask(c)) + h
  BY DEF Copies, RebootTask
<1>5. n \in Nat /\ h \in Nat
  OBVIOUS
<1> HIDE DEF n, h
<1>6. Copies(c)' = Copies(c) + n
  BY <1>1, <1>2, <1>3, <1>4, <1>5
<1> QED BY <1>6 DEF n

\* an unanswered reboot is not queued again
LEMMA InformCopies ==
  ASSUME TypeOK, HandleInform, UNCHANGED handed, NEW c \in Cmds
  PROVE  Copies(c)' = Copies(c)
<1>1. CASE UNCHANGED taskQueue
  BY <1>1 DEF Copies, RebootTask, Occ
<1>2. CASE taskQueue' = Append(taskQueue, inflight) /\ Retried(inflight)
  <2>1. inflight \in Tasks /\ inflight # RebootTask(c)
    BY <1>2 DEF Retried, RebootTask, TypeOK, SessionType
  <2>2. Copies(c)' = Copies(c) + 0 /\ Copies(c) \in Nat
    BY <1>2, <2>1, CopiesAppend, CopiesType
  <2> QED BY <2>2
<1> QED BY <1>1, <1>2 DEF HandleInform

\* a late request queues no reboot and hands none to the device
LEMMA LateCopies ==
  ASSUME TypeOK, NEW i \in DOMAIN late, Late(i), NEW c \in Cmds
  PROVE  Copies(c)' <= Copies(c)
<1>1. UNCHANGED handed /\ (LateInform(i) \/ LateEmpty(i) \/ LateAnswer(i))
  BY DEF Late, device
<1>2. Copies(c) \in Nat
  BY CopiesType
<1>3. CASE UNCHANGED taskQueue
  <2>1. Copies(c)' = Copies(c)
    BY <1>1, <1>3 DEF Copies, RebootTask, Occ
  <2> QED BY <1>2, <2>1
<1>4. CASE HandleInform
  BY <1>1, <1>2, <1>4, InformCopies
<1>5. CASE taskQueue # << >> /\ taskQueue' = Tail(taskQueue)
  <2> DEFINE n == IF Head(taskQueue) = RebootTask(c) THEN 1 ELSE 0
             h == IF handed = RebootTask(c) THEN 1 ELSE 0
  <2>1. Occ(taskQueue, RebootTask(c)) = Occ(taskQueue', RebootTask(c)) + n
    BY <1>5, OccTail DEF TypeOK, SessionType
  <2>2. Occ(taskQueue', RebootTask(c)) \in Nat
    BY <1>5, OccType, TailFacts DEF TypeOK, SessionType
  <2>3. Copies(c) = Occ(taskQueue, RebootTask(c)) + h
    BY DEF Copies
  <2>4. Copies(c)' = Occ(taskQueue', RebootTask(c)) + h
    BY <1>1 DEF Copies, RebootTask
  <2>5. n \in Nat /\ h \in Nat
    OBVIOUS
  <2> HIDE DEF n, h
  <2> QED BY <2>1, <2>2, <2>3, <2>4, <2>5
<1> QED BY <1>1, <1>3, <1>4, <1>5 DEF LateInform, LateEmpty, LateAnswer, Pop

\* a step of the device: a copy is handed on, or has run, or is gone
LEMMA DeviceCopies ==
  ASSUME Basic, TasksInv, Device, NEW c \in Cmds, type[c] = "reboot"
  PROVE  runs'[c] + Copies(c)' <= runs[c] + Copies(c)
<1> USE DEF cloud, disk, session, worker, device, net
<1>1. TypeOK /\ TypeOK' /\ runs[c] \in Nat /\ runs'[c] \in Nat /\ RebootTask(c) # NoTask
  BY DeviceTypes DEF Basic, TypeOK, DeviceType, RebootTask, NoTask
<1>2. Copies(c) \in Nat /\ Copies(c)' \in Nat
  <2>1. Occ(taskQueue', RebootTask(c)) \in Nat
    BY <1>1, OccType DEF TypeOK, SessionType
  <2> QED BY <1>1, <2>1, CopiesType DEF Copies, RebootTask
<1>3. CASE UNCHANGED <<taskQueue, handed, runs>>
  <2>1. Copies(c)' = Copies(c)
    BY <1>3 DEF Copies, RebootTask, Occ
  <2> QED BY <1>1, <1>2, <1>3, <2>1
<1>4. CASE NothingQueued \/ Settle \/ GiveUp
  BY <1>3, <1>4 DEF NothingQueued, Settle, GiveUp
<1>5. CASE Inform
  <2>1. UNCHANGED <<runs, handed>> /\ HandleInform
    BY <1>5 DEF Inform
  <2>2. Copies(c)' = Copies(c)
    BY <1>1, <2>1, InformCopies
  <2> QED BY <1>1, <1>2, <2>1, <2>2
<1>6. CASE nextTask
  <2>1. /\ handed = NoTask /\ taskQueue # << >> /\ handed' = Head(taskQueue)
        /\ taskQueue' = Tail(taskQueue) /\ UNCHANGED runs
    BY <1>6 DEF nextTask
  <2>2. Occ(taskQueue, RebootTask(c)) = Occ(taskQueue', RebootTask(c))
            + (IF Head(taskQueue) = RebootTask(c) THEN 1 ELSE 0)
    BY <1>1, <2>1, OccTail DEF TypeOK, SessionType
  <2>3. Copies(c) = Occ(taskQueue, RebootTask(c)) + 0
    BY <1>1, <2>1 DEF Copies
  <2>4. Copies(c)' = Occ(taskQueue', RebootTask(c))
            + (IF Head(taskQueue) = RebootTask(c) THEN 1 ELSE 0)
    BY <2>1 DEF Copies, RebootTask
  <2>5. Occ(taskQueue, RebootTask(c)) \in Nat
    BY <1>1, OccType DEF TypeOK, SessionType
  <2>6. Copies(c)' = Copies(c)
    BY <1>2, <2>2, <2>3, <2>4, <2>5
  <2> QED BY <1>1, <1>2, <2>1, <2>6
<1>7. ASSUME UNCHANGED taskQueue, handed' = NoTask
      PROVE  Copies(c)' = Copies(c) - (IF handed = RebootTask(c) THEN 1 ELSE 0)
  <2>1. Occ(taskQueue, RebootTask(c)) \in Nat
    BY <1>1, OccType DEF TypeOK, SessionType
  <2>2. Copies(c)' = Occ(taskQueue, RebootTask(c)) + 0
    BY <1>1, <1>7 DEF Copies, RebootTask, NoTask
  <2> QED BY <2>1, <2>2 DEF Copies
<1>8. CASE Abandon
  <2>1. UNCHANGED <<taskQueue, runs>> /\ handed' = NoTask
    BY <1>8 DEF Abandon
  <2> QED BY <1>1, <1>2, <1>7, <2>1
<1>9. CASE Write \/ Reboot \/ Read \/ Refuse
  <2>1. UNCHANGED taskQueue /\ handed \in Tasks /\ handed.cmd \in Cmds /\ handed # NoTask
    BY <1>9, DeviceAnswers
  <2>2. handed' = NoTask
    BY <1>9 DEF Write, Reboot, Read, Refuse, Answer
  <2>3. UNCHANGED runs \/ (handed.type \in {"spv", "reboot"} /\ Ran(handed.cmd))
    BY <1>9 DEF Write, Reboot, Read, Refuse
  <2>4. CASE UNCHANGED runs
    BY <1>1, <1>2, <1>7, <2>1, <2>2, <2>4
  <2>5. CASE handed.type \in {"spv", "reboot"} /\ Ran(handed.cmd) /\ handed.cmd # c
    <3>1. runs'[c] = runs[c]
      BY <2>1, <2>5 DEF Ran, Basic, TypeOK, DeviceType
    <3> QED BY <1>1, <1>2, <1>7, <2>1, <2>2, <3>1
  <2>6. CASE handed.type \in {"spv", "reboot"} /\ Ran(handed.cmd) /\ handed.cmd = c
    <3>1. runs'[c] = runs[c] + 1
      BY <2>1, <2>6 DEF Ran, Basic, TypeOK, DeviceType
    <3>2. Fits(handed)
      BY <2>1 DEF TasksInv, Alive
    <3>3. handed.type = "reboot"
      BY <2>6, <3>2 DEF Fits
    <3>4. handed = RebootTask(c)
      BY <2>1, <2>6, <3>3 DEF Tasks, RebootTask
    <3> QED BY <1>1, <1>2, <1>7, <2>1, <2>2, <3>1, <3>4
  <2> QED BY <2>3, <2>4, <2>5, <2>6
<1> QED BY <1>4, <1>5, <1>6, <1>8, <1>9 DEF Device

\* the worker goes on with the command it works on, or with another one
LEMMA MoreSame ==
  ASSUME NEW c \in Cmds, UNCHANGED <<cancelled, batch, applied>>,
         InProgress(c)' <=> InProgress(c),
         InProgress(c) => (wpc' \in {"ack", "snapshot"} <=> wpc \in {"ack", "snapshot"})
  PROVE  More(c)' = More(c)
<1>1. Ahead(c)' <=> Ahead(c)
  BY DEF Ahead
<1>2. Unrecorded(c)' = Unrecorded(c)
  BY DEF Unrecorded
<1> QED BY <1>1, <1>2 DEF More

LEMMA PaidInit == Init => PaidInv
<1> SUFFICES ASSUME Init, NEW c \in Cmds
             PROVE  runs[c] + Copies(c) + More(c) <= 1 + faults + stops
  BY DEF PaidInv
<1>1. runs[c] = 0 /\ faults = 0 /\ stops = 0
  BY DEF Init
<1>2. Copies(c) = 0
  <2>1. Occ(taskQueue, RebootTask(c)) = 0
    BY OccEmpty DEF Init
  <2>2. handed # RebootTask(c)
    BY DEF Init, RebootTask, NoTask
  <2> QED BY <2>1, <2>2 DEF Copies
<1>3. More(c) = 1
  <2>1. ~cancelled /\ ~InProgress(c) /\ Unrecorded(c) = 1
    BY DEF Init, InProgress, Working, Unrecorded
  <2> QED BY <2>1 DEF More
<1> QED BY <1>1, <1>2, <1>3

\* d more copies are paid for by the failures that the step counts
LEMMA Balance ==
  ASSUME NEW r \in Nat, NEW k \in Nat, NEW m \in Nat, NEW f \in Nat, NEW s \in Nat,
         NEW k2 \in Nat, NEW m2 \in Nat, NEW f2 \in Nat, NEW d \in Nat,
         r + k + m <= 1 + f + s,
         k2 <= k + d, m2 + d <= m + (f2 - f)
  PROVE  r + k2 + m2 <= 1 + f2 + s
OBVIOUS

LEMMA PaidStep == Basic /\ TasksInv /\ PaidInv /\ [Next]_vars => PaidInv'
<1> SUFFICES ASSUME Basic, TasksInv, PaidInv, [Next]_vars, NEW c \in Cmds,
                    type'[c] = "reboot"
             PROVE  runs'[c] + Copies(c)' + More(c)' <= 1 + faults' + stops'
  BY DEF PaidInv
<1> USE DEF cloud, disk, session, worker, device, net
<1>1. TypeOK /\ WorkInv /\ type[c] = "reboot"
  BY TypeFixed DEF Basic
<1>2. runs[c] + Copies(c) + More(c) <= 1 + faults + stops
  BY <1>1 DEF PaidInv
<1>3. TypeOK' /\ WorkInv'
  BY BasicStep DEF Basic
<1>4. /\ runs[c] \in Nat /\ Copies(c) \in Nat /\ More(c) \in Nat
      /\ faults \in Nat /\ stops \in Nat
  BY <1>1, CopiesType, MoreType DEF TypeOK, DeviceType, BoundsType
<1>5. /\ runs'[c] \in Nat /\ Copies(c)' \in Nat /\ More(c)' \in Nat
      /\ faults' \in Nat /\ stops' \in Nat
  <2>1. Occ(taskQueue', RebootTask(c)) \in Nat
    BY <1>3, OccType DEF TypeOK, SessionType
  <2>2. Copies(c)' \in Nat
    BY <2>1 DEF Copies, RebootTask
  <2>3. More(c)' \in Nat
    BY DEF More, Unrecorded
  <2> QED BY <1>3, <2>2, <2>3 DEF TypeOK, DeviceType, BoundsType
<1>6. Unrecorded(c) \in {0, 1} /\ Unrecorded(c)' \in {0, 1}
  BY DEF Unrecorded
<1>7. UNCHANGED <<taskQueue, handed>> => Copies(c)' = Copies(c)
  BY DEF Copies, RebootTask, Occ
<1>8. CASE Device
  <2>1. UNCHANGED <<applied, worker, faults, stops>>
    BY <1>8, DeviceQuiet, DeviceAnswers DEF Device
  <2>2. More(c)' = More(c)
    BY <2>1, MoreSame DEF InProgress, Cmd
  <2>3. runs'[c] + Copies(c)' <= runs[c] + Copies(c)
    BY <1>1, <1>8, DeviceCopies
  <2>4. faults' = faults /\ stops' = stops
    BY <2>1
  <2>5. runs'[c] + Copies(c)' + More(c) <= 1 + faults + stops
    BY <1>2, <1>4, <1>5, <2>3
  <2> QED BY <2>2, <2>4, <2>5, Zenon
<1>9. CASE Issue \/ UNCHANGED vars
  <2>1. UNCHANGED <<applied, worker, faults, stops, runs, taskQueue, handed>>
    BY <1>9 DEF Issue, vars
  <2>2. More(c)' = More(c)
    BY <2>1, MoreSame DEF InProgress, Cmd
  <2> QED BY <1>2, <1>4, <1>7, <2>1, <2>2
<1>10. CASE Cancel
  <2>1. /\ UNCHANGED <<applied, wpc, batch, faults, runs, taskQueue, handed>>
        /\ stops' = stops + 1 /\ ~cancelled /\ cancelled'
    BY <1>10 DEF Cancel, Trouble
  <2>2. /\ InProgress(c)' <=> InProgress(c)
        /\ Unrecorded(c)' = Unrecorded(c)
    BY <2>1 DEF InProgress, Cmd, Unrecorded
  <2>3. More(c)' <= More(c) + 1
    <3>1. CASE InProgress(c)
      <4>1. ~Ahead(c)'
        BY <2>2, <3>1 DEF Ahead
      <4> QED BY <1>6, <2>1, <2>2, <4>1 DEF More
    <3>2. CASE ~InProgress(c)
      BY <1>6, <2>1, <2>2, <3>2 DEF More
    <3> QED BY <3>1, <3>2
  <2>4. runs'[c] = runs[c] /\ faults' = faults /\ stops' = stops + 1 /\ Copies(c)' = Copies(c)
    BY <1>7, <2>1
  <2> QED BY <1>2, <1>4, <1>5, <2>3, <2>4, SMTT(40)
<1>11. ASSUME Boot
       PROVE  /\ runs' = runs /\ Copies(c)' <= Copies(c)
              /\ More(c)' = Unrecorded(c) /\ Unrecorded(c) <= 1
              /\ cancelled => Unrecorded(c) <= More(c)
  <2>1. UNCHANGED <<runs, handed, applied>> /\ taskQueue' = << >> /\ wpc' = "idle"
        /\ ~cancelled' /\ batch' = << >>
    BY <1>11 DEF Boot
  <2>2. Occ(taskQueue', RebootTask(c)) = 0 /\ Occ(taskQueue, RebootTask(c)) \in Nat
    BY <1>1, <2>1, OccEmpty, OccType DEF TypeOK, SessionType
  <2>3. Copies(c)' <= Copies(c)
    BY <2>1, <2>2 DEF Copies, RebootTask
  <2>4. Unrecorded(c)' = Unrecorded(c) /\ ~InProgress(c)'
    BY <2>1 DEF Unrecorded, InProgress, Working
  <2>5. More(c)' = Unrecorded(c)
    BY <2>1, <2>4 DEF More
  <2>6. cancelled => Unrecorded(c) <= More(c)
    BY <1>6 DEF More
  <2> QED BY <1>6, <2>1, <2>3, <2>5, <2>6
<1>12. CASE Crash
  <2>1. Boot /\ stops' = stops + 1 /\ faults' = faults
    BY <1>12 DEF Crash, Trouble, Boot
  <2> QED BY <1>2, <1>4, <1>5, <1>6, <1>11, <2>1
<1>13. CASE Exit
  <2>1. Boot /\ stops' = stops /\ faults' = faults /\ cancelled
    BY <1>13 DEF Exit, Boot
  <2> QED BY <1>2, <1>4, <1>5, <1>6, <1>11, <2>1
\* steps between the first wait and the verdict, and between the
\* acknowledgement and the snapshot
<1>14. ASSUME UNCHANGED <<applied, cancelled, batch, runs, faults, stops, handed>>,
              \/ wpc \in {"await", "verify", "readback"}
                 /\ wpc' \in {"verify", "readback", "mark"}
              \/ wpc = "ack" /\ wpc' = "snapshot"
              \/ wpc \in {"idle", "next"} /\ wpc' \in {"idle", "next"},
              Copies(c)' = Copies(c)
       PROVE  runs'[c] + Copies(c)' + More(c)' <= 1 + faults' + stops'
  <2>1. /\ InProgress(c)' <=> InProgress(c)
        /\ InProgress(c) => (wpc' \in {"ack", "snapshot"} <=> wpc \in {"ack", "snapshot"})
    BY <1>14 DEF InProgress, Working, Cmd
  <2>2. More(c)' = More(c)
    BY <1>14, <2>1, MoreSame
  <2> QED BY <1>2, <1>4, <1>14, <2>2
<1>15. CASE AwaitTimeout \/ EndOfBatch \/ Ack
  BY <1>7, <1>14, <1>15 DEF AwaitTimeout, OnTimeout, Verdict, EndOfBatch, Ack
<1>16. CASE VerifyDelay
  <2>1. UNCHANGED <<applied, cancelled, batch, runs, faults, stops, handed>>
        /\ wpc = "verify" /\ wpc' \in {"readback", "mark"} /\ batch # << >>
    BY <1>1, <1>16 DEF VerifyDelay, Verdict, WorkInv, Working
  <2>2. ReadBack(Cmd) \in Tasks /\ ReadBack(Cmd) # RebootTask(c)
    BY <1>1, <2>1, CmdType, ReadBackType DEF ReadBack, RebootTask
  <2>3. CASE taskQueue' = Append(taskQueue, ReadBack(Cmd))
    <3>1. Copies(c)' = Copies(c) + 0
      BY <1>1, <2>1, <2>2, <2>3, CopiesAppend
    <3> QED BY <1>4, <1>14, <2>1, <3>1
  <2>4. CASE UNCHANGED taskQueue
    BY <1>7, <1>14, <2>1, <2>4
  <2> QED BY <1>16, <2>3, <2>4 DEF VerifyDelay, enqueue
<1>17. ASSUME NEW i \in DOMAIN results, OnAnswer(i) \/ OnReadback(i)
       PROVE  runs'[c] + Copies(c)' + More(c)' <= 1 + faults' + stops'
  <2>1. /\ UNCHANGED <<applied, cancelled, batch, runs, faults, stops, handed,
                       taskQueue>>
        /\ wpc \in {"await", "verify", "readback"}
    BY <1>17 DEF OnAnswer, OnReadback
  <2>2. wpc' \in {"verify", "readback", "mark"}
    BY <1>1, <1>17, WorkerAnswers
  <2> QED BY <1>7, <1>14, <2>1, <2>2
\* the batch before and after
<1>18. CASE Poll \/ Reack
  <2>1. /\ ~cancelled /\ UNCHANGED <<cancelled, applied, runs, faults, stops, handed, taskQueue>>
        /\ wpc \in {"idle", "next"} /\ wpc' = "next"
    BY <1>18 DEF Poll, Reack
  <2>2. More(c) = Unrecorded(c) /\ More(c)' = Unrecorded(c)
    <3>1. ~InProgress(c) /\ ~InProgress(c)' /\ Unrecorded(c)' = Unrecorded(c)
      BY <2>1 DEF InProgress, Working, Unrecorded
    <3> QED BY <2>1, <3>1 DEF More
  <2> QED BY <1>2, <1>4, <1>7, <2>1, <2>2
<1>19. CASE postCommandSnapshot
  <2>1. /\ UNCHANGED <<cancelled, applied, runs, faults, stops, handed, taskQueue>>
        /\ wpc = "snapshot" /\ wpc' = "next" /\ batch' = Tail(batch) /\ batch # << >>
    BY <1>1, <1>19 DEF postCommandSnapshot, WorkInv, Working
  <2>2. Unrecorded(c)' = Unrecorded(c) /\ ~InProgress(c)'
    BY <2>1 DEF Unrecorded, InProgress, Working
  <2>3. Ahead(c)' => Ahead(c)
    <3>1. \A i \in DOMAIN batch' : /\ Cmd \in Cmds /\ batch'[i] \in Cmds /\ Cmd < batch'[i]
                                   /\ \E j \in DOMAIN batch : batch[j] = batch'[i]
      BY <1>1, <2>1, BatchFacts
    <3>2. ASSUME NEW i \in DOMAIN batch', batch'[i] = c PROVE Cmd # c
      BY <3>1, <3>2 DEF Cmds
    <3> QED BY <3>1, <3>2 DEF Ahead, InProgress
  <2>4. More(c)' <= More(c)
    <3>1. CASE cancelled
      <4>1. More(c) = (IF Ahead(c) THEN 1 ELSE 0) + Unrecorded(c)
        BY <3>1 DEF More
      <4>2. More(c)' = (IF Ahead(c)' THEN 1 ELSE 0) + Unrecorded(c)
        BY <2>1, <2>2, <3>1 DEF More
      <4> QED BY <1>6, <2>3, <4>1, <4>2
    <3>2. CASE ~cancelled
      <4>1. More(c) = Unrecorded(c) /\ More(c)' = Unrecorded(c)
        BY <2>1, <2>2, <3>2 DEF More
      <4> QED BY <1>6, <4>1
    <3> QED BY <3>1, <3>2
  <2> QED BY <1>2, <1>4, <1>5, <1>7, <2>1, <2>4
\* the two steps that count
<1>20. CASE Apply
  <2>1. /\ UNCHANGED <<cancelled, applied, batch, runs, stops, handed>> /\ Cmd' = Cmd
        /\ wpc = "next" /\ wpc' \in {"await", "mark"} /\ batch # << >> /\ Runnable
    BY <1>20 DEF Apply, Verdict, Cmd
  <2>2. ~InProgress(c) /\ (InProgress(c)' <=> Cmd = c) /\ Unrecorded(c)' = Unrecorded(c)
    BY <2>1 DEF InProgress, Working, Unrecorded
  <2>3. faults' \in {faults, faults + 1}
    BY <2>1 DEF Runnable, StatementFails, Trouble
  <2>4. Copies(c)' <= Copies(c) + 1 /\ (Cmd # c => Copies(c)' = Copies(c))
    <3>1. CASE UNCHANGED taskQueue
      BY <1>4, <1>7, <2>1, <3>1
    <3>2. CASE taskQueue' = Append(taskQueue, MainTask(Cmd)) /\ type[Cmd] # "other"
      <4>1. MainTask(Cmd) \in Tasks /\ (Cmd # c => MainTask(Cmd) # RebootTask(c))
        BY <1>1, <2>1, <3>2, CmdType, MainTaskType DEF RebootTask
      <4>2. Copies(c)' = Copies(c) + (IF MainTask(Cmd) = RebootTask(c) THEN 1 ELSE 0)
        BY <1>1, <2>1, <3>2, <4>1, CopiesAppend
      <4> QED BY <1>4, <4>1, <4>2
    <3> QED BY <1>20, <3>1, <3>2 DEF Apply, enqueue
  <2>5. CASE Cmd # c
    <3>1. More(c)' = More(c)
      BY <2>1, <2>2, <2>5, MoreSame
    <3> QED BY <1>2, <1>4, <1>5, <2>1, <2>3, <2>4, <2>5, <3>1
  <2>6. CASE Cmd = c /\ cancelled
    <3>1. Ahead(c) /\ ~Ahead(c)'
      <4>1. 1 \in DOMAIN batch /\ batch[1] = Cmd
        BY <1>1, <2>1, TailFacts, BatchFacts DEF TypeOK, WorkerType
      <4> QED BY <2>2, <2>6, <4>1 DEF Ahead
    <3>2. More(c) = 1 + Unrecorded(c) /\ More(c)' = 0 + Unrecorded(c)
      BY <2>1, <2>2, <2>6, <3>1 DEF More
    <3>3. runs'[c] = runs[c] /\ stops' = stops
      BY <2>1
    <3>4. More(c)' + 1 <= More(c) + (faults' - faults) /\ 1 \in Nat
      BY <1>4, <1>6, <2>3, <3>2
    <3>5. runs[c] + Copies(c)' + More(c)' <= 1 + faults' + stops
      BY <1>2, <1>4, <1>5, <2>4, <3>4, Balance, ZenonT(30)
    <3> QED BY <3>3, <3>5, Zenon
  <2>7. CASE Cmd = c /\ ~cancelled
    <3>1. More(c)' = 0
      BY <2>1, <2>2, <2>7 DEF More
    <3>2. More(c) = Unrecorded(c)
      BY <2>2, <2>7 DEF More
    <3>3. Unrecorded(c) = 1 \/ faults' = faults + 1
      BY <2>1, <2>7 DEF Runnable, NotRecorded, StatementFails, Trouble, Unrecorded
    <3>4. runs'[c] = runs[c] /\ stops' = stops
      BY <2>1
    <3>5. More(c)' + 1 <= More(c) + (faults' - faults) /\ 1 \in Nat
      BY <1>4, <1>6, <2>3, <3>1, <3>2, <3>3
    <3>6. runs[c] + Copies(c)' + More(c)' <= 1 + faults' + stops
      BY <1>2, <1>4, <1>5, <2>4, <3>5, Balance, ZenonT(30)
    <3> QED BY <3>4, <3>6, Zenon
  <2> QED BY <2>5, <2>6, <2>7
<1>21. CASE MarkApplied
  <2>1. /\ UNCHANGED <<cancelled, batch, runs, stops, handed, taskQueue>> /\ Cmd' = Cmd
        /\ wpc = "mark" /\ wpc' = "ack" /\ batch # << >> /\ Cmd \in Cmds
        /\ ack.status # "none"
    BY <1>1, <1>21, CmdType DEF MarkApplied, WorkInv, Working, Cmd, Verdicts
  <2>2. InProgress(c)' <=> InProgress(c)
    BY <2>1 DEF InProgress, Working
  <2>3. \/ ~cancelled /\ UNCHANGED faults /\ applied' = [applied EXCEPT ![Cmd] = ack.status]
        \/ cancelled /\ UNCHANGED <<faults, applied>>
        \/ ~cancelled /\ faults' = faults + 1 /\ UNCHANGED applied
    BY <1>21 DEF MarkApplied, StatementFails, Trouble
  <2>4. applied \in [Cmds -> Verdicts \cup {"none"}]
    BY <1>1 DEF TypeOK, WorkerType
  <2>5. (InProgress(c) <=> Cmd = c) /\ (Ahead(c)' <=> Ahead(c))
    BY <2>1, <2>2 DEF InProgress, Ahead, Working
  <2>6. CASE Cmd # c
    <3>1. Unrecorded(c)' = Unrecorded(c)
      BY <2>1, <2>3, <2>4, <2>6 DEF Unrecorded
    <3>2. More(c)' = More(c)
      BY <2>1, <2>2, <2>5, <2>6, <3>1 DEF More
    <3> QED BY <1>2, <1>4, <1>5, <1>7, <2>1, <2>3, <3>2
  <2>7. CASE Cmd = c /\ cancelled
    <3>1. Unrecorded(c)' = Unrecorded(c)
      BY <2>3, <2>7 DEF Unrecorded
    <3>2. More(c)' = More(c)
      BY <2>1, <2>5, <2>7, <3>1 DEF More
    <3> QED BY <1>2, <1>4, <1>5, <1>7, <2>1, <2>3, <3>2
  <2>8. CASE Cmd = c /\ ~cancelled
    <3>1. More(c)' = Unrecorded(c)'
      BY <2>1, <2>8 DEF More
    <3>2. Unrecorded(c)' = 0 \/ faults' = faults + 1
      BY <2>1, <2>3, <2>4, <2>8 DEF Unrecorded
    <3>3. runs'[c] = runs[c] /\ stops' = stops /\ Copies(c)' = Copies(c)
      BY <1>7, <2>1
    <3>4. faults' = faults \/ faults' = faults + 1
      BY <2>3
    <3>5. /\ More(c)' + 0 <= More(c) + (faults' - faults) /\ 0 \in Nat
          /\ Copies(c)' <= Copies(c) + 0
      BY <1>4, <1>6, <3>1, <3>2, <3>3, <3>4
    <3>6. runs[c] + Copies(c)' + More(c)' <= 1 + faults' + stops
      BY <1>2, <1>4, <1>5, <3>5, Balance, ZenonT(30)
    <3> QED BY <3>3, <3>6, Zenon
  <2> QED BY <2>6, <2>7, <2>8
<1>22. ASSUME NEW i \in DOMAIN late, Late(i)
       PROVE  runs'[c] + Copies(c)' + More(c)' <= 1 + faults' + stops'
  <2>1. UNCHANGED <<applied, worker, faults, stops, runs>>
    BY <1>22 DEF Late
  <2>2. More(c)' = More(c)
    BY <2>1, MoreSame DEF InProgress, Cmd
  <2>3. Copies(c)' <= Copies(c)
    BY <1>1, <1>22, LateCopies
  <2>4. runs'[c] = runs[c] /\ faults' = faults /\ stops' = stops
    BY <2>1
  <2>5. runs[c] + Copies(c)' + More(c) <= 1 + faults + stops
    BY <1>2, <1>4, <1>5, <2>3
  <2> QED BY <2>2, <2>4, <2>5, Zenon
<1> QED BY <1>8, <1>9, <1>10, <1>12, <1>13, <1>15, <1>16, <1>17, <1>18, <1>19,
           <1>20, <1>21, <1>22 DEF Next, Worker

\* Each reboot of one command beyond the first is paid for by a stop of the
\* agent or a failed statement, however many commands, failures and sessions
\* there are.
THEOREM RebootsArePaidFor == Spec => []RebootsPaidFor
<1>1. Basic /\ PaidInv => RebootsPaidFor
  <2> SUFFICES ASSUME Basic, PaidInv, NEW c \in Cmds, type[c] = "reboot"
               PROVE  runs[c] <= 1 + Interruptions
    BY DEF RebootsPaidFor
  <2>1. runs[c] + Copies(c) + More(c) <= 1 + faults + stops
    BY DEF PaidInv
  <2>2. /\ runs[c] \in Nat /\ Copies(c) \in Nat /\ More(c) \in Nat
        /\ faults \in Nat /\ stops \in Nat
    BY CopiesType, MoreType DEF Basic, TypeOK, DeviceType, BoundsType
  <2> QED BY <2>1, <2>2 DEF Interruptions
<1> QED BY <1>1, BasicHolds, TasksInit, TasksStep, PaidInit, PaidStep, PTL DEF Spec

-----------------------------------------------------------------------------
(* Without stops and failed statements.                                    *)

\* which steps there are, and that Apply runs a command that is not on record
LEMMA CleanSteps ==
  ASSUME Basic, CleanInv, [Next]_vars, Clean'
  PROVE  /\ Clean /\ ~cancelled
         /\ ~Cancel /\ ~Crash /\ ~Exit /\ ~\E i \in DOMAIN late : Late(i)
         /\ Apply => applied[Cmd] = "none"
         /\ MarkApplied => applied' = [applied EXCEPT ![Cmd] = ack.status]
<1> USE DEF cloud, disk, session, worker, device, net
<1>1. /\ faults \in Nat /\ stops \in Nat
      /\ lates = 0 /\ ~\E i \in DOMAIN late : Late(i)
  BY NotLate DEF Basic, TypeOK, BoundsType, Clean
<1>2. \/ UNCHANGED <<faults, stops>> \/ (Trouble(faults) /\ stops' = stops)
      \/ (Trouble(stops) /\ faults' = faults)
  BY <1>1, DeviceQuiet, DeviceAnswers DEF Next, vars, Worker, Device, Issue, Cancel,
     Crash, Boot, Exit, Poll, Reack, Apply, Runnable, StatementFails, AwaitTimeout,
     VerifyDelay, OnAnswer, OnReadback, MarkApplied, Ack, postCommandSnapshot,
     EndOfBatch
<1>3. faults = 0 /\ stops = 0 /\ ~Trouble(faults) /\ ~Trouble(stops)
  BY <1>1, <1>2 DEF Clean, Trouble
<1>4. ~cancelled
  BY <1>1, <1>3 DEF CleanInv, Clean
<1> QED BY <1>1, <1>3, <1>4 DEF Clean, Cancel, Crash, Exit, Apply, Runnable, NotRecorded,
           StatementFails, MarkApplied

\* a command is begun by Apply, and stays begun
LEMMA BegunStep ==
  ASSUME Basic, RecordInv, CleanInv, [Next]_vars, Clean', NEW c \in Cmds
  PROVE  /\ Begun(c) => Begun(c)'
         /\ Begun(c)' => Begun(c) \/ (Apply /\ c = Cmd)
         /\ Apply /\ c = Cmd => Begun(c)' /\ ~Begun(c)
<1> USE DEF cloud, disk, session, worker, device, net
<1>1. /\ TypeOK /\ WorkInv /\ Clean /\ ~cancelled
      /\ ~Cancel /\ ~Crash /\ ~Exit /\ ~\E i \in DOMAIN late : Late(i)
  BY CleanSteps DEF Basic
<1>2. ASSUME UNCHANGED <<applied, batch>>,
             wpc' \in Working <=> wpc \in Working
      PROVE  Begun(c)' <=> Begun(c)
  BY <1>2 DEF Begun, InProgress, Cmd
<1>3. CASE Device \/ Issue \/ UNCHANGED vars
  <2>1. UNCHANGED <<applied, batch, wpc>>
    BY <1>3, DeviceQuiet, DeviceAnswers DEF Device, Issue, vars
  <2>2. ~Apply
    BY <2>1 DEF Apply, Verdict
  <2> QED BY <1>2, <2>1, <2>2
<1>4. CASE AwaitTimeout \/ VerifyDelay \/ Ack \/ EndOfBatch
  <2>1. UNCHANGED <<applied, batch>> /\ (wpc' \in Working <=> wpc \in Working)
    BY <1>4 DEF AwaitTimeout, OnTimeout, Verdict, VerifyDelay, Ack, EndOfBatch, Working
  <2>2. ~Apply
    BY <1>4 DEF Apply, AwaitTimeout, VerifyDelay, Ack, EndOfBatch
  <2> QED BY <1>2, <2>1, <2>2
<1>5. ASSUME NEW i \in DOMAIN results, OnAnswer(i) \/ OnReadback(i)
      PROVE  (Begun(c)' <=> Begun(c)) /\ ~Apply
  <2>1. UNCHANGED <<applied, batch>> /\ wpc \in {"await", "readback"}
    BY <1>5 DEF OnAnswer, OnReadback
  <2>2. wpc' \in {"verify", "mark"}
    BY <1>1, <1>5, WorkerAnswers
  <2> QED BY <1>2, <2>1, <2>2 DEF Working, Apply
<1>6. CASE Poll \/ Reack
  <2>1. UNCHANGED applied /\ wpc \in {"idle", "next"} /\ wpc' = "next"
    BY <1>6 DEF Poll, Reack
  <2> QED BY <2>1 DEF Begun, InProgress, Working, Apply, Verdict
<1>7. CASE Apply
  <2>1. /\ UNCHANGED <<applied, batch>> /\ Cmd' = Cmd /\ wpc = "next"
        /\ wpc' \in {"await", "mark"} /\ applied[Cmd] = "none"
    BY <1>7, CleanSteps DEF Apply, Verdict, Cmd
  <2> QED BY <1>7, <2>1 DEF Begun, InProgress, Working
<1>8. CASE MarkApplied
  <2>1. /\ UNCHANGED batch /\ Cmd' = Cmd /\ wpc = "mark" /\ wpc' = "ack"
        /\ applied' = [applied EXCEPT ![Cmd] = ack.status] /\ ack.status # "none"
        /\ Cmd \in Cmds
    BY <1>1, <1>8, CleanSteps, CmdType DEF MarkApplied, Cmd, WorkInv, Working, Verdicts
  <2>2. c # Cmd => applied'[c] = applied[c]
    BY <1>1, <2>1 DEF TypeOK, WorkerType
  <2> QED BY <2>1, <2>2 DEF Begun, InProgress, Working, Apply
<1>9. CASE postCommandSnapshot
  <2>1. UNCHANGED applied /\ wpc = "snapshot" /\ wpc' = "next"
    BY <1>9 DEF postCommandSnapshot
  <2>2. applied[Cmd] # "none"
    BY <1>1, <2>1 DEF RecordInv, Clean, WorkInv, Verdicts
  <2> QED BY <2>1, <2>2 DEF Begun, InProgress, Working, Apply
<1> QED BY <1>1, <1>3, <1>4, <1>5, <1>6, <1>7, <1>8, <1>9 DEF Next, Worker

\* the write that is executed last changes with Write only
LEMMA LastMoves ==
  ASSUME [Next]_vars
  PROVE  UNCHANGED last \/ (Write /\ handed.type = "spv" /\ last' = handed.cmd)
BY DEF Next, vars, device, Issue, Cancel, Crash, Exit, Boot, Worker, Poll, Reack,
   Apply, AwaitTimeout, VerifyDelay, OnAnswer, OnReadback, MarkApplied, Ack,
   postCommandSnapshot, EndOfBatch, Device, Inform, nextTask, NothingQueued,
   Write, Reboot, Read, Refuse, Settle, Abandon, GiveUp, Late

LEMMA CleanInit == Init => CleanInv
<1> SUFFICES ASSUME Init PROVE CleanInv
  OBVIOUS
<1>1. ~cancelled /\ handed = NoTask
  BY DEF Init
<1>2. \A c \in Cmds : ~Begun(c)
  BY DEF Init, Begun, InProgress, Working
<1>3. \A t \in Tasks : ~Alive(t)
  BY NoTaskType, EmptySeq DEF Init, Alive, Queued, Answered
<1>4. \A c \in Cmds : last # c
  BY DEF Init, Cmds
<1>5. DOMAIN batch = {}
  BY EmptySeq DEF Init
<1> QED BY <1>1, <1>2, <1>3, <1>4, <1>5 DEF CleanInv, NotBegun

LEMMA CleanStep == Basic /\ RecordInv /\ CleanInv /\ [Next]_vars => CleanInv'
<1> SUFFICES ASSUME Basic, RecordInv, CleanInv, [Next]_vars, Clean'
             PROVE  /\ ~cancelled' /\ (handed' # NoTask => inflight' = handed')
                    /\ \A c \in Cmds : ~Begun(c)' => NotBegun(c)'
  BY DEF CleanInv
<1> USE DEF cloud, disk, session, worker, device, net
<1>1. /\ TypeOK /\ WorkInv /\ HandedInv /\ Clean /\ ~cancelled
      /\ ~Cancel /\ ~Crash /\ ~Exit /\ ~\E i \in DOMAIN late : Late(i)
      /\ handed # NoTask => inflight = handed
      /\ \A c \in Cmds : ~Begun(c) => NotBegun(c)
  BY CleanSteps DEF Basic, CleanInv
<1>2. ~cancelled'
  <2>1. UNCHANGED cancelled
    BY <1>1, DeviceQuiet, DeviceAnswers DEF Next, vars, Worker, Device, Issue,
       Poll, Reack, Apply, AwaitTimeout, VerifyDelay, OnAnswer, OnReadback,
       MarkApplied, Ack, postCommandSnapshot, EndOfBatch
  <2> QED BY <1>1, <2>1
<1>3. handed' # NoTask => inflight' = handed'
  <2>1. CASE UNCHANGED <<handed, inflight>>
    BY <1>1, <2>1
  <2>2. CASE handed' = NoTask
    BY <2>2
  <2>3. CASE Inform
    BY <1>1, <2>3 DEF Inform, HandedInv
  <2>4. CASE nextTask
    BY <2>4 DEF nextTask
  <2> QED BY <1>1, <2>1, <2>2, <2>3, <2>4 DEF Next, vars, Issue, Worker, Poll,
     Reack, Apply, AwaitTimeout, VerifyDelay, OnAnswer, OnReadback, MarkApplied,
     Ack, postCommandSnapshot, EndOfBatch, Device, NothingQueued, Settle,
     Abandon, GiveUp, Write, Reboot, Read, Refuse, Answer
<1> SUFFICES ASSUME NEW c \in Cmds, ~Begun(c)' PROVE NotBegun(c)'
  BY <1>2, <1>3
<1>4. ~Begun(c) /\ ~(Apply /\ c = Cmd) /\ NotBegun(c)
  BY <1>1, BegunStep
<1>5. \A t \in Tasks : Alive(t)' => t.cmd # c
  <2> SUFFICES ASSUME NEW t \in Tasks, Alive(t)' PROVE t.cmd # c
    OBVIOUS
  <2>1. CASE Alive(t)
    BY <1>4, <2>1 DEF NotBegun
  <2>2. CASE Apply /\ batch # << >> /\ type[Cmd] # "other" /\ t = MainTask(Cmd)
    BY <1>1, <1>4, <2>2, CmdType, MainTaskType
  <2>3. CASE VerifyDelay /\ t = ReadBack(Cmd)
    <3>1. InProgress(Cmd)
      BY <2>3 DEF VerifyDelay, InProgress, Working
    <3> QED BY <1>4, <2>3, <3>1 DEF Begun, ReadBack, InProgress
  <2> QED BY <2>1, <2>2, <2>3, AliveStep
<1>6. last' # c
  <2>1. CASE UNCHANGED last
    BY <1>4, <2>1 DEF NotBegun
  <2>2. CASE Write /\ last' = handed.cmd
    <3>1. handed \in Tasks
      BY <2>2, DeviceAnswers
    <3> QED BY <1>4, <2>2, <3>1 DEF NotBegun, Alive
  <2> QED BY <2>1, <2>2, LastMoves
<1>7. \A d \in Cmds : Begun(d)' => d < c
  <2> SUFFICES ASSUME NEW d \in Cmds, Begun(d)' PROVE d < c
    OBVIOUS
  <2>1. CASE Begun(d)
    BY <1>4, <2>1 DEF NotBegun
  <2>2. CASE Apply /\ d = Cmd
    <3>1. batch # << >> /\ d # c
      BY <1>4, <2>2 DEF Apply
    <3>2. 1 \in DOMAIN batch /\ batch[1] = d /\ \A i \in DOMAIN batch : d <= batch[i]
      BY <1>1, <2>2, <3>1, BatchFacts, TailFacts DEF TypeOK, WorkerType
    <3>3. ~(c < d)
      <4> SUFFICES ASSUME c < d PROVE FALSE
        OBVIOUS
      <4>1. PICK j \in DOMAIN batch : batch[j] = c
        BY <1>4, <3>2 DEF NotBegun
      <4> QED BY <3>2, <4>1 DEF Cmds
    <3> QED BY <3>1, <3>3 DEF Cmds
  <2> QED BY <2>1, <2>2, BegunStep
<1>8. \A i \in DOMAIN batch' : c < batch'[i] => \E j \in DOMAIN batch' : batch'[j] = c
  <2>1. CASE UNCHANGED batch
    BY <1>4, <2>1 DEF NotBegun
  <2>2. CASE Poll
    <3>1. {batch'[i] : i \in DOMAIN batch'} = Outstanding
      BY <1>1, <2>2, InOrderType DEF Poll
    <3>2. acks[c] = "none"
      BY <1>1, <1>4 DEF RecordInv, Clean, Begun
    <3> SUFFICES ASSUME NEW i \in DOMAIN batch', c < batch'[i]
                 PROVE  \E j \in DOMAIN batch' : batch'[j] = c
      OBVIOUS
    <3>3. batch'[i] \in 1..issued
      BY <3>1 DEF Outstanding
    <3>4. c \in 1..issued
      BY <1>1, <3>3 DEF Cmds, TypeOK, CloudType
    <3>5. c \in Outstanding
      BY <3>2, <3>4 DEF Outstanding
    <3> QED BY <3>1, <3>5
  <2>3. CASE batch' = Tail(batch) /\ batch # << >> /\ Begun(Cmd)
    <3> SUFFICES ASSUME NEW i \in DOMAIN batch', c < batch'[i]
                 PROVE  \E j \in DOMAIN batch' : batch'[j] = c
      OBVIOUS
    <3>1. PICK k \in DOMAIN batch : batch[k] = batch'[i]
      BY <1>1, <2>3, BatchFacts
    <3>2. PICK j \in DOMAIN batch : batch[j] = c
      BY <1>4, <3>1 DEF NotBegun
    <3>3. c # Cmd
      BY <1>4, <2>3
    <3> QED BY <1>1, <2>3, <3>2, <3>3, BatchFacts
  <2>4. CASE Reack
    BY <2>3, <2>4 DEF Reack, Begun
  <2>5. CASE postCommandSnapshot
    <3>1. batch # << >> /\ InProgress(Cmd) /\ batch' = Tail(batch)
      BY <1>1, <2>5 DEF postCommandSnapshot, WorkInv, Working, InProgress
    <3> QED BY <2>3, <3>1 DEF Begun
  <2> QED BY <1>1, <2>1, <2>2, <2>4, <2>5, DeviceQuiet, DeviceAnswers
          DEF Next, vars, Issue, Worker, Apply, AwaitTimeout, VerifyDelay,
              OnAnswer, OnReadback, MarkApplied, Ack, EndOfBatch, Device
<1> QED BY <1>5, <1>6, <1>7, <1>8 DEF NotBegun

LEMMA LastInit == Init => LastInv
BY DEF Init, LastInv, NothingStaged

LEMMA LastStep == Basic /\ LastInv /\ [Next]_vars => LastInv'
<1> SUFFICES ASSUME Basic, LastInv, [Next]_vars PROVE LastInv'
  OBVIOUS
<1>1. CASE UNCHANGED <<value, staged, last>>
  BY <1>1 DEF LastInv
<1>2. NothingStaged.val = 0
  BY DEF NothingStaged
<1>3. CASE Write
  <2>1. handed.cmd # 0
    BY <1>3, DeviceAnswers DEF Cmds
  <2>2. /\ last' = handed.cmd
        /\ \/ value' = handed.cmd /\ staged' = NothingStaged
           \/ staged' = [val |-> handed.cmd, boot |-> FALSE]
           \/ staged' = [val |-> handed.cmd, boot |-> TRUE]
    BY <1>3 DEF Write
  <2>3. (value' = handed.cmd /\ staged' = NothingStaged) \/ staged'.val = handed.cmd
    <3>1. \A b : [val |-> handed.cmd, boot |-> b].val = handed.cmd
      OBVIOUS
    <3>2. CASE staged' = [val |-> handed.cmd, boot |-> FALSE]
      BY <3>1, <3>2
    <3>3. CASE staged' = [val |-> handed.cmd, boot |-> TRUE]
      BY <3>1, <3>3
    <3> QED BY <2>2, <3>2, <3>3
  <2> QED BY <1>2, <2>1, <2>2, <2>3 DEF LastInv
<1>4. CASE Settle \/ Reboot
  <2>1. /\ staged' = NothingStaged /\ last' = last
        /\ value' = IF staged.val # 0 THEN staged.val ELSE value
    BY <1>4 DEF Settle, Reboot
  <2> QED BY <1>2, <2>1 DEF LastInv
<1> QED BY <1>1, <1>3, <1>4 DEF Next, vars, device, Issue, Cancel, Crash, Exit,
   Boot, Worker, Poll, Reack, Apply, AwaitTimeout, VerifyDelay, OnAnswer,
   OnReadback, MarkApplied, Ack, postCommandSnapshot, EndOfBatch, Device, Inform,
   nextTask, NothingQueued, Read, Refuse, Abandon, GiveUp, Late

-----------------------------------------------------------------------------
(* Writes in order.                                                        *)

LEMMA OrderInit == Init => OrderInv
BY EmptySeq DEF Init, OrderInv, NoTask

LEMMA DropsGrow == ASSUME Basic, [Next]_vars PROVE drops' \in {drops, drops + 1}
<1>1. CASE Write \/ Reboot \/ Read \/ Refuse
  BY <1>1 DEF Write, Reboot, Read, Refuse, Answer, Trouble
<1> QED BY <1>1 DEF Next, vars, Issue, Cancel, Crash, Exit, Trouble,
   Boot, Worker, Poll, Reack, Apply, AwaitTimeout, VerifyDelay, OnAnswer,
   OnReadback, MarkApplied, Ack, postCommandSnapshot, EndOfBatch, Device, Inform,
   nextTask, NothingQueued, Settle, Abandon, GiveUp, Late

\* a task under way is of a command that was begun, and so is the last write
LEMMA AliveBegun ==
  ASSUME Basic, CleanInv, Clean, NEW c \in Cmds, ~Begun(c)
  PROVE  /\ \A t \in Tasks : Alive(t) => t.cmd < c
         /\ last < c
<1>1. NotBegun(c)
  BY DEF CleanInv
<1>2. ASSUME NEW t \in Tasks, Alive(t) PROVE t.cmd < c
  <2>1. t.cmd \in Cmds
    BY DEF Tasks
  <2>2. Begun(t.cmd)
    BY <1>2, <2>1 DEF CleanInv, NotBegun
  <2> QED BY <1>1, <2>1, <2>2 DEF NotBegun
<1>3. last < c
  <2>1. last \in 0..MaxCmd
    BY DEF Basic, TypeOK, DeviceType
  <2>2. CASE last = 0
    BY <2>2 DEF Cmds
  <2>3. CASE last # 0
    <3>1. last \in Cmds
      BY <2>1, <2>3 DEF Cmds
    <3>2. Begun(last)
      BY <3>1 DEF CleanInv, NotBegun
    <3> QED BY <1>1, <3>1, <3>2 DEF NotBegun
  <2> QED BY <2>2, <2>3
<1> QED BY <1>2, <1>3

LEMMA OrderStep ==
  Basic /\ RecordInv /\ CleanInv /\ OrderInv /\ [Next]_vars => OrderInv'
<1> SUFFICES ASSUME Basic, RecordInv, CleanInv, OrderInv, [Next]_vars, Clean',
                    drops' = 0
             PROVE  OrderInv'
  BY DEF OrderInv
<1> USE DEF cloud, disk, session, worker, device, net
<1>1. /\ TypeOK /\ WorkInv /\ HandedInv /\ Clean
      /\ ~Cancel /\ ~Crash /\ ~Exit /\ ~\E i \in DOMAIN late : Late(i)
      /\ taskQueue \in Seq(Tasks) /\ last \in Nat
  BY CleanSteps DEF Basic, TypeOK, SessionType, DeviceType
<1>2. drops = 0 /\ ~Trouble(drops)
  <2>1. drops \in Nat
    BY <1>1 DEF TypeOK, BoundsType
  <2> QED BY <2>1, DropsGrow DEF Trouble
<1>3. /\ inflight = handed
      /\ handed.type = "spv" => last < handed.cmd
      /\ \A i \in DOMAIN taskQueue : taskQueue[i].type = "spv" =>
           /\ last < taskQueue[i].cmd
           /\ handed.type = "spv" => handed.cmd < taskQueue[i].cmd
           /\ \A j \in DOMAIN taskQueue :
                (taskQueue[j].type = "spv" /\ i < j)
                   => taskQueue[i].cmd < taskQueue[j].cmd
  BY <1>1, <1>2 DEF OrderInv
<1>4. CASE UNCHANGED <<taskQueue, inflight, handed, last>>
  BY <1>3, <1>4 DEF OrderInv
<1>5. NoTask.type # "spv"
  BY DEF NoTask
\* a task is queued behind the others
<1>6. ASSUME NEW u \in Tasks, UNCHANGED <<inflight, handed, last>>,
             taskQueue' = Append(taskQueue, u), u.type = "spv" => ~Begun(u.cmd)
      PROVE  OrderInv'
  <2> DEFINE n == Len(taskQueue) + 1
  <2>1. /\ DOMAIN taskQueue = 1..Len(taskQueue) /\ Len(taskQueue) \in Nat
        /\ DOMAIN taskQueue' = 1..n
        /\ \A i \in DOMAIN taskQueue : taskQueue'[i] = taskQueue[i]
        /\ taskQueue'[n] = u
    BY <1>1, <1>6, AppendFacts
  <2>2. u.cmd \in Cmds
    BY DEF Tasks
  <2>3. u.type = "spv" => /\ \A t \in Tasks : Alive(t) => t.cmd < u.cmd
                          /\ last < u.cmd
    BY <1>1, <1>6, <2>2, AliveBegun
  <2>4. \A i \in DOMAIN taskQueue : taskQueue[i] \in Tasks /\ Alive(taskQueue[i])
    BY <1>1, <2>1, ElementOfSeq DEF Alive, Queued
  <2>5. handed.type = "spv" => handed \in Tasks /\ Alive(handed)
    BY <1>1, <1>5 DEF TypeOK, DeviceType, Alive
  <2>6. \A i \in DOMAIN taskQueue' : i = n \/ (i \in DOMAIN taskQueue /\ taskQueue'[i] = taskQueue[i])
    BY <2>1
  <2> HIDE DEF n
  <2>7. ASSUME NEW i \in DOMAIN taskQueue', taskQueue'[i].type = "spv"
        PROVE  /\ last' < taskQueue'[i].cmd
               /\ handed'.type = "spv" => handed'.cmd < taskQueue'[i].cmd
    BY <1>3, <1>6, <2>1, <2>3, <2>5, <2>6, <2>7
  <2>8. ASSUME NEW i \in DOMAIN taskQueue', NEW j \in DOMAIN taskQueue', i < j,
               taskQueue'[i].type = "spv", taskQueue'[j].type = "spv"
        PROVE  taskQueue'[i].cmd < taskQueue'[j].cmd
    <3>1. i \in DOMAIN taskQueue /\ taskQueue'[i] = taskQueue[i]
      BY <2>1, <2>8 DEF n
    <3> QED BY <1>3, <2>1, <2>3, <2>4, <2>6, <2>8, <3>1
  <2> QED BY <1>3, <1>6, <2>7, <2>8 DEF OrderInv
<1>7. CASE Apply
  <2>1. UNCHANGED <<inflight, handed, last>> /\ batch # << >>
    BY <1>7 DEF Apply
  <2>2. CASE UNCHANGED taskQueue
    BY <1>4, <2>1, <2>2
  <2>3. CASE taskQueue' = Append(taskQueue, MainTask(Cmd)) /\ type[Cmd] # "other"
    <3>1. Cmd \in Cmds /\ MainTask(Cmd) \in Tasks /\ MainTask(Cmd).cmd = Cmd
      BY <1>1, <2>1, <2>3, CmdType, MainTaskType
    <3>2. ~Begun(Cmd)
      BY <1>7, <3>1, BegunStep
    <3> QED BY <1>6, <2>1, <2>3, <3>1, <3>2
  <2> QED BY <1>7, <2>2, <2>3 DEF Apply, enqueue
<1>8. CASE VerifyDelay
  <2>1. UNCHANGED <<inflight, handed, last>> /\ batch # << >>
    BY <1>1, <1>8 DEF VerifyDelay, WorkInv, Working
  <2>2. CASE UNCHANGED taskQueue
    BY <1>4, <2>1, <2>2
  <2>3. CASE taskQueue' = Append(taskQueue, ReadBack(Cmd))
    <3>1. ReadBack(Cmd) \in Tasks /\ ReadBack(Cmd).type # "spv"
      BY <1>1, <2>1, CmdType, ReadBackType DEF ReadBack
    <3> QED BY <1>6, <2>1, <2>3, <3>1
  <2> QED BY <1>8, <2>2, <2>3 DEF VerifyDelay, enqueue
<1>9. CASE Inform
  <2>1. inflight = NoTask
    BY <1>1, <1>3, <1>9 DEF Inform, HandedInv
  <2> QED BY <1>4, <1>9, <2>1 DEF Inform, HandleInform, Retried
<1>10. CASE nextTask
  <2>1. /\ taskQueue # << >> /\ taskQueue' = Tail(taskQueue) /\ UNCHANGED last
        /\ handed' = Head(taskQueue) /\ inflight' = Head(taskQueue)
    BY <1>10 DEF nextTask
  <2>2. /\ Head(taskQueue) = taskQueue[1]
        /\ DOMAIN taskQueue = 1..Len(taskQueue) /\ Len(taskQueue) \in Nat \ {0}
        /\ DOMAIN taskQueue' = 1..(Len(taskQueue) - 1)
        /\ \A i \in 1..(Len(taskQueue) - 1) : taskQueue'[i] = taskQueue[i + 1]
    BY <1>1, <2>1, TailFacts
  <2>3. \A i \in DOMAIN taskQueue' :
          i + 1 \in DOMAIN taskQueue /\ 1 < i + 1 /\ taskQueue'[i] = taskQueue[i + 1]
    BY <2>2
  <2>4. 1 \in DOMAIN taskQueue
    BY <2>2
  <2>5. \A i, j \in DOMAIN taskQueue' : i < j => i + 1 < j + 1
    BY <2>2
  <2> QED BY <1>3, <2>1, <2>2, <2>3, <2>4, <2>5 DEF OrderInv
<1>11. CASE Write \/ Reboot \/ Read \/ Refuse
  <2>1. UNCHANGED taskQueue /\ handed # NoTask
    BY <1>11, DeviceAnswers
  <2>2. handed' = NoTask /\ inflight' = NoTask
    BY <1>2, <1>11 DEF Write, Reboot, Read, Refuse, Answer
  <2>3. UNCHANGED last \/ (handed.type = "spv" /\ last' = handed.cmd)
    BY LastMoves
  <2> QED BY <1>3, <1>5, <2>1, <2>2, <2>3 DEF OrderInv
<1> QED BY <1>1, <1>2, <1>4, <1>7, <1>8, <1>9, <1>10, <1>11
        DEF Next, vars, Issue, Worker, Poll, Reack, AwaitTimeout, OnAnswer,
            OnReadback, MarkApplied, Ack, postCommandSnapshot, EndOfBatch, Device,
            NothingQueued, Settle, Abandon, GiveUp

\* Writes reach the device in the order they were issued, also when they time
\* out and are executed late, for every number of commands.
THEOREM WritesStayInOrder == Spec => WritesInOrder
<1>1. Basic /\ OrderInv /\ [Next]_vars
        => [(drops = 0 /\ Interruptions = 0 /\ last' # last) => last' > last]_vars
  <2> SUFFICES ASSUME Basic, OrderInv, [Next]_vars, drops = 0, Interruptions = 0,
                      last' # last
               PROVE  last' > last
    OBVIOUS
  <2>1. Clean
    BY DEF Clean, Interruptions, Basic, QuietInv, TypeOK, BoundsType
  <2>2. Write /\ handed.type = "spv" /\ last' = handed.cmd
    BY LastMoves
  <2>3. handed.cmd \in Nat /\ last \in Nat
    BY <2>2, DeviceAnswers DEF Cmds, Basic, TypeOK, DeviceType
  <2> QED BY <2>1, <2>2, <2>3 DEF OrderInv
<1> QED BY <1>1, BasicHolds, RecordInit, RecordStep, CleanInit, CleanStep,
           OrderInit, OrderStep, PTL DEF Spec, WritesInOrder

-----------------------------------------------------------------------------
(* Verified writes.                                                        *)

LEMMA SpvType ==
  ASSUME NEW c \in Cmds
  PROVE  /\ Spv(c) \in Tasks /\ Spv(c) # NoTask /\ Spv(c).cmd = c
         /\ Spv(c).type = "spv" /\ ReadBack(c) # Spv(c)
         /\ ReadBack(c).cmd = c /\ ReadBack(c).type = "rb"
BY DEF Spv, Tasks, NoTask, ReadBack

\* a write comes to life with its command only
LEMMA SpvStep ==
  ASSUME Basic, [Next]_vars, NEW c \in Cmds, Alive(Spv(c))', ~Alive(Spv(c))
  PROVE  Apply /\ c = Cmd
<1>1. Spv(c) \in Tasks /\ Spv(c).cmd = c /\ Spv(c).type = "spv"
  BY SpvType
<1>2. CASE Apply /\ batch # << >> /\ type[Cmd] # "other" /\ Spv(c) = MainTask(Cmd)
  BY <1>1, <1>2, CmdType, MainTaskType DEF Basic
<1>3. CASE VerifyDelay /\ Spv(c) = ReadBack(Cmd)
  BY <1>1, <1>3 DEF ReadBack
<1>4. Alive(Spv(c))' <=> (Alive(Spv(c)))'
  OBVIOUS
<1> QED BY <1>1, <1>2, <1>3, AliveStep

\* a write that was verified stays so
LEMMA SettledStep ==
  ASSUME Basic, RecordInv, CleanInv, LastInv, [Next]_vars, Clean', NEW c \in Cmds,
         Settled(c)
  PROVE  Settled(c)'
<1>1. Begun(c) /\ Begun(c)' /\ ~(Apply /\ c = Cmd)
  BY BegunStep DEF Settled
<1>2. ~Alive(Spv(c))'
  BY <1>1, SpvStep DEF Settled
<1>3. ASSUME last' = c PROVE value' = c
  <2>1. CASE Write /\ handed.type = "spv" /\ last' = handed.cmd
    <3>1. handed \in Tasks
      BY <2>1, DeviceAnswers
    <3>2. handed = Spv(c)
      BY <1>3, <2>1, <3>1 DEF Spv, Tasks
    <3> QED BY <3>2 DEF Settled, Alive
  <2>2. CASE UNCHANGED last /\ ~Write
    <3>1. last = c /\ value = c /\ staged.val \in {0, c}
      BY <1>3, <2>2 DEF Settled, LastInv
    <3>2. value' \in {value, staged.val} /\ (value' = staged.val => value' # 0 \/ value' = value)
      BY <2>2 DEF Next, vars, device, Issue, Cancel, Crash, Exit, Boot, Worker,
         Poll, Reack, Apply, AwaitTimeout, VerifyDelay, OnAnswer, OnReadback,
         MarkApplied, Ack, postCommandSnapshot, EndOfBatch, Device, Inform,
         nextTask, NothingQueued, Reboot, Read, Refuse, Settle, Abandon, GiveUp,
         Late
    <3> QED BY <3>1, <3>2
  <2> QED BY <1>3, <2>1, <2>2, LastMoves DEF Write
<1> QED BY <1>1, <1>2, <1>3 DEF Settled

\* one copy of a write at most
LEMMA UniqueStep ==
  ASSUME Basic, RecordInv, CleanInv, [Next]_vars, Clean', NEW c \in Cmds,
         Unique(Spv(c))
  PROVE  Unique(Spv(c))'
<1> USE DEF cloud, disk, session, worker, device, net
<1> DEFINE t == Spv(c)
<1>1. /\ TypeOK /\ WorkInv /\ HandedInv /\ Clean
      /\ ~Cancel /\ ~Crash /\ ~Exit /\ ~\E i \in DOMAIN late : Late(i)
      /\ taskQueue \in Seq(Tasks) /\ results \in Seq(Results)
      /\ handed # NoTask => inflight = handed
  BY CleanSteps DEF Basic, TypeOK, SessionType, CleanInv
<1>2. t \in Tasks /\ t # NoTask /\ t.cmd = c /\ t.type = "spv" /\ t' = t
  BY SpvType DEF Spv
<1> HIDE DEF t
<1>3. SUFFICES Unique(t)'
  BY <1>2 DEF t
<1>4. Unique(t)
  BY DEF t
<1>5. CASE UNCHANGED <<taskQueue, inflight, results>>
  BY <1>2, <1>4, <1>5 DEF Unique, Queued, Answered
\* a task is queued: not t, or t that was nowhere else
<1>6. ASSUME NEW u \in Tasks, taskQueue' = Append(taskQueue, u),
             UNCHANGED results, inflight' \in {inflight, NoTask},
             u = t => ~Queued(t) /\ ~Answered(t) /\ inflight' # t
      PROVE  Unique(t)'
  <2>1. /\ DOMAIN taskQueue = 1..Len(taskQueue) /\ Len(taskQueue) \in Nat
        /\ DOMAIN taskQueue' = 1..(Len(taskQueue) + 1)
        /\ \A i \in DOMAIN taskQueue : taskQueue'[i] = taskQueue[i]
        /\ taskQueue'[Len(taskQueue) + 1] = u
    BY <1>1, <1>6, AppendFacts
  <2>2. Queued(t)' <=> Queued(t) \/ t = u
    BY <1>1, <1>2, <1>6, QueuedAppend
  <2>3. Answered(t)' <=> Answered(t)
    BY <1>2, <1>6 DEF Answered
  <2>4. ASSUME NEW i \in DOMAIN taskQueue', NEW j \in DOMAIN taskQueue',
               taskQueue'[i] = t, taskQueue'[j] = t
        PROVE  i = j
    <3>1. CASE u = t
      <4>1. \A k \in DOMAIN taskQueue : taskQueue'[k] # t
        BY <1>6, <2>1, <3>1 DEF Queued
      <4> QED BY <2>1, <2>4, <4>1
    <3>2. CASE u # t
      <4>1. i \in DOMAIN taskQueue /\ j \in DOMAIN taskQueue
            /\ taskQueue[i] = t /\ taskQueue[j] = t
        BY <2>1, <2>4, <3>2
      <4> QED BY <1>4, <4>1 DEF Unique
    <3> QED BY <3>1, <3>2
  <2>5. \A i, j \in DOMAIN results' : results'[i].task = t /\ results'[j].task = t => i = j
    BY <1>4, <1>6 DEF Unique
  <2>6. /\ ~(Queued(t)' /\ Answered(t)') /\ ~(Queued(t)' /\ inflight' = t)
        /\ ~(Answered(t)' /\ inflight' = t)
    BY <1>2, <1>4, <1>6, <2>2, <2>3 DEF Unique
  <2> QED BY <1>2, <2>4, <2>5, <2>6 DEF Unique
<1>7. CASE Apply
  <2>1. UNCHANGED <<inflight, results>> /\ batch # << >>
    BY <1>7 DEF Apply
  <2>2. CASE taskQueue' = Append(taskQueue, MainTask(Cmd)) /\ type[Cmd] # "other"
    <3>1. Cmd \in Cmds /\ MainTask(Cmd) \in Tasks /\ MainTask(Cmd).cmd = Cmd
      BY <1>1, <2>1, <2>2, CmdType, MainTaskType
    <3>2. NotBegun(Cmd)
      BY <1>1, <1>7, <3>1, BegunStep DEF CleanInv
    <3>3. MainTask(Cmd) = t => ~Alive(t)
      BY <1>2, <3>1, <3>2 DEF NotBegun
    <3> QED BY <1>6, <2>1, <2>2, <3>1, <3>3 DEF Alive
  <2> QED BY <1>5, <1>7, <2>1, <2>2 DEF Apply, enqueue
<1>8. CASE VerifyDelay
  <2>1. UNCHANGED <<inflight, results>> /\ batch # << >>
    BY <1>1, <1>8 DEF VerifyDelay, WorkInv, Working
  <2>2. CASE taskQueue' = Append(taskQueue, ReadBack(Cmd))
    <3>1. ReadBack(Cmd) \in Tasks /\ ReadBack(Cmd) # t
      BY <1>1, <1>2, <2>1, CmdType, ReadBackType DEF ReadBack
    <3> QED BY <1>6, <2>1, <2>2, <3>1
  <2> QED BY <1>5, <1>8, <2>1, <2>2 DEF VerifyDelay, enqueue
<1>9. CASE Inform
  <2>1. inflight' = NoTask /\ UNCHANGED results
    BY <1>9 DEF Inform, HandleInform
  <2>2. CASE taskQueue' = Append(taskQueue, inflight) /\ inflight # NoTask
    <3>1. inflight \in Tasks
      BY <1>1, <2>2 DEF TypeOK, SessionType
    <3>2. inflight = t => ~Queued(t) /\ ~Answered(t)
      BY <1>4 DEF Unique
    <3> QED BY <1>2, <1>6, <2>1, <2>2, <3>1, <3>2
  <2>3. CASE UNCHANGED taskQueue
    BY <1>2, <1>4, <2>1, <2>3 DEF Unique, Queued, Answered
  <2> QED BY <1>9, <2>2, <2>3 DEF Inform, HandleInform, Retried
<1>10. CASE nextTask
  <2>1. /\ taskQueue # << >> /\ taskQueue' = Tail(taskQueue) /\ UNCHANGED results
        /\ inflight' = Head(taskQueue)
    BY <1>10 DEF nextTask
  <2>2. /\ Head(taskQueue) = taskQueue[1] /\ 1 \in DOMAIN taskQueue
        /\ DOMAIN taskQueue = 1..Len(taskQueue) /\ Len(taskQueue) \in Nat \ {0}
        /\ DOMAIN taskQueue' = 1..(Len(taskQueue) - 1)
        /\ \A i \in 1..(Len(taskQueue) - 1) : taskQueue'[i] = taskQueue[i + 1]
    BY <1>1, <2>1, TailFacts
  <2>3. \A i \in DOMAIN taskQueue' :
          i + 1 \in DOMAIN taskQueue /\ i + 1 # 1 /\ taskQueue'[i] = taskQueue[i + 1]
    BY <2>2
  <2>4. \A i, j \in DOMAIN taskQueue' : taskQueue'[i] = t /\ taskQueue'[j] = t => i = j
    <3> SUFFICES ASSUME NEW i \in DOMAIN taskQueue', NEW j \in DOMAIN taskQueue',
                        taskQueue'[i] = t, taskQueue'[j] = t
                 PROVE  i = j
      OBVIOUS
    <3>1. i + 1 = j + 1
      BY <1>4, <2>3 DEF Unique
    <3> QED BY <2>2, <3>1
  <2>5. (Queued(t)' => Queued(t)) /\ (Answered(t)' <=> Answered(t))
    BY <1>2, <2>1, <2>3 DEF Queued, Answered
  <2>6. inflight' = t => Queued(t) /\ ~Queued(t)'
    <3> SUFFICES ASSUME taskQueue[1] = t PROVE Queued(t) /\ ~Queued(t)'
      BY <2>1, <2>2
    <3>1. Queued(t)
      BY <2>2 DEF Queued
    <3>2. \A i \in DOMAIN taskQueue' : taskQueue'[i] # t
      BY <1>4, <2>2, <2>3 DEF Unique
    <3> QED BY <1>2, <3>1, <3>2 DEF Queued
  <2> QED BY <1>2, <1>4, <2>1, <2>4, <2>5, <2>6 DEF Unique
<1>11. CASE Write \/ Reboot \/ Read \/ Refuse
  <2>1. UNCHANGED taskQueue /\ handed # NoTask /\ handed \in Tasks
    BY <1>11, DeviceAnswers
  <2>2. PICK err \in BOOLEAN, status \in 0..1 : Answer(err, status)
    BY <1>11, DeviceAnswers
  <2>3. \/ UNCHANGED <<results, inflight>>
        \/ UNCHANGED results /\ inflight' = NoTask
        \/ /\ inflight = handed /\ inflight' = NoTask
           /\ \E r \in Results : results' = Append(results, r) /\ r.task = handed
    BY <1>1, <2>1, <2>2, AnswerMoves
  <2>4. Queued(t)' <=> Queued(t)
    BY <1>2, <2>1 DEF Queued
  <2>5. CASE UNCHANGED results /\ inflight' = NoTask
    BY <1>2, <1>4, <2>1, <2>5 DEF Unique, Queued, Answered
  <2>6. ASSUME inflight = handed, inflight' = NoTask, NEW r \in Results,
               results' = Append(results, r), r.task = handed
        PROVE  Unique(t)'
    <3>1. /\ DOMAIN results = 1..Len(results) /\ Len(results) \in Nat
          /\ DOMAIN results' = 1..(Len(results) + 1)
          /\ \A i \in DOMAIN results : results'[i] = results[i]
          /\ results'[Len(results) + 1] = r
      BY <1>1, <2>6, AppendFacts
    <3>2. Answered(t)' <=> Answered(t) \/ t = handed
      BY <1>1, <1>2, <2>6, AnsweredAppend
    <3>3. ASSUME NEW i \in DOMAIN results', NEW j \in DOMAIN results',
                 results'[i].task = t, results'[j].task = t
          PROVE  i = j
      <4>1. CASE handed = t
        <5>1. \A k \in DOMAIN results : results'[k].task # t
          BY <1>4, <2>6, <3>1, <4>1 DEF Unique, Answered
        <5> QED BY <3>1, <3>3, <5>1
      <4>2. CASE handed # t
        <5>1. i \in DOMAIN results /\ j \in DOMAIN results
              /\ results[i].task = t /\ results[j].task = t
          BY <2>6, <3>1, <3>3, <4>2
        <5> QED BY <1>4, <5>1 DEF Unique
      <4> QED BY <4>1, <4>2
    <3>4. \A i, j \in DOMAIN taskQueue' : taskQueue'[i] = t /\ taskQueue'[j] = t => i = j
      BY <1>4, <2>1 DEF Unique
    <3>5. /\ ~(Queued(t)' /\ Answered(t)') /\ ~(Queued(t)' /\ inflight' = t)
          /\ ~(Answered(t)' /\ inflight' = t)
      BY <1>2, <1>4, <2>4, <2>6, <3>2 DEF Unique
    <3> QED BY <1>2, <3>3, <3>4, <3>5 DEF Unique
  <2> QED BY <1>5, <2>1, <2>3, <2>5, <2>6
<1>12. ASSUME NEW k \in DOMAIN results, OnAnswer(k) \/ OnReadback(k)
       PROVE  Unique(t)'
  <2>1. results' = RemoveAt(results, k) /\ UNCHANGED <<taskQueue, inflight>>
    BY <1>12 DEF OnAnswer, OnReadback, Take
  <2>2. \A j \in DOMAIN results' : \E m \in DOMAIN results : results'[j] = results[m]
    BY <1>1, <2>1, RemoveFrom
  <2>3. \A i, j \in DOMAIN results' : i # j =>
          \E m, n \in DOMAIN results : /\ m # n /\ results'[i] = results[m]
                                       /\ results'[j] = results[n]
    BY <1>1, <2>1, RemoveFrom
  <2>4. \A i, j \in DOMAIN results' : results'[i].task = t /\ results'[j].task = t => i = j
    BY <1>4, <2>3 DEF Unique
  <2>5. (Answered(t)' => Answered(t)) /\ (Queued(t)' <=> Queued(t))
    BY <1>2, <2>1, <2>2 DEF Answered, Queued
  <2>6. \A i, j \in DOMAIN taskQueue' : taskQueue'[i] = t /\ taskQueue'[j] = t => i = j
    BY <1>4, <2>1 DEF Unique
  <2> QED BY <1>2, <1>4, <2>1, <2>4, <2>5, <2>6 DEF Unique
<1> QED BY <1>1, <1>5, <1>7, <1>8, <1>9, <1>10, <1>11, <1>12
        DEF Next, vars, Issue, Worker, Poll, Reack, AwaitTimeout, MarkApplied, Ack,
            postCommandSnapshot, EndOfBatch, Device, NothingQueued, Settle,
            Abandon, GiveUp

LEMMA EffectInit == Init => EffectInv
<1> SUFFICES ASSUME Init PROVE EffectInv
  OBVIOUS
<1>1. \A t \in Tasks : ~Alive(t)
  BY NoTaskType, EmptySeq DEF Init, Alive, Queued, Answered
<1>2. DOMAIN taskQueue = {} /\ DOMAIN results = {}
  BY EmptySeq DEF Init
<1>3. \A c \in Cmds : Unique(Spv(c)) /\ ~Alive(ReadBack(c))
  BY <1>1, <1>2, SpvType, ReadBackType DEF Unique, Queued, Answered
<1>4. wpc = "idle" /\ snapshot = 0
  BY DEF Init
<1> QED BY <1>2, <1>3, <1>4 DEF EffectInv, VerifiedAck

LEMMA EffectStep ==
  Basic /\ RecordInv /\ CleanInv /\ LastInv /\ EffectInv /\ [Next]_vars
    => EffectInv'
<1> SUFFICES ASSUME Basic, RecordInv, CleanInv, LastInv, EffectInv, [Next]_vars, Clean'
             PROVE  EffectInv'
  BY DEF EffectInv
<1> USE DEF cloud, disk, session, worker, device, net
<1>1. /\ TypeOK /\ WorkInv /\ HandedInv /\ Clean
      /\ ~Cancel /\ ~Crash /\ ~Exit /\ ~\E i \in DOMAIN late : Late(i)
      /\ results \in Seq(Results) /\ type' = type
      /\ handed # NoTask => inflight = handed
  BY CleanSteps, TypeFixed DEF Basic, TypeOK, SessionType, CleanInv
<1>2. \A c \in Cmds : Settled(c) => Settled(c)'
  BY SettledStep
<1>3. ASSUME NEW c \in Cmds
      PROVE  Unique(Spv(c))' /\ (Alive(ReadBack(c))' => ~Alive(Spv(c))')
  <2>1. Unique(Spv(c))'
    BY <1>1, UniqueStep DEF EffectInv
  <2>2. ASSUME Alive(ReadBack(c))', Alive(Spv(c))' PROVE FALSE
    <3>1. /\ ReadBack(c) \in Tasks /\ ReadBack(c).cmd = c /\ ReadBack(c).type = "rb"
      BY SpvType, ReadBackType
    <3>2. Alive(ReadBack(c)) \/ (VerifyDelay /\ ReadBack(c) = ReadBack(Cmd))
      <4>1. ~(Apply /\ batch # << >> /\ type[Cmd] # "other" /\ ReadBack(c) = MainTask(Cmd))
        BY <1>1, <3>1, CmdType, MainTaskType
      <4> QED BY <2>2, <3>1, <4>1, AliveStep
    <3>3. CASE Alive(ReadBack(c))
      <4>1. ~Alive(Spv(c))
        BY <1>1, <3>3 DEF EffectInv
      <4>2. Apply /\ c = Cmd
        BY <2>2, <4>1, SpvStep
      <4>3. NotBegun(c)
        BY <1>1, <4>2, BegunStep DEF CleanInv
      <4> QED BY <3>1, <3>3, <4>3 DEF NotBegun
    <3>4. CASE VerifyDelay /\ ReadBack(c) = ReadBack(Cmd)
      <4>1. c = Cmd /\ wpc = "verify"
        BY <3>4 DEF VerifyDelay, ReadBack
      <4>2. ~Alive(Spv(c))
        BY <1>1, <4>1 DEF EffectInv
      <4>3. Apply
        BY <2>2, <4>2, SpvStep
      <4> QED BY <4>1, <4>3 DEF Apply
    <3> QED BY <3>2, <3>3, <3>4
  <2> QED BY <2>1, <2>2
<1>4. ASSUME wpc' \in {"verify", "readback"} PROVE ~Alive(Spv(Cmd))'
  <2>1. CASE UNCHANGED <<wpc, batch>> \/ VerifyDelay
    <3>1. Cmd' = Cmd /\ wpc \in {"verify", "readback"}
      BY <1>4, <2>1 DEF VerifyDelay, Cmd
    <3>2. Cmd \in Cmds /\ ~Alive(Spv(Cmd)) /\ ~Apply
      BY <1>1, <3>1, CmdType DEF WorkInv, Working, EffectInv, Apply
    <3>3. \A c \in Cmds : ~Alive(Spv(c)) => ~Alive(Spv(c))'
      BY <3>2, SpvStep
    <3>4. (Spv(Cmd))' = Spv(Cmd)
      BY <3>1 DEF Spv
    <3> QED BY <3>1, <3>2, <3>3, <3>4
  <2>2. ASSUME NEW i \in DOMAIN results, OnAnswer(i) \/ OnReadback(i)
        PROVE  ~Alive(Spv(Cmd))'
    <3>1. /\ Cmd \in Cmds /\ Cmd' = Cmd /\ results' = RemoveAt(results, i)
          /\ results[i].task = MainTask(Cmd) /\ type[Cmd] = "write"
      BY <1>1, <1>4, <2>2, WorkerAnswers
    <3>2. MainTask(Cmd) = Spv(Cmd)
      BY <3>1 DEF MainTask, Spv
    <3>3. UNCHANGED <<taskQueue, inflight, handed>>
      BY <2>2 DEF OnAnswer, OnReadback
    <3>4. Unique(Spv(Cmd)) /\ Answered(Spv(Cmd)) /\ Spv(Cmd) # NoTask
      BY <1>1, <3>1, <3>2, SpvType DEF EffectInv, Answered
    <3>5. ~Queued(Spv(Cmd)) /\ inflight # Spv(Cmd) /\ handed # Spv(Cmd)
      BY <1>1, <3>4 DEF Unique
    <3>6. \A j \in DOMAIN results' : results'[j].task # Spv(Cmd)
      <4>1. \A j \in DOMAIN results' : \E k \in DOMAIN results : k # i /\ results'[j] = results[k]
        BY <1>1, <3>1, RemoveFrom
      <4> QED BY <3>1, <3>2, <3>4, <4>1 DEF Unique
    <3>7. (Spv(Cmd))' = Spv(Cmd)
      BY <3>1 DEF Spv
    <3> QED BY <3>3, <3>5, <3>6, <3>7 DEF Alive, Queued, Answered
  <2> QED BY <1>1, <1>4, <2>1, <2>2, DeviceQuiet, DeviceAnswers
          DEF Next, vars, Issue, Worker, Poll, Reack, Apply, Verdict, AwaitTimeout,
              OnTimeout, MarkApplied, Ack, postCommandSnapshot, EndOfBatch, Device
<1>5. ASSUME NEW i \in DOMAIN results', results'[i].task.type = "rb",
             results'[i].val = results'[i].task.cmd
      PROVE  Settled(results[i].val)'
  <2>1. CASE \E k \in DOMAIN results : results'[i] = results[k]
    <3>1. PICK k \in DOMAIN results : results'[i] = results[k]
      BY <2>1
    <3>2. results[k] \in Results
      BY <1>1, ElementOfSeq, LenProperties
    <3>3. results[k].val \in Cmds
      BY <1>5, <3>1, <3>2 DEF Results, Tasks
    <3>4. Settled(results[k].val)
      BY <1>1, <1>5, <3>1 DEF EffectInv
    <3>5. \A c \in Cmds : c = results'[i].val => Settled(c)'
      BY <1>2, <3>1, <3>4
    <3> QED BY <3>1, <3>3, <3>5
  <2>2. CASE UNCHANGED results
    BY <2>1, <2>2
  <2>3. ASSUME NEW k \in DOMAIN results, OnAnswer(k) \/ OnReadback(k)
        PROVE  \E m \in DOMAIN results : results'[i] = results[m]
    <3>1. results' = RemoveAt(results, k)
      BY <2>3 DEF OnAnswer, OnReadback, Take
    <3> QED BY <1>1, <1>5, <3>1, RemoveFrom
  <2>4. CASE Write \/ Reboot \/ Read \/ Refuse
    <3>1. /\ handed \in Tasks /\ handed # NoTask /\ handed.cmd \in Cmds
      BY <2>4, DeviceAnswers
    <3>2. PICK err \in BOOLEAN, status \in 0..1 :
            /\ Answer(err, status)
            /\ \/ ~err /\ handed.type = "spv" /\ Write
               \/ ~err /\ handed.type = "reboot" /\ Reboot
               \/ ~err /\ handed.type \in {"rb", "gpv"} /\ Read
               \/ err /\ Refuse
      BY <2>4, DeviceAnswers
    <3>3. \/ UNCHANGED results
          \/ \E r \in Results :
               /\ results' = Append(results, r) /\ r.task = handed
               /\ r.val = IF IsRead(handed) /\ ~err THEN value ELSE 0
      BY <1>1, <3>1, <3>2, AnswerMoves
    <3>4. ASSUME NEW r \in Results, results' = Append(results, r), r.task = handed,
                 r.val = IF IsRead(handed) /\ ~err THEN value ELSE 0,
                 results'[i] = r
          PROVE  Settled(results[i].val)'
      <4>1. handed.type = "rb" /\ r.val = handed.cmd /\ r.val # 0
        BY <1>5, <3>1, <3>4 DEF Cmds
      <4>2. value = handed.cmd /\ Read
        BY <3>2, <3>4, <4>1
      <4>3. handed = ReadBack(handed.cmd)
        BY <3>1, <4>1 DEF ReadBack, Tasks
      <4>4. ~Alive(Spv(handed.cmd))
        BY <1>1, <3>1, <4>3 DEF EffectInv, Alive
      <4>5. Begun(handed.cmd)
        BY <1>1, <3>1 DEF CleanInv, NotBegun, Alive
      <4>6. Settled(handed.cmd)
        BY <4>2, <4>4, <4>5 DEF Settled
      <4>7. \A c \in Cmds : c = results'[i].val => Settled(c)'
        BY <1>2, <3>4, <4>1, <4>6
      <4> QED BY <3>1, <3>4, <4>1, <4>7
    <3>5. ASSUME NEW r \in Results, results' = Append(results, r)
          PROVE  results'[i] = r \/ \E k \in DOMAIN results : results'[i] = results[k]
      BY <1>1, <1>5, <3>5, AppendFacts
    <3> QED BY <2>1, <2>2, <3>3, <3>4, <3>5
  <2> QED BY <1>1, <2>1, <2>2, <2>3, <2>4, DeviceQuiet
          DEF Next, vars, Issue, Worker, Poll, Reack, Apply, AwaitTimeout,
              VerifyDelay, MarkApplied, Ack, postCommandSnapshot, EndOfBatch, Device
<1>6. ASSUME VerifiedAck' PROVE ack'.val = Cmd' /\ Settled(Cmd)'
  <2>1. CASE VerifiedAck /\ UNCHANGED <<ack, batch>>
    <3>1. Cmd' = Cmd /\ Cmd \in Cmds /\ ack.val = Cmd /\ Settled(Cmd)
      BY <1>1, <2>1, CmdType DEF Cmd, EffectInv, VerifiedAck, WorkInv, Working
    <3>2. \A c \in Cmds : c = Cmd' => Settled(c)'
      BY <1>2, <3>1
    <3> QED BY <2>1, <3>1, <3>2
  <2>2. ASSUME NEW i \in DOMAIN results, OnAnswer(i) \/ OnReadback(i)
        PROVE  ack'.val = Cmd' /\ Settled(Cmd)'
    <3>1. /\ Cmd \in Cmds /\ Cmd' = Cmd /\ wpc = "readback"
          /\ results[i].task = ReadBack(Cmd) /\ results[i].val = Cmd /\ ack'.val = Cmd
      BY <1>1, <1>6, <2>2, WorkerAnswers DEF VerifiedAck
    <3>2. Settled(Cmd)
      BY <1>1, <3>1 DEF EffectInv, ReadBack
    <3>3. \A c \in Cmds : c = Cmd' => Settled(c)'
      BY <1>2, <3>1, <3>2
    <3> QED BY <3>1, <3>3
  <2>3. CASE UNCHANGED <<wpc, batch, ack>> \/ MarkApplied \/ Ack
    BY <1>1, <1>6, <2>1, <2>3 DEF VerifiedAck, MarkApplied, Ack, Cmd
  <2> QED BY <1>1, <1>6, <2>2, <2>3, DeviceQuiet, DeviceAnswers
          DEF Next, vars, Issue, Worker, Poll, Reack, Apply, Verdict, AwaitTimeout,
              OnTimeout, VerifyDelay, postCommandSnapshot, EndOfBatch, Device,
              VerifiedAck
<1>7. ASSUME snapshot' # 0 PROVE Settled(snapshot)'
  <2>1. CASE UNCHANGED snapshot
    <3>1. snapshot \in Cmds /\ Settled(snapshot)
      BY <1>1, <1>7, <2>1 DEF EffectInv, TypeOK, CloudType, Cmds
    <3>2. \A c \in Cmds : c = snapshot' => Settled(c)'
      BY <1>2, <2>1, <3>1
    <3> QED BY <2>1, <3>1, <3>2
  <2>2. CASE postCommandSnapshot /\ ~UNCHANGED snapshot
    <3>1. /\ VerifiedAck /\ snapshot' = ack.val /\ batch # << >>
      BY <1>1, <2>2 DEF postCommandSnapshot, VerifiedAck, WorkInv, Working
    <3>2. Cmd \in Cmds /\ snapshot' = Cmd /\ Settled(Cmd)
      BY <1>1, <3>1, CmdType DEF EffectInv
    <3>3. \A c \in Cmds : c = snapshot' => Settled(c)'
      BY <1>2, <3>2
    <3> QED BY <3>2, <3>3
  <2> QED BY <1>1, <2>1, <2>2, DeviceQuiet, DeviceAnswers
          DEF Next, vars, Issue, Worker, Poll, Reack, Apply, AwaitTimeout,
              VerifyDelay, OnAnswer, OnReadback, MarkApplied, Ack, EndOfBatch, Device
<1>8. \A i \in DOMAIN results' :
        (results'[i].task.type = "rb" /\ results'[i].val = results'[i].task.cmd)
          => Settled(results[i].val)'
  BY <1>5
<1> QED BY <1>3, <1>4, <1>6, <1>7, <1>8 DEF EffectInv

\* The value a write was verified with is in effect until the device executes
\* another write, whatever is delayed, dropped or executed late, as long as
\* the agent is not stopped, no statement fails and no request of a session
\* that was given up is handled late.
THEOREM VerifiedStaysInEffect == Spec => []VerifiedIsInEffect
<1>1. Basic /\ EffectInv => VerifiedIsInEffect
  BY DEF Basic, TypeOK, BoundsType, EffectInv, Clean, Settled, Interruptions,
         VerifiedIsInEffect
<1> QED BY <1>1, BasicHolds, RecordInit, RecordStep, CleanInit, CleanStep,
           LastInit, LastStep, EffectInit, EffectStep, PTL DEF Spec
=============================================================================
