--------------------------- MODULE TelemetryProofs ---------------------------
(***************************************************************************)
(* Proofs about Telemetry, for every set of alarm tables, every number of  *)
(* rows read, every capacity of the queue and every number of events,      *)
(* failed statements and restarts.                                         *)
(***************************************************************************)
EXTENDS Telemetry, SequenceTheorems, TLAPS

USE TelemetryAssumption

-----------------------------------------------------------------------------
(* Facts about the paths that are read.                                    *)

LEMMA LeastType ==
  ASSUME NEW m \in Nat, NEW n \in Nat
  PROVE  Least(m, n) \in Nat /\ Least(m, n) <= m /\ Least(m, n) <= n
BY DEF Least

LEMMA TableType ==
  ASSUME NEW t \in Tables
  PROVE  /\ t \in Seq(Alarms) /\ Len(t) \in Nat
         /\ \A i \in 1..Len(t) : t[i] \in Alarms /\ t[i] # None
OBVIOUS

LEMMA AskedCounters ==
  /\ Asked[1] = <<"att", 0>> /\ Asked[2] = <<"succ", 0>> /\ Asked[3] = <<"count", 0>>
  /\ \A i \in 4..(2 * MaxAlarmRows + 3) :
       Asked[i] = <<IF (i - 2) % 2 = 0 THEN "type" ELSE "severity", (i - 2) \div 2>>
<1> DEFINE S == {"att", "succ", "count", "type", "severity"} \X Nat
           N == 2 * MaxAlarmRows + 1
<1>1. CounterPaths \in Seq(S) /\ Len(CounterPaths) = 2
      /\ CounterPaths[1] = <<"att", 0>> /\ CounterPaths[2] = <<"succ", 0>>
  <2>1. <<"att", 0>> \in S /\ <<"succ", 0>> \in S
    OBVIOUS
  <2> HIDE DEF S
  <2> QED BY <2>1 DEF CounterPaths
<1>2. N \in Nat /\ N > 2
  OBVIOUS
<1>3. \A i \in 1..N : i \div 2 \in Nat
  OBVIOUS
<1>4. alarmReadPaths \in [1..N -> S]
  <2>1. \A i \in 1..N : (IF i = 1 THEN <<"count", 0>>
                         ELSE <<IF i % 2 = 0 THEN "type" ELSE "severity", i \div 2>>) \in S
    BY <1>3
  <2> QED BY <2>1 DEF alarmReadPaths
<1> HIDE DEF S, N
<1>5. alarmReadPaths \in Seq(S) /\ Len(alarmReadPaths) = N
  BY <1>2, <1>4
<1>6. \A i \in 1..(2 + N) :
        Asked[i] = IF i <= 2 THEN CounterPaths[i] ELSE alarmReadPaths[i - 2]
  <2>1. \A i \in 1..(Len(CounterPaths) + Len(alarmReadPaths)) :
          (CounterPaths \o alarmReadPaths)[i] =
            IF i <= Len(CounterPaths) THEN CounterPaths[i]
            ELSE alarmReadPaths[i - Len(CounterPaths)]
    <3>1. CounterPaths \in Seq(S) /\ alarmReadPaths \in Seq(S)
      BY <1>1, <1>5, Zenon
    <3> QED BY <3>1, ConcatProperties, ZenonT(60)
  <2> QED BY <1>1, <1>5, <2>1, Zenon DEF Asked
<1>7. Asked[1] = <<"att", 0>> /\ Asked[2] = <<"succ", 0>>
  BY <1>1, <1>2, <1>6
<1>8. alarmReadPaths[1] = <<"count", 0>>
  BY <1>2 DEF alarmReadPaths, N
<1>9. Asked[3] = <<"count", 0>>
  BY <1>2, <1>6, <1>8
<1>10. ASSUME NEW i \in 4..(2 * MaxAlarmRows + 3)
       PROVE  Asked[i] = <<IF (i - 2) % 2 = 0 THEN "type" ELSE "severity", (i - 2) \div 2>>
  <2>1. i \in 1..(2 + N) /\ ~(i <= 2) /\ i - 2 \in 1..N /\ i - 2 # 1
    BY <1>2 DEF N
  <2>2. Asked[i] = alarmReadPaths[i - 2]
    BY <1>6, <2>1
  <2>3. \A k \in 1..N : k # 1 =>
          alarmReadPaths[k] = <<IF k % 2 = 0 THEN "type" ELSE "severity", k \div 2>>
    BY DEF alarmReadPaths, N
  <2> QED BY <2>1, <2>2, <2>3
<1> QED BY <1>7, <1>9, <1>10

LEMMA Halves ==
  ASSUME NEW i \in Nat, NEW m \in Nat, 4 <= i, i <= 3 + 2 * m
  PROVE  (i - 2) \div 2 \in 1..m
OBVIOUS

LEMMA RowPlaces ==
  ASSUME NEW r \in Nat, r # 0
  PROVE  /\ ((2 * r + 2) - 2) % 2 = 0 /\ ((2 * r + 2) - 2) \div 2 = r
         /\ ((2 * r + 3) - 2) % 2 # 0 /\ ((2 * r + 3) - 2) \div 2 = r
OBVIOUS

-----------------------------------------------------------------------------
(* What an answer holds.                                                   *)

Known(n) == Numbers \cup ({"type", "severity"} \X (1..Least(n, MaxAlarmRows)))

\* the value that a device read as r has for a path
ReadValue(r, p) ==
  CASE p[1] = "att" -> r.att
    [] p[1] = "succ" -> r.succ
    [] p[1] = "count" -> Len(r.table)
    [] OTHER -> r.table[p[2]]

LEMMA ReadValueFacts ==
  ASSUME NEW r
  PROVE  /\ ReadValue(r, <<"att", 0>>) = r.att /\ ReadValue(r, <<"succ", 0>>) = r.succ
         /\ ReadValue(r, <<"count", 0>>) = Len(r.table)
         /\ \A i : /\ ReadValue(r, <<"type", i>>) = r.table[i]
                   /\ ReadValue(r, <<"severity", i>>) = r.table[i]
BY DEF ReadValue

LEMMA PathFacts ==
  /\ <<"att", 0>> \in Numbers /\ <<"succ", 0>> \in Numbers /\ <<"count", 0>> \in Numbers
  /\ <<"att", 0>> # <<"succ", 0>> /\ <<"att", 0>> # <<"count", 0>>
  /\ \A p \in Numbers : p = <<"att", 0>> \/ p = <<"succ", 0>> \/ p = <<"count", 0>>
  /\ \A i : <<"type", i>> # <<"att", 0>> /\ <<"severity", i>> # <<"att", 0>>
  /\ \A i \in Rows : <<"type", i>> \in Columns /\ <<"severity", i>> \in Columns
BY DEF Numbers, Columns

LEMMA AnsweredFacts ==
  ASSUME NEW t \in Tables, NEW m, m = Least(Len(t), MaxAlarmRows)
  PROVE  /\ m \in Nat /\ m <= MaxAlarmRows /\ m <= Len(t) /\ 1..m \subseteq Rows
         /\ \A i \in 1..(3 + 2 * m) : i = 1 \/ i = 2 \/ i = 3 \/ i \in 4..(2 * MaxAlarmRows + 3)
         /\ \A i \in 1..(3 + 2 * m) : i # 1 => Asked[i] # <<"att", 0>>
         /\ \A i \in 4..(3 + 2 * m) :
              Asked[i] \in {"type", "severity"} \X (1..m)
         /\ \A p \in Known(Len(t)) : \E i \in 1..(3 + 2 * m) : Asked[i] = p
<1>1. m \in Nat /\ m <= MaxAlarmRows /\ m <= Len(t)
  BY TableType, LeastType
<1>2. 1..m \subseteq Rows
  BY <1>1 DEF Rows
<1>3. \A i \in 1..(3 + 2 * m) : i = 1 \/ i = 2 \/ i = 3 \/ i \in 4..(2 * MaxAlarmRows + 3)
  BY <1>1
<1>4. \A i \in 4..(3 + 2 * m) : Asked[i] \in {"type", "severity"} \X (1..m)
  <2> SUFFICES ASSUME NEW i \in 4..(3 + 2 * m)
               PROVE  Asked[i] \in {"type", "severity"} \X (1..m)
    OBVIOUS
  <2>1. (i - 2) \div 2 \in 1..m
    BY <1>1, Halves
  <2>2. i \in 4..(2 * MaxAlarmRows + 3)
    BY <1>1
  <2>3. Asked[i] = <<IF (i - 2) % 2 = 0 THEN "type" ELSE "severity", (i - 2) \div 2>>
    BY <2>2, AskedCounters, Zenon
  <2>4. PICK x \in 1..m : x = (i - 2) \div 2
    BY <2>1, Zenon
  <2>5. Asked[i] = <<"type", x>> \/ Asked[i] = <<"severity", x>>
    BY <2>3, <2>4, Zenon
  <2>6. <<"type", x>> \in {"type", "severity"} \X (1..m)
        /\ <<"severity", x>> \in {"type", "severity"} \X (1..m)
    OBVIOUS
  <2> QED BY <2>5, <2>6, Zenon
<1>5. \A i \in 1..(3 + 2 * m) : i # 1 => Asked[i] # <<"att", 0>>
  <2> SUFFICES ASSUME NEW i \in 1..(3 + 2 * m), i # 1 PROVE Asked[i] # <<"att", 0>>
    OBVIOUS
  <2>1. CASE i = 2 \/ i = 3
    BY <2>1, AskedCounters
  <2>2. CASE i \in 4..(3 + 2 * m)
    BY <1>4, <2>2
  <2> QED BY <1>1, <2>1, <2>2
<1>6. ASSUME NEW p \in Known(Len(t)) PROVE \E i \in 1..(3 + 2 * m) : Asked[i] = p
  <2>1. CASE p \in Numbers
    <3>1. 1 \in 1..(3 + 2 * m) /\ 2 \in 1..(3 + 2 * m) /\ 3 \in 1..(3 + 2 * m)
      BY <1>1
    <3> QED BY <2>1, <3>1, PathFacts, AskedCounters
  <2>2. CASE p \in {"type", "severity"} \X (1..m)
    <3>1. PICK r \in 1..m : p = <<"type", r>> \/ p = <<"severity", r>>
      BY <2>2
    <3>2. r \in Nat /\ r # 0
      BY <1>1
    <3>3. /\ 2 * r + 2 \in 1..(3 + 2 * m) /\ 2 * r + 3 \in 1..(3 + 2 * m)
          /\ 2 * r + 2 \in 4..(2 * MaxAlarmRows + 3) /\ 2 * r + 3 \in 4..(2 * MaxAlarmRows + 3)
      BY <1>1
    <3>4. /\ ((2 * r + 2) - 2) % 2 = 0 /\ ((2 * r + 2) - 2) \div 2 = r
          /\ ((2 * r + 3) - 2) % 2 # 0 /\ ((2 * r + 3) - 2) \div 2 = r
      BY <3>2, RowPlaces
    <3>5. Asked[2 * r + 2] = <<"type", r>>
      <4>1. Asked[2 * r + 2] = <<IF ((2 * r + 2) - 2) % 2 = 0 THEN "type" ELSE "severity",
                                 ((2 * r + 2) - 2) \div 2>>
        BY <3>3, AskedCounters, Zenon
      <4> QED BY <3>4, <4>1, Zenon
    <3>6. Asked[2 * r + 3] = <<"severity", r>>
      <4>1. Asked[2 * r + 3] = <<IF ((2 * r + 3) - 2) % 2 = 0 THEN "type" ELSE "severity",
                                 ((2 * r + 3) - 2) \div 2>>
        BY <3>3, AskedCounters, Zenon
      <4> QED BY <3>4, <4>1, Zenon
    <3> QED BY <3>1, <3>3, <3>5, <3>6
  <2> QED BY <2>1, <2>2 DEF Known
<1> QED BY <1>1, <1>2, <1>3, <1>4, <1>5, <1>6

LEMMA AnswerFacts ==
  ASSUME TypeOK, Answer
  PROVE  /\ caching' \in Seq(Params) /\ DOMAIN caching' = 1..Answered
         /\ 1 \in DOMAIN caching' /\ caching'[1].path = <<"att", 0>> /\ caching'[1].val = att
         /\ \A i \in DOMAIN caching' : caching'[i].path = <<"att", 0>> => i = 1
         /\ \A i \in DOMAIN caching' : caching'[i].path = <<"succ", 0>> => caching'[i].val = succ
         /\ \A i \in DOMAIN caching' :
              caching'[i].val = ReadValue(read', caching'[i].path)
         /\ \A p \in Known(Len(table)) : \E i \in DOMAIN caching' : caching'[i].path = p
<1> DEFINE m == Least(Len(table), MaxAlarmRows)
           E(i) == [path |-> Asked[i], val |-> ValueOf(Asked[i])]
<1>1. table \in Tables /\ att \in Nat /\ succ \in Nat /\ Len(table) \in Nat
      /\ read' = [table |-> table, att |-> att, succ |-> succ]
      /\ \A i \in 1..Len(table) : table[i] \in Alarms
  BY TableType DEF TypeOK, Answer
<1>2. caching' = [i \in 1..(3 + 2 * m) |-> E(i)] /\ Answered = 3 + 2 * m
  BY DEF Answer, Answered
<1>3. /\ m \in Nat /\ m <= MaxAlarmRows /\ m <= Len(table) /\ 1..m \subseteq Rows
      /\ \A i \in 1..(3 + 2 * m) : i # 1 => Asked[i] # <<"att", 0>>
      /\ \A i \in 4..(3 + 2 * m) : Asked[i] \in {"type", "severity"} \X (1..m)
      /\ \A p \in Known(Len(table)) : \E i \in 1..(3 + 2 * m) : Asked[i] = p
  BY <1>1, AnsweredFacts
<1>4. \A p \in {"type", "severity"} \X (1..m) :
        ValueOf(p) = table[p[2]] /\ p[2] \in 1..m /\ p \in Columns
  BY <1>3 DEF ValueOf, Columns
<1>5. /\ ValueOf(<<"att", 0>>) = att /\ ValueOf(<<"succ", 0>>) = succ
      /\ ValueOf(<<"count", 0>>) = Len(table)
  BY DEF ValueOf
<1> HIDE DEF m
<1>6. /\ DOMAIN caching' = 1..(3 + 2 * m)
      /\ \A i \in 1..(3 + 2 * m) :
           caching'[i].path = Asked[i] /\ caching'[i].val = ValueOf(Asked[i])
  BY <1>2
<1>7. ASSUME NEW i \in 1..(3 + 2 * m) PROVE E(i) \in Params
  <2>1. CASE i = 1 \/ i = 2 \/ i = 3
    BY <1>1, <1>5, <2>1, AskedCounters, PathFacts DEF Params
  <2>2. CASE i \in 4..(3 + 2 * m)
    <3>1. Asked[i] \in {"type", "severity"} \X (1..m)
      BY <1>3, <2>2
    <3>2. Asked[i] \in Columns /\ ValueOf(Asked[i]) = table[Asked[i][2]] /\ Asked[i][2] \in 1..m
      BY <1>4, <3>1
    <3>3. ValueOf(Asked[i]) \in Alarms
      BY <1>1, <1>3, <3>2
    <3> QED BY <3>2, <3>3 DEF Params
  <2> QED BY <1>3, <2>1, <2>2
<1>8. caching' \in Seq(Params)
  <2>1. 3 + 2 * m \in Nat
    BY <1>3
  <2>2. caching' \in [1..(3 + 2 * m) -> Params]
    BY <1>2, <1>7
  <2> QED BY <2>1, <2>2
<1>9. 1 \in DOMAIN caching' /\ caching'[1].path = <<"att", 0>> /\ caching'[1].val = att
  <2>1. 1 \in 1..(3 + 2 * m)
    BY <1>3
  <2>2. Asked[1] = <<"att", 0>>
    BY AskedCounters
  <2> QED BY <1>5, <1>6, <2>1, <2>2
<1>10. \A i \in DOMAIN caching' : caching'[i].path = <<"att", 0>> => i = 1
  BY <1>3, <1>6
<1>11. \A i \in DOMAIN caching' : caching'[i].path = <<"succ", 0>> => caching'[i].val = succ
  BY <1>5, <1>6
<1>12. \A p : ReadValue(read', p) = ValueOf(p)
  BY <1>1 DEF ReadValue, ValueOf
<1>13. \A i \in DOMAIN caching' : caching'[i].val = ReadValue(read', caching'[i].path)
  BY <1>6, <1>12
<1>14. \A p \in Known(Len(table)) : \E i \in DOMAIN caching' : caching'[i].path = p
  BY <1>3, <1>6
<1> QED BY <1>2, <1>6, <1>8, <1>9, <1>10, <1>11, <1>13, <1>14

-----------------------------------------------------------------------------
(* Type correctness.                                                       *)

LEMMA TelemetryInit == Init => TypeOK
<1> SUFFICES ASSUME Init PROVE TypeOK
  OBVIOUS
<1>1. caching \in Seq(Params) /\ table \in Tables
  BY DEF Init
<1>2. /\ DOMAIN cache = Paths
      /\ \A p \in Numbers : cache[p] \in Nat \cup {None}
      /\ \A p \in Columns : cache[p] \in Alarms \cup {None}
  BY DEF Init, Paths
<1>3. DOMAIN sample.alarms \subseteq Rows
  <2>1. sample.alarms = << >> /\ DOMAIN << >> = {}
    BY DEF Init, NoSample
  <2> QED BY <2>1
<1>4. partial \in BOOLEAN /\ reset \in BOOLEAN
  BY Zenon DEF Init
<1>5. att \in Nat /\ succ \in Nat /\ queued \in 0..QueueCap /\ events \in 0..MaxEvents
      /\ faults \in 0..MaxTroubles /\ stops \in 0..MaxTroubles
  BY DEF Init
<1>6. read \in {None} \cup [table : Tables, att : Nat, succ : Nat]
  BY DEF Init
<1> QED BY <1>1, <1>2, <1>3, <1>4, <1>5, <1>6, Zenon DEF TypeOK

\* the head of the answer is cached under its path
LEMMA HeadFacts ==
  ASSUME TypeOK, caching # << >>
  PROVE  /\ caching[1] = Head(caching) /\ Head(caching) \in Params
         /\ 1 \in DOMAIN caching
         /\ Tail(caching) \in Seq(Params)
         /\ \A i \in DOMAIN Tail(caching) :
              i + 1 \in DOMAIN caching /\ i + 1 # 1 /\ Tail(caching)[i] = caching[i + 1]
         /\ \A i \in DOMAIN caching :
              i # 1 => i - 1 \in DOMAIN Tail(caching) /\ Tail(caching)[i - 1] = caching[i]
<1>1. caching \in Seq(Params)
  BY DEF TypeOK
<1> QED BY <1>1

LEMMA ParamFacts ==
  ASSUME NEW e \in Params
  PROVE  /\ e.path \in Paths /\ e.val # None
         /\ e.path \in Numbers => e.val \in Nat
         /\ e.path \in Columns => e.val \in Alarms
<1>1. Numbers \cap Columns = {}
  BY DEF Numbers, Columns
<1>2. CASE e \in [path : Numbers, val : Nat]
  BY <1>1, <1>2 DEF Paths
<1>3. CASE e \in [path : Columns, val : Alarms]
  BY <1>1, <1>3 DEF Paths
<1> QED BY <1>2, <1>3 DEF Params

LEMMA CacheFacts ==
  ASSUME TypeOK, caching # << >>,
         cache' = [cache EXCEPT ![Head(caching).path] = Head(caching).val]
  PROVE  /\ DOMAIN cache' = Paths /\ Head(caching).path \in Paths
         /\ cache'[Head(caching).path] = Head(caching).val
         /\ \A p \in Paths : p # Head(caching).path => cache'[p] = cache[p]
<1>1. Head(caching).path \in Paths /\ DOMAIN cache = Paths
  BY HeadFacts, ParamFacts DEF TypeOK
<1> QED BY <1>1

LEMMA RowLimitFacts ==
  ASSUME TypeOK
  PROVE  1..RowLimit \subseteq Rows
<1>1. <<"count", 0>> \in Numbers
  BY PathFacts
<1>2. cache[<<"count", 0>>] \in Nat \cup {None}
  BY <1>1 DEF TypeOK
<1>3. RowLimit \in Nat /\ RowLimit <= MaxAlarmRows
  <2>1. CASE cache[<<"count", 0>>] = None
    <3>1. RowLimit = MaxAlarmRows
      BY <2>1 DEF RowLimit, InParams
    <3> QED BY <3>1
  <2>2. CASE cache[<<"count", 0>>] # None
    <3>1. PICK c \in Nat : c = cache[<<"count", 0>>]
      BY <1>2, <2>2
    <3>2. RowLimit = Least(c, MaxAlarmRows)
      BY <2>2, <3>1 DEF RowLimit, InParams, Least
    <3> QED BY <3>2, LeastType
  <2> QED BY <2>1, <2>2
<1> QED BY <1>3 DEF Rows

LEMMA TelemetryStep == TypeOK /\ [Next]_vars => TypeOK'
<1> SUFFICES ASSUME TypeOK, [Next]_vars PROVE TypeOK'
  OBVIOUS
<1> DEFINE Numeric ==
      /\ att \in Nat /\ succ \in Nat /\ queued \in 0..QueueCap /\ events \in 0..MaxEvents
      /\ faults \in 0..MaxTroubles /\ stops \in 0..MaxTroubles
    Stored ==
      /\ DOMAIN cache = Paths
      /\ \A p \in Numbers : cache[p] \in Nat \cup {None}
      /\ \A p \in Columns : cache[p] \in Alarms \cup {None}
    Rest ==
      /\ table \in Tables /\ caching \in Seq(Params) /\ DOMAIN sample.alarms \subseteq Rows
      /\ read \in {None} \cup [table : Tables, att : Nat, succ : Nat]
    Flags == partial \in BOOLEAN /\ reset \in BOOLEAN
<1>1. Numeric /\ Stored /\ Rest /\ Flags
  BY DEF TypeOK
<1>2. Numeric'
  <2>1. queued' \in {queued, queued - 1, 0, Least(queued + 1, QueueCap)}
        /\ (queued' = queued - 1 => queued > 0 \/ queued' = Least(queued + 1, QueueCap))
    BY <1>1 DEF Next, Change, Call, Reset, Answer, CacheParam, CollectTier, Refresh, Restart, vars
  <2>2. queued' \in 0..QueueCap
    BY <1>1, <2>1 DEF Least
  <2>3. att' \in Nat /\ succ' \in Nat /\ events' \in 0..MaxEvents
    <3>1. CASE Event /\ (\/ UNCHANGED <<att, succ>>
                         \/ att' = att + 1 /\ succ' \in {succ, succ + 1}
                         \/ att' = 0 /\ succ' = 0)
      BY <1>1, <3>1 DEF Event
    <3>2. CASE UNCHANGED <<att, succ, events>>
      BY <1>1, <3>2
    <3> QED BY <3>1, <3>2, Zenon DEF Next, Change, Call, Reset, Answer, CacheParam, CollectTier,
                                     Restart, vars, device
  <2>4. faults' \in 0..MaxTroubles /\ stops' \in 0..MaxTroubles
    BY <1>1 DEF Next, Change, Call, Reset, Answer, CacheParam, CollectTier, Restart, vars
  <2> QED BY <2>2, <2>3, <2>4
<1>3. Stored'
  <2>1. CASE UNCHANGED cache
    BY <1>1, <2>1
  <2>2. CASE caching # << >> /\ cache' = [cache EXCEPT ![Head(caching).path] = Head(caching).val]
    <3>1. Head(caching) \in Params
      BY <2>2, HeadFacts
    <3>2. /\ DOMAIN cache' = Paths
          /\ cache'[Head(caching).path] = Head(caching).val
          /\ \A p \in Paths : p # Head(caching).path => cache'[p] = cache[p]
      BY <2>2, CacheFacts
    <3>3. /\ Head(caching).path \in Numbers => Head(caching).val \in Nat
          /\ Head(caching).path \in Columns => Head(caching).val \in Alarms
      BY <3>1, ParamFacts
    <3> QED BY <1>1, <3>2, <3>3 DEF Paths
  <2> QED BY <2>1, <2>2 DEF Next, Change, Call, Reset, Answer, CacheParam, CollectTier,
                            Restart, vars
<1>4. Rest'
  <2>1. table' \in Tables
    BY <1>1 DEF Next, Change, Call, Reset, Answer, CacheParam, CollectTier, Restart, vars, device
  <2>2. caching' \in Seq(Params)
    <3>1. CASE Answer
      BY <3>1, AnswerFacts
    <3>2. CASE CacheParam
      BY <3>2, HeadFacts DEF CacheParam
    <3>3. CASE Restart
      BY <3>3 DEF Restart
    <3> QED BY <1>1, <3>1, <3>2, <3>3 DEF Next, Change, Call, Reset, CollectTier, vars
  <2>3. DOMAIN sample'.alarms \subseteq Rows
    <3>1. CASE CollectTier
      <4>1. sample'.alarms = buildAlarms
        BY <3>1 DEF CollectTier
      <4>2. DOMAIN buildAlarms \subseteq 1..RowLimit
        BY DEF buildAlarms
      <4> QED BY <4>1, <4>2, RowLimitFacts
    <3>2. CASE Restart
      <4>1. sample'.alarms = << >> /\ DOMAIN << >> = {}
        BY <3>2 DEF Restart, NoSample
      <4> QED BY <4>1
    <3> QED BY <1>1, <3>1, <3>2 DEF Next, Change, Call, Reset, Answer, CacheParam, vars
  <2>4. read' \in {None} \cup [table : Tables, att : Nat, succ : Nat]
    <3>1. CASE Answer
      BY <1>1, <3>1 DEF Answer
    <3> QED BY <1>1, <3>1 DEF Next, Change, Call, Reset, CacheParam, CollectTier, Restart, vars
  <2> QED BY <2>1, <2>2, <2>3, <2>4
<1>5. Flags'
  <2>1. partial' \in BOOLEAN
    BY <1>1, Zenon DEF Next, Change, Call, Reset, Answer, CacheParam, CollectTier, Restart, vars
  <2>2. reset' \in BOOLEAN
    BY <1>1, Zenon DEF Next, Change, Call, Reset, Answer, CacheParam, CollectTier, Restart,
                       vars, device
  <2> QED BY <2>1, <2>2
<1> QED BY <1>2, <1>3, <1>4, <1>5 DEF TypeOK

\* Every variable keeps its type, whatever tables the device has: the queue of
\* reads stays within its capacity and a sample reports rows that are read.
THEOREM TelemetryTypeCorrect == Spec => []TypeOK
BY TelemetryInit, TelemetryStep, PTL DEF Spec

-----------------------------------------------------------------------------
(***************************************************************************)
(* A sample shows one read.  Between two answers the cache holds the last  *)
(* one; while it is being cached, what is not yet there is still to come.  *)
(***************************************************************************)

ReadKept ==
  (read # None /\ partial = FALSE) =>
    /\ \A i \in DOMAIN caching : caching[i].val = ReadValue(read, caching[i].path)
    /\ \A p \in Known(Len(read.table)) :
         \/ \E i \in DOMAIN caching : caching[i].path = p
         \/ cache[p] = ReadValue(read, p)

LEMMA ReadInit == Init => ReadKept
BY DEF Init, ReadKept

LEMMA ReadStep == TypeOK /\ ReadKept /\ [Next]_vars => ReadKept'
<1> SUFFICES ASSUME TypeOK, ReadKept, [Next]_vars PROVE ReadKept'
  OBVIOUS
<1>1. CASE UNCHANGED <<read, partial, caching, cache>>
  BY <1>1 DEF ReadKept
<1>2. CASE Answer
  <2>1. read'.table = table
    BY <1>2 DEF Answer
  <2> QED BY <1>2, <2>1, AnswerFacts DEF ReadKept
<1>3. CASE CacheParam
  <2> SUFFICES ASSUME read # None, partial' = FALSE
               PROVE  /\ \A i \in DOMAIN caching' : caching'[i].val = ReadValue(read, caching'[i].path)
                      /\ \A p \in Known(Len(read.table)) :
                           \/ \E i \in DOMAIN caching' : caching'[i].path = p
                           \/ cache'[p] = ReadValue(read, p)
    BY <1>3 DEF ReadKept, CacheParam
  <2>1. /\ caching # << >> /\ caching' = Tail(caching) /\ partial = FALSE
        /\ cache' = [cache EXCEPT ![Head(caching).path] = Head(caching).val]
    BY <1>3 DEF CacheParam
  <2>2. /\ \A i \in DOMAIN caching : caching[i].val = ReadValue(read, caching[i].path)
        /\ \A p \in Known(Len(read.table)) :
             \/ \E i \in DOMAIN caching : caching[i].path = p
             \/ cache[p] = ReadValue(read, p)
    BY <2>1 DEF ReadKept
  <2>3. \A i \in DOMAIN caching' : caching'[i].val = ReadValue(read, caching'[i].path)
    BY <2>1, <2>2, HeadFacts
  <2>4. ASSUME NEW p \in Known(Len(read.table))
        PROVE  \/ \E i \in DOMAIN caching' : caching'[i].path = p
               \/ cache'[p] = ReadValue(read, p)
    <3>1. p \in Paths
      <4>1. Len(read.table) \in Nat
        BY TableType DEF TypeOK
      <4>2. Least(Len(read.table), MaxAlarmRows) \in Nat
            /\ Least(Len(read.table), MaxAlarmRows) <= MaxAlarmRows
        BY <4>1, LeastType
      <4>3. 1..Least(Len(read.table), MaxAlarmRows) \subseteq Rows
        BY <4>2 DEF Rows
      <4> QED BY <4>3 DEF Known, Paths, Columns
    <3>2. CASE p = Head(caching).path
      <4>1. cache'[p] = Head(caching).val
        BY <2>1, <3>2, CacheFacts
      <4>2. Head(caching).val = ReadValue(read, p)
        BY <2>1, <2>2, <3>2, HeadFacts
      <4> QED BY <4>1, <4>2
    <3>3. CASE p # Head(caching).path
      <4>1. cache'[p] = cache[p]
        BY <2>1, <3>1, <3>3, CacheFacts
      <4>2. \A i \in DOMAIN caching : caching[i].path = p =>
              \E j \in DOMAIN caching' : caching'[j].path = p
        BY <2>1, <3>3, HeadFacts
      <4> QED BY <2>2, <4>1, <4>2
    <3> QED BY <3>2, <3>3
  <2> QED BY <2>3, <2>4
<1>4. CASE Restart
  <2> SUFFICES ASSUME partial' = FALSE PROVE ReadKept'
    BY DEF ReadKept
  <2>1. caching = << >> /\ partial = FALSE
    <3>1. partial' = (partial \/ caching # << >>) /\ partial \in BOOLEAN
      BY <1>4, Zenon DEF Restart, TypeOK
    <3> QED BY <3>1, Zenon
  <2>2. UNCHANGED <<read, partial, caching, cache>>
    BY <1>4, <2>1 DEF Restart
  <2> QED BY <1>1, <2>2
<1> QED BY <1>1, <1>2, <1>3, <1>4 DEF Next, Change, Call, Reset, CollectTier, vars

LEMMA CollectShows ==
  ASSUME TypeOK, ReadKept, CollectTier, sample'.of # None
  PROVE  /\ sample'.alarms = AlarmsOf(sample'.of.table)
         /\ sample'.pct = PctOf(sample'.of.att, sample'.of.succ)
<1>1. /\ caching = << >> /\ partial = FALSE /\ read # None
      /\ sample'.of = read /\ sample'.alarms = buildAlarms /\ sample'.pct = rrcSuccessPct
  <2>1. /\ sample'.of = (IF caching = << >> /\ ~partial THEN read ELSE None)
        /\ sample'.alarms = buildAlarms /\ sample'.pct = rrcSuccessPct
    BY DEF CollectTier
  <2>2. partial \in BOOLEAN
    BY DEF TypeOK
  <2> QED BY <2>1, <2>2, Zenon
<1>2. read \in [table : Tables, att : Nat, succ : Nat]
  BY <1>1 DEF TypeOK
<1>3. DOMAIN caching = {}
  BY <1>1
<1>4. \A p \in Known(Len(read.table)) : cache[p] = ReadValue(read, p)
  BY <1>1, <1>3 DEF ReadKept
<1>5. /\ cache[<<"att", 0>>] = read.att /\ cache[<<"succ", 0>>] = read.succ
      /\ cache[<<"count", 0>>] = Len(read.table)
  BY <1>4, PathFacts, ReadValueFacts DEF Known
<1>6. sample'.pct = PctOf(read.att, read.succ)
  BY <1>1, <1>2, <1>5 DEF rrcSuccessPct, InParams, PctOf
<1> DEFINE m == Least(Len(read.table), MaxAlarmRows)
<1>7. /\ m \in Nat /\ m <= Len(read.table) /\ RowLimit = m
      /\ \A i \in 1..Len(read.table) : read.table[i] \in Alarms /\ read.table[i] # None
  BY <1>2, <1>5, LeastType, TableType DEF RowLimit, InParams
<1>8. \A i \in 1..m : /\ cache[<<"type", i>>] = read.table[i]
                      /\ cache[<<"severity", i>>] = read.table[i]
                      /\ InParams(<<"type", i>>)
  <2> SUFFICES ASSUME NEW i \in 1..m
               PROVE  /\ cache[<<"type", i>>] = read.table[i]
                      /\ cache[<<"severity", i>>] = read.table[i]
                      /\ InParams(<<"type", i>>)
    OBVIOUS
  <2>1. <<"type", i>> \in Known(Len(read.table)) /\ <<"severity", i>> \in Known(Len(read.table))
    BY DEF Known
  <2>2. cache[<<"type", i>>] = read.table[i] /\ cache[<<"severity", i>>] = read.table[i]
    BY <1>4, <2>1, ReadValueFacts
  <2>3. read.table[i] # None
    BY <1>7
  <2> QED BY <2>2, <2>3 DEF InParams
<1> HIDE DEF m
<1>9. {j \in 1..RowLimit : InParams(<<"type", j>>)} = 1..m
  BY <1>7, <1>8
<1>10. buildAlarms = [i \in 1..m |-> [type |-> read.table[i], severity |-> read.table[i]]]
  BY <1>8, <1>9 DEF buildAlarms
<1>11. buildAlarms = AlarmsOf(read.table)
  BY <1>10 DEF AlarmsOf, m
<1> QED BY <1>1, <1>6, <1>11

\* A sample taken between two answers shows the alarms and the counters of the
\* last answer, whatever rows of earlier tables are left in the cache and
\* whatever statements failed or restarts happened before.
THEOREM SamplesShowOneRead == Spec => []SampleIsOneRead
<1>1. Init => SampleIsOneRead
  BY DEF Init, NoSample, SampleIsOneRead
<1>2. TypeOK /\ ReadKept /\ SampleIsOneRead /\ [Next]_vars => SampleIsOneRead'
  <2> SUFFICES ASSUME TypeOK, ReadKept, SampleIsOneRead, [Next]_vars
               PROVE  SampleIsOneRead'
    OBVIOUS
  <2>1. CASE CollectTier
    BY <2>1, CollectShows DEF SampleIsOneRead
  <2>2. CASE Restart
    BY <2>2 DEF Restart, NoSample, SampleIsOneRead
  <2>3. CASE UNCHANGED sample
    BY <2>3 DEF SampleIsOneRead
  <2> QED BY <2>1, <2>2, <2>3 DEF Next, Change, Call, Reset, Answer, CacheParam, vars
<1> QED BY <1>1, <1>2, ReadInit, ReadStep, TelemetryTypeCorrect, PTL DEF Spec

-----------------------------------------------------------------------------
(***************************************************************************)
(* The successes never exceed the attempts.  The cache never holds more    *)
(* successes than attempts because an answer is cached attempts first: the *)
(* successes still to come are covered by attempts that come before them,  *)
(* or that are in the cache already.                                       *)
(***************************************************************************)

Att == <<"att", 0>>
Succ == <<"succ", 0>>

Counted ==
  /\ succ <= att
  /\ cache[Att] # None => cache[Att] <= att
  /\ cache[Succ] # None => cache[Att] # None /\ cache[Succ] <= cache[Att]

Coming ==
  \A i \in DOMAIN caching :
    /\ caching[i].path = Att =>
         /\ i = 1 /\ caching[i].val <= att
         /\ cache[Att] # None => cache[Att] <= caching[i].val
    /\ caching[i].path = Succ =>
         \/ caching[1].path = Att /\ caching[i].val <= caching[1].val
         \/ cache[Att] # None /\ caching[i].val <= cache[Att]

Sampled == sample.pct # None => sample.pct.succ <= sample.pct.att

Covered == Counted /\ Coming /\ Sampled

PctInv == (reset = FALSE /\ faults = 0) => Covered

LEMMA CounterTypes ==
  ASSUME TypeOK
  PROVE  /\ att \in Nat /\ succ \in Nat /\ Att \in Paths /\ Succ \in Paths /\ Att # Succ
         /\ cache[Att] # None => cache[Att] \in Nat
         /\ cache[Succ] # None => cache[Succ] \in Nat
         /\ \A i \in DOMAIN caching :
              caching[i].path \in {Att, Succ} => caching[i].val \in Nat
<1>1. Att \in Numbers /\ Succ \in Numbers /\ Att # Succ
  BY PathFacts DEF Att, Succ
<1>2. \A i \in DOMAIN caching : caching[i] \in Params
  <2>1. caching \in Seq(Params)
    BY DEF TypeOK
  <2> QED BY <2>1
<1>3. \A i \in DOMAIN caching : caching[i].path \in Numbers => caching[i].val \in Nat
  BY <1>2, ParamFacts
<1> QED BY <1>1, <1>3 DEF TypeOK, Paths

LEMMA CoveredAnswer ==
  ASSUME TypeOK, Covered, Answer
  PROVE  Covered'
<1>1. UNCHANGED <<att, succ, cache, sample>>
  BY DEF Answer, device
<1>2. /\ 1 \in DOMAIN caching' /\ caching'[1].path = Att /\ caching'[1].val = att
      /\ \A i \in DOMAIN caching' : caching'[i].path = Att => i = 1
      /\ \A i \in DOMAIN caching' : caching'[i].path = Succ => caching'[i].val = succ
  BY AnswerFacts DEF Att, Succ
<1>3. Counted' /\ Sampled'
  BY <1>1 DEF Covered, Counted, Sampled
<1>4. Coming'
  BY <1>1, <1>2, CounterTypes DEF Covered, Counted, Coming
<1> QED BY <1>3, <1>4 DEF Covered

\* the attempts are cached before the successes they cover
LEMMA CoveredCache ==
  ASSUME TypeOK, Covered, caching # << >>, caching' = Tail(caching),
         cache' = [cache EXCEPT ![Head(caching).path] = Head(caching).val],
         UNCHANGED <<att, succ, sample>>
  PROVE  Covered'
<1> DEFINE h == caching[1]
<1>1. /\ h = Head(caching) /\ 1 \in DOMAIN caching
      /\ \A i \in DOMAIN caching' :
           i + 1 \in DOMAIN caching /\ i + 1 # 1 /\ caching'[i] = caching[i + 1]
  BY HeadFacts
<1>2. /\ cache'[h.path] = h.val
      /\ \A p \in Paths : p # h.path => cache'[p] = cache[p]
  BY <1>1, CacheFacts
<1>3. h.val # None
  BY <1>1, HeadFacts, ParamFacts
<1>4. Sampled'
  BY DEF Covered, Sampled
<1>5. \A i \in DOMAIN caching' : caching'[i].path # Att
  BY <1>1 DEF Covered, Coming
<1>6. \A i \in DOMAIN caching' : caching'[i].path = Succ =>
        /\ caching'[i].val \in Nat
        /\ \/ h.path = Att /\ caching'[i].val <= h.val
           \/ cache[Att] # None /\ caching'[i].val <= cache[Att]
  BY <1>1, CounterTypes DEF Covered, Coming
<1>7. CASE h.path = Att
  <2>1. /\ h.val \in Nat /\ h.val <= att
        /\ cache[Att] # None => cache[Att] <= h.val
    BY <1>1, <1>7, CounterTypes DEF Covered, Coming
  <2>2. cache'[Att] = h.val /\ cache'[Succ] = cache[Succ]
    BY <1>2, <1>7, CounterTypes
  <2>3. Counted'
    BY <1>3, <2>1, <2>2, CounterTypes DEF Covered, Counted
  <2>4. Coming'
    <3>1. \A i \in DOMAIN caching' : caching'[i].path = Succ =>
            cache'[Att] # None /\ caching'[i].val <= cache'[Att]
      BY <1>3, <1>6, <2>1, <2>2, CounterTypes
    <3> QED BY <1>5, <3>1 DEF Coming
  <2> QED BY <1>4, <2>3, <2>4 DEF Covered
<1>8. CASE h.path # Att
  <2>1. cache'[Att] = cache[Att]
    BY <1>2, <1>8, CounterTypes
  <2>2. Coming'
    <3>1. \A i \in DOMAIN caching' : caching'[i].path = Succ =>
            cache'[Att] # None /\ caching'[i].val <= cache'[Att]
      BY <1>6, <1>8, <2>1
    <3> QED BY <1>5, <3>1 DEF Coming
  <2>3. Counted'
    <3>1. CASE h.path = Succ
      <4>1. cache'[Succ] = h.val
        BY <1>2, <3>1
      <4>2. cache[Att] # None /\ h.val <= cache[Att]
        BY <1>1, <1>8, <3>1 DEF Covered, Coming
      <4> QED BY <2>1, <4>1, <4>2 DEF Covered, Counted
    <3>2. CASE h.path # Succ
      <4>1. cache'[Succ] = cache[Succ]
        BY <1>2, <3>2, CounterTypes
      <4> QED BY <2>1, <4>1 DEF Covered, Counted
    <3> QED BY <3>1, <3>2
  <2> QED BY <1>4, <2>2, <2>3 DEF Covered
<1> QED BY <1>7, <1>8

LEMMA CoveredCollect ==
  ASSUME TypeOK, Covered, CollectTier
  PROVE  Covered'
<1>1. UNCHANGED <<att, succ, cache, caching>>
  BY DEF CollectTier, device
<1>2. Counted' /\ Coming'
  BY <1>1 DEF Covered, Counted, Coming
<1>3. Sampled'
  <2>1. sample'.pct = rrcSuccessPct
    BY DEF CollectTier
  <2>2. CASE rrcSuccessPct = None
    BY <2>1, <2>2 DEF Sampled
  <2>3. CASE rrcSuccessPct # None
    <3>1. /\ cache[Succ] # None
          /\ rrcSuccessPct = [succ |-> cache[Succ], att |-> cache[Att]]
      BY <2>3 DEF rrcSuccessPct, InParams, Att, Succ
    <3> QED BY <2>1, <3>1 DEF Covered, Counted, Sampled
  <2> QED BY <2>2, <2>3
<1> QED BY <1>2, <1>3 DEF Covered

LEMMA CoveredInit == Init => PctInv
<1> SUFFICES ASSUME Init PROVE Covered
  BY DEF PctInv
<1>1. TypeOK
  BY TelemetryInit
<1>2. cache[Att] = None /\ cache[Succ] = None
  BY <1>1, CounterTypes DEF Init
<1>3. Counted
  BY <1>2 DEF Init, Counted
<1>4. Coming
  BY DEF Init, Coming
<1>5. Sampled
  BY DEF Init, NoSample, Sampled
<1> QED BY <1>3, <1>4, <1>5 DEF Covered

LEMMA CoveredStep == TypeOK /\ PctInv /\ [Next]_vars => PctInv'
<1> SUFFICES ASSUME TypeOK, PctInv, [Next]_vars, reset' = FALSE, faults' = 0
             PROVE  Covered'
  BY DEF PctInv
<1>1. faults \in Nat
  BY DEF TypeOK
<1>2. ~Reset
  BY Zenon DEF Reset
<1>3. reset = FALSE
  BY <1>2, Zenon DEF Next, Change, Call, Answer, CacheParam, CollectTier, Restart, vars, device
<1>4. faults' = faults \/ faults' = faults + 1
  BY Zenon DEF Next, Change, Call, Reset, Answer, CacheParam, CollectTier, Restart, vars
<1>5. faults = 0
  BY <1>1, <1>4
<1>6. Covered
  BY <1>3, <1>5, Zenon DEF PctInv
<1>7. CASE UNCHANGED <<att, succ, cache, caching, sample>>
  BY <1>6, <1>7 DEF Covered, Counted, Coming, Sampled
<1>8. CASE Call
  <2>1. att' = att + 1 /\ succ' \in {succ, succ + 1} /\ UNCHANGED <<cache, caching, sample>>
    BY <1>8 DEF Call
  <2>2. Counted'
    BY <1>6, <2>1, CounterTypes DEF Covered, Counted
  <2>3. Coming'
    BY <1>6, <2>1, CounterTypes DEF Covered, Coming
  <2>4. Sampled'
    BY <1>6, <2>1 DEF Covered, Sampled
  <2> QED BY <2>2, <2>3, <2>4 DEF Covered
<1>9. CASE Answer
  BY <1>6, <1>9, CoveredAnswer
<1>10. CASE CacheParam
  <2>1. faults' # faults + 1
    BY <1>1, <1>5
  <2>2. /\ caching # << >> /\ caching' = Tail(caching)
        /\ cache' = [cache EXCEPT ![Head(caching).path] = Head(caching).val]
        /\ UNCHANGED <<att, succ, sample>>
    BY <1>10, <2>1, Zenon DEF CacheParam, device
  <2> QED BY <1>6, <2>2, CoveredCache
<1>11. CASE CollectTier
  BY <1>6, <1>11, CoveredCollect
<1>12. CASE Restart
  <2>1. UNCHANGED <<att, succ, cache>> /\ caching' = << >> /\ sample' = NoSample
    BY <1>12 DEF Restart, device
  <2>2. Counted'
    BY <1>6, <2>1 DEF Covered, Counted
  <2>3. Coming'
    BY <2>1 DEF Coming
  <2>4. Sampled'
    BY <2>1 DEF NoSample, Sampled
  <2> QED BY <2>2, <2>3, <2>4 DEF Covered
<1> QED BY <1>2, <1>7, <1>8, <1>9, <1>10, <1>11, <1>12, Zenon DEF Next, Change, vars, device

\* rrc_success_pct is at most 100 whenever the worker takes its sample, between
\* answers, in the middle of one or after one that a restart cut short, as long
\* as the counters have not started again and no statement failed.
THEOREM PctStaysBounded == Spec => []PctAtMost100
<1>1. TypeOK /\ PctInv => PctAtMost100
  <2> SUFFICES ASSUME TypeOK, PctInv, ~reset, faults = 0, sample.pct # None
               PROVE  sample.pct.succ <= sample.pct.att
    BY DEF PctAtMost100
  <2>1. reset = FALSE
    BY Zenon DEF TypeOK
  <2>2. Sampled
    BY <2>1, Zenon DEF PctInv, Covered
  <2> QED BY <2>2 DEF Sampled
<1> QED BY <1>1, CoveredInit, CoveredStep, TelemetryTypeCorrect, PTL DEF Spec
=============================================================================
