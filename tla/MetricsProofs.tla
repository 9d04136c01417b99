---------------------------- MODULE MetricsProofs ----------------------------
(***************************************************************************)
(* Proofs about the counters and the report: the mutex is held by whoever  *)
(* looks up or reads, so what a dispatch has looked up still holds when it *)
(* records, and what is read does not change while it is read.             *)
(***************************************************************************)
EXTENDS Metrics, FiniteSetTheorems, TLAPS

Calls == [time : Durations, failed : BOOLEAN]

(* Whoever has looked up holds the mutex.                                  *)
HoldsMutex == \A w \in Workers : found[w] # NoOne => mutex = w

(* What has been looked up is still so.                                    *)
FoundRight ==
    \A w \in Workers :
        found[w] # NoOne =>
            (found[w].ok <=> handlers[found[w].route].calls > 0)

(* While the report holds the mutex, the timings stay, and those it has    *)
(* read are the ones it found.                                             *)
ReadRight ==
    reader.phase = "locked" =>
        /\ handlers = atLock
        /\ \A r \in Routes \ reader.left : timings[r] = atLock[r]

(* The counters have not gone back since the report began.                 *)
NoneBack == reader.phase # "idle" => \A i \in Counters : before[i] <= counter[i]

IInv ==
    /\ TypeOK
    /\ HoldsMutex
    /\ FoundRight
    /\ TimingsExact
    /\ NoneBack
    /\ SnapshotWithin
    /\ ReadRight
    /\ TimingsOfOneInstant

-----------------------------------------------------------------------------
(* One more call is what Observed makes of it.                             *)
LEMMA ObservedTyped ==
    ASSUME NEW stat \in Stats, NEW time \in Nat, NEW failed \in BOOLEAN
    PROVE  Observed(stat, time, failed) \in Stats
  BY DEF Observed, Stats

(* The failures among one more call.                                       *)
LEMMA FailuresCounted ==
    ASSUME NEW calls \in Seq(Calls), NEW call \in Calls
    PROVE  Cardinality({i \in DOMAIN Append(calls, call) :
                            Append(calls, call)[i].failed}) =
               Cardinality({i \in DOMAIN calls : calls[i].failed})
                   + (IF call.failed THEN 1 ELSE 0)
  <1> DEFINE old == {i \in DOMAIN calls : calls[i].failed}
             new == {i \in DOMAIN Append(calls, call) :
                         Append(calls, call)[i].failed}
             last == Len(calls) + 1
  <1> SUFFICES Cardinality(new) = Cardinality(old)
                                      + (IF call.failed THEN 1 ELSE 0)
    OBVIOUS
  <1>1. IsFiniteSet(old) /\ last \notin old
    <2>1. IsFiniteSet(1 .. Len(calls))
      BY FS_Interval
    <2>2. old \subseteq 1 .. Len(calls) /\ last \notin old
      OBVIOUS
    <2> QED
      BY <2>1, <2>2, FS_Subset
  <1>2. CASE call.failed
    <2>1. new = old \cup {last}
      BY <1>2
    <2> HIDE DEF old, new
    <2> QED
      BY <1>1, <1>2, <2>1, FS_AddElement
  <1>3. CASE ~call.failed
    <2>1. new = old
      BY <1>3
    <2>2. Cardinality(old) \in Nat
      BY <1>1, FS_CardinalityType
    <2> HIDE DEF old, new
    <2> QED
      BY <1>3, <2>1, <2>2
  <1> QED
    BY <1>2, <1>3

(* What is needed of multiplication.                                       *)
LEMMA Products ==
    ASSUME NEW a \in Nat, NEW b \in Nat, NEW c \in Nat
    PROVE  /\ (a + 1) * b = a * b + b
           /\ b <= c => a * b <= a * c
  OBVIOUS

(* The average stays in between.                                           *)
LEMMA AverageBetween ==
    ASSUME NEW calls \in Nat, NEW total \in Nat, NEW time \in Nat,
           NEW min \in Nat, NEW max \in Nat,
           NEW newMin \in Nat, NEW newMax \in Nat,
           newMin <= time, time <= newMax,
           calls # 0 => newMin <= min /\ max <= newMax,
           calls * min <= total, total <= calls * max
    PROVE  /\ (calls + 1) * newMin <= total + time
           /\ total + time <= (calls + 1) * newMax
  <1>1. /\ (calls + 1) * newMin = calls * newMin + newMin
        /\ (calls + 1) * newMax = calls * newMax + newMax
    BY Products
  <1>2. /\ calls * min \in Nat /\ calls * max \in Nat
        /\ calls * newMin \in Nat /\ calls * newMax \in Nat
    OBVIOUS
  <1>3. calls * newMin <= total /\ total <= calls * newMax
    <2>1. CASE calls = 0
      <3>1. /\ calls * min = 0 /\ calls * max = 0
            /\ calls * newMin = 0 /\ calls * newMax = 0
        BY <2>1
      <3> QED
        BY <3>1
    <2>2. CASE calls # 0
      <3>1. calls * newMin <= calls * min /\ calls * max <= calls * newMax
        BY <2>2, Products
      <3> QED
        BY <1>2, <3>1
    <2> QED
      BY <2>1, <2>2
  <1> QED
    BY <1>1, <1>2, <1>3

(* A handlerStat that is exact is so after one more call.                  *)
LEMMA ObservedExact ==
    ASSUME NEW stat \in Stats, NEW calls \in Seq(Calls), Exact(stat, calls),
           stat = NewStat \/ stat.calls > 0,
           NEW time \in Durations, NEW failed \in BOOLEAN
    PROVE  Exact(Observed(stat, time, failed),
                 Append(calls, [time |-> time, failed |-> failed]))
  <1> DEFINE call == [time |-> time, failed |-> failed]
             now == Observed(stat, time, failed)
             all == Append(calls, call)
             times == {calls[i].time : i \in DOMAIN calls}
             allTimes == {all[i].time : i \in DOMAIN all}
  <1>1. /\ call \in Calls /\ call.failed = failed /\ call.time = time
        /\ time \in Nat
        /\ times \subseteq Nat
    <2>1. \A i \in DOMAIN calls : calls[i] \in Calls
      OBVIOUS
    <2>2. \A i \in DOMAIN calls : calls[i].time \in Durations
      BY <2>1 DEF Calls
    <2>3. call \in Calls /\ call.failed = failed /\ call.time = time
      BY DEF Calls
    <2> QED
      BY <2>2, <2>3, MetricsAssumption DEF MetricsAssumption
  <1>2. /\ now.calls = stat.calls + 1
        /\ now.errors = stat.errors + (IF failed THEN 1 ELSE 0)
        /\ now.total = stat.total + time
        /\ now.min = IF stat.calls = 0 \/ time < stat.min THEN time ELSE stat.min
        /\ now.max = IF time > stat.max THEN time ELSE stat.max
    BY DEF Observed
  <1>3. /\ stat.calls \in Nat /\ stat.errors \in Nat /\ stat.total \in Nat
        /\ stat.min \in Nat /\ stat.max \in Nat
    BY DEF Stats
  <1>4. /\ stat.calls = Len(calls)
        /\ stat.errors = Cardinality({i \in DOMAIN calls : calls[i].failed})
        /\ calls # <<>> =>
               /\ {stat.min, stat.max} \subseteq times
               /\ \A t \in times : stat.min <= t /\ t <= stat.max
        /\ stat.calls * stat.min <= stat.total
        /\ stat.total <= stat.calls * stat.max
    BY DEF Exact
  <1>5. Len(all) = Len(calls) + 1 /\ all # <<>>
    OBVIOUS
  <1>6. now.errors = Cardinality({i \in DOMAIN all : all[i].failed})
    BY <1>1, <1>2, <1>4, FailuresCounted
  <1>7. allTimes = times \cup {time}
    <2>1. DOMAIN all = DOMAIN calls \cup {Len(calls) + 1}
      OBVIOUS
    <2>2. all[Len(calls) + 1] = call /\ \A i \in DOMAIN calls : all[i] = calls[i]
      BY <1>1
    <2> QED
      BY <2>1, <2>2
  <1>8. /\ calls = <<>> => times = {} /\ stat.calls = 0
        /\ calls # <<>> => stat.calls # 0
    BY <1>4
  <1> HIDE DEF now, times, allTimes
  <1>9. now.min \in Nat /\ now.max \in Nat /\ now.min <= time /\ time <= now.max
    BY <1>1, <1>2, <1>3
  <1>10. {now.min, now.max} \subseteq allTimes
    <2>1. CASE calls = <<>>
      <3>1. now.min = time
        BY <1>2, <1>8, <2>1
      <3>2. stat.max = 0
        BY <1>8, <2>1 DEF NewStat
      <3>3. now.max = time
        BY <1>1, <1>2, <3>2
      <3> QED
        BY <1>7, <3>1, <3>3
    <2>2. CASE calls # <<>>
      <3>1. now.min \in {time, stat.min} /\ now.max \in {time, stat.max}
        BY <1>2
      <3> QED
        BY <1>4, <1>7, <2>2, <3>1
    <2> QED
      BY <2>1, <2>2
  <1>11. \A t \in allTimes : now.min <= t /\ t <= now.max
    <2>1. CASE calls = <<>>
      BY <1>7, <1>8, <1>9, <2>1
    <2>2. CASE calls # <<>>
      <3>1. now.min <= stat.min /\ stat.max <= now.max
        BY <1>1, <1>2, <1>3, <1>8, <2>2
      <3>2. \A t \in times : now.min <= t /\ t <= now.max
        BY <1>1, <1>3, <1>4, <1>9, <2>2, <3>1
      <3> QED
        BY <1>7, <1>9, <3>2
    <2> QED
      BY <2>1, <2>2
  <1>12. now.calls * now.min <= now.total /\ now.total <= now.calls * now.max
    <2>1. stat.calls # 0 => now.min <= stat.min /\ stat.max <= now.max
      BY <1>1, <1>2, <1>3
    <2>2. /\ (stat.calls + 1) * now.min <= stat.total + time
          /\ stat.total + time <= (stat.calls + 1) * now.max
      BY <1>1, <1>3, <1>4, <1>9, <2>1, AverageBetween
    <2> QED
      BY <1>2, <2>2
  <1>13. now.calls = Len(all)
    BY <1>2, <1>3, <1>4, <1>5
  <1> QED
    BY <1>5, <1>6, <1>10, <1>11, <1>12, <1>13 DEF Exact, now, allTimes

-----------------------------------------------------------------------------
(* The invariant holds at first,                                           *)
LEMMA InitSound == Init => IInv
  <1> SUFFICES ASSUME Init PROVE IInv
    OBVIOUS
  <1> USE DEF Init
  <1>1. TypeOK
    BY MetricsAssumption
    DEF MetricsAssumption, TypeOK, Stats, NewStat, Phases, Counters
  <1>2. HoldsMutex /\ FoundRight /\ NoneBack /\ SnapshotWithin /\ ReadRight
        /\ TimingsOfOneInstant
    BY DEF HoldsMutex, FoundRight, NoneBack, SnapshotWithin, ReadRight,
           TimingsOfOneInstant
  <1>3. TimingsExact
    <2>1. {i \in DOMAIN <<>> : <<>>[i].failed} = {}
      OBVIOUS
    <2>2. Exact(NewStat, <<>>)
      BY <2>1, FS_EmptySet DEF Exact, NewStat
    <2> QED
      BY <2>2 DEF TimingsExact
  <1> QED
    BY <1>1, <1>2, <1>3 DEF IInv

(* and every step keeps it.                                                *)
LEMMA NextSound == IInv /\ [Next]_vars => IInv'
  <1> SUFFICES ASSUME IInv, [Next]_vars PROVE IInv'
    OBVIOUS
  <1> USE DEF IInv
  <1>1. ASSUME NEW i \in Counters, Add(i) PROVE IInv'
    <2>1. TypeOK'
      <3>1. counter' \in [Counters -> Nat]
        BY <1>1 DEF TypeOK, Add
      <3> QED
        BY <1>1, <3>1 DEF TypeOK, Add
    <2>2. \A j \in Counters : counter[j] <= counter'[j]
      BY <1>1 DEF TypeOK, Add
    <2>3. NoneBack' /\ SnapshotWithin'
      <3>1. UNCHANGED <<before, snapshot, reader>>
        BY <1>1 DEF Add
      <3>2. \A j \in Counters :
                before[j] \in Nat /\ snapshot[j] \in Nat /\ counter[j] \in Nat
                /\ counter'[j] \in Nat
        BY <2>1 DEF TypeOK
      <3>3. 1 .. reader.read \subseteq Counters
        BY MetricsAssumption DEF MetricsAssumption, TypeOK, Counters
      <3> QED
        BY <2>2, <3>1, <3>2, <3>3 DEF NoneBack, SnapshotWithin
    <2>4. HoldsMutex' /\ FoundRight' /\ TimingsExact' /\ ReadRight'
          /\ TimingsOfOneInstant'
      BY <1>1 DEF Add, HoldsMutex, FoundRight, TimingsExact, ReadRight,
                  TimingsOfOneInstant
    <2> QED
      BY <2>1, <2>3, <2>4
  <1>2. ASSUME NEW w \in Workers, NEW r \in Routes, LookUp(w, r) PROVE IInv'
    <2>1. TypeOK'
      <3>1. found' \in [Workers -> [route : Routes, ok : BOOLEAN] \cup {NoOne}]
        BY <1>2 DEF TypeOK, LookUp
      <3> QED
        BY <1>2, <3>1, MetricsAssumption
        DEF MetricsAssumption, TypeOK, LookUp, MutexFree
    <2>2. \A v \in Workers \ {w} : found[v] = NoOne /\ found'[v] = NoOne
      BY <1>2, MetricsAssumption
      DEF MetricsAssumption, TypeOK, LookUp, MutexFree, HoldsMutex
    <2>3. found'[w] = [route |-> r, ok |-> handlers[r].calls > 0]
      BY <1>2 DEF TypeOK, LookUp
    <2>4. HoldsMutex' /\ FoundRight'
      <3>1. mutex' = w /\ handlers' = handlers
        BY <1>2 DEF LookUp
      <3>2. HoldsMutex'
        BY <2>2, <3>1 DEF HoldsMutex
      <3>3. found'[w].route = r /\ found'[w].ok = (handlers[r].calls > 0)
        BY <2>3
      <3>4. found'[w].ok <=> handlers'[found'[w].route].calls > 0
        BY <3>1, <3>3
      <3> QED
        BY <2>2, <3>2, <3>4 DEF FoundRight
    <2>5. NoneBack' /\ SnapshotWithin' /\ TimingsExact' /\ ReadRight'
          /\ TimingsOfOneInstant'
      BY <1>2 DEF LookUp, NoneBack, SnapshotWithin, TimingsExact, ReadRight,
                  TimingsOfOneInstant
    <2> QED
      BY <2>1, <2>4, <2>5
  <1>3. ASSUME NEW w \in Workers, NEW time \in Durations,
               NEW failed \in BOOLEAN, Record(w, time, failed)
        PROVE  IInv'
    <2> DEFINE r == found[w].route
               stat == IF found[w].ok THEN handlers[r] ELSE NewStat
               call == [time |-> time, failed |-> failed]
    <2>1. /\ found[w] # NoOne /\ mutex = w /\ mutex # Reader
          /\ r \in Routes
          /\ found[w].ok <=> handlers[r].calls > 0
      BY <1>3, MetricsAssumption
      DEF MetricsAssumption, TypeOK, Record, HoldsMutex, FoundRight
    <2>2. /\ handlers' = [handlers EXCEPT ![r] = Observed(stat, time, failed)]
          /\ took' = [took EXCEPT ![r] = Append(@, call)]
          /\ found' = [found EXCEPT ![w] = NoOne]
          /\ mutex' = NoOne
          /\ UNCHANGED <<counter, reader, snapshot, timings, before, atLock>>
      BY <1>3 DEF Record
    <2>3. /\ handlers[r] \in Stats /\ took[r] \in Seq(Calls)
          /\ NewStat \in Stats
          /\ time \in Nat
      BY <2>1, MetricsAssumption
      DEF MetricsAssumption, TypeOK, Calls, Stats, NewStat
    <2>4. stat \in Stats /\ (stat = NewStat \/ stat.calls > 0)
      BY <2>1, <2>3
    <2>5. Exact(stat, took[r])
      <3>1. CASE found[w].ok
        BY <2>1, <3>1 DEF TimingsExact
      <3>2. CASE ~found[w].ok
        <4>1. Len(took[r]) = 0
          <5>1. ~(handlers[r].calls > 0)
            BY <2>1, <3>2
          <5>2. handlers[r].calls \in Nat
            BY <2>3 DEF Stats
          <5>3. handlers[r].calls = Len(took[r])
            BY <2>1 DEF TimingsExact, Exact
          <5> QED
            BY <5>1, <5>2, <5>3
        <4>2. took[r] = <<>>
          BY <2>3, <4>1
        <4>3. {i \in DOMAIN <<>> : <<>>[i].failed} = {}
          OBVIOUS
        <4>4. Exact(NewStat, <<>>)
          BY <4>3, FS_EmptySet DEF Exact, NewStat
        <4> QED
          BY <3>2, <4>2, <4>4
      <3> QED
        BY <3>1, <3>2
    <2> HIDE DEF stat
    <2>6. Observed(stat, time, failed) \in Stats
      BY <2>3, <2>4, ObservedTyped
    <2>7. Exact(Observed(stat, time, failed), Append(took[r], call))
      BY <2>3, <2>4, <2>5, ObservedExact
    <2>8. call \in Calls
      BY DEF Calls
    <2> HIDE DEF r, call
    <2>9. TypeOK'
      <3>1. handlers' \in [Routes -> Stats]
        BY <2>1, <2>2, <2>6 DEF TypeOK
      <3>2. took' \in [Routes -> Seq(Calls)]
        <4>1. Append(took[r], call) \in Seq(Calls)
          BY <2>3, <2>8
        <4>2. took \in [Routes -> Seq(Calls)]
          BY DEF TypeOK, Calls
        <4> QED
          BY <2>1, <2>2, <4>1, <4>2
      <3>3. found' \in [Workers -> [route : Routes, ok : BOOLEAN] \cup {NoOne}]
        BY <2>2 DEF TypeOK
      <3> QED
        BY <2>1, <2>2, <3>1, <3>2, <3>3, MetricsAssumption
        DEF MetricsAssumption, TypeOK, Calls
    <2>10. \A v \in Workers : found'[v] = NoOne
      BY <2>1, <2>2 DEF TypeOK, HoldsMutex
    <2>11. HoldsMutex' /\ FoundRight'
      BY <2>10 DEF HoldsMutex, FoundRight
    <2>12. TimingsExact'
      BY <2>1, <2>2, <2>7 DEF TypeOK, TimingsExact
    <2>13. reader.phase # "locked"
      BY <2>1 DEF TypeOK
    <2>14. NoneBack' /\ SnapshotWithin' /\ ReadRight' /\ TimingsOfOneInstant'
      BY <2>2, <2>13 DEF NoneBack, SnapshotWithin, ReadRight,
                         TimingsOfOneInstant
    <2> QED
      BY <2>9, <2>11, <2>12, <2>14
  <1>4. CASE Begin
    <2>1. TypeOK'
      <3>1. reader' \in [phase : Phases, read : 0 .. LastCounter,
                         left : SUBSET Routes]
        <4>1. 0 \in 0 .. LastCounter
          BY MetricsAssumption DEF MetricsAssumption
        <4> QED
          BY <1>4, <4>1 DEF Begin, Phases
      <3>2. reader'.phase = "counting" /\ reader.phase # "locked"
        BY <1>4 DEF Begin
      <3> QED
        BY <1>4, <3>1, <3>2 DEF TypeOK, Begin
    <2>2. NoneBack' /\ SnapshotWithin'
      BY <1>4 DEF TypeOK, Begin, NoneBack, SnapshotWithin
    <2>3. HoldsMutex' /\ FoundRight' /\ TimingsExact' /\ ReadRight'
          /\ TimingsOfOneInstant'
      BY <1>4 DEF Begin, HoldsMutex, FoundRight, TimingsExact, ReadRight,
                  TimingsOfOneInstant
    <2> QED
      BY <2>1, <2>2, <2>3
  <1>5. CASE Load
    <2> DEFINE next == reader.read + 1
    <2>1. /\ reader.phase = "counting"
          /\ reader.read \in Nat /\ next \in Counters
          /\ snapshot' = [snapshot EXCEPT ![next] = counter[next]]
          /\ reader' = [reader EXCEPT !.read = next]
          /\ UNCHANGED <<counter, handlers, mutex, found, timings, before,
                         atLock, took>>
      BY <1>5, MetricsAssumption
      DEF MetricsAssumption, TypeOK, Load, Loaded, Counters
    <2>2. reader'.phase = "counting" /\ reader'.read = next
          /\ reader' \in [phase : Phases, read : 0 .. LastCounter,
                          left : SUBSET Routes]
      <3>1. next \in 0 .. LastCounter
        BY <2>1, MetricsAssumption DEF MetricsAssumption, Counters
      <3>2. reader.phase = "counting" /\ reader.phase \in Phases
            /\ reader.left \in SUBSET Routes
        BY <2>1 DEF TypeOK
      <3> HIDE DEF next
      <3>3. reader' = [phase |-> reader.phase, read |-> next, left |-> reader.left]
        BY <2>1 DEF TypeOK
      <3> QED
        BY <3>1, <3>2, <3>3
    <2>3. TypeOK'
      BY <2>1, <2>2 DEF TypeOK
    <2>4. SnapshotWithin'
      <3>1. \A i \in 1 .. next : i \in 1 .. reader.read \/ i = next
        BY <2>1
      <3>2. \A i \in 1 .. next : i # next => snapshot'[i] = snapshot[i]
        BY <2>1, MetricsAssumption DEF MetricsAssumption, TypeOK, Counters
      <3>3. /\ snapshot'[next] = counter[next]
            /\ before[next] <= counter[next]
            /\ counter[next] \in Nat
        BY <2>1 DEF TypeOK, NoneBack
      <3> HIDE DEF next
      <3> QED
        BY <2>1, <2>2, <3>1, <3>2, <3>3 DEF SnapshotWithin
    <2>5. NoneBack' /\ HoldsMutex' /\ FoundRight' /\ TimingsExact' /\ ReadRight'
          /\ TimingsOfOneInstant'
      BY <2>1, <2>2 DEF NoneBack, HoldsMutex, FoundRight, TimingsExact,
                        ReadRight, TimingsOfOneInstant
    <2> QED
      BY <2>3, <2>4, <2>5
  <1>6. CASE LockTimings
    <2>1. /\ mutex = NoOne /\ mutex' = Reader
          /\ reader'.phase = "locked" /\ reader'.left = Routes
          /\ reader'.read = reader.read
          /\ reader' \in [phase : Phases, read : 0 .. LastCounter,
                          left : SUBSET Routes]
          /\ atLock' = handlers
          /\ UNCHANGED <<counter, handlers, found, snapshot, timings, before,
                         took>>
      BY <1>6 DEF TypeOK, LockTimings, MutexFree, Phases
    <2>2. TypeOK'
      BY <2>1 DEF TypeOK
    <2>3. HoldsMutex'
      BY <2>1, MetricsAssumption DEF MetricsAssumption, TypeOK, HoldsMutex
    <2>4. reader.phase # "idle"
      BY <1>6 DEF LockTimings
    <2>5. NoneBack' /\ SnapshotWithin' /\ FoundRight' /\ TimingsExact'
          /\ ReadRight' /\ TimingsOfOneInstant'
      BY <2>1, <2>4 DEF NoneBack, SnapshotWithin, FoundRight, TimingsExact,
                        ReadRight, TimingsOfOneInstant
    <2> QED
      BY <2>2, <2>3, <2>5
  <1>7. ASSUME NEW r \in Routes, ReadTiming(r) PROVE IInv'
    <2>1. /\ reader.phase = "locked" /\ r \in reader.left
          /\ timings' = [timings EXCEPT ![r] = handlers[r]]
          /\ reader'.phase = "locked" /\ reader'.left = reader.left \ {r}
          /\ reader'.read = reader.read
          /\ reader' \in [phase : Phases, read : 0 .. LastCounter,
                          left : SUBSET Routes]
          /\ UNCHANGED <<counter, handlers, mutex, found, snapshot, before,
                         atLock, took>>
      BY <1>7 DEF TypeOK, ReadTiming
    <2>2. TypeOK'
      BY <2>1 DEF TypeOK
    <2>3. ReadRight'
      BY <2>1 DEF TypeOK, ReadRight
    <2>4. NoneBack' /\ SnapshotWithin' /\ HoldsMutex' /\ FoundRight'
          /\ TimingsExact' /\ TimingsOfOneInstant'
      BY <2>1 DEF NoneBack, SnapshotWithin, HoldsMutex, FoundRight,
                  TimingsExact, TimingsOfOneInstant
    <2> QED
      BY <2>2, <2>3, <2>4
  <1>8. CASE Reported
    <2>1. /\ reader.phase = "locked" /\ reader.left = {}
          /\ mutex = Reader /\ mutex' = NoOne
          /\ reader'.phase = "reported"
          /\ reader'.read = reader.read
          /\ reader' \in [phase : Phases, read : 0 .. LastCounter,
                          left : SUBSET Routes]
          /\ UNCHANGED <<counter, handlers, found, snapshot, timings, before,
                         atLock, took>>
      BY <1>8 DEF TypeOK, Reported, Phases
    <2>2. TypeOK'
      BY <2>1, MetricsAssumption DEF MetricsAssumption, TypeOK
    <2>3. HoldsMutex'
      BY <2>1, MetricsAssumption DEF MetricsAssumption, TypeOK, HoldsMutex
    <2>4. TimingsOfOneInstant'
      <3>1. \A r \in Routes : timings[r] = atLock[r]
        BY <2>1 DEF ReadRight
      <3>2. timings = atLock
        BY <3>1 DEF TypeOK
      <3> QED
        BY <2>1, <3>2 DEF TimingsOfOneInstant
    <2>5. NoneBack' /\ SnapshotWithin' /\ FoundRight' /\ TimingsExact'
          /\ ReadRight'
      BY <2>1 DEF NoneBack, SnapshotWithin, FoundRight, TimingsExact, ReadRight
    <2> QED
      BY <2>2, <2>3, <2>4, <2>5
  <1>9. CASE UNCHANGED vars
    BY <1>9 DEF vars, TypeOK, HoldsMutex, FoundRight, TimingsExact, NoneBack,
                SnapshotWithin, ReadRight, TimingsOfOneInstant
  <1> QED
    BY <1>1, <1>2, <1>3, <1>4, <1>5, <1>6, <1>7, <1>8, <1>9 DEF Next

(* The counting and the report stay sound in every behaviour.              *)
THEOREM MetricsStaySound == Spec => []IInv
  BY InitSound, NextSound, PTL DEF Spec

-----------------------------------------------------------------------------
(* Every reachable state is well typed, and the report holds the mutex     *)
(* exactly while it reads the timings (Snapshot).                          *)
THEOREM TypeCorrect == Spec => []TypeOK
  BY MetricsStaySound, PTL DEF IInv

(* The timings of every route are those of its calls (ObserveHandler).     *)
THEOREM TimingsExactHolds == Spec => []TimingsExact
  BY MetricsStaySound, PTL DEF IInv

(* A snapshot says nothing of a counter that was not so while it was made  *)
(* (Snapshot).                                                             *)
THEOREM SnapshotWithinHolds == Spec => []SnapshotWithin
  BY MetricsStaySound, PTL DEF IInv

(* The timings in a report are of one instant (Snapshot).                  *)
THEOREM TimingsOfOneInstantHolds == Spec => []TimingsOfOneInstant
  BY MetricsStaySound, PTL DEF IInv

=============================================================================
