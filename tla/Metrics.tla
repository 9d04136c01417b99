------------------------------ MODULE Metrics -------------------------------
(***************************************************************************)
(* The counters of the process (internal/metrics) and the report /status   *)
(* makes of them (internal/stats): dispatches that count and time          *)
(* themselves, at a time, and one that reads all there is.                 *)
(*                                                                         *)
(* The plain counters are atomic and are read one after another; the       *)
(* timings of the handlers share a mutex.  A dispatch looks its route up   *)
(* and then records under the mutex, in two steps here, so that what the   *)
(* mutex is for can be seen.                                               *)
(***************************************************************************)
EXTENDS Integers, Sequences, FiniteSets

CONSTANTS
    Workers,        \* dispatches that finish
    Routes,
    Durations,      \* how long a handler may take
    LastCounter,    \* counters are numbered in the order Snapshot reads them
    NoOne,          \* who holds the mutex when nobody does
    Reader,         \* the dispatch of /status
    MaxCount,       \* bounds each counter
    MaxCalls        \* bounds the dispatches of each route

ASSUME MetricsAssumption ==
    /\ Durations \subseteq Nat
    /\ LastCounter \in Nat
    /\ NoOne # Reader /\ {NoOne, Reader} \cap Workers = {}

VARIABLES
    counter,        \* the atomic counters
    handlers,       \* Metrics.handlers
    mutex,          \* Metrics.mu
    found,          \* what each dispatch has looked up
    reader,         \* where the report is
    snapshot,       \* the counters it has read
    timings,        \* and the timings
    before,         \* the counters when it began,
    atLock,         \* the timings when it took the mutex
    took            \* what has been recorded of each route, in order

vars == <<counter, handlers, mutex, found, reader, snapshot, timings, before,
          atLock, took>>

Counters == 1 .. LastCounter

(* handlerStat; without calls, it is one that is not in the map.           *)
Stats == [calls : Nat, errors : Nat, total : Nat, min : Nat, max : Nat]

NewStat == [calls |-> 0, errors |-> 0, total |-> 0, min |-> 0, max |-> 0]

(* The report is not being made, has read the first counters, or waits for *)
(* the mutex, holds it, or is complete.                                    *)
Phases == {"idle", "counting", "locked", "reported"}

TypeOK ==
    /\ counter \in [Counters -> Nat]
    /\ handlers \in [Routes -> Stats]
    /\ mutex \in Workers \cup {NoOne, Reader}
    /\ found \in [Workers -> [route : Routes, ok : BOOLEAN] \cup {NoOne}]
    /\ reader \in [phase : Phases, read : 0 .. LastCounter, left : SUBSET Routes]
    /\ mutex = Reader <=> reader.phase = "locked"
    /\ snapshot \in [Counters -> Nat]
    /\ timings \in [Routes -> Stats]
    /\ before \in [Counters -> Nat]
    /\ atLock \in [Routes -> Stats]
    /\ took \in [Routes -> Seq([time : Durations, failed : BOOLEAN])]

Init ==
    /\ counter = [i \in Counters |-> 0]
    /\ handlers = [r \in Routes |-> NewStat]
    /\ mutex = NoOne
    /\ found = [w \in Workers |-> NoOne]
    /\ reader = [phase |-> "idle", read |-> 0, left |-> {}]
    /\ snapshot = counter
    /\ timings = handlers
    /\ before = counter
    /\ atLock = handlers
    /\ took = [r \in Routes |-> <<>>]

-----------------------------------------------------------------------------
(* Counting.                                                               *)

Add(i) ==
    /\ counter[i] < MaxCount
    /\ counter' = [counter EXCEPT ![i] = @ + 1]
    /\ UNCHANGED <<handlers, mutex, found, reader, snapshot, timings, before,
                   atLock, took>>

(* Mutant: the mutex keeps nobody out.                                     *)
MutexFreeAlways == TRUE

MutexFree == mutex = NoOne

(* ObserveHandler: the mutex, and the look at the map.                     *)
LookUp(w, r) ==
    /\ found[w] = NoOne
    /\ MutexFree
    /\ Len(took[r]) < MaxCalls
    /\ mutex' = w
    /\ found' = [found EXCEPT ![w] = [route |-> r, ok |-> handlers[r].calls > 0]]
    /\ UNCHANGED <<counter, handlers, reader, snapshot, timings, before,
                   atLock, took>>

(* Mutant: the shortest call is that of the new handlerStat, which is 0.   *)
ObservedShortest(stat, time, failed) ==
    [calls  |-> stat.calls + 1,
     errors |-> stat.errors + (IF failed THEN 1 ELSE 0),
     total  |-> stat.total + time,
     min    |-> IF time < stat.min THEN time ELSE stat.min,
     max    |-> IF time > stat.max THEN time ELSE stat.max]

(* What one more call makes of a handlerStat.                              *)
Observed(stat, time, failed) ==
    [calls  |-> stat.calls + 1,
     errors |-> stat.errors + (IF failed THEN 1 ELSE 0),
     total  |-> stat.total + time,
     min    |-> IF stat.calls = 0 \/ time < stat.min THEN time ELSE stat.min,
     max    |-> IF time > stat.max THEN time ELSE stat.max]

(* ObserveHandler: a handlerStat that was not in the map is put there.     *)
Record(w, time, failed) ==
    /\ found[w] # NoOne
    /\ LET r == found[w].route
           stat == IF found[w].ok THEN handlers[r] ELSE NewStat
       IN /\ handlers' = [handlers EXCEPT ![r] = Observed(stat, time, failed)]
          /\ took' = [took EXCEPT ![r] =
                          Append(@, [time |-> time, failed |-> failed])]
    /\ found' = [found EXCEPT ![w] = NoOne]
    /\ mutex' = NoOne
    /\ UNCHANGED <<counter, reader, snapshot, timings, before, atLock>>

-----------------------------------------------------------------------------
(* Reporting.                                                              *)

(* Report begins, when Collect has not failed; a failure makes no report.  *)
Begin ==
    /\ reader.phase \in {"idle", "reported"}
    /\ reader' = [phase |-> "counting", read |-> 0, left |-> {}]
    /\ before' = counter
    /\ UNCHANGED <<counter, handlers, mutex, found, snapshot, timings, atLock,
                   took>>

(* Mutant: the reading of one counter goes to its neighbour.               *)
LoadedBeside(i) ==
    [snapshot EXCEPT ![i] = counter[IF i = LastCounter THEN 1 ELSE i + 1]]

Loaded(i) == [snapshot EXCEPT ![i] = counter[i]]

(* Snapshot reads the next counter.                                        *)
Load ==
    /\ reader.phase = "counting"
    /\ reader.read < LastCounter
    /\ snapshot' = Loaded(reader.read + 1)
    /\ reader' = [reader EXCEPT !.read = @ + 1]
    /\ UNCHANGED <<counter, handlers, mutex, found, timings, before, atLock,
                   took>>

(* Snapshot takes the mutex,                                               *)
LockTimings ==
    /\ reader.phase = "counting"
    /\ reader.read = LastCounter
    /\ MutexFree
    /\ mutex' = Reader
    /\ reader' = [reader EXCEPT !.phase = "locked", !.left = Routes]
    /\ atLock' = handlers
    /\ UNCHANGED <<counter, handlers, found, snapshot, timings, before, took>>

(* ranges over the map, in any order,                                      *)
ReadTiming(r) ==
    /\ reader.phase = "locked"
    /\ r \in reader.left
    /\ timings' = [timings EXCEPT ![r] = handlers[r]]
    /\ reader' = [reader EXCEPT !.left = @ \ {r}]
    /\ UNCHANGED <<counter, handlers, mutex, found, snapshot, before, atLock,
                   took>>

(* and lets go of it.  What is left is to sort the timings.                *)
Reported ==
    /\ reader.phase = "locked"
    /\ reader.left = {}
    /\ mutex' = NoOne
    /\ reader' = [reader EXCEPT !.phase = "reported"]
    /\ UNCHANGED <<counter, handlers, found, snapshot, timings, before, atLock,
                   took>>

Next ==
    \/ \E i \in Counters : Add(i)
    \/ \E w \in Workers, r \in Routes : LookUp(w, r)
    \/ \E w \in Workers, time \in Durations, failed \in BOOLEAN :
           Record(w, time, failed)
    \/ \E r \in Routes : ReadTiming(r)
    \/ Begin \/ Load \/ LockTimings \/ Reported

Spec == Init /\ [][Next]_vars

-----------------------------------------------------------------------------
(* A handlerStat says what there is to say of these calls.                 *)
Exact(stat, calls) ==
    LET times == {calls[i].time : i \in DOMAIN calls}
    IN /\ stat.calls = Len(calls)
       /\ stat.errors = Cardinality({i \in DOMAIN calls : calls[i].failed})
       /\ calls # <<>> =>
              /\ {stat.min, stat.max} \subseteq times
              /\ \A time \in times : stat.min <= time /\ time <= stat.max
       /\ stat.calls * stat.min <= stat.total
       /\ stat.total <= stat.calls * stat.max

(* The timings of a route are those of the calls that were made of it,     *)
(* however they came together: all are counted, the shortest and the       *)
(* longest are among them, and the average is in between (ObserveHandler). *)
TimingsExact == \A r \in Routes : Exact(handlers[r], took[r])

(* A snapshot "may mix adjacent instants", but no others: what it says of  *)
(* a counter was so between its beginning and now (Snapshot).              *)
SnapshotWithin ==
    reader.phase # "idle" =>
        \A i \in 1 .. reader.read :
            before[i] <= snapshot[i] /\ snapshot[i] <= counter[i]

(* The timings in a report are of one instant, whatever is recorded while  *)
(* they are read (Snapshot, under the mutex).                              *)
TimingsOfOneInstant == reader.phase = "reported" => timings = atLock

=============================================================================
