-------------------------- MODULE BroadcastProofs ---------------------------
(***************************************************************************)
(* Broadcasts keep their promises for any number of users, admins and      *)
(* deliveries under way, whatever fails and whenever the process restarts. *)
(*                                                                         *)
(* The report adds up only because every target is left until it has had   *)
(* its one turn, so that a copy more is a user more; a message goes out    *)
(* once because what is staged and what has been started share one count;  *)
(* and no tick of a ticker is used twice, because the one in its channel   *)
(* is paid for before it lets a target through.                            *)
(***************************************************************************)
EXTENDS Broadcast, FiniteSetTheorems, TLAPS

Reached(j) == {u \in Users : j.copies[u] > 0}

(* Every target but the first has taken up a tick, and the one that waits  *)
(* in the channel is still to be taken up.                                 *)
Ticked(j) ==
    /\ j.tick => j.ticks >= 1
    /\ j.delivered + j.failed + (IF j.tick THEN 1 ELSE 0) <= j.ticks + 1

(* One delivery, at any moment of it.                                      *)
JobSound(j) ==
    /\ j \in JobStates
    /\ j.at = "unused" => j = Unused
    /\ j.at # "unused" => j.admin \in Admins
    /\ j.at = "running" => j.payload \in Payloads
    /\ \A u \in Users : j.copies[u] <= 1
    /\ \A u \in j.left : j.copies[u] = 0
    /\ j.delivered + j.failed + Cardinality(j.left) = j.total
    /\ j.delivered <= Cardinality(Reached(j))
    /\ Cardinality(Reached(j)) <= j.delivered + j.failed
    /\ Ticked(j)

JobsOf(a) == {d \in Deliveries : job[d].admin = a}

Spent(a) == Cardinality(JobsOf(a)) + (IF pending[a] = Nothing THEN 0 ELSE 1)

IInv ==
    /\ rows \subseteq Users
    /\ pending \in [Admins -> Payloads \cup {Nothing}]
    /\ edition \in [Originals -> 0 .. MaxEdits]
    /\ previewed \in [Admins -> SUBSET Contents]
    /\ chats \in [Users \ Admins -> SUBSET Contents]
    /\ staged \in [Admins -> 0 .. MaxStaged]
    /\ restarts \in 0 .. MaxRestarts
    /\ job \in [Deliveries -> JobStates]
    /\ \A d \in Deliveries : JobSound(job[d])
    /\ \A a \in Admins : Spent(a) <= staged[a]
    /\ NothingLeavesUnconfirmed

-----------------------------------------------------------------------------
LEMMA CountFacts ==
    ASSUME NEW S \in SUBSET Users
    PROVE  /\ Cardinality(S) \in Nat
           /\ \A u \in S : Cardinality(S \ {u}) = Cardinality(S) - 1
           /\ \A u \in Users \ S : Cardinality(S \cup {u}) = Cardinality(S) + 1
<1>1. IsFiniteSet(S) /\ Cardinality(S) \in Nat
  BY BroadcastAssumption, FS_Subset, FS_CardinalityType
<1> QED
  BY <1>1, FS_RemoveElement, FS_AddElement

LEMMA UnusedSound == JobSound(Unused)
<1>1. Reached(Unused) = {} /\ Unused.left = {} /\ Unused.at = "unused"
  BY DEF Reached, Unused
<1>2. Cardinality({}) = 0
  BY FS_EmptySet
<1>3. Unused \in JobStates
  BY DEF Unused, JobStates
<1>4. Unused.delivered = 0 /\ Unused.failed = 0 /\ Unused.total = 0
      /\ Unused.tick = FALSE /\ Unused.ticks = 0
      /\ \A u \in Users : Unused.copies[u] = 0
  BY DEF Unused
<1> QED
  BY <1>1, <1>2, <1>3, <1>4 DEF JobSound, Ticked

LEMMA StartedSound ==
    ASSUME IInv, NEW a \in Admins, NEW p \in Payloads
    PROVE  /\ JobSound(Started(a, p))
           /\ Started(a, p).admin = a
           /\ Started(a, p).sent = {}
<1> DEFINE j == Started(a, p)
<1>1. Cardinality(rows) \in Nat /\ rows \in SUBSET Users
  BY CountFacts DEF IInv
<1>2. j \in JobStates
  BY <1>1 DEF IInv, JobStates, Started, Audience
<1>3. /\ j.at = "running" /\ j.admin = a /\ j.payload = p /\ j.left = rows
      /\ j.total = Cardinality(rows) /\ j.delivered = 0 /\ j.failed = 0
      /\ j.sent = {} /\ j.copies = [u \in Users |-> 0]
      /\ j.tick = FALSE /\ j.ticks = 0
  BY DEF Started, Audience
<1> HIDE DEF j
<1>4. Reached(j) = {} /\ Cardinality({}) = 0
  BY <1>3, FS_EmptySet DEF Reached
<1>5. JobSound(j)
  BY <1>1, <1>2, <1>3, <1>4 DEF JobSound, Ticked
<1> QED
  BY <1>3, <1>5 DEF j

(* What a turn makes of a delivery, k before and n after.                  *)
Turned(n, k, c, send) ==
    /\ JobSound(n)
    /\ n.at = "running" /\ n.admin = k.admin
    /\ n.payload = k.payload /\ n.shown = k.shown
    /\ n.sent = IF send.arrived THEN k.sent \cup {c} ELSE k.sent

(* One target: the copy and the count it makes.                            *)
LEMMA DeliveredSound ==
    ASSUME NEW k, JobSound(k), k.at = "running", Due(k), NEW u \in k.left,
           NEW send \in Sends, NEW c \in Contents, NEW n,
           n = Passed(Counted(Sent(Awaited(k), u, c, send), send), u)
    PROVE  Turned(n, k, c, send)
<1> DEFINE a == Awaited(k)
           s == Sent(a, u, c, send)
           m == Counted(s, send)
<1>1. /\ k \in JobStates /\ u \in Users /\ k.left \in SUBSET Users
      /\ k.copies[u] = 0 /\ k.copies \in [Users -> Nat]
      /\ k.delivered \in Nat /\ k.failed \in Nat /\ k.total \in Nat
      /\ k.at # "unused" /\ k.admin \in Admins /\ k.payload \in Payloads
      /\ k.tick \in BOOLEAN /\ k.ticks \in Nat
  BY DEF JobSound, JobStates
<1> DEFINE b == k.tick /\ k.delivered + k.failed = 0
<1>0. /\ a \in JobStates
      /\ a.at = "running" /\ a.admin = k.admin /\ a.payload = k.payload
      /\ a.left = k.left /\ a.total = k.total /\ a.delivered = k.delivered
      /\ a.failed = k.failed /\ a.shown = k.shown /\ a.sent = k.sent
      /\ a.copies = k.copies /\ a.tick = b /\ a.ticks = k.ticks
  <2>1. a = [k EXCEPT !.tick = b] /\ b \in BOOLEAN
    BY DEF Awaited
  <2> HIDE DEF a, b
  <2> QED
    BY <1>1, <2>1 DEF JobStates
<1> HIDE DEF a, b
<1>2. /\ send.ok \in BOOLEAN /\ send.arrived \in BOOLEAN
      /\ send.ok => send.arrived
  BY DEF Sends
<1>3. /\ s \in JobStates
      /\ s.at = "running" /\ s.admin = k.admin /\ s.payload = k.payload
      /\ s.left = k.left /\ s.total = k.total /\ s.delivered = k.delivered
      /\ s.failed = k.failed /\ s.shown = k.shown
      /\ s.tick = b /\ s.ticks = k.ticks
      /\ s.sent = IF send.arrived THEN k.sent \cup {c} ELSE k.sent
      /\ s.copies = IF send.arrived THEN [k.copies EXCEPT ![u] = @ + 1]
                    ELSE k.copies
  <2>1. CASE send.arrived
    <3> DEFINE t == a.sent \cup {c}
               w == [a.copies EXCEPT ![u] = @ + 1]
    <3>1. w \in [Users -> Nat] /\ t \in SUBSET Contents
      BY <1>0, <1>1 DEF JobStates
    <3>2. s = [a EXCEPT !.sent = t, !.copies = w]
      BY <2>1 DEF Sent
    <3> HIDE DEF s, t, w
    <3>3. s \in JobStates
      BY <1>0, <3>1, <3>2 DEF JobStates
    <3>4. /\ s.at = "running" /\ s.admin = k.admin /\ s.payload = k.payload
          /\ s.left = k.left /\ s.total = k.total /\ s.delivered = k.delivered
          /\ s.failed = k.failed /\ s.shown = k.shown
          /\ s.tick = b /\ s.ticks = k.ticks
          /\ s.sent = t /\ s.copies = w
      BY <1>0, <3>2 DEF JobStates
    <3> QED
      BY <1>0, <2>1, <3>3, <3>4 DEF t, w
  <2>2. CASE ~send.arrived
    BY <1>0, <2>2 DEF Sent
  <2> QED
    BY <2>1, <2>2
<1> HIDE DEF s
<1>4. /\ m \in JobStates
      /\ m.at = "running" /\ m.admin = k.admin /\ m.payload = k.payload
      /\ m.left = k.left /\ m.total = k.total /\ m.shown = k.shown
      /\ m.sent = s.sent /\ m.copies = s.copies
      /\ m.tick = b /\ m.ticks = k.ticks
      /\ m.delivered = IF send.ok THEN k.delivered + 1 ELSE k.delivered
      /\ m.failed = IF send.ok THEN k.failed ELSE k.failed + 1
  BY <1>1, <1>3 DEF Counted, JobStates
<1> HIDE DEF m
<1>5. n = [m EXCEPT !.left = m.left \ {u}]
  BY DEF Passed, m, s, a
<1>6. /\ n \in JobStates
      /\ n.at = "running" /\ n.admin = k.admin /\ n.payload = k.payload
      /\ n.left = k.left \ {u} /\ n.total = k.total /\ n.shown = k.shown
      /\ n.sent = s.sent /\ n.copies = s.copies
      /\ n.tick = b /\ n.ticks = k.ticks
      /\ n.delivered = m.delivered /\ n.failed = m.failed
  BY <1>4, <1>5 DEF JobStates
<1>65. n.delivered + n.failed = k.delivered + k.failed + 1
       /\ n.delivered \in Nat /\ n.failed \in Nat
  BY <1>1, <1>2, <1>4, <1>6
<1>7. n.delivered + n.failed + Cardinality(n.left) = n.total
  <2>1. Cardinality(n.left) = Cardinality(k.left) - 1
        /\ Cardinality(k.left) \in Nat
    BY <1>1, <1>6, CountFacts
  <2>2. k.delivered + k.failed + Cardinality(k.left) = k.total
    BY DEF JobSound
  <2> QED
    BY <1>1, <1>6, <1>65, <2>1, <2>2
<1>8. /\ \A v \in Users : n.copies[v] <= 1
      /\ \A v \in n.left : n.copies[v] = 0
  BY <1>1, <1>3, <1>6 DEF JobSound
<1>9. /\ Cardinality(Reached(n)) =
             Cardinality(Reached(k)) + (IF send.arrived THEN 1 ELSE 0)
      /\ Cardinality(Reached(k)) \in Nat
  <2>1. Reached(k) \in SUBSET Users /\ u \in Users \ Reached(k)
    BY <1>1 DEF Reached
  <2>2. Reached(n) = IF send.arrived THEN Reached(k) \cup {u} ELSE Reached(k)
    BY <1>1, <1>3, <1>6 DEF Reached
  <2> QED
    BY <2>1, <2>2, CountFacts
<1>10. /\ n.delivered <= Cardinality(Reached(n))
       /\ Cardinality(Reached(n)) <= n.delivered + n.failed
  <2>1. /\ k.delivered <= Cardinality(Reached(k))
        /\ Cardinality(Reached(k)) <= k.delivered + k.failed
    BY DEF JobSound
  <2> QED
    BY <1>1, <1>2, <1>4, <1>6, <1>9, <2>1
(* The first target leaves the tick in the channel, any other takes it.    *)
<1>11. Ticked(n)
  <2>1. /\ k.tick => k.ticks >= 1
        /\ k.delivered + k.failed + (IF k.tick THEN 1 ELSE 0) <= k.ticks + 1
        /\ k.delivered + k.failed = 0 \/ k.tick
    BY DEF JobSound, Ticked, Due
  <2>2. n.ticks = k.ticks /\ (n.tick <=> k.tick /\ k.delivered + k.failed = 0)
    BY <1>6 DEF b
  <2>3. CASE k.delivered + k.failed = 0
    <3>1. (n.tick <=> k.tick) /\ n.delivered + n.failed = 1
      BY <1>65, <2>2, <2>3
    <3> QED
      BY <1>1, <2>1, <2>2, <3>1 DEF Ticked
  <2>4. CASE k.delivered + k.failed # 0
    <3>1. ~n.tick /\ k.tick
      BY <2>1, <2>2, <2>4
    <3> QED
      BY <1>1, <1>65, <2>1, <2>2, <3>1 DEF Ticked
  <2> QED
    BY <2>3, <2>4
<1>12. JobSound(n)
  BY <1>1, <1>6, <1>7, <1>8, <1>10, <1>11 DEF JobSound
<1> QED
  BY <1>3, <1>6, <1>12 DEF Turned

Relabelled(k, v, b) ==
    [k EXCEPT !.at = v, !.tick = b, !.ticks = IF b THEN @ + 1 ELSE @]

Labels == {"running", "reported", "unreported", "gone"}

(* A tick, the report and a restart change no figure of a delivery.        *)
LEMMA RelabelSound ==
    ASSUME NEW k, JobSound(k), k.at = "running", NEW b \in BOOLEAN,
           b => ~k.tick, NEW v \in Labels, NEW n,
           n = Relabelled(k, v, b)
    PROVE  JobSound(n) /\ n.admin = k.admin /\ n.sent = k.sent
           /\ n.payload = k.payload /\ n.shown = k.shown /\ n.at = v
<1>1. /\ k \in JobStates /\ k.admin \in Admins /\ k.payload \in Payloads
      /\ k.delivered \in Nat /\ k.failed \in Nat /\ k.ticks \in Nat
      /\ k.tick \in BOOLEAN
  BY DEF JobSound, JobStates
<1>2. /\ n \in JobStates
      /\ n.at = v /\ n.admin = k.admin /\ n.payload = k.payload
      /\ n.left = k.left /\ n.total = k.total /\ n.delivered = k.delivered
      /\ n.failed = k.failed /\ n.shown = k.shown /\ n.sent = k.sent
      /\ n.copies = k.copies
      /\ n.tick = b /\ n.ticks = IF b THEN k.ticks + 1 ELSE k.ticks
  <2> DEFINE t == IF b THEN k.ticks + 1 ELSE k.ticks
  <2>1. n = [k EXCEPT !.at = v, !.tick = b, !.ticks = t] /\ t \in Nat
    BY <1>1 DEF Relabelled
  <2>2. v \in {"unused", "running", "reported", "unreported", "gone"}
    BY DEF Labels
  <2> HIDE DEF t
  <2>3. n \in JobStates
    BY <1>1, <2>1, <2>2 DEF JobStates
  <2>4. /\ n.at = v /\ n.admin = k.admin /\ n.payload = k.payload
        /\ n.left = k.left /\ n.total = k.total /\ n.delivered = k.delivered
        /\ n.failed = k.failed /\ n.shown = k.shown /\ n.sent = k.sent
        /\ n.copies = k.copies /\ n.tick = b /\ n.ticks = t
    BY <1>1, <2>1 DEF JobStates
  <2> QED
    BY <2>3, <2>4 DEF t
<1>3. Reached(n) = Reached(k)
  BY <1>2 DEF Reached
<1>4. Ticked(n)
  <2>1. Ticked(k)
    BY DEF JobSound
  <2> QED
    BY <1>1, <1>2, <2>1 DEF Ticked
<1>5. v # "unused"
  BY DEF Labels
<1> QED
  BY <1>1, <1>2, <1>3, <1>4, <1>5 DEF JobSound

-----------------------------------------------------------------------------
(* The steps.                                                              *)

SentAny == UNION {job[d].sent : d \in Deliveries}

LEMMA JobsOfFinite ==
    ASSUME NEW a
    PROVE  IsFiniteSet(JobsOf(a)) /\ Cardinality(JobsOf(a)) \in Nat
<1>1. JobsOf(a) \subseteq Deliveries
  BY DEF JobsOf
<1> QED
  BY <1>1, BroadcastAssumption, FS_Subset, FS_CardinalityType

LEMMA ContentType ==
    ASSUME IInv, NEW p \in Payloads
    PROVE  Content(p) \in Contents
BY BroadcastAssumption DEF IInv, Content, Contents

(* Steps that start no delivery and stage nothing.                         *)
LEMMA SameAdmins ==
    ASSUME IInv, \A d \in Deliveries : job'[d].admin = job[d].admin,
           UNCHANGED pending
    PROVE  \A a \in Admins : Spent(a)' = Spent(a)
<1>1. ASSUME NEW a \in Admins PROVE JobsOf(a)' = JobsOf(a)
  BY DEF JobsOf
<1> QED
  BY <1>1 DEF Spent

LEMMA SentGrows ==
    ASSUME IInv, \A d \in Deliveries : job[d].sent \subseteq job'[d].sent,
           UNCHANGED chats
    PROVE  NothingLeavesUnconfirmed'
<1>1. SentAny \subseteq SentAny'
  BY DEF SentAny
<1> QED
  BY <1>1 DEF IInv, NothingLeavesUnconfirmed, SentAny

LEMMA InitHolds == Init => IInv
<1> SUFFICES ASSUME Init PROVE IInv
  OBVIOUS
<1>1. \A d \in Deliveries : JobSound(job[d])
  BY UnusedSound DEF Init
<1>2. job \in [Deliveries -> JobStates]
  BY <1>1, UnusedSound DEF Init, JobSound
<1>3. ASSUME NEW a \in Admins PROVE Spent(a) = 0
  <2>1. JobsOf(a) = {}
    BY BroadcastAssumption DEF Init, JobsOf, Unused
  <2> QED
    BY <2>1, FS_EmptySet DEF Spent, Init
<1>4. NothingLeavesUnconfirmed
  BY DEF Init, NothingLeavesUnconfirmed
<1> QED
  BY <1>1, <1>2, <1>3, <1>4, BroadcastAssumption DEF Init, IInv

LEMMA PrepareHolds ==
    ASSUME IInv, NEW a \in Admins, NEW p \in Payloads, BroadcastPrepare(a, p)
    PROVE  IInv'
<1>1. PICK send \in Sends, counted \in BOOLEAN :
        /\ Arrive(send, a, Content(p))
        /\ previewed' = IF send.arrived
                        THEN [previewed EXCEPT ![a] = @ \cup {Content(p)}]
                        ELSE previewed
        /\ IF StagedWhen(send) /\ counted
           THEN staged[a] < MaxStaged /\ Prepare(a, p)
           ELSE UNCHANGED <<pending, staged>>
        /\ UNCHANGED <<rows, job, edition, restarts>>
  BY DEF BroadcastPrepare
<1>2. UNCHANGED chats
  BY <1>1 DEF Arrive
<1>3. previewed' \in [Admins -> SUBSET Contents]
  BY <1>1, ContentType DEF IInv
<1>4. NothingLeavesUnconfirmed'
  BY <1>1, <1>2, SentGrows
<1>5. ASSUME NEW b \in Admins PROVE JobsOf(b)' = JobsOf(b)
  BY <1>1 DEF JobsOf
<1>6. CASE StagedWhen(send) /\ counted
  <2>1. /\ pending' = [pending EXCEPT ![a] = p]
        /\ staged' = [staged EXCEPT ![a] = @ + 1]
        /\ staged[a] < MaxStaged /\ staged[a] \in Nat
    BY <1>1, <1>6 DEF Prepare, IInv
  <2>2. staged' \in [Admins -> 0 .. MaxStaged]
    BY <2>1, BroadcastAssumption DEF IInv
  <2>3. ASSUME NEW b \in Admins PROVE Spent(b)' <= staged'[b]
    BY <1>5, <2>1, JobsOfFinite DEF IInv, Spent
  <2> QED
    BY <1>1, <1>2, <1>3, <1>4, <2>1, <2>2, <2>3 DEF IInv
<1>7. CASE ~(StagedWhen(send) /\ counted)
  <2>1. UNCHANGED <<pending, staged>>
    BY <1>1, <1>7
  <2>2. \A b \in Admins : Spent(b)' <= staged'[b]
    BY <2>1, <1>5 DEF IInv, Spent
  <2> QED
    BY <1>1, <1>2, <1>3, <1>4, <2>1, <2>2 DEF IInv
<1> QED
  BY <1>6, <1>7

LEMMA TestHolds ==
    ASSUME IInv, NEW a \in Admins, NEW p \in Payloads, BroadcastTest(a, p)
    PROVE  IInv'
<1>1. UNCHANGED vars
  BY DEF BroadcastTest, TestTargets, Arrive, vars
<1> QED
  BY <1>1 DEF IInv, vars, Spent, JobsOf, NothingLeavesUnconfirmed

LEMMA ConfirmHolds ==
    ASSUME IInv, NEW a \in Admins, BroadcastConfirm(a)
    PROVE  IInv'
<1>1. /\ pending' = [pending EXCEPT ![a] = Nothing]
      /\ pending[a] \in Payloads
      /\ UNCHANGED <<rows, edition, previewed, chats, staged, restarts>>
  BY DEF BroadcastConfirm, Take, IInv
<1>2. pending' \in [Admins -> Payloads \cup {Nothing}]
  BY <1>1 DEF IInv
<1>3. Cardinality(JobsOf(a)) + 1 <= staged[a] /\ staged[a] \in Nat
  BY JobsOfFinite DEF BroadcastConfirm, IInv, Spent
<1>4. CASE UNCHANGED job
  <2>1. ASSUME NEW b \in Admins PROVE Spent(b)' <= staged'[b]
    <3>1. JobsOf(b)' = JobsOf(b)
      BY <1>4 DEF JobsOf
    <3> QED
      BY <1>1, <1>3, <3>1, JobsOfFinite DEF IInv, Spent
  <2>2. NothingLeavesUnconfirmed'
    BY <1>1, <1>4, SentGrows
  <2> QED
    BY <1>1, <1>2, <1>4, <2>1, <2>2 DEF IInv
<1>5. ASSUME NEW d \in Deliveries, job[d].at = "unused",
             job' = [job EXCEPT ![d] = Started(a, pending[a])]
      PROVE  IInv'
  <2> DEFINE n == Started(a, pending[a])
  <2>1. JobSound(n) /\ n.admin = a /\ n \in JobStates
    BY <1>1, StartedSound DEF JobSound
  <2>2. job[d] = Unused /\ Unused.admin = Nothing /\ Unused.sent = {}
    BY <1>5 DEF IInv, JobSound, Unused
  <2> HIDE DEF n
  <2>3. job' = [job EXCEPT ![d] = n] /\ job \in [Deliveries -> JobStates]
    BY <1>5 DEF n, IInv
  <2>4. /\ job' \in [Deliveries -> JobStates]
        /\ \A e \in Deliveries : JobSound(job'[e])
    BY <2>1, <2>3 DEF IInv
  <2>5. ASSUME NEW b \in Admins PROVE Spent(b)' <= staged'[b]
    <3>1. CASE b = a
      <4>1. JobsOf(a)' = JobsOf(a) \cup {d} /\ d \notin JobsOf(a)
        BY <2>1, <2>2, <2>3, BroadcastAssumption DEF JobsOf
      <4>2. Cardinality(JobsOf(a)') = Cardinality(JobsOf(a)) + 1
        BY <4>1, JobsOfFinite, FS_AddElement
      <4>3. pending'[a] = Nothing
        BY <1>1 DEF IInv
      <4> QED
        BY <1>1, <1>3, <3>1, <4>2, <4>3, JobsOfFinite DEF Spent
    <3>2. CASE b # a
      <4>1. JobsOf(b)' = JobsOf(b)
        BY <2>1, <2>2, <2>3, <3>2, BroadcastAssumption DEF JobsOf
      <4> QED
        BY <1>1, <3>2, <4>1 DEF IInv, Spent
    <3> QED
      BY <3>1, <3>2
  <2>6. \A e \in Deliveries : job[e].sent \subseteq job'[e].sent
    BY <2>2, <2>3
  <2>7. NothingLeavesUnconfirmed'
    BY <1>1, <2>6, SentGrows
  <2> QED
    BY <1>1, <1>2, <2>4, <2>5, <2>7 DEF IInv
<1> QED
  BY <1>4, <1>5 DEF BroadcastConfirm

LEMMA CancelHolds ==
    ASSUME IInv, NEW a \in Admins, BroadcastCancel(a)
    PROVE  IInv'
<1>1. /\ pending' = [pending EXCEPT ![a] = Nothing]
      /\ UNCHANGED <<rows, job, edition, previewed, chats, staged, restarts>>
  BY DEF BroadcastCancel, Take
<1>2. ASSUME NEW b \in Admins PROVE Spent(b)' <= staged'[b]
  <2>1. JobsOf(b)' = JobsOf(b)
    BY <1>1 DEF JobsOf
  <2> QED
    BY <1>1, <2>1, JobsOfFinite DEF IInv, Spent
<1>3. NothingLeavesUnconfirmed'
  BY <1>1, SentGrows
<1> QED
  BY <1>1, <1>2, <1>3 DEF IInv

(* A step of a delivery, by what comes of it.                              *)
Delivering(d, n, u, send) ==
    /\ job[d].at = "running" /\ Due(job[d])
    /\ job[d].payload \in Payloads
    /\ Turned(n, job[d], Content(job[d].payload), send)
    /\ job' = [job EXCEPT ![d] = n]
    /\ Arrive(send, u, Content(job[d].payload))
    /\ UNCHANGED <<rows, pending, edition, previewed, staged, restarts>>

LEMMA OneDelivered ==
    ASSUME IInv, NEW d \in Deliveries, DeliverOne(d)
    PROVE  \E u \in Users, send \in Sends : \E n : Delivering(d, n, u, send)
<1> DEFINE k == job[d]
           c == Content(k.payload)
<1>1. PICK u \in k.left, send \in Sends :
        /\ k.at = "running" /\ Due(k)
        /\ job' = [job EXCEPT
               ![d] = Passed(Counted(Sent(Awaited(k), u, c, send), send), u)]
        /\ Arrive(send, u, c)
        /\ UNCHANGED <<rows, pending, edition, previewed, staged, restarts>>
  BY DEF DeliverOne
<1>2. JobSound(k) /\ k.payload \in Payloads /\ c \in Contents /\ u \in Users
  BY <1>1, ContentType DEF IInv, JobSound, JobStates
<1> DEFINE n == Passed(Counted(Sent(Awaited(k), u, c, send), send), u)
<1>3. job' = [job EXCEPT ![d] = n]
  BY <1>1
<1> HIDE DEF k, c, n
<1>4. /\ n = Passed(Counted(Sent(Awaited(k), u, c, send), send), u)
      /\ JobSound(k) /\ k.at = "running" /\ Due(k) /\ c \in Contents
  BY <1>1, <1>2 DEF n
<1>5. Turned(n, k, c, send)
  BY <1>4, DeliveredSound
<1>6. /\ Due(k) /\ Arrive(send, u, c)
      /\ UNCHANGED <<rows, pending, edition, previewed, staged, restarts>>
  BY <1>1
<1>7. u \in Users /\ send \in Sends
  BY <1>2
<1>8. Delivering(d, n, u, send)
  BY <1>2, <1>3, <1>4, <1>5, <1>6 DEF Delivering, k, c
<1> QED
  BY <1>7, <1>8

LEMMA DeliverHolds ==
    ASSUME IInv, NEW d \in Deliveries, DeliverOne(d)
    PROVE  IInv'
<1> DEFINE k == job[d]
           c == Content(k.payload)
<1>1. PICK u \in Users, send \in Sends : \E n : Delivering(d, n, u, send)
  BY OneDelivered
<1>2. PICK n : Delivering(d, n, u, send)
  BY <1>1
<1>3. /\ JobSound(n) /\ n.admin = k.admin
      /\ n.sent = IF send.arrived THEN k.sent \cup {c} ELSE k.sent
      /\ job' = [job EXCEPT ![d] = n]
      /\ UNCHANGED <<rows, pending, edition, previewed, staged, restarts>>
  BY <1>2 DEF Delivering, Turned
<1>4. c \in Contents
  BY <1>2, ContentType DEF Delivering
<1>5. Arrive(send, u, c) /\ send.arrived \in BOOLEAN
  BY <1>2 DEF Delivering, Sends
<1> HIDE DEF c, k
<1>6. job \in [Deliveries -> JobStates] /\ k = job[d] /\ n \in JobStates
  BY <1>3 DEF IInv, k, JobSound
<1>7. /\ job' \in [Deliveries -> JobStates]
      /\ \A e \in Deliveries : JobSound(job'[e])
      /\ \A e \in Deliveries : job'[e].admin = job[e].admin
      /\ \A e \in Deliveries : job[e].sent \subseteq job'[e].sent
  BY <1>3, <1>6 DEF IInv
<1>8. chats' \in [Users \ Admins -> SUBSET Contents]
  BY <1>4, <1>5 DEF IInv, Arrive
<1>9. NothingLeavesUnconfirmed'
  <2>1. CASE UNCHANGED chats
    BY <2>1, <1>7, SentGrows
  <2>2. CASE send.arrived /\ u \notin Admins
    <3>1. SentAny \subseteq SentAny' /\ c \in SentAny'
      BY <1>3, <1>6, <1>7, <2>2 DEF SentAny
    <3>2. chats' = [chats EXCEPT ![u] = @ \cup {c}]
      BY <1>5, <2>2 DEF Arrive
    <3> QED
      BY <3>1, <3>2 DEF IInv, NothingLeavesUnconfirmed, SentAny
  <2> QED
    BY <2>1, <2>2, <1>5 DEF Arrive
<1>10. \A a \in Admins : Spent(a)' <= staged'[a]
  BY <1>3, <1>7, SameAdmins DEF IInv
<1> QED
  BY <1>3, <1>7, <1>8, <1>9, <1>10 DEF IInv

(* The steps that relabel deliveries under way do no more to them.         *)
LEMMA Relabels ==
    ASSUME IInv,
           \/ Restart
           \/ \E e \in Deliveries : Pace(e) \/ SendReport(e) \/ Panic(e)
    PROVE  /\ job' = [d \in Deliveries |-> job'[d]]
           /\ \A d \in Deliveries :
                  \/ job'[d] = job[d]
                  \/ /\ job[d].at = "running"
                     /\ \E v \in Labels, b \in BOOLEAN :
                            /\ b => ~job[d].tick
                            /\ job'[d] = Relabelled(job[d], v, b)
<1>1. CASE Restart
  <2>1. job' = [d \in Deliveries |->
                   IF job[d].at = "running"
                   THEN [job[d] EXCEPT !.at = "gone", !.tick = FALSE]
                   ELSE job[d]]
    BY <1>1 DEF Restart
  <2>2. ASSUME NEW d \in Deliveries, job[d].at = "running"
        PROVE  job'[d] = Relabelled(job[d], "gone", FALSE)
    BY <2>1, <2>2 DEF IInv, JobStates, Relabelled
  <2> QED
    BY <2>1, <2>2 DEF Labels
<1>2. ASSUME NEW e \in Deliveries, Pace(e)
      PROVE  /\ job' = [d \in Deliveries |-> job'[d]]
             /\ job[e].at = "running" /\ ~job[e].tick
             /\ job'[e] = Relabelled(job[e], "running", TRUE)
             /\ \A d \in Deliveries : d # e => job'[d] = job[d]
  BY <1>2 DEF Pace, IInv, JobStates, Relabelled
<1>3. ASSUME NEW e \in Deliveries, SendReport(e)
      PROVE  /\ job' = [d \in Deliveries |-> job'[d]]
             /\ job[e].at = "running"
             /\ \E v \in {"reported", "unreported"} :
                    job'[e] = Relabelled(job[e], v, FALSE)
             /\ \A d \in Deliveries : d # e => job'[d] = job[d]
  <2>1. PICK send \in Sends :
          job' = [job EXCEPT
                     ![e].at = IF send.arrived THEN "reported"
                               ELSE "unreported",
                     ![e].tick = FALSE]
    BY <1>3 DEF SendReport
  <2> DEFINE v == IF send.arrived THEN "reported" ELSE "unreported"
  <2>2. v \in {"reported", "unreported"}
    OBVIOUS
  <2>3. job' = [job EXCEPT ![e].at = v, ![e].tick = FALSE]
        /\ job \in [Deliveries -> JobStates] /\ job[e].at = "running"
    BY <1>3, <2>1 DEF SendReport, IInv
  <2> HIDE DEF v
  <2>4. job'[e] = [job[e] EXCEPT !.at = v, !.tick = FALSE]
        /\ job[e] \in JobStates
    BY <2>3
  <2>5. job'[e] = Relabelled(job[e], v, FALSE)
    BY <2>4 DEF JobStates, Relabelled
  <2> QED
    BY <2>2, <2>3, <2>5
<1>4. ASSUME NEW e \in Deliveries, Panic(e)
      PROVE  /\ job' = [d \in Deliveries |-> job'[d]]
             /\ job[e].at = "running"
             /\ job'[e] = Relabelled(job[e], "gone", FALSE)
             /\ \A d \in Deliveries : d # e => job'[d] = job[d]
  <2>1. /\ job' = [job EXCEPT ![e].at = "gone", ![e].tick = FALSE]
        /\ job[e].at = "running"
    BY <1>4 DEF Panic
  <2>2. job \in [Deliveries -> JobStates]
    BY DEF IInv
  <2>3. /\ job'[e] = [job[e] EXCEPT !.at = "gone", !.tick = FALSE]
        /\ job[e] \in JobStates
    BY <2>1, <2>2
  <2>4. job'[e] = Relabelled(job[e], "gone", FALSE)
    BY <2>3 DEF JobStates, Relabelled
  <2> QED
    BY <2>1, <2>2, <2>4
<1>5. ASSUME NEW e \in Deliveries, Pace(e) \/ SendReport(e) \/ Panic(e)
      PROVE  /\ job' = [d \in Deliveries |-> job'[d]]
             /\ job[e].at = "running"
             /\ \E v \in Labels, b \in BOOLEAN :
                    (b => ~job[e].tick) /\ job'[e] = Relabelled(job[e], v, b)
             /\ \A d \in Deliveries : d # e => job'[d] = job[d]
  <2>1. CASE Pace(e)
    BY <1>2, <2>1 DEF Labels
  <2>2. CASE SendReport(e)
    BY <1>3, <2>2 DEF Labels
  <2>3. CASE Panic(e)
    BY <1>4, <2>3 DEF Labels
  <2> QED
    BY <1>5, <2>1, <2>2, <2>3
<1> QED
  BY <1>1, <1>5

LEMMA RelabelledSound ==
    ASSUME IInv,
           \/ Restart
           \/ \E e \in Deliveries : Pace(e) \/ SendReport(e) \/ Panic(e),
           NEW d \in Deliveries
    PROVE  /\ JobSound(job'[d])
           /\ job'[d].admin = job[d].admin /\ job'[d].sent = job[d].sent
           /\ job'[d].payload = job[d].payload /\ job'[d].shown = job[d].shown
           /\ job'[d].at = "running" => job[d].at = "running"
<1> DEFINE k == job[d]
           n == job'[d]
<1>1. JobSound(k)
  BY DEF IInv
<1>2. \/ n = k
      \/ /\ k.at = "running"
         /\ \E v \in Labels, b \in BOOLEAN :
                (b => ~k.tick) /\ n = Relabelled(k, v, b)
  BY Relabels
<1> HIDE DEF k, n
<1>3. CASE n = k
  BY <1>1, <1>3 DEF k, n
<1>4. ASSUME NEW v \in Labels, NEW b \in BOOLEAN, b => ~k.tick,
             k.at = "running", n = Relabelled(k, v, b)
      PROVE  /\ JobSound(n) /\ n.admin = k.admin /\ n.sent = k.sent
             /\ n.payload = k.payload /\ n.shown = k.shown
  BY <1>1, <1>4, RelabelSound
<1> QED
  BY <1>2, <1>3, <1>4 DEF k, n

LEMMA RelabelHolds ==
    ASSUME IInv,
           \/ Restart
           \/ \E e \in Deliveries : Pace(e) \/ SendReport(e) \/ Panic(e)
    PROVE  IInv'
<1>1. job' = [d \in Deliveries |-> job'[d]]
  BY Relabels
<1>2. /\ rows' = rows /\ edition' = edition /\ chats' = chats
      /\ staged' = staged
      /\ previewed' \in [Admins -> SUBSET Contents]
      /\ restarts' \in 0 .. MaxRestarts
  <2>1. CASE \E e \in Deliveries : Pace(e)
    BY <2>1 DEF Pace, IInv
  <2>2. CASE Restart
    <3>1. /\ rows' = rows /\ edition' = edition /\ chats' = chats
          /\ staged' = staged
          /\ previewed' = [a \in Admins |-> {}]
          /\ restarts < MaxRestarts /\ restarts' = restarts + 1
      BY <2>2 DEF Restart
    <3> QED
      BY <3>1, BroadcastAssumption DEF IInv
  <2>3. CASE \E e \in Deliveries : SendReport(e) \/ Panic(e)
    BY <2>3 DEF SendReport, Panic, IInv
  <2> QED
    BY <2>1, <2>2, <2>3
<1>3. pending' = pending \/ pending' = [a \in Admins |-> Nothing]
  BY DEF Pace, Restart, SendReport, Panic, StagedAfterRestart
<1>4. \A d \in Deliveries : /\ JobSound(job'[d])
                            /\ job'[d].admin = job[d].admin
                            /\ job'[d].sent = job[d].sent
  BY RelabelledSound
<1>5. job' \in [Deliveries -> JobStates]
  BY <1>1, <1>4 DEF JobSound
<1>6. NothingLeavesUnconfirmed'
  BY <1>2, <1>4, SentGrows
<1>7. ASSUME NEW a \in Admins PROVE Spent(a)' <= staged'[a]
  <2>1. JobsOf(a)' = JobsOf(a) /\ Cardinality(JobsOf(a)) \in Nat
    BY <1>4, JobsOfFinite DEF JobsOf
  <2>2. pending'[a] = pending[a] \/ pending'[a] = Nothing
    BY <1>3
  <2>3. Spent(a) <= staged[a] /\ staged'[a] = staged[a] /\ staged[a] \in Nat
    BY <1>2 DEF IInv
  <2> QED
    BY <2>1, <2>2, <2>3 DEF Spent
<1> QED
  BY <1>2, <1>3, <1>4, <1>5, <1>6, <1>7 DEF IInv

(* What no delivery and no staged message takes part in.                   *)
LEMMA WorldHolds ==
    ASSUME IInv,
           \/ \E u \in Users : Join(u)
           \/ \E m \in Originals : Edit(m)
           \/ UNCHANGED vars
    PROVE  IInv'
<1>1. /\ UNCHANGED <<pending, job, previewed, chats, staged, restarts>>
      /\ rows' \subseteq Users
      /\ edition' \in [Originals -> 0 .. MaxEdits]
  BY BroadcastAssumption DEF IInv, Join, Edit, vars
<1>2. NothingLeavesUnconfirmed'
  BY <1>1, SentGrows
<1>3. \A a \in Admins : JobsOf(a)' = JobsOf(a)
  BY <1>1 DEF JobsOf
<1> QED
  BY <1>1, <1>2, <1>3 DEF IInv, Spent

LEMMA NextHolds == IInv /\ [Next]_vars => IInv'
<1> SUFFICES ASSUME IInv, [Next]_vars PROVE IInv'
  OBVIOUS
<1>1. ASSUME NEW a \in Admins,
             \/ \E p \in Payloads : BroadcastPrepare(a, p) \/ BroadcastTest(a, p)
             \/ BroadcastConfirm(a)
             \/ BroadcastCancel(a)
      PROVE  IInv'
  BY <1>1, PrepareHolds, TestHolds, ConfirmHolds, CancelHolds
<1>2. ASSUME NEW d \in Deliveries, DeliverOne(d) PROVE IInv'
  BY <1>2, DeliverHolds
<1>3. CASE \/ Restart
         \/ \E d \in Deliveries : Pace(d) \/ SendReport(d) \/ Panic(d)
  BY <1>3, RelabelHolds
<1>4. CASE \/ \E u \in Users : Join(u)
           \/ \E m \in Originals : Edit(m)
           \/ UNCHANGED vars
  BY <1>4, WorldHolds
<1> QED
  BY <1>1, <1>2, <1>3, <1>4 DEF Next

-----------------------------------------------------------------------------
(* Every delivery is sound at every moment.                                *)
THEOREM DeliveriesStaySound == Spec => []IInv
<1> QED
  BY InitHolds, NextHolds, PTL DEF Spec

(* The state has its shape (Service and the deliveries under way).         *)
THEOREM TypeCorrect == Spec => []TypeOK
<1>1. IInv => TypeOK
  BY DEF IInv, TypeOK
<1> QED
  BY <1>1, DeliveriesStaySound, PTL

(* A staged message goes out once, and to nobody twice (Take, Deliver).    *)
THEOREM OncePerStagingHolds == Spec => []OncePerStaging
<1>1. IInv => OncePerStaging
  BY DEF IInv, OncePerStaging, JobSound, Spent, JobsOf
<1> QED
  BY <1>1, DeliveriesStaySound, PTL

(* The report adds up to the audience, and errs only by failures that went *)
(* through all the same (Deliver).                                         *)
THEOREM ReportAddsUpHolds == Spec => []ReportAddsUp
<1>1. IInv => ReportAddsUp
  BY DEF IInv, ReportAddsUp, JobSound, Reached
<1> QED
  BY <1>1, DeliveriesStaySound, PTL

(* One to n targets take n - 1 ticks of the delivery's own ticker, however *)
(* many deliveries are under way and however long a send takes (Deliver).  *)
THEOREM DeliveriesSpacedHolds == Spec => []DeliveriesSpaced
<1>1. IInv => DeliveriesSpaced
  <2> SUFFICES ASSUME IInv, NEW d \in Deliveries
               PROVE  job[d].delivered + job[d].failed <= job[d].ticks + 1
    BY DEF DeliveriesSpaced
  <2>1. Ticked(job[d]) /\ job[d] \in JobStates
    BY DEF IInv, JobSound
  <2> QED
    BY <2>1 DEF Ticked, JobStates
<1> QED
  BY <1>1, DeliveriesStaySound, PTL

(* Users get nothing an admin has not confirmed (BroadcastPrepare,         *)
(* BroadcastTest, BroadcastConfirm).                                       *)
THEOREM NothingLeavesUnconfirmedHolds == Spec => []NothingLeavesUnconfirmed
<1>1. IInv => NothingLeavesUnconfirmed
  BY DEF IInv
<1> QED
  BY <1>1, DeliveriesStaySound, PTL

-----------------------------------------------------------------------------
(* A message that has been shown, as it is now or in an earlier edition.   *)
Seen(p, shown) == \E s \in shown : s[1] = p /\ s[2] <= Content(p)[2]

SentSeen(j) == \A c \in j.sent : \E s \in j.shown : s[1] = c[1] /\ s[2] <= c[2]

(* What an admin has staged they have been shown, and what they had been   *)
(* shown goes along with the delivery.                                     *)
Shown ==
    /\ \A a \in Admins : pending[a] # Nothing => Seen(pending[a], previewed[a])
    /\ \A d \in Deliveries :
           /\ SentSeen(job[d])
           /\ job[d].at = "running" => Seen(job[d].payload, job[d].shown)

LEMMA ContentFacts ==
    ASSUME IInv, NEW p \in Payloads
    PROVE  Content(p)[1] = p /\ Content(p)[2] \in Nat
BY BroadcastAssumption DEF IInv, Content

LEMMA ShownByAdmins ==
    ASSUME IInv, Shown, NEW a \in Admins,
           \/ \E p \in Payloads : BroadcastPrepare(a, p) \/ BroadcastTest(a, p)
           \/ BroadcastConfirm(a)
           \/ BroadcastCancel(a)
    PROVE  Shown'
<1>1. edition' = edition
  BY DEF BroadcastPrepare, BroadcastTest, BroadcastConfirm, BroadcastCancel
<1>2. \A p, shown : (\E s \in shown : s[1] = p /\ s[2] <= Content(p)[2]')
                       <=> Seen(p, shown)
  BY <1>1 DEF Seen, Content
<1>3. ASSUME NEW p \in Payloads, BroadcastPrepare(a, p) PROVE Shown'
  <2>1. PICK send \in Sends, counted \in BOOLEAN :
          /\ previewed' = IF send.arrived
                          THEN [previewed EXCEPT ![a] = @ \cup {Content(p)}]
                          ELSE previewed
          /\ IF send.ok /\ counted
             THEN pending' = [pending EXCEPT ![a] = p]
             ELSE UNCHANGED pending
          /\ UNCHANGED job
    BY <1>3 DEF BroadcastPrepare, Prepare, StagedWhen
  <2>2. send.ok => send.arrived
    BY DEF Sends
  <2>3. Seen(p, previewed[a] \cup {Content(p)})
    <3>1. Content(p) \in previewed[a] \cup {Content(p)}
      OBVIOUS
    <3>2. Content(p)[1] = p /\ Content(p)[2] <= Content(p)[2]
      BY ContentFacts
    <3> QED
      BY <3>1, <3>2 DEF Seen
  <2>4. pending \in [Admins -> Payloads \cup {Nothing}]
        /\ previewed \in [Admins -> SUBSET Contents]
    BY DEF IInv
  <2>5. ASSUME NEW b \in Admins, pending'[b] # Nothing
        PROVE  Seen(pending'[b], previewed'[b])
    <3>1. CASE b = a /\ send.ok /\ counted
      BY <2>1, <2>2, <2>3, <2>4, <3>1
    <3>2. CASE ~(b = a /\ send.ok /\ counted)
      <4>1. pending'[b] = pending[b] /\ Seen(pending[b], previewed[b])
        BY <2>1, <2>4, <2>5, <3>2 DEF Shown
      <4>2. previewed[b] \subseteq previewed'[b]
        BY <2>1, <2>4
      <4> QED
        BY <4>1, <4>2 DEF Seen
    <3> QED
      BY <3>1, <3>2
  <2> QED
    BY <1>1, <2>1, <2>5 DEF Shown, Seen, SentSeen, Content
<1>4. ASSUME NEW p \in Payloads, BroadcastTest(a, p) PROVE Shown'
  BY <1>1, <1>4 DEF BroadcastTest, Shown, Seen, SentSeen, Content
<1>5. ASSUME BroadcastConfirm(a) \/ BroadcastCancel(a),
             UNCHANGED job
      PROVE  Shown'
  <2>1. pending' = [pending EXCEPT ![a] = Nothing] /\ UNCHANGED previewed
    BY <1>5 DEF BroadcastConfirm, BroadcastCancel, Take
  <2>2. ASSUME NEW b \in Admins, pending'[b] # Nothing
        PROVE  pending'[b] = pending[b]
    BY <2>1, <2>2 DEF IInv
  <2> QED
    BY <1>1, <1>5, <2>1, <2>2 DEF Shown, Seen, SentSeen, Content
<1>6. ASSUME BroadcastConfirm(a), NEW d \in Deliveries,
             job' = [job EXCEPT ![d] = Started(a, pending[a])]
      PROVE  Shown'
  <2> DEFINE n == Started(a, pending[a])
  <2>1. /\ n.sent = {} /\ n.payload = pending[a] /\ pending[a] # Nothing
        /\ n.shown = {s \in previewed[a] : s[1] = pending[a]}
    BY <1>6 DEF Started, Audience, BroadcastConfirm
  <2> HIDE DEF n
  <2>2. job' = [job EXCEPT ![d] = n] /\ job \in [Deliveries -> JobStates]
    BY <1>6 DEF n, IInv
  <2>3. SentSeen(n) /\ Seen(n.payload, n.shown)
    BY <2>1 DEF Shown, Seen, SentSeen
  <2>4. ASSUME NEW e \in Deliveries
        PROVE  /\ SentSeen(job'[e])
               /\ job'[e].at = "running" => Seen(job'[e].payload, job'[e].shown)
    BY <2>2, <2>3 DEF Shown
  <2>5. pending' = [pending EXCEPT ![a] = Nothing] /\ UNCHANGED previewed
    BY <1>6 DEF BroadcastConfirm, Take
  <2>6. ASSUME NEW b \in Admins, pending'[b] # Nothing
        PROVE  pending'[b] = pending[b]
    BY <2>5, <2>6 DEF IInv
  <2> QED
    BY <1>1, <2>4, <2>5, <2>6 DEF Shown, Seen, SentSeen, Content
<1>7. BroadcastCancel(a) => UNCHANGED job
  BY DEF BroadcastCancel
<1>8. BroadcastConfirm(a) =>
          \/ UNCHANGED job
          \/ \E d \in Deliveries : job' = [job EXCEPT ![d] = Started(a, pending[a])]
  BY DEF BroadcastConfirm
<1> QED
  BY <1>3, <1>4, <1>5, <1>6, <1>7, <1>8

LEMMA ShownByDelivery ==
    ASSUME IInv, Shown, NEW d \in Deliveries, DeliverOne(d)
    PROVE  Shown'
<1> DEFINE k == job[d]
           c == Content(k.payload)
<1>1. PICK u \in Users, send \in Sends : \E n : Delivering(d, n, u, send)
  BY OneDelivered
<1>2. PICK n : Delivering(d, n, u, send)
  BY <1>1
<1>3. /\ k.at = "running" /\ k.payload \in Payloads
      /\ n.payload = k.payload /\ n.shown = k.shown
      /\ n.sent = IF send.arrived THEN k.sent \cup {c} ELSE k.sent
      /\ job' = [job EXCEPT ![d] = n]
      /\ UNCHANGED <<pending, previewed, edition>>
  BY <1>2 DEF Delivering, Turned
<1>4. SentSeen(k) /\ Seen(k.payload, k.shown) /\ c[1] = k.payload
  BY <1>3, ContentFacts DEF Shown
<1>5. \E s \in k.shown : s[1] = c[1] /\ s[2] <= c[2]
  BY <1>4 DEF Seen
<1> HIDE DEF c, k
<1>6. SentSeen(n) /\ Seen(n.payload, n.shown)
  BY <1>3, <1>4, <1>5 DEF SentSeen
<1>7. ASSUME NEW e \in Deliveries
      PROVE  /\ SentSeen(job'[e])
             /\ job'[e].at = "running" => Seen(job'[e].payload, job'[e].shown)
  BY <1>3, <1>6 DEF Shown, IInv
<1> QED
  BY <1>3, <1>7 DEF Shown, Seen, SentSeen, Content

(* An edit only makes what was shown an earlier edition.                   *)
LEMMA ShownByEdit ==
    ASSUME IInv, Shown, NEW m \in Originals, Edit(m)
    PROVE  Shown'
<1>1. /\ edition' = [edition EXCEPT ![m] = @ + 1]
      /\ edition \in [Originals -> 0 .. MaxEdits]
      /\ UNCHANGED <<pending, job, previewed>>
  BY DEF Edit, IInv
<1>2. ASSUME NEW p \in Payloads, NEW shown \in SUBSET Contents, Seen(p, shown)
      PROVE  \E s \in shown : s[1] = p /\ s[2] <= Content(p)[2]'
  <2>1. PICK s \in shown : s[1] = p /\ s[2] <= Content(p)[2]
    BY <1>2 DEF Seen
  <2>2. s[2] \in Nat
    BY <2>1, BroadcastAssumption DEF Contents
  <2>3. Content(p)[2] \in Nat /\ Content(p)[2]' \in Nat
        /\ Content(p)[2] <= Content(p)[2]'
    BY <1>1, BroadcastAssumption DEF Content
  <2> QED
    BY <2>1, <2>2, <2>3
<1>3. ASSUME NEW a \in Admins, pending[a] # Nothing
      PROVE  Seen(pending[a], previewed[a])'
  <2>1. pending[a] \in Payloads /\ previewed[a] \in SUBSET Contents
    BY <1>3 DEF IInv
  <2>2. Seen(pending[a], previewed[a])
    BY <1>3 DEF Shown
  <2>3. \E s \in previewed[a] :
            s[1] = pending[a] /\ s[2] <= Content(pending[a])[2]'
    BY <1>1, <1>2, <2>1, <2>2 DEF Content
  <2> QED
    BY <1>1, <2>3 DEF Seen, Content
<1>4. ASSUME NEW d \in Deliveries, job[d].at = "running"
      PROVE  Seen(job[d].payload, job[d].shown)'
  <2>1. job[d].payload \in Payloads /\ job[d].shown \in SUBSET Contents
    BY <1>4 DEF IInv, JobSound, JobStates
  <2>2. Seen(job[d].payload, job[d].shown)
    BY <1>4 DEF Shown
  <2>3. \E s \in job[d].shown :
            s[1] = job[d].payload /\ s[2] <= Content(job[d].payload)[2]'
    BY <1>1, <1>2, <2>1, <2>2 DEF Content
  <2> QED
    BY <1>1, <2>3 DEF Seen, Content
<1> QED
  BY <1>1, <1>3, <1>4 DEF Shown, SentSeen

LEMMA ShownByTheRest ==
    ASSUME IInv, Shown,
           \/ Restart
           \/ \E d \in Deliveries : Pace(d) \/ SendReport(d) \/ Panic(d)
           \/ \E u \in Users : Join(u)
           \/ UNCHANGED vars
    PROVE  Shown'
<1>1. CASE \/ Restart
         \/ \E d \in Deliveries : Pace(d) \/ SendReport(d) \/ Panic(d)
  <2>1. \/ UNCHANGED <<pending, previewed>>
        \/ pending' = [a \in Admins |-> Nothing]
    BY <1>1 DEF Pace, Restart, SendReport, Panic, StagedAfterRestart
  <2>2. \A d \in Deliveries :
            /\ job'[d].sent = job[d].sent /\ job'[d].shown = job[d].shown
            /\ job'[d].payload = job[d].payload
            /\ job'[d].at = "running" => job[d].at = "running"
    BY <1>1, RelabelledSound
  <2>3. edition' = edition
    BY <1>1 DEF Pace, Restart, SendReport, Panic
  <2>4. ASSUME NEW a \in Admins, pending'[a] # Nothing
        PROVE  pending'[a] = pending[a] /\ previewed'[a] = previewed[a]
    BY <2>1, <2>4
  <2> QED
    BY <2>2, <2>3, <2>4 DEF Shown, Seen, SentSeen, Content
<1>2. CASE (\E u \in Users : Join(u)) \/ UNCHANGED vars
  BY <1>2 DEF Join, vars, Shown, Seen, SentSeen, Content
<1> QED
  BY <1>1, <1>2

(* What goes out is what the admin who confirmed it had been shown, but    *)
(* for edits of an original (preview, Prepare, Take).                      *)
THEOREM SentWasPreviewedHolds == Spec => []SentWasPreviewed
<1>1. Init => Shown
  BY DEF Init, Shown, SentSeen, Unused
<1>2. IInv /\ Shown /\ [Next]_vars => Shown'
  <2> SUFFICES ASSUME IInv, Shown, [Next]_vars PROVE Shown'
    OBVIOUS
  <2> QED
    BY ShownByAdmins, ShownByDelivery, ShownByEdit, ShownByTheRest DEF Next
<1>3. Shown => SentWasPreviewed
  BY DEF Shown, SentSeen, SentWasPreviewed
<1> QED
  BY <1>1, <1>2, <1>3, DeliveriesStaySound, PTL DEF Spec

=============================================================================
