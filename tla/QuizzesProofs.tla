--------------------------- MODULE QuizzesProofs ----------------------------
(***************************************************************************)
(* The registry of questions stays consistent for any number of users and  *)
(* polls, forwarded or not; and no run is left without a question whose    *)
(* user forwards none.                                                     *)
(*                                                                         *)
(* The two maps are inverse to each other, so that whatever is taken or    *)
(* forgotten is forgotten on both sides; a question is open only until it  *)
(* is settled, and its clock has then run out or been stopped.             *)
(***************************************************************************)
EXTENDS Quizzes, TLAPS

(* One poll: before it is sent, open, and after.                           *)
PollSound(p) ==
    /\ open[p] # Nobody => /\ sentTo[p] = open[p]
                           /\ settled[p] = 0
                           /\ clock[p] \in {"running", "fired"}
    /\ sentTo[p] = Nobody => clock[p] = "unset" /\ settled[p] = 0
    /\ clock[p] = "running" => open[p] # Nobody
    /\ settled[p] <= 1

(* One user: a dispatch under way, and a question, only in a run.          *)
UserSound(u) ==
    /\ u \notin inRun => current[u] = NoPoll
    /\ doing[u] # "nothing" => u \in inRun
    /\ doing[u] # "leave" => missed[u] < MissesBeforeStopping

IInv ==
    /\ TypeOK
    /\ RegistryConsistent
    /\ \A p \in Polls : PollSound(p)
    /\ \A u \in Users : UserSound(u)

-----------------------------------------------------------------------------
LEMMA InitHolds == Init => IInv
<1> SUFFICES ASSUME Init PROVE IInv
  OBVIOUS
<1>1. TypeOK
  BY DEF Init, TypeOK, Clocks, MissesBeforeStopping
<1>2. RegistryConsistent
  BY QuizzesAssumption DEF Init, RegistryConsistent
<1>3. \A p \in Polls : PollSound(p)
  BY DEF Init, PollSound
<1>4. \A u \in Users : UserSound(u)
  BY DEF Init, UserSound, MissesBeforeStopping
<1> QED
  BY <1>1, <1>2, <1>3, <1>4 DEF IInv

(* What leaves the registry, the clocks and the polls alone.               *)
LEMMA RegistryStays ==
    ASSUME IInv, UNCHANGED <<open, current, clock, sentTo, settled>>
    PROVE  /\ RegistryConsistent'
           /\ \A p \in Polls : PollSound(p)'
BY DEF IInv, RegistryConsistent, PollSound

LEMMA RunHolds ==
    ASSUME IInv, NEW u \in Users, StartRun(u) \/ FinishRun(u)
    PROVE  IInv'
<1>1. /\ UNCHANGED <<open, current, missed, clock, sentTo, picks, settled>>
      /\ \E d \in {"ask", "leave"} : doing' = [doing EXCEPT ![u] = d]
      /\ inRun' \subseteq Users /\ inRun \subseteq inRun' /\ u \in inRun'
      /\ doing[u] = "nothing"
  BY DEF StartRun, FinishRun, Then, IInv, TypeOK
<1>2. TypeOK'
  BY <1>1 DEF IInv, TypeOK
<1>3. \A v \in Users : UserSound(v)'
  BY <1>1 DEF IInv, TypeOK, UserSound
<1> QED
  BY <1>1, <1>2, <1>3, RegistryStays DEF IInv

LEMMA AskHolds ==
    ASSUME IInv, NEW u \in Users, NEW p \in Polls, Ask(u, p)
    PROVE  IInv'
<1>1. /\ doing[u] = "ask" /\ sentTo[p] = Nobody /\ open[p] = Nobody
      /\ clock[p] = "unset" /\ settled[p] = 0 /\ u \in inRun
      /\ sentTo' = [sentTo EXCEPT ![p] = u]
      /\ doing' = [doing EXCEPT ![u] = "nothing"]
      /\ UNCHANGED <<missed, picks, inRun, settled>>
  BY QuizzesAssumption DEF Ask, Then, IInv, TypeOK, PollSound, UserSound
<1>2. /\ current' = [current EXCEPT ![u] = p]
      /\ open' = [q \in Polls |-> IF q = p THEN u
                                  ELSE IF q = current[u] THEN Nobody
                                  ELSE open[q]]
      /\ clock' = [q \in Polls |-> IF q = p THEN "running"
                                   ELSE IF q = current[u] THEN Stopped(q)
                                   ELSE clock[q]]
  BY QuizzesAssumption DEF Ask, Put, Previous
<1>3. \A q \in Polls : /\ Stopped(q) \in Clocks
                       /\ Stopped(q) # "running"
                       /\ Stopped(q) = "unset" => clock[q] = "unset"
                       /\ clock[q] = "unset" => Stopped(q) = "unset"
  BY DEF IInv, TypeOK, Stopped, Clocks
<1>4. TypeOK'
  <2>1. /\ open' \in [Polls -> Users \cup {Nobody}]
        /\ current' \in [Users -> Polls \cup {NoPoll}]
        /\ clock' \in [Polls -> Clocks]
    BY <1>2, <1>3 DEF IInv, TypeOK, Clocks
  <2> QED
    BY <1>1, <2>1 DEF IInv, TypeOK
<1>5. RegistryConsistent'
  BY <1>1, <1>2, QuizzesAssumption DEF IInv, TypeOK, RegistryConsistent
<1>6. ASSUME NEW q \in Polls PROVE PollSound(q)'
  <2>1. CASE q = p
    BY <1>1, <1>2, <2>1, QuizzesAssumption DEF IInv, TypeOK, PollSound
  <2>2. CASE q # p /\ q = current[u]
    <3>1. open'[q] = Nobody /\ clock'[q] = Stopped(q) /\ sentTo'[q] = sentTo[q]
          /\ settled'[q] = settled[q]
      BY <1>1, <1>2, <2>2 DEF IInv, TypeOK
    <3> QED
      BY <1>3, <3>1 DEF IInv, PollSound
  <2>3. CASE q # p /\ q # current[u]
    <3>1. open'[q] = open[q] /\ clock'[q] = clock[q] /\ sentTo'[q] = sentTo[q]
          /\ settled'[q] = settled[q]
      BY <1>1, <1>2, <2>3 DEF IInv, TypeOK
    <3> QED
      BY <3>1 DEF IInv, PollSound
  <2> QED
    BY <2>1, <2>2, <2>3
<1>7. \A v \in Users : UserSound(v)'
  BY <1>1, <1>2 DEF IInv, TypeOK, UserSound
<1> QED
  BY <1>4, <1>5, <1>6, <1>7 DEF IInv

LEMMA LeaveHolds ==
    ASSUME IInv, NEW u \in Users, Leave(u)
    PROVE  IInv'
<1>1. /\ doing[u] = "leave"
      /\ doing' = [doing EXCEPT ![u] = "nothing"]
      /\ inRun' = inRun \ {u}
      /\ missed' = [missed EXCEPT ![u] = 0]
      /\ UNCHANGED <<sentTo, picks, settled>>
  BY DEF Leave, Then, Forget, Forgiven
<1>2. /\ current' = [current EXCEPT ![u] = NoPoll]
      /\ open' = [q \in Polls |-> IF q = current[u] THEN Nobody ELSE open[q]]
      /\ clock' = [q \in Polls |-> IF q = current[u] THEN Stopped(q) ELSE clock[q]]
  BY DEF Leave, Forget, ForgottenClock
<1>3. \A q \in Polls : /\ Stopped(q) \in Clocks
                       /\ Stopped(q) # "running"
                       /\ clock[q] = "unset" => Stopped(q) = "unset"
  BY DEF IInv, TypeOK, Stopped, Clocks
<1>4. TypeOK'
  <2>1. /\ open' \in [Polls -> Users \cup {Nobody}]
        /\ current' \in [Users -> Polls \cup {NoPoll}]
        /\ clock' \in [Polls -> Clocks]
    BY <1>2, <1>3 DEF IInv, TypeOK
  <2>2. missed' \in [Users -> 0 .. MissesBeforeStopping]
    BY <1>1 DEF IInv, TypeOK, MissesBeforeStopping
  <2> QED
    BY <1>1, <2>1, <2>2 DEF IInv, TypeOK
<1>5. RegistryConsistent'
  BY <1>2, QuizzesAssumption DEF IInv, TypeOK, RegistryConsistent
<1>6. ASSUME NEW q \in Polls PROVE PollSound(q)'
  <2>1. CASE q = current[u]
    <3>1. open'[q] = Nobody /\ clock'[q] = Stopped(q) /\ sentTo'[q] = sentTo[q]
          /\ settled'[q] = settled[q]
      BY <1>1, <1>2, <2>1
    <3> QED
      BY <1>3, <3>1 DEF IInv, PollSound
  <2>2. CASE q # current[u]
    <3>1. open'[q] = open[q] /\ clock'[q] = clock[q] /\ sentTo'[q] = sentTo[q]
          /\ settled'[q] = settled[q]
      BY <1>1, <1>2, <2>2
    <3> QED
      BY <3>1 DEF IInv, PollSound
  <2> QED
    BY <2>1, <2>2
<1>7. \A v \in Users : UserSound(v)'
  BY <1>1, <1>2 DEF IInv, TypeOK, UserSound, MissesBeforeStopping
<1> QED
  BY <1>4, <1>5, <1>6, <1>7 DEF IInv

(* A question is settled, by an answer or by its expiry.                   *)
LEMMA SettledSound ==
    ASSUME IInv, NEW p \in Polls, open[p] # Nobody, Taken(p),
           NEW c \in {"stopped", "fired", "gone"},
           clock' = [clock EXCEPT ![p] = c],
           settled' = [settled EXCEPT ![p] = @ + 1],
           UNCHANGED sentTo
    PROVE  /\ open' \in [Polls -> Users \cup {Nobody}]
           /\ current' \in [Users -> Polls \cup {NoPoll}]
           /\ clock' \in [Polls -> Clocks]
           /\ settled' \in [Polls -> Nat]
           /\ RegistryConsistent'
           /\ \A q \in Polls : PollSound(q)'
           /\ \A v \in Users : current[v] = NoPoll => current'[v] = NoPoll
           /\ \A v \in Users : v # open[p] => current'[v] = current[v]
<1>1. /\ open[p] \in Users /\ settled[p] = 0 /\ sentTo[p] # Nobody
      /\ open' = [open EXCEPT ![p] = Nobody]
      /\ current' = [current EXCEPT ![open[p]] = NoPoll]
  BY DEF IInv, TypeOK, PollSound, Taken
<1>2. /\ open' \in [Polls -> Users \cup {Nobody}]
      /\ current' \in [Users -> Polls \cup {NoPoll}]
      /\ clock' \in [Polls -> Clocks]
      /\ settled' \in [Polls -> Nat]
  BY <1>1 DEF IInv, TypeOK, Clocks
<1>3. RegistryConsistent'
  BY <1>1, QuizzesAssumption DEF IInv, TypeOK, RegistryConsistent
<1>4. ASSUME NEW q \in Polls PROVE PollSound(q)'
  <2>1. CASE q = p
    BY <1>1, <2>1 DEF IInv, TypeOK, PollSound
  <2>2. CASE q # p
    BY <1>1, <2>2 DEF IInv, TypeOK, PollSound
  <2> QED
    BY <2>1, <2>2
<1>5. \A v \in Users : /\ current[v] = NoPoll => current'[v] = NoPoll
                       /\ v # open[p] => current'[v] = current[v]
  BY <1>1 DEF IInv, TypeOK
<1> QED
  BY <1>2, <1>3, <1>4, <1>5

LEMMA AnswerHolds ==
    ASSUME IInv, NEW u \in Users, NEW p \in Polls, Answer(u, p)
    PROVE  IInv'
<1>1. doing[u] = "nothing" /\ picks' \subseteq Users \X Polls
      /\ UNCHANGED <<sentTo, inRun>>
  BY DEF Answer, Dispatched, IInv, TypeOK
<1>2. CASE UNCHANGED <<open, current, missed, clock, settled>>
           /\ (UNCHANGED doing \/ (u \in inRun /\ Then(u, "ask")))
  <2>1. TypeOK'
    BY <1>1, <1>2 DEF IInv, TypeOK, Then
  <2>2. \A v \in Users : UserSound(v)'
    BY <1>1, <1>2 DEF IInv, TypeOK, UserSound, Then
  <2> QED
    BY <1>1, <1>2, <2>1, <2>2, RegistryStays DEF IInv
<1>3. CASE /\ u \in inRun /\ Take(p) /\ Forgiven(u)
           /\ \E d \in {"ask", "leave", "nothing"} :
                  doing' = [doing EXCEPT ![u] = d]
  <2>1. Stopped(p) \in {"stopped", "fired", "gone"}
    BY <1>3 DEF Take, IInv, TypeOK, PollSound, Stopped
  <2>2. /\ open[p] # Nobody /\ Taken(p)
        /\ clock' = [clock EXCEPT ![p] = Stopped(p)]
        /\ settled' = [settled EXCEPT ![p] = @ + 1]
    BY <1>3 DEF Take
  <2>3. /\ open' \in [Polls -> Users \cup {Nobody}]
        /\ current' \in [Users -> Polls \cup {NoPoll}]
        /\ clock' \in [Polls -> Clocks]
        /\ settled' \in [Polls -> Nat]
        /\ RegistryConsistent'
        /\ \A q \in Polls : PollSound(q)'
        /\ \A v \in Users : current[v] = NoPoll => current'[v] = NoPoll
    BY <1>1, <2>1, <2>2, SettledSound
  <2>4. missed' = [missed EXCEPT ![u] = 0]
    BY <1>3 DEF Forgiven
  <2>5. TypeOK'
    BY <1>1, <1>3, <2>3, <2>4 DEF IInv, TypeOK, MissesBeforeStopping
  <2>6. \A v \in Users : UserSound(v)'
    BY <1>1, <1>3, <2>3, <2>4 DEF IInv, TypeOK, UserSound, MissesBeforeStopping
  <2> QED
    BY <2>3, <2>5, <2>6 DEF IInv
<1>4. UNCHANGED doing => doing' = [doing EXCEPT ![u] = "nothing"]
  BY <1>1 DEF IInv, TypeOK
<1> QED
  BY <1>1, <1>2, <1>3, <1>4 DEF Answer, Then

LEMMA TimeoutHolds ==
    ASSUME IInv, NEW u \in Users, NEW p \in Polls, Timeout(u, p)
    PROVE  IInv'
<1>1. /\ doing[u] = "nothing" /\ clock[p] = "fired" /\ sentTo[p] = u
      /\ UNCHANGED <<sentTo, picks, inRun>>
      /\ clock' = [clock EXCEPT ![p] = "gone"]
  BY DEF Timeout
<1>2. CASE /\ u \notin inRun \/ open[p] = Nobody
           /\ UNCHANGED <<open, current, missed, doing, settled>>
  <2>1. open[p] = Nobody
    BY <1>1, <1>2, QuizzesAssumption
    DEF IInv, TypeOK, UserSound, PollSound, RegistryConsistent
  <2>2. TypeOK' /\ RegistryConsistent' /\ \A v \in Users : UserSound(v)'
    BY <1>1, <1>2 DEF IInv, TypeOK, Clocks, RegistryConsistent, UserSound
  <2>3. ASSUME NEW q \in Polls PROVE PollSound(q)'
    BY <1>1, <1>2, <2>1 DEF IInv, TypeOK, PollSound
  <2> QED
    BY <2>2, <2>3 DEF IInv
<1>3. CASE /\ u \in inRun /\ open[p] # Nobody /\ Taken(p)
           /\ settled' = [settled EXCEPT ![p] = @ + 1]
           /\ missed' = [missed EXCEPT ![u] = @ + 1]
           /\ Then(u, IF missed[u] + 1 < MissesBeforeStopping THEN "ask"
                      ELSE "leave")
  <2>1. /\ open' \in [Polls -> Users \cup {Nobody}]
        /\ current' \in [Users -> Polls \cup {NoPoll}]
        /\ clock' \in [Polls -> Clocks]
        /\ settled' \in [Polls -> Nat]
        /\ RegistryConsistent'
        /\ \A q \in Polls : PollSound(q)'
        /\ \A v \in Users : current[v] = NoPoll => current'[v] = NoPoll
    BY <1>1, <1>3, SettledSound
  <2>2. missed[u] < MissesBeforeStopping /\ missed[u] \in Nat
    BY <1>1 DEF IInv, TypeOK, UserSound
  <2>3. TypeOK'
    <3>1. missed' \in [Users -> 0 .. MissesBeforeStopping]
      BY <1>3, <2>2 DEF IInv, TypeOK, MissesBeforeStopping
    <3>2. doing' \in [Users -> {"nothing", "ask", "leave"}]
      BY <1>3 DEF IInv, TypeOK, Then
    <3> QED
      BY <1>1, <2>1, <3>1, <3>2 DEF IInv, TypeOK
  <2>4. \A v \in Users : UserSound(v)'
    BY <1>1, <1>3, <2>1, <2>2
    DEF IInv, TypeOK, UserSound, Then, MissesBeforeStopping
  <2> QED
    BY <2>1, <2>3, <2>4 DEF IInv
<1> QED
  BY <1>2, <1>3 DEF Timeout

LEMMA WorldHolds ==
    ASSUME IInv,
           \/ \E p \in Polls : Fire(p)
           \/ \E u \in Users, p \in Polls : Pick(u, p)
           \/ UNCHANGED vars
    PROVE  IInv'
<1>1. ASSUME NEW p \in Polls, Fire(p) PROVE IInv'
  <2>1. TypeOK' /\ RegistryConsistent' /\ \A v \in Users : UserSound(v)'
    BY <1>1 DEF Fire, IInv, TypeOK, Clocks, RegistryConsistent, UserSound
  <2>2. ASSUME NEW q \in Polls PROVE PollSound(q)'
    BY <1>1 DEF Fire, IInv, TypeOK, PollSound
  <2> QED
    BY <2>1, <2>2 DEF IInv
<1>2. CASE (\E u \in Users, p \in Polls : Pick(u, p)) \/ UNCHANGED vars
  <2>1. /\ UNCHANGED <<open, current, missed, clock, sentTo, inRun, doing, settled>>
        /\ picks' \subseteq Users \X Polls
    BY <1>2 DEF Pick, vars, IInv, TypeOK
  <2>2. TypeOK' /\ \A v \in Users : UserSound(v)'
    BY <2>1 DEF IInv, TypeOK, UserSound
  <2> QED
    BY <2>1, <2>2, RegistryStays DEF IInv
<1> QED
  BY <1>1, <1>2

LEMMA NextHolds == IInv /\ [Next]_vars => IInv'
BY RunHolds, AskHolds, LeaveHolds, AnswerHolds, TimeoutHolds, WorldHolds DEF Next

-----------------------------------------------------------------------------
(* The invariant behind the theorems that follow.                          *)
THEOREM RegistryStaysSound == Spec => []IInv
BY InitHolds, NextHolds, PTL DEF Spec

(* The state has its shape; a run of misses does not outgrow the two that  *)
(* end a run (quizzes, timedOut, answered).                                *)
THEOREM TypeCorrect == Spec => []TypeOK
<1>1. IInv => TypeOK
  BY DEF IInv
<1> QED
  BY <1>1, RegistryStaysSound, PTL

(* open and current are inverse to each other (put, take, forget).         *)
THEOREM RegistryConsistentHolds == Spec => []RegistryConsistent
<1>1. IInv => RegistryConsistent
  BY DEF IInv
<1> QED
  BY <1>1, RegistryStaysSound, PTL

(* No clock runs for a question that is not open (stop).                   *)
THEOREM ClockOnlyForOpenHolds == Spec => []ClockOnlyForOpen
<1>1. IInv => ClockOnlyForOpen
  BY DEF IInv, PollSound, ClockOnlyForOpen
<1> QED
  BY <1>1, RegistryStaysSound, PTL

(* A question is settled once (take).                                      *)
THEOREM SettledOnceHolds == Spec => []SettledOnce
<1>1. IInv => SettledOnce
  BY DEF IInv, PollSound, SettledOnce
<1> QED
  BY <1>1, RegistryStaysSound, PTL

-----------------------------------------------------------------------------
(* Users who forward no poll.                                              *)

Kept ==
    /\ \A pick \in picks : sentTo[pick[2]] \in {pick[1]} \cup Forwarders
    /\ \A u \in inRun \ Forwarders : doing[u] = "nothing" => current[u] # NoPoll

LEMMA KeptHolds ==
    ASSUME IInv, Kept, [Next]_vars
    PROVE  Kept'
<1>1. ASSUME NEW u \in Users, StartRun(u) \/ Leave(u) \/ FinishRun(u)
      PROVE  Kept'
  BY <1>1 DEF StartRun, Leave, FinishRun, Forget, Then, Kept, IInv, TypeOK
<1>2. ASSUME NEW u \in Users, NEW p \in Polls, Ask(u, p) PROVE Kept'
  <2>1. /\ sentTo' = [sentTo EXCEPT ![p] = u] /\ sentTo[p] = Nobody
        /\ current' = [current EXCEPT ![u] = p]
        /\ doing' = [doing EXCEPT ![u] = "nothing"]
        /\ UNCHANGED <<picks, inRun>>
    BY <1>2 DEF Ask, Put, Then
  <2>2. ASSUME NEW pick \in picks PROVE sentTo'[pick[2]] = sentTo[pick[2]]
    <3>1. /\ pick[1] \in Users /\ pick[2] \in Polls
          /\ sentTo[pick[2]] \in {pick[1]} \cup Forwarders
      BY DEF IInv, TypeOK, Kept
    <3> QED
      BY <2>1, <3>1, QuizzesAssumption DEF IInv, TypeOK
  <2> QED
    BY <2>1, <2>2, QuizzesAssumption DEF Kept, IInv, TypeOK
<1>3. ASSUME NEW u \in Users, NEW p \in Polls, Answer(u, p) PROVE Kept'
  <2>1. /\ picks' \subseteq picks /\ sentTo[p] \in {u} \cup Forwarders
        /\ UNCHANGED <<sentTo, inRun>> /\ doing[u] = "nothing"
    BY <1>3 DEF Answer, Dispatched, Kept
  <2>2. CASE UNCHANGED current /\ (UNCHANGED doing \/ Then(u, "ask"))
    BY <2>1, <2>2 DEF Then, Kept, IInv, TypeOK
  <2>3. CASE /\ Take(p)
             /\ Then(u, "ask") \/ Then(u, "leave") \/ (open[p] # u /\ UNCHANGED doing)
    <3>1. open[p] = sentTo[p] /\ open[p] \in {u} \cup Forwarders
      BY <2>1, <2>3 DEF Take, IInv, PollSound
    <3>2. \A v \in Users : v # open[p] => current'[v] = current[v]
      BY <2>3, <3>1 DEF Take, Taken, IInv, TypeOK
    <3>3. ASSUME NEW v \in inRun \ Forwarders, doing'[v] = "nothing"
          PROVE  doing[v] = "nothing" /\ v # open[p]
      BY <2>1, <2>3, <3>1, <3>3 DEF Then, IInv, TypeOK
    <3> QED
      BY <2>1, <3>2, <3>3 DEF Kept, IInv, TypeOK
  <2> QED
    BY <1>3, <2>2, <2>3 DEF Answer
<1>4. ASSUME NEW u \in Users, NEW p \in Polls, Timeout(u, p) PROVE Kept'
  <2>1. sentTo[p] = u /\ UNCHANGED <<sentTo, inRun, picks>> /\ doing[u] = "nothing"
    BY <1>4 DEF Timeout
  <2>2. CASE UNCHANGED <<current, doing>>
    BY <2>1, <2>2 DEF Kept
  <2>3. CASE open[p] # Nobody /\ Taken(p)
             /\ \E d \in {"ask", "leave"} : doing' = [doing EXCEPT ![u] = d]
    <3>1. open[p] = u
      BY <2>1, <2>3 DEF IInv, PollSound
    <3>2. \A v \in Users : v # u => current'[v] = current[v]
      BY <2>3, <3>1 DEF Taken, IInv, TypeOK
    <3> QED
      BY <2>1, <2>3, <3>2 DEF Kept, IInv, TypeOK
  <2> QED
    BY <1>4, <2>2, <2>3 DEF Timeout, Then
<1>5. ASSUME NEW p \in Polls, Fire(p) PROVE Kept'
  BY <1>5 DEF Fire, Kept
<1>6. ASSUME NEW u \in Users, NEW p \in Polls, Pick(u, p) PROVE Kept'
  BY <1>6 DEF Pick, Kept
<1>7. CASE UNCHANGED vars
  BY <1>7 DEF vars, Kept
<1> QED
  BY <1>1, <1>2, <1>3, <1>4, <1>5, <1>6, <1>7 DEF Next

(* The run of a user who forwards no poll is not left hanging: there is    *)
(* a question whose clock runs or has run out (ask, put, take, Timeout).   *)
THEOREM NotLeftHangingHolds == Spec => []NotLeftHanging
<1>1. Init => Kept
  BY DEF Init, Kept
<1>2. IInv /\ Kept /\ [Next]_vars => Kept'
  BY KeptHolds
<1>3. IInv /\ Kept => NotLeftHanging
  BY QuizzesAssumption
  DEF IInv, TypeOK, Kept, NotLeftHanging, Hanging, RegistryConsistent, PollSound
<1> QED
  BY <1>1, <1>2, <1>3, RegistryStaysSound, PTL DEF Spec

=============================================================================
