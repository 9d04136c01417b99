---------------------------- MODULE SenderProofs ----------------------------
(***************************************************************************)
(* What sender.attempt promises, for any number of sends and attempts and  *)
(* any rate limits.                                                        *)
(*                                                                         *)
(* That a message is in the chat at most once is not inductive: it needs   *)
(* that a call which will try again has delivered nothing so far, which    *)
(* holds because only a rate limit is waited out.  How long the waits may  *)
(* be in all needs to be said attempt by attempt.                          *)
(***************************************************************************)
EXTENDS Sender, FiniteSetTheorems, TLAPS

(* What the state of a call says about the chat.                           *)
Truthful(k) ==
    /\ k.at # "back" => k.copies = 0 /\ k.verdict = "none"
    /\ k.at = "back" => k.verdict # "none"
    /\ k.verdict = "ok" => k.copies = 1
    /\ k.verdict = "blocked" => k.copies = 0
    /\ k.copies \in {0, 1}

(* How long n waits may take.                                              *)
Longest(n) == n * MaxRetryAfter

(* A wait is part of the attempt it follows.                               *)
InBounds(k, w) ==
    /\ k.at = "send" => k.wait = 0 /\ w <= Longest(k.try - 1)
    /\ k.at = "wait" => k.try # SendAttempts /\ w + k.wait <= Longest(k.try)
    /\ k.at = "back" => k.wait = 0
    /\ w <= Longest(SendAttempts - 1)

Sound(k, w) == k \in CallStates /\ w \in Nat /\ Truthful(k) /\ InBounds(k, w)

IInv ==
    /\ call \in [Calls -> CallStates]
    /\ waited \in [Calls -> Nat]
    /\ \A c \in Calls : Truthful(call[c]) /\ InBounds(call[c], waited[c])
    /\ messagesSent \in Nat
    /\ sendFailures \in Nat
    /\ CountersExact

-----------------------------------------------------------------------------
LEMMA LongestFacts ==
    ASSUME NEW n \in Nat
    PROVE  /\ Longest(n) \in Nat
           /\ Longest(n + 1) = Longest(n) + MaxRetryAfter
           /\ \A m \in 0 .. n : Longest(m) <= Longest(n)
<1>1. Longest(n) \in Nat
  BY SendingAssumption, SMT DEF Longest
<1>2. Longest(n + 1) = Longest(n) + MaxRetryAfter
  BY SendingAssumption, SMT DEF Longest
<1>3. ASSUME NEW m \in 0 .. n PROVE Longest(m) <= Longest(n)
  <2>1. n * MaxRetryAfter = m * MaxRetryAfter + (n - m) * MaxRetryAfter
    BY SendingAssumption, SMT
  <2>2. (n - m) * MaxRetryAfter \in Nat /\ m * MaxRetryAfter \in Nat
    BY SendingAssumption, SMT
  <2> QED
    BY <2>1, <2>2, SMT DEF Longest
<1> QED
  BY <1>1, <1>2, <1>3

(* What Back makes of a call.                                              *)
LEMMA BackState ==
    ASSUME NEW k \in CallStates, NEW v \in Verdicts
    PROVE  /\ Back(k, v) \in CallStates
           /\ Back(k, v).at = "back" /\ Back(k, v).wait = 0
           /\ Back(k, v).try = k.try /\ Back(k, v).copies = k.copies
           /\ Back(k, v).verdict = v
<1>1. 0 \in 0 .. MaxRetryAfter
  BY SendingAssumption
<1> QED
  BY <1>1 DEF CallStates, Back

(* Returning keeps a call sound when the verdict is true.                  *)
LEMMA BackSound ==
    ASSUME NEW k \in CallStates, NEW w \in Nat, NEW v \in Verdicts \ {"none"},
           w <= Longest(SendAttempts - 1),
           k.copies \in {0, 1},
           v = "ok" => k.copies = 1,
           v = "blocked" => k.copies = 0
    PROVE  Sound(Back(k, v), w)
BY BackState DEF Sound, Truthful, InBounds

(* One attempt, whatever Telegram replies.                                 *)
LEMMA AttemptSound ==
    ASSUME NEW k, NEW w, Sound(k, w), k.at = "send", NEW a \in Attempt(k)
    PROVE  Sound(a, w)
<1>1. CASE CtxDone(k)
  BY <1>1, BackSound DEF Attempt, Sound, Verdicts, Truthful, InBounds
<1>2. CASE ~CtxDone(k)
  <2> DEFINE d(r) == [k EXCEPT !.copies = IF Delivered(r) THEN @ + 1 ELSE @]
  <2>1. PICK reply \in Replies : a = After(d(reply), reply)
    BY <1>2 DEF Attempt
  <2>2. /\ d(reply) \in CallStates
        /\ d(reply).at = "send" /\ d(reply).try = k.try
        /\ d(reply).wait = 0 /\ d(reply).verdict = "none"
        /\ d(reply).copies = IF Delivered(reply) THEN 1 ELSE 0
    BY DEF Sound, CallStates, Truthful, InBounds
  <2> HIDE DEF d
  <2>3. w \in Nat /\ w <= Longest(k.try - 1) /\ w <= Longest(SendAttempts - 1)
    BY <2>2 DEF Sound, InBounds
  <2>4. CASE RetryAfter(reply) /\ d(reply).try # SendAttempts
    <3>1. a = [d(reply) EXCEPT !.at = "wait", !.wait = reply.retryAfter]
      BY <2>1, <2>4 DEF After, Blocked, RetryAfter
    <3>2. ~Delivered(reply) /\ reply.retryAfter \in 1 .. MaxRetryAfter
      BY <2>4 DEF RetryAfter, Delivered
    <3>3. /\ Longest(k.try) = Longest(k.try - 1) + MaxRetryAfter
          /\ Longest(k.try - 1) \in Nat
      <4>1. k.try - 1 \in Nat /\ (k.try - 1) + 1 = k.try
        BY SendingAssumption DEF Sound, CallStates
      <4> QED
        BY <4>1, LongestFacts
    <3>4. reply.retryAfter \in 0 .. MaxRetryAfter /\ reply.retryAfter \in Nat
      BY <3>2, SendingAssumption
    <3>5. a \in CallStates
      BY <3>1, <3>4, <2>2 DEF CallStates
    <3>6. a.at = "wait" /\ a.wait = reply.retryAfter /\ a.try = k.try
          /\ a.copies = 0 /\ a.verdict = "none"
      BY <3>1, <3>2, <2>2 DEF CallStates
    <3>7. w + reply.retryAfter <= Longest(k.try)
      BY <3>2, <3>3, <3>4, <2>2, <2>3, SendingAssumption
    <3> QED
      BY <3>5, <3>6, <3>7, <2>2, <2>3, <2>4 DEF Sound, Truthful, InBounds
  <2>5. CASE ~(RetryAfter(reply) /\ d(reply).try # SendAttempts)
    <3>1. CASE reply.code = "ok"
      <4>1. Delivered(reply)
        BY <3>1 DEF Delivered
      <4>2. a = Back(d(reply), "ok")
        BY <3>1, <2>1 DEF After, Blocked, RetryAfter
      <4> QED
        BY <4>1, <4>2, <2>2, <2>3, BackSound DEF Verdicts
    <3>2. CASE reply.code = "forbidden"
      <4>1. ~Delivered(reply)
        BY <3>2 DEF Delivered
      <4>2. a = Back(d(reply), "blocked")
        BY <3>2, <2>1 DEF After, Blocked, RetryAfter
      <4> QED
        BY <4>1, <4>2, <2>2, <2>3, BackSound DEF Verdicts
    <3>3. CASE reply.code # "ok" /\ reply.code # "forbidden"
      <4>1. a = Back(d(reply), "failed")
        BY <3>3, <2>1, <2>5 DEF After, Blocked
      <4> QED
        BY <4>1, <2>2, <2>3, BackSound DEF Verdicts
    <3> QED
      BY <3>1, <3>2, <3>3
  <2> QED
    BY <2>4, <2>5
<1> QED
  BY <1>1, <1>2

LEMMA WakeSound ==
    ASSUME NEW k, NEW w, Sound(k, w), CanWake(k)
    PROVE  Sound(Wake(k), w)
<1>1. k \in CallStates /\ k.try + 1 \in 1 .. SendAttempts
  BY SendingAssumption DEF Sound, CallStates, InBounds, CanWake
<1>2. /\ Wake(k) \in CallStates
      /\ Wake(k).at = "send" /\ Wake(k).wait = k.wait
      /\ Wake(k).try = k.try + 1 /\ Wake(k).copies = k.copies
      /\ Wake(k).verdict = k.verdict
  BY <1>1 DEF CallStates, Wake
<1>3. k.try \in Nat /\ (k.try + 1) - 1 = k.try
  BY <1>1, SendingAssumption DEF CallStates
<1>4. w + 0 <= Longest(k.try) /\ k.wait = 0 /\ w \in Nat
  BY DEF Sound, InBounds, CanWake
<1> QED
  BY <1>2, <1>3, <1>4 DEF Sound, Truthful, InBounds, CanWake

LEMMA CancelSound ==
    ASSUME NEW k, NEW w, Sound(k, w), CanCancel(k)
    PROVE  Sound(Cancel(k), w)
BY BackSound DEF Sound, Truthful, InBounds, CanCancel, Cancel, Verdicts

(* A unit of time, for a call that nothing urgent is about to happen to.   *)
LEMMA ElapseSound ==
    ASSUME NEW k, NEW w, Sound(k, w), k.at # "back", ~Urgent(k)
    PROVE  Sound(Elapse(k), IF k.wait > 0 THEN w + 1 ELSE w)
<1> DEFINE e == Elapse(k)
<1>1. k \in CallStates /\ k.wait \in Nat /\ k.try \in 1 .. SendAttempts
  BY SendingAssumption DEF Sound, CallStates
<1>2. (IF k.wait > 0 THEN k.wait - 1 ELSE k.wait) \in 0 .. MaxRetryAfter
  BY <1>1, SendingAssumption DEF CallStates
<1>3. (IF k.left = Never \/ k.left = 0 THEN k.left ELSE k.left - 1)
          \in Nat \cup {Never}
  BY <1>1 DEF CallStates
<1>4. /\ e \in CallStates
      /\ e.at = k.at /\ e.try = k.try /\ e.copies = k.copies
      /\ e.verdict = k.verdict
      /\ e.wait = IF k.wait > 0 THEN k.wait - 1 ELSE k.wait
  BY <1>1, <1>2, <1>3 DEF CallStates, Elapse
<1> HIDE DEF e
<1>5. CASE k.at = "send"
  BY <1>4, <1>5 DEF Sound, Truthful, InBounds, e
<1>6. CASE k.at = "wait"
  <2>1. k.wait > 0
    BY <1>1, <1>6 DEF Urgent, CanWake
  <2>2. w \in Nat /\ w + k.wait <= Longest(k.try)
    BY <1>6 DEF Sound, InBounds
  <2>3. /\ Longest(SendAttempts - 1) \in Nat
        /\ Longest(k.try) <= Longest(SendAttempts - 1)
        /\ Longest(k.try) \in Nat
    <3>1. SendAttempts - 1 \in Nat /\ k.try \in 0 .. (SendAttempts - 1)
      BY <1>1, <1>6, SendingAssumption DEF Sound, InBounds
    <3> QED
      BY <3>1, LongestFacts
  <2>4. w + 1 <= Longest(SendAttempts - 1)
        /\ (w + 1) + (k.wait - 1) <= Longest(k.try)
    BY <2>1, <2>2, <2>3, <1>1
  <2> QED
    BY <1>4, <1>6, <2>1, <2>2, <2>4 DEF Sound, Truthful, InBounds, e
<1> QED
  BY <1>1, <1>5, <1>6 DEF CallStates

-----------------------------------------------------------------------------
(* The steps.                                                              *)

(* The calls that came back with a verdict among v.                        *)
BackWith(v) == {c \in Calls : call[c].verdict \in v}

Failures == {"blocked", "canceled", "failed"}

LEMMA CountersAre ==
    ASSUME IInv
    PROVE  /\ messagesSent = Cardinality(BackWith({"ok"}))
           /\ sendFailures = Cardinality(BackWith(Failures))
<1>1. {c \in Calls : call[c].verdict = "ok"} = BackWith({"ok"})
  BY DEF BackWith
<1>2. {c \in Calls : call[c].verdict \notin {"none", "ok"}} = BackWith(Failures)
  BY DEF BackWith, Failures, IInv, CallStates, Verdicts
<1> QED
  BY <1>1, <1>2 DEF IInv, CountersExact

LEMMA BackWithFinite ==
    ASSUME NEW v
    PROVE  IsFiniteSet(BackWith(v)) /\ Cardinality(BackWith(v)) \in Nat
<1>1. BackWith(v) \subseteq Calls
  BY DEF BackWith
<1> QED
  BY <1>1, SenderAssumption, FS_Subset, FS_CardinalityType

LEMMA InitHolds == Init => IInv
<1> SUFFICES ASSUME Init PROVE IInv
  OBVIOUS
<1>1. 0 \in 0 .. MaxRetryAfter /\ 1 \in 1 .. SendAttempts
  BY SendingAssumption
<1>2. ASSUME NEW left \in Deadlines PROVE Sound(NewCall(left), 0)
  <2>1. Longest(1 - 1) \in Nat /\ Longest(SendAttempts - 1) \in Nat
    BY LongestFacts, SendingAssumption
  <2>2. NewCall(left) \in CallStates
    BY <1>1, SenderAssumption DEF NewCall, CallStates, Verdicts
  <2> QED
    BY <2>1, <2>2 DEF Sound, Truthful, InBounds, NewCall
<1>3. ASSUME NEW c \in Calls PROVE Sound(call[c], waited[c])
  BY <1>2 DEF Init
<1>4. \A c \in Calls : call[c].verdict = "none"
  BY DEF Init, NewCall
<1>5. /\ {c \in Calls : call[c].verdict = "ok"} = {}
      /\ {c \in Calls : call[c].verdict \notin {"none", "ok"}} = {}
  BY <1>4
<1>6. CountersExact
  BY <1>5, FS_EmptySet DEF CountersExact, Init
<1>7. call \in [Calls -> CallStates]
  BY <1>3 DEF Init, Sound
<1> QED
  BY <1>3, <1>6, <1>7 DEF IInv, Sound, Init

(* One call moves on, and is counted if it returns.                        *)
LEMMA BecomeHolds ==
    ASSUME IInv, NEW c \in Calls, NEW a,
           call[c].at # "back", Sound(a, waited[c]), Become(c, a)
    PROVE  IInv'
<1>1. /\ a \in CallStates /\ a.verdict \in Verdicts
      /\ call' = [call EXCEPT ![c] = a] /\ waited' = waited
      /\ call[c].verdict = "none"
  BY DEF Become, Sound, CallStates, IInv, Truthful
<1>2. /\ call' \in [Calls -> CallStates]
      /\ waited' \in [Calls -> Nat]
      /\ \A b \in Calls : Truthful(call'[b]) /\ InBounds(call'[b], waited'[b])
  BY <1>1 DEF IInv, Sound
<1>3. ASSUME NEW v, "none" \notin v
      PROVE  Cardinality(BackWith(v)') =
                 Cardinality(BackWith(v)) + (IF a.verdict \in v THEN 1 ELSE 0)
  <2>1. CASE a.verdict \in v
    <3>1. BackWith(v)' = BackWith(v) \cup {c} /\ c \notin BackWith(v)
      BY <1>1, <1>3, <2>1 DEF BackWith, IInv
    <3> QED
      BY <2>1, <3>1, BackWithFinite, FS_AddElement
  <2>2. CASE a.verdict \notin v
    <3>1. BackWith(v)' = BackWith(v)
      BY <1>1, <1>3, <2>2 DEF BackWith, IInv
    <3> QED
      BY <2>2, <3>1, BackWithFinite
  <2> QED
    BY <2>1, <2>2
<1>4. /\ messagesSent' = Cardinality(BackWith({"ok"})')
      /\ sendFailures' = Cardinality(BackWith(Failures)')
  <2>1. a.verdict \in Failures <=> a.verdict \notin {"none", "ok"}
    BY <1>1 DEF Failures, Verdicts
  <2>2. "none" \notin Failures /\ "none" \notin {"ok"}
    BY DEF Failures
  <2>3. /\ Cardinality(BackWith({"ok"})') =
               Cardinality(BackWith({"ok"})) + (IF a.verdict = "ok" THEN 1 ELSE 0)
        /\ Cardinality(BackWith(Failures)') =
               Cardinality(BackWith(Failures))
                   + (IF a.verdict \in {"none", "ok"} THEN 0 ELSE 1)
    <3>1. Cardinality(BackWith({"ok"})') =
              Cardinality(BackWith({"ok"}))
                  + (IF a.verdict \in {"ok"} THEN 1 ELSE 0)
      BY <1>3, <2>2
    <3>2. Cardinality(BackWith(Failures)') =
              Cardinality(BackWith(Failures))
                  + (IF a.verdict \in Failures THEN 1 ELSE 0)
      BY <1>3, <2>2
    <3> QED
      BY <2>1, <3>1, <3>2
  <2> QED
    BY <2>3, CountersAre DEF Become, Counted
<1>5. /\ {b \in Calls : call'[b].verdict = "ok"} = BackWith({"ok"})'
      /\ {b \in Calls : call'[b].verdict \notin {"none", "ok"}}
             = BackWith(Failures)'
  BY <1>2 DEF BackWith, Failures, CallStates, Verdicts
<1>6. CountersExact'
  BY <1>4, <1>5 DEF CountersExact
<1>7. messagesSent' \in Nat /\ sendFailures' \in Nat
  BY DEF Become, Counted, IInv
<1> QED
  BY <1>2, <1>6, <1>7 DEF IInv

LEMMA TickHolds == IInv /\ Tick => IInv'
<1> SUFFICES ASSUME IInv, Tick PROVE IInv'
  OBVIOUS
<1>1. ASSUME NEW c \in Calls
      PROVE  /\ Sound(call'[c], waited'[c])
             /\ call'[c].verdict = call[c].verdict
  <2>1. Sound(call[c], waited[c]) /\ ~Urgent(call[c])
    BY DEF IInv, Sound, Tick
  <2>2. CASE call[c].at = "back"
    <3>1. call'[c] = call[c] /\ waited'[c] = waited[c]
      BY <2>1, <2>2 DEF Tick, Sound, InBounds
    <3> QED
      BY <2>1, <3>1
  <2>3. CASE call[c].at # "back"
    <3>1. call'[c] = Elapse(call[c])
          /\ waited'[c] = IF call[c].wait > 0 THEN waited[c] + 1 ELSE waited[c]
      BY <2>3 DEF Tick
    <3>2. Elapse(call[c]).verdict = call[c].verdict
      BY <2>1 DEF Elapse, Sound, CallStates
    <3> QED
      BY <2>1, <2>3, <3>1, <3>2, ElapseSound
  <2> QED
    BY <2>2, <2>3
<1>2. /\ call' \in [Calls -> CallStates] /\ waited' \in [Calls -> Nat]
      /\ \A c \in Calls : Truthful(call'[c]) /\ InBounds(call'[c], waited'[c])
  BY <1>1 DEF Sound, Tick
<1>3. /\ {c \in Calls : call'[c].verdict = "ok"}
             = {c \in Calls : call[c].verdict = "ok"}
      /\ {c \in Calls : call'[c].verdict \notin {"none", "ok"}}
             = {c \in Calls : call[c].verdict \notin {"none", "ok"}}
  BY <1>1
<1>4. CountersExact'
  BY <1>3 DEF CountersExact, IInv, Tick
<1> QED
  BY <1>2, <1>4 DEF IInv, Tick

LEMMA NextHolds == IInv /\ [Next]_vars => IInv'
<1> SUFFICES ASSUME IInv, [Next]_vars PROVE IInv'
  OBVIOUS
<1>0. ASSUME NEW c \in Calls PROVE Sound(call[c], waited[c])
  BY DEF IInv, Sound
<1>1. ASSUME NEW c \in Calls, TryOnce(c) PROVE IInv'
  <2>1. PICK a \in Attempt(call[c]) : Become(c, a)
    BY <1>1 DEF TryOnce
  <2> QED
    BY <1>0, <1>1, <2>1, AttemptSound, BecomeHolds DEF TryOnce
<1>2. ASSUME NEW c \in Calls, WakeUp(c) PROVE IInv'
  BY <1>0, <1>2, WakeSound, BecomeHolds DEF WakeUp, CanWake
<1>3. ASSUME NEW c \in Calls, CutShort(c) PROVE IInv'
  BY <1>0, <1>3, CancelSound, BecomeHolds DEF CutShort, CanCancel
<1>4. CASE UNCHANGED vars
  BY <1>4 DEF vars, IInv, CountersExact
<1> QED
  BY <1>1, <1>2, <1>3, <1>4, TickHolds DEF Next, Done

-----------------------------------------------------------------------------
(* The invariant behind the three that follow.                             *)
THEOREM CallsStaySound == Spec => []IInv
BY InitHolds, NextHolds, PTL DEF Spec

(* Neither an attempt nor a wait leaves its range (attempt, retryAfter).   *)
THEOREM TypeCorrect == Spec => []TypeOK
<1>1. IInv => TypeOK
  BY DEF IInv, TypeOK
<1> QED
  BY <1>1, CallsStaySound, PTL

(* However the calls of any number of goroutines end, each is counted      *)
(* once, on the right counter (attempt).                                   *)
THEOREM CountersExactHolds == Spec => []CountersExact
<1>1. IInv => CountersExact
  BY DEF IInv
<1> QED
  BY <1>1, CallsStaySound, PTL

(* Rate limits hold no call up for longer than a wait between every two    *)
(* attempts (retryAfter, sendAttempts).                                    *)
THEOREM WaitBoundedHolds == Spec => []WaitBounded
<1>1. IInv => WaitBounded
  BY DEF IInv, InBounds, Longest, WaitBounded
<1> QED
  BY <1>1, CallsStaySound, PTL

-----------------------------------------------------------------------------
LEMMA BecomeImplements ==
    ASSUME IInv, NEW c \in Calls, NEW a,
           call[c].at # "back", Sound(a, waited[c]), Become(c, a)
    PROVE  Promise!Next \/ UNCHANGED <<copies, verdict>>
<1>1. /\ call' = [call EXCEPT ![c] = a]
      /\ call \in [Calls -> CallStates]
      /\ call[c].verdict = "none" /\ call[c].copies = 0
      /\ a.verdict \in Verdicts
  BY DEF Become, Sound, CallStates, IInv, Truthful
<1>2. CASE a.at # "back"
  <2>1. a.verdict = "none" /\ a.copies = 0
    BY <1>2 DEF Sound, Truthful
  <2>2. \A b \in Calls : /\ call'[b].copies = call[b].copies
                         /\ call'[b].verdict = call[b].verdict
    BY <1>1, <2>1
  <2> QED
    BY <2>2 DEF copies, verdict
<1>3. CASE a.at = "back"
  <2> DEFINE v == IF a.verdict = "canceled" THEN "failed" ELSE a.verdict
  <2>1. v \in Promise!Verdicts /\ a.copies \in {0, 1}
        /\ (v = "ok" => a.copies = 1) /\ (v = "blocked" => a.copies = 0)
    BY <1>1, <1>3 DEF Sound, Truthful, Verdicts, Promise!Verdicts
  <2>2. verdict[c] = "none"
    BY <1>1 DEF verdict
  <2>3. verdict' = [verdict EXCEPT ![c] = v]
    BY <1>1 DEF verdict
  <2>4. copies' = [copies EXCEPT ![c] = a.copies]
    BY <1>1 DEF copies
  <2> HIDE DEF v
  <2>5. Promise!Return(c, v)
    BY <2>1, <2>2, <2>3, <2>4 DEF Promise!Return
  <2> QED
    BY <2>1, <2>5 DEF Promise!Next
<1> QED
  BY <1>2, <1>3

LEMMA NextImplements ==
    IInv /\ [Next]_vars => [Promise!Next]_<<copies, verdict>>
<1> SUFFICES ASSUME IInv, [Next]_vars
             PROVE  Promise!Next \/ UNCHANGED <<copies, verdict>>
  OBVIOUS
<1>0. ASSUME NEW c \in Calls PROVE Sound(call[c], waited[c])
  BY DEF IInv, Sound
<1>1. ASSUME NEW c \in Calls, TryOnce(c)
      PROVE  Promise!Next \/ UNCHANGED <<copies, verdict>>
  <2>1. PICK a \in Attempt(call[c]) : Become(c, a)
    BY <1>1 DEF TryOnce
  <2> QED
    BY <1>0, <1>1, <2>1, AttemptSound, BecomeImplements DEF TryOnce
<1>2. ASSUME NEW c \in Calls, WakeUp(c)
      PROVE  Promise!Next \/ UNCHANGED <<copies, verdict>>
  BY <1>0, <1>2, WakeSound, BecomeImplements DEF WakeUp, CanWake
<1>3. ASSUME NEW c \in Calls, CutShort(c)
      PROVE  Promise!Next \/ UNCHANGED <<copies, verdict>>
  BY <1>0, <1>3, CancelSound, BecomeImplements DEF CutShort, CanCancel
<1>4. CASE Tick
  <2>1. ASSUME NEW c \in Calls
        PROVE  /\ call'[c].copies = call[c].copies
               /\ call'[c].verdict = call[c].verdict
    BY <1>4 DEF Tick, Elapse, IInv, CallStates
  <2> QED
    BY <2>1 DEF copies, verdict
<1>5. CASE UNCHANGED vars
  BY <1>5 DEF vars, copies, verdict
<1> QED
  BY <1>1, <1>2, <1>3, <1>4, <1>5 DEF Next, Done

(* A message gets to the chat once or not at all, and the verdict is true  *)
(* of it: Sender implements Delivery (attempt).                            *)
THEOREM Implements == Spec => ImplementsDelivery
<1>1. Init => Promise!Init
  BY DEF Init, NewCall, Promise!Init, copies, verdict
<1> QED
  BY <1>1, NextImplements, CallsStaySound, PTL
     DEF Spec, ImplementsDelivery, Promise!Spec, Promise!vars

=============================================================================
