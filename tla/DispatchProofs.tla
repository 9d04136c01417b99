--------------------------- MODULE DispatchProofs ---------------------------
(***************************************************************************)
(* However many users, updates and sends there are: an update holds its    *)
(* lock for handlerTimeout at most, and every goroutine uses the lock as   *)
(* KeyedLock says.                                                         *)
(*                                                                         *)
(* The time an update has held the lock and the time its context has left  *)
(* never add up to more than handlerTimeout, because time only passes for  *)
(* one that holds the lock while it waits for something the context ends.  *)
(*                                                                         *)
(* No failure is counted twice, and no panic, because every update and     *)
(* every expiry pays for one when it comes in: what may still fail is      *)
(* counted with what has.                                                  *)
(***************************************************************************)
EXTENDS Dispatch, FiniteSetTheorems, TLAPS

(* An update, or watchTimeouts, with a call of its own.                    *)
Resumable(c) == c.at = "wait" => c.try # SendAttempts

CallSound(t) ==
    /\ Resumable(call[t])
    /\ call[t].left = Never <=> t = Watcher

BudgetKept(t) == held[t] + call[t].left <= HandlerTimeout

(* Who holds a lock owns it, and who asked for one knows which.            *)
LockSound(t) ==
    /\ at[t] \in {"idle", "done"} <=> from[t] = Nobody
    /\ at[t] \in Holding => owner[from[t]] = t

IInv ==
    /\ TypeOK
    /\ \A t \in Threads : CallSound(t)
    /\ \A t \in Updates : BudgetKept(t)
    /\ \A t \in Threads : LockSound(t)

-----------------------------------------------------------------------------
(* What a call turns into is a call under the same context.                *)
LEMMA AttemptSound ==
    ASSUME NEW c \in CallStates, NEW after \in Attempt(c)
    PROVE  after \in CallStates /\ after.left = c.left /\ Resumable(after)
<1> DEFINE d(r) == [c EXCEPT !.copies = IF Delivered(r) THEN @ + 1 ELSE @]
<1>1. ASSUME NEW r \in Replies
      PROVE  d(r) \in CallStates /\ d(r).left = c.left
  BY DEF CallStates
<1>2. 0 \in 0 .. MaxRetryAfter
  BY SendingAssumption
<1>3. ASSUME NEW b \in CallStates, NEW v \in Verdicts
      PROVE  /\ Back(b, v) \in CallStates /\ Back(b, v).left = b.left
             /\ Resumable(Back(b, v))
  BY <1>2 DEF CallStates, Back, Resumable
<1>4. ASSUME NEW b \in CallStates, NEW r \in Replies
      PROVE  /\ After(b, r) \in CallStates /\ After(b, r).left = b.left
             /\ Resumable(After(b, r))
  <2>1. {"ok", "blocked", "failed"} \subseteq Verdicts
    BY DEF Verdicts
  <2>2. CASE /\ r.code # "ok" /\ r.code # "forbidden"
             /\ RetryAfter(r) /\ b.try # SendAttempts
    <3>1. r.retryAfter \in 0 .. MaxRetryAfter
      BY <2>2, SendingAssumption DEF RetryAfter
    <3>2. After(b, r) = [b EXCEPT !.at = "wait", !.wait = r.retryAfter]
      BY <2>2 DEF After, Blocked
    <3> QED
      BY <2>2, <3>1, <3>2 DEF CallStates, Resumable
  <2>3. CASE ~(/\ r.code # "ok" /\ r.code # "forbidden"
               /\ RetryAfter(r) /\ b.try # SendAttempts)
    <3>1. \/ After(b, r) = Back(b, "ok")
          \/ After(b, r) = Back(b, "blocked")
          \/ After(b, r) = Back(b, "failed")
      BY <2>3 DEF After, Blocked, RetryAfter
    <3> QED
      BY <1>3, <2>1, <3>1
  <2> QED
    BY <2>2, <2>3
<1>5. CASE CtxDone(c)
  BY <1>3, <1>5 DEF Attempt, Verdicts
<1>6. CASE ~CtxDone(c)
  <2>1. PICK r \in Replies : after = After(d(r), r)
    BY <1>6 DEF Attempt
  <2> HIDE DEF d
  <2> QED
    BY <1>1, <1>4, <2>1
<1> QED
  BY <1>5, <1>6

LEMMA WakeSound ==
    ASSUME NEW c \in CallStates, Resumable(c), CanWake(c)
    PROVE  Wake(c) \in CallStates /\ Wake(c).left = c.left /\ Resumable(Wake(c))
<1>1. c.try + 1 \in 1 .. SendAttempts
  BY SendingAssumption DEF CallStates, Resumable, CanWake
<1> QED
  BY <1>1 DEF Wake, CallStates, Resumable

LEMMA CancelSound ==
    ASSUME NEW c \in CallStates
    PROVE  /\ Cancel(c) \in CallStates /\ Cancel(c).left = c.left
           /\ Resumable(Cancel(c))
<1>1. 0 \in 0 .. MaxRetryAfter /\ "canceled" \in Verdicts
  BY SendingAssumption DEF Verdicts
<1> QED
  BY <1>1 DEF Cancel, Back, CallStates, Resumable

LEMMA NewCallSound ==
    ASSUME NEW left \in Nat \cup {Never}
    PROVE  /\ NewCall(left) \in CallStates /\ NewCall(left).left = left
           /\ Context(left) \in CallStates /\ Context(left).left = left
           /\ Resumable(NewCall(left)) /\ Resumable(Context(left))
<1>1. 0 \in 0 .. MaxRetryAfter /\ 1 \in 1 .. SendAttempts
  BY SendingAssumption
<1>2. NewCall(left) \in CallStates /\ NewCall(left).left = left
  BY <1>1 DEF NewCall, CallStates, Verdicts
<1> QED
  BY <1>2 DEF NewCall, Context, CallStates, Verdicts, Resumable

LEMMA ElapseSound ==
    ASSUME NEW c \in CallStates
    PROVE  /\ Elapse(c) \in CallStates
           /\ Resumable(c) => Resumable(Elapse(c))
           /\ c.left = Never <=> Elapse(c).left = Never
           /\ c.left \in Nat => /\ Elapse(c).left <= c.left
                                /\ Elapse(c).left \in Nat
                                /\ c.left > 0 => Elapse(c).left = c.left - 1
<1> DEFINE w == IF c.wait > 0 THEN c.wait - 1 ELSE c.wait
           l == IF c.left = Never \/ c.left = 0 THEN c.left ELSE c.left - 1
<1>1. w \in 0 .. MaxRetryAfter /\ l \in Nat \cup {Never}
  BY SendingAssumption DEF CallStates
<1>2. Elapse(c) = [c EXCEPT !.wait = w, !.left = l]
  BY DEF Elapse, CallStates
<1>3. /\ Elapse(c) \in CallStates /\ Elapse(c).left = l
      /\ Resumable(c) => Resumable(Elapse(c))
  <2> HIDE DEF w, l
  <2> QED
    BY <1>1, <1>2 DEF CallStates, Resumable
<1> QED
  BY <1>3, SendingAssumption DEF CallStates

-----------------------------------------------------------------------------
(* The steps.                                                              *)

LEMMA InitHolds == Init => IInv
<1> SUFFICES ASSUME Init PROVE IInv
  OBVIOUS
<1>1. ASSUME NEW t \in Threads
      PROVE  /\ call[t] \in CallStates /\ Resumable(call[t])
             /\ call[t].left = IF t = Watcher THEN Never ELSE HandlerTimeout
  <2>1. (IF t = Watcher THEN Never ELSE HandlerTimeout) \in Nat \cup {Never}
    BY DispatchAssumption
  <2> QED
    BY <2>1, NewCallSound DEF Init
<1>2. call \in [Threads -> CallStates]
  BY <1>1 DEF Init
<1>3. TypeOK
  BY <1>2, DispatchAssumption DEF Init, TypeOK, Places
<1>4. \A t \in Threads : CallSound(t)
  BY <1>1, DispatchAssumption, SendingAssumption DEF CallSound
<1>5. ASSUME NEW t \in Updates PROVE BudgetKept(t)
  <2>1. t \in Threads /\ t # Watcher /\ held[t] = 0
    BY DispatchAssumption DEF Threads, Init
  <2> QED
    BY <1>1, <2>1, DispatchAssumption DEF BudgetKept
<1>6. \A t \in Threads : LockSound(t)
  BY DEF Init, LockSound, Holding, Inside
<1> QED
  BY <1>3, <1>4, <1>5, <1>6 DEF IInv

(* A goroutine goes on to its next call, or with the one it has made.      *)
LEMMA CallMoves ==
    ASSUME IInv, NEW t \in Threads, NEW c \in CallStates,
           Resumable(c), c.left = call[t].left,
           call' = [call EXCEPT ![t] = c], UNCHANGED held
    PROVE  /\ call' \in [Threads -> CallStates]
           /\ \A s \in Threads : CallSound(s)'
           /\ \A s \in Updates : BudgetKept(s)'
BY DEF IInv, TypeOK, CallSound, BudgetKept, Threads

(* Nothing happens to the calls.                                           *)
LEMMA CallsStay ==
    ASSUME IInv, UNCHANGED <<call, held>>
    PROVE  /\ call' \in [Threads -> CallStates]
           /\ \A s \in Threads : CallSound(s)'
           /\ \A s \in Updates : BudgetKept(s)'
BY DEF IInv, TypeOK, CallSound, BudgetKept

LEMMA SendHolds ==
    ASSUME IInv, NEW t \in Threads, StartSend(t) \/ SendOn(t)
    PROVE  IInv'
<1>1. call[t] \in CallStates /\ Resumable(call[t])
      /\ call[t].left \in Nat \cup {Never}
  BY DEF IInv, TypeOK, CallSound, CallStates
<1>2. /\ UNCHANGED <<at, from, held, owner, timeouts, expiries,
                     updatesTotal, updatesFailed, panicsRecovered, alive>>
      /\ todo' \in [Threads -> 0 .. MaxSends]
  BY DispatchAssumption DEF StartSend, SendOn, Resume, IInv, TypeOK
<1>3. \E c \in CallStates : /\ Resumable(c) /\ c.left = call[t].left
                            /\ call' = [call EXCEPT ![t] = c]
  <2>1. CASE StartSend(t)
    BY <1>1, <2>1, NewCallSound DEF StartSend, IInv, TypeOK
  <2>2. CASE SendOn(t)
    BY <1>1, <2>2, AttemptSound, WakeSound, CancelSound DEF SendOn, Resume
  <2> QED
    BY <2>1, <2>2
<1>4. /\ call' \in [Threads -> CallStates]
      /\ \A s \in Threads : CallSound(s)'
      /\ \A s \in Updates : BudgetKept(s)'
  BY <1>2, <1>3, CallMoves
<1>5. TypeOK'
  BY <1>2, <1>4 DEF IInv, TypeOK
<1> QED
  BY <1>2, <1>4, <1>5 DEF IInv, LockSound

(* The ways into a handler, to the fallback and out again.                 *)
LEMMA GoHolds ==
    ASSUME IInv, NEW t \in Threads,
           Begin(t) \/ Succeed(t) \/ Fail(t) \/ Fallback(t) \/ Panic(t)
    PROVE  IInv'
<1>1. PICK p \in Holding : at' = [at EXCEPT ![t] = p] \/ at' = at
  BY DEF Begin, Succeed, Fail, Fallback, Panic, Panicked, Go, AfterPanic, Holding, Inside
<1>2. /\ UNCHANGED <<from, call, held, timeouts, expiries>>
      /\ alive' \in BOOLEAN
      /\ todo' \in [Threads -> 0 .. MaxSends]
  <2>1. UNCHANGED <<from, call, held, timeouts, expiries>>
    BY DEF Begin, Succeed, Fail, Fallback, Panic
  <2>2. alive' \in BOOLEAN
    BY DEF Begin, Succeed, Fail, Fallback, Panic, Panicked, IInv, TypeOK
  <2>3. 1 \in 0 .. MaxSends /\ todo \in [Threads -> 0 .. MaxSends]
    BY DispatchAssumption DEF IInv, TypeOK
  <2>4. todo' = todo \/ \E n \in 0 .. MaxSends : todo' = [todo EXCEPT ![t] = n]
    BY <2>3 DEF Begin, Succeed, Fail, Fallback, Panic
  <2> QED
    BY <2>1, <2>2, <2>3, <2>4
<1>3. updatesTotal' \in Nat /\ updatesFailed' \in Nat /\ panicsRecovered' \in Nat
  BY DEF Begin, Succeed, Fail, Fallback, Panic, Panicked, CountedLate, IInv, TypeOK
<1>4. at[t] \in {"lock", "handler", "fallback"}
  BY DEF Begin, Succeed, Fail, Fallback, Panic, Inside
<1>5. from[t] \in Users /\ from \in [Threads -> Users \cup {Nobody}]
  BY <1>4 DEF IInv, TypeOK, LockSound
<1>6. \/ /\ at[t] = "lock" /\ owner[from[t]] = Nobody
         /\ owner' = [owner EXCEPT ![from[t]] = t]
      \/ at[t] \in Holding /\ owner' = owner
  BY DEF Begin, Succeed, Fail, Fallback, Panic, Holding, Inside
<1>7. /\ at' \in [Threads -> Places]
      /\ owner' \in [Users -> Threads \cup {Nobody}]
  BY <1>1, <1>5, <1>6 DEF IInv, TypeOK, Places, Holding, Inside
<1>8. TypeOK'
  BY <1>2, <1>3, <1>7 DEF IInv, TypeOK
<1>9. ASSUME NEW s \in Threads PROVE LockSound(s)'
  <2>1. owner[from[t]] # Nobody => owner' = owner
    BY <1>6
  <2>2. at[s] \in Holding => owner'[from[s]] = s
    <3> SUFFICES ASSUME at[s] \in Holding PROVE owner'[from[s]] = s
      OBVIOUS
    <3>1. from[s] \in Users /\ owner[from[s]] = s
      BY <1>5 DEF IInv, LockSound, Holding, Inside
    <3>2. s # Nobody /\ owner \in [Users -> Threads \cup {Nobody}]
      BY DispatchAssumption DEF IInv, TypeOK
    <3> QED
      BY <1>5, <1>6, <3>1, <3>2
  <2>3. owner'[from[t]] = t
    BY <1>5, <1>6 DEF IInv, TypeOK, LockSound
  <2>4. CASE s = t
    BY <1>1, <1>2, <1>4, <1>5, <2>3, <2>4, DispatchAssumption
    DEF IInv, TypeOK, LockSound, Holding, Inside
  <2>5. CASE s # t
    BY <1>1, <1>2, <2>2, <2>5 DEF IInv, TypeOK, LockSound
  <2> QED
    BY <2>4, <2>5
<1> QED
  BY <1>2, <1>8, <1>9, CallsStay DEF IInv

LEMMA ReleaseHolds ==
    ASSUME IInv, NEW t \in Threads, Release(t)
    PROVE  IInv'
<1>1. PICK p \in {"idle", "done"} : at' = [at EXCEPT ![t] = p]
  BY DEF Release, Go
<1>2. /\ at[t] = "release"
      /\ owner' = [owner EXCEPT ![from[t]] = Nobody]
      /\ from' = [from EXCEPT ![t] = Nobody]
      /\ todo' = [todo EXCEPT ![t] = 0]
      /\ UNCHANGED <<held, timeouts, expiries,
                     updatesTotal, updatesFailed, panicsRecovered, alive>>
  BY DEF Release
<1>3. \E c \in CallStates : /\ Resumable(c) /\ c.left = call[t].left
                            /\ call' = [call EXCEPT ![t] = c]
  <2>1. call[t].left \in Nat \cup {Never}
    BY DEF IInv, TypeOK, CallStates
  <2> QED
    BY <2>1, NewCallSound DEF Release, IInv, TypeOK
<1>4. /\ call' \in [Threads -> CallStates]
      /\ \A s \in Threads : CallSound(s)'
      /\ \A s \in Updates : BudgetKept(s)'
  BY <1>2, <1>3, CallMoves
<1>5. from[t] \in Users /\ owner[from[t]] = t
  BY <1>2 DEF IInv, TypeOK, LockSound, Holding
<1>6. TypeOK'
  <2>1. 0 \in 0 .. MaxSends
    BY DispatchAssumption
  <2>2. /\ at' \in [Threads -> Places] /\ todo' \in [Threads -> 0 .. MaxSends]
        /\ from' \in [Threads -> Users \cup {Nobody}]
        /\ owner' \in [Users -> Threads \cup {Nobody}]
    BY <1>1, <1>2, <2>1 DEF IInv, TypeOK, Places
  <2> QED
    BY <1>2, <1>4, <2>2 DEF IInv, TypeOK
<1>7. ASSUME NEW s \in Threads PROVE LockSound(s)'
  <2>1. CASE s = t
    BY <1>1, <1>2, <2>1 DEF IInv, TypeOK, LockSound, Holding, Inside
  <2>2. CASE s # t
    BY <1>1, <1>2, <1>5, <2>2 DEF IInv, TypeOK, LockSound
  <2> QED
    BY <2>1, <2>2
<1> QED
  BY <1>4, <1>6, <1>7 DEF IInv

(* What comes in from Telegram and from the clocks of questions.           *)
LEMMA ArriveHolds ==
    ASSUME IInv,
           \/ \E t \in Threads, u \in Users : Receive(t, u)
           \/ \E t \in Threads : Watch(t)
           \/ \E u \in Users : Expire(u)
    PROVE  IInv'
<1>1. CASE \E u \in Users : Expire(u)
  <2>1. PICK u \in Users : Expire(u)
    BY <1>1
  <2>2. timeouts' \in Seq(Users) /\ expiries' \in 0 .. MaxExpiries
    BY <2>1, DispatchAssumption DEF Expire, IInv, TypeOK
  <2>3. UNCHANGED <<at, from, todo, call, held, owner,
                    updatesTotal, updatesFailed, panicsRecovered, alive>>
    BY <2>1 DEF Expire
  <2>4. TypeOK'
    BY <2>2, <2>3 DEF IInv, TypeOK
  <2> QED
    BY <2>3, <2>4, CallsStay DEF IInv, LockSound
<1>2. ASSUME NEW t \in Threads, NEW u \in Users,
             at[t] = "idle", Go(t, "lock"), from' = [from EXCEPT ![t] = u],
             timeouts' \in Seq(Users), updatesTotal' \in Nat,
             UNCHANGED <<todo, call, held, owner, expiries, updatesFailed,
                         panicsRecovered, alive>>
      PROVE  IInv'
  <2>1. TypeOK'
    BY <1>2, CallsStay DEF Go, IInv, TypeOK, Places
  <2>2. \A s \in Threads : LockSound(s)'
    BY <1>2, DispatchAssumption DEF Go, IInv, TypeOK, LockSound, Holding, Inside
  <2> QED
    BY <1>2, <2>1, <2>2, CallsStay DEF IInv
<1>3. ASSUME NEW t \in Threads, NEW u \in Users, Receive(t, u) PROVE IInv'
  <2>1. timeouts' \in Seq(Users) /\ updatesTotal' \in Nat
    BY <1>3 DEF Receive, IInv, TypeOK
  <2> QED
    BY <1>2, <1>3, <2>1 DEF Receive
<1>4. ASSUME NEW t \in Threads, Watch(t) PROVE IInv'
  <2>1. /\ timeouts' \in Seq(Users) /\ updatesTotal' \in Nat
        /\ Head(timeouts) \in Users
    BY <1>4 DEF Watch, IInv, TypeOK
  <2> QED
    BY <1>2, <1>4, <2>1 DEF Watch
<1> QED
  BY <1>1, <1>3, <1>4

(* Time: it passes for the context of whoever holds a lock.                *)
LEMMA TickHolds == ASSUME IInv, Tick PROVE IInv'
<1>1. /\ \A t \in Threads :
             call'[t] = IF at[t] \in {"idle", "done"} THEN call[t]
                        ELSE Elapse(call[t])
      /\ call' = [t \in Threads |-> call'[t]]
      /\ \A t \in Updates :
             held'[t] = IF at[t] \in Inside THEN held[t] + 1 ELSE held[t]
      /\ held' = [t \in Updates |-> held'[t]]
      /\ UNCHANGED <<at, from, todo, owner, timeouts, expiries,
                     updatesTotal, updatesFailed, panicsRecovered, alive>>
  BY DEF Tick
<1>2. ASSUME NEW t \in Threads
      PROVE  /\ call'[t] \in CallStates
             /\ CallSound(t)'
  <2>1. call[t] \in CallStates /\ CallSound(t)
    BY DEF IInv, TypeOK
  <2>2. /\ Elapse(call[t]) \in CallStates
        /\ Resumable(call[t]) => Resumable(Elapse(call[t]))
        /\ call[t].left = Never <=> Elapse(call[t]).left = Never
    BY <2>1, ElapseSound
  <2>3. call'[t] = call[t] \/ call'[t] = Elapse(call[t])
    BY <1>1
  <2> QED
    BY <2>1, <2>2, <2>3 DEF CallSound
<1>3. ASSUME NEW t \in Updates
      PROVE  held'[t] \in Nat /\ BudgetKept(t)'
  <2>1. /\ t \in Threads /\ call[t] \in CallStates /\ held[t] \in Nat
        /\ call[t].left \in Nat
        /\ held[t] + call[t].left <= HandlerTimeout
    BY DispatchAssumption
    DEF IInv, TypeOK, CallSound, BudgetKept, Threads, CallStates
  <2>2. at[t] \in Inside => call[t].left > 0
    <3>1. ~Busy(t)
      BY <2>1 DEF Tick
    <3>2. call[t].at \in {"send", "wait", "back"}
      BY <2>1 DEF CallStates
    <3> QED
      BY <2>1, <3>1, <3>2 DEF Busy, Holding, Urgent, CanCancel, CtxDone
  <2>3. /\ Elapse(call[t]).left \in Nat
        /\ Elapse(call[t]).left <= call[t].left
        /\ call[t].left > 0 => Elapse(call[t]).left = call[t].left - 1
    BY <2>1, ElapseSound
  <2>4. CASE at[t] \in Inside
    BY <1>1, <2>1, <2>2, <2>3, <2>4, DispatchAssumption DEF BudgetKept, Inside
  <2>5. CASE at[t] \notin Inside
    BY <1>1, <2>1, <2>3, <2>5, DispatchAssumption DEF BudgetKept
  <2> QED
    BY <2>4, <2>5
<1>4. /\ call' \in [Threads -> CallStates]
      /\ held' \in [Updates -> Nat]
  BY <1>1, <1>2, <1>3
<1>5. TypeOK'
  BY <1>1, <1>4 DEF IInv, TypeOK
<1> QED
  BY <1>1, <1>2, <1>3, <1>5 DEF IInv, LockSound

LEMMA NextHolds == IInv /\ [Next]_vars => IInv'
<1> SUFFICES ASSUME IInv, [Next]_vars PROVE IInv'
  OBVIOUS
<1>1. CASE UNCHANGED vars
  BY <1>1, CallsStay DEF vars, IInv, TypeOK, LockSound
<1>2. ASSUME NEW t \in Threads, Begin(t) \/ Step(t) PROVE IInv'
  BY <1>2, SendHolds, GoHolds, ReleaseHolds DEF Step
<1> QED
  BY <1>1, <1>2, ArriveHolds, TickHolds DEF Next, Quiet

-----------------------------------------------------------------------------
(* The invariant behind the three that follow.                             *)
THEOREM GoroutinesStaySound == Spec => []IInv
BY InitHolds, NextHolds, PTL DEF Spec

(* The state has its shape (Bot, Sender.attempt).                          *)
THEOREM TypeCorrect == Spec => []TypeOK
<1>1. IInv => TypeOK
  BY DEF IInv
<1> QED
  BY <1>1, GoroutinesStaySound, PTL

(* "handlerTimeout bounds one update" (bot.go).                            *)
THEOREM HoldBoundedHolds == Spec => []HoldBounded
<1>1. IInv => HoldBounded
  <2> SUFFICES ASSUME IInv, NEW t \in Updates PROVE held[t] <= HandlerTimeout
    BY DEF HoldBounded
  <2>1. /\ held[t] \in Nat /\ call[t].left \in Nat
        /\ held[t] + call[t].left <= HandlerTimeout
    BY DispatchAssumption
    DEF IInv, TypeOK, CallSound, BudgetKept, Threads, CallStates
  <2> QED
    BY <2>1, DispatchAssumption
<1> QED
  BY <1>1, GoroutinesStaySound, PTL

(* The bot runtime uses the lock as KeyedMutex wants it (dispatch,         *)
(* dispatchPollAnswer, timedOut).                                          *)
THEOREM UsesLockHolds == Spec => UsesLock
<1>1. Init => Lock!Init
  BY DEF Init, Lock!Init, wants
<1>2. IInv /\ [Next]_vars => [Lock!Next]_(Lock!vars)
  <2> SUFFICES ASSUME IInv, [Next]_vars
               PROVE  Lock!Next \/ UNCHANGED <<wants, owner>>
    BY DEF Lock!vars
  <2>1. ASSUME UNCHANGED <<at, from, owner>> PROVE UNCHANGED <<wants, owner>>
    BY <2>1 DEF wants
  <2>2. ASSUME NEW t \in Threads, NEW u \in Users,
               at[t] = "idle", Go(t, "lock"), from' = [from EXCEPT ![t] = u],
               UNCHANGED owner
        PROVE  Lock!Request(t, u)
    BY <2>2 DEF Lock!Request, wants, Go, IInv, TypeOK
  <2>3. ASSUME NEW t \in Threads, Begin(t) PROVE Lock!Next
    <3>1. from[t] \in Users
      BY <2>3 DEF Begin, IInv, TypeOK, LockSound
    <3>2. Lock!Grant(t, from[t])
      BY <2>3 DEF Begin, Panicked, AfterPanic, Lock!Grant, wants, Go, IInv, TypeOK
    <3> QED
      BY <3>1, <3>2 DEF Lock!Next
  <2>4. ASSUME NEW t \in Threads, Release(t) PROVE Lock!Next
    <3>1. from[t] \in Users /\ owner[from[t]] = t
      BY <2>4 DEF Release, IInv, TypeOK, LockSound, Holding
    <3>2. wants' = [wants EXCEPT ![t] = Nobody]
      BY <2>4 DEF Release, wants, Go, IInv, TypeOK
    <3>3. Lock!Free(t, from[t])
      BY <2>4, <3>1, <3>2 DEF Release, Lock!Free
    <3> QED
      BY <3>1, <3>3 DEF Lock!Next
  <2>5. ASSUME NEW t \in Threads,
               Succeed(t) \/ Fail(t) \/ Fallback(t) \/ Panic(t)
        PROVE  UNCHANGED <<wants, owner>>
    BY <2>5
    DEF Succeed, Fail, Fallback, Panic, Panicked, AfterPanic, Inside, Go,
        wants, IInv, TypeOK
  <2>6. ASSUME NEW t \in Threads, StartSend(t) \/ SendOn(t)
        PROVE  UNCHANGED <<wants, owner>>
    BY <2>1, <2>6 DEF StartSend, SendOn, Resume
  <2>7. ASSUME NEW t \in Threads, NEW u \in Users, Receive(t, u)
        PROVE  Lock!Next
    BY <2>2, <2>7 DEF Receive, Lock!Next
  <2>8. ASSUME NEW t \in Threads, Watch(t) PROVE Lock!Next
    <3>1. Head(timeouts) \in Users
      BY <2>8 DEF Watch, IInv, TypeOK
    <3> QED
      BY <2>2, <2>8, <3>1 DEF Watch, Lock!Next
  <2>9. CASE (\E u \in Users : Expire(u)) \/ Tick \/ UNCHANGED vars
    BY <2>1, <2>9 DEF Expire, Tick, vars
  <2> QED
    BY <2>3, <2>4, <2>5, <2>6, <2>7, <2>8, <2>9 DEF Next, Step, Quiet
<1> QED
  BY <1>1, <1>2, GoroutinesStaySound, PTL DEF Spec, UsesLock, Lock!Spec

-----------------------------------------------------------------------------
(* The goroutines of a set that are at one of these places.                *)
In(threads, places) == {t \in threads : at[t] \in places}

(* Who may still fail, which updates may still panic, and which are in.    *)
AtRisk == In(Threads, {"lock", "handler"})
Exposed == In(Updates, {"lock", "handler", "fallback"})
CameIn == In(Updates, Places \ {"idle"})

(* Failures, and what may yet be one, in the channel too.                  *)
FailuresPaid ==
    updatesFailed + Cardinality(AtRisk) + Len(timeouts)
        <= Cardinality(CameIn) + expiries

PanicsPaid == panicsRecovered + Cardinality(Exposed) <= Cardinality(CameIn)

Paid == FailuresPaid /\ PanicsPaid

LEMMA InFinite ==
    ASSUME NEW threads \in SUBSET Threads, NEW places
    PROVE  /\ IsFiniteSet(In(threads, places))
           /\ Cardinality(In(threads, places)) \in Nat
<1>1. IsFiniteSet(Threads)
  BY DispatchAssumption, FS_AddElement DEF Threads
<1>2. In(threads, places) \in SUBSET Threads
  BY DEF In
<1> QED
  BY <1>1, <1>2, FS_Subset, FS_CardinalityType

(* One goroutine moves: to one of the places, or away from them.           *)
LEMMA OneIn ==
    ASSUME TypeOK, NEW t \in Threads, NEW p \in Places, Go(t, p),
           NEW threads \in SUBSET Threads, NEW places
    PROVE  Cardinality(In(threads, places)') =
               Cardinality(In(threads, places))
                   + (IF t \in threads /\ p \in places THEN 1 ELSE 0)
                   - (IF t \in threads /\ at[t] \in places THEN 1 ELSE 0)
<1> DEFINE S == In(threads, places)
<1>1. S' = IF t \in threads /\ p \in places THEN S \cup {t} ELSE S \ {t}
  BY DEF Go, In, TypeOK
<1>2. t \in S <=> t \in threads /\ at[t] \in places
  BY DEF In
<1>3. IsFiniteSet(S) /\ Cardinality(S) \in Nat
  BY InFinite
<1>4. Cardinality(S \cup {t}) =
          IF t \in S THEN Cardinality(S) ELSE Cardinality(S) + 1
  BY <1>3, FS_AddElement
<1>5. Cardinality(S \ {t}) =
          IF t \in S THEN Cardinality(S) - 1 ELSE Cardinality(S)
  BY <1>3, FS_RemoveElement
<1> HIDE DEF S
<1>6. Cardinality(S') = Cardinality(S)
          + (IF t \in threads /\ p \in places THEN 1 ELSE 0)
          - (IF t \in threads /\ at[t] \in places THEN 1 ELSE 0)
  BY <1>1, <1>2, <1>3, <1>4, <1>5
<1> QED
  BY <1>6 DEF S

LEMMA InitPaid == Init => Paid
<1> SUFFICES ASSUME Init PROVE Paid
  OBVIOUS
<1>1. AtRisk = {} /\ Exposed = {} /\ CameIn = {}
  BY DEF Init, AtRisk, Exposed, CameIn, In, Threads
<1> QED
  BY <1>1, FS_EmptySet DEF Init, Paid, FailuresPaid, PanicsPaid

(* What a move does to the three counts.                                   *)
LEMMA Moves ==
    ASSUME TypeOK, NEW t \in Threads, NEW p \in Places, Go(t, p)
    PROVE  /\ Cardinality(AtRisk') =
                  Cardinality(AtRisk)
                      + (IF p \in {"lock", "handler"} THEN 1 ELSE 0)
                      - (IF at[t] \in {"lock", "handler"} THEN 1 ELSE 0)
           /\ Cardinality(Exposed') =
                  Cardinality(Exposed)
                      + (IF t \in Updates /\ p \in {"lock", "handler", "fallback"}
                         THEN 1 ELSE 0)
                      - (IF t \in Updates /\ at[t] \in {"lock", "handler", "fallback"}
                         THEN 1 ELSE 0)
           /\ Cardinality(CameIn') =
                  Cardinality(CameIn)
                      + (IF t \in Updates /\ p # "idle" THEN 1 ELSE 0)
                      - (IF t \in Updates /\ at[t] # "idle" THEN 1 ELSE 0)
<1>1. Updates \subseteq Threads /\ at[t] \in Places
  BY DEF Threads, TypeOK
<1>2. /\ p \in Places \ {"idle"} <=> p # "idle"
      /\ at[t] \in Places \ {"idle"} <=> at[t] # "idle"
  BY <1>1
<1> QED
  BY <1>1, <1>2, OneIn DEF AtRisk, Exposed, CameIn

LEMMA NextPaid == TypeOK /\ Paid /\ [Next]_vars => Paid'
<1> SUFFICES ASSUME TypeOK, Paid, [Next]_vars PROVE Paid'
  OBVIOUS
<1>1. /\ updatesFailed \in Nat /\ panicsRecovered \in Nat /\ expiries \in Nat
      /\ Len(timeouts) \in Nat /\ timeouts \in Seq(Users)
      /\ Cardinality(AtRisk) \in Nat /\ Cardinality(Exposed) \in Nat
      /\ Cardinality(CameIn) \in Nat
  BY InFinite, DispatchAssumption DEF TypeOK, AtRisk, Exposed, CameIn, Threads
<1>2. ASSUME UNCHANGED <<at, timeouts, expiries, updatesFailed, panicsRecovered>>
      PROVE  Paid'
  BY <1>2 DEF Paid, FailuresPaid, PanicsPaid, AtRisk, Exposed, CameIn, In
<1>3. ASSUME NEW u \in Users, Expire(u) PROVE Paid'
  <2>1. Len(timeouts') \in Nat /\ Len(timeouts') <= Len(timeouts) + 1
    BY <1>1, <1>3 DEF Expire
  <2>2. AtRisk' = AtRisk /\ Exposed' = Exposed /\ CameIn' = CameIn
    BY <1>3 DEF Expire, AtRisk, Exposed, CameIn, In
  <2> QED
    BY <1>1, <1>3, <2>1, <2>2 DEF Expire, Paid, FailuresPaid, PanicsPaid
<1>4. ASSUME NEW t \in Threads, NEW u \in Users, Receive(t, u) PROVE Paid'
  <2>1. /\ t \in Updates /\ at[t] = "idle" /\ Go(t, "lock") /\ "lock" \in Places
        /\ UNCHANGED <<timeouts, expiries, updatesFailed, panicsRecovered>>
    BY <1>4 DEF Receive, Threads, Places
  <2>2. /\ Cardinality(AtRisk') = Cardinality(AtRisk) + 1
        /\ Cardinality(Exposed') = Cardinality(Exposed) + 1
        /\ Cardinality(CameIn') = Cardinality(CameIn) + 1
    BY <1>1, <2>1, Moves
  <2>3. FailuresPaid'
    BY <1>1, <2>1, <2>2 DEF Paid, FailuresPaid
  <2>4. PanicsPaid'
    BY <1>1, <2>1, <2>2 DEF Paid, PanicsPaid
  <2> QED
    BY <2>3, <2>4 DEF Paid
<1>5. ASSUME NEW t \in Threads, Watch(t) PROVE Paid'
  <2>1. /\ t \notin Updates /\ at[t] = "idle" /\ Go(t, "lock") /\ "lock" \in Places
        /\ UNCHANGED <<expiries, updatesFailed, panicsRecovered>>
        /\ Len(timeouts') = Len(timeouts) - 1
    BY <1>1, <1>5, DispatchAssumption DEF Watch, Places
  <2>2. /\ Cardinality(AtRisk') = Cardinality(AtRisk) + 1
        /\ Cardinality(Exposed') = Cardinality(Exposed)
        /\ Cardinality(CameIn') = Cardinality(CameIn)
    BY <1>1, <2>1, Moves
  <2> QED
    BY <1>1, <2>1, <2>2 DEF Paid, FailuresPaid, PanicsPaid
(* A goroutine at risk fails, panics or goes on...                         *)
<1>6. ASSUME NEW t \in Threads, NEW p \in {"handler", "fallback", "release"},
             at[t] \in {"lock", "handler"}, Go(t, p),
             UNCHANGED <<timeouts, expiries>>,
             \/ UNCHANGED <<updatesFailed, panicsRecovered>>
             \/ /\ p # "handler" /\ updatesFailed' = updatesFailed + 1
                /\ UNCHANGED panicsRecovered
             \/ /\ p = "release" /\ t \in Updates
                /\ panicsRecovered' = panicsRecovered + 1
                /\ UNCHANGED updatesFailed
      PROVE  Paid'
  <2>1. p \in Places /\ p # "idle"
    BY DEF Places
  <2>2. /\ Cardinality(AtRisk') =
              IF p = "handler" THEN Cardinality(AtRisk) ELSE Cardinality(AtRisk) - 1
        /\ Cardinality(Exposed') =
              IF t \in Updates /\ p = "release" THEN Cardinality(Exposed) - 1
              ELSE Cardinality(Exposed)
        /\ Cardinality(CameIn') = Cardinality(CameIn)
    BY <1>1, <1>6, <2>1, Moves
  <2>3. FailuresPaid'
    BY <1>1, <1>6, <2>2 DEF Paid, FailuresPaid
  <2>4. PanicsPaid'
    BY <1>1, <1>6, <2>2 DEF Paid, PanicsPaid
  <2> QED
    BY <2>3, <2>4 DEF Paid
(* ...and one in its fallback may only panic.                              *)
<1>7. ASSUME NEW t \in Threads, NEW p \in {"release", "idle", "done"},
             at[t] \in {"fallback", "release"}, Go(t, p), t = Watcher \/ p # "idle",
             UNCHANGED <<timeouts, expiries, updatesFailed>>,
             \/ UNCHANGED panicsRecovered
             \/ /\ at[t] = "fallback" /\ p = "release" /\ t \in Updates
                /\ panicsRecovered' = panicsRecovered + 1
      PROVE  Paid'
  <2>1. p \in Places /\ (t \in Updates => p # "idle")
    BY <1>7, DispatchAssumption DEF Places
  <2>2. /\ Cardinality(AtRisk') = Cardinality(AtRisk)
        /\ Cardinality(Exposed') =
              IF t \in Updates /\ at[t] = "fallback" THEN Cardinality(Exposed) - 1
              ELSE Cardinality(Exposed)
        /\ Cardinality(CameIn') = Cardinality(CameIn)
    BY <1>1, <1>7, <2>1, Moves
  <2>3. FailuresPaid'
    BY <1>1, <1>7, <2>2 DEF Paid, FailuresPaid
  <2>4. PanicsPaid'
    BY <1>1, <1>7, <2>2 DEF Paid, PanicsPaid
  <2> QED
    BY <2>3, <2>4 DEF Paid
<1>8. ASSUME NEW t \in Threads, Panicked(t)
      PROVE  /\ Go(t, "release")
             /\ \/ UNCHANGED panicsRecovered
                \/ t \in Updates /\ panicsRecovered' = panicsRecovered + 1
  BY <1>8 DEF Panicked, AfterPanic, Threads
<1>9. ASSUME NEW t \in Threads, Begin(t) PROVE Paid'
  BY <1>6, <1>8, <1>9 DEF Begin
<1>10. ASSUME NEW t \in Threads, Succeed(t) \/ Fail(t) PROVE Paid'
  BY <1>6, <1>10 DEF Succeed, Fail
<1>11. ASSUME NEW t \in Threads, Panic(t) PROVE Paid'
  BY <1>6, <1>7, <1>8, <1>11 DEF Panic, Inside
<1>12. ASSUME NEW t \in Threads, Fallback(t) \/ Release(t) PROVE Paid'
  <2>1. \E p \in {"release", "idle", "done"} :
            Go(t, p) /\ (t = Watcher \/ p # "idle")
    BY <1>12 DEF Fallback, Release
  <2> QED
    BY <1>7, <1>12, <2>1 DEF Fallback, Release
<1>13. ASSUME NEW t \in Threads, StartSend(t) \/ SendOn(t) PROVE Paid'
  BY <1>2, <1>13 DEF StartSend, SendOn, Resume
<1>14. CASE Tick \/ UNCHANGED vars
  BY <1>2, <1>14 DEF Tick, vars
<1> QED
  BY <1>3, <1>4, <1>5, <1>9, <1>10, <1>11, <1>12, <1>13, <1>14
  DEF Next, Step, Quiet

(* Of an update or an expiry one failure is counted at most, and of an     *)
(* update one panic, the handler, the fallback and what comes before them  *)
(* included (run, timedOut, recover).                                      *)
THEOREM FailuresCountedHolds == Spec => []FailuresCounted
<1>1. TypeOK /\ Paid => FailuresCounted
  <2> SUFFICES ASSUME TypeOK, Paid PROVE FailuresCounted
    OBVIOUS
  <2>1. CameIn = Received
    BY DEF CameIn, In, Received, TypeOK, Threads
  <2>2. /\ Cardinality(AtRisk) \in Nat /\ Cardinality(Exposed) \in Nat
        /\ Cardinality(CameIn) \in Nat /\ Len(timeouts) \in Nat
    BY InFinite DEF TypeOK, AtRisk, Exposed, CameIn, Threads
  <2> QED
    BY <2>1, <2>2, DispatchAssumption
    DEF TypeOK, Paid, FailuresPaid, PanicsPaid, FailuresCounted
<1> QED
  BY <1>1, InitPaid, NextPaid, TypeCorrect, PTL DEF Spec

=============================================================================
