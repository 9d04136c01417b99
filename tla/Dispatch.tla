------------------------------ MODULE Dispatch ------------------------------
(***************************************************************************)
(* bot.Bot at work: a goroutine for every update, and one goroutine,       *)
(* watchTimeouts, for the expired questions of all users in turn.  Each    *)
(* takes the lock of its user, loads the user, resolves a route and runs   *)
(* its handler, which sends through the sender; a failure is followed by   *)
(* the fallback, a panic by the recovery, and the lock is given back       *)
(* whatever happened.                                                      *)
(*                                                                         *)
(* What a handler does to a conversation is in Handlers; here it is a few  *)
(* sends, each a call of Sending under the context of the update, and a    *)
(* verdict.  Work other than sending takes no time.                        *)
(***************************************************************************)
EXTENDS Sending, Sequences, FiniteSets

CONSTANTS
    Users,
    Updates,        \* updates from Telegram, a goroutine each
    Watcher,        \* the goroutine of watchTimeouts
    Nobody,         \* owns a lock that is free
    HandlerTimeout, \* handlerTimeout
    TimeoutBuffer,  \* timeoutBuffer
    MaxSends,       \* bound: sends a handler makes
    MaxExpiries     \* bound: questions that run out of time

Threads == Updates \cup {Watcher}

ASSUME DispatchAssumption ==
    /\ IsFiniteSet(Updates)
    /\ Watcher \notin Updates
    /\ Nobody \notin Users \cup Threads
    /\ HandlerTimeout \in Nat
    /\ TimeoutBuffer \in Nat \ {0}
    /\ MaxSends \in Nat \ {0}
    /\ MaxExpiries \in Nat

VARIABLES
    at,             \* where a goroutine is
    from,           \* the user its update or expiry is of
    todo,           \* how many more sends its handler has in mind
    call,           \* its latest send, with what is left of its context
    held,           \* how long an update has had the lock
    owner,          \* who holds the lock of a user
    timeouts,       \* the channel of expiries
    expiries,       \* how many there were
    updatesTotal, updatesFailed, panicsRecovered,   \* Metrics
    alive           \* the process is

vars == <<at, from, todo, call, held, owner, timeouts, expiries,
          updatesTotal, updatesFailed, panicsRecovered, alive>>

(* "idle", waiting for the "lock", in the "handler", in the "fallback",    *)
(* about to "release" the lock, "done".                                    *)
Places == {"idle", "lock", "handler", "fallback", "release", "done"}
Inside == {"handler", "fallback"}
Holding == Inside \cup {"release"}

TypeOK ==
    /\ at \in [Threads -> Places]
    /\ from \in [Threads -> Users \cup {Nobody}]
    /\ todo \in [Threads -> 0 .. MaxSends]
    /\ call \in [Threads -> CallStates]
    /\ held \in [Updates -> Nat]
    /\ owner \in [Users -> Threads \cup {Nobody}]
    /\ timeouts \in Seq(Users)
    /\ expiries \in 0 .. MaxExpiries
    /\ updatesTotal \in Nat /\ updatesFailed \in Nat /\ panicsRecovered \in Nat
    /\ alive \in BOOLEAN

(* A call that has been made, under a context with so much left.           *)
Context(left) == [NewCall(left) EXCEPT !.at = "back", !.verdict = "ok"]

Init ==
    /\ at = [t \in Threads |-> "idle"]
    /\ from = [t \in Threads |-> Nobody]
    /\ todo = [t \in Threads |-> 0]
    /\ call = [t \in Threads |->
                  Context(IF t = Watcher THEN Never ELSE HandlerTimeout)]
    /\ held = [t \in Updates |-> 0]
    /\ owner = [u \in Users |-> Nobody]
    /\ timeouts = <<>>
    /\ expiries = 0
    /\ updatesTotal = 0 /\ updatesFailed = 0 /\ panicsRecovered = 0
    /\ alive = TRUE

-----------------------------------------------------------------------------
Go(t, place) == at' = [at EXCEPT ![t] = place]

(* The clock of a question runs out (startClock).                          *)
Expire(u) ==
    /\ expiries < MaxExpiries
    /\ expiries' = expiries + 1
    /\ timeouts' = IF Len(timeouts) < TimeoutBuffer THEN Append(timeouts, u)
                   ELSE timeouts
    /\ UNCHANGED <<at, from, todo, call, held, owner,
                   updatesTotal, updatesFailed, panicsRecovered, alive>>

(* An update comes in and asks for the lock (dispatch, dispatchPollAnswer).*)
Receive(t, u) ==
    /\ t # Watcher
    /\ at[t] = "idle"
    /\ Go(t, "lock")
    /\ from' = [from EXCEPT ![t] = u]
    /\ updatesTotal' = updatesTotal + 1
    /\ UNCHANGED <<todo, call, held, owner, timeouts, expiries, updatesFailed,
                   panicsRecovered, alive>>

(* watchTimeouts takes the next expiry and asks for the lock (timedOut).   *)
Watch(t) ==
    /\ t = Watcher
    /\ at[t] = "idle"
    /\ timeouts # <<>>
    /\ Go(t, "lock")
    /\ from' = [from EXCEPT ![t] = Head(timeouts)]
    /\ timeouts' = Tail(timeouts)
    /\ UNCHANGED <<todo, call, held, owner, expiries,
                   updatesTotal, updatesFailed, panicsRecovered, alive>>

(* An expiry is counted with the updates once it has got so far.           *)
CountedLate(t) == IF t = Watcher THEN 1 ELSE 0

(* Mutant: only a return gives the lock back.                              *)
AfterPanicGone == "done"

(* The deferred release runs as the stack unwinds.                         *)
AfterPanic == "release"

(* An update that panics is recovered; an expiry runs on a goroutine that  *)
(* nothing recovers.                                                       *)
Panicked(t) ==
    /\ Go(t, AfterPanic)
    /\ IF t = Watcher
       THEN alive' = FALSE /\ UNCHANGED panicsRecovered
       ELSE panicsRecovered' = panicsRecovered + 1 /\ UNCHANGED alive

(* The lock is there: the user is loaded, and if that fails or there is    *)
(* nothing to run for them, that is all.  Either may panic.                *)
Begin(t) ==
    /\ at[t] = "lock"
    /\ owner[from[t]] = Nobody
    /\ owner' = [owner EXCEPT ![from[t]] = t]
    /\ \/ /\ Go(t, "release")
          /\ updatesFailed' = updatesFailed + 1
          /\ UNCHANGED <<updatesTotal, todo, panicsRecovered, alive>>
       \/ /\ ~CtxDone(call[t])
          /\ Go(t, "release")
          /\ UNCHANGED <<updatesTotal, updatesFailed, todo, panicsRecovered, alive>>
       \/ /\ ~CtxDone(call[t])
          /\ Go(t, "handler")
          /\ \E n \in 0 .. MaxSends : todo' = [todo EXCEPT ![t] = n]
          /\ updatesTotal' = updatesTotal + CountedLate(t)
          /\ UNCHANGED <<updatesFailed, panicsRecovered, alive>>
       \/ Panicked(t) /\ UNCHANGED <<updatesTotal, updatesFailed, todo>>
    /\ UNCHANGED <<from, call, held, timeouts, expiries>>

-----------------------------------------------------------------------------
(* The handler, or the fallback, makes its next send.                      *)
StartSend(t) ==
    /\ at[t] \in Inside
    /\ call[t].at = "back"
    /\ todo[t] > 0
    /\ todo' = [todo EXCEPT ![t] = @ - 1]
    /\ call' = [call EXCEPT ![t] = NewCall(@.left)]
    /\ UNCHANGED <<at, from, held, owner, timeouts, expiries,
                   updatesTotal, updatesFailed, panicsRecovered, alive>>

Resume(t, after) ==
    /\ call' = [call EXCEPT ![t] = after]
    /\ UNCHANGED <<at, from, todo, held, owner, timeouts, expiries,
                   updatesTotal, updatesFailed, panicsRecovered, alive>>

(* The send under way: a request, the end of a wait, or of the context.    *)
SendOn(t) ==
    /\ at[t] \in Inside
    /\ \/ call[t].at = "send" /\ \E after \in Attempt(call[t]) : Resume(t, after)
       \/ CanWake(call[t]) /\ Resume(t, Wake(call[t]))
       \/ CanCancel(call[t]) /\ Resume(t, Cancel(call[t]))

(* The handler returns with no error...                                    *)
Succeed(t) ==
    /\ at[t] = "handler" /\ call[t].at = "back" /\ todo[t] = 0
    /\ Go(t, "release")
    /\ UNCHANGED <<from, todo, call, held, owner, timeouts, expiries,
                   updatesTotal, updatesFailed, panicsRecovered, alive>>

(* ...or, after any send and whatever came of it, with one: the user is    *)
(* told (run, Fallback).                                                   *)
Fail(t) ==
    /\ at[t] = "handler" /\ call[t].at = "back"
    /\ Go(t, "fallback")
    /\ todo' = [todo EXCEPT ![t] = 1]
    /\ updatesFailed' = updatesFailed + 1
    /\ UNCHANGED <<from, call, held, owner, timeouts, expiries,
                   updatesTotal, panicsRecovered, alive>>

(* Mutant: telling the user is counted with the handler.                   *)
FallbackCounted(t) ==
    /\ at[t] = "fallback" /\ call[t].at = "back" /\ todo[t] = 0
    /\ Go(t, "release")
    /\ updatesFailed' = updatesFailed + (IF call[t].verdict = "ok" THEN 0 ELSE 1)
    /\ UNCHANGED <<from, todo, call, held, owner, timeouts, expiries,
                   updatesTotal, panicsRecovered, alive>>

Fallback(t) ==
    /\ at[t] = "fallback" /\ call[t].at = "back" /\ todo[t] = 0
    /\ Go(t, "release")
    /\ UNCHANGED <<from, todo, call, held, owner, timeouts, expiries,
                   updatesTotal, updatesFailed, panicsRecovered, alive>>

(* Between two sends the handler panics, or the fallback behind it.        *)
Panic(t) ==
    /\ at[t] \in Inside /\ call[t].at = "back"
    /\ Panicked(t)
    /\ UNCHANGED <<from, todo, call, held, owner, timeouts, expiries,
                   updatesTotal, updatesFailed>>

(* watchTimeouts goes on, an update is dealt with.                         *)
Release(t) ==
    /\ at[t] = "release"
    /\ Go(t, IF t = Watcher THEN "idle" ELSE "done")
    /\ owner' = [owner EXCEPT ![from[t]] = Nobody]
    /\ from' = [from EXCEPT ![t] = Nobody]
    /\ todo' = [todo EXCEPT ![t] = 0]
    /\ call' = [call EXCEPT ![t] = Context(@.left)]
    /\ UNCHANGED <<held, timeouts, expiries,
                   updatesTotal, updatesFailed, panicsRecovered, alive>>

-----------------------------------------------------------------------------
(* Only a request or a wait for the rate limit takes time...               *)
Busy(t) ==
    /\ at[t] \in Holding
    /\ at[t] = "release" \/ call[t].at = "back" \/ Urgent(call[t])

(* ...and it passes for the context of an update from when it comes in.    *)
Tick ==
    /\ \E t \in Threads : at[t] \in Inside
    /\ \A t \in Threads : ~Busy(t)
    /\ call' = [t \in Threads |->
                   IF at[t] \in {"idle", "done"} THEN call[t] ELSE Elapse(call[t])]
    /\ held' = [t \in Updates |->
                   IF at[t] \in Inside THEN held[t] + 1 ELSE held[t]]
    /\ UNCHANGED <<at, from, todo, owner, timeouts, expiries,
                   updatesTotal, updatesFailed, panicsRecovered, alive>>

Step(t) ==
    \/ StartSend(t) \/ SendOn(t)
    \/ Succeed(t) \/ Fail(t) \/ Fallback(t) \/ Panic(t)
    \/ Release(t)

(* Nothing is left to do, or nobody to do it.                              *)
Quiet ==
    /\ \/ ~alive
       \/ at[Watcher] = "idle" /\ timeouts = <<>> /\ expiries = MaxExpiries
          /\ \A t \in Updates : at[t] = "done"
    /\ UNCHANGED vars

Next ==
    \/ /\ alive
       /\ \/ \E t \in Threads :
                 \/ \E u \in Users : Receive(t, u)
                 \/ Watch(t) \/ Begin(t) \/ Step(t)
          \/ \E u \in Users : Expire(u)
          \/ Tick
    \/ Quiet

Spec == Init /\ [][Next]_vars

(* Goroutines run, requests come to an end, and sync.Mutex hands a lock    *)
(* over to whoever has waited for it for too long.                         *)
Fairness ==
    /\ \A t \in Threads :
           /\ WF_vars(alive /\ Step(t))
           /\ SF_vars(alive /\ Begin(t))
    /\ WF_vars(alive /\ Watch(Watcher))
    /\ WF_vars(alive /\ Tick)

FairSpec == Spec /\ Fairness

-----------------------------------------------------------------------------
(* "handlerTimeout bounds one update": however many sends a handler makes, *)
(* and however often each is rate limited, the user is not kept waiting    *)
(* for longer by it (bot.go, attempt).                                     *)
HoldBounded == \A t \in Updates : held[t] <= HandlerTimeout

(* Every update that comes in is dealt with in the end, whatever becomes   *)
(* of the others, unless the process ends (dispatch, recover).             *)
EveryUpdateHandled ==
    \A t \in Updates : at[t] = "lock" ~> at[t] = "done" \/ ~alive

(* The one goroutine of watchTimeouts comes to every expiry in the         *)
(* channel, whichever users are busy and however their sends go.           *)
EveryExpiryDispatched == timeouts # <<>> ~> timeouts = <<>> \/ ~alive

(* The lock is used as KeyedMutex wants it: asked for once, and given back *)
(* on every way out, before the next is asked for (release).               *)
wants == [t \in Threads |->
             IF at[t] \in {"idle", "done"} THEN Nobody ELSE from[t]]

Lock == INSTANCE KeyedLock
            WITH Keys <- Users, NoKey <- Nobody, wants <- wants, owner <- owner

UsesLock == Lock!Spec

(* The statistics show one failure at most for an update or an expiry,     *)
(* although a failed handler is followed by a fallback that may fail as    *)
(* well, and one panic at most for an update, wherever it strikes.  An     *)
(* update whose fallback panics is in both (run, timedOut, recover).       *)
Received == {t \in Updates : at[t] # "idle"}

FailuresCounted ==
    /\ updatesFailed <= Cardinality(Received) + expiries
    /\ panicsRecovered <= Cardinality(Received)

=============================================================================
