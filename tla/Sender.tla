------------------------------- MODULE Sender -------------------------------
(***************************************************************************)
(* sender.Sender: sends of several goroutines at a time, each with the     *)
(* deadline of its own caller, and the two counters they share.            *)
(*                                                                         *)
(* Send, SendQuiz, SendDocument, Edit and CopyMessage differ in the        *)
(* request they make and are one call here.                                *)
(***************************************************************************)
EXTENDS Sending, FiniteSets

CONSTANTS
    Calls,          \* sends, each made once
    Deadlines       \* how long the contexts they are made under may live

ASSUME SenderAssumption ==
    /\ IsFiniteSet(Calls)
    /\ Deadlines \subseteq Nat \cup {Never}

VARIABLES
    call,           \* the state of every call
    waited,         \* how long each has spent waiting for rate limits
    messagesSent,   \* Metrics.MessagesSent
    sendFailures    \* Metrics.SendFailures

vars == <<call, waited, messagesSent, sendFailures>>

TypeOK ==
    /\ call \in [Calls -> CallStates]
    /\ waited \in [Calls -> Nat]
    /\ messagesSent \in Nat
    /\ sendFailures \in Nat

Init ==
    /\ call \in [Calls -> {NewCall(left) : left \in Deadlines}]
    /\ waited = [c \in Calls |-> 0]
    /\ messagesSent = 0
    /\ sendFailures = 0

-----------------------------------------------------------------------------
(* Mutant: a wait that is cut short is not counted.                        *)
CountedUncanceled(verdict) ==
    /\ messagesSent' = messagesSent + (IF verdict = "ok" THEN 1 ELSE 0)
    /\ sendFailures' =
           sendFailures + (IF verdict \in {"blocked", "failed"} THEN 1 ELSE 0)

(* Every return of attempt counts itself.                                  *)
Counted(verdict) ==
    /\ messagesSent' = messagesSent + (IF verdict = "ok" THEN 1 ELSE 0)
    /\ sendFailures' =
           sendFailures + (IF verdict \in {"none", "ok"} THEN 0 ELSE 1)

Become(c, after) ==
    /\ call' = [call EXCEPT ![c] = after]
    /\ Counted(after.verdict)
    /\ UNCHANGED waited

TryOnce(c) ==
    /\ call[c].at = "send"
    /\ \E after \in Attempt(call[c]) : Become(c, after)

WakeUp(c) == CanWake(call[c]) /\ Become(c, Wake(call[c]))

CutShort(c) == CanCancel(call[c]) /\ Become(c, Cancel(call[c]))

(* Timers run out on time: none passes its end unnoticed.                  *)
Tick ==
    /\ \E c \in Calls : call[c].at # "back"
    /\ \A c \in Calls : ~Urgent(call[c])
    /\ call' = [c \in Calls |->
                   IF call[c].at = "back" THEN call[c] ELSE Elapse(call[c])]
    /\ waited' = [c \in Calls |->
                   IF call[c].wait > 0 THEN waited[c] + 1 ELSE waited[c]]
    /\ UNCHANGED <<messagesSent, sendFailures>>

AllBack == \A c \in Calls : call[c].at = "back"

(* Every call has returned.                                                *)
Done == AllBack /\ UNCHANGED vars

Next ==
    \/ \E c \in Calls : TryOnce(c) \/ WakeUp(c) \/ CutShort(c)
    \/ Tick
    \/ Done

Spec == Init /\ [][Next]_vars

(* Goroutines run, time passes, and a request comes to an end.             *)
Fairness ==
    /\ \A c \in Calls : WF_vars(TryOnce(c)) /\ WF_vars(WakeUp(c) \/ CutShort(c))
    /\ WF_vars(Tick)

FairSpec == Spec /\ Fairness

-----------------------------------------------------------------------------
(* The counters /status shows are exact: every call that has returned is   *)
(* in one of them, once, whichever way it ended (attempt).                 *)
CountersExact ==
    /\ messagesSent = Cardinality({c \in Calls : call[c].verdict = "ok"})
    /\ sendFailures = Cardinality({c \in Calls :
                          call[c].verdict \notin {"none", "ok"}})

(* What the goroutine of the expiries relies on, as its calls have no      *)
(* deadline: rate limits hold a call up for so long and no longer          *)
(* (attempt, retryAfter).                                                  *)
WaitBounded ==
    \A c \in Calls : waited[c] <= (SendAttempts - 1) * MaxRetryAfter

(* Every send gives up or gets through in the end (sendAttempts).          *)
EveryCallReturns == \A c \in Calls : <>(call[c].at = "back")

(* The promise to the callers.                                             *)
copies == [c \in Calls |-> call[c].copies]

verdict ==
    [c \in Calls |-> IF call[c].verdict = "canceled" THEN "failed"
                     ELSE call[c].verdict]

Promise == INSTANCE Delivery
               WITH Calls <- Calls, copies <- copies, verdict <- verdict

(* A message gets to the chat once or not at all, although it is tried     *)
(* again, and the verdict never claims more than what happened (attempt).  *)
ImplementsDelivery == Promise!Spec

=============================================================================
