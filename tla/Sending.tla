------------------------------ MODULE Sending -------------------------------
(***************************************************************************)
(* One send (sender.attempt, with blocked and retryAfter), as operators on *)
(* the state of a call:                                                    *)
(*                                                                         *)
(*   at       "send", about to ask Telegram; "wait", waiting out a rate    *)
(*            limit; "back", returned                                      *)
(*   try      which attempt this is                                        *)
(*   wait     how much of the rate limit is left                           *)
(*   left     how long the context of the caller still lives               *)
(*   copies   how many times the message is in the chat                    *)
(*   verdict  what the call returned                                       *)
(*                                                                         *)
(* Time is counted down in both clocks, in units of any length.            *)
(***************************************************************************)
EXTENDS Integers

CONSTANTS
    SendAttempts,   \* sendAttempts
    MaxRetryAfter,  \* maxRetryAfter
    Waits,          \* bound: the rate limits Telegram imposes
    Never           \* the context has no deadline

ASSUME SendingAssumption ==
    /\ SendAttempts \in Nat \ {0}
    /\ MaxRetryAfter \in Nat
    /\ Waits \subseteq Nat /\ Waits # {}
    /\ Never \notin Nat

(* What Telegram does with a request: it delivers the message, delivers it *)
(* and the answer is lost, refuses it for good (403), asks to come back    *)
(* later (429), or anything else.  Only the first two deliver.  A limit    *)
(* that says nothing of when to come back is one of 0.                     *)
Replies ==
    [code : {"ok", "lost", "forbidden", "limited", "error"},
     retryAfter : Waits]

Verdicts == {"none", "ok", "blocked", "canceled", "failed"}

CallStates ==
    [at : {"send", "wait", "back"}, try : 1 .. SendAttempts,
     wait : 0 .. MaxRetryAfter, left : Nat \cup {Never},
     copies : Nat, verdict : Verdicts]

NewCall(left) ==
    [at |-> "send", try |-> 1, wait |-> 0, left |-> left,
     copies |-> 0, verdict |-> "none"]

Back(call, verdict) ==
    [call EXCEPT !.at = "back", !.wait = 0, !.verdict = verdict]

(* Mutant: a wait is not cut short.                                        *)
CtxDoneNever(call) == FALSE

(* ctx.Done() is closed.                                                   *)
CtxDone(call) == call.left = 0

(* Mutant: whatever Telegram asks for is waited out.                       *)
RetryAfterAny(reply) == reply.code = "limited"

(* retryAfter: a rate limit with a wait that is worth it.                  *)
RetryAfter(reply) ==
    /\ reply.code = "limited"
    /\ reply.retryAfter \in 1 .. MaxRetryAfter

(* blocked: the chat is gone for good.                                     *)
Blocked(reply) == reply.code = "forbidden"

Delivered(reply) == reply.code \in {"ok", "lost"}

(* Mutant: an answer that was lost is taken for a reason to try again.     *)
AfterEager(call, reply) ==
    IF reply.code = "lost" /\ call.try < SendAttempts
    THEN [call EXCEPT !.at = "wait", !.wait = 1]
    ELSE Back(call, IF reply.code = "ok" THEN "ok" ELSE "failed")

(* The verdict on one attempt, in the order attempt comes to it.           *)
After(call, reply) ==
    CASE reply.code = "ok" -> Back(call, "ok")
      [] Blocked(reply)    -> Back(call, "blocked")
      [] RetryAfter(reply) /\ call.try # SendAttempts ->
             [call EXCEPT !.at = "wait", !.wait = reply.retryAfter]
      [] OTHER             -> Back(call, "failed")

(* A request under a context that is over is not made.                     *)
Attempt(call) ==
    IF CtxDone(call) THEN {Back(call, "failed")}
    ELSE {After([call EXCEPT !.copies = IF Delivered(reply) THEN @ + 1 ELSE @],
                reply) : reply \in Replies}

(* Mutant: a wait ends with the context only.                              *)
CanWakeNever(call) == FALSE

(* The wait is over: another attempt...                                    *)
CanWake(call) == call.at = "wait" /\ call.wait = 0

Wake(call) == [call EXCEPT !.at = "send", !.try = @ + 1]

(* ...or the context is.  When both are, select takes either.              *)
CanCancel(call) == call.at = "wait" /\ CtxDone(call)
Cancel(call) == Back(call, "canceled")

(* Something happens to the call before any more time passes.              *)
Urgent(call) ==
    \/ CanWake(call)
    \/ CanCancel(call)
    \/ call.at = "send" /\ CtxDone(call)

(* A unit of time passes for a call that has not returned.                 *)
Elapse(call) ==
    [call EXCEPT !.wait = IF @ > 0 THEN @ - 1 ELSE @,
                 !.left = IF @ = Never \/ @ = 0 THEN @ ELSE @ - 1]

=============================================================================
