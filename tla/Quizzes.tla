------------------------------ MODULE Quizzes -------------------------------
(***************************************************************************)
(* handlers.quizzes, the registry of open questions, as the handlers of    *)
(* all users use it at a time: a dispatch holds the lock of its own user,  *)
(* but the registry and the clocks are shared, and a poll that has been    *)
(* forwarded is answered by others than it was put to.                     *)
(*                                                                         *)
(* A dispatch is split where another one may come in between, which is     *)
(* between its calls of the registry: the first step takes, the second     *)
(* puts the next question or forgets.  Nothing fails here.                 *)
(***************************************************************************)
EXTENDS Integers, FiniteSets

CONSTANTS
    Users,
    Polls,          \* poll IDs; each poll is sent once
    NoPoll,
    Nobody,
    Forwarders      \* users who pass their polls on to others

MissesBeforeStopping == 2

ASSUME QuizzesAssumption ==
    /\ NoPoll \notin Polls
    /\ Nobody \notin Users
    /\ Forwarders \subseteq Users

VARIABLES
    open,           \* quizzes.open: the user each poll is a question of
    current,        \* quizzes.current
    missed,         \* quizzes.missed
    clock,          \* the timer of each poll
    sentTo,         \* whom Telegram has sent each poll to
    picks,          \* answers on their way: who picked, in which poll
    inRun,          \* who is in the game stage
    doing,          \* what the dispatch of a user has yet to do
    settled         \* how often each poll has been taken

vars == <<open, current, missed, clock, sentTo, picks, inRun, doing, settled>>

(* A clock runs, has been stopped, or has fired: then its expiry is on its *)
(* way to the dispatch.                                                    *)
Clocks == {"unset", "running", "stopped", "fired", "gone"}

TypeOK ==
    /\ open \in [Polls -> Users \cup {Nobody}]
    /\ current \in [Users -> Polls \cup {NoPoll}]
    /\ missed \in [Users -> 0 .. MissesBeforeStopping]
    /\ clock \in [Polls -> Clocks]
    /\ sentTo \in [Polls -> Users \cup {Nobody}]
    /\ picks \subseteq Users \X Polls
    /\ inRun \subseteq Users
    /\ doing \in [Users -> {"nothing", "ask", "leave"}]
    /\ settled \in [Polls -> Nat]

Init ==
    /\ open = [p \in Polls |-> Nobody]
    /\ current = [u \in Users |-> NoPoll]
    /\ missed = [u \in Users |-> 0]
    /\ clock = [p \in Polls |-> "unset"]
    /\ sentTo = [p \in Polls |-> Nobody]
    /\ picks = {}
    /\ inRun = {}
    /\ doing = [u \in Users |-> "nothing"]
    /\ settled = [p \in Polls |-> 0]

-----------------------------------------------------------------------------
(* The registry.                                                           *)

(* quizzes.stop: a timer that has fired cannot be stopped any more.        *)
Stopped(p) == IF clock[p] = "running" THEN "stopped" ELSE clock[p]

(* Mutant: the previous question is left to itself.                        *)
PreviousKept(u) == {}

(* What put has to forget.                                                 *)
Previous(u) == {current[u]} \ {NoPoll}

(* Mutant: what is recorded first is then forgotten as the previous.       *)
PutSwapped(p, u) ==
    /\ open' = open
    /\ current' = [current EXCEPT ![u] = p]
    /\ clock' = [clock EXCEPT ![p] = "stopped"]

(* put, with the clock that has just been started.                         *)
Put(p, u) ==
    /\ open' = [q \in Polls |-> IF q = p THEN u
                                ELSE IF q \in Previous(u) THEN Nobody
                                ELSE open[q]]
    /\ current' = [current EXCEPT ![u] = p]
    /\ clock' = [q \in Polls |-> IF q = p THEN "running"
                                 ELSE IF q \in Previous(u) THEN Stopped(q)
                                 ELSE clock[q]]

(* Mutant: a second answer finds the poll again.                           *)
TakenAgain(p) == UNCHANGED <<open, current>>

(* The poll is deleted, and so is the question of the user it was put to.  *)
Taken(p) ==
    /\ open' = [open EXCEPT ![p] = Nobody]
    /\ current' = [current EXCEPT ![open[p]] = NoPoll]

(* take, when the poll is there.                                           *)
Take(p) ==
    /\ open[p] # Nobody
    /\ Taken(p)
    /\ clock' = [clock EXCEPT ![p] = Stopped(p)]
    /\ settled' = [settled EXCEPT ![p] = @ + 1]

(* answered, and the end of forget.                                        *)
Forgiven(u) == missed' = [missed EXCEPT ![u] = 0]

(* The clock of what is forgotten is stopped.                              *)
ForgottenClock(u) ==
    [q \in Polls |-> IF q = current[u] THEN Stopped(q) ELSE clock[q]]

Forget(u) ==
    /\ open' = [q \in Polls |-> IF q = current[u] THEN Nobody ELSE open[q]]
    /\ current' = [current EXCEPT ![u] = NoPoll]
    /\ clock' = ForgottenClock(u)
    /\ Forgiven(u)

-----------------------------------------------------------------------------
(* The dispatches that use it.                                             *)

Then(u, next) == doing' = [doing EXCEPT ![u] = next]

(* StartRun, up to its ask.                                                *)
StartRun(u) ==
    /\ doing[u] = "nothing"
    /\ u \notin inRun
    /\ inRun' = inRun \cup {u}
    /\ Then(u, "ask")
    /\ UNCHANGED <<open, current, missed, clock, sentTo, picks, settled>>

(* ask: the poll is sent, then put.                                        *)
Ask(u, p) ==
    /\ doing[u] = "ask"
    /\ sentTo[p] = Nobody
    /\ sentTo' = [sentTo EXCEPT ![p] = u]
    /\ Put(p, u)
    /\ Then(u, "nothing")
    /\ UNCHANGED <<missed, picks, inRun, settled>>

(* endRun, complete, FinishRun and PracticeMenu end in forget.             *)
Leave(u) ==
    /\ doing[u] = "leave"
    /\ Forget(u)
    /\ inRun' = inRun \ {u}
    /\ Then(u, "nothing")
    /\ UNCHANGED <<sentTo, picks, settled>>

(* A dispatched answer is of no more use.                                  *)
Dispatched(u, p) == picks' = picks \ {<<u, p>>}

(* An answer of a user outside a run, or to a poll the registry does not   *)
(* know (Answer); or one it knows, and grades: unless the question is of   *)
(* somebody else and of another word, in which case it is stale and        *)
(* nothing follows (ErrStaleAnswer).                                       *)
Answer(u, p) ==
    /\ doing[u] = "nothing"
    /\ <<u, p>> \in picks
    /\ Dispatched(u, p)
    /\ \/ /\ u \notin inRun
          /\ UNCHANGED <<open, current, missed, clock, doing, settled>>
       \/ /\ u \in inRun /\ open[p] = Nobody
          /\ Then(u, "ask")
          /\ UNCHANGED <<open, current, missed, clock, settled>>
       \/ /\ u \in inRun
          /\ Take(p)
          /\ Forgiven(u)
          /\ \/ Then(u, "ask") \/ Then(u, "leave")
             \/ open[p] # u /\ UNCHANGED doing
    /\ UNCHANGED <<sentTo, inRun>>

(* Timeout, for an expiry on its way.                                      *)
Timeout(u, p) ==
    /\ doing[u] = "nothing"
    /\ clock[p] = "fired" /\ sentTo[p] = u
    /\ \/ /\ u \notin inRun \/ open[p] = Nobody
          /\ clock' = [clock EXCEPT ![p] = "gone"]
          /\ UNCHANGED <<open, current, missed, doing, settled>>
       \/ /\ u \in inRun
          /\ open[p] # Nobody
          /\ Taken(p)
          /\ clock' = [clock EXCEPT ![p] = "gone"]
          /\ settled' = [settled EXCEPT ![p] = @ + 1]
          /\ missed' = [missed EXCEPT ![u] = @ + 1]
          /\ Then(u, IF missed[u] + 1 < MissesBeforeStopping THEN "ask"
                     ELSE "leave")
    /\ UNCHANGED <<sentTo, picks, inRun>>

(* FinishRun, or any way to the practice menu.                             *)
FinishRun(u) ==
    /\ doing[u] = "nothing"
    /\ u \in inRun
    /\ Then(u, "leave")
    /\ UNCHANGED <<open, current, missed, clock, sentTo, picks, inRun, settled>>

-----------------------------------------------------------------------------
(* The clocks, and the users in front of their polls.                      *)

Fire(p) ==
    /\ clock[p] = "running"
    /\ clock' = [clock EXCEPT ![p] = "fired"]
    /\ UNCHANGED <<open, current, missed, sentTo, picks, inRun, doing, settled>>

(* A user picks an option until Telegram closes the poll, which it does    *)
(* before the clock fires.  The answer takes its time, and may come twice. *)
Pick(u, p) ==
    /\ sentTo[p] \in {u} \cup Forwarders
    /\ clock[p] \in {"running", "stopped"}
    /\ picks' = picks \cup {<<u, p>>}
    /\ UNCHANGED <<open, current, missed, clock, sentTo, inRun, doing, settled>>

Next ==
    \/ \E u \in Users : StartRun(u) \/ Leave(u) \/ FinishRun(u)
    \/ \E u \in Users, p \in Polls :
           Ask(u, p) \/ Answer(u, p) \/ Timeout(u, p) \/ Pick(u, p)
    \/ \E p \in Polls : Fire(p)

Spec == Init /\ [][Next]_vars

-----------------------------------------------------------------------------
(* open and current say the same: a user has one question at most, and the *)
(* registry "does not grow with every question", even when a late answer   *)
(* has another question put over one still open (put, take, forget).       *)
RegistryConsistent ==
    \A u \in Users, p \in Polls : current[u] = p <=> open[p] = u

(* No clock runs for a question that is not open, whichever of an answer,  *)
(* an expiry and the end of the run came first (stop).                     *)
ClockOnlyForOpen == \A p \in Polls : clock[p] = "running" => open[p] # Nobody

(* "a second answer to it finds nothing" (take): a question is settled     *)
(* once, by an answer or by its expiry, however close they are.            *)
SettledOnce == \A p \in Polls : settled[p] <= 1

(* A user is in a run, nothing is being done for them, and no question is  *)
(* open whose clock runs or whose expiry is on its way.                    *)
Hanging(u) ==
    /\ u \in inRun /\ doing[u] = "nothing"
    /\ \/ current[u] = NoPoll
       \/ clock[current[u]] \notin {"running", "fired"}

(* A run always goes on, by an answer or by a clock, whatever crosses what *)
(* on the way, and whatever others do with polls of theirs (put, Timeout). *)
NotLeftHanging == \A u \in Users \ Forwarders : ~Hanging(u)

(* The clock is there so that a run is not "left hanging" (Timeout): the   *)
(* run of anybody.                                                         *)
NoneLeftHanging == \A u \in Users : ~Hanging(u)

=============================================================================
