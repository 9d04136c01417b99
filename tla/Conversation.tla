---------------------------- MODULE Conversation ----------------------------
(***************************************************************************)
(* The bot in conversation (internal/bot over internal/handlers): messages *)
(* and poll answers dispatched one at a time per user, the clock of each   *)
(* question, the channel its expiry is announced on, the single goroutine  *)
(* that reads it, and the process that may be restarted under all of them. *)
(*                                                                         *)
(* Every dispatch holds the user's lock from Ensure to the end of the      *)
(* handler (KeyedMutex), and the state of one user is touched by nobody    *)
(* else, so a dispatch is one step.                                        *)
(*                                                                         *)
(* Telegram is modelled by what it promises: a poll is on the screen until *)
(* it is answered or its open period is over; an answer arrives later, in  *)
(* any order with respect to anything else; an update is delivered again   *)
(* after a restart unless it had been confirmed, and is lost if it had     *)
(* been confirmed but not handled.                                         *)
(***************************************************************************)
EXTENDS Handlers, Sequences

CONSTANTS
    Users,
    TimeoutBuffer,  \* capacity of Handlers.timeouts
    LegacyRows,     \* whether rows the old bot left behind are considered
    Messages,       \* bound: the messages the user sends
    MaxInFlight,    \* bound: answers of one user sent and not confirmed
    MaxFaults       \* bound: failing handlers, lost updates and restarts

ASSUME ConversationAssumption ==
    /\ TimeoutBuffer \in Nat
    /\ LegacyRows \in BOOLEAN
    /\ Messages \subseteq Texts
    /\ MaxInFlight \in Nat
    /\ MaxFaults \in Nat

VARIABLES
    st,         \* the state of every user
    timeouts,   \* the channel of expired questions
    held,       \* what watchTimeouts has received and not dispatched yet
    faults      \* how many faults there have been

vars == <<st, timeouts, held, faults>>

Timeouts == [user : Users, poll : Polls]

(* At most one received timeout is being dispatched: a sequence of length  *)
(* zero or one.                                                            *)
TypeOK ==
    /\ st \in [Users -> UserStates]
    /\ timeouts \in Seq(Timeouts)
    /\ held \in Seq(Timeouts)
    /\ faults \in Nat

-----------------------------------------------------------------------------
(* The row Users.Ensure inserts on first contact.                          *)
NewUser ==
    [stage |-> "start", tutorial |-> FALSE, size |-> 0, answered |-> 0,
     correct |-> 0, wrong |-> 0, word |-> NoWord, asked |-> {},
     learned |-> {}, missed |-> {}, misses |-> 0, quiz |-> NoQuiz,
     kb |-> "none", polls |-> [p \in Polls |-> Shut]]

(* Marked as playing with nothing to play.                                 *)
LegacyUser == [NewUser EXCEPT !.stage = "game"]

Init ==
    /\ st \in [Users -> IF LegacyRows THEN {NewUser, LegacyUser} ELSE {NewUser}]
    /\ timeouts = <<>>
    /\ held = <<>>
    /\ faults = 0

-----------------------------------------------------------------------------
(* Announced expiries of a user's poll, in the channel or received.        *)
Announced(u, p) ==
    \E i \in DOMAIN (timeouts \o held) :
        (timeouts \o held)[i] = [user |-> u, poll |-> p]

(* Telegram's next poll ID: a slot nothing refers to.                      *)
FreePolls(u) ==
    {p \in Polls : /\ st[u].polls[p] = Shut
                   /\ ~IsOpen(st[u], p)
                   /\ ~Announced(u, p)}

NextPoll(u) ==
    IF FreePolls(u) = {} THEN NoPoll ELSE CHOOSE p \in FreePolls(u) : TRUE

(* A dispatched answer, kept for as long as it may be delivered again.     *)
Dispatched(s, p) ==
    IF "restart" \in Faults THEN [s EXCEPT !.polls[p].phase = "handled"]
                            ELSE [s EXCEPT !.polls[p] = Shut]

(* Runs a handler for a user: one of its outcomes, with Fallback behind a  *)
(* failure.                                                                *)
Run(u, outcomes) ==
    \E o \in outcomes :
        /\ ~o.ok => faults < MaxFaults
        /\ faults' = IF o.ok THEN faults ELSE faults + 1
        /\ \E s \in IF o.ok THEN {o.s} ELSE Fallback(o) :
               st' = [st EXCEPT ![u] = s]

(* Ensure failed: the update is logged and dropped.                        *)
Drop(u, s) ==
    /\ "db" \in Faults
    /\ faults < MaxFaults
    /\ faults' = faults + 1
    /\ st' = [st EXCEPT ![u] = s]

-----------------------------------------------------------------------------
(* Bot.dispatch.  The user may send any message at any time, whatever the  *)
(* keyboard on their screen.                                               *)
DispatchMessage(u, text) ==
    /\ LET route == Resolve(st[u].stage, text)
       IN  /\ route # "none"
           /\ \/ Run(u, Handle(st[u], route, text, NextPoll(u)))
              \/ Drop(u, st[u])
    /\ UNCHANGED <<timeouts, held>>

(* Bot.dispatchPollAnswer.                                                 *)
DispatchPollAnswer(u, p) ==
    LET s     == Dispatched(st[u], p)
        given == st[u].polls[p].text
    IN  /\ st[u].polls[p].phase = "sent"
        /\ \/ Run(u, IF s.stage # "game" THEN Done(s)
                     ELSE Answer(s, p, given, NextPoll(u)))
           \/ Drop(u, s)
        /\ UNCHANGED <<timeouts, held>>

(* The clock of the open question, which runs out only after Telegram has  *)
(* closed the poll.  A full channel drops the announcement.                *)
TimerFires(u) ==
    LET quiz == st[u].quiz
    IN  /\ quiz # NoQuiz
        /\ quiz.armed
        /\ st[u].polls[quiz.poll].phase # "open"
        /\ st' = [st EXCEPT ![u].quiz.armed = FALSE]
        /\ timeouts' = IF Len(timeouts) < TimeoutBuffer
                       THEN Append(timeouts, [user |-> u, poll |-> quiz.poll])
                       ELSE timeouts
        /\ UNCHANGED <<held, faults>>

(* Bot.watchTimeouts receives one expiry...                                *)
WatchTimeouts ==
    /\ held = <<>>
    /\ timeouts # <<>>
    /\ held' = <<Head(timeouts)>>
    /\ timeouts' = Tail(timeouts)
    /\ UNCHANGED <<st, faults>>

(* ...and Bot.timedOut dispatches it under the user's lock.                *)
TimedOut ==
    /\ held # <<>>
    /\ held' = <<>>
    /\ LET u == Head(held).user
           s == st[u]
       IN  \/ Run(u, IF s.stage # "game" THEN Done(s)
                     ELSE Timeout(s, Head(held).poll, NextPoll(u)))
           \/ Drop(u, s)
    /\ UNCHANGED timeouts

-----------------------------------------------------------------------------
(* The user and Telegram.                                                  *)

InFlight(u) ==
    Cardinality({p \in Polls : st[u].polls[p].phase \in {"sent", "handled"}})

(* The user picks an option of a poll still on the screen.                 *)
Pick(u, p, given) ==
    /\ st[u].polls[p].phase = "open"
    /\ InFlight(u) < MaxInFlight
    /\ given \in Variants(st[u].polls[p].text)
    /\ st' = [st EXCEPT ![u].polls[p] = [phase |-> "sent", text |-> given]]
    /\ UNCHANGED <<timeouts, held, faults>>

(* The open period is over.                                                *)
Close(u, p) ==
    /\ st[u].polls[p].phase = "open"
    /\ st' = [st EXCEPT ![u].polls[p] = Shut]
    /\ UNCHANGED <<timeouts, held, faults>>

(* The next getUpdates confirms an answer that has been dispatched.        *)
Confirm(u, p) ==
    /\ st[u].polls[p].phase = "handled"
    /\ st' = [st EXCEPT ![u].polls[p] = Shut]
    /\ UNCHANGED <<timeouts, held, faults>>

(* What a restart leaves of a user: the row, and what is in Telegram, with *)
(* the answers in again delivered once more and every other one lost.      *)
Restarted(s, again) ==
    [s EXCEPT !.missed = {}, !.misses = 0, !.quiz = NoQuiz,
              !.polls = [p \in Polls |->
                  IF s.polls[p].phase \in {"shut", "open"} THEN s.polls[p]
                  ELSE IF p \in again
                       THEN [s.polls[p] EXCEPT !.phase = "sent"]
                       ELSE Shut]]

Restart ==
    /\ "restart" \in Faults
    /\ faults < MaxFaults
    /\ faults' = faults + 1
    /\ \E again \in [Users -> SUBSET Polls] :
           st' = [u \in Users |-> Restarted(st[u], again[u])]
    /\ timeouts' = <<>>
    /\ held' = <<>>

-----------------------------------------------------------------------------
Next ==
    \/ \E u \in Users :
           \/ \E text \in Messages : DispatchMessage(u, text)
           \/ \E p \in Polls : \/ DispatchPollAnswer(u, p)
                               \/ Close(u, p)
                               \/ Confirm(u, p)
                               \/ \E given \in Spellings : Pick(u, p, given)
           \/ TimerFires(u)
    \/ WatchTimeouts
    \/ TimedOut
    \/ Restart

Spec == Init /\ [][Next]_vars

(* Telegram delivers, closes and confirms; the clocks run; the goroutine   *)
(* that reads the channel gets to run.  Nothing is asked of the user.      *)
Fairness ==
    /\ \A u \in Users :
           /\ WF_vars(TimerFires(u))
           /\ \A p \in Polls : /\ WF_vars(DispatchPollAnswer(u, p))
                               /\ WF_vars(Close(u, p))
                               /\ WF_vars(Confirm(u, p))
    /\ WF_vars(WatchTimeouts)
    /\ WF_vars(TimedOut)

FairSpec == Spec /\ Fairness
-----------------------------------------------------------------------------
(* What holds of a run while nothing fails.                                *)

(* A user in a run has a question in front of them that the registry can   *)
(* grade, that question is the one the row records, and something is still *)
(* going to move the run on: the clock, or its expiry on its way to Bot.   *)
(* timedOut.  A handler that took a question and put up no other, or a     *)
(* clock stopped for good, would leave the user stuck (quizzes.go,         *)
(* practice.go: take, ask, put, startClock).                               *)
RunHasLiveQuestion ==
    \A u \in Users : LET s == st[u] IN
        s.stage = "game" =>
            /\ s.quiz # NoQuiz
            /\ s.quiz.word = s.word
            /\ s.quiz.armed \/ Announced(u, s.quiz.poll)

(* The only message a run listens to is the finish button, so it has to be *)
(* on the screen for as long as the run lasts (bot.Resolve, StartRun,      *)
(* keyboardForStage).                                                      *)
RunKeyboard ==
    \A u \in Users : st[u].stage = "game" => st[u].kb = "finish"

(* A run still open has answers to come and fewer misses in a row than     *)
(* call it off: the last answer and the second miss end it in the very     *)
(* same dispatch (Answer, Timeout, complete, endRun).                      *)
RunWithinBounds ==
    \A u \in Users : LET s == st[u] IN
        s.stage = "game" => /\ s.answered < s.size
                            /\ s.misses < MissesBeforeStopping

(* A run ends, whatever the user does or does not do: a user who walked    *)
(* away is called off, a user who keeps answering closed questions runs    *)
(* out of words (Timeout, ask).                                            *)
RunEnds == \A u \in Users : st[u].stage = "game" ~> st[u].stage # "game"

-----------------------------------------------------------------------------
(* What holds through failing calls, lost and repeated updates and         *)
(* restarts.                                                               *)

(* A question is only ever open, and its clock only ever running, inside a *)
(* run: leaving the run forgets it before anything can fail (PracticeMenu, *)
(* quizzes.forget).                                                        *)
QuizOnlyInRun ==
    \A u \in Users : st[u].quiz # NoQuiz => st[u].stage = "game"

(* The current word has been recorded as asked, so that no draw can repeat *)
(* it while it is open (Session.Ask, Session.Answer).                      *)
CurrentWordAsked ==
    \A u \in Users : st[u].word # NoWord => st[u].word \in st[u].asked

(* The tally adds up, and every right answer is a different word of the    *)
(* run: a word answered correctly is never asked, hence counted, again     *)
(* (Session.Answer, Service.draw, Sessions.Reset).                         *)
TallyAddsUp ==
    \A u \in Users : LET s == st[u] IN
        /\ s.answered = s.correct + s.wrong
        /\ s.correct <= Cardinality(s.asked \ {s.word})

(* The words the results will name as missed were got wrong in this very   *)
(* run: none is left over from an earlier one (takeMissed in Begin, Finish *)
(* and Abandon; rememberMissed).                                           *)
MissesBelongToRun ==
    \A u \in Users : Cardinality(st[u].missed) <= st[u].wrong

(* Whether an answer is graded, or a word recorded, on the way from s to t.*)
Graded(s, t) ==
    \/ t.answered = s.answered + 1
    \/ t.learned # s.learned
    \/ ~(t.missed \subseteq s.missed)

(* An answer is graded only in the dispatch of an answer to the very poll  *)
(* of the question that is open, about the word on the row: one to a       *)
(* superseded, expired, forgotten or repeated poll never counts, not even  *)
(* when its word is being asked again, and the learned and missed words    *)
(* change only in that word (quizzes.take, ErrStaleAnswer, remember,       *)
(* rememberMissed).                                                        *)
GradedOnOwnQuestion ==
    [][\A u \in Users :
          LET s == st[u]
              t == st'[u]
          IN  Graded(s, t) =>
                 /\ s.quiz # NoQuiz
                 /\ s.quiz.word = s.word
                 /\ DispatchPollAnswer(u, s.quiz.poll)
                 /\ t.learned \subseteq s.learned \cup {s.word}
                 /\ s.learned \subseteq t.learned \cup {s.word}
                 /\ t.missed \subseteq s.missed \cup {s.word}]_vars

(* The expiry of the open question of a user is what is dispatched.        *)
OwnExpiry(u) ==
    /\ TimedOut
    /\ st[u].quiz # NoQuiz
    /\ Head(held) = [user |-> u, poll |-> st[u].quiz.poll]

(* A miss is counted only by the expiry of the very question that is open, *)
(* and nothing but that and an answer of the user puts another question in *)
(* its place: an expiry that comes after its question was answered, while  *)
(* it waited in the channel or for the lock, neither counts against nor    *)
(* asks over the question that followed (Handlers.Timeout, quizzes.take).  *)
ExpiryOnOwnQuestion ==
    [][\A u \in Users :
          LET s == st[u]
              t == st'[u]
              replaced == /\ s.quiz # NoQuiz
                          /\ t.quiz # NoQuiz
                          /\ t.quiz.poll # s.quiz.poll
          IN  /\ t.misses > s.misses => OwnExpiry(u)
              /\ replaced => \/ OwnExpiry(u)
                             \/ \E p \in Polls : DispatchPollAnswer(u, p)]_vars

=============================================================================
