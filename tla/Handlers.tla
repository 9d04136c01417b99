------------------------------ MODULE Handlers ------------------------------
(***************************************************************************)
(* The conversation handlers (internal/handlers, over internal/practice    *)
(* and internal/storage/sqlite): what one update does to one user.         *)
(*                                                                         *)
(* A handler runs under the user's lock, so it is an operator from the     *)
(* user's state to the set of its possible outcomes.  An outcome is        *)
(*                                                                         *)
(*   s    the state the handler leaves,                                    *)
(*   ok   whether it returned without an error,                            *)
(*   at   the stage its in-memory copy of the user holds, which Fallback   *)
(*        reads and which runs ahead of the row when a Save fails.         *)
(*                                                                         *)
(* Every call that can fail contributes the outcomes in which it did: the  *)
(* effects before it stay, the ones after it never happen.                 *)
(*                                                                         *)
(* The state of a user is one record:                                      *)
(*                                                                         *)
(*   on the row    stage, tutorial, size, answered, correct, wrong, word,  *)
(*                 asked, and learned on the users_xp row                  *)
(*   in the        missed (Service.missed), misses (quizzes.missed),       *)
(*   process       quiz (quizzes.open and current: the poll, the word its  *)
(*                 options spell, whether its clock still runs)            *)
(*   in Telegram   kb, the reply keyboard on the user's screen, and polls, *)
(*                 every poll slot with what became of it                  *)
(***************************************************************************)
EXTENDS Router

CONSTANTS
    Polls,      \* poll IDs; a slot is reused once nothing refers to it
    NoPoll,
    NoQuiz,
    Faults      \* what may fail: a subset of {"db", "send", "restart"}

ASSUME HandlersAssumption ==
    /\ NoPoll \notin Polls
    /\ NoQuiz \notin [poll : Polls, word : Catalog, armed : BOOLEAN]

MissesBeforeStopping == 2

Keyboards == {"none", "faster", "main", "alphabet", "sizes", "readiness",
              "finish"}

(* "shut" closed or never sent, "open" on the screen, "sent" picked and on *)
(* its way, "handled" dispatched but not yet confirmed to Telegram.  text  *)
(* is the word of an open poll, then the spelling picked.                  *)
PollStates == [phase : {"shut"}, text : {NoWord}]
         \cup [phase : {"open"}, text : Catalog]
         \cup [phase : {"sent", "handled"}, text : Spellings]

Shut == [phase |-> "shut", text |-> NoWord]

Quizzes == [poll : Polls, word : Catalog, armed : BOOLEAN]

UserStates ==
    [stage : Stages, tutorial : BOOLEAN,
     size : Sizes \cup {0}, answered : Nat, correct : Nat, wrong : Nat,
     word : Catalog \cup {NoWord}, asked : SUBSET Catalog,
     learned : SUBSET Catalog,
     missed : SUBSET Catalog, misses : Nat, quiz : Quizzes \cup {NoQuiz},
     kb : Keyboards, polls : [Polls -> PollStates]]

-----------------------------------------------------------------------------
(* Outcomes.                                                               *)

Done(s) == {[s |-> s, ok |-> TRUE, at |-> s.stage]}

Failed(s, at) == [s |-> s, ok |-> FALSE, at |-> at]

DbFails(s, at) == IF "db" \in Faults THEN {Failed(s, at)} ELSE {}

(* A failed Send may or may not have reached the user: what was lost may   *)
(* be the response.                                                        *)
SendFails(s, shown) ==
    IF "send" \in Faults
    THEN {Failed(s, s.stage), Failed(shown, s.stage)}
    ELSE {}

(* Sends a message that carries reply keyboard kb; "none" removes it.      *)
Show(s, kb) == [s EXCEPT !.kb = kb]

(* Handlers.moveTo, when the Save succeeds.                                *)
MoveTo(s, stage) == [s EXCEPT !.stage = stage]

(* The common shape: enter a stage, then send a message with a keyboard.   *)
Enter(s, stage, kb) ==
    LET moved == MoveTo(s, stage)
    IN  Done(Show(moved, kb)) \cup DbFails(s, stage)
          \cup SendFails(moved, Show(moved, kb))

KeyboardForStage(stage) ==
    CASE stage = "main_menu"          -> "main"
      [] stage = "words"              -> "alphabet"
      [] stage = "practice_menu"      -> "sizes"
      [] stage = "practice_readiness" -> "readiness"
      [] stage = "game"               -> "finish"
      [] stage = "start"              -> "faster"

(* Bot.run: a failed handler is followed by Fallback, whose message may    *)
(* fail to get through as well.                                            *)
Fallback(o) ==
    {Show(o.s, KeyboardForStage(o.at))}
      \cup (IF "send" \in Faults THEN {o.s} ELSE {})

-----------------------------------------------------------------------------
(* quizzes: the poll behind the open question, and the run of misses.      *)

(* Mutant: the clock is not started.                                       *)
PutUnclocked(s, poll, word) ==
    [s EXCEPT !.quiz = [poll |-> poll, word |-> word, armed |-> FALSE]]

(* quizzes.put, with the clock startClock has just started.  Whatever was  *)
(* open before is forgotten and its clock stopped.                         *)
Put(s, poll, word) ==
    [s EXCEPT !.quiz = [poll |-> poll, word |-> word, armed |-> TRUE]]

IsOpen(s, poll) == s.quiz # NoQuiz /\ s.quiz.poll = poll

(* quizzes.take, for a poll that is open.                                  *)
Take(s) == [s EXCEPT !.quiz = NoQuiz]

(* Mutant: only the misses are forgotten.                                  *)
ForgetMisses(s) == [s EXCEPT !.misses = 0]

(* quizzes.forget.                                                         *)
Forget(s) == [s EXCEPT !.quiz = NoQuiz, !.misses = 0]

(* quizzes.answered and quizzes.timedOut.                                  *)
ClearMisses(s) == [s EXCEPT !.misses = 0]
CountMiss(s) == [s EXCEPT !.misses = @ + 1]

-----------------------------------------------------------------------------
(* The menus.                                                              *)

Start(s) == Enter(s, "start", "faster")
MainMenu(s) == Enter(s, "main_menu", "main")
WordsMenu(s) == Enter(s, "words", "alphabet")

(* Neither looks at nor changes the stage.                                 *)
SearchByLetters(s) ==
    Done(Show(s, "alphabet")) \cup SendFails(s, Show(s, "alphabet"))
Lookup(s) == Done(s) \cup SendFails(s, s)
Download(s) == Done(s) \cup SendFails(s, s)

(* Status and the broadcast commands: they answer the admin and leave the  *)
(* conversation alone, a run included.  What they do else is in Broadcast  *)
(* and Metrics.                                                            *)
AdminCommand(s) == Done(s) \cup DbFails(s, s.stage) \cup SendFails(s, s)

(* PracticeMenu: forget the quiz, Abandon the run (takeMissed, Reset),     *)
(* move to the menu, offer the lengths.                                    *)
PracticeMenu(s) ==
    DbFails(TakeMissed(Forget(s)), s.stage)
      \cup Enter(Abandon(Forget(s)), "practice_menu", "sizes")

(* ChooseSize: Begin (Reset, takeMissed, Save), move on, ask whether ready *)
(* after explaining the rules to a user who has not seen them.             *)
ChooseSize(s, size) ==
    LET reset  == ResetRun(s)
        begun  == Begin(s, size)
        moved  == MoveTo(begun, "practice_readiness")
        ready  == Show(moved, "readiness")
        taught == Show(moved, "none")
    IN  DbFails(s, s.stage)
          \cup DbFails(TakeMissed(reset), s.stage)
          \cup DbFails(begun, "practice_readiness")
          \cup IF s.tutorial
               THEN Done(ready) \cup SendFails(moved, ready)
               ELSE SendFails(moved, taught) \cup SendFails(taught, ready)
                      \cup DbFails(ready, "practice_readiness")
                      \cup Done([ready EXCEPT !.tutorial = TRUE])

-----------------------------------------------------------------------------
(* The run.  poll is the slot Telegram would give the next quiz; there is  *)
(* no outcome that needs one when poll is NoPoll.                          *)

Results(s) ==
    SendFails(s, Show(s, "none")) \cup PracticeMenu(Show(s, "none"))

(* endRun, behind FinishRun and behind the second miss in a row.           *)
EndRun(s) ==
    DbFails(s, s.stage)
      \cup IF HasSession(s) THEN Results(Finish(s)) ELSE PracticeMenu(s)

(* complete: Finish, the reaction, the results.                            *)
CompleteRun(s) ==
    LET told == Finish(s)
    IN  DbFails(s, s.stage)
          \cup SendFails(told, Show(told, "none"))
          \cup Results(Show(told, "none"))

(* SendQuiz, then put.  A send that failed after reaching Telegram leaves  *)
(* a poll on the screen that the registry knows nothing of.                *)
SendQuiz(s, word, poll) ==
    IF poll = NoPoll THEN {}
    ELSE LET shown == [s EXCEPT !.polls[poll] =
                           [phase |-> "open", text |-> word]]
         IN  Done(Put(shown, poll, word)) \cup SendFails(s, shown)

(* ask: draw, record the word as asked, put it up as a quiz.               *)
Ask(s, poll) ==
    DbFails(s, s.stage)
      \cup CASE ~HasSession(s) -> PracticeMenu(s)
             [] HasSession(s) /\ Question(s) = {} ->
                    SendFails(s, Show(s, "none")) \cup EndRun(Show(s, "none"))
             [] OTHER ->
                    UNION {SendQuiz(q, q.word, poll) : q \in Question(s)}

(* Mutant: the run starts without its standing keyboard.                   *)
StartRunBare(s, poll) == DbFails(s, "game") \cup Ask(MoveTo(s, "game"), poll)

(* StartRun: the standing keyboard in a message of its own, then ask.      *)
StartRun(s, poll) ==
    LET moved == MoveTo(s, "game")
        shown == Show(moved, "finish")
    IN  DbFails(s, "game") \cup SendFails(moved, shown) \cup Ask(shown, poll)

(* What Answer does with a pick from the poll that is open: Service.Answer *)
(* (Load, grade, Save, remember), then the next question or the results.   *)
Grade(s, given, poll) ==
    LET correct  == given = s.word
        graded   == SessionAnswer(s, given)
        recorded == RememberMissed(Remember(graded, s.word, correct),
                                   s.word, correct)
    IN  DbFails(s, s.stage)
          \cup CASE ~HasSession(s) -> PracticeMenu(s)
                 [] HasSession(s) /\ IsStale(s, given) -> Done(s)
                 [] OTHER ->
                        DbFails(graded, s.stage)
                          \cup IF Complete(recorded)
                               THEN CompleteRun(recorded)
                               ELSE Ask(recorded, poll)

(* Mutant: whichever poll was answered, the open question is graded.       *)
AnswerAnyPoll(s, answered, given, poll) ==
    IF s.quiz # NoQuiz
    THEN Grade(ClearMisses(Take(s)), given, poll)
    ELSE Ask(s, poll)

(* Answer: a pick from a poll the registry does not know moves the run on. *)
Answer(s, answered, given, poll) ==
    IF IsOpen(s, answered)
    THEN Grade(ClearMisses(Take(s)), given, poll)
    ELSE Ask(s, poll)

(* Mutant: a first miss is let pass, without another question.             *)
TimeoutSilent(s, expired, poll) ==
    LET missed == CountMiss(Take(s))
    IN  IF ~IsOpen(s, expired) \/ missed.misses < MissesBeforeStopping
        THEN Done(IF IsOpen(s, expired) THEN missed ELSE s)
        ELSE EndRun(missed)

(* Mutant: whichever question has expired, the open one is.                *)
TimeoutAnyPoll(s, expired, poll) ==
    LET missed == CountMiss(Take(s))
    IN  IF s.quiz = NoQuiz THEN Done(s)
        ELSE IF missed.misses < MissesBeforeStopping
             THEN Ask(missed, poll)
             ELSE EndRun(missed)

(* Timeout: a question answered in time, or of a run already over, is      *)
(* nothing to act on.                                                      *)
Timeout(s, expired, poll) ==
    LET missed == CountMiss(Take(s))
    IN  IF ~IsOpen(s, expired) THEN Done(s)
        ELSE IF missed.misses < MissesBeforeStopping
             THEN Ask(missed, poll)
             ELSE EndRun(missed)

FinishRun(s) == EndRun(s)

-----------------------------------------------------------------------------
(* Bot.dispatch, once the route is known.                                  *)
Handle(s, route, text, poll) ==
    CASE route = "start"          -> Start(s)
      [] route = "menu"           -> MainMenu(s)
      [] route = "words.menu"     -> WordsMenu(s)
      [] route = "words.letters"  -> SearchByLetters(s)
      [] route = "words.lookup"   -> Lookup(s)
      [] route = "download"       -> Download(s)
      [] route = "practice.menu"  -> PracticeMenu(s)
      [] route = "practice.size"  -> ChooseSize(s, text.size)
      [] route = "practice.start" -> StartRun(s, poll)
      [] route = "practice.finish" -> FinishRun(s)
      [] route = "admin"          -> AdminCommand(s)
      [] OTHER                    -> Done(s)

=============================================================================
