------------------------- MODULE ConversationProofs -------------------------
(***************************************************************************)
(* The invariants of Conversation, for any number of users, polls and      *)
(* words, any channel capacity and any number of faults; and those that    *)
(* hold for as long as nothing fails.                                      *)
(*                                                                         *)
(* A dispatch changes the state of one user and is one handler of Handlers *)
(* from beginning to end.  So every invariant comes as a predicate on one  *)
(* user (Sound, Shown, Steady, Live), a lemma for each handler that all of *)
(* its outcomes keep it, and a last lemma for the steps of the system: the *)
(* dispatches, the clock, the channel, Telegram and a restart.             *)
(*                                                                         *)
(*   Sound    whatever fails: the inductive invariant IInv                 *)
(*   Shown    whatever fails: a poll is about the word of its question,    *)
(*            which decides what an answer is graded on                    *)
(*   Calm     whatever fails: between two states, no miss is counted and   *)
(*            no question put up, which decides what an expiry may do      *)
(*   Steady   while nothing fails: the keyboard and the bounds of a run    *)
(*   Live     while nothing fails: a run has a question, and that question *)
(*            has a clock, or its expiry is on its way to Bot.timedOut     *)
(***************************************************************************)
EXTENDS Conversation, FiniteSetTheorems, TLAPS

-----------------------------------------------------------------------------
(* Soundness of one user, kept by every handler.                           *)

(* A question is open only in a run; the current word is among the words   *)
(* asked; the tally adds up and is covered by the words asked; no more     *)
(* words were missed than wrong answers given.                             *)
SoundUser(s) ==
    /\ s.quiz # NoQuiz => s.stage = "game"
    /\ s.word # NoWord => s.word \in s.asked
    /\ s.answered = s.correct + s.wrong
    /\ s.correct <= Cardinality(s.asked \ {s.word})
    /\ Cardinality(s.missed) <= s.wrong

Sound == {s \in UserStates : SoundUser(s)}

Outcomes == [s : Sound, ok : BOOLEAN, at : Stages]

-----------------------------------------------------------------------------
(* The sets of words of a user are finite, and their sizes are numbers.    *)
LEMMA WordSets ==
    ASSUME NEW s \in UserStates
    PROVE  /\ s.asked \subseteq Catalog /\ IsFiniteSet(s.asked)
           /\ Cardinality(s.asked) \in Nat
           /\ IsFiniteSet(s.asked \ {s.word})
           /\ Cardinality(s.asked \ {s.word}) \in Nat
           /\ Cardinality(s.asked \ {s.word}) <= Cardinality(s.asked)
           /\ s.missed \subseteq Catalog /\ IsFiniteSet(s.missed)
           /\ Cardinality(s.missed) \in Nat
           /\ NoWord \notin Catalog
<1>1. s.asked \subseteq Catalog /\ s.missed \subseteq Catalog
  BY DEF UserStates
<1>2. IsFiniteSet(s.asked) /\ IsFiniteSet(s.missed)
  BY <1>1, FS_Subset, PracticeAssumption
<1>3. /\ IsFiniteSet(s.asked \ {s.word})
      /\ Cardinality(s.asked \ {s.word}) <= Cardinality(s.asked)
  <2>1. s.asked \ {s.word} \in SUBSET s.asked
    OBVIOUS
  <2> QED
    BY <1>2, <2>1, FS_Subset
<1>4. NoWord \notin Catalog
  BY PracticeAssumption
<1> QED
  BY <1>1, <1>2, <1>3, <1>4, FS_CardinalityType

(* What a record update that leaves the session, the quiz and the missed   *)
(* words alone leaves sound.                                               *)
LEMMA SameRunSound ==
    ASSUME NEW s \in Sound, NEW t \in UserStates,
           t.quiz = s.quiz, t.stage = s.stage, t.word = s.word,
           t.asked = s.asked, t.answered = s.answered,
           t.correct = s.correct, t.wrong = s.wrong, t.missed = s.missed
    PROVE  t \in Sound
BY DEF Sound, SoundUser

(* The same, for one that may close the quiz or change the stage.          *)
LEMMA SameSessionSound ==
    ASSUME NEW s \in Sound, NEW t \in UserStates,
           t.quiz # NoQuiz => t.stage = "game", t.word = s.word,
           t.asked = s.asked, t.answered = s.answered,
           t.correct = s.correct, t.wrong = s.wrong, t.missed = s.missed
    PROVE  t \in Sound
BY DEF Sound, SoundUser

-----------------------------------------------------------------------------
(* The operators on one user.                                              *)

LEMMA ShowSound ==
    ASSUME NEW s \in Sound, NEW kb \in Keyboards
    PROVE  /\ Show(s, kb) \in Sound
           /\ Show(s, kb).stage = s.stage
           /\ Show(s, kb).quiz = s.quiz
           /\ Show(s, kb).missed = s.missed
           /\ Show(s, kb).size = s.size
<1>1. s \in UserStates
  BY DEF Sound
<1>2. Show(s, kb) \in UserStates
  BY <1>1 DEF Show, UserStates
<1>3. /\ Show(s, kb).stage = s.stage /\ Show(s, kb).quiz = s.quiz
      /\ Show(s, kb).missed = s.missed /\ Show(s, kb).size = s.size
      /\ Show(s, kb).word = s.word /\ Show(s, kb).asked = s.asked
      /\ Show(s, kb).answered = s.answered
      /\ Show(s, kb).correct = s.correct /\ Show(s, kb).wrong = s.wrong
  BY <1>1 DEF Show, UserStates
<1> QED
  BY <1>2, <1>3, SameRunSound

LEMMA MoveToSound ==
    ASSUME NEW s \in Sound, NEW stage \in Stages,
           s.quiz # NoQuiz => stage = "game"
    PROVE  /\ MoveTo(s, stage) \in Sound
           /\ MoveTo(s, stage).stage = stage
           /\ MoveTo(s, stage).quiz = s.quiz
<1>1. s \in UserStates
  BY DEF Sound
<1>2. MoveTo(s, stage) \in UserStates
  BY <1>1 DEF MoveTo, UserStates
<1>3. /\ MoveTo(s, stage).stage = stage /\ MoveTo(s, stage).quiz = s.quiz
      /\ MoveTo(s, stage).missed = s.missed
      /\ MoveTo(s, stage).word = s.word /\ MoveTo(s, stage).asked = s.asked
      /\ MoveTo(s, stage).answered = s.answered
      /\ MoveTo(s, stage).correct = s.correct
      /\ MoveTo(s, stage).wrong = s.wrong
  BY <1>1 DEF MoveTo, UserStates
<1> QED
  BY <1>2, <1>3, SameSessionSound

LEMMA TakeSound ==
    ASSUME NEW s \in Sound
    PROVE  /\ Take(s) \in Sound
           /\ Take(s).stage = s.stage
<1>1. s \in UserStates
  BY DEF Sound
<1>2. Take(s) \in UserStates
  BY <1>1 DEF Take, UserStates
<1>3. /\ Take(s).stage = s.stage /\ Take(s).quiz = NoQuiz
      /\ Take(s).missed = s.missed /\ Take(s).word = s.word
      /\ Take(s).asked = s.asked /\ Take(s).answered = s.answered
      /\ Take(s).correct = s.correct /\ Take(s).wrong = s.wrong
  BY <1>1 DEF Take, UserStates
<1> QED
  BY <1>2, <1>3, SameSessionSound

LEMMA ForgetSound ==
    ASSUME NEW s \in Sound
    PROVE  /\ Forget(s) \in Sound
           /\ Forget(s).stage = s.stage
           /\ Forget(s).quiz = NoQuiz
<1>1. s \in UserStates
  BY DEF Sound
<1>2. Forget(s) \in UserStates
  BY <1>1 DEF Forget, UserStates
<1>3. /\ Forget(s).stage = s.stage /\ Forget(s).quiz = NoQuiz
      /\ Forget(s).missed = s.missed /\ Forget(s).word = s.word
      /\ Forget(s).asked = s.asked /\ Forget(s).answered = s.answered
      /\ Forget(s).correct = s.correct /\ Forget(s).wrong = s.wrong
  BY <1>1 DEF Forget, UserStates
<1> QED
  BY <1>2, <1>3, SameSessionSound

LEMMA MissesSound ==
    ASSUME NEW s \in Sound
    PROVE  /\ ClearMisses(s) \in Sound
           /\ ClearMisses(s).stage = s.stage
           /\ CountMiss(s) \in Sound
           /\ CountMiss(s).stage = s.stage
<1>1. s \in UserStates
  BY DEF Sound
<1>2. ClearMisses(s) \in UserStates /\ CountMiss(s) \in UserStates
  BY <1>1 DEF ClearMisses, CountMiss, UserStates
<1> DEFINE c == ClearMisses(s)
           m == CountMiss(s)
<1>3. /\ c.stage = s.stage /\ c.quiz = s.quiz /\ c.missed = s.missed
      /\ c.word = s.word /\ c.asked = s.asked /\ c.answered = s.answered
      /\ c.correct = s.correct /\ c.wrong = s.wrong
  BY <1>1 DEF ClearMisses, UserStates
<1>4. /\ m.stage = s.stage /\ m.quiz = s.quiz /\ m.missed = s.missed
      /\ m.word = s.word /\ m.asked = s.asked /\ m.answered = s.answered
      /\ m.correct = s.correct /\ m.wrong = s.wrong
  BY <1>1 DEF CountMiss, UserStates
<1>5. c \in Sound
  BY <1>2, <1>3, SameRunSound
<1>6. m \in Sound
  BY <1>2, <1>4, SameRunSound
<1> QED
  BY <1>3, <1>4, <1>5, <1>6

LEMMA TakeMissedSound ==
    ASSUME NEW s \in Sound
    PROVE  /\ TakeMissed(s) \in Sound
           /\ TakeMissed(s).stage = s.stage
           /\ TakeMissed(s).quiz = s.quiz
           /\ TakeMissed(s).missed = {}
<1> DEFINE t == TakeMissed(s)
<1>1. s \in UserStates /\ SoundUser(s)
  BY DEF Sound
<1>2. t \in UserStates
  BY <1>1 DEF TakeMissed, UserStates
<1>3. /\ t.stage = s.stage /\ t.quiz = s.quiz /\ t.missed = {}
      /\ t.word = s.word /\ t.asked = s.asked /\ t.answered = s.answered
      /\ t.correct = s.correct /\ t.wrong = s.wrong
  BY <1>1 DEF TakeMissed, UserStates
<1>4. Cardinality(t.missed) <= t.wrong
  <2>1. Cardinality({}) = 0
    BY FS_EmptySet
  <2>2. s.wrong \in Nat
    BY <1>1 DEF UserStates
  <2> QED
    BY <1>3, <2>1, <2>2
<1> QED
  BY <1>1, <1>2, <1>3, <1>4 DEF Sound, SoundUser

(* The run may only be reset once its missed words have been taken.        *)
LEMMA ResetRunSound ==
    ASSUME NEW s \in Sound, s.missed = {}
    PROVE  /\ ResetRun(s) \in Sound
           /\ ResetRun(s).stage = s.stage
           /\ ResetRun(s).quiz = s.quiz
           /\ ResetRun(s).missed = {}
           /\ \A size \in Sizes : /\ NewSession(s, size) \in Sound
                                  /\ NewSession(s, size).quiz = s.quiz
                                  /\ NewSession(s, size).stage = s.stage
<1> DEFINE t == ResetRun(s)
<1>1. s \in UserStates /\ SoundUser(s)
  BY DEF Sound
<1>2. t \in UserStates
  BY <1>1 DEF ResetRun, UserStates
<1>3. /\ t.stage = s.stage /\ t.quiz = s.quiz /\ t.missed = {}
      /\ t.word = NoWord /\ t.asked = {} /\ t.answered = 0
      /\ t.correct = 0 /\ t.wrong = 0
  BY <1>1 DEF ResetRun, UserStates
<1>4. Cardinality({}) = 0 /\ {} \ {NoWord} = {}
  BY FS_EmptySet
<1>5. t \in Sound
  BY <1>1, <1>2, <1>3, <1>4 DEF Sound, SoundUser
<1>6. ASSUME NEW size \in Sizes
      PROVE  /\ NewSession(s, size) \in Sound
             /\ NewSession(s, size).quiz = s.quiz
             /\ NewSession(s, size).stage = s.stage
  <2> DEFINE n == NewSession(s, size)
  <2>1. n = [t EXCEPT !.size = size]
    BY DEF NewSession
  <2>2. n \in UserStates
    BY <1>2, <2>1 DEF UserStates
  <2>3. /\ n.stage = t.stage /\ n.quiz = t.quiz /\ n.missed = t.missed
        /\ n.word = t.word /\ n.asked = t.asked /\ n.answered = t.answered
        /\ n.correct = t.correct /\ n.wrong = t.wrong
    BY <1>2, <2>1 DEF UserStates
  <2>4. n \in Sound
    BY <1>5, <2>2, <2>3, SameRunSound
  <2> QED
    BY <1>3, <2>3, <2>4
<1> QED
  BY <1>3, <1>5, <1>6

(* A drawn word is new to the run, so that asking it covers no answer      *)
(* already counted.                                                        *)
LEMMA SessionAskSound ==
    ASSUME NEW s \in Sound, NEW word \in Draws(s)
    PROVE  /\ SessionAsk(s, word) \in Sound
           /\ SessionAsk(s, word).stage = s.stage
<1> DEFINE t == SessionAsk(s, word)
<1>1. /\ s \in UserStates /\ SoundUser(s)
      /\ word \in Catalog /\ word \notin s.asked
  BY DEF Sound, Draws, RandomAmong, RandomExcept
<1>2. t \in UserStates
  BY <1>1 DEF SessionAsk, UserStates
<1>3. /\ t.stage = s.stage /\ t.quiz = s.quiz /\ t.missed = s.missed
      /\ t.word = word /\ t.asked = s.asked \cup {word}
      /\ t.answered = s.answered /\ t.correct = s.correct
      /\ t.wrong = s.wrong
  BY <1>1 DEF SessionAsk, UserStates
<1>4. t.correct <= Cardinality(t.asked \ {t.word})
  <2>1. t.asked \ {t.word} = s.asked
    BY <1>1, <1>3
  <2>2. /\ Cardinality(s.asked \ {s.word}) <= Cardinality(s.asked)
        /\ Cardinality(s.asked \ {s.word}) \in Nat
        /\ Cardinality(s.asked) \in Nat
    BY <1>1, WordSets
  <2>3. s.correct \in Nat /\ s.correct <= Cardinality(s.asked \ {s.word})
    BY <1>1 DEF UserStates, SoundUser
  <2> QED
    BY <1>3, <2>1, <2>2, <2>3
<1> QED
  BY <1>1, <1>2, <1>3, <1>4 DEF Sound, SoundUser

(* Grading: the answered word stays among the words asked when it was      *)
(* right, and leaves them, uncounted, when it was wrong.  One more wrong   *)
(* answer leaves room for one more missed word.                            *)
LEMMA SessionAnswerSound ==
    ASSUME NEW s \in Sound, s.word # NoWord, NEW given
    PROVE  LET t == SessionAnswer(s, given)
           IN  /\ t \in Sound
               /\ t.stage = s.stage
               /\ given # s.word => Cardinality(t.missed) < t.wrong
<1> DEFINE t == SessionAnswer(s, given)
<1>1. s \in UserStates /\ SoundUser(s)
  BY DEF Sound
<1>2. /\ s.word \in Catalog /\ s.word \in s.asked
      /\ s.answered \in Nat /\ s.correct \in Nat /\ s.wrong \in Nat
      /\ Cardinality(s.missed) \in Nat /\ Cardinality(s.missed) <= s.wrong
  BY <1>1, WordSets DEF UserStates, SoundUser
<1>3. t \in UserStates
  <2>1. CASE given = s.word
    <3>1. t = [s EXCEPT !.answered = s.answered + 1,
                        !.correct = s.correct + 1, !.word = NoWord]
      BY <2>1 DEF SessionAnswer
    <3>2. s.answered + 1 \in Nat /\ s.correct + 1 \in Nat
      BY <1>2
    <3> QED
      BY <1>1, <3>1, <3>2 DEF UserStates
  <2>2. CASE given # s.word
    <3>1. t = [s EXCEPT !.answered = s.answered + 1,
                        !.wrong = s.wrong + 1, !.word = NoWord,
                        !.asked = s.asked \ {s.word}]
      BY <2>2 DEF SessionAnswer
    <3>2. /\ s.answered + 1 \in Nat /\ s.wrong + 1 \in Nat
          /\ s.asked \ {s.word} \in SUBSET Catalog
      BY <1>1, <1>2 DEF UserStates
    <3> QED
      BY <1>1, <3>1, <3>2 DEF UserStates
  <2> QED
    BY <2>1, <2>2
<1>4. /\ t.stage = s.stage /\ t.quiz = s.quiz /\ t.missed = s.missed
      /\ t.word = NoWord /\ t.answered = s.answered + 1
  BY <1>1 DEF SessionAnswer, UserStates
<1>5. CASE given = s.word
  <2>1. t.correct = s.correct + 1 /\ t.wrong = s.wrong /\ t.asked = s.asked
    BY <1>1, <1>5 DEF SessionAnswer, UserStates
  <2>2. t.asked \ {t.word} = s.asked
    BY <1>1, <1>4, <2>1, WordSets
  <2>3. /\ Cardinality(s.asked \ {s.word}) = Cardinality(s.asked) - 1
        /\ Cardinality(s.asked) \in Nat
    BY <1>1, <1>2, WordSets, FS_RemoveElement
  <2>4. s.correct <= Cardinality(s.asked \ {s.word})
    BY <1>1 DEF SoundUser
  <2>5. t.correct <= Cardinality(t.asked \ {t.word})
    BY <1>2, <2>1, <2>2, <2>3, <2>4
  <2> QED
    BY <1>1, <1>2, <1>3, <1>4, <1>5, <2>1, <2>5 DEF Sound, SoundUser
<1>6. CASE given # s.word
  <2>1. /\ t.correct = s.correct /\ t.wrong = s.wrong + 1
        /\ t.asked = s.asked \ {s.word}
    BY <1>1, <1>6 DEF SessionAnswer, UserStates
  <2>2. t.asked \ {t.word} = s.asked \ {s.word}
    BY <1>1, <1>4, <2>1, WordSets
  <2> QED
    BY <1>1, <1>2, <1>3, <1>4, <2>1, <2>2 DEF Sound, SoundUser
<1> QED
  BY <1>5, <1>6

(* What follows a verdict: the learned set and, for a wrong answer, the    *)
(* missed words.                                                           *)
LEMMA RecordSound ==
    ASSUME NEW s \in Sound, NEW word \in Catalog, NEW correct \in BOOLEAN,
           ~correct => Cardinality(s.missed) < s.wrong
    PROVE  LET r == RememberMissed(Remember(s, word, correct), word, correct)
           IN  /\ r \in Sound
               /\ r.stage = s.stage
<1> DEFINE l == Remember(s, word, correct)
           r == RememberMissed(l, word, correct)
<1>1. s \in UserStates /\ SoundUser(s)
  BY DEF Sound
<1>2. l \in UserStates
  BY <1>1 DEF Remember, LearnedAdd, LearnedRemove, UserStates
<1>3. /\ l.stage = s.stage /\ l.quiz = s.quiz /\ l.missed = s.missed
      /\ l.word = s.word /\ l.asked = s.asked /\ l.answered = s.answered
      /\ l.correct = s.correct /\ l.wrong = s.wrong
  BY <1>1 DEF Remember, LearnedAdd, LearnedRemove, UserStates
<1>4. r \in UserStates
  BY <1>2 DEF RememberMissed, UserStates
<1>5. /\ r.stage = l.stage /\ r.quiz = l.quiz /\ r.word = l.word
      /\ r.asked = l.asked /\ r.answered = l.answered
      /\ r.correct = l.correct /\ r.wrong = l.wrong
      /\ r.missed = IF correct THEN l.missed ELSE l.missed \cup {word}
  BY <1>2 DEF RememberMissed, UserStates
<1>6. Cardinality(r.missed) <= r.wrong
  <2>1. CASE correct
    BY <1>1, <1>3, <1>5, <2>1 DEF SoundUser
  <2>2. CASE ~correct
    <3>1. /\ IsFiniteSet(s.missed)
          /\ Cardinality(s.missed) \in Nat
      BY <1>1, WordSets
    <3>2. CASE word \in s.missed
      <4>1. s.missed \cup {word} = s.missed
        BY <3>2
      <4> QED
        BY <1>1, <1>3, <1>5, <2>2, <4>1 DEF SoundUser
    <3>3. CASE word \notin s.missed
      <4>1. Cardinality(s.missed \cup {word}) = Cardinality(s.missed) + 1
        BY <3>1, <3>3, FS_AddElement
      <4>2. s.wrong \in Nat /\ Cardinality(s.missed) < s.wrong
        BY <1>1, <2>2 DEF UserStates
      <4>3. r.missed = s.missed \cup {word} /\ r.wrong = s.wrong
        BY <1>3, <1>5, <2>2
      <4> QED
        BY <3>1, <4>1, <4>2, <4>3
    <3> QED
      BY <3>2, <3>3
  <2> QED
    BY <2>1, <2>2
<1> QED
  BY <1>1, <1>3, <1>4, <1>5, <1>6 DEF Sound, SoundUser

-----------------------------------------------------------------------------
(* The outcomes.                                                           *)

LEMMA OutcomesSound ==
    ASSUME NEW s \in Sound
    PROVE  /\ s.stage \in Stages
           /\ Done(s) \subseteq Outcomes
           /\ \A at \in Stages : DbFails(s, at) \subseteq Outcomes
           /\ \A shown \in Sound : SendFails(s, shown) \subseteq Outcomes
<1>1. s.stage \in Stages
  BY DEF Sound, UserStates
<1>2. Done(s) \subseteq Outcomes
  BY <1>1 DEF Done, Outcomes
<1>3. \A t \in Sound, at \in Stages : Failed(t, at) \in Outcomes
  BY DEF Failed, Outcomes
<1>4. \A at \in Stages : DbFails(s, at) \subseteq Outcomes
  BY <1>3 DEF DbFails
<1>5. \A shown \in Sound : SendFails(s, shown) \subseteq Outcomes
  BY <1>1, <1>3 DEF SendFails
<1> QED
  BY <1>1, <1>2, <1>4, <1>5

LEMMA KeyboardForStageType ==
    ASSUME NEW stage \in Stages
    PROVE  KeyboardForStage(stage) \in Keyboards
BY DEF KeyboardForStage, Keyboards, Stages

(* Fallback changes nothing but the keyboard.                              *)
LEMMA FallbackSound ==
    ASSUME NEW o \in Outcomes
    PROVE  Fallback(o) \subseteq Sound
<1>1. o.s \in Sound /\ o.at \in Stages
  BY DEF Outcomes
<1>2. Show(o.s, KeyboardForStage(o.at)) \in Sound
  BY <1>1, KeyboardForStageType, ShowSound
<1> QED
  BY <1>1, <1>2 DEF Fallback

LEMMA EnterSound ==
    ASSUME NEW s \in Sound, NEW stage \in Stages, NEW kb \in Keyboards,
           s.quiz # NoQuiz => stage = "game"
    PROVE  Enter(s, stage, kb) \subseteq Outcomes
<1>1. MoveTo(s, stage) \in Sound
  BY MoveToSound
<1>2. Show(MoveTo(s, stage), kb) \in Sound
  BY <1>1, ShowSound
<1> QED
  BY <1>1, <1>2, OutcomesSound DEF Enter

(* The three menus are entered only from outside a run.                    *)
LEMMA MenusSound ==
    ASSUME NEW s \in Sound, s.quiz = NoQuiz
    PROVE  /\ Start(s) \subseteq Outcomes
           /\ MainMenu(s) \subseteq Outcomes
           /\ WordsMenu(s) \subseteq Outcomes
<1>1. /\ {"start", "main_menu", "words"} \subseteq Stages
      /\ {"faster", "main", "alphabet"} \subseteq Keyboards
  BY DEF Stages, Keyboards
<1> QED
  BY <1>1, EnterSound DEF Start, MainMenu, WordsMenu

LEMMA RepliesSound ==
    ASSUME NEW s \in Sound
    PROVE  /\ SearchByLetters(s) \subseteq Outcomes
           /\ Lookup(s) \subseteq Outcomes
           /\ Download(s) \subseteq Outcomes
           /\ AdminCommand(s) \subseteq Outcomes
<1>1. Show(s, "alphabet") \in Sound
  BY ShowSound DEF Keyboards
<1>2. s.stage \in Stages
  BY DEF Sound, SoundUser, UserStates
<1> QED
  BY <1>1, <1>2, OutcomesSound
  DEF SearchByLetters, Lookup, Download, AdminCommand

(* PracticeMenu may be called in any state: it closes the question and     *)
(* takes the missed words before it resets the run and leaves it.          *)
LEMMA PracticeMenuSound ==
    ASSUME NEW s \in Sound
    PROVE  PracticeMenu(s) \subseteq Outcomes
<1> DEFINE quiet == TakeMissed(Forget(s))
<1>1. /\ quiet \in Sound /\ quiet.quiz = NoQuiz /\ quiet.missed = {}
  BY ForgetSound, TakeMissedSound
<1>2. /\ ResetRun(quiet) \in Sound
      /\ ResetRun(quiet).quiz = NoQuiz
  BY <1>1, ResetRunSound
<1>3. DbFails(quiet, s.stage) \subseteq Outcomes
  BY <1>1, OutcomesSound
<1>4. Enter(ResetRun(quiet), "practice_menu", "sizes") \subseteq Outcomes
  <2>1. "practice_menu" \in Stages /\ "sizes" \in Keyboards
    BY DEF Stages, Keyboards
  <2> QED
    BY <1>2, <2>1, EnterSound
<1> QED
  BY <1>3, <1>4 DEF PracticeMenu, Abandon

LEMMA ChooseSizeSound ==
    ASSUME NEW s \in Sound, s.quiz = NoQuiz, NEW size \in Sizes
    PROVE  ChooseSize(s, size) \subseteq Outcomes
<1> DEFINE begun  == NewSession(TakeMissed(s), size)
           moved  == MoveTo(begun, "practice_readiness")
           ready  == Show(moved, "readiness")
           taught == Show(moved, "none")
           told   == [ready EXCEPT !.tutorial = TRUE]
<1>1. /\ "practice_readiness" \in Stages
      /\ "readiness" \in Keyboards /\ "none" \in Keyboards
  BY DEF Stages, Keyboards
<1>2. /\ TakeMissed(s) \in Sound /\ TakeMissed(s).missed = {}
      /\ TakeMissed(s).quiz = NoQuiz
  BY TakeMissedSound
<1>3. TakeMissed(ResetRun(s)) = ResetRun(TakeMissed(s))
  <2>1. s \in UserStates
    BY DEF Sound
  <2> QED
    BY <2>1 DEF TakeMissed, ResetRun, UserStates
<1>4. /\ TakeMissed(ResetRun(s)) \in Sound
      /\ begun \in Sound /\ begun.quiz = NoQuiz
  BY <1>2, <1>3, ResetRunSound
<1>5. moved \in Sound
  BY <1>1, <1>4, MoveToSound
<1>6. ready \in Sound /\ taught \in Sound
  BY <1>1, <1>5, ShowSound
<1>7. told \in Sound
  <2>1. ready \in UserStates
    BY <1>6 DEF Sound
  <2>2. told \in UserStates
    BY <2>1 DEF UserStates
  <2>3. /\ told.stage = ready.stage /\ told.quiz = ready.quiz
        /\ told.missed = ready.missed /\ told.word = ready.word
        /\ told.asked = ready.asked /\ told.answered = ready.answered
        /\ told.correct = ready.correct /\ told.wrong = ready.wrong
    BY <2>1 DEF UserStates
  <2> QED
    BY <1>6, <2>2, <2>3, SameRunSound
<1>8. /\ DbFails(s, s.stage) \subseteq Outcomes
      /\ DbFails(TakeMissed(ResetRun(s)), s.stage) \subseteq Outcomes
      /\ DbFails(begun, "practice_readiness") \subseteq Outcomes
      /\ Done(ready) \subseteq Outcomes
      /\ SendFails(moved, ready) \subseteq Outcomes
  BY <1>1, <1>4, <1>5, <1>6, OutcomesSound
<1>9. /\ SendFails(moved, taught) \subseteq Outcomes
      /\ SendFails(taught, ready) \subseteq Outcomes
      /\ DbFails(ready, "practice_readiness") \subseteq Outcomes
      /\ Done(told) \subseteq Outcomes
  BY <1>1, <1>5, <1>6, <1>7, OutcomesSound
<1> QED
  BY <1>8, <1>9 DEF ChooseSize, Begin

-----------------------------------------------------------------------------
(* The run.                                                                *)

LEMMA ResultsSound ==
    ASSUME NEW s \in Sound
    PROVE  Results(s) \subseteq Outcomes
<1>1. Show(s, "none") \in Sound
  BY ShowSound DEF Keyboards
<1> QED
  BY <1>1, OutcomesSound, PracticeMenuSound DEF Results

LEMMA EndRunSound ==
    ASSUME NEW s \in Sound
    PROVE  EndRun(s) \subseteq Outcomes
<1>1. TakeMissed(s) \in Sound
  BY TakeMissedSound
<1>2. /\ DbFails(s, s.stage) \subseteq Outcomes
      /\ Results(TakeMissed(s)) \subseteq Outcomes
      /\ PracticeMenu(s) \subseteq Outcomes
  BY <1>1, OutcomesSound, ResultsSound, PracticeMenuSound
<1> QED
  BY <1>2 DEF EndRun, Finish

LEMMA CompleteRunSound ==
    ASSUME NEW s \in Sound
    PROVE  CompleteRun(s) \subseteq Outcomes
<1> DEFINE told == TakeMissed(s)
<1>1. told \in Sound
  BY TakeMissedSound
<1>2. Show(told, "none") \in Sound
  BY <1>1, ShowSound DEF Keyboards
<1>3. /\ DbFails(s, s.stage) \subseteq Outcomes
      /\ SendFails(told, Show(told, "none")) \subseteq Outcomes
      /\ Results(Show(told, "none")) \subseteq Outcomes
  BY <1>1, <1>2, OutcomesSound, ResultsSound
<1> QED
  BY <1>3 DEF CompleteRun, Finish

(* Putting a question up is the one thing that opens a quiz, and it is     *)
(* only done in a run.                                                     *)
LEMMA SendQuizSound ==
    ASSUME NEW s \in Sound, s.stage = "game", NEW word \in Catalog,
           NEW poll \in Polls \cup {NoPoll}
    PROVE  SendQuiz(s, word, poll) \subseteq Outcomes
<1>1. CASE poll = NoPoll
  BY <1>1 DEF SendQuiz
<1>2. CASE poll # NoPoll
  <2> DEFINE shown == [s EXCEPT !.polls[poll] =
                           [phase |-> "open", text |-> word]]
             put   == Put(shown, poll, word)
  <2>1. poll \in Polls /\ s \in UserStates
    BY <1>2 DEF Sound
  <2>2. shown \in UserStates
    BY <2>1 DEF UserStates, PollStates
  <2>3. /\ shown.stage = s.stage /\ shown.quiz = s.quiz
        /\ shown.missed = s.missed /\ shown.word = s.word
        /\ shown.asked = s.asked /\ shown.answered = s.answered
        /\ shown.correct = s.correct /\ shown.wrong = s.wrong
    BY <2>1 DEF UserStates
  <2>4. shown \in Sound
    BY <2>2, <2>3, SameRunSound
  <2>5. put \in UserStates
    BY <2>1, <2>2 DEF Put, UserStates, Quizzes
  <2>6. /\ put.stage = shown.stage
        /\ put.missed = shown.missed /\ put.word = shown.word
        /\ put.asked = shown.asked /\ put.answered = shown.answered
        /\ put.correct = shown.correct /\ put.wrong = shown.wrong
    BY <2>2 DEF Put, UserStates
  <2>7. put \in Sound
    BY <2>3, <2>4, <2>5, <2>6, SameSessionSound
  <2>8. /\ Done(put) \subseteq Outcomes
        /\ SendFails(s, shown) \subseteq Outcomes
    BY <2>4, <2>7, OutcomesSound
  <2> QED
    BY <1>2, <2>8 DEF SendQuiz
<1> QED
  BY <1>1, <1>2

LEMMA AskSound ==
    ASSUME NEW s \in Sound, s.stage = "game",
           NEW poll \in Polls \cup {NoPoll}
    PROVE  Ask(s, poll) \subseteq Outcomes
<1>1. DbFails(s, s.stage) \subseteq Outcomes
  BY OutcomesSound
<1>2. PracticeMenu(s) \subseteq Outcomes
  BY PracticeMenuSound
<1>3. SendFails(s, Show(s, "none")) \cup EndRun(Show(s, "none"))
        \subseteq Outcomes
  <2>1. Show(s, "none") \in Sound
    BY ShowSound DEF Keyboards
  <2> QED
    BY <2>1, OutcomesSound, EndRunSound
<1>4. UNION {SendQuiz(q, q.word, poll) : q \in Question(s)}
        \subseteq Outcomes
  <2>1. ASSUME NEW q \in Question(s)
        PROVE  SendQuiz(q, q.word, poll) \subseteq Outcomes
    <3>1. PICK w \in Draws(s) : q = SessionAsk(s, w)
      BY DEF Question
    <3>2. w \in Catalog /\ s \in UserStates
      BY DEF Draws, RandomAmong, RandomExcept, Sound
    <3>3. q \in Sound /\ q.stage = "game"
      BY <3>1, SessionAskSound
    <3>4. q.word = w
      BY <3>1, <3>2 DEF SessionAsk, UserStates
    <3> QED
      BY <3>2, <3>3, <3>4, SendQuizSound
  <2> QED
    BY <2>1
<1>5. CASE ~HasSession(s)
  BY <1>1, <1>2, <1>5 DEF Ask
<1>6. CASE HasSession(s) /\ Question(s) = {}
  BY <1>1, <1>3, <1>6 DEF Ask
<1>7. CASE HasSession(s) /\ Question(s) # {}
  BY <1>1, <1>4, <1>7 DEF Ask
<1> QED
  BY <1>5, <1>6, <1>7

LEMMA StartRunSound ==
    ASSUME NEW s \in Sound, NEW poll \in Polls \cup {NoPoll}
    PROVE  StartRun(s, poll) \subseteq Outcomes
<1> DEFINE moved == MoveTo(s, "game")
           shown == Show(moved, "finish")
<1>1. "game" \in Stages /\ "finish" \in Keyboards
  BY DEF Stages, Keyboards
<1>2. moved \in Sound /\ moved.stage = "game"
  BY <1>1, MoveToSound
<1>3. shown \in Sound /\ shown.stage = "game"
  BY <1>1, <1>2, ShowSound
<1>4. /\ DbFails(s, "game") \subseteq Outcomes
      /\ SendFails(moved, shown) \subseteq Outcomes
      /\ Ask(shown, poll) \subseteq Outcomes
  BY <1>1, <1>2, <1>3, OutcomesSound, AskSound
<1> QED
  BY <1>4 DEF StartRun

LEMMA GradeSound ==
    ASSUME NEW s \in Sound, s.stage = "game", NEW given,
           NEW poll \in Polls \cup {NoPoll}
    PROVE  Grade(s, given, poll) \subseteq Outcomes
<1> DEFINE correct  == given = s.word
           graded   == SessionAnswer(s, given)
           recorded == RememberMissed(Remember(graded, s.word, correct),
                                      s.word, correct)
<1>1. /\ DbFails(s, s.stage) \subseteq Outcomes
      /\ PracticeMenu(s) \subseteq Outcomes
      /\ Done(s) \subseteq Outcomes
  BY OutcomesSound, PracticeMenuSound
<1>2. CASE ~HasSession(s)
  BY <1>1, <1>2 DEF Grade
<1>3. CASE HasSession(s) /\ IsStale(s, given)
  BY <1>1, <1>3 DEF Grade
<1>4. CASE HasSession(s) /\ ~IsStale(s, given)
  <2>1. s.word # NoWord /\ s.word \in Catalog
    BY <1>4 DEF IsStale, Sound, UserStates
  <2>2. /\ graded \in Sound /\ graded.stage = "game"
        /\ ~correct => Cardinality(graded.missed) < graded.wrong
    BY <2>1, SessionAnswerSound
  <2>3. recorded \in Sound /\ recorded.stage = "game"
    <3>1. correct \in BOOLEAN
      OBVIOUS
    <3> QED
      BY <2>1, <2>2, <3>1, RecordSound
  <2>4. DbFails(graded, s.stage) \subseteq Outcomes
    BY <2>2, OutcomesSound
  <2>5. /\ CompleteRun(recorded) \subseteq Outcomes
        /\ Ask(recorded, poll) \subseteq Outcomes
    BY <2>3, CompleteRunSound, AskSound
  <2> QED
    BY <1>1, <1>4, <2>4, <2>5 DEF Grade
<1> QED
  BY <1>2, <1>3, <1>4

(* Answer, FinishRun and Timeout, which run only in a run...               *)
LEMMA RunHandlersSound ==
    ASSUME NEW s \in Sound, s.stage = "game", NEW answered, NEW given,
           NEW poll \in Polls \cup {NoPoll}
    PROVE  /\ Answer(s, answered, given, poll) \subseteq Outcomes
           /\ Timeout(s, answered, poll) \subseteq Outcomes
           /\ FinishRun(s) \subseteq Outcomes
<1>1. Take(s) \in Sound /\ Take(s).stage = "game"
  BY TakeSound
<1>2. /\ ClearMisses(Take(s)) \in Sound
      /\ ClearMisses(Take(s)).stage = "game"
      /\ CountMiss(Take(s)) \in Sound
      /\ CountMiss(Take(s)).stage = "game"
  BY <1>1, MissesSound
<1>3. Answer(s, answered, given, poll) \subseteq Outcomes
  BY <1>2, GradeSound, AskSound DEF Answer
<1>4. Timeout(s, answered, poll) \subseteq Outcomes
  BY <1>2, OutcomesSound, AskSound, EndRunSound DEF Timeout
<1>5. FinishRun(s) \subseteq Outcomes
  BY EndRunSound DEF FinishRun
<1> QED
  BY <1>3, <1>4, <1>5

(* ...and every message, which only the finish button is while in a run.   *)
LEMMA HandleSound ==
    ASSUME NEW s \in Sound, NEW text, NEW poll \in Polls \cup {NoPoll}
    PROVE  Handle(s, Resolve(s.stage, text), text, poll) \subseteq Outcomes
<1> DEFINE route == Resolve(s.stage, text)
<1>1. CASE s.stage = "game"
  <2>1. route \in {"admin", "practice.finish", "none"}
    BY <1>1 DEF Resolve
  <2>2. /\ Done(s) \subseteq Outcomes
        /\ FinishRun(s) \subseteq Outcomes
        /\ AdminCommand(s) \subseteq Outcomes
    BY <1>1, OutcomesSound, RunHandlersSound, RepliesSound
  <2>3. CASE route = "practice.finish"
    BY <2>2, <2>3 DEF Handle
  <2>4. CASE route = "none"
    BY <2>2, <2>4 DEF Handle
  <2>5. CASE route = "admin"
    BY <2>2, <2>5 DEF Handle
  <2> QED
    BY <2>1, <2>3, <2>4, <2>5
<1>2. CASE s.stage # "game"
  <2>1. s.quiz = NoQuiz
    BY <1>2 DEF Sound, SoundUser
  <2>2. /\ Start(s) \subseteq Outcomes
        /\ MainMenu(s) \subseteq Outcomes
        /\ WordsMenu(s) \subseteq Outcomes
        /\ SearchByLetters(s) \subseteq Outcomes
        /\ Lookup(s) \subseteq Outcomes
        /\ Download(s) \subseteq Outcomes
        /\ PracticeMenu(s) \subseteq Outcomes
        /\ StartRun(s, poll) \subseteq Outcomes
        /\ AdminCommand(s) \subseteq Outcomes
    BY <2>1, MenusSound, RepliesSound, PracticeMenuSound, StartRunSound
  <2>3. CASE route = "practice.size"
    <3>1. IsRunLength(text)
      BY <1>2, <2>3 DEF Resolve
    <3>2. PICK n \in Sizes : text = [size |-> n]
      BY <3>1 DEF IsRunLength
    <3>3. text.size \in Sizes
      BY <3>2
    <3>4. ChooseSize(s, text.size) \subseteq Outcomes
      BY <2>1, <3>3, ChooseSizeSound
    <3> QED
      BY <2>3, <3>4 DEF Handle
  <2>4. CASE route # "practice.size"
    <3>1. route \in {"start", "menu", "practice.menu", "words.letters",
                    "practice.start", "download", "words.menu",
                    "words.lookup", "admin"}
      BY <1>2, <2>4 DEF Resolve
    <3>2. Handle(s, route, text, poll) \in
             {Start(s), MainMenu(s), PracticeMenu(s), SearchByLetters(s),
              StartRun(s, poll), Download(s), WordsMenu(s), Lookup(s),
              AdminCommand(s)}
      <4> HIDE DEF route
      <4> QED
        BY <3>1, Zenon DEF Handle
    <3> QED
      BY <2>2, <3>2
  <2> QED
    BY <2>3, <2>4
<1> QED
  BY <1>1, <1>2

-----------------------------------------------------------------------------
(* Every user is sound.  The clock, Telegram and a restart only touch what *)
(* soundness does not depend on, or close the question and forget the      *)
(* missed words.                                                           *)
IInv ==
    /\ TypeOK
    /\ st \in [Users -> Sound]

-----------------------------------------------------------------------------
LEMMA NextPollType ==
    ASSUME NEW u \in Users
    PROVE  NextPoll(u) \in Polls \cup {NoPoll}
<1>1. CASE FreePolls(u) = {}
  BY <1>1 DEF NextPoll
<1>2. CASE FreePolls(u) # {}
  <2>1. \E p \in FreePolls(u) : TRUE
    BY <1>2
  <2>2. (CHOOSE p \in FreePolls(u) : TRUE) \in FreePolls(u)
    BY <2>1
  <2> QED
    BY <1>2, <2>2 DEF NextPoll, FreePolls
<1> QED
  BY <1>1, <1>2

LEMMA NewUserSound == NewUser \in Sound /\ LegacyUser \in Sound
<1>1. Cardinality({}) = 0 /\ {} \ {NoWord} = {}
  BY FS_EmptySet
<1>2. NewUser \in UserStates
  BY DEF NewUser, UserStates, Stages, Keyboards, PollStates, Shut
<1>3. LegacyUser \in UserStates
  BY <1>2 DEF LegacyUser, UserStates, Stages
<1>4. NewUser \in Sound
  BY <1>1, <1>2 DEF Sound, SoundUser, NewUser
<1>5. /\ LegacyUser.quiz = NewUser.quiz /\ LegacyUser.stage = "game"
      /\ LegacyUser.missed = NewUser.missed
      /\ LegacyUser.word = NewUser.word /\ LegacyUser.asked = NewUser.asked
      /\ LegacyUser.answered = NewUser.answered
      /\ LegacyUser.correct = NewUser.correct
      /\ LegacyUser.wrong = NewUser.wrong
  BY <1>2 DEF LegacyUser, UserStates
<1> QED
  BY <1>3, <1>4, <1>5, SameSessionSound

LEMMA InitSound == Init => IInv
<1> SUFFICES ASSUME Init PROVE IInv
  OBVIOUS
<1>1. st \in [Users -> Sound]
  BY NewUserSound DEF Init
<1>2. st \in [Users -> UserStates]
  BY <1>1 DEF Sound
<1> QED
  BY <1>1, <1>2 DEF Init, IInv, TypeOK

(* Replacing one user's state by a sound one.                              *)
LEMMA UpdateSound ==
    ASSUME IInv, NEW u \in Users, NEW s \in Sound,
           st' = [st EXCEPT ![u] = s]
    PROVE  /\ st' \in [Users -> Sound]
           /\ st' \in [Users -> UserStates]
BY DEF IInv, Sound

(* Running a handler whose outcomes are sound, Fallback included.          *)
LEMMA RunSound ==
    ASSUME IInv, NEW u \in Users, NEW outcomes \in SUBSET Outcomes,
           Run(u, outcomes)
    PROVE  /\ st' \in [Users -> Sound]
           /\ st' \in [Users -> UserStates]
           /\ faults' \in Nat
<1>1. PICK o \in outcomes :
        /\ faults' = IF o.ok THEN faults ELSE faults + 1
        /\ \E s \in IF o.ok THEN {o.s} ELSE Fallback(o) :
               st' = [st EXCEPT ![u] = s]
  BY DEF Run
<1>2. PICK s \in IF o.ok THEN {o.s} ELSE Fallback(o) :
        st' = [st EXCEPT ![u] = s]
  BY <1>1
<1>3. o \in Outcomes /\ o.s \in Sound
  BY DEF Outcomes
<1>4. Fallback(o) \subseteq Sound
  BY <1>3, FallbackSound
<1>5. s \in Sound
  BY <1>2, <1>3, <1>4
<1>6. faults \in Nat
  BY DEF IInv, TypeOK
<1>7. st' \in [Users -> Sound] /\ st' \in [Users -> UserStates]
  BY <1>2, <1>5, UpdateSound
<1>8. faults' \in Nat
  BY <1>1, <1>6
<1> QED
  BY <1>7, <1>8

LEMMA DropSound ==
    ASSUME IInv, NEW u \in Users, NEW s \in Sound, Drop(u, s)
    PROVE  /\ st' \in [Users -> Sound]
           /\ st' \in [Users -> UserStates]
           /\ faults' \in Nat
<1>1. faults \in Nat
  BY DEF IInv, TypeOK
<1>2. /\ st' = [st EXCEPT ![u] = s]
      /\ faults' = faults + 1
  BY DEF Drop
<1>3. st' \in [Users -> Sound] /\ st' \in [Users -> UserStates]
  BY <1>2, UpdateSound
<1> QED
  BY <1>1, <1>2, <1>3

(* Changing only what became of a poll.                                    *)
LEMMA PollSound ==
    ASSUME NEW s \in Sound, NEW p \in Polls, NEW v \in PollStates
    PROVE  LET t == [s EXCEPT !.polls[p] = v]
           IN  t \in Sound /\ t.stage = s.stage
<1> DEFINE t == [s EXCEPT !.polls[p] = v]
<1>1. s \in UserStates
  BY DEF Sound
<1>2. t \in UserStates
  BY <1>1 DEF UserStates
<1>3. /\ t.stage = s.stage /\ t.quiz = s.quiz /\ t.missed = s.missed
      /\ t.word = s.word /\ t.asked = s.asked /\ t.answered = s.answered
      /\ t.correct = s.correct /\ t.wrong = s.wrong
  BY <1>1 DEF UserStates
<1> QED
  BY <1>2, <1>3, SameRunSound

LEMMA ShutType == Shut \in PollStates
BY DEF Shut, PollStates

-----------------------------------------------------------------------------
(* The actions.                                                            *)

LEMMA DispatchMessageSound ==
    ASSUME IInv, NEW u \in Users, NEW text, DispatchMessage(u, text)
    PROVE  IInv'
<1> DEFINE route == Resolve(st[u].stage, text)
<1>1. st[u] \in Sound
  BY DEF IInv
<1>2. NextPoll(u) \in Polls \cup {NoPoll}
  BY NextPollType
<1>3. Handle(st[u], route, text, NextPoll(u)) \subseteq Outcomes
  BY <1>1, <1>2, HandleSound
<1>4. /\ \/ Run(u, Handle(st[u], route, text, NextPoll(u)))
         \/ Drop(u, st[u])
      /\ UNCHANGED <<timeouts, held>>
  BY DEF DispatchMessage
<1>5. /\ st' \in [Users -> Sound] /\ st' \in [Users -> UserStates]
      /\ faults' \in Nat
  <2>1. CASE Run(u, Handle(st[u], route, text, NextPoll(u)))
    BY <1>3, <2>1, RunSound
  <2>2. CASE Drop(u, st[u])
    BY <1>1, <2>2, DropSound
  <2> QED
    BY <1>4, <2>1, <2>2
<1> QED
  BY <1>4, <1>5 DEF IInv, TypeOK

LEMMA DispatchPollAnswerSound ==
    ASSUME IInv, NEW u \in Users, NEW p \in Polls, DispatchPollAnswer(u, p)
    PROVE  IInv'
<1> DEFINE s     == Dispatched(st[u], p)
           given == st[u].polls[p].text
           outs  == IF s.stage # "game" THEN Done(s)
                    ELSE Answer(s, p, given, NextPoll(u))
<1>1. /\ st[u] \in Sound
      /\ st[u] \in UserStates
  BY DEF IInv, Sound
<1>2. st[u].polls[p] \in PollStates /\ st[u].polls[p].phase = "sent"
  BY <1>1 DEF DispatchPollAnswer, UserStates
<1>3. s \in Sound
  <2> DEFINE v == [st[u].polls[p] EXCEPT !.phase = "handled"]
  <2>1. v \in PollStates
    BY <1>2 DEF PollStates
  <2>2. CASE "restart" \in Faults
    <3>1. s = [st[u] EXCEPT !.polls[p] = v]
      BY <1>1, <2>2 DEF Dispatched, UserStates
    <3> QED
      BY <1>1, <2>1, <3>1, PollSound
  <2>3. CASE "restart" \notin Faults
    BY <1>1, <2>3, PollSound, ShutType DEF Dispatched
  <2> QED
    BY <2>2, <2>3
<1>4. NextPoll(u) \in Polls \cup {NoPoll}
  BY NextPollType
<1>5. outs \subseteq Outcomes
  BY <1>3, <1>4, OutcomesSound, RunHandlersSound
<1>6. /\ Run(u, outs) \/ Drop(u, s)
      /\ UNCHANGED <<timeouts, held>>
  BY DEF DispatchPollAnswer
<1>7. /\ st' \in [Users -> Sound] /\ st' \in [Users -> UserStates]
      /\ faults' \in Nat
  <2>1. CASE Run(u, outs)
    BY <1>5, <2>1, RunSound
  <2>2. CASE Drop(u, s)
    BY <1>3, <2>2, DropSound
  <2> QED
    BY <1>6, <2>1, <2>2
<1> QED
  BY <1>6, <1>7 DEF IInv, TypeOK

LEMMA TimerFiresSound ==
    ASSUME IInv, NEW u \in Users, TimerFires(u)
    PROVE  IInv'
<1> DEFINE t == [st[u] EXCEPT !.quiz.armed = FALSE]
<1>1. /\ st[u] \in Sound /\ st[u] \in UserStates
      /\ st[u].quiz \in Quizzes /\ st[u].stage = "game"
  BY DEF IInv, Sound, SoundUser, TimerFires, UserStates
<1>2. t \in UserStates
  BY <1>1 DEF UserStates, Quizzes
<1>3. /\ t.stage = st[u].stage /\ t.missed = st[u].missed
      /\ t.word = st[u].word /\ t.asked = st[u].asked
      /\ t.answered = st[u].answered /\ t.correct = st[u].correct
      /\ t.wrong = st[u].wrong
  BY <1>1 DEF UserStates
<1>4. t \in Sound
  BY <1>1, <1>2, <1>3, SameSessionSound
<1>5. st' = [st EXCEPT ![u] = t]
  BY DEF TimerFires, IInv, TypeOK
<1>6. timeouts' \in Seq(Timeouts)
  <2>1. [user |-> u, poll |-> st[u].quiz.poll] \in Timeouts
    BY <1>1 DEF Timeouts, Quizzes
  <2> QED
    BY <2>1 DEF TimerFires, IInv, TypeOK
<1>7. st' \in [Users -> Sound] /\ st' \in [Users -> UserStates]
  BY <1>4, <1>5, UpdateSound
<1> QED
  BY <1>6, <1>7 DEF TimerFires, IInv, TypeOK

LEMMA WatchTimeoutsSound ==
    ASSUME IInv, WatchTimeouts
    PROVE  IInv'
<1>1. timeouts \in Seq(Timeouts) /\ timeouts # <<>>
  BY DEF WatchTimeouts, IInv, TypeOK
<1>2. Head(timeouts) \in Timeouts /\ Tail(timeouts) \in Seq(Timeouts)
  BY <1>1
<1>3. <<Head(timeouts)>> \in Seq(Timeouts)
  BY <1>2
<1>4. held' \in Seq(Timeouts) /\ timeouts' \in Seq(Timeouts)
  BY <1>2, <1>3 DEF WatchTimeouts
<1> QED
  BY <1>4 DEF WatchTimeouts, IInv, TypeOK

LEMMA TimedOutSound ==
    ASSUME IInv, TimedOut
    PROVE  IInv'
<1> DEFINE u    == Head(held).user
           s    == st[u]
           outs == IF s.stage # "game" THEN Done(s)
                   ELSE Timeout(s, Head(held).poll, NextPoll(u))
<1>1. u \in Users
  <2>1. held \in Seq(Timeouts) /\ held # <<>>
    BY DEF TimedOut, IInv, TypeOK
  <2>2. Head(held) \in Timeouts
    BY <2>1
  <2> QED
    BY <2>2 DEF Timeouts
<1>2. s \in Sound
  BY <1>1 DEF IInv
<1>3. NextPoll(u) \in Polls \cup {NoPoll}
  BY <1>1, NextPollType
<1>4. outs \subseteq Outcomes
  BY <1>2, <1>3, OutcomesSound, RunHandlersSound
<1>5. Run(u, outs) \/ Drop(u, s)
  BY DEF TimedOut
<1>6. /\ st' \in [Users -> Sound] /\ st' \in [Users -> UserStates]
      /\ faults' \in Nat
  <2> HIDE DEF u, s, outs
  <2>1. CASE Run(u, outs)
    BY <1>1, <1>4, <2>1, RunSound
  <2>2. CASE Drop(u, s)
    BY <1>1, <1>2, <2>2, DropSound
  <2> QED
    BY <1>5, <2>1, <2>2
<1>7. held' \in Seq(Timeouts) /\ timeouts' \in Seq(Timeouts)
  <2>1. held' = <<>> /\ timeouts' = timeouts
    BY DEF TimedOut
  <2> QED
    BY <2>1 DEF IInv, TypeOK
<1> QED
  BY <1>6, <1>7 DEF IInv, TypeOK

LEMMA TelegramSound ==
    ASSUME IInv, NEW u \in Users, NEW p \in Polls,
           \/ Close(u, p)
           \/ Confirm(u, p)
           \/ \E given \in Spellings : Pick(u, p, given)
    PROVE  IInv'
<1>1. st[u] \in Sound
  BY DEF IInv
<1>2. PICK v \in PollStates :
        /\ st' = [st EXCEPT ![u].polls[p] = v]
        /\ UNCHANGED <<timeouts, held, faults>>
  <2>1. CASE Close(u, p) \/ Confirm(u, p)
    BY <2>1, ShutType DEF Close, Confirm
  <2>2. ASSUME NEW given \in Spellings, Pick(u, p, given)
        PROVE  \E v \in PollStates :
                 /\ st' = [st EXCEPT ![u].polls[p] = v]
                 /\ UNCHANGED <<timeouts, held, faults>>
    <3>1. [phase |-> "sent", text |-> given] \in PollStates
      BY DEF PollStates
    <3> QED
      BY <2>2, <3>1 DEF Pick
  <2> QED
    BY <2>1, <2>2
<1> DEFINE t == [st[u] EXCEPT !.polls[p] = v]
<1>3. t \in Sound
  BY <1>1, PollSound
<1>4. st' = [st EXCEPT ![u] = t]
  BY <1>2
<1>5. st' \in [Users -> Sound] /\ st' \in [Users -> UserStates]
  BY <1>3, <1>4, UpdateSound
<1> QED
  BY <1>2, <1>5 DEF IInv, TypeOK

LEMMA RestartSound ==
    ASSUME IInv, Restart
    PROVE  IInv'
<1>1. ASSUME NEW s \in Sound, NEW again
      PROVE  Restarted(s, again) \in Sound
  <2> DEFINE t     == Restarted(s, again)
             polls == [p \in Polls |->
                        IF s.polls[p].phase \in {"shut", "open"} THEN s.polls[p]
                        ELSE IF p \in again
                             THEN [s.polls[p] EXCEPT !.phase = "sent"]
                             ELSE Shut]
  <2>1. s \in UserStates /\ SoundUser(s)
    BY DEF Sound
  <2>2. polls \in [Polls -> PollStates]
    <3>1. ASSUME NEW p \in Polls
          PROVE  polls[p] \in PollStates
      <4>1. s.polls[p] \in PollStates
        BY <2>1 DEF UserStates
      <4>2. CASE s.polls[p].phase \in {"shut", "open"}
        <5>1. polls[p] = s.polls[p]
          BY <4>2
        <5> QED
          BY <4>1, <5>1
      <4>3. CASE s.polls[p].phase \notin {"shut", "open"}
        <5>1. s.polls[p] \in [phase : {"sent", "handled"}, text : Spellings]
          BY <4>1, <4>3 DEF PollStates
        <5>2. [s.polls[p] EXCEPT !.phase = "sent"]
                \in [phase : {"sent", "handled"}, text : Spellings]
          BY <5>1
        <5>3. [s.polls[p] EXCEPT !.phase = "sent"] \in PollStates
          BY <5>2 DEF PollStates
        <5> QED
          BY <4>3, <5>3, ShutType
      <4> QED
        BY <4>2, <4>3
    <3> QED
      BY <3>1
  <2>3. t = [s EXCEPT !.missed = {}, !.misses = 0, !.quiz = NoQuiz,
                      !.polls = polls]
    BY DEF Restarted
  <2> HIDE DEF polls
  <2>4. t \in UserStates
    <3> DEFINE a == [s EXCEPT !.missed = {}]
               b == [a EXCEPT !.misses = 0]
               c == [b EXCEPT !.quiz = NoQuiz]
    <3>1. a \in UserStates
      BY <2>1 DEF UserStates
    <3>2. b \in UserStates
      BY <3>1 DEF UserStates
    <3>3. c \in UserStates
      BY <3>2 DEF UserStates
    <3>4. t = [c EXCEPT !.polls = polls]
      BY <2>3
    <3> HIDE DEF c, t
    <3> QED
      BY <2>2, <3>3, <3>4 DEF UserStates
  <2>5. /\ t.quiz = NoQuiz /\ t.missed = {} /\ t.word = s.word
        /\ t.asked = s.asked /\ t.answered = s.answered
        /\ t.correct = s.correct /\ t.wrong = s.wrong
    BY <2>1, <2>3 DEF UserStates
  <2>6. Cardinality({}) = 0 /\ s.wrong \in Nat
    BY <2>1, FS_EmptySet DEF UserStates
  <2> QED
    BY <2>1, <2>4, <2>5, <2>6 DEF Sound, SoundUser
<1>2. PICK again \in [Users -> SUBSET Polls] :
        st' = [u \in Users |-> Restarted(st[u], again[u])]
  BY DEF Restart
<1>3. st' \in [Users -> Sound]
  BY <1>1, <1>2 DEF IInv
<1>4. st' \in [Users -> UserStates]
  BY <1>3 DEF Sound
<1> QED
  BY <1>3, <1>4 DEF Restart, IInv, TypeOK

-----------------------------------------------------------------------------
(* Every user is sound in every reachable state.                           *)
THEOREM UsersStaySound == Spec => []IInv
<1>1. Init => IInv
  BY InitSound
<1>2. IInv /\ [Next]_vars => IInv'
  <2> SUFFICES ASSUME IInv, [Next]_vars
               PROVE  IInv'
    OBVIOUS
  <2>1. ASSUME NEW u \in Users, NEW text \in Messages,
               DispatchMessage(u, text)
        PROVE  IInv'
    BY <2>1, DispatchMessageSound
  <2>2. ASSUME NEW u \in Users, NEW p \in Polls, DispatchPollAnswer(u, p)
        PROVE  IInv'
    BY <2>2, DispatchPollAnswerSound
  <2>3. ASSUME NEW u \in Users, NEW p \in Polls,
               \/ Close(u, p)
               \/ Confirm(u, p)
               \/ \E given \in Spellings : Pick(u, p, given)
        PROVE  IInv'
    BY <2>3, TelegramSound
  <2>4. ASSUME NEW u \in Users, TimerFires(u)
        PROVE  IInv'
    BY <2>4, TimerFiresSound
  <2>5. CASE WatchTimeouts
    BY <2>5, WatchTimeoutsSound
  <2>6. CASE TimedOut
    BY <2>6, TimedOutSound
  <2>7. CASE Restart
    BY <2>7, RestartSound
  <2>8. CASE UNCHANGED vars
    BY <2>8 DEF vars, IInv, TypeOK
  <2> QED
    BY <2>1, <2>2, <2>3, <2>4, <2>5, <2>6, <2>7, <2>8 DEF Next
<1> QED
  BY <1>1, <1>2, PTL DEF Spec

(* The state keeps its type, whatever fails.                               *)
THEOREM TypeCorrect == Spec => []TypeOK
<1>1. IInv => TypeOK
  BY DEF IInv
<1> QED
  BY <1>1, UsersStaySound, PTL

(* A question is open, and its clock runs, only inside a run: leaving the  *)
(* run closes it before anything can fail (PracticeMenu, quizzes.forget).  *)
THEOREM QuizOnlyInRunHolds == Spec => []QuizOnlyInRun
<1>1. IInv => QuizOnlyInRun
  BY DEF IInv, Sound, SoundUser, QuizOnlyInRun
<1> QED
  BY <1>1, UsersStaySound, PTL

(* The current word is among the words asked, so that it is never drawn    *)
(* while it is open (Session.Ask, Session.Answer).                         *)
THEOREM CurrentWordAskedHolds == Spec => []CurrentWordAsked
<1>1. IInv => CurrentWordAsked
  BY DEF IInv, Sound, SoundUser, CurrentWordAsked
<1> QED
  BY <1>1, UsersStaySound, PTL

(* The tally adds up and no word is counted right twice (Session.Answer,   *)
(* Service.draw, Sessions.Reset).                                          *)
THEOREM TallyAddsUpHolds == Spec => []TallyAddsUp
<1>1. IInv => TallyAddsUp
  BY DEF IInv, Sound, SoundUser, TallyAddsUp
<1> QED
  BY <1>1, UsersStaySound, PTL

(* The missed words named in the results are of this run (takeMissed,      *)
(* rememberMissed).                                                        *)
THEOREM MissesBelongToRunHolds == Spec => []MissesBelongToRun
<1>1. IInv => MissesBelongToRun
  BY DEF IInv, Sound, SoundUser, MissesBelongToRun
<1> QED
  BY <1>1, UsersStaySound, PTL

-----------------------------------------------------------------------------
(* While nothing fails.                                                    *)

(* A user in a run has the finish button and is within its bounds; one who *)
(* is about to start it has answers to come; outside of a run no misses    *)
(* are counted.                                                            *)
Steady(s) ==
    /\ s.stage = "game" => /\ s.kb = "finish"
                           /\ s.answered < s.size
                           /\ s.misses < MissesBeforeStopping
    /\ s.stage = "practice_readiness" => s.answered < s.size
    /\ s.stage # "game" => s.misses = 0

AllSteady(outcomes) == \A o \in outcomes : o.ok /\ Steady(o.s)

LEMMA NothingFails ==
    ASSUME Faults = {}, NEW s, NEW at
    PROVE  DbFails(s, at) = {} /\ SendFails(s, at) = {}
BY DEF DbFails, SendFails

LEMMA DoneSteady ==
    ASSUME NEW s, Steady(s)
    PROVE  AllSteady(Done(s))
BY DEF Done, AllSteady

(* What Steady speaks of, in two states that agree on it.                  *)
LEMMA SameSteady ==
    ASSUME NEW s, NEW t, Steady(s),
           t.stage = s.stage, t.kb = s.kb, t.answered = s.answered,
           t.size = s.size, t.misses = s.misses
    PROVE  Steady(t)
BY DEF Steady

LEMMA EnterSteady ==
    ASSUME Faults = {}, NEW s \in UserStates, s.misses = 0, NEW kb \in Keyboards,
           NEW stage \in Stages \ {"game", "practice_readiness"}
    PROVE  AllSteady(Enter(s, stage, kb))
<1> DEFINE t == Show(MoveTo(s, stage), kb)
<1>1. t.stage = stage /\ t.misses = 0
  BY DEF Show, MoveTo, UserStates
<1>2. Steady(t)
  BY <1>1 DEF Steady
<1> QED
  BY <1>2, DoneSteady, NothingFails DEF Enter

LEMMA PracticeMenuSteady ==
    ASSUME Faults = {}, NEW s \in Sound
    PROVE  AllSteady(PracticeMenu(s))
<1> DEFINE f == Forget(s)
           m == TakeMissed(f)
           r == ResetRun(m)
<1>1. f \in Sound /\ m \in Sound /\ m.missed = {} /\ r \in Sound
  BY ForgetSound, TakeMissedSound, ResetRunSound
<1>2. f.misses = 0
  BY DEF Forget, Sound, UserStates
<1>3. m.misses = 0
  BY <1>1, <1>2 DEF TakeMissed, Sound, UserStates
<1>4. r.misses = 0 /\ r \in UserStates
  BY <1>1, <1>3 DEF ResetRun, Sound, UserStates
<1>5. "practice_menu" \in Stages /\ "sizes" \in Keyboards
  BY DEF Stages, Keyboards
<1>6. AllSteady(Enter(r, "practice_menu", "sizes"))
  BY <1>4, <1>5, EnterSteady
<1> QED
  BY <1>6, NothingFails DEF PracticeMenu, Abandon

(* Every way out of a run leads through the menu.                          *)
LEMMA EndsSteady ==
    ASSUME Faults = {}, NEW s \in Sound
    PROVE  AllSteady(EndRun(s)) /\ AllSteady(CompleteRun(s))
<1>1. TakeMissed(s) \in Sound /\ "none" \in Keyboards
  BY TakeMissedSound DEF Keyboards
<1>2. Show(TakeMissed(s), "none") \in Sound
  BY <1>1, ShowSound
<1>3. ASSUME NEW t \in Sound PROVE AllSteady(Results(t))
  BY <1>1, <1>3, ShowSound, PracticeMenuSteady, NothingFails DEF Results
<1> QED
  BY <1>1, <1>2, <1>3, PracticeMenuSteady, NothingFails
  DEF EndRun, CompleteRun, Finish

LEMMA ChooseSizeSteady ==
    ASSUME Faults = {}, NEW s \in Sound, s.misses = 0, NEW size \in Sizes
    PROVE  AllSteady(ChooseSize(s, size))
<1> DEFINE begun == NewSession(TakeMissed(s), size)
           ready == Show(MoveTo(begun, "practice_readiness"), "readiness")
           told  == [ready EXCEPT !.tutorial = TRUE]
<1>1. TakeMissed(s) \in Sound /\ TakeMissed(s).missed = {}
      /\ TakeMissed(s).misses = 0
  BY TakeMissedSound DEF TakeMissed, Sound, UserStates
<1>2. begun \in UserStates
  BY <1>1, ResetRunSound DEF Sound
<1>3. begun.answered = 0 /\ begun.size = size /\ begun.misses = 0
  BY <1>1 DEF NewSession, ResetRun, Sound, UserStates
<1>4. /\ ready \in UserStates
      /\ ready.stage = "practice_readiness" /\ ready.answered = 0
      /\ ready.size = size /\ ready.misses = 0
  <2> HIDE DEF begun
  <2> QED
    BY <1>2, <1>3 DEF Show, MoveTo, UserStates, Stages, Keyboards
<1>5. /\ told.stage = "practice_readiness" /\ told.answered = 0
      /\ told.size = size /\ told.misses = 0
  <2> HIDE DEF ready
  <2> QED
    BY <1>4 DEF UserStates
<1>6. size > 0
  BY PracticeAssumption
<1>7. Steady(ready) /\ Steady(told)
  BY <1>4, <1>5, <1>6 DEF Steady
<1> QED
  BY <1>7, DoneSteady, NothingFails DEF ChooseSize, Begin, AllSteady

-----------------------------------------------------------------------------
(* The run, while nothing fails.                                           *)

LEMMA SendQuizSteady ==
    ASSUME Faults = {}, NEW s \in UserStates, Steady(s), NEW word,
           NEW poll \in Polls \cup {NoPoll}
    PROVE  AllSteady(SendQuiz(s, word, poll))
<1>1. CASE poll = NoPoll
  BY <1>1 DEF SendQuiz, AllSteady
<1>2. CASE poll # NoPoll
  <2> DEFINE shown == [s EXCEPT !.polls[poll] =
                           [phase |-> "open", text |-> word]]
             put   == Put(shown, poll, word)
  <2>1. /\ put.stage = s.stage /\ put.kb = s.kb /\ put.answered = s.answered
        /\ put.size = s.size /\ put.misses = s.misses
    BY DEF Put, UserStates
  <2>2. Steady(put)
    BY <2>1, SameSteady
  <2> QED
    BY <1>2, <2>2, DoneSteady, NothingFails DEF SendQuiz
<1> QED
  BY <1>1, <1>2

LEMMA AskSteady ==
    ASSUME Faults = {}, NEW s \in Sound, Steady(s),
           NEW poll \in Polls \cup {NoPoll}
    PROVE  AllSteady(Ask(s, poll))
<1>1. CASE ~HasSession(s)
  BY <1>1, NothingFails, PracticeMenuSteady DEF Ask
<1>2. CASE HasSession(s) /\ Question(s) = {}
  <2>1. Show(s, "none") \in Sound
    BY ShowSound DEF Keyboards
  <2> QED
    BY <1>2, <2>1, NothingFails, EndsSteady DEF Ask
<1>3. CASE HasSession(s) /\ Question(s) # {}
  <2>1. ASSUME NEW q \in Question(s) PROVE AllSteady(SendQuiz(q, q.word, poll))
    <3>1. PICK w \in Draws(s) : q = SessionAsk(s, w)
      BY DEF Question
    <3>2. q \in UserStates /\ s \in UserStates
      BY <3>1, SessionAskSound DEF Sound
    <3>3. /\ q.stage = s.stage /\ q.kb = s.kb /\ q.answered = s.answered
          /\ q.size = s.size /\ q.misses = s.misses
      BY <3>1, <3>2 DEF SessionAsk, UserStates
    <3>4. Steady(q)
      BY <3>3, SameSteady
    <3> QED
      BY <3>2, <3>4, SendQuizSteady
  <2>2. Ask(s, poll) = UNION {SendQuiz(q, q.word, poll) : q \in Question(s)}
    BY <1>3, NothingFails DEF Ask
  <2> QED
    BY <2>1, <2>2 DEF AllSteady
<1> QED
  BY <1>1, <1>2, <1>3

(* The first question of a run comes with its keyboard.                    *)
LEMMA StartRunSteady ==
    ASSUME Faults = {}, NEW s \in Sound, Steady(s),
           s.stage = "practice_readiness", NEW poll \in Polls \cup {NoPoll}
    PROVE  AllSteady(StartRun(s, poll))
<1> DEFINE shown == Show(MoveTo(s, "game"), "finish")
<1>1. MoveTo(s, "game") \in Sound /\ "finish" \in Keyboards
  BY MoveToSound DEF Stages, Keyboards
<1>2. shown \in Sound
  BY <1>1, ShowSound
<1>3. /\ shown.stage = "game" /\ shown.kb = "finish"
      /\ shown.answered = s.answered /\ shown.size = s.size
      /\ shown.misses = s.misses
  BY DEF Show, MoveTo, Sound, UserStates
<1>4. Steady(shown)
  BY <1>3 DEF Steady, MissesBeforeStopping
<1> QED
  BY <1>2, <1>4, AskSteady, NothingFails DEF StartRun

(* An answer that does not end the run leaves answers to come.             *)
LEMMA GradeSteady ==
    ASSUME Faults = {}, NEW s \in Sound, Steady(s), s.stage = "game", NEW given,
           NEW poll \in Polls \cup {NoPoll}
    PROVE  AllSteady(Grade(s, given, poll))
<1> DEFINE correct  == given = s.word
           graded   == SessionAnswer(s, given)
           learned  == Remember(graded, s.word, correct)
           recorded == RememberMissed(learned, s.word, correct)
<1>1. CASE ~HasSession(s) \/ IsStale(s, given)
  BY <1>1, NothingFails, PracticeMenuSteady, DoneSteady DEF Grade
<1>2. CASE HasSession(s) /\ ~IsStale(s, given)
  <2>1. s.word # NoWord /\ s.word \in Catalog /\ s \in UserStates
    BY <1>2 DEF IsStale, Sound, UserStates
  <2>2. /\ graded \in Sound /\ graded.stage = "game"
        /\ ~correct => Cardinality(graded.missed) < graded.wrong
    BY <2>1, SessionAnswerSound
  <2>3. graded.kb = s.kb /\ graded.misses = s.misses
    BY <2>1 DEF SessionAnswer, UserStates
  <2>4. recorded \in Sound /\ recorded.stage = "game"
    <3>1. correct \in BOOLEAN
      OBVIOUS
    <3> QED
      BY <2>1, <2>2, <3>1, RecordSound
  <2>5. recorded.kb = s.kb /\ recorded.misses = s.misses
    <3> HIDE DEF graded, correct
    <3>1. graded \in UserStates
      BY <2>2 DEF Sound
    <3>2. learned.kb = s.kb /\ learned.misses = s.misses
      BY <2>3, <3>1 DEF Remember, LearnedAdd, LearnedRemove, UserStates
    <3>3. learned \in UserStates
      BY <2>1, <3>1 DEF Remember, LearnedAdd, LearnedRemove, UserStates
    <3> HIDE DEF learned
    <3> QED
      BY <3>2, <3>3 DEF RememberMissed, UserStates
  <2>6. CASE Complete(recorded)
    BY <1>2, <2>4, <2>6, EndsSteady, NothingFails DEF Grade
  <2>7. CASE ~Complete(recorded)
    <3>1. recorded.answered < recorded.size
      <4> HIDE DEF recorded
      <4>1. recorded.answered \in Nat /\ recorded.size \in Sizes \cup {0}
        BY <2>4 DEF Sound, UserStates
      <4>2. recorded.size \in Nat
        <5>1. \A n \in Sizes \cup {0} : n \in Nat
          BY PracticeAssumption
        <5> QED
          BY <4>1, <5>1
      <4> QED
        BY <2>7, <4>1, <4>2 DEF Complete
    <3>2. Steady(recorded)
      BY <2>4, <2>5, <3>1 DEF Steady
    <3>3. AllSteady(Ask(recorded, poll))
      <4> HIDE DEF recorded
      <4> QED
        BY <2>4, <3>2, AskSteady
    <3>4. DbFails(s, s.stage) = {} /\ DbFails(graded, s.stage) = {}
      BY NothingFails
    <3>5. Grade(s, given, poll) = Ask(recorded, poll)
      BY <1>2, <2>7, <3>4 DEF Grade
    <3> QED
      BY <3>3, <3>5
  <2> QED
    BY <2>6, <2>7
<1> QED
  BY <1>1, <1>2

LEMMA RunHandlersSteady ==
    ASSUME Faults = {}, NEW s \in Sound, Steady(s), s.stage = "game",
           NEW answered, NEW given, NEW poll \in Polls \cup {NoPoll}
    PROVE  /\ AllSteady(Answer(s, answered, given, poll))
           /\ AllSteady(Timeout(s, answered, poll))
<1> DEFINE t == Take(s)
           c == ClearMisses(t)
           m == CountMiss(t)
<1>1. t \in Sound /\ t.stage = "game"
  BY TakeSound
<1>2. /\ c \in Sound /\ c.stage = "game"
      /\ m \in Sound /\ m.stage = "game"
  BY <1>1, MissesSound
<1>3. t.kb = s.kb /\ t.answered = s.answered /\ t.size = s.size
  BY DEF Take, Sound, UserStates
<1>4. /\ c.kb = s.kb /\ c.answered = s.answered /\ c.size = s.size
      /\ c.misses = 0
      /\ m.kb = s.kb /\ m.answered = s.answered /\ m.size = s.size
  <2> HIDE DEF t
  <2> QED
    BY <1>1, <1>3 DEF ClearMisses, CountMiss, Sound, UserStates
<1>5. Steady(c)
  BY <1>2, <1>4 DEF Steady, MissesBeforeStopping
<1>6. m.misses < MissesBeforeStopping => Steady(m)
  BY <1>2, <1>4 DEF Steady
<1>7. AllSteady(Answer(s, answered, given, poll))
  BY <1>2, <1>5, GradeSteady, AskSteady DEF Answer
<1>8. AllSteady(Timeout(s, answered, poll))
  BY <1>2, <1>6, DoneSteady, AskSteady, EndsSteady DEF Timeout
<1> QED
  BY <1>7, <1>8

LEMMA HandleSteady ==
    ASSUME Faults = {}, NEW s \in Sound, Steady(s), NEW text,
           NEW poll \in Polls \cup {NoPoll}
    PROVE  AllSteady(Handle(s, Resolve(s.stage, text), text, poll))
<1> DEFINE route == Resolve(s.stage, text)
<1>1. /\ AllSteady(Done(s)) /\ AllSteady(Lookup(s)) /\ AllSteady(Download(s))
      /\ AllSteady(AdminCommand(s))
  BY DoneSteady, NothingFails DEF Lookup, Download, AdminCommand
<1>2. CASE s.stage = "game"
  <2>1. route \in {"admin", "practice.finish", "none"}
    BY <1>2 DEF Resolve
  <2>2. AllSteady(FinishRun(s))
    BY EndsSteady DEF FinishRun
  <2>3. Handle(s, route, text, poll) \in {AdminCommand(s), FinishRun(s), Done(s)}
    <3> HIDE DEF route
    <3> QED
      BY <2>1, Zenon DEF Handle
  <2> QED
    BY <1>1, <2>2, <2>3
<1>3. CASE s.stage # "game"
  <2>1. s.misses = 0 /\ s \in UserStates
    BY <1>3 DEF Steady, Sound
  <2>2. /\ AllSteady(Start(s)) /\ AllSteady(MainMenu(s))
        /\ AllSteady(WordsMenu(s)) /\ AllSteady(PracticeMenu(s))
    <3>1. /\ {"start", "main_menu", "words"} \subseteq Stages
          /\ {"faster", "main", "alphabet"} \subseteq Keyboards
      BY DEF Stages, Keyboards
    <3> QED
      BY <2>1, <3>1, EnterSteady, PracticeMenuSteady
      DEF Start, MainMenu, WordsMenu
  <2>3. AllSteady(SearchByLetters(s))
    <3> DEFINE t == Show(s, "alphabet")
    <3>1. /\ t.stage = s.stage /\ t.answered = s.answered
          /\ t.size = s.size /\ t.misses = s.misses
      BY <2>1 DEF Show, UserStates
    <3>2. Steady(t)
      BY <1>3, <3>1 DEF Steady
    <3> QED
      BY <3>2, DoneSteady, NothingFails DEF SearchByLetters
  <2>4. CASE route = "practice.size"
    <3>1. IsRunLength(text)
      BY <1>3, <2>4 DEF Resolve
    <3>2. PICK n \in Sizes : text = [size |-> n]
      BY <3>1 DEF IsRunLength
    <3>3. AllSteady(ChooseSize(s, text.size))
      BY <2>1, <3>2, ChooseSizeSteady
    <3> QED
      BY <2>4, <3>3 DEF Handle
  <2>5. CASE route = "practice.start"
    <3>1. s.stage = "practice_readiness"
      BY <1>3, <2>5 DEF Resolve
    <3> QED
      BY <2>5, <3>1, StartRunSteady DEF Handle
  <2>6. CASE route \notin {"practice.size", "practice.start"}
    <3>1. route \in {"start", "menu", "practice.menu", "words.letters",
                    "download", "words.menu", "words.lookup", "admin"}
      BY <1>3, <2>6 DEF Resolve
    <3>2. Handle(s, route, text, poll) \in
             {Start(s), MainMenu(s), PracticeMenu(s), SearchByLetters(s),
              Download(s), WordsMenu(s), Lookup(s), AdminCommand(s)}
      <4> HIDE DEF route
      <4> QED
        BY <3>1, Zenon DEF Handle
    <3> QED
      BY <1>1, <2>2, <2>3, <3>2
  <2> QED
    BY <2>4, <2>5, <2>6
<1> QED
  BY <1>2, <1>3

-----------------------------------------------------------------------------
EveryoneSteady == \A u \in Users : Steady(st[u])

LEMMA RunSteady ==
    ASSUME IInv, EveryoneSteady, NEW u \in Users, NEW outcomes,
           AllSteady(outcomes), Run(u, outcomes)
    PROVE  EveryoneSteady'
<1>1. PICK o \in outcomes : o.ok /\ Steady(o.s) /\ st' = [st EXCEPT ![u] = o.s]
  BY DEF Run, AllSteady
<1> QED
  BY <1>1 DEF IInv, TypeOK, EveryoneSteady

(* A step that leaves what Steady speaks of alone.                         *)
LEMMA OtherSteady ==
    ASSUME IInv, EveryoneSteady, NEW u \in Users, NEW t,
           st' = [st EXCEPT ![u] = t],
           t.stage = st[u].stage, t.kb = st[u].kb, t.size = st[u].size,
           t.answered = st[u].answered, t.misses = st[u].misses
    PROVE  EveryoneSteady'
<1>1. Steady(t)
  BY SameSteady DEF EveryoneSteady
<1> QED
  BY <1>1 DEF IInv, TypeOK, EveryoneSteady

LEMMA NextSteady ==
    ASSUME Faults = {}, IInv, EveryoneSteady, [Next]_vars
    PROVE  EveryoneSteady'
<1>1. ASSUME NEW u \in Users
      PROVE  /\ st[u] \in Sound /\ st[u] \in UserStates /\ Steady(st[u])
             /\ NextPoll(u) \in Polls \cup {NoPoll}
  BY NextPollType DEF IInv, TypeOK, EveryoneSteady
<1>2. ASSUME NEW u \in Users, NEW text \in Messages, DispatchMessage(u, text)
      PROVE  EveryoneSteady'
  <2> DEFINE outs == Handle(st[u], Resolve(st[u].stage, text), text, NextPoll(u))
  <2>1. Run(u, outs)
    BY <1>2 DEF DispatchMessage, Drop
  <2>2. AllSteady(outs)
    BY <1>1, HandleSteady
  <2> QED
    BY <2>1, <2>2, RunSteady
<1>3. ASSUME NEW u \in Users, NEW p \in Polls, DispatchPollAnswer(u, p)
      PROVE  EveryoneSteady'
  <2> DEFINE s     == Dispatched(st[u], p)
             given == st[u].polls[p].text
             outs  == IF s.stage # "game" THEN Done(s)
                      ELSE Answer(s, p, given, NextPoll(u))
  <2>1. Run(u, outs)
    BY <1>3 DEF DispatchPollAnswer, Drop
  <2>2. s = [st[u] EXCEPT !.polls[p] = Shut]
    BY DEF Dispatched
  <2>3. s \in Sound
    BY <1>1, <2>2, PollSound, ShutType
  <2>4. /\ s.stage = st[u].stage /\ s.kb = st[u].kb /\ s.size = st[u].size
        /\ s.answered = st[u].answered /\ s.misses = st[u].misses
    BY <1>1, <2>2 DEF UserStates
  <2>5. Steady(s)
    BY <1>1, <2>4, SameSteady
  <2>6. AllSteady(outs)
    <3> HIDE DEF s, given
    <3> QED
      BY <1>1, <2>3, <2>5, DoneSteady, RunHandlersSteady
  <2> QED
    BY <2>1, <2>6, RunSteady
<1>4. ASSUME NEW u \in Users, NEW p \in Polls,
             \/ Close(u, p)
             \/ Confirm(u, p)
             \/ \E given \in Spellings : Pick(u, p, given)
      PROVE  EveryoneSteady'
  <2>1. PICK v : st' = [st EXCEPT ![u].polls[p] = v]
    BY <1>4 DEF Close, Confirm, Pick
  <2> DEFINE t == [st[u] EXCEPT !.polls[p] = v]
  <2>2. st' = [st EXCEPT ![u] = t]
    BY <2>1
  <2>3. /\ t.stage = st[u].stage /\ t.kb = st[u].kb /\ t.size = st[u].size
        /\ t.answered = st[u].answered /\ t.misses = st[u].misses
    BY <1>1 DEF UserStates
  <2> QED
    BY <2>2, <2>3, OtherSteady
<1>5. ASSUME NEW u \in Users, TimerFires(u) PROVE EveryoneSteady'
  <2> DEFINE t == [st[u] EXCEPT !.quiz.armed = FALSE]
  <2>1. st' = [st EXCEPT ![u] = t]
    BY <1>5 DEF TimerFires
  <2>2. /\ t.stage = st[u].stage /\ t.kb = st[u].kb /\ t.size = st[u].size
        /\ t.answered = st[u].answered /\ t.misses = st[u].misses
    BY <1>1 DEF UserStates
  <2> QED
    BY <2>1, <2>2, OtherSteady
<1>6. CASE TimedOut
  <2> DEFINE u    == Head(held).user
             outs == IF st[u].stage # "game" THEN Done(st[u])
                     ELSE Timeout(st[u], Head(held).poll, NextPoll(u))
  <2>1. Run(u, outs)
    BY <1>6 DEF TimedOut, Drop
  <2>2. u \in Users
    <3>1. held \in Seq(Timeouts) /\ held # <<>>
      BY <1>6 DEF TimedOut, IInv, TypeOK
    <3>2. Head(held) \in Timeouts
      BY <3>1
    <3> QED
      BY <3>2 DEF Timeouts
  <2>3. AllSteady(outs)
    <3> HIDE DEF u
    <3> QED
      BY <1>1, <2>2, DoneSteady, RunHandlersSteady
  <2> QED
    BY <2>1, <2>2, <2>3, RunSteady
<1>7. CASE WatchTimeouts \/ Restart \/ UNCHANGED vars
  BY <1>7 DEF WatchTimeouts, Restart, vars, EveryoneSteady
<1> QED
  BY <1>2, <1>3, <1>4, <1>5, <1>6, <1>7 DEF Next

LEMMA InitSteady ==
    ASSUME LegacyRows = FALSE, Init
    PROVE  EveryoneSteady
BY DEF Init, NewUser, EveryoneSteady, Steady

(* While nothing fails and no row of the old bot is left, everyone is      *)
(* steady.                                                                 *)
THEOREM UsersStaySteady ==
    ASSUME Faults = {}, LegacyRows = FALSE
    PROVE  Spec => []EveryoneSteady
<1>1. Init => EveryoneSteady
  BY InitSteady
<1>2. IInv /\ EveryoneSteady /\ [Next]_vars => EveryoneSteady'
  BY NextSteady
<1> QED
  BY <1>1, <1>2, UsersStaySound, PTL DEF Spec

(* A run still open has answers to come and fewer misses in a row than     *)
(* call it off, as long as nothing fails (complete, endRun).               *)
THEOREM RunWithinBoundsHolds ==
    ASSUME Faults = {}, LegacyRows = FALSE
    PROVE  Spec => []RunWithinBounds
<1>1. EveryoneSteady => RunWithinBounds
  BY DEF EveryoneSteady, Steady, RunWithinBounds
<1> QED
  BY <1>1, UsersStaySteady, PTL

(* The finish button is on the screen for as long as a run lasts, as long  *)
(* as nothing fails (StartRun, keyboardForStage).                          *)
THEOREM RunKeyboardHolds ==
    ASSUME Faults = {}, LegacyRows = FALSE
    PROVE  Spec => []RunKeyboard
<1>1. EveryoneSteady => RunKeyboard
  BY DEF EveryoneSteady, Steady, RunKeyboard
<1> QED
  BY <1>1, UsersStaySteady, PTL

-----------------------------------------------------------------------------
(* What is graded, through faults.                                         *)

(* What became of the poll behind the open question is about its word.     *)
Shown(s) ==
    s.quiz # NoQuiz =>
        \/ s.polls[s.quiz.poll].phase = "shut"
        \/ Normalize(s.polls[s.quiz.poll].text) = Normalize(s.quiz.word)

(* No answer is graded on the way from s to t, and no word recorded.       *)
Ungraded(s, t) ==
    /\ t.answered \in {0, s.answered}
    /\ t.learned = s.learned
    /\ t.missed \subseteq s.missed

(* No word but this one is recorded.                                       *)
OnlyRecords(s, t, word) ==
    /\ t.learned \subseteq s.learned \cup {word}
    /\ s.learned \subseteq t.learned \cup {word}
    /\ t.missed \subseteq s.missed \cup {word}

(* The outcomes of a handler that grades nothing, and of one that grades   *)
(* an answer to this word.                                                 *)
Passing(s, outcomes) == \A o \in outcomes : Shown(o.s) /\ Ungraded(s, o.s)
Grading(s, outcomes, word) ==
    \A o \in outcomes : Shown(o.s) /\ OnlyRecords(s, o.s, word)

LEMMA UngradedTransitive ==
    ASSUME NEW s, NEW t, NEW v, Ungraded(s, t), Ungraded(t, v)
    PROVE  Ungraded(s, v)
BY DEF Ungraded

LEMMA PassingFrom ==
    ASSUME NEW s, NEW t, NEW outcomes, Ungraded(s, t), Passing(t, outcomes)
    PROVE  Passing(s, outcomes)
BY UngradedTransitive DEF Passing

LEMMA GradingFrom ==
    ASSUME NEW s, NEW t, NEW word, NEW outcomes, OnlyRecords(s, t, word),
           Passing(t, outcomes)
    PROVE  Grading(s, outcomes, word)
BY DEF Passing, Grading, OnlyRecords, Ungraded

(* Nothing graded, and the question and its poll left as they are.         *)
LEMMA SameShown ==
    ASSUME NEW s, NEW t, Shown(s), t.quiz = s.quiz, t.polls = s.polls,
           t.answered = s.answered, t.learned = s.learned, t.missed = s.missed
    PROVE  Shown(t) /\ Ungraded(s, t)
BY DEF Shown, Ungraded

LEMMA DonePassing ==
    ASSUME NEW s, Shown(s)
    PROVE  Passing(s, Done(s))
BY DEF Passing, Done, Ungraded

LEMMA FailsPassing ==
    ASSUME NEW s, NEW t, NEW v, Shown(t), Ungraded(s, t),
           Shown(v), Ungraded(s, v), NEW at
    PROVE  /\ Passing(s, Done(t))
           /\ Passing(s, DbFails(t, at))
           /\ Passing(s, SendFails(t, v))
BY DEF Passing, Done, Failed, DbFails, SendFails

LEMMA JoinPassing ==
    ASSUME NEW s, NEW a, NEW b, Passing(s, a), Passing(s, b)
    PROVE  Passing(s, a \cup b)
BY DEF Passing

LEMMA ShowPassing ==
    ASSUME NEW s \in UserStates, Shown(s), NEW kb
    PROVE  Shown(Show(s, kb)) /\ Ungraded(s, Show(s, kb))
<1> DEFINE t == Show(s, kb)
<1>1. /\ t.quiz = s.quiz /\ t.polls = s.polls /\ t.answered = s.answered
      /\ t.learned = s.learned /\ t.missed = s.missed
  BY DEF Show, UserStates
<1> QED
  BY <1>1, SameShown

LEMMA MoveToPassing ==
    ASSUME NEW s \in UserStates, Shown(s), NEW stage
    PROVE  Shown(MoveTo(s, stage)) /\ Ungraded(s, MoveTo(s, stage))
<1> DEFINE t == MoveTo(s, stage)
<1>1. /\ t.quiz = s.quiz /\ t.polls = s.polls /\ t.answered = s.answered
      /\ t.learned = s.learned /\ t.missed = s.missed
  BY DEF MoveTo, UserStates
<1> QED
  BY <1>1, SameShown

(* The session is reset, the missed words taken, the question closed.      *)
LEMMA QuietPassing ==
    ASSUME NEW s \in UserStates, Shown(s), NEW t,
           t \in {Forget(s), Take(s), ClearMisses(s), CountMiss(s),
                  ClearMisses(Take(s)), CountMiss(Take(s)),
                  TakeMissed(s), ResetRun(s)}
    PROVE  Shown(t) /\ Ungraded(s, t) /\ t.polls = s.polls
           /\ t.quiz \in {NoQuiz, s.quiz}
<1>1. /\ t.quiz \in {NoQuiz, s.quiz} /\ t.polls = s.polls
      /\ t.answered \in {0, s.answered} /\ t.learned = s.learned
      /\ t.missed \in {{}, s.missed}
  BY DEF Forget, Take, ClearMisses, CountMiss, TakeMissed, ResetRun, UserStates
<1> QED
  BY <1>1 DEF Shown, Ungraded

LEMMA EnterPassing ==
    ASSUME NEW s \in Sound, Shown(s), NEW stage \in Stages, NEW kb \in Keyboards,
           s.quiz # NoQuiz => stage = "game"
    PROVE  Passing(s, Enter(s, stage, kb))
<1> DEFINE moved == MoveTo(s, stage)
           shown == Show(moved, kb)
<1>1. s \in UserStates /\ moved \in UserStates
  BY MoveToSound DEF Sound
<1>2. Shown(moved) /\ Ungraded(s, moved)
  BY <1>1, MoveToPassing
<1>3. Shown(shown) /\ Ungraded(s, shown)
  BY <1>1, <1>2, ShowPassing, UngradedTransitive
<1>4. Ungraded(s, s)
  BY DEF Ungraded
<1>5. /\ Passing(s, Done(shown)) /\ Passing(s, DbFails(s, stage))
      /\ Passing(s, SendFails(moved, shown))
  BY <1>2, <1>3, <1>4, FailsPassing
<1> QED
  BY <1>5 DEF Enter, Passing

LEMMA RepliesPassing ==
    ASSUME NEW s \in Sound, Shown(s)
    PROVE  /\ Passing(s, SearchByLetters(s))
           /\ Passing(s, Lookup(s))
           /\ Passing(s, Download(s))
           /\ Passing(s, AdminCommand(s))
<1>1. s \in UserStates /\ Ungraded(s, s)
  BY DEF Sound, Ungraded
<1>2. Shown(Show(s, "alphabet")) /\ Ungraded(s, Show(s, "alphabet"))
  BY <1>1, ShowPassing
<1>3. /\ Passing(s, Done(s)) /\ Passing(s, SendFails(s, s))
      /\ Passing(s, DbFails(s, s.stage))
  BY <1>1, FailsPassing
<1>4. /\ Passing(s, Done(Show(s, "alphabet")))
      /\ Passing(s, SendFails(s, Show(s, "alphabet")))
  BY <1>1, <1>2, FailsPassing
<1> QED
  BY <1>3, <1>4
  DEF SearchByLetters, Lookup, Download, AdminCommand, Passing

LEMMA PracticeMenuPassing ==
    ASSUME NEW s \in Sound, Shown(s)
    PROVE  Passing(s, PracticeMenu(s))
<1> DEFINE f     == Forget(s)
           quiet == TakeMissed(f)
           reset == ResetRun(quiet)
<1>1. /\ f \in Sound /\ f.quiz = NoQuiz
      /\ quiet \in Sound /\ quiet.quiz = NoQuiz /\ quiet.missed = {}
      /\ reset \in Sound /\ reset.quiz = NoQuiz
  BY ForgetSound, TakeMissedSound, ResetRunSound
<1>2. s \in UserStates /\ f \in UserStates /\ quiet \in UserStates
  BY <1>1 DEF Sound
<1>3. Shown(f) /\ Ungraded(s, f)
  BY <1>2, QuietPassing
<1>4. Shown(quiet) /\ Ungraded(s, quiet)
  BY <1>2, <1>3, QuietPassing, UngradedTransitive
<1>5. Shown(reset) /\ Ungraded(s, reset)
  BY <1>2, <1>4, QuietPassing, UngradedTransitive
<1>6. Passing(s, DbFails(quiet, s.stage))
  BY <1>4, FailsPassing
<1>7. Passing(s, Enter(reset, "practice_menu", "sizes"))
  <2>1. "practice_menu" \in Stages /\ "sizes" \in Keyboards
    BY DEF Stages, Keyboards
  <2> QED
    BY <1>1, <1>5, <2>1, EnterPassing, PassingFrom
<1> QED
  BY <1>6, <1>7 DEF PracticeMenu, Abandon, Passing

LEMMA ChooseSizePassing ==
    ASSUME NEW s \in Sound, Shown(s), s.quiz = NoQuiz, NEW size \in Sizes
    PROVE  Passing(s, ChooseSize(s, size))
<1> DEFINE reset  == ResetRun(s)
           emptied == TakeMissed(reset)
           taken  == TakeMissed(s)
           begun  == NewSession(taken, size)
           moved  == MoveTo(begun, "practice_readiness")
           ready  == Show(moved, "readiness")
           taught == Show(moved, "none")
           told   == [ready EXCEPT !.tutorial = TRUE]
<1>1. /\ s \in UserStates /\ taken \in Sound /\ taken.missed = {}
      /\ taken \in UserStates
  BY TakeMissedSound DEF Sound
<1>2. begun \in Sound /\ begun \in UserStates /\ ResetRun(taken) \in UserStates
  BY <1>1, ResetRunSound DEF Sound
<1>3. begun.quiz = NoQuiz
  BY <1>1, TakeMissedSound, ResetRunSound
<1>4. moved \in UserStates /\ reset \in UserStates
  BY <1>1, <1>2, <1>3, MoveToSound DEF Sound, Stages, ResetRun, UserStates
<1>5. Shown(emptied) /\ Ungraded(s, emptied) /\ Ungraded(s, s)
  BY <1>1, <1>4, QuietPassing, UngradedTransitive DEF Ungraded
<1>6. Shown(ResetRun(taken)) /\ Ungraded(s, ResetRun(taken))
  BY <1>1, QuietPassing, UngradedTransitive
<1>7. Shown(begun) /\ Ungraded(s, begun)
  <2>1. /\ begun.quiz = ResetRun(taken).quiz
        /\ begun.polls = ResetRun(taken).polls
        /\ begun.answered = ResetRun(taken).answered
        /\ begun.learned = ResetRun(taken).learned
        /\ begun.missed = ResetRun(taken).missed
    BY <1>2 DEF NewSession, UserStates
  <2> QED
    BY <1>6, <2>1, SameShown, UngradedTransitive
<1>8. Shown(moved) /\ Ungraded(s, moved)
  BY <1>2, <1>7, MoveToPassing, UngradedTransitive
<1>9. /\ Shown(ready) /\ Ungraded(s, ready)
      /\ Shown(taught) /\ Ungraded(s, taught)
  BY <1>4, <1>8, ShowPassing, UngradedTransitive
<1>10. Shown(told) /\ Ungraded(s, told)
  <2>1. ready \in UserStates
    BY <1>4 DEF Show, Keyboards, UserStates
  <2>2. /\ told.quiz = ready.quiz /\ told.polls = ready.polls
        /\ told.answered = ready.answered /\ told.learned = ready.learned
        /\ told.missed = ready.missed
    BY <2>1 DEF UserStates
  <2>3. Shown(told) /\ Ungraded(ready, told)
    <3> HIDE DEF told, ready
    <3> QED
      BY <1>9, <2>2, SameShown
  <2> QED
    BY <1>9, <2>3, UngradedTransitive
<1>11. /\ Passing(s, DbFails(s, s.stage))
       /\ Passing(s, DbFails(emptied, s.stage))
       /\ Passing(s, DbFails(begun, "practice_readiness"))
       /\ Passing(s, Done(ready)) /\ Passing(s, SendFails(moved, ready))
  BY <1>5, <1>7, <1>8, <1>9, FailsPassing
<1>12. /\ Passing(s, SendFails(moved, taught))
       /\ Passing(s, SendFails(taught, ready))
       /\ Passing(s, DbFails(ready, "practice_readiness"))
       /\ Passing(s, Done(told))
  BY <1>8, <1>9, <1>10, FailsPassing
<1> QED
  BY <1>11, <1>12 DEF ChooseSize, Begin, Passing

-----------------------------------------------------------------------------
LEMMA EndsPassing ==
    ASSUME NEW s \in Sound, Shown(s)
    PROVE  Passing(s, EndRun(s)) /\ Passing(s, CompleteRun(s))
<1> DEFINE told   == TakeMissed(s)
           shown  == Show(told, "none")
<1>1. /\ s \in UserStates /\ Ungraded(s, s) /\ "none" \in Keyboards
      /\ told \in Sound /\ told \in UserStates
      /\ shown \in Sound
  BY TakeMissedSound, ShowSound DEF Sound, Keyboards, Ungraded
<1>2. Shown(told) /\ Ungraded(s, told)
  BY <1>1, QuietPassing
<1>3. Shown(shown) /\ Ungraded(s, shown)
  BY <1>1, <1>2, ShowPassing, UngradedTransitive
<1>4. ASSUME NEW t \in Sound, Shown(t) PROVE Passing(t, Results(t))
  <2>1. t \in UserStates /\ Show(t, "none") \in Sound /\ Ungraded(t, t)
    BY <1>1, ShowSound DEF Sound, Ungraded
  <2>2. Shown(Show(t, "none")) /\ Ungraded(t, Show(t, "none"))
    BY <1>4, <2>1, ShowPassing
  <2>3. Passing(t, SendFails(t, Show(t, "none")))
    BY <1>4, <2>1, <2>2, FailsPassing
  <2>4. Passing(t, PracticeMenu(Show(t, "none")))
    BY <2>1, <2>2, PracticeMenuPassing, PassingFrom
  <2> QED
    BY <2>3, <2>4 DEF Results, Passing
<1>5. Passing(s, DbFails(s, s.stage)) /\ Passing(s, SendFails(told, shown))
  BY <1>1, <1>2, <1>3, FailsPassing
<1>6. Passing(s, Results(told)) /\ Passing(s, Results(shown))
  BY <1>1, <1>2, <1>3, <1>4, PassingFrom
<1>7. Passing(s, PracticeMenu(s))
  BY PracticeMenuPassing
<1> QED
  BY <1>5, <1>6, <1>7 DEF EndRun, CompleteRun, Finish, Passing

(* A quiz is put up on a slot the open question is not behind: whether it  *)
(* is registered or not, the open question and its poll stay together.     *)
LEMMA SendQuizPassing ==
    ASSUME NEW s \in UserStates, Shown(s), NEW word,
           NEW poll \in Polls \cup {NoPoll}, ~IsOpen(s, poll)
    PROVE  Passing(s, SendQuiz(s, word, poll))
<1>1. CASE poll = NoPoll
  BY <1>1 DEF SendQuiz, Passing
<1>2. CASE poll # NoPoll
  <2> DEFINE v     == [phase |-> "open", text |-> word]
             shown == [s EXCEPT !.polls[poll] = v]
             put   == Put(shown, poll, word)
  <2>1. /\ poll \in Polls
        /\ s.polls \in [Polls -> PollStates]
        /\ s.quiz # NoQuiz => s.quiz.poll \in Polls /\ s.quiz.poll # poll
    BY <1>2 DEF UserStates, Quizzes, IsOpen
  <2>2. /\ shown.quiz = s.quiz /\ shown.polls = [s.polls EXCEPT ![poll] = v]
        /\ shown.answered = s.answered /\ shown.learned = s.learned
        /\ shown.missed = s.missed
    BY DEF UserStates
  <2>3. Shown(shown) /\ Ungraded(s, shown)
    BY <2>1, <2>2 DEF Shown, Ungraded
  <2>4. /\ put.quiz.poll = poll /\ put.quiz.word = word
        /\ put.polls = shown.polls
        /\ put.answered = s.answered /\ put.learned = s.learned
        /\ put.missed = s.missed
    BY DEF Put, UserStates
  <2>5. put.polls[poll].text = word
    BY <2>1, <2>2, <2>4
  <2>6. Shown(put) /\ Ungraded(s, put)
    <3> HIDE DEF put, shown
    <3> QED
      BY <2>4, <2>5 DEF Shown, Ungraded
  <2>7. Passing(s, Done(put)) /\ Passing(s, SendFails(s, shown))
    <3>1. Ungraded(s, s)
      BY DEF Ungraded
    <3> HIDE DEF put, shown
    <3> QED
      BY <2>3, <2>6, <3>1, FailsPassing
  <2> QED
    BY <1>2, <2>7 DEF SendQuiz, Passing
<1> QED
  BY <1>1, <1>2

LEMMA AskPassing ==
    ASSUME NEW s \in Sound, Shown(s), NEW poll \in Polls \cup {NoPoll},
           ~IsOpen(s, poll)
    PROVE  Passing(s, Ask(s, poll))
<1>1. s \in UserStates /\ Ungraded(s, s)
  BY DEF Sound, Ungraded
<1>2. Passing(s, DbFails(s, s.stage)) /\ Passing(s, PracticeMenu(s))
  BY <1>1, FailsPassing, PracticeMenuPassing
<1>3. /\ Passing(s, SendFails(s, Show(s, "none")))
      /\ Passing(s, EndRun(Show(s, "none")))
  <2>1. Show(s, "none") \in Sound
    BY ShowSound DEF Keyboards
  <2>2. Shown(Show(s, "none")) /\ Ungraded(s, Show(s, "none"))
    BY <1>1, ShowPassing
  <2> QED
    BY <1>1, <2>1, <2>2, FailsPassing, EndsPassing, PassingFrom
<1>4. ASSUME NEW q \in Question(s) PROVE Passing(s, SendQuiz(q, q.word, poll))
  <2>1. PICK w \in Draws(s) : q = SessionAsk(s, w)
    BY DEF Question
  <2>2. q \in UserStates
    BY <2>1, SessionAskSound DEF Sound
  <2>3. /\ q.quiz = s.quiz /\ q.polls = s.polls /\ q.answered = s.answered
        /\ q.learned = s.learned /\ q.missed = s.missed
    BY <1>1, <2>1 DEF SessionAsk, UserStates
  <2>4. Shown(q) /\ Ungraded(s, q) /\ ~IsOpen(q, poll)
    BY <2>3, SameShown DEF IsOpen
  <2> QED
    BY <2>2, <2>4, SendQuizPassing, PassingFrom
<1>5. Passing(s, UNION {SendQuiz(q, q.word, poll) : q \in Question(s)})
  BY <1>4 DEF Passing
<1>6. CASE ~HasSession(s)
  BY <1>2, <1>6 DEF Ask, Passing
<1>7. CASE HasSession(s) /\ Question(s) = {}
  BY <1>2, <1>3, <1>7 DEF Ask, Passing
<1>8. CASE HasSession(s) /\ Question(s) # {}
  <2>1. Ask(s, poll) = DbFails(s, s.stage)
              \cup UNION {SendQuiz(q, q.word, poll) : q \in Question(s)}
    BY <1>8 DEF Ask
  <2> QED
    BY <1>2, <1>5, <2>1, JoinPassing
<1> QED
  BY <1>6, <1>7, <1>8

LEMMA StartRunPassing ==
    ASSUME NEW s \in Sound, Shown(s), NEW poll \in Polls \cup {NoPoll},
           ~IsOpen(s, poll)
    PROVE  Passing(s, StartRun(s, poll))
<1> DEFINE moved == MoveTo(s, "game")
           shown == Show(moved, "finish")
<1>1. /\ s \in UserStates /\ Ungraded(s, s)
      /\ moved \in Sound /\ moved \in UserStates /\ shown \in Sound
  BY MoveToSound, ShowSound DEF Sound, Ungraded, Stages, Keyboards
<1>2. Shown(moved) /\ Ungraded(s, moved)
  BY <1>1, MoveToPassing
<1>3. Shown(shown) /\ Ungraded(s, shown)
  BY <1>1, <1>2, ShowPassing, UngradedTransitive
<1>4. ~IsOpen(shown, poll)
  BY <1>1 DEF IsOpen, Show, MoveTo, UserStates
<1>5. /\ Passing(s, DbFails(s, "game"))
      /\ Passing(s, SendFails(moved, shown))
  BY <1>1, <1>2, <1>3, FailsPassing
<1>6. Passing(s, Ask(shown, poll))
  BY <1>1, <1>3, <1>4, AskPassing, PassingFrom
<1> QED
  BY <1>5, <1>6 DEF StartRun, Passing

(* Whoever grades an answer records the current word and no other; an      *)
(* answer that does not spell it is not graded.                            *)
LEMMA GradePassing ==
    ASSUME NEW s \in Sound, Shown(s), s.stage = "game", NEW given,
           NEW poll \in Polls \cup {NoPoll}, ~IsOpen(s, poll)
    PROVE  \/ Passing(s, Grade(s, given, poll))
           \/ /\ s.word \in Catalog
              /\ Normalize(given) = Normalize(s.word)
              /\ Grading(s, Grade(s, given, poll), s.word)
<1> DEFINE correct  == given = s.word
           graded   == SessionAnswer(s, given)
           learned  == Remember(graded, s.word, correct)
           recorded == RememberMissed(learned, s.word, correct)
<1>1. s \in UserStates /\ Ungraded(s, s)
  BY DEF Sound, Ungraded
<1>2. Passing(s, DbFails(s, s.stage)) /\ Passing(s, Done(s))
  BY <1>1, FailsPassing
<1>3. CASE ~HasSession(s)
  BY <1>2, <1>3, PracticeMenuPassing DEF Grade, Passing
<1>4. CASE HasSession(s) /\ IsStale(s, given)
  BY <1>2, <1>4 DEF Grade, Passing
<1>5. CASE HasSession(s) /\ ~IsStale(s, given)
  <2>1. /\ s.word # NoWord /\ s.word \in Catalog
        /\ Normalize(given) = Normalize(s.word)
    BY <1>1, <1>5 DEF IsStale, UserStates
  <2>2. /\ graded \in Sound /\ graded.stage = "game"
        /\ ~correct => Cardinality(graded.missed) < graded.wrong
    BY <2>1, SessionAnswerSound
  <2>3. /\ graded.quiz = s.quiz /\ graded.polls = s.polls
        /\ graded.learned = s.learned /\ graded.missed = s.missed
    BY <1>1 DEF SessionAnswer, UserStates
  <2>4. recorded \in Sound /\ recorded.stage = "game"
    <3>1. correct \in BOOLEAN
      OBVIOUS
    <3> QED
      BY <2>1, <2>2, <3>1, RecordSound
  <2>5. /\ learned \in UserStates
        /\ learned.quiz = s.quiz /\ learned.polls = s.polls
        /\ learned.learned \in {s.learned \cup {s.word}, s.learned \ {s.word}}
        /\ learned.missed = s.missed
    <3> HIDE DEF graded, correct
    <3>1. graded \in UserStates
      BY <2>2 DEF Sound
    <3> QED
      BY <2>1, <2>3, <3>1 DEF Remember, LearnedAdd, LearnedRemove, UserStates
  <2>6. /\ recorded.quiz = s.quiz /\ recorded.polls = s.polls
        /\ recorded.learned = learned.learned
        /\ recorded.missed \in {s.missed, s.missed \cup {s.word}}
    <3> HIDE DEF learned, correct
    <3> QED
      BY <2>5 DEF RememberMissed, UserStates
  <2> HIDE DEF graded, learned, recorded, correct
  <2>7. Shown(graded) /\ Shown(recorded) /\ ~IsOpen(recorded, poll)
    BY <2>3, <2>6 DEF Shown, IsOpen
  <2>8. /\ OnlyRecords(s, s, s.word) /\ OnlyRecords(s, graded, s.word)
        /\ OnlyRecords(s, recorded, s.word)
    BY <2>3, <2>5, <2>6 DEF OnlyRecords
  <2>9. /\ Grading(s, DbFails(s, s.stage), s.word)
        /\ Grading(s, DbFails(graded, s.stage), s.word)
    BY <1>2, <2>7, <2>8 DEF Grading, DbFails, Failed
  <2>10. /\ Grading(s, CompleteRun(recorded), s.word)
         /\ Grading(s, Ask(recorded, poll), s.word)
    BY <2>4, <2>7, <2>8, EndsPassing, AskPassing, GradingFrom
  <2>11. Grade(s, given, poll) \subseteq
            DbFails(s, s.stage) \cup DbFails(graded, s.stage)
              \cup CompleteRun(recorded) \cup Ask(recorded, poll)
    BY <1>5 DEF Grade, graded, learned, recorded, correct
  <2>12. Grading(s, Grade(s, given, poll), s.word)
    BY <2>9, <2>10, <2>11 DEF Grading
  <2> QED
    BY <2>1, <2>12
<1> QED
  BY <1>3, <1>4, <1>5

(* A pick from the open poll is an answer to the open question; where a    *)
(* plain word is listed once, that is the current word if it spells it.    *)
LEMMA AnswerPassing ==
    ASSUME NEW s \in Sound, Shown(s), s.stage = "game",
           NEW answered \in Polls, NEW given,
           NEW poll \in Polls \cup {NoPoll}, ~IsOpen(s, poll),
           IsOpen(s, answered) => Normalize(given) = Normalize(s.quiz.word)
    PROVE  \/ Passing(s, Answer(s, answered, given, poll))
           \/ /\ IsOpen(s, answered) /\ s.word \in Catalog
              /\ Normalize(s.quiz.word) = Normalize(s.word)
              /\ Grading(s, Answer(s, answered, given, poll), s.word)
<1> DEFINE t == ClearMisses(Take(s))
<1>1. CASE ~IsOpen(s, answered)
  BY <1>1, AskPassing DEF Answer
<1>2. CASE IsOpen(s, answered)
  <2>1. s \in UserStates /\ t \in Sound /\ t.stage = "game"
    BY TakeSound, MissesSound DEF Sound
  <2>2. Shown(t) /\ Ungraded(s, t)
    BY <2>1, QuietPassing
  <2>3. /\ t.quiz = NoQuiz /\ t.word = s.word /\ t.learned = s.learned
        /\ t.missed = s.missed
    BY <2>1 DEF Take, ClearMisses, UserStates
  <2> HIDE DEF t
  <2>4. ~IsOpen(t, poll)
    BY <2>3 DEF IsOpen
  <2>5. CASE Passing(t, Grade(t, given, poll))
    BY <1>2, <2>2, <2>5, PassingFrom DEF Answer, t
  <2>6. CASE /\ t.word \in Catalog
             /\ Normalize(given) = Normalize(t.word)
             /\ Grading(t, Grade(t, given, poll), t.word)
    <3>1. Grading(s, Grade(t, given, poll), s.word)
      BY <2>3, <2>6 DEF Grading, OnlyRecords
    <3>2. Answer(s, answered, given, poll) = Grade(t, given, poll)
      BY <1>2 DEF Answer, t
    <3> QED
      BY <1>2, <2>3, <2>6, <3>1, <3>2
  <2> QED
    BY <2>1, <2>2, <2>4, <2>5, <2>6, GradePassing
<1> QED
  BY <1>1, <1>2

LEMMA TimeoutPassing ==
    ASSUME NEW s \in Sound, Shown(s), s.stage = "game", NEW expired,
           NEW poll \in Polls \cup {NoPoll}, ~IsOpen(s, poll)
    PROVE  Passing(s, Timeout(s, expired, poll))
<1> DEFINE t == CountMiss(Take(s))
<1>1. s \in UserStates /\ t \in Sound /\ t.stage = "game"
  BY TakeSound, MissesSound DEF Sound
<1>2. Shown(t) /\ Ungraded(s, t)
  BY <1>1, QuietPassing
<1>3. t.quiz = NoQuiz
  BY <1>1 DEF Take, CountMiss, UserStates
<1> HIDE DEF t
<1>4. ~IsOpen(t, poll)
  BY <1>3 DEF IsOpen
<1>5. Passing(s, Ask(t, poll)) /\ Passing(s, EndRun(t)) /\ Passing(s, Done(s))
  BY <1>1, <1>2, <1>4, AskPassing, EndsPassing, PassingFrom, DonePassing
<1> QED
  BY <1>5 DEF Timeout, t

LEMMA HandlePassing ==
    ASSUME NEW s \in Sound, Shown(s), NEW text, NEW poll \in Polls \cup {NoPoll},
           ~IsOpen(s, poll)
    PROVE  Passing(s, Handle(s, Resolve(s.stage, text), text, poll))
<1> DEFINE route == Resolve(s.stage, text)
<1>1. /\ Passing(s, Done(s)) /\ Passing(s, EndRun(s))
      /\ Passing(s, AdminCommand(s)) /\ Passing(s, SearchByLetters(s))
      /\ Passing(s, Lookup(s)) /\ Passing(s, Download(s))
      /\ Passing(s, PracticeMenu(s)) /\ Passing(s, StartRun(s, poll))
  BY DonePassing, EndsPassing, RepliesPassing, PracticeMenuPassing,
     StartRunPassing
<1>2. CASE s.stage = "game"
  <2>1. route \in {"admin", "practice.finish", "none"}
    BY <1>2 DEF Resolve
  <2>2. Handle(s, route, text, poll) \in {AdminCommand(s), EndRun(s), Done(s)}
    <3> HIDE DEF route
    <3> QED
      BY <2>1, Zenon DEF Handle, FinishRun
  <2> QED
    BY <1>1, <2>2
<1>3. CASE s.stage # "game"
  <2>1. s.quiz = NoQuiz
    BY <1>3 DEF Sound, SoundUser
  <2>2. /\ Passing(s, Start(s)) /\ Passing(s, MainMenu(s))
        /\ Passing(s, WordsMenu(s))
    <3>1. /\ {"start", "main_menu", "words"} \subseteq Stages
          /\ {"faster", "main", "alphabet"} \subseteq Keyboards
      BY DEF Stages, Keyboards
    <3> QED
      BY <2>1, <3>1, EnterPassing DEF Start, MainMenu, WordsMenu
  <2>3. CASE route = "practice.size"
    <3>1. IsRunLength(text)
      BY <1>3, <2>3 DEF Resolve
    <3>2. text.size \in Sizes
      BY <3>1 DEF IsRunLength
    <3>3. Passing(s, ChooseSize(s, text.size))
      BY <2>1, <3>2, ChooseSizePassing
    <3> QED
      BY <2>3, <3>3 DEF Handle
  <2>4. CASE route # "practice.size"
    <3>1. route \in {"start", "menu", "practice.menu", "words.letters",
                    "practice.start", "download", "words.menu",
                    "words.lookup", "admin"}
      BY <1>3, <2>4 DEF Resolve
    <3>2. Handle(s, route, text, poll) \in
             {Start(s), MainMenu(s), PracticeMenu(s), SearchByLetters(s),
              StartRun(s, poll), Download(s), WordsMenu(s), Lookup(s),
              AdminCommand(s)}
      <4> HIDE DEF route
      <4> QED
        BY <3>1, Zenon DEF Handle
    <3> QED
      BY <1>1, <2>2, <3>2
  <2> QED
    BY <2>3, <2>4
<1> QED
  BY <1>2, <1>3

-----------------------------------------------------------------------------
EveryoneShown == \A u \in Users : Shown(st[u])

(* GradedOnOwnQuestion, of a user who gets into state t, and up to the     *)
(* stress: the open question and the word on the row are spelt with the    *)
(* same letters.                                                           *)
OwnQuestion(u, t) ==
    LET s == st[u]
    IN  Graded(s, t) =>
           /\ s.quiz # NoQuiz
           /\ s.word \in Catalog
           /\ Normalize(s.quiz.word) = Normalize(s.word)
           /\ DispatchPollAnswer(u, s.quiz.poll)
           /\ t.learned \subseteq s.learned \cup {s.word}
           /\ s.learned \subseteq t.learned \cup {s.word}
           /\ t.missed \subseteq s.missed \cup {s.word}

(* No two entries of the word list are spelt with the same letters.        *)
OneEach == \A a, b \in Catalog : Normalize(a) = Normalize(b) => a = b

EveryoneOwn == \A u \in Users : OwnQuestion(u, st'[u])

LEMMA UngradedOwn ==
    ASSUME NEW u \in Users, st[u] \in UserStates, NEW t, Ungraded(st[u], t)
    PROVE  OwnQuestion(u, t)
<1>1. st[u].answered \in Nat
  BY DEF UserStates
<1>2. ~Graded(st[u], t)
  BY <1>1 DEF Ungraded, Graded
<1> QED
  BY <1>2 DEF OwnQuestion

(* The next poll is on no slot in use.                                     *)
LEMMA NextPollFree ==
    ASSUME IInv, NEW u \in Users
    PROVE  /\ NextPoll(u) \in Polls \cup {NoPoll}
           /\ ~IsOpen(st[u], NextPoll(u))
           /\ NextPoll(u) # NoPoll => ~Announced(u, NextPoll(u))
<1>1. st[u] \in UserStates
  BY DEF IInv, TypeOK
<1>2. CASE FreePolls(u) = {}
  <2>1. st[u].quiz # NoQuiz => st[u].quiz.poll \in Polls
    BY <1>1 DEF UserStates, Quizzes
  <2>2. NextPoll(u) = NoPoll
    BY <1>2 DEF NextPoll
  <2> QED
    BY <2>1, <2>2, HandlersAssumption DEF IsOpen
<1>3. CASE FreePolls(u) # {}
  <2>1. NextPoll(u) \in FreePolls(u)
    BY <1>3 DEF NextPoll
  <2> QED
    BY <2>1 DEF FreePolls
<1> QED
  BY <1>2, <1>3

(* A user whose state is kept in some other one.                           *)
LEMMA OneMoves ==
    ASSUME IInv, EveryoneShown, NEW u \in Users, NEW t,
           st' = [st EXCEPT ![u] = t], Shown(t), OwnQuestion(u, t)
    PROVE  EveryoneShown' /\ EveryoneOwn
<1>1. ASSUME NEW v \in Users PROVE OwnQuestion(v, st[v])
  <2>1. st[v] \in UserStates /\ Ungraded(st[v], st[v])
    BY DEF IInv, TypeOK, Ungraded
  <2> QED
    BY <2>1, UngradedOwn
<1>2. \A v \in Users : st'[v] = IF v = u THEN t ELSE st[v]
  BY DEF IInv, TypeOK
<1> QED
  BY <1>1, <1>2 DEF EveryoneShown, EveryoneOwn

(* Running a handler, Fallback included.                                   *)
LEMMA RunPassing ==
    ASSUME IInv, EveryoneShown, NEW u \in Users,
           NEW outcomes \in SUBSET Outcomes, Run(u, outcomes),
           \A o \in outcomes : Shown(o.s) /\ OwnQuestion(u, o.s)
    PROVE  EveryoneShown' /\ EveryoneOwn
<1>1. PICK o \in outcomes :
        \E t \in IF o.ok THEN {o.s} ELSE Fallback(o) :
            st' = [st EXCEPT ![u] = t]
  BY DEF Run
<1>2. PICK t \in IF o.ok THEN {o.s} ELSE Fallback(o) :
        st' = [st EXCEPT ![u] = t]
  BY <1>1
<1>3. o.s \in UserStates
  BY DEF Outcomes, Sound
<1>4. t = o.s \/ \E kb : t = Show(o.s, kb)
  BY <1>2 DEF Fallback
<1>5. /\ t.quiz = o.s.quiz /\ t.polls = o.s.polls
      /\ t.answered = o.s.answered /\ t.learned = o.s.learned
      /\ t.missed = o.s.missed
  BY <1>3, <1>4 DEF Show, UserStates
<1>6. Shown(t) /\ OwnQuestion(u, t)
  BY <1>5 DEF Shown, OwnQuestion, Graded
<1> QED
  BY <1>2, <1>6, OneMoves

LEMMA PassingRuns ==
    ASSUME NEW u \in Users, st[u] \in UserStates, NEW outcomes,
           Passing(st[u], outcomes)
    PROVE  \A o \in outcomes : Shown(o.s) /\ OwnQuestion(u, o.s)
BY UngradedOwn DEF Passing

(* A poll that is shut, confirmed or delivered once more.                  *)
LEMMA PollShown ==
    ASSUME NEW s \in UserStates, Shown(s), NEW p \in Polls, NEW v,
           \/ v.phase = "shut"
           \/ Normalize(v.text) = Normalize(s.polls[p].text)
              /\ s.polls[p].phase # "shut"
    PROVE  LET t == [s EXCEPT !.polls[p] = v]
           IN  Shown(t) /\ Ungraded(s, t) /\ t.quiz = s.quiz
               /\ t.stage = s.stage /\ t.word = s.word
<1> DEFINE t == [s EXCEPT !.polls[p] = v]
<1>1. /\ t.quiz = s.quiz /\ t.polls = [s.polls EXCEPT ![p] = v]
      /\ t.answered = s.answered /\ t.learned = s.learned
      /\ t.missed = s.missed /\ t.stage = s.stage /\ t.word = s.word
      /\ s.polls \in [Polls -> PollStates]
      /\ s.quiz # NoQuiz => s.quiz.poll \in Polls
  BY DEF UserStates, Quizzes
<1> HIDE DEF t
<1>2. Shown(t) /\ Ungraded(s, t)
  BY <1>1 DEF Shown, Ungraded
<1> QED
  BY <1>1, <1>2 DEF t

LEMMA NextOwn ==
    ASSUME IInv, EveryoneShown, [Next]_vars
    PROVE  EveryoneShown' /\ (UNCHANGED vars \/ EveryoneOwn)
<1>1. ASSUME NEW u \in Users
      PROVE  /\ st[u] \in Sound /\ st[u] \in UserStates /\ Shown(st[u])
             /\ NextPoll(u) \in Polls \cup {NoPoll}
             /\ ~IsOpen(st[u], NextPoll(u))
             /\ Ungraded(st[u], st[u])
  BY NextPollFree DEF IInv, TypeOK, EveryoneShown, Ungraded
<1>2. ASSUME NEW u \in Users, NEW t, Drop(u, t), Shown(t), Ungraded(st[u], t)
      PROVE  EveryoneShown' /\ EveryoneOwn
  <2>1. OwnQuestion(u, t)
    BY <1>1, <1>2, UngradedOwn
  <2> QED
    BY <1>2, <2>1, OneMoves DEF Drop
<1>3. ASSUME NEW u \in Users, NEW text \in Messages, DispatchMessage(u, text)
      PROVE  EveryoneShown' /\ EveryoneOwn
  <2> DEFINE outs == Handle(st[u], Resolve(st[u].stage, text), text, NextPoll(u))
  <2>1. Run(u, outs) \/ Drop(u, st[u])
    BY <1>3 DEF DispatchMessage
  <2>2. outs \in SUBSET Outcomes /\ Passing(st[u], outs)
    BY <1>1, HandleSound, HandlePassing
  <2> HIDE DEF outs
  <2>3. \A o \in outs : Shown(o.s) /\ OwnQuestion(u, o.s)
    BY <1>1, <2>2, PassingRuns
  <2> QED
    BY <1>1, <1>2, <2>1, <2>2, <2>3, RunPassing
<1>4. ASSUME NEW u \in Users, NEW p \in Polls, DispatchPollAnswer(u, p)
      PROVE  EveryoneShown' /\ EveryoneOwn
  <2> DEFINE s     == Dispatched(st[u], p)
             given == st[u].polls[p].text
             outs  == IF s.stage # "game" THEN Done(s)
                      ELSE Answer(s, p, given, NextPoll(u))
  <2>1. /\ Run(u, outs) \/ Drop(u, s)
        /\ st[u].polls[p].phase = "sent"
    BY <1>4 DEF DispatchPollAnswer
  <2>2. /\ s \in Sound /\ Shown(s) /\ Ungraded(st[u], s)
        /\ s.quiz = st[u].quiz /\ s.word = st[u].word
    <3>1. PICK v \in PollStates : /\ s = [st[u] EXCEPT !.polls[p] = v]
                                  /\ v = Shut \/ v.text = given
      <4>1. st[u].polls[p] \in PollStates
        BY <1>1 DEF UserStates
      <4> DEFINE w == [st[u].polls[p] EXCEPT !.phase = "handled"]
      <4>2. w \in PollStates /\ w.text = given
        BY <2>1, <4>1 DEF PollStates
      <4>3. \/ s = [st[u] EXCEPT !.polls[p] = w]
            \/ s = [st[u] EXCEPT !.polls[p] = Shut]
        BY <1>1 DEF Dispatched, UserStates
      <4> QED
        BY <4>2, <4>3, ShutType
    <3>2. s \in Sound
      BY <1>1, <3>1, PollSound
    <3>3. \/ v.phase = "shut"
          \/ /\ Normalize(v.text) = Normalize(st[u].polls[p].text)
             /\ st[u].polls[p].phase # "shut"
      BY <2>1, <3>1 DEF Shut
    <3> DEFINE w == [st[u] EXCEPT !.polls[p] = v]
    <3>4. Shown(w) /\ Ungraded(st[u], w) /\ w.quiz = st[u].quiz
          /\ w.word = st[u].word
      BY <1>1, <3>3, PollShown
    <3>5. s = w
      BY <3>1
    <3> HIDE DEF s, w
    <3> QED
      BY <3>2, <3>4, <3>5
  <2>3. IsOpen(s, p) => Normalize(given) = Normalize(s.quiz.word)
    BY <1>1, <2>1, <2>2 DEF IsOpen, Shown
  <2>4. ~IsOpen(s, NextPoll(u))
    BY <1>1, <2>2 DEF IsOpen
  <2> HIDE DEF s, given
  <2>5. outs \in SUBSET Outcomes
    BY <1>1, <2>2, OutcomesSound, RunHandlersSound
  <2>6. \/ Passing(s, outs)
        \/ /\ IsOpen(s, p) /\ s.word \in Catalog
           /\ Normalize(s.quiz.word) = Normalize(s.word)
           /\ Grading(s, outs, s.word)
    BY <1>1, <2>2, <2>3, <2>4, DonePassing, AnswerPassing
  <2> HIDE DEF outs
  <2>7. ASSUME NEW o \in outs PROVE Shown(o.s) /\ OwnQuestion(u, o.s)
    <3>1. CASE Passing(s, outs)
      BY <1>1, <2>2, <3>1, PassingFrom, PassingRuns
    <3>2. CASE /\ IsOpen(s, p) /\ s.word \in Catalog
               /\ Normalize(s.quiz.word) = Normalize(s.word)
               /\ Grading(s, outs, s.word)
      <4>1. /\ st[u].quiz # NoQuiz /\ st[u].quiz.poll = p
            /\ st[u].word \in Catalog
            /\ Normalize(st[u].quiz.word) = Normalize(st[u].word)
        BY <2>2, <3>2 DEF IsOpen
      <4>2. OnlyRecords(s, o.s, s.word) /\ Shown(o.s)
        BY <3>2 DEF Grading
      <4>3. OnlyRecords(st[u], o.s, st[u].word)
        BY <2>2, <4>2 DEF OnlyRecords, Ungraded
      <4> QED
        BY <1>4, <4>1, <4>2, <4>3 DEF OnlyRecords, OwnQuestion
    <3> QED
      BY <2>6, <3>1, <3>2
  <2> QED
    BY <1>2, <2>1, <2>2, <2>5, <2>7, RunPassing
<1>5. ASSUME NEW u \in Users, NEW p \in Polls,
             \/ Close(u, p)
             \/ Confirm(u, p)
             \/ \E given \in Spellings : Pick(u, p, given)
      PROVE  EveryoneShown' /\ EveryoneOwn
  <2>1. PICK v : /\ st' = [st EXCEPT ![u].polls[p] = v]
                 /\ \/ v.phase = "shut"
                    \/ /\ Normalize(v.text) = Normalize(st[u].polls[p].text)
                       /\ st[u].polls[p].phase # "shut"
    <3>1. CASE Close(u, p) \/ Confirm(u, p)
      BY <3>1 DEF Close, Confirm, Shut
    <3>2. ASSUME NEW given \in Spellings, Pick(u, p, given)
          PROVE  \E v : /\ st' = [st EXCEPT ![u].polls[p] = v]
                        /\ Normalize(v.text) = Normalize(st[u].polls[p].text)
                        /\ st[u].polls[p].phase # "shut"
      <4> DEFINE w == [phase |-> "sent", text |-> given]
      <4>1. Normalize(given) = Normalize(st[u].polls[p].text)
        BY <3>2 DEF Pick, Variants, Normalize
      <4>2. w.text = given
        OBVIOUS
      <4> QED
        BY <3>2, <4>1, <4>2 DEF Pick
    <3> QED
      BY <1>5, <3>1, <3>2
  <2> DEFINE t == [st[u] EXCEPT !.polls[p] = v]
  <2>2. st' = [st EXCEPT ![u] = t]
    BY <2>1
  <2>3. Shown(t) /\ Ungraded(st[u], t)
    BY <1>1, <2>1, PollShown
  <2> HIDE DEF t
  <2>4. OwnQuestion(u, t)
    BY <1>1, <2>3, UngradedOwn
  <2> QED
    BY <2>2, <2>3, <2>4, OneMoves
<1>6. ASSUME NEW u \in Users, TimerFires(u) PROVE EveryoneShown' /\ EveryoneOwn
  <2> DEFINE t == [st[u] EXCEPT !.quiz.armed = FALSE]
  <2>1. st' = [st EXCEPT ![u] = t] /\ st[u].quiz # NoQuiz
    BY <1>6 DEF TimerFires
  <2>2. st[u].quiz \in Quizzes
    BY <1>1, <2>1 DEF UserStates
  <2>3. /\ t.quiz.poll = st[u].quiz.poll /\ t.quiz.word = st[u].quiz.word
        /\ t.polls = st[u].polls /\ t.answered = st[u].answered
        /\ t.learned = st[u].learned /\ t.missed = st[u].missed
    BY <1>1, <2>2 DEF UserStates, Quizzes
  <2> HIDE DEF t
  <2>4. Shown(t) /\ Ungraded(st[u], t)
    BY <1>1, <2>1, <2>3 DEF Shown, Ungraded
  <2>5. OwnQuestion(u, t)
    BY <1>1, <2>4, UngradedOwn
  <2> QED
    BY <2>1, <2>4, <2>5, OneMoves
<1>7. CASE TimedOut
  <2> DEFINE u    == Head(held).user
             outs == IF st[u].stage # "game" THEN Done(st[u])
                     ELSE Timeout(st[u], Head(held).poll, NextPoll(u))
  <2>1. Run(u, outs) \/ Drop(u, st[u])
    BY <1>7 DEF TimedOut
  <2>2. u \in Users
    <3>1. held \in Seq(Timeouts) /\ held # <<>>
      BY <1>7 DEF TimedOut, IInv, TypeOK
    <3>2. Head(held) \in Timeouts
      BY <3>1
    <3> QED
      BY <3>2 DEF Timeouts
  <2>3. outs \in SUBSET Outcomes /\ Passing(st[u], outs)
    <3> HIDE DEF u
    <3> QED
      BY <1>1, <2>2, OutcomesSound, RunHandlersSound, DonePassing, TimeoutPassing
  <2> HIDE DEF outs, u
  <2>4. \A o \in outs : Shown(o.s) /\ OwnQuestion(u, o.s)
    BY <1>1, <2>2, <2>3, PassingRuns
  <2> QED
    BY <1>1, <1>2, <2>1, <2>2, <2>3, <2>4, RunPassing
<1>8. CASE Restart
  <2>1. PICK again \in [Users -> SUBSET Polls] :
          st' = [u \in Users |-> Restarted(st[u], again[u])]
    BY <1>8 DEF Restart
  <2>2. ASSUME NEW u \in Users
        PROVE  Shown(st'[u]) /\ OwnQuestion(u, st'[u])
    <3>1. st'[u] = Restarted(st[u], again[u])
      BY <2>1
    <3>2. /\ st'[u].quiz = NoQuiz /\ st'[u].missed = {}
          /\ st'[u].answered = st[u].answered
          /\ st'[u].learned = st[u].learned
      BY <1>1, <3>1 DEF Restarted, UserStates
    <3>3. Shown(st'[u]) /\ Ungraded(st[u], st'[u])
      BY <3>2 DEF Shown, Ungraded
    <3> QED
      BY <1>1, <3>3, UngradedOwn
  <2> QED
    BY <2>2 DEF EveryoneShown, EveryoneOwn
<1>9. CASE WatchTimeouts
  <2>1. st' = st
    BY <1>9 DEF WatchTimeouts
  <2> QED
    BY <1>1, <2>1, UngradedOwn DEF EveryoneShown, EveryoneOwn
<1>10. CASE UNCHANGED vars
  BY <1>10 DEF vars, EveryoneShown
<1> QED
  BY <1>3, <1>4, <1>5, <1>6, <1>7, <1>8, <1>9, <1>10 DEF Next

(* What became of a poll stays about the word of its question.             *)
THEOREM PollsStayShown == Spec => []EveryoneShown
<1>1. Init => EveryoneShown
  BY DEF Init, NewUser, LegacyUser, EveryoneShown, Shown
<1>2. IInv /\ EveryoneShown /\ [Next]_vars => EveryoneShown'
  BY NextOwn
<1> QED
  BY <1>1, <1>2, UsersStaySound, PTL DEF Spec

(* Whatever fails, an answer is graded, and a word recorded, only in the   *)
(* dispatch of an answer to the poll of the open question, while that is   *)
(* spelt with the same letters as the word on the row, and only that word  *)
(* is recorded (quizzes.take, ErrStaleAnswer).                             *)
THEOREM GradedOnSameLetters == Spec => [][EveryoneOwn]_vars
<1>1. IInv /\ EveryoneShown /\ [Next]_vars => [EveryoneOwn]_vars
  BY NextOwn
<1> QED
  BY <1>1, UsersStaySound, PollsStayShown, PTL DEF Spec

(* An answer is graded, and a word recorded, only in the dispatch of an    *)
(* answer to the poll of the open question, which is about the word on the *)
(* row, through any faults, where no plain word is listed twice: a pick    *)
(* that spells both homographs cannot be told apart (quizzes.take,         *)
(* ErrStaleAnswer, remember, rememberMissed).                              *)
THEOREM GradedOnOwnQuestionHolds ==
    ASSUME OneEach
    PROVE  Spec => GradedOnOwnQuestion
<1>1. IInv /\ EveryoneOwn =>
        \A u \in Users :
          LET s == st[u]
              t == st'[u]
          IN  Graded(s, t) =>
                 /\ s.quiz # NoQuiz
                 /\ s.quiz.word = s.word
                 /\ DispatchPollAnswer(u, s.quiz.poll)
                 /\ t.learned \subseteq s.learned \cup {s.word}
                 /\ s.learned \subseteq t.learned \cup {s.word}
                 /\ t.missed \subseteq s.missed \cup {s.word}
  <2> SUFFICES ASSUME IInv, EveryoneOwn, NEW u \in Users, Graded(st[u], st'[u])
               PROVE  LET s == st[u]
                          t == st'[u]
                      IN  /\ s.quiz # NoQuiz
                          /\ s.quiz.word = s.word
                          /\ DispatchPollAnswer(u, s.quiz.poll)
                          /\ t.learned \subseteq s.learned \cup {s.word}
                          /\ s.learned \subseteq t.learned \cup {s.word}
                          /\ t.missed \subseteq s.missed \cup {s.word}
    OBVIOUS
  <2>1. OwnQuestion(u, st'[u]) /\ st[u] \in UserStates
    BY DEF EveryoneOwn, IInv, TypeOK
  <2>2. st[u].quiz # NoQuiz => st[u].quiz.word \in Catalog
    BY <2>1 DEF UserStates, Quizzes
  <2> QED
    BY <2>1, <2>2 DEF OwnQuestion, OneEach
<1> QED
  BY <1>1, UsersStaySound, GradedOnSameLetters, PTL DEF GradedOnOwnQuestion

-----------------------------------------------------------------------------
(* Misses and expiries.                                                    *)

(* No miss is counted on the way from s to t, and no question put up.      *)
Calm(s, t) == t.misses \in {0, s.misses} /\ t.quiz \in {NoQuiz, s.quiz}

AllCalm(s, outcomes) == \A o \in outcomes : Calm(s, o.s)

(* No miss is counted, but another question may be put up.                 *)
Uncounted(s, outcomes) == \A o \in outcomes : o.s.misses \in {0, s.misses}

LEMMA CalmFrom ==
    ASSUME NEW s, NEW t, NEW outcomes, Calm(s, t)
    PROVE  /\ AllCalm(t, outcomes) => AllCalm(s, outcomes)
           /\ Uncounted(t, outcomes) => Uncounted(s, outcomes)
           /\ AllCalm(s, outcomes) => Uncounted(s, outcomes)
BY DEF Calm, AllCalm, Uncounted

LEMMA CalmTransitive ==
    ASSUME NEW s, NEW t, NEW v, Calm(s, t), Calm(t, v)
    PROVE  Calm(s, v)
BY DEF Calm

LEMMA FailsCalm ==
    ASSUME NEW s, NEW t, NEW v, Calm(s, t), Calm(s, v), NEW at
    PROVE  /\ AllCalm(s, Done(t))
           /\ AllCalm(s, DbFails(t, at))
           /\ AllCalm(s, SendFails(t, v))
BY DEF AllCalm, Done, Failed, DbFails, SendFails

(* What the handlers do to a record, a miss and a new question apart.      *)
LEMMA QuietCalm ==
    ASSUME NEW s \in UserStates, NEW t, NEW kb, NEW stage, NEW size, NEW word,
           NEW given, NEW correct,
           t \in {s, Show(s, kb), MoveTo(s, stage), Forget(s), Take(s),
                  ClearMisses(s), ClearMisses(Take(s)), TakeMissed(s),
                  ResetRun(s), NewSession(s, size), SessionAsk(s, word),
                  SessionAnswer(s, given), Remember(s, word, correct),
                  RememberMissed(s, word, correct),
                  [s EXCEPT !.tutorial = TRUE]}
    PROVE  Calm(s, t)
<1>1. Calm(s, s) /\ Calm(s, Show(s, kb)) /\ Calm(s, MoveTo(s, stage))
  BY DEF Calm, Show, MoveTo, UserStates
<1>2. Calm(s, Forget(s)) /\ Calm(s, Take(s)) /\ Calm(s, ClearMisses(s))
  BY DEF Calm, Forget, Take, ClearMisses, UserStates
<1>3. Calm(s, ClearMisses(Take(s))) /\ Calm(s, [s EXCEPT !.tutorial = TRUE])
  BY DEF Calm, Take, ClearMisses, UserStates
<1>4. /\ Calm(s, TakeMissed(s)) /\ Calm(s, ResetRun(s))
      /\ Calm(s, NewSession(s, size)) /\ Calm(s, SessionAsk(s, word))
  BY DEF Calm, TakeMissed, ResetRun, NewSession, SessionAsk, UserStates
<1>5. Calm(s, SessionAnswer(s, given))
  BY DEF Calm, SessionAnswer, UserStates
<1>6. Calm(s, Remember(s, word, correct))
  BY DEF Calm, Remember, LearnedAdd, LearnedRemove, UserStates
<1>7. Calm(s, RememberMissed(s, word, correct))
  BY DEF Calm, RememberMissed, UserStates
<1> QED
  BY <1>1, <1>2, <1>3, <1>4, <1>5, <1>6, <1>7

LEMMA EnterCalm ==
    ASSUME NEW s \in UserStates, NEW stage \in Stages, NEW kb
    PROVE  AllCalm(s, Enter(s, stage, kb))
<1> DEFINE moved == MoveTo(s, stage)
           shown == Show(moved, kb)
<1>1. moved \in UserStates /\ Calm(s, moved) /\ Calm(s, s)
  <2>1. moved \in UserStates
    BY DEF MoveTo, UserStates
  <2> QED
    BY <2>1, QuietCalm
<1>2. Calm(s, shown)
  BY <1>1, QuietCalm, CalmTransitive
<1>3. /\ AllCalm(s, Done(shown)) /\ AllCalm(s, DbFails(s, stage))
      /\ AllCalm(s, SendFails(moved, shown))
  BY <1>1, <1>2, FailsCalm
<1> QED
  BY <1>3 DEF Enter, AllCalm

LEMMA RepliesCalm ==
    ASSUME NEW s \in UserStates
    PROVE  /\ AllCalm(s, Done(s))
           /\ AllCalm(s, SearchByLetters(s))
           /\ AllCalm(s, Lookup(s))
           /\ AllCalm(s, Download(s))
           /\ AllCalm(s, AdminCommand(s))
<1>1. Calm(s, s) /\ Calm(s, Show(s, "alphabet"))
  BY QuietCalm
<1>2. /\ AllCalm(s, Done(s)) /\ AllCalm(s, SendFails(s, s))
      /\ AllCalm(s, DbFails(s, s.stage))
      /\ AllCalm(s, Done(Show(s, "alphabet")))
      /\ AllCalm(s, SendFails(s, Show(s, "alphabet")))
  BY <1>1, FailsCalm
<1> QED
  BY <1>2 DEF SearchByLetters, Lookup, Download, AdminCommand, AllCalm

LEMMA PracticeMenuCalm ==
    ASSUME NEW s \in Sound
    PROVE  AllCalm(s, PracticeMenu(s))
<1> DEFINE f     == Forget(s)
           quiet == TakeMissed(f)
           reset == ResetRun(quiet)
<1>1. f \in Sound /\ quiet \in Sound /\ quiet.missed = {} /\ reset \in Sound
  BY ForgetSound, TakeMissedSound, ResetRunSound
<1>2. /\ s \in UserStates /\ f \in UserStates /\ quiet \in UserStates
      /\ reset \in UserStates
  BY <1>1 DEF Sound
<1>3. Calm(s, quiet) /\ Calm(s, reset)
  BY <1>2, QuietCalm, CalmTransitive
<1>4. AllCalm(s, DbFails(quiet, s.stage))
  BY <1>3, FailsCalm
<1>5. AllCalm(s, Enter(reset, "practice_menu", "sizes"))
  BY <1>2, <1>3, EnterCalm, CalmFrom DEF Stages
<1> QED
  BY <1>4, <1>5 DEF PracticeMenu, Abandon, AllCalm

LEMMA ChooseSizeCalm ==
    ASSUME NEW s \in Sound, s.quiz = NoQuiz, NEW size \in Sizes
    PROVE  AllCalm(s, ChooseSize(s, size))
<1> DEFINE reset   == ResetRun(s)
           emptied == TakeMissed(reset)
           taken   == TakeMissed(s)
           begun   == NewSession(taken, size)
           moved   == MoveTo(begun, "practice_readiness")
           ready   == Show(moved, "readiness")
           taught  == Show(moved, "none")
           told    == [ready EXCEPT !.tutorial = TRUE]
<1>1. /\ s \in UserStates /\ reset \in UserStates /\ taken \in UserStates
      /\ begun \in UserStates
  <2>1. taken \in Sound /\ taken.missed = {}
    BY TakeMissedSound
  <2>2. begun \in Sound
    BY <2>1, ResetRunSound
  <2> QED
    BY <2>1, <2>2 DEF Sound, ResetRun, UserStates
<1>2. moved \in UserStates
  BY <1>1 DEF MoveTo, UserStates, Stages
<1>3. ready \in UserStates
  BY <1>2 DEF Show, Keyboards, UserStates
<1> HIDE DEF moved, ready, begun
<1>4. Calm(s, s) /\ Calm(s, emptied) /\ Calm(s, begun)
  BY <1>1, QuietCalm, CalmTransitive DEF begun
<1>5. Calm(s, moved)
  BY <1>1, <1>4, QuietCalm, CalmTransitive DEF moved
<1>6. Calm(s, ready) /\ Calm(s, taught)
  BY <1>2, <1>5, QuietCalm, CalmTransitive DEF ready
<1>7. Calm(s, told)
  BY <1>3, <1>6, QuietCalm, CalmTransitive
<1> HIDE DEF told, taught, emptied
<1>8. /\ AllCalm(s, DbFails(s, s.stage)) /\ AllCalm(s, DbFails(emptied, s.stage))
      /\ AllCalm(s, DbFails(begun, "practice_readiness"))
      /\ AllCalm(s, Done(ready)) /\ AllCalm(s, SendFails(moved, ready))
      /\ AllCalm(s, SendFails(moved, taught))
      /\ AllCalm(s, SendFails(taught, ready))
      /\ AllCalm(s, DbFails(ready, "practice_readiness"))
      /\ AllCalm(s, Done(told))
  BY <1>4, <1>5, <1>6, <1>7, FailsCalm
<1> QED
  BY <1>8
  DEF ChooseSize, Begin, AllCalm, emptied, begun, moved, ready, taught, told

LEMMA EndsCalm ==
    ASSUME NEW s \in Sound
    PROVE  AllCalm(s, EndRun(s)) /\ AllCalm(s, CompleteRun(s))
<1> DEFINE told   == TakeMissed(s)
           shown  == Show(told, "none")
<1>1. /\ s \in UserStates /\ "none" \in Keyboards
      /\ told \in Sound /\ told \in UserStates /\ shown \in Sound
  BY TakeMissedSound, ShowSound DEF Sound, Keyboards
<1>2. Calm(s, s) /\ Calm(s, told) /\ Calm(s, shown)
  BY <1>1, QuietCalm, CalmTransitive
<1>3. ASSUME NEW t \in Sound PROVE AllCalm(t, Results(t))
  <2>1. t \in UserStates /\ Show(t, "none") \in Sound
    BY <1>1, ShowSound DEF Sound
  <2>2. Calm(t, t) /\ Calm(t, Show(t, "none"))
    BY <2>1, QuietCalm
  <2>3. /\ AllCalm(t, SendFails(t, Show(t, "none")))
        /\ AllCalm(t, PracticeMenu(Show(t, "none")))
    BY <2>1, <2>2, FailsCalm, PracticeMenuCalm, CalmFrom
  <2> QED
    BY <2>3 DEF Results, AllCalm
<1>4. /\ AllCalm(s, DbFails(s, s.stage)) /\ AllCalm(s, SendFails(told, shown))
      /\ AllCalm(s, Results(told)) /\ AllCalm(s, Results(shown))
      /\ AllCalm(s, PracticeMenu(s))
  BY <1>1, <1>2, <1>3, FailsCalm, PracticeMenuCalm, CalmFrom
<1> QED
  BY <1>4 DEF EndRun, CompleteRun, Finish, AllCalm

LEMMA AskUncounted ==
    ASSUME NEW s \in Sound, NEW poll \in Polls \cup {NoPoll}
    PROVE  Uncounted(s, Ask(s, poll))
<1>1. s \in UserStates /\ Show(s, "none") \in Sound
  BY ShowSound DEF Sound, Keyboards
<1>2. Calm(s, s) /\ Calm(s, Show(s, "none"))
  BY <1>1, QuietCalm
<1>3. /\ Uncounted(s, DbFails(s, s.stage)) /\ Uncounted(s, PracticeMenu(s))
      /\ Uncounted(s, SendFails(s, Show(s, "none")))
      /\ Uncounted(s, EndRun(Show(s, "none")))
  BY <1>1, <1>2, FailsCalm, PracticeMenuCalm, EndsCalm, CalmFrom
<1>4. ASSUME NEW q \in Question(s) PROVE Uncounted(s, SendQuiz(q, q.word, poll))
  <2>1. q.misses = s.misses /\ q \in UserStates
    <3>1. PICK w \in Draws(s) : q = SessionAsk(s, w)
      BY DEF Question
    <3>2. q \in Sound
      BY <3>1, SessionAskSound
    <3>3. q.misses = s.misses
      BY <1>1, <3>1 DEF SessionAsk, UserStates
    <3> QED
      BY <3>2, <3>3 DEF Sound
  <2> DEFINE shown == [q EXCEPT !.polls[poll] =
                          [phase |-> "open", text |-> q.word]]
             put   == Put(shown, poll, q.word)
  <2>2. shown.misses = s.misses /\ put.misses = s.misses
    BY <2>1 DEF Put, UserStates
  <2> HIDE DEF shown, put
  <2>3. Uncounted(s, Done(put)) /\ Uncounted(s, SendFails(q, shown))
    BY <2>1, <2>2 DEF Uncounted, Done, SendFails, Failed
  <2> QED
    BY <2>3 DEF SendQuiz, Uncounted, shown, put
<1> QED
  BY <1>3, <1>4 DEF Ask, Uncounted

LEMMA StartRunUncounted ==
    ASSUME NEW s \in Sound, NEW poll \in Polls \cup {NoPoll}
    PROVE  Uncounted(s, StartRun(s, poll))
<1> DEFINE moved == MoveTo(s, "game")
           shown == Show(moved, "finish")
<1>1. s \in UserStates /\ moved \in UserStates /\ shown \in Sound
  BY MoveToSound, ShowSound DEF Sound, Stages, Keyboards
<1>2. Calm(s, s) /\ Calm(s, moved) /\ Calm(s, shown)
  BY <1>1, QuietCalm, CalmTransitive
<1> HIDE DEF moved, shown
<1>3. AllCalm(s, DbFails(s, "game")) /\ AllCalm(s, SendFails(moved, shown))
  BY <1>2, FailsCalm
<1>4. Uncounted(shown, Ask(shown, poll))
  BY <1>1, AskUncounted
<1>5. /\ Uncounted(s, DbFails(s, "game"))
      /\ Uncounted(s, SendFails(moved, shown))
      /\ Uncounted(s, Ask(shown, poll))
  BY <1>2, <1>3, <1>4, CalmFrom
<1> QED
  BY <1>5 DEF StartRun, Uncounted, moved, shown

LEMMA GradeUncounted ==
    ASSUME NEW s \in Sound, s.stage = "game", NEW given,
           NEW poll \in Polls \cup {NoPoll}
    PROVE  Uncounted(s, Grade(s, given, poll))
<1> DEFINE correct  == given = s.word
           graded   == SessionAnswer(s, given)
           learned  == Remember(graded, s.word, correct)
           recorded == RememberMissed(learned, s.word, correct)
<1>1. s \in UserStates /\ Calm(s, s)
  BY QuietCalm DEF Sound
<1>2. /\ Uncounted(s, DbFails(s, s.stage)) /\ Uncounted(s, Done(s))
      /\ Uncounted(s, PracticeMenu(s))
  BY <1>1, FailsCalm, PracticeMenuCalm, CalmFrom
<1>3. CASE ~(HasSession(s) /\ ~IsStale(s, given))
  BY <1>2, <1>3 DEF Grade, Uncounted
<1>4. CASE HasSession(s) /\ ~IsStale(s, given)
  <2>1. s.word # NoWord /\ s.word \in Catalog
    BY <1>1, <1>4 DEF IsStale, UserStates
  <2>2. /\ graded \in Sound /\ graded.stage = "game"
        /\ ~correct => Cardinality(graded.missed) < graded.wrong
    BY <2>1, SessionAnswerSound
  <2>3. recorded \in Sound
    <3>1. correct \in BOOLEAN
      OBVIOUS
    <3> QED
      BY <2>1, <2>2, <3>1, RecordSound
  <2>4. graded \in UserStates /\ Calm(s, graded)
    BY <1>1, <2>2, QuietCalm DEF Sound
  <2> HIDE DEF graded, correct
  <2>5. learned \in UserStates /\ Calm(s, learned)
    <3>1. learned \in UserStates
      BY <2>1, <2>4 DEF Remember, LearnedAdd, LearnedRemove, UserStates
    <3> QED
      BY <2>4, <3>1, QuietCalm, CalmTransitive
  <2> HIDE DEF learned
  <2>6. Calm(s, recorded)
    BY <2>5, QuietCalm, CalmTransitive
  <2> HIDE DEF recorded
  <2>7. /\ Uncounted(s, DbFails(graded, s.stage))
        /\ Uncounted(s, CompleteRun(recorded))
        /\ Uncounted(s, Ask(recorded, poll))
    BY <2>3, <2>4, <2>6, FailsCalm, EndsCalm, AskUncounted, CalmFrom
  <2> QED
    BY <1>2, <1>4, <2>7
    DEF Grade, Uncounted, recorded, learned, graded, correct
<1> QED
  BY <1>3, <1>4

LEMMA AnswerUncounted ==
    ASSUME NEW s \in Sound, s.stage = "game", NEW answered, NEW given,
           NEW poll \in Polls \cup {NoPoll}
    PROVE  Uncounted(s, Answer(s, answered, given, poll))
<1> DEFINE t == ClearMisses(Take(s))
<1>1. s \in UserStates /\ t \in Sound /\ t.stage = "game"
  BY TakeSound, MissesSound DEF Sound
<1>2. Calm(s, t)
  BY <1>1, QuietCalm
<1> HIDE DEF t
<1>3. Uncounted(s, Grade(t, given, poll)) /\ Uncounted(s, Ask(s, poll))
  BY <1>1, <1>2, GradeUncounted, AskUncounted, CalmFrom
<1> QED
  BY <1>3 DEF Answer, t

(* Of a message in a run, the question stays or is gone; outside of one    *)
(* there was none.                                                         *)
LEMMA HandleUncounted ==
    ASSUME NEW s \in Sound, NEW text, NEW poll \in Polls \cup {NoPoll}
    PROVE  LET outs == Handle(s, Resolve(s.stage, text), text, poll)
           IN  /\ Uncounted(s, outs)
               /\ s.quiz # NoQuiz => AllCalm(s, outs)
<1> DEFINE route == Resolve(s.stage, text)
           outs  == Handle(s, route, text, poll)
<1>1. s \in UserStates /\ Calm(s, s)
  BY QuietCalm DEF Sound
<1>2. /\ AllCalm(s, Done(s)) /\ AllCalm(s, EndRun(s))
      /\ AllCalm(s, AdminCommand(s)) /\ AllCalm(s, SearchByLetters(s))
      /\ AllCalm(s, Lookup(s)) /\ AllCalm(s, Download(s))
      /\ AllCalm(s, PracticeMenu(s))
  BY <1>1, EndsCalm, RepliesCalm, PracticeMenuCalm
<1>3. CASE s.stage = "game"
  <2>1. route \in {"admin", "practice.finish", "none"}
    BY <1>3 DEF Resolve
  <2>2. outs \in {AdminCommand(s), EndRun(s), Done(s)}
    <3> HIDE DEF route
    <3> QED
      BY <2>1, Zenon DEF Handle, FinishRun
  <2>3. AllCalm(s, outs)
    BY <1>2, <2>2
  <2> HIDE DEF outs
  <2> QED
    BY <1>1, <2>3, CalmFrom DEF outs
<1>4. CASE s.stage # "game"
  <2>1. s.quiz = NoQuiz
    BY <1>4 DEF Sound, SoundUser
  <2>2. AllCalm(s, Start(s)) /\ AllCalm(s, MainMenu(s)) /\ AllCalm(s, WordsMenu(s))
    BY <1>1, EnterCalm DEF Start, MainMenu, WordsMenu, Stages
  <2>3. Uncounted(s, StartRun(s, poll))
    BY StartRunUncounted
  <2>4. CASE route = "practice.size"
    <3>1. IsRunLength(text)
      BY <1>4, <2>4 DEF Resolve
    <3>2. AllCalm(s, ChooseSize(s, text.size))
      BY <2>1, <3>1, ChooseSizeCalm DEF IsRunLength
    <3>3. outs = ChooseSize(s, text.size)
      BY <2>4 DEF Handle
    <3> QED
      BY <1>1, <2>1, <3>2, <3>3, CalmFrom
  <2>5. CASE route # "practice.size"
    <3>1. route \in {"start", "menu", "practice.menu", "words.letters",
                    "practice.start", "download", "words.menu",
                    "words.lookup", "admin"}
      BY <1>4, <2>5 DEF Resolve
    <3>2. outs \in
             {Start(s), MainMenu(s), PracticeMenu(s), SearchByLetters(s),
              StartRun(s, poll), Download(s), WordsMenu(s), Lookup(s),
              AdminCommand(s)}
      <4> HIDE DEF route
      <4> QED
        BY <3>1, Zenon DEF Handle
    <3>3. AllCalm(s, outs) \/ outs = StartRun(s, poll)
      BY <1>2, <2>2, <3>2
    <3> HIDE DEF outs
    <3>4. Uncounted(s, outs)
      BY <1>1, <2>3, <3>3, CalmFrom
    <3> QED
      BY <2>1, <3>4 DEF outs
  <2> QED
    BY <2>4, <2>5
<1> QED
  BY <1>3, <1>4

-----------------------------------------------------------------------------
(* ExpiryOnOwnQuestion, of a user who gets into state t.                   *)
ExpiryOwn(u, t) ==
    LET s == st[u]
        replaced == /\ s.quiz # NoQuiz
                    /\ t.quiz # NoQuiz
                    /\ t.quiz.poll # s.quiz.poll
    IN  /\ t.misses > s.misses => OwnExpiry(u)
        /\ replaced => \/ OwnExpiry(u)
                       \/ \E p \in Polls : DispatchPollAnswer(u, p)

EveryoneExpiryOwn == \A u \in Users : ExpiryOwn(u, st'[u])

(* Nothing is counted, and the question stays, goes, or was asked by an    *)
(* answer of the user.                                                     *)
LEMMA UncountedExpiryOwn ==
    ASSUME NEW u \in Users, st[u] \in UserStates, NEW t,
           t.misses \in {0, st[u].misses},
           \/ t.quiz \in {NoQuiz, st[u].quiz}
           \/ st[u].quiz = NoQuiz
           \/ \E p \in Polls : DispatchPollAnswer(u, p)
    PROVE  ExpiryOwn(u, t)
<1>1. st[u].misses \in Nat
  BY DEF UserStates
<1>2. ~(t.misses > st[u].misses)
  BY <1>1
<1> QED
  BY <1>2 DEF ExpiryOwn

LEMMA OneMovesExpiry ==
    ASSUME IInv, NEW u \in Users, NEW t, st' = [st EXCEPT ![u] = t],
           ExpiryOwn(u, t)
    PROVE  EveryoneExpiryOwn
<1>1. ASSUME NEW v \in Users PROVE ExpiryOwn(v, st[v])
  <2>1. st[v] \in UserStates
    BY DEF IInv, TypeOK
  <2> QED
    BY <2>1, UncountedExpiryOwn
<1>2. \A v \in Users : st'[v] = IF v = u THEN t ELSE st[v]
  BY DEF IInv, TypeOK
<1> QED
  BY <1>1, <1>2 DEF EveryoneExpiryOwn

(* Running a handler, Fallback included, which only shows a keyboard.      *)
LEMMA RunExpiry ==
    ASSUME IInv, NEW u \in Users, NEW outcomes \in SUBSET Outcomes,
           Run(u, outcomes), \A o \in outcomes : ExpiryOwn(u, o.s)
    PROVE  EveryoneExpiryOwn
<1>1. PICK o \in outcomes :
        \E t \in IF o.ok THEN {o.s} ELSE Fallback(o) :
            st' = [st EXCEPT ![u] = t]
  BY DEF Run
<1>2. PICK t \in IF o.ok THEN {o.s} ELSE Fallback(o) :
        st' = [st EXCEPT ![u] = t]
  BY <1>1
<1>3. o.s \in UserStates
  BY DEF Outcomes, Sound
<1>4. t = o.s \/ \E kb : t = Show(o.s, kb)
  BY <1>2 DEF Fallback
<1>5. t.quiz = o.s.quiz /\ t.misses = o.s.misses
  BY <1>3, <1>4 DEF Show, UserStates
<1>6. ExpiryOwn(u, t)
  <2>1. ExpiryOwn(u, o.s)
    OBVIOUS
  <2> QED
    BY <1>5, <2>1 DEF ExpiryOwn
<1> QED
  BY <1>2, <1>6, OneMovesExpiry

LEMMA NextExpiry ==
    ASSUME IInv, [Next]_vars
    PROVE  UNCHANGED vars \/ EveryoneExpiryOwn
<1>1. ASSUME NEW u \in Users
      PROVE  /\ st[u] \in Sound /\ st[u] \in UserStates
             /\ NextPoll(u) \in Polls \cup {NoPoll}
  BY NextPollType DEF IInv, TypeOK
<1>2. ASSUME NEW u \in Users, NEW t, Drop(u, t), Calm(st[u], t)
      PROVE  EveryoneExpiryOwn
  <2>1. ExpiryOwn(u, t)
    BY <1>1, <1>2, UncountedExpiryOwn DEF Calm
  <2> QED
    BY <1>2, <2>1, OneMovesExpiry DEF Drop
<1>3. ASSUME NEW u \in Users, NEW text \in Messages, DispatchMessage(u, text)
      PROVE  EveryoneExpiryOwn
  <2> DEFINE outs == Handle(st[u], Resolve(st[u].stage, text), text, NextPoll(u))
  <2>1. Run(u, outs) \/ Drop(u, st[u])
    BY <1>3 DEF DispatchMessage
  <2>2. /\ outs \in SUBSET Outcomes
        /\ Uncounted(st[u], outs)
        /\ st[u].quiz # NoQuiz => AllCalm(st[u], outs)
    BY <1>1, HandleSound, HandleUncounted
  <2> HIDE DEF outs
  <2>3. \A o \in outs : ExpiryOwn(u, o.s)
    BY <1>1, <2>2, UncountedExpiryOwn DEF Uncounted, AllCalm, Calm
  <2>4. Calm(st[u], st[u])
    BY DEF Calm
  <2> QED
    BY <1>2, <2>1, <2>2, <2>3, <2>4, RunExpiry
<1>4. ASSUME NEW u \in Users, NEW p \in Polls, DispatchPollAnswer(u, p)
      PROVE  EveryoneExpiryOwn
  <2> DEFINE s    == Dispatched(st[u], p)
             outs == IF s.stage # "game" THEN Done(s)
                     ELSE Answer(s, p, st[u].polls[p].text, NextPoll(u))
  <2>1. /\ Run(u, outs) \/ Drop(u, s)
        /\ st[u].polls[p].phase = "sent"
    BY <1>4 DEF DispatchPollAnswer
  <2>2. s \in Sound /\ s.misses = st[u].misses /\ s.quiz = st[u].quiz
    <3>1. PICK v \in PollStates : s = [st[u] EXCEPT !.polls[p] = v]
      <4> DEFINE w == [st[u].polls[p] EXCEPT !.phase = "handled"]
      <4>1. st[u].polls[p] \in PollStates
        BY <1>1 DEF UserStates
      <4>2. w \in PollStates
        BY <2>1, <4>1 DEF PollStates
      <4>3. \/ s = [st[u] EXCEPT !.polls[p] = w]
            \/ s = [st[u] EXCEPT !.polls[p] = Shut]
        BY <1>1 DEF Dispatched, UserStates
      <4> QED
        BY <4>2, <4>3, ShutType
    <3>2. s \in Sound
      BY <1>1, <3>1, PollSound
    <3> QED
      BY <1>1, <3>1, <3>2 DEF UserStates
  <2>3. Calm(st[u], s)
    BY <2>2 DEF Calm
  <2> HIDE DEF s
  <2>4. outs \in SUBSET Outcomes
    BY <1>1, <2>2, OutcomesSound, RunHandlersSound
  <2>5. Uncounted(s, outs)
    BY <1>1, <2>2, AnswerUncounted DEF Done, Uncounted
  <2> HIDE DEF outs
  <2>6. \A o \in outs : ExpiryOwn(u, o.s)
    <3>1. Uncounted(st[u], outs)
      BY <2>3, <2>5, CalmFrom
    <3> QED
      BY <1>1, <1>4, <3>1, UncountedExpiryOwn DEF Uncounted
  <2> QED
    BY <1>2, <2>1, <2>3, <2>4, <2>6, RunExpiry
<1>5. ASSUME NEW u \in Users, NEW p \in Polls,
             \/ Close(u, p)
             \/ Confirm(u, p)
             \/ \E given \in Spellings : Pick(u, p, given)
      PROVE  EveryoneExpiryOwn
  <2>1. PICK v : st' = [st EXCEPT ![u].polls[p] = v]
    BY <1>5 DEF Close, Confirm, Pick
  <2> DEFINE t == [st[u] EXCEPT !.polls[p] = v]
  <2>2. st' = [st EXCEPT ![u] = t]
    BY <2>1
  <2>3. t.misses = st[u].misses /\ t.quiz = st[u].quiz
    BY <1>1 DEF UserStates
  <2> HIDE DEF t
  <2>4. ExpiryOwn(u, t)
    BY <1>1, <2>3, UncountedExpiryOwn
  <2> QED
    BY <2>2, <2>4, OneMovesExpiry
<1>6. ASSUME NEW u \in Users, TimerFires(u) PROVE EveryoneExpiryOwn
  <2> DEFINE t == [st[u] EXCEPT !.quiz.armed = FALSE]
  <2>1. st' = [st EXCEPT ![u] = t] /\ st[u].quiz # NoQuiz
    BY <1>6 DEF TimerFires
  <2>2. st[u].quiz \in Quizzes
    BY <1>1, <2>1 DEF UserStates
  <2>3. t.quiz.poll = st[u].quiz.poll /\ t.misses = st[u].misses
    BY <1>1, <2>2 DEF UserStates, Quizzes
  <2> HIDE DEF t
  <2>4. st[u].misses \in Nat
    BY <1>1 DEF UserStates
  <2>5. ExpiryOwn(u, t)
    BY <2>3, <2>4 DEF ExpiryOwn
  <2> QED
    BY <2>1, <2>5, OneMovesExpiry
<1>7. CASE TimedOut
  <2> DEFINE u    == Head(held).user
             outs == IF st[u].stage # "game" THEN Done(st[u])
                     ELSE Timeout(st[u], Head(held).poll, NextPoll(u))
  <2>1. Run(u, outs) \/ Drop(u, st[u])
    BY <1>7 DEF TimedOut
  <2>2. Head(held) \in Timeouts
    BY <1>7 DEF TimedOut, IInv, TypeOK
  <2>3. u \in Users /\ Head(held) = [user |-> u, poll |-> Head(held).poll]
    BY <2>2 DEF Timeouts
  <2>4. outs \in SUBSET Outcomes
    <3> HIDE DEF u
    <3> QED
      BY <1>1, <2>3, OutcomesSound, RunHandlersSound
  <2>5. \A o \in outs : ExpiryOwn(u, o.s)
    <3>1. CASE IsOpen(st[u], Head(held).poll)
      <4>1. OwnExpiry(u)
        BY <1>7, <2>3, <3>1 DEF OwnExpiry, IsOpen
      <4> QED
        BY <4>1 DEF ExpiryOwn
    <3>2. CASE ~IsOpen(st[u], Head(held).poll)
      <4>1. outs = Done(st[u])
        BY <3>2 DEF Timeout
      <4> HIDE DEF outs, u
      <4>2. \A o \in outs : o.s = st[u]
        BY <4>1 DEF Done
      <4> QED
        BY <1>1, <2>3, <4>2, UncountedExpiryOwn
    <3> QED
      BY <3>1, <3>2
  <2> HIDE DEF outs, u
  <2>6. Calm(st[u], st[u])
    BY DEF Calm
  <2> QED
    BY <1>2, <2>1, <2>3, <2>4, <2>5, <2>6, RunExpiry
<1>8. CASE Restart
  <2>1. PICK again \in [Users -> SUBSET Polls] :
          st' = [u \in Users |-> Restarted(st[u], again[u])]
    BY <1>8 DEF Restart
  <2>2. ASSUME NEW u \in Users PROVE ExpiryOwn(u, st'[u])
    <3>1. st'[u] = Restarted(st[u], again[u])
      BY <2>1
    <3>2. st'[u].quiz = NoQuiz /\ st'[u].misses = 0
      BY <1>1, <3>1 DEF Restarted, UserStates
    <3> QED
      BY <1>1, <3>2, UncountedExpiryOwn
  <2> QED
    BY <2>2 DEF EveryoneExpiryOwn
<1>9. CASE WatchTimeouts
  <2>1. st' = st
    BY <1>9 DEF WatchTimeouts
  <2> QED
    BY <1>1, <2>1, UncountedExpiryOwn DEF EveryoneExpiryOwn
<1>10. CASE UNCHANGED vars
  BY <1>10
<1> QED
  BY <1>3, <1>4, <1>5, <1>6, <1>7, <1>8, <1>9, <1>10 DEF Next

(* Through any faults, a miss is counted only by the expiry of the very    *)
(* question that is open, and only that or an answer of the user puts      *)
(* another question in its place (Handlers.Timeout, quizzes.take).         *)
THEOREM ExpiryOnOwnQuestionHolds == Spec => ExpiryOnOwnQuestion
<1>1. IInv /\ [Next]_vars => [EveryoneExpiryOwn]_vars
  BY NextExpiry
<1>2. EveryoneExpiryOwn =>
        \A u \in Users :
          LET s == st[u]
              t == st'[u]
              replaced == /\ s.quiz # NoQuiz
                          /\ t.quiz # NoQuiz
                          /\ t.quiz.poll # s.quiz.poll
          IN  /\ t.misses > s.misses => OwnExpiry(u)
              /\ replaced => \/ OwnExpiry(u)
                             \/ \E p \in Polls : DispatchPollAnswer(u, p)
  BY DEF EveryoneExpiryOwn, ExpiryOwn
<1> QED
  BY <1>1, <1>2, UsersStaySound, PTL DEF Spec, ExpiryOnOwnQuestion

-----------------------------------------------------------------------------
(* The live question, while nothing fails.                                 *)

(* A handler either leaves the question it found, or leaves the run, or    *)
(* leaves a new one: about the word on the row, on the slot it was given,  *)
(* with its clock running.                                                 *)
Live(t, poll) ==
    t.stage = "game" => /\ t.quiz # NoQuiz
                        /\ t.quiz.word = t.word
                        /\ t.quiz.armed
                        /\ t.quiz.poll = poll

Kept(s, t) == t.stage = s.stage /\ t.quiz = s.quiz /\ t.word = s.word

AllLive(outcomes, poll) == \A o \in outcomes : o.ok /\ Live(o.s, poll)
AllKept(s, outcomes) == \A o \in outcomes : o.ok /\ Kept(s, o.s)

LEMMA DoneKept ==
    ASSUME NEW s
    PROVE  AllKept(s, Done(s))
BY DEF Done, AllKept, Kept

LEMMA RepliesKept ==
    ASSUME Faults = {}, NEW s \in UserStates
    PROVE  /\ AllKept(s, SearchByLetters(s))
           /\ AllKept(s, Lookup(s))
           /\ AllKept(s, Download(s))
           /\ AllKept(s, AdminCommand(s))
<1>1. Kept(s, Show(s, "alphabet"))
  BY DEF Kept, Show, UserStates
<1>2. AllKept(s, Done(Show(s, "alphabet")))
  BY <1>1 DEF Done, AllKept
<1> QED
  BY <1>2, DoneKept, NothingFails
  DEF SearchByLetters, Lookup, Download, AdminCommand

(* Every way into another stage.                                           *)
LEMMA EnterLive ==
    ASSUME Faults = {}, NEW s \in UserStates, NEW kb, NEW poll,
           NEW stage \in Stages \ {"game"}
    PROVE  AllLive(Enter(s, stage, kb), poll)
<1>1. Show(MoveTo(s, stage), kb).stage = stage
  BY DEF Show, MoveTo, UserStates
<1> QED
  BY <1>1, NothingFails DEF Enter, Done, AllLive, Live

LEMMA PracticeMenuLive ==
    ASSUME Faults = {}, NEW s \in UserStates, NEW poll
    PROVE  AllLive(PracticeMenu(s), poll)
<1>1. Abandon(Forget(s)) \in UserStates
  BY DEF Abandon, Forget, ResetRun, TakeMissed, UserStates
<1>2. "practice_menu" \in Stages \ {"game"}
  BY DEF Stages
<1>3. AllLive(Enter(Abandon(Forget(s)), "practice_menu", "sizes"), poll)
  BY <1>1, <1>2, EnterLive
<1> QED
  BY <1>3, NothingFails DEF PracticeMenu

LEMMA EndsLive ==
    ASSUME Faults = {}, NEW s \in UserStates, NEW poll
    PROVE  AllLive(EndRun(s), poll) /\ AllLive(CompleteRun(s), poll)
<1>1. "none" \in Keyboards
  BY DEF Keyboards
<1>2. ASSUME NEW t \in UserStates PROVE Show(t, "none") \in UserStates
  BY <1>1 DEF Show, UserStates
<1>3. TakeMissed(s) \in UserStates
  BY DEF TakeMissed, UserStates
<1>4. ASSUME NEW t \in UserStates PROVE AllLive(Results(t), poll)
  BY <1>2, PracticeMenuLive, NothingFails DEF Results
<1> QED
  BY <1>2, <1>3, <1>4, PracticeMenuLive, NothingFails
  DEF EndRun, CompleteRun, Finish

LEMMA ChooseSizeLive ==
    ASSUME Faults = {}, NEW s \in Sound, NEW size \in Sizes, NEW poll
    PROVE  AllLive(ChooseSize(s, size), poll)
<1> DEFINE begun == NewSession(TakeMissed(s), size)
           ready == Show(MoveTo(begun, "practice_readiness"), "readiness")
           told  == [ready EXCEPT !.tutorial = TRUE]
<1>1. begun \in UserStates
  BY TakeMissedSound, ResetRunSound DEF Sound
<1>2. ready \in UserStates /\ ready.stage = "practice_readiness"
  <2> HIDE DEF begun
  <2> QED
    BY <1>1 DEF Show, MoveTo, UserStates, Stages, Keyboards
<1>3. told.stage = "practice_readiness"
  <2> HIDE DEF ready
  <2> QED
    BY <1>2 DEF UserStates
<1>4. AllLive(Done(ready), poll) /\ AllLive(Done(told), poll)
  <2> HIDE DEF ready, told
  <2> QED
    BY <1>2, <1>3 DEF Done, AllLive, Live
<1> QED
  BY <1>4, NothingFails DEF ChooseSize, Begin, AllLive

(* The question just put up is about the word just recorded.               *)
LEMMA SendQuizLive ==
    ASSUME Faults = {}, NEW s \in UserStates, s.word \in Catalog,
           NEW poll \in Polls \cup {NoPoll}
    PROVE  AllLive(SendQuiz(s, s.word, poll), poll)
<1> DEFINE shown == [s EXCEPT !.polls[poll] =
                         [phase |-> "open", text |-> s.word]]
           put   == Put(shown, poll, s.word)
<1>1. CASE poll = NoPoll
  BY <1>1 DEF SendQuiz, AllLive
<1>2. CASE poll # NoPoll
  <2>1. /\ put.quiz = [poll |-> poll, word |-> s.word, armed |-> TRUE]
        /\ put.word = s.word
    BY DEF Put, UserStates
  <2>2. put.quiz # NoQuiz
    <3> HIDE DEF put
    <3>1. put.quiz \in Quizzes
      BY <1>2, <2>1 DEF Quizzes
    <3> QED
      BY <3>1, HandlersAssumption DEF Quizzes
  <2>3. AllLive(Done(put), poll)
    <3> HIDE DEF put
    <3> QED
      BY <2>1, <2>2 DEF Done, AllLive, Live
  <2> QED
    BY <1>2, <2>3, NothingFails DEF SendQuiz, AllLive
<1> QED
  BY <1>1, <1>2

LEMMA AskLive ==
    ASSUME Faults = {}, NEW s \in Sound, NEW poll \in Polls \cup {NoPoll}
    PROVE  AllLive(Ask(s, poll), poll)
<1>1. s \in UserStates /\ Show(s, "none") \in UserStates
  BY ShowSound DEF Sound, Keyboards
<1>2. CASE ~HasSession(s)
  BY <1>1, <1>2, NothingFails, PracticeMenuLive DEF Ask
<1>3. CASE HasSession(s) /\ Question(s) = {}
  BY <1>1, <1>3, NothingFails, EndsLive DEF Ask
<1>4. CASE HasSession(s) /\ Question(s) # {}
  <2>1. ASSUME NEW q \in Question(s)
        PROVE  AllLive(SendQuiz(q, q.word, poll), poll)
    <3>1. PICK w \in Draws(s) : q = SessionAsk(s, w)
      BY DEF Question
    <3>2. q \in UserStates
      BY <3>1, SessionAskSound DEF Sound
    <3>3. q.word = w /\ w \in Catalog
      BY <1>1, <3>1 DEF SessionAsk, UserStates, Draws, RandomAmong, RandomExcept
    <3> QED
      BY <3>2, <3>3, SendQuizLive
  <2>2. Ask(s, poll) = UNION {SendQuiz(q, q.word, poll) : q \in Question(s)}
    BY <1>4, NothingFails DEF Ask
  <2> QED
    BY <2>1, <2>2 DEF AllLive
<1> QED
  BY <1>2, <1>3, <1>4

LEMMA StartRunLive ==
    ASSUME Faults = {}, NEW s \in Sound, NEW poll \in Polls \cup {NoPoll}
    PROVE  AllLive(StartRun(s, poll), poll)
<1>1. Show(MoveTo(s, "game"), "finish") \in Sound
  BY MoveToSound, ShowSound DEF Stages, Keyboards
<1> QED
  BY <1>1, AskLive, NothingFails DEF StartRun

(* An answer that spells the current word is never turned down as stale,   *)
(* which would leave the run without a question.                           *)
LEMMA GradeLive ==
    ASSUME Faults = {}, NEW s \in Sound, s.stage = "game", NEW given,
           s.word # NoWord, Normalize(given) = Normalize(s.word),
           NEW poll \in Polls \cup {NoPoll}
    PROVE  AllLive(Grade(s, given, poll), poll)
<1> DEFINE correct  == given = s.word
           graded   == SessionAnswer(s, given)
           learned  == Remember(graded, s.word, correct)
           recorded == RememberMissed(learned, s.word, correct)
<1>1. s \in UserStates /\ s.word \in Catalog
  BY DEF Sound, UserStates
<1>2. recorded \in Sound
  <2>1. /\ graded \in Sound
        /\ ~correct => Cardinality(graded.missed) < graded.wrong
    BY SessionAnswerSound
  <2>2. correct \in BOOLEAN
    OBVIOUS
  <2> QED
    BY <1>1, <2>1, <2>2, RecordSound
<1>3. recorded \in UserStates
  BY <1>2 DEF Sound
<1> HIDE DEF graded, learned, recorded
<1>4. AllLive(CompleteRun(recorded), poll) /\ AllLive(Ask(recorded, poll), poll)
  BY <1>2, <1>3, EndsLive, AskLive
<1>5. AllLive(PracticeMenu(s), poll)
  BY <1>1, PracticeMenuLive
<1>6. Grade(s, given, poll) \in
         {PracticeMenu(s), CompleteRun(recorded), Ask(recorded, poll)}
  <2>1. DbFails(s, s.stage) = {} /\ DbFails(graded, s.stage) = {}
    BY NothingFails
  <2>2. ~IsStale(s, given)
    BY DEF IsStale
  <2> QED
    BY <2>1, <2>2 DEF Grade, graded, learned, recorded
<1> QED
  BY <1>4, <1>5, <1>6

(* What has expired is nothing to act on unless it is open.                *)
LEMMA RunHandlersLive ==
    ASSUME Faults = {}, NEW s \in Sound, s.stage = "game",
           NEW p, NEW given, NEW poll \in Polls \cup {NoPoll}
    PROVE  /\ \/ ~IsOpen(s, p)
              \/ s.word # NoWord /\ Normalize(given) = Normalize(s.word)
              => AllLive(Answer(s, p, given, poll), poll)
           /\ IF IsOpen(s, p) THEN AllLive(Timeout(s, p, poll), poll)
                              ELSE AllKept(s, Timeout(s, p, poll))
<1> DEFINE c == ClearMisses(Take(s))
           m == CountMiss(Take(s))
<1>1. /\ c \in Sound /\ c.stage = "game"
      /\ m \in Sound /\ m.stage = "game" /\ m \in UserStates
  BY TakeSound, MissesSound DEF Sound
<1>2. c.word = s.word
  BY DEF ClearMisses, Take, Sound, UserStates
<1>3. AllLive(Ask(s, poll), poll)
  BY AskLive
<1>4. s.word # NoWord /\ Normalize(given) = Normalize(s.word)
        => AllLive(Grade(c, given, poll), poll)
  <2> HIDE DEF c
  <2> QED
    BY <1>1, <1>2, GradeLive
<1>5. AllLive(Ask(m, poll), poll) /\ AllLive(EndRun(m), poll)
  <2> HIDE DEF m
  <2> QED
    BY <1>1, AskLive, EndsLive
<1> QED
  BY <1>3, <1>4, <1>5, DoneKept DEF Answer, Timeout

LEMMA HandleLive ==
    ASSUME Faults = {}, NEW s \in Sound, NEW text,
           NEW poll \in Polls \cup {NoPoll}
    PROVE  LET outs == Handle(s, Resolve(s.stage, text), text, poll)
           IN  AllLive(outs, poll) \/ AllKept(s, outs)
<1> DEFINE route == Resolve(s.stage, text)
<1>1. s \in UserStates
  BY DEF Sound
<1>2. /\ AllKept(s, Done(s)) /\ AllKept(s, SearchByLetters(s))
      /\ AllKept(s, Lookup(s)) /\ AllKept(s, Download(s))
      /\ AllKept(s, AdminCommand(s))
  BY <1>1, DoneKept, RepliesKept
<1>3. /\ AllLive(PracticeMenu(s), poll) /\ AllLive(StartRun(s, poll), poll)
      /\ AllLive(FinishRun(s), poll)
  BY <1>1, PracticeMenuLive, StartRunLive, EndsLive DEF FinishRun
<1>4. /\ AllLive(Start(s), poll) /\ AllLive(MainMenu(s), poll)
      /\ AllLive(WordsMenu(s), poll)
  <2>1. {"start", "main_menu", "words"} \subseteq Stages \ {"game"}
    BY DEF Stages
  <2> QED
    BY <1>1, <2>1, EnterLive DEF Start, MainMenu, WordsMenu
<1>5. CASE route = "practice.size"
  <2>1. IsRunLength(text)
    BY <1>5 DEF Resolve
  <2>2. PICK n \in Sizes : text = [size |-> n]
    BY <2>1 DEF IsRunLength
  <2>3. AllLive(ChooseSize(s, text.size), poll)
    BY <2>2, ChooseSizeLive
  <2> QED
    BY <1>5, <2>3 DEF Handle
<1>6. CASE route # "practice.size"
  <2>1. Handle(s, route, text, poll) \in
           {Start(s), MainMenu(s), PracticeMenu(s), SearchByLetters(s),
            Download(s), WordsMenu(s), Lookup(s), AdminCommand(s), Done(s),
            StartRun(s, poll), FinishRun(s)}
    <3> HIDE DEF route
    <3> QED
      BY <1>6, Zenon DEF Handle
  <2> QED
    BY <1>2, <1>3, <1>4, <2>1
<1> QED
  BY <1>5, <1>6

-----------------------------------------------------------------------------
(* Expiries on their way.                                                  *)

In(q, e) == \E i \in 1 .. Len(q) : q[i] = e

LEMMA InQueue ==
    ASSUME NEW S, NEW q \in Seq(S), NEW x \in S, NEW e
    PROVE  /\ In(Append(q, x), e) <=> In(q, e) \/ e = x
           /\ q # <<>> => (In(q, e) <=> e = Head(q) \/ In(Tail(q), e))
           /\ ~In(<<>>, e)
           /\ In(<<x>>, e) <=> e = x
<1>1. In(Append(q, x), e) <=> In(q, e) \/ e = x
  <2>1. /\ Len(Append(q, x)) = Len(q) + 1
        /\ \A i \in 1 .. Len(q) : Append(q, x)[i] = q[i]
        /\ Append(q, x)[Len(q) + 1] = x
        /\ Len(q) \in Nat
    OBVIOUS
  <2> QED
    BY <2>1 DEF In
<1>2. ASSUME q # <<>>
      PROVE  In(q, e) <=> e = Head(q) \/ In(Tail(q), e)
  <2>1. /\ Len(Tail(q)) = Len(q) - 1 /\ Len(q) \in Nat \ {0}
        /\ \A i \in 1 .. Len(q) - 1 : Tail(q)[i] = q[i + 1]
        /\ Head(q) = q[1]
    BY <1>2
  <2>2. In(q, e) => e = Head(q) \/ In(Tail(q), e)
    <3> SUFFICES ASSUME NEW i \in 1 .. Len(q), q[i] = e, i # 1
                 PROVE  In(Tail(q), e)
      BY <2>1 DEF In
    <3>1. i - 1 \in 1 .. Len(q) - 1 /\ Tail(q)[i - 1] = e
      BY <2>1
    <3> QED
      BY <2>1, <3>1 DEF In
  <2>3. e = Head(q) \/ In(Tail(q), e) => In(q, e)
    BY <2>1 DEF In
  <2> QED
    BY <2>2, <2>3
<1>3. ~In(<<>>, e) /\ (In(<<x>>, e) <=> e = x)
  BY DEF In
<1> QED
  BY <1>1, <1>2, <1>3

(* An expiry of a poll of a user's, in the channel or received.            *)
OnItsWay(q, h, u, p) ==
    LET e == [user |-> u, poll |-> p] IN In(q, e) \/ In(h, e)

LEMMA InConcat ==
    ASSUME NEW S, NEW a \in Seq(S), NEW b \in Seq(S), NEW e
    PROVE  (\E i \in DOMAIN (a \o b) : (a \o b)[i] = e) <=> In(a, e) \/ In(b, e)
<1> DEFINE q == a \o b
<1>1. /\ DOMAIN q = 1 .. Len(a) + Len(b)
      /\ \A i \in 1 .. Len(a) : q[i] = a[i]
      /\ \A i \in 1 .. Len(b) : q[Len(a) + i] = b[i]
      /\ Len(a) \in Nat /\ Len(b) \in Nat
  OBVIOUS
<1> HIDE DEF q
<1>2. ASSUME NEW i \in DOMAIN q, q[i] = e
      PROVE  In(a, e) \/ In(b, e)
  <2>1. CASE i <= Len(a)
    BY <1>1, <1>2, <2>1 DEF In
  <2>2. CASE i > Len(a)
    <3>1. i - Len(a) \in 1 .. Len(b) /\ i = Len(a) + (i - Len(a))
      BY <1>1, <2>2
    <3> QED
      BY <1>1, <1>2, <3>1 DEF In
  <2> QED
    BY <1>1, <2>1, <2>2
<1>3. ASSUME NEW i \in 1 .. Len(a), a[i] = e
      PROVE  i \in DOMAIN q /\ q[i] = e
  BY <1>1, <1>3
<1>4. ASSUME NEW i \in 1 .. Len(b), b[i] = e
      PROVE  Len(a) + i \in DOMAIN q /\ q[Len(a) + i] = e
  BY <1>1, <1>4
<1> QED
  BY <1>2, <1>3, <1>4 DEF In, q

LEMMA AnnouncedOnItsWay ==
    ASSUME timeouts \in Seq(Timeouts), held \in Seq(Timeouts), NEW u, NEW p
    PROVE  Announced(u, p) <=> OnItsWay(timeouts, held, u, p)
BY InConcat DEF Announced, OnItsWay

-----------------------------------------------------------------------------
(* What a dispatch does to the question of its user.                       *)
Asks(u, t) == Live(t, NextPoll(u)) \/ Kept(st[u], t)

LEMMA RunLive ==
    ASSUME NEW u \in Users, NEW outcomes, Run(u, outcomes),
           AllLive(outcomes, NextPoll(u)) \/ AllKept(st[u], outcomes)
    PROVE  \E t : st' = [st EXCEPT ![u] = t] /\ Asks(u, t)
BY DEF Run, AllLive, AllKept, Asks

(* Messages, picks and what becomes of a poll: the expiries on their way   *)
(* stay where they are.                                                    *)
LEMMA DispatchLive ==
    ASSUME Faults = {}, IInv, EveryoneShown, RunHasLiveQuestion,
           NEW u \in Users,
           \/ \E text \in Messages : DispatchMessage(u, text)
           \/ \E p \in Polls : \/ DispatchPollAnswer(u, p)
                               \/ Close(u, p)
                               \/ Confirm(u, p)
                               \/ \E given \in Spellings : Pick(u, p, given)
    PROVE  /\ UNCHANGED <<timeouts, held>>
           /\ \E t : st' = [st EXCEPT ![u] = t] /\ Asks(u, t)
<1>1. /\ st[u] \in Sound /\ st[u] \in UserStates /\ Shown(st[u])
      /\ NextPoll(u) \in Polls \cup {NoPoll}
  BY NextPollFree DEF IInv, TypeOK, EveryoneShown
<1>2. ASSUME NEW text \in Messages, DispatchMessage(u, text)
      PROVE  /\ UNCHANGED <<timeouts, held>>
             /\ \E t : st' = [st EXCEPT ![u] = t] /\ Asks(u, t)
  <2> DEFINE outs == Handle(st[u], Resolve(st[u].stage, text), text, NextPoll(u))
  <2>1. Run(u, outs) /\ UNCHANGED <<timeouts, held>>
    BY <1>2 DEF DispatchMessage, Drop
  <2>2. AllLive(outs, NextPoll(u)) \/ AllKept(st[u], outs)
    BY <1>1, HandleLive
  <2> QED
    BY <2>1, <2>2, RunLive
<1>3. ASSUME NEW p \in Polls, DispatchPollAnswer(u, p)
      PROVE  /\ UNCHANGED <<timeouts, held>>
             /\ \E t : st' = [st EXCEPT ![u] = t] /\ Asks(u, t)
  <2> DEFINE s     == Dispatched(st[u], p)
             given == st[u].polls[p].text
             outs  == IF s.stage # "game" THEN Done(s)
                      ELSE Answer(s, p, given, NextPoll(u))
  <2>1. /\ Run(u, outs) /\ UNCHANGED <<timeouts, held>>
        /\ st[u].polls[p].phase = "sent"
    BY <1>3 DEF DispatchPollAnswer, Drop
  <2>2. s = [st[u] EXCEPT !.polls[p] = Shut]
    BY DEF Dispatched
  <2>3. s \in Sound
    BY <1>1, <2>2, PollSound, ShutType
  <2>4. Kept(st[u], s)
    BY <1>1, <2>2 DEF Kept, UserStates
  <2>5. s.stage = "game" /\ IsOpen(s, p)
          => s.word # NoWord /\ Normalize(given) = Normalize(s.word)
    <3> SUFFICES ASSUME s.stage = "game", IsOpen(s, p)
                 PROVE  s.word # NoWord /\ Normalize(given) = Normalize(s.word)
      OBVIOUS
    <3>1. /\ st[u].quiz # NoQuiz /\ st[u].quiz.poll = p
          /\ st[u].quiz.word = st[u].word /\ s.word = st[u].word
      BY <2>4 DEF Kept, IsOpen, RunHasLiveQuestion
    <3>2. st[u].quiz.word \in Catalog
      BY <1>1, <3>1 DEF UserStates, Quizzes
    <3>3. Normalize(given) = Normalize(st[u].quiz.word)
      BY <1>1, <2>1, <3>1 DEF Shown
    <3> QED
      BY <3>1, <3>2, <3>3, PracticeAssumption
  <2>6. CASE s.stage = "game"
    <3> HIDE DEF s, given
    <3>1. AllLive(outs, NextPoll(u))
      BY <1>1, <2>3, <2>5, <2>6, RunHandlersLive
    <3> QED
      BY <2>1, <3>1, RunLive
  <2>7. CASE s.stage # "game"
    <3>1. AllKept(st[u], outs)
      BY <2>4, <2>7 DEF Done, AllKept, Kept
    <3> QED
      BY <2>1, <3>1, RunLive
  <2> QED
    BY <2>6, <2>7
<1>4. ASSUME NEW p \in Polls,
             \/ Close(u, p)
             \/ Confirm(u, p)
             \/ \E given \in Spellings : Pick(u, p, given)
      PROVE  /\ UNCHANGED <<timeouts, held>>
             /\ \E t : st' = [st EXCEPT ![u] = t] /\ Asks(u, t)
  <2>1. PICK v : st' = [st EXCEPT ![u].polls[p] = v]
    BY <1>4 DEF Close, Confirm, Pick
  <2> DEFINE t == [st[u] EXCEPT !.polls[p] = v]
  <2>2. st' = [st EXCEPT ![u] = t]
    BY <2>1
  <2>3. Kept(st[u], t)
    BY <1>1 DEF Kept, UserStates
  <2>4. UNCHANGED <<timeouts, held>>
    BY <1>4 DEF Close, Confirm, Pick
  <2> QED
    BY <2>2, <2>3, <2>4 DEF Asks
<1> QED
  BY <1>2, <1>3, <1>4

(* An expiry dispatched: of a question that is open, it is taken and the   *)
(* run moved on; of another one, nothing happens.                          *)
LEMMA TimedOutLive ==
    ASSUME Faults = {}, IInv, TimedOut
    PROVE  LET u == Head(held).user
               p == Head(held).poll
           IN  /\ held # <<>> /\ u \in Users /\ held' = <<>>
               /\ timeouts' = timeouts
               /\ \E t : /\ st' = [st EXCEPT ![u] = t]
                         /\ \/ Live(t, NextPoll(u))
                            \/ /\ Kept(st[u], t)
                               /\ st[u].stage # "game" \/ ~IsOpen(st[u], p)
<1> DEFINE u    == Head(held).user
           p    == Head(held).poll
           outs == IF st[u].stage # "game" THEN Done(st[u])
                   ELSE Timeout(st[u], p, NextPoll(u))
<1>1. /\ held # <<>> /\ held' = <<>> /\ timeouts' = timeouts
      /\ Run(u, outs)
  BY DEF TimedOut, Drop
<1>2. u \in Users
  <2>1. Head(held) \in Timeouts
    BY <1>1 DEF IInv, TypeOK
  <2> QED
    BY <2>1 DEF Timeouts
<1>3. st[u] \in Sound /\ NextPoll(u) \in Polls \cup {NoPoll}
  <2> HIDE DEF u
  <2> QED
    BY <1>2, NextPollFree DEF IInv
<1>4. \/ AllLive(outs, NextPoll(u))
      \/ /\ AllKept(st[u], outs)
         /\ st[u].stage # "game" \/ ~IsOpen(st[u], p)
  <2> HIDE DEF u, p
  <2> QED
    BY <1>2, <1>3, RunHandlersLive, DoneKept
<1>5. \E t : /\ st' = [st EXCEPT ![u] = t]
             /\ \/ Live(t, NextPoll(u))
                \/ /\ Kept(st[u], t)
                   /\ st[u].stage # "game" \/ ~IsOpen(st[u], p)
  <2> HIDE DEF outs, u, p
  <2> QED
    BY <1>1, <1>4 DEF Run, AllLive, AllKept
<1> QED
  BY <1>1, <1>2, <1>5

-----------------------------------------------------------------------------
(* No expiry is dropped in this step for want of room in the channel.      *)
NothingDropped ==
    (\E u \in Users : TimerFires(u)) => Len(timeouts) < TimeoutBuffer

(* RunHasLiveQuestion, of one user.                                        *)
HasLiveQuestion(s, q, h, u) ==
    s.stage = "game" =>
        /\ s.quiz # NoQuiz
        /\ s.quiz.word = s.word
        /\ s.quiz.armed \/ OnItsWay(q, h, u, s.quiz.poll)

LiveInv ==
    /\ \A u \in Users : HasLiveQuestion(st[u], timeouts, held, u)
    /\ Len(held) <= 1

LEMMA LiveInvIsLive ==
    ASSUME IInv, LiveInv
    PROVE  RunHasLiveQuestion
<1>1. timeouts \in Seq(Timeouts) /\ held \in Seq(Timeouts)
  BY DEF IInv, TypeOK
<1> QED
  BY <1>1, AnnouncedOnItsWay DEF LiveInv, HasLiveQuestion, RunHasLiveQuestion

(* Expiries that were on their way still are, but for those of this poll,  *)
(* which is not the one the user is waiting for.                           *)
LEMMA StillLive ==
    ASSUME NEW s, NEW t, Kept(s, t), NEW q, NEW h, NEW q2, NEW h2, NEW u,
           HasLiveQuestion(s, q, h, u),
           s.stage = "game" /\ OnItsWay(q, h, u, s.quiz.poll)
             => OnItsWay(q2, h2, u, s.quiz.poll)
    PROVE  HasLiveQuestion(t, q2, h2, u)
BY DEF Kept, HasLiveQuestion

LEMMA LiveIsLive ==
    ASSUME NEW t, NEW poll, Live(t, poll), NEW q, NEW h, NEW u
    PROVE  HasLiveQuestion(t, q, h, u)
BY DEF Live, HasLiveQuestion

LEMMA OnlyElement ==
    ASSUME NEW S, NEW q \in Seq(S), q # <<>>, Len(q) <= 1
    PROVE  Len(q) = 1 /\ Head(q) = q[1] /\ q[1] \in S
<1>1. Len(q) \in Nat \ {0}
  OBVIOUS
<1>2. Len(q) = 1
  BY <1>1
<1> QED
  BY <1>2

LEMMA SameKept ==
    ASSUME NEW s
    PROVE  Kept(s, s)
BY DEF Kept

(* A clock that ran out, of a question that otherwise stays.               *)
LEMMA ClockRunsOut ==
    ASSUME NEW s \in UserStates, s.quiz # NoQuiz
    PROVE  LET t == [s EXCEPT !.quiz.armed = FALSE]
           IN  /\ t.stage = s.stage /\ t.word = s.word /\ t.quiz # NoQuiz
               /\ t.quiz.poll = s.quiz.poll /\ t.quiz.word = s.quiz.word
               /\ ~t.quiz.armed
<1> DEFINE t == [s EXCEPT !.quiz.armed = FALSE]
<1>1. s.quiz \in Quizzes
  BY DEF UserStates
<1>2. /\ t.stage = s.stage /\ t.word = s.word
      /\ t.quiz = [s.quiz EXCEPT !.armed = FALSE]
  BY DEF UserStates
<1> HIDE DEF t
<1>3. /\ t.quiz \in Quizzes /\ t.quiz.poll = s.quiz.poll
      /\ t.quiz.word = s.quiz.word /\ ~t.quiz.armed
  BY <1>1, <1>2 DEF Quizzes
<1>4. t.quiz # NoQuiz
  BY <1>3, HandlersAssumption DEF Quizzes
<1> QED
  BY <1>2, <1>3, <1>4 DEF t

(* What TimerFires does to the channel.                                    *)
LEMMA TimerAnnounces ==
    ASSUME IInv, NEW u \in Users, TimerFires(u), [NothingDropped]_vars
    PROVE  LET e == [user |-> u, poll |-> st[u].quiz.poll]
           IN  /\ e \in Timeouts
               /\ Len(timeouts) < TimeoutBuffer
               /\ timeouts' = Append(timeouts, e)
               /\ held' = held
<1> DEFINE e == [user |-> u, poll |-> st[u].quiz.poll]
<1>1. /\ st \in [Users -> UserStates] /\ st[u] \in UserStates
      /\ timeouts \in Seq(Timeouts) /\ TimeoutBuffer \in Nat
  BY ConversationAssumption DEF IInv, TypeOK
<1>2. /\ st' = [st EXCEPT ![u].quiz.armed = FALSE]
      /\ st[u].quiz # NoQuiz /\ st[u].quiz.armed /\ held' = held
  BY DEF TimerFires
<1>3. Len(timeouts) < TimeoutBuffer
  <2>1. ~st'[u].quiz.armed
    BY <1>1, <1>2, ClockRunsOut
  <2>2. NothingDropped
    BY <1>2, <2>1 DEF vars
  <2> QED
    BY <2>2 DEF NothingDropped
<1>4. e \in Timeouts
  BY <1>1, <1>2 DEF UserStates, Quizzes, Timeouts
<1>5. timeouts' = Append(timeouts, e)
  BY <1>3 DEF TimerFires
<1> QED
  BY <1>2, <1>3, <1>4, <1>5

LEMMA NextLive ==
    ASSUME Faults = {}, IInv, EveryoneShown, LiveInv, [Next]_vars,
           [NothingDropped]_vars
    PROVE  LiveInv'
<1>1. /\ timeouts \in Seq(Timeouts) /\ held \in Seq(Timeouts)
      /\ st \in [Users -> UserStates]
  BY DEF IInv, TypeOK
<1>2. ASSUME NEW v \in Users
      PROVE  HasLiveQuestion(st[v], timeouts, held, v) /\ Kept(st[v], st[v])
  BY SameKept DEF LiveInv
<1>3. RunHasLiveQuestion
  BY LiveInvIsLive
<1>4. ASSUME NEW u \in Users,
             \/ \E text \in Messages : DispatchMessage(u, text)
             \/ \E p \in Polls : \/ DispatchPollAnswer(u, p)
                                 \/ Close(u, p)
                                 \/ Confirm(u, p)
                                 \/ \E given \in Spellings : Pick(u, p, given)
      PROVE  LiveInv'
  <2>1. timeouts' = timeouts /\ held' = held
    BY <1>3, <1>4, DispatchLive
  <2>2. PICK t : st' = [st EXCEPT ![u] = t] /\ Asks(u, t)
    BY <1>3, <1>4, DispatchLive
  <2>3. HasLiveQuestion(t, timeouts, held, u)
    BY <1>2, <2>2, StillLive, LiveIsLive DEF Asks
  <2>4. \A v \in Users : HasLiveQuestion(st'[v], timeouts, held, v)
    BY <1>1, <1>2, <2>2, <2>3
  <2> QED
    BY <2>1, <2>4 DEF LiveInv
<1>5. ASSUME NEW u \in Users, TimerFires(u) PROVE LiveInv'
  <2> DEFINE t == [st[u] EXCEPT !.quiz.armed = FALSE]
             e == [user |-> u, poll |-> st[u].quiz.poll]
  <2>1. st' = [st EXCEPT ![u] = t] /\ st[u].quiz # NoQuiz
    BY <1>5 DEF TimerFires
  <2>2. e \in Timeouts /\ timeouts' = Append(timeouts, e) /\ held' = held
    BY <1>5, TimerAnnounces
  <2>3. /\ t.stage = st[u].stage /\ t.word = st[u].word /\ t.quiz # NoQuiz
        /\ t.quiz.poll = st[u].quiz.poll /\ t.quiz.word = st[u].quiz.word
    BY <1>1, <2>1, ClockRunsOut
  <2> HIDE DEF t
  <2>4. ASSUME NEW v, NEW p, OnItsWay(timeouts, held, v, p)
        PROVE  OnItsWay(timeouts', held', v, p)
    <3> DEFINE x == [user |-> v, poll |-> p]
    <3>1. In(timeouts, x) \/ In(held, x)
      BY <2>4 DEF OnItsWay
    <3> HIDE DEF e, x
    <3>2. In(timeouts, x) => In(timeouts', x)
      BY <1>1, <2>2, InQueue
    <3> QED
      BY <2>2, <3>1, <3>2 DEF OnItsWay, x
  <2>5. OnItsWay(timeouts', held', u, t.quiz.poll)
    <3> HIDE DEF e
    <3>1. In(timeouts', e)
      BY <1>1, <2>2, InQueue
    <3> QED
      BY <2>3, <3>1 DEF OnItsWay, e
  <2>6. ASSUME NEW v \in Users
        PROVE  HasLiveQuestion(st'[v], timeouts', held', v)
    <3>1. CASE v = u
      <4>1. st'[v] = t
        BY <1>1, <2>1, <3>1
      <4>2. st[u].stage = "game" => st[u].quiz.word = st[u].word
        BY <1>2 DEF HasLiveQuestion
      <4> QED
        BY <2>3, <2>5, <3>1, <4>1, <4>2 DEF HasLiveQuestion
    <3>2. CASE v # u
      <4>1. st'[v] = st[v]
        BY <1>1, <2>1, <3>2
      <4> QED
        BY <1>2, <2>4, <4>1, StillLive
    <3> QED
      BY <3>1, <3>2
  <2> QED
    BY <2>2, <2>6 DEF LiveInv
<1>6. CASE WatchTimeouts
  <2> DEFINE e == Head(timeouts)
  <2>1. /\ held = <<>> /\ timeouts # <<>> /\ held' = <<e>>
        /\ timeouts' = Tail(timeouts) /\ st' = st
    BY <1>6 DEF WatchTimeouts
  <2>2. e \in Timeouts
    BY <1>1, <2>1
  <2>3. ASSUME NEW v, NEW p, OnItsWay(timeouts, held, v, p)
        PROVE  OnItsWay(timeouts', held', v, p)
    <3> DEFINE x == [user |-> v, poll |-> p]
    <3>1. In(timeouts, x) \/ In(held, x)
      BY <2>3 DEF OnItsWay
    <3> HIDE DEF e, x
    <3>2. In(timeouts, x) <=> x = e \/ In(timeouts', x)
      BY <1>1, <2>1, <2>2, InQueue DEF e
    <3>3. ~In(held, x) /\ (In(held', x) <=> x = e)
      BY <1>1, <2>1, <2>2, InQueue
    <3> QED
      BY <3>1, <3>2, <3>3 DEF OnItsWay, x
  <2>4. Len(held') = 1
    BY <2>1
  <2>5. \A v \in Users : HasLiveQuestion(st'[v], timeouts', held', v)
    BY <1>2, <2>1, <2>3, StillLive
  <2> QED
    BY <2>4, <2>5 DEF LiveInv
<1>7. CASE TimedOut
  <2> DEFINE u == Head(held).user
             p == Head(held).poll
  <2>1. PICK t : /\ st' = [st EXCEPT ![u] = t]
                 /\ \/ Live(t, NextPoll(u))
                    \/ /\ Kept(st[u], t)
                       /\ st[u].stage # "game" \/ ~IsOpen(st[u], p)
    BY <1>7, TimedOutLive
  <2>2. held # <<>> /\ u \in Users /\ held' = <<>> /\ timeouts' = timeouts
    BY <1>7, TimedOutLive
  <2>3. Len(held) = 1 /\ held[1] = [user |-> u, poll |-> p]
    <3>1. Len(held) <= 1
      BY DEF LiveInv
    <3>2. Len(held) = 1 /\ Head(held) = held[1] /\ held[1] \in Timeouts
      BY <1>1, <2>2, <3>1, OnlyElement
    <3>3. \A e \in Timeouts : e = [user |-> e.user, poll |-> e.poll]
      BY DEF Timeouts
    <3> QED
      BY <3>2, <3>3
  <2> HIDE DEF u, p
  <2>4. ASSUME NEW v, NEW x, OnItsWay(timeouts, held, v, x), v # u \/ x # p
        PROVE  OnItsWay(timeouts', held', v, x)
    <3>1. ~In(held, [user |-> v, poll |-> x])
      BY <2>3, <2>4 DEF In
    <3> QED
      BY <2>2, <2>4, <3>1 DEF OnItsWay
  <2>5. ASSUME NEW v \in Users
        PROVE  HasLiveQuestion(st'[v], timeouts', held', v)
    <3>1. CASE v # u
      <4>1. st'[v] = st[v]
        BY <1>1, <2>1, <3>1
      <4> QED
        BY <1>2, <2>4, <3>1, <4>1, StillLive
    <3>2. CASE v = u
      <4>1. st'[v] = t
        BY <1>1, <2>1, <2>2, <3>2
      <4>2. CASE Live(t, NextPoll(u))
        BY <4>1, <4>2, LiveIsLive
      <4>3. CASE /\ Kept(st[u], t)
                 /\ st[u].stage # "game" \/ ~IsOpen(st[u], p)
        <5>1. HasLiveQuestion(st[u], timeouts, held, u)
          BY <1>2, <2>2
        <5>2. st[u].stage = "game" => st[u].quiz.poll # p
          BY <4>3, <5>1 DEF IsOpen, HasLiveQuestion
        <5>3. st[u].stage = "game"
                /\ OnItsWay(timeouts, held, u, st[u].quiz.poll)
              => OnItsWay(timeouts', held', u, st[u].quiz.poll)
          BY <2>4, <5>2
        <5>4. HasLiveQuestion(t, timeouts', held', u)
          BY <4>3, <5>1, <5>3, StillLive
        <5> QED
          BY <3>2, <4>1, <5>4
      <4> QED
        BY <2>1, <4>2, <4>3
    <3> QED
      BY <3>1, <3>2
  <2>6. Len(held') <= 1
    BY <2>2
  <2> QED
    BY <2>5, <2>6 DEF LiveInv
<1>8. CASE UNCHANGED vars
  BY <1>2, <1>8 DEF vars, LiveInv
<1> QED
  BY <1>4, <1>5, <1>6, <1>7, <1>8 DEF Next, Restart

(* A run has a live question for as long as nothing fails and no expiry    *)
(* finds the channel full: that is the only way in which a user who is     *)
(* playing can get stuck (ask, put, startClock, watchTimeouts).            *)
THEOREM LiveWhileNothingDropped ==
    ASSUME Faults = {}, LegacyRows = FALSE
    PROVE  Spec /\ [][NothingDropped]_vars => []RunHasLiveQuestion
<1>1. Init => LiveInv
  BY DEF Init, NewUser, LiveInv, HasLiveQuestion
<1>2. /\ IInv /\ EveryoneShown /\ LiveInv
      /\ [Next]_vars /\ [NothingDropped]_vars
      => LiveInv'
  BY NextLive
<1>3. IInv /\ LiveInv => RunHasLiveQuestion
  BY LiveInvIsLive
<1> QED
  BY <1>1, <1>2, <1>3, UsersStaySound, PollsStayShown, PTL DEF Spec

-----------------------------------------------------------------------------
(* Room in the channel.                                                    *)

(* Announced once, and only when its clock has run out: no poll is in the  *)
(* channel twice, and none whose clock is running is on its way.           *)
AnnouncedOnce ==
    /\ \A i, j \in 1 .. Len(timeouts) : timeouts[i] = timeouts[j] => i = j
    /\ \A u \in Users :
           st[u].quiz # NoQuiz /\ st[u].quiz.armed
             => ~OnItsWay(timeouts, held, u, st[u].quiz.poll)

(* A dispatch starts clocks for new questions only.                        *)
LEMMA AskedUnannounced ==
    ASSUME IInv, IInv', AnnouncedOnce, NEW u \in Users, NEW t,
           st' = [st EXCEPT ![u] = t], Asks(u, t), NEW v \in Users,
           st'[v].quiz # NoQuiz, st'[v].quiz.armed
    PROVE  ~OnItsWay(timeouts, held, v, st'[v].quiz.poll)
<1>1. /\ timeouts \in Seq(Timeouts) /\ held \in Seq(Timeouts)
      /\ st \in [Users -> UserStates] /\ st' \in [Users -> Sound]
  BY DEF IInv, TypeOK
<1>2. CASE v # u
  <2>1. st'[v] = st[v]
    BY <1>1, <1>2
  <2> QED
    BY <2>1 DEF AnnouncedOnce
<1>3. CASE v = u
  <2>1. st'[v] = t
    BY <1>1, <1>3
  <2>2. CASE Kept(st[u], t)
    <3>1. t.quiz = st[u].quiz
      BY <2>2 DEF Kept
    <3> QED
      BY <1>3, <2>1, <3>1 DEF AnnouncedOnce
  <2>3. CASE Live(t, NextPoll(u))
    <3>1. t \in Sound
      BY <1>1, <2>1
    <3>2. t.stage = "game"
      BY <2>1, <3>1 DEF Sound, SoundUser
    <3>3. t.quiz.poll = NextPoll(u)
      BY <2>3, <3>2 DEF Live
    <3>4. t.quiz.poll \in Polls
      BY <2>1, <3>1 DEF Sound, UserStates, Quizzes
    <3>5. ~Announced(u, NextPoll(u))
      BY <3>3, <3>4, NextPollFree, HandlersAssumption
    <3> QED
      BY <1>1, <1>3, <2>1, <3>3, <3>5, AnnouncedOnItsWay
  <2> QED
    BY <2>2, <2>3 DEF Asks
<1> QED
  BY <1>2, <1>3

LEMMA NextAnnouncedOnce ==
    ASSUME Faults = {}, IInv, IInv', EveryoneShown, LiveInv, AnnouncedOnce,
           [Next]_vars
    PROVE  AnnouncedOnce'
<1>1. /\ timeouts \in Seq(Timeouts) /\ held \in Seq(Timeouts)
      /\ st \in [Users -> UserStates]
  BY DEF IInv, TypeOK
<1>2. RunHasLiveQuestion
  BY LiveInvIsLive
<1>3. ASSUME NEW u \in Users,
             \/ \E text \in Messages : DispatchMessage(u, text)
             \/ \E p \in Polls : \/ DispatchPollAnswer(u, p)
                                 \/ Close(u, p)
                                 \/ Confirm(u, p)
                                 \/ \E given \in Spellings : Pick(u, p, given)
      PROVE  AnnouncedOnce'
  <2>1. timeouts' = timeouts /\ held' = held
    BY <1>2, <1>3, DispatchLive
  <2>2. PICK t : st' = [st EXCEPT ![u] = t] /\ Asks(u, t)
    BY <1>2, <1>3, DispatchLive
  <2> QED
    BY <2>1, <2>2, AskedUnannounced DEF AnnouncedOnce
<1>4. ASSUME NEW u \in Users, TimerFires(u) PROVE AnnouncedOnce'
  <2> DEFINE t == [st[u] EXCEPT !.quiz.armed = FALSE]
             e == [user |-> u, poll |-> st[u].quiz.poll]
  <2>1. /\ st' = [st EXCEPT ![u] = t] /\ held' = held
        /\ st[u].quiz # NoQuiz /\ st[u].quiz.armed
        /\ timeouts' \in {timeouts, Append(timeouts, e)}
    BY <1>4 DEF TimerFires
  <2>2. ~t.quiz.armed
    BY <1>1, <2>1, ClockRunsOut
  <2>3. e \in Timeouts
    BY <1>1, <2>1 DEF UserStates, Quizzes, Timeouts
  <2>4. ~In(timeouts, e)
    BY <2>1 DEF AnnouncedOnce, OnItsWay
  <2> HIDE DEF t
  <2>5. ASSUME NEW v \in Users, st'[v].quiz # NoQuiz, st'[v].quiz.armed
        PROVE  ~OnItsWay(timeouts', held', v, st'[v].quiz.poll)
    <3>1. v # u /\ st'[v] = st[v]
      BY <1>1, <2>1, <2>2, <2>5
    <3> DEFINE x == [user |-> v, poll |-> st[v].quiz.poll]
    <3>2. ~In(timeouts, x) /\ ~In(held, x)
      <4>1. ~OnItsWay(timeouts, held, v, st[v].quiz.poll)
        BY <2>5, <3>1 DEF AnnouncedOnce
      <4> QED
        BY <4>1 DEF OnItsWay
    <3>3. x # e
      BY <3>1
    <3> HIDE DEF x, e
    <3>4. ~In(timeouts', x)
      <4>1. ~In(Append(timeouts, e), x)
        BY <1>1, <2>3, <3>2, <3>3, InQueue
      <4> QED
        BY <2>1, <3>2, <4>1
    <3> QED
      BY <2>1, <3>1, <3>2, <3>4 DEF OnItsWay, x
  <2>6. \A i, j \in 1 .. Len(timeouts') : timeouts'[i] = timeouts'[j] => i = j
    <3> HIDE DEF e
    <3>1. CASE timeouts' = timeouts
      BY <3>1 DEF AnnouncedOnce
    <3>2. CASE timeouts' = Append(timeouts, e)
      <4>1. /\ Len(timeouts') = Len(timeouts) + 1 /\ Len(timeouts) \in Nat
            /\ \A i \in 1 .. Len(timeouts) : timeouts'[i] = timeouts[i]
            /\ timeouts'[Len(timeouts) + 1] = e
        BY <1>1, <2>3, <3>2
      <4>2. \A i, j \in 1 .. Len(timeouts) : timeouts[i] = timeouts[j] => i = j
        BY DEF AnnouncedOnce
      <4>3. \A i \in 1 .. Len(timeouts) : timeouts[i] # e
        BY <2>4 DEF In
      <4> QED
        BY <4>1, <4>2, <4>3
    <3> QED
      BY <2>1, <3>1, <3>2
  <2> QED
    BY <2>5, <2>6 DEF AnnouncedOnce
<1>5. CASE WatchTimeouts
  <2> DEFINE e == Head(timeouts)
  <2>1. /\ held = <<>> /\ timeouts # <<>> /\ held' = <<e>>
        /\ timeouts' = Tail(timeouts) /\ st' = st
    BY <1>5 DEF WatchTimeouts
  <2>2. e \in Timeouts
    BY <1>1, <2>1
  <2>3. ASSUME NEW v, NEW p, OnItsWay(timeouts', held', v, p)
        PROVE  OnItsWay(timeouts, held, v, p)
    <3> DEFINE x == [user |-> v, poll |-> p]
    <3>1. In(timeouts', x) \/ In(held', x)
      BY <2>3 DEF OnItsWay
    <3> HIDE DEF e, x
    <3>2. In(timeouts, x) <=> x = e \/ In(timeouts', x)
      BY <1>1, <2>1, <2>2, InQueue DEF e
    <3>3. In(held', x) <=> x = e
      BY <1>1, <2>1, <2>2, InQueue
    <3> QED
      BY <3>1, <3>2, <3>3 DEF OnItsWay, x
  <2>4. \A i, j \in 1 .. Len(timeouts') : timeouts'[i] = timeouts'[j] => i = j
    <3>1. /\ Len(timeouts') = Len(timeouts) - 1 /\ Len(timeouts) \in Nat
          /\ \A i \in 1 .. Len(timeouts) - 1 : timeouts'[i] = timeouts[i + 1]
      BY <1>1, <2>1
    <3> QED
      BY <3>1 DEF AnnouncedOnce
  <2> QED
    BY <2>1, <2>3, <2>4 DEF AnnouncedOnce
<1>6. CASE TimedOut
  <2> DEFINE u == Head(held).user
             p == Head(held).poll
  <2>1. PICK t : st' = [st EXCEPT ![u] = t] /\ Asks(u, t)
    BY <1>6, TimedOutLive DEF Asks
  <2>2. u \in Users /\ held' = <<>> /\ timeouts' = timeouts
    BY <1>6, TimedOutLive
  <2> HIDE DEF u
  <2>3. ASSUME NEW v, NEW x, OnItsWay(timeouts', held', v, x)
        PROVE  OnItsWay(timeouts, held, v, x)
    BY <2>2, <2>3 DEF OnItsWay, In
  <2>4. ASSUME NEW v \in Users, st'[v].quiz # NoQuiz, st'[v].quiz.armed
        PROVE  ~OnItsWay(timeouts, held, v, st'[v].quiz.poll)
    BY <2>1, <2>2, <2>4, AskedUnannounced
  <2> QED
    BY <2>2, <2>3, <2>4 DEF AnnouncedOnce
<1>7. CASE UNCHANGED vars
  BY <1>7 DEF vars, AnnouncedOnce
<1> QED
  BY <1>3, <1>4, <1>5, <1>6, <1>7 DEF Next, Restart

(* A sequence without repetition has room in it for what is not in it.     *)
LEMMA RoomFor ==
    ASSUME NEW S, IsFiniteSet(S), NEW q \in Seq(S), NEW e \in S, ~In(q, e),
           \A i, j \in 1 .. Len(q) : q[i] = q[j] => i = j
    PROVE  Len(q) < Cardinality(S)
<1> DEFINE n == Len(q) + 1
           f == Append(q, e)
<1>1. /\ n \in Nat /\ Len(q) \in Nat /\ f \in [1 .. n -> S]
      /\ \A i \in 1 .. Len(q) : f[i] = q[i]
      /\ f[n] = e
  <2>1. Len(q) \in Nat /\ f \in Seq(S) /\ Len(f) = n
    OBVIOUS
  <2>2. (\A i \in 1 .. Len(q) : f[i] = q[i]) /\ f[n] = e
    OBVIOUS
  <2>3. f \in [1 .. n -> S]
    <3> HIDE DEF f, n
    <3> QED
      BY <2>1
  <2> QED
    BY <2>1, <2>2, <2>3
<1>2. \A i \in 1 .. Len(q) : q[i] # e
  BY DEF In
<1> HIDE DEF f
<1>3. ASSUME NEW i \in 1 .. n, NEW j \in 1 .. n, f[i] = f[j]
      PROVE  i = j
  BY <1>1, <1>2, <1>3
<1>4. IsFiniteSet(1 .. n) /\ Cardinality(1 .. n) = n
  BY <1>1, FS_Interval
<1>5. Cardinality(S) \in Nat
  BY FS_CardinalityType
<1>6. ~(Cardinality(S) < Cardinality(1 .. n))
  BY <1>1, <1>3, <1>4, FS_PigeonHole
<1> QED
  BY <1>1, <1>4, <1>5, <1>6

LEMMA TimeoutsCount ==
    ASSUME IsFiniteSet(Users), IsFiniteSet(Polls)
    PROVE  /\ IsFiniteSet(Timeouts)
           /\ Cardinality(Timeouts) <= Cardinality(Users) * Cardinality(Polls)
<1> DEFINE f == [x \in Users \X Polls |-> [user |-> x[1], poll |-> x[2]]]
<1>1. f \in [Users \X Polls -> Timeouts]
  BY DEF Timeouts
<1>2. ASSUME NEW e \in Timeouts PROVE \E x \in Users \X Polls : f[x] = e
  <2>1. /\ e.user \in Users /\ e.poll \in Polls
        /\ e = [user |-> e.user, poll |-> e.poll]
    BY DEF Timeouts
  <2>2. <<e.user, e.poll>> \in Users \X Polls
    BY <2>1
  <2>3. f[<<e.user, e.poll>>] = [user |-> e.user, poll |-> e.poll]
    BY <2>2
  <2> QED
    BY <2>1, <2>2, <2>3
<1>3. f \in Surjection(Users \X Polls, Timeouts)
  <2> HIDE DEF f
  <2> QED
    BY <1>1, <1>2 DEF Surjection
<1>4. /\ IsFiniteSet(Users \X Polls)
      /\ Cardinality(Users \X Polls) = Cardinality(Users) * Cardinality(Polls)
  BY FS_Product
<1>5. /\ IsFiniteSet(Timeouts)
      /\ Cardinality(Timeouts) <= Cardinality(Users \X Polls)
  <2> HIDE DEF f
  <2> QED
    BY <1>3, <1>4, FS_Surjection
<1> QED
  BY <1>4, <1>5

(* With a place in the channel for every poll there may be, no expiry is   *)
(* dropped: a run has a live question for as long as nothing fails (ask,   *)
(* put, startClock, watchTimeouts).                                        *)
THEOREM RunHasLiveQuestionHolds ==
    ASSUME Faults = {}, LegacyRows = FALSE,
           IsFiniteSet(Users), IsFiniteSet(Polls),
           TimeoutBuffer >= Cardinality(Users) * Cardinality(Polls)
    PROVE  Spec => []RunHasLiveQuestion
<1>1. Init => LiveInv /\ AnnouncedOnce
  BY DEF Init, NewUser, LiveInv, HasLiveQuestion, AnnouncedOnce
<1>2. IInv /\ AnnouncedOnce => NothingDropped
  <2> SUFFICES ASSUME IInv, AnnouncedOnce, NEW u \in Users, TimerFires(u)
               PROVE  Len(timeouts) < TimeoutBuffer
    BY DEF NothingDropped
  <2> DEFINE e == [user |-> u, poll |-> st[u].quiz.poll]
  <2>1. /\ timeouts \in Seq(Timeouts) /\ st[u] \in UserStates
        /\ TimeoutBuffer \in Nat
    BY ConversationAssumption DEF IInv, TypeOK
  <2>2. st[u].quiz # NoQuiz /\ st[u].quiz.armed
    BY DEF TimerFires
  <2>3. e \in Timeouts
    BY <2>1, <2>2 DEF UserStates, Quizzes, Timeouts
  <2>4. ~In(timeouts, e)
    BY <2>2 DEF AnnouncedOnce, OnItsWay
  <2>5. \A i, j \in 1 .. Len(timeouts) : timeouts[i] = timeouts[j] => i = j
    BY DEF AnnouncedOnce
  <2> HIDE DEF e
  <2>6. Len(timeouts) < Cardinality(Timeouts)
    BY <2>1, <2>3, <2>4, <2>5, TimeoutsCount, RoomFor
  <2>7. /\ Len(timeouts) \in Nat /\ Cardinality(Timeouts) \in Nat
        /\ Cardinality(Users) * Cardinality(Polls) \in Nat
    BY <2>1, TimeoutsCount, FS_CardinalityType
  <2> QED
    BY <2>1, <2>6, <2>7, TimeoutsCount
<1>3. /\ IInv /\ IInv' /\ EveryoneShown /\ LiveInv /\ AnnouncedOnce
      /\ [Next]_vars
      => LiveInv' /\ AnnouncedOnce'
  BY <1>2, NextLive, NextAnnouncedOnce
<1>4. IInv /\ LiveInv => RunHasLiveQuestion
  BY LiveInvIsLive
<1> QED
  BY <1>1, <1>3, <1>4, UsersStaySound, PollsStayShown, PTL DEF Spec

=============================================================================
