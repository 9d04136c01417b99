------------------------------ MODULE Practice ------------------------------
(***************************************************************************)
(* A practice run as internal/practice sees it: the session kept on the    *)
(* user's row, the draw of the next word, the grading of an answer and the *)
(* learned and missed sets that follow it.                                 *)
(*                                                                         *)
(* The operators work on the state of one user (the record the Handlers    *)
(* module describes) and only touch its practice fields:                   *)
(*                                                                         *)
(*   size, answered, correct, wrong, word, asked   the session on the row  *)
(*   learned                                       the users_xp row        *)
(*   missed                                        Service.missed          *)
(*                                                                         *)
(* A spelling is a pair: the plain word and where its stress is put.  Two  *)
(* catalogue entries with the same plain word are homographs, as "vYhoda"  *)
(* and "vyhOda" are in the word list.                                      *)
(*                                                                         *)
(* Here and in the other modules, a definition whose comment says Mutant   *)
(* is not the code: it is the definition after it with a plausible bug put *)
(* in, and shows that some property would notice.                          *)
(***************************************************************************)
EXTENDS Integers, FiniteSets

CONSTANTS
    Words,      \* plain words, as words.Normalize returns them
    Stresses,   \* the ways of stressing a word
    Catalog,    \* the accented spellings of the word list
    Sizes,      \* the run lengths on offer (practice.Sizes)
    NoWord      \* the empty current word

Spellings == Words \X Stresses

ASSUME PracticeAssumption ==
    /\ Catalog \subseteq Spellings
    /\ IsFiniteSet(Catalog)
    /\ Sizes \subseteq Nat \ {0}
    /\ NoWord \notin Spellings

(* What two spellings share: lower-cased, the stress is gone.              *)
Normalize(spelling) == spelling[1]

(* Everything a quiz may offer for a word: spellings of that same word.    *)
Variants(word) == {Normalize(word)} \X Stresses

-----------------------------------------------------------------------------
(* Sessions.Load refuses a row that holds no length on offer.              *)
HasSession(s) == s.size \in Sizes

(* Sessions.Reset: the counters and the words go, the length stays.        *)
ResetRun(s) ==
    [s EXCEPT !.answered = 0, !.correct = 0, !.wrong = 0,
              !.word = NoWord, !.asked = {}]

(* NewSession followed by Sessions.Save.                                   *)
NewSession(s, size) == [ResetRun(s) EXCEPT !.size = size]

(* Session.Ask followed by Sessions.Save.                                  *)
SessionAsk(s, word) == [s EXCEPT !.word = word, !.asked = @ \cup {word}]

(* Session.Answer, for a session that has a current word.                  *)
SessionAnswer(s, given) ==
    IF given = s.word
    THEN [s EXCEPT !.answered = @ + 1, !.correct = @ + 1, !.word = NoWord]
    ELSE [s EXCEPT !.answered = @ + 1, !.wrong = @ + 1, !.word = NoWord,
                   !.asked = @ \ {s.word}]

(* Mutant: one answer too many.                                            *)
CompleteLate(s) == s.answered > s.size

Complete(s) == s.answered >= s.size

(* Mutant: the words the run has used are drawn again.                     *)
DrawsAnything(s) == Catalog

(* The catalogue's draws, over what each may yield.                        *)
RandomExcept(exclude) == Catalog \ exclude
RandomAmong(candidates, exclude) == (candidates \cap Catalog) \ exclude

(* Service.draw: now and then a word from the learned ones, otherwise, and *)
(* when none of those is left, from the whole list; a word the run has     *)
(* used never.  Nothing to draw is ErrOutOfWords.                          *)
Draws(s) == RandomAmong(s.learned, s.asked) \cup RandomExcept(s.asked)

(* Service.Question, for a run: the session it saves, over the draws.      *)
Question(s) == {SessionAsk(s, word) : word \in Draws(s)}

-----------------------------------------------------------------------------
(* LearnedWords.Add and LearnedWords.Remove.                               *)
LearnedAdd(s, word) == [s EXCEPT !.learned = @ \cup {word}]
LearnedRemove(s, word) == [s EXCEPT !.learned = @ \ {word}]

(* Mutant: the word is read off the session after it has been cleared.     *)
RememberCleared(s, word, correct) ==
    IF correct THEN LearnedAdd(s, s.word) ELSE LearnedRemove(s, s.word)

(* Service.remember: the learned set follows the latest verdict.           *)
Remember(s, word, correct) ==
    IF correct THEN LearnedAdd(s, word) ELSE LearnedRemove(s, word)

(* Service.rememberMissed, called for a wrong answer only.                 *)
RememberMissed(s, word, correct) ==
    [s EXCEPT !.missed = IF correct THEN @ ELSE @ \cup {word}]

(* Mutant: the missed words stay.                                          *)
KeepMissed(s) == s

(* Service.takeMissed.                                                     *)
TakeMissed(s) == [s EXCEPT !.missed = {}]

(* Service.Begin, after its Reset, Service.Abandon and Service.Finish.     *)
Begin(s, size) == NewSession(TakeMissed(s), size)
Abandon(s) == ResetRun(TakeMissed(s))
Finish(s) == TakeMissed(s)

(* Mutant: any answer is taken for one to the current word.                *)
IsStaleNever(s, given) == s.word = NoWord

(* Service.Answer grades only an answer that spells the current word.      *)
IsStale(s, given) ==
    \/ s.word = NoWord
    \/ Normalize(given) # Normalize(s.word)

=============================================================================
