----------------------------- MODULE Questions ------------------------------
(***************************************************************************)
(* What a quiz offers for a word (internal/words, internal/accent), and    *)
(* the way of a pick back to a verdict: the spellings with one stress or   *)
(* with two, the index Telegram is told is right, and the spelling the     *)
(* bot compares with the word when an index comes back.                    *)
(*                                                                         *)
(* A spelling is its length, the positions of its vowels and those of its  *)
(* capitals.  Which letters they are is of no matter.                      *)
(***************************************************************************)
EXTENDS Integers, Sequences, FiniteSets, SequencesExt

CONSTANTS
    MaxLetters,     \* bounds the words
    LeastStresses,  \* stresses of the words in the list
    MostStresses,
    NoQuestion

(* Service.doubleOptions: none, or from one to maxDoubles.                 *)
DoubleOptions == 0 .. 2

Spellings ==
    {s \in [letters : 1 .. MaxLetters, vowels : SUBSET (1 .. MaxLetters),
            capitals : SUBSET (1 .. MaxLetters)] :
        s.vowels \cup s.capitals \subseteq 1 .. s.letters}

(* ParseAccentMask.                                                        *)
AccentMask(word) == word.capitals \cap word.vowels

(* Words as the seeded list has them: two vowels at least, and nothing but *)
(* vowels in capitals.  That is an assumption on the list: NewCatalog and  *)
(* validate let other rows pass.                                           *)
Words ==
    {w \in Spellings :
        /\ Cardinality(w.vowels) >= 2
        /\ w.capitals \subseteq w.vowels
        /\ Cardinality(w.capitals) \in LeastStresses .. MostStresses}

Normalize(word) == [word EXCEPT !.capitals = {}]

(* applyAccentMask passes over what is not a position of the word.         *)
ApplyAccentMask(word, mask) ==
    [word EXCEPT !.capitals = mask \cap (1 .. word.letters)]

(* The positions of the vowels, from left to right: up to the i-th, there  *)
(* are i of them.                                                          *)
VowelPositions(word) ==
    [i \in 1 .. Cardinality(word.vowels) |->
        CHOOSE v \in word.vowels :
            Cardinality({u \in word.vowels : u <= v}) = i]

-----------------------------------------------------------------------------
(* The spellings on offer.                                                 *)

(* Mutant: the vowels are counted, where their positions are meant.        *)
GetCountedAccents(word) ==
    [i \in DOMAIN VowelPositions(word) |-> ApplyAccentMask(word, {i})]

(* GetPossibleAccents: each vowel in turn.                                 *)
GetPossibleAccents(word) ==
    [i \in DOMAIN VowelPositions(word) |->
        ApplyAccentMask(word, {VowelPositions(word)[i]})]

DoubleVariants(word) ==
    {ApplyAccentMask(word, pair) : pair \in kSubset(2, word.vowels)}

(* Up to n wrong ones, in any choice.                                      *)
Decoys(word, n) ==
    LET wrong == DoubleVariants(word) \ {word}
    IN IF n <= 0 THEN {{}} ELSE kSubset(Min({n, Cardinality(wrong)}), wrong)

(* Mutant: the right one comes first.                                      *)
ShuffledBehind(word, chosen) ==
    IF word \in chosen
    THEN {<<word>> \o order : order \in SetToSeqs(chosen \ {word})}
    ELSE SetToSeqs(chosen)

(* The double ones in any order.                                           *)
Shuffled(word, chosen) == SetToSeqs(chosen)

(* Mutant: as many double ones as were asked for, be it none.              *)
DoublesAsked(word, doubles) == doubles

(* A word stressed twice is not left without its answer.                   *)
Doubles(word, doubles) ==
    IF Cardinality(AccentMask(word)) = 2 /\ doubles < 1 THEN 1 ELSE doubles

(* AnswerVariants, over all it may return.                                 *)
AnswerVariants(word, doubles) ==
    LET singles == GetPossibleAccents(word)
        wanted == Doubles(word, doubles)
        right == IF Cardinality(AccentMask(word)) = 2 /\ wanted > 0
                 THEN {word} ELSE {}
    IN IF Cardinality(AccentMask(word)) > 2
       THEN {Append(singles, word)}
       ELSE UNION {{singles \o order :
                        order \in Shuffled(word, right \cup decoys)} :
                   decoys \in Decoys(word, wanted - Cardinality(right))}

-----------------------------------------------------------------------------
VARIABLES
    question,       \* the question that is put, or NoQuestion
    verdict         \* what has become of the pick

vars == <<question, verdict>>

(* Where the answer is among the options, 0 when it is not.                *)
IndexOf(options, word) == SelectInSeq(options, LAMBDA option : option = word)

Init ==
    /\ question = NoQuestion
    /\ verdict = "none"

(* Service.Question and ask.  An answer that is not among the options is   *)
(* an error, and the quiz is not sent.                                     *)
Put(word) ==
    /\ question = NoQuestion
    /\ \E doubles \in DoubleOptions :
           \E options \in AnswerVariants(word, doubles) :
               question' = [word |-> word, options |-> options,
                            correct |-> IndexOf(options, word), picked |-> 0]
    /\ UNCHANGED verdict

(* Mutant: any spelling of the word will do.                               *)
IsRightAnyway(given, word) == Normalize(given) = Normalize(word)

(* Session.Answer.                                                         *)
IsRight(given, word) == given = word

(* Answer: the index that comes back is looked up in the options.          *)
Answer(i) ==
    /\ question # NoQuestion
    /\ question.correct # 0
    /\ verdict = "none"
    /\ i \in DOMAIN question.options
    /\ verdict' = IF IsRight(question.options[i], question.word)
                  THEN "right" ELSE "wrong"
    /\ question' = [question EXCEPT !.picked = i]

(* The run moves on.                                                       *)
Continue ==
    /\ verdict # "none"
    /\ question' = NoQuestion
    /\ verdict' = "none"

Next ==
    \/ \E word \in Words : Put(word)
    \/ \E i \in 1 .. MaxLetters + 2 : Answer(i)
    \/ Continue

Spec == Init /\ [][Next]_vars

-----------------------------------------------------------------------------
(* "The correct answer is always among them", and they are as many         *)
(* spellings of the word, each with a stress: every word that is drawn can *)
(* be put (AnswerVariants, ask).                                           *)
AnswerOffered ==
    question # NoQuestion =>
        /\ question.correct # 0
        /\ IsInjective(question.options)
        /\ \A i \in DOMAIN question.options :
               /\ Normalize(question.options[i]) = Normalize(question.word)
               /\ AccentMask(question.options[i]) # {}

(* What Telegram shows the user to be right is what the bot counts as      *)
(* right: "nothing is said here about the verdict itself" (Answer).        *)
GradedAsShown ==
    verdict # "none" => (verdict = "right" <=> question.picked = question.correct)

(* The options are no tell: each of them could be the answer, for all they *)
(* show, in their number and in their order (AnswerVariants).  Words with  *)
(* more than two stresses are offered as they are.                         *)
NoTell ==
    question # NoQuestion /\ Cardinality(AccentMask(question.word)) <= 2 =>
        \A i \in DOMAIN question.options :
            \E doubles \in DoubleOptions :
                question.options \in AnswerVariants(question.options[i], doubles)

=============================================================================
