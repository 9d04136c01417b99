----------------------------- MODULE Vocabulary ------------------------------
(***************************************************************************)
(* The words a user sees: the quizzes of a run (Questions) and the list    *)
(* they browse outside of one (WordList), in turn.                         *)
(***************************************************************************)
EXTENDS Integers, Sequences

CONSTANTS
    MaxLetters, LeastStresses, MostStresses, NoQuestion,
    LastLetter, WordsPerLetter, LongestMessage, Seeded, NoReply

VARIABLES question, verdict, catalog, letters, message, reply

quiz == <<question, verdict>>
list == <<message, reply>>

vars == <<quiz, catalog, letters, list>>

Quiz == INSTANCE Questions
List == INSTANCE WordList

ASSUME VocabularyAssumption ==
    /\ MaxLetters \in Nat /\ LeastStresses \in Nat /\ MostStresses \in Nat
    /\ LastLetter \in Nat /\ WordsPerLetter \in Nat /\ LongestMessage \in Nat
    /\ Seeded \in BOOLEAN
    /\ NoQuestion \notin [word : Quiz!Words, options : Seq(Quiz!Spellings),
                         correct : Nat, picked : Nat]

Init == Quiz!Init /\ List!Init

(* Next to a quiz the list of before is of no matter.                      *)
Practise ==
    /\ Quiz!Next
    /\ message' = <<>> /\ reply' = NoReply
    /\ UNCHANGED <<catalog, letters>>

(* In a run letters are not a request (Resolve).                           *)
Browse ==
    /\ question = NoQuestion
    /\ List!Next
    /\ UNCHANGED quiz

Next == Practise \/ Browse

Spec == Init /\ [][Next]_vars

-----------------------------------------------------------------------------
(* "The correct answer is always among them", and they are as many         *)
(* spellings of the word: every word that is drawn can be put              *)
(* (AnswerVariants, ask).                                                  *)
AnswerOffered == Quiz!AnswerOffered

(* What Telegram shows the user to be right is what the bot counts as      *)
(* right (Answer).                                                         *)
GradedAsShown == Quiz!GradedAsShown

(* The options are no tell: each could be the answer, for all they show in *)
(* number and order (AnswerVariants).                                      *)
NoTell == Quiz!NoTell

(* The alphabet leads to every word, and to no empty list (NewCatalog).    *)
AlphabetLeadsToWords == List!AlphabetLeadsToWords

(* Each word asked for is listed once, under the one heading of its letter, *)
(* and no other is (ByLetters, groupByLetter).                             *)
ListedUnderEach == List!ListedUnderEach

=============================================================================
