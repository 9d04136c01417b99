------------------------------ MODULE WordList ------------------------------
(***************************************************************************)
(* The word browser: the catalogue built at start-up from the rows of the  *)
(* database (internal/accent), the alphabet it puts on the keyboard, and   *)
(* the list a user gets for a message of letters (internal/words,          *)
(* responses.WordList).                                                    *)
(*                                                                         *)
(* A word is a pair of its first letter and a number; letters are numbers, *)
(* too, so that a smaller one comes first in the alphabet.  The rows come  *)
(* in the order of their ids, which is that of the alphabet in the list    *)
(* the bot seeds, and any in a database it finds.                          *)
(***************************************************************************)
EXTENDS Integers, Sequences, FiniteSets, SequencesExt

CONSTANTS
    LastLetter,     \* letters of the alphabet
    WordsPerLetter, \* bounds the words
    LongestMessage, \* bounds the letters in a message
    Seeded,         \* whether the rows are in alphabetical order
    NoReply

Alphabet == 1 .. LastLetter
Words == Alphabet \X (1 .. WordsPerLetter)

(* Accent.Letter.                                                          *)
Letter(word) == word[1]

Precedes(a, b) == a[1] < b[1] \/ (a[1] = b[1] /\ a[2] < b[2])

(* Accents.All: the rows there may be, in the order they are read.         *)
Tables ==
    {rows \in UNION {SetToSeqs(s) : s \in SUBSET Words} :
        Seeded => \A i, j \in DOMAIN rows :
                      i < j => Precedes(rows[i], rows[j])}

(* The messages IsLetterList lets through.                                 *)
Messages == UNION {[1 .. n -> Alphabet] : n \in 1 .. LongestMessage}

VARIABLES
    catalog,        \* Catalog.accents
    letters,        \* Catalog.letters
    message,        \* the letters the user has sent last
    reply           \* the sections of the list sent back

vars == <<catalog, letters, message, reply>>

-----------------------------------------------------------------------------
(* Mutant: a letter is added with each of its words.                       *)
LettersRepeated(accents) == [i \in DOMAIN accents |-> Letter(accents[i])]

(* Mutant: the alphabet is always the same.                                *)
AllLetters(accents) == [i \in Alphabet |-> i]

(* NewCatalog: the first letters there are, in catalogue order.            *)
LetterAdded(found, word) ==
    IF Letter(word) \in Range(found) THEN found ELSE Append(found, Letter(word))

CatalogLetters(accents) == FoldLeft(LetterAdded, <<>>, accents)

(* words.Letters, as the set ByLetters makes of it.                        *)
Wanted(text) == Range(text)

ByLetters(wanted) ==
    LET Kept(found, word) ==
            IF Letter(word) \in wanted THEN Append(found, word) ELSE found
    IN FoldLeft(Kept, <<>>, catalog)

(* Mutant: the word a new section is opened for is left out of it.         *)
OpenedEmpty(groups, word) ==
    IF groups = <<>> \/ Last(groups).letter # Letter(word)
    THEN Append(groups, [letter |-> Letter(word), accents |-> <<>>])
    ELSE [groups EXCEPT ![Len(groups)].accents = Append(@, word)]

(* Mutant: every word opens a section.                                     *)
OpenedAlways(groups, word) ==
    Append(groups, [letter |-> Letter(word), accents |-> <<word>>])

(* groupByLetter: a word joins the last section or opens the next.         *)
Grouped(groups, word) ==
    IF groups = <<>> \/ Last(groups).letter # Letter(word)
    THEN Append(groups, [letter |-> Letter(word), accents |-> <<word>>])
    ELSE [groups EXCEPT ![Len(groups)].accents = Append(@, word)]

GroupByLetter(accents) == FoldLeft(Grouped, <<>>, accents)

(* responses.WordList: the sections under their letters.  One section goes *)
(* without a heading, and of none it says that there are no words.         *)
Sections(text) == GroupByLetter(ByLetters(Wanted(text)))

(* NewCatalog refuses a list without words.                                *)
Init ==
    /\ catalog \in Tables \ {<<>>}
    /\ letters = CatalogLetters(catalog)
    /\ message = <<>>
    /\ reply = NoReply

(* The alphabet is sent along.                                             *)
SearchByLetters(text) ==
    /\ message' = text
    /\ reply' = Sections(text)
    /\ UNCHANGED <<catalog, letters>>

Next == \E text \in Messages : SearchByLetters(text)

Spec == Init /\ [][Next]_vars

-----------------------------------------------------------------------------
(* "a letter with no words is never offered", and none with words is left  *)
(* out or offered twice: the keyboard leads to every word there is         *)
(* (NewCatalog, Alphabet).                                                 *)
AlphabetLeadsToWords ==
    /\ \A i \in DOMAIN letters : ByLetters({letters[i]}) # <<>>
    /\ \A i \in DOMAIN catalog : Letter(catalog[i]) \in Range(letters)
    /\ IsInjective(letters)

(* "Asking for several letters at once groups the answer under each": each *)
(* word asked for is listed once, under the one heading of its letter, and *)
(* no other is (ByLetters, groupByLetter).                                 *)
ListedUnderEach ==
    reply # NoReply =>
        /\ UNION {Range(reply[i].accents) : i \in DOMAIN reply} =
               {word \in Range(catalog) : Letter(word) \in Range(message)}
        /\ \A i, j \in DOMAIN reply :
               /\ \A k \in DOMAIN reply[i].accents :
                      /\ Letter(reply[i].accents[k]) = reply[i].letter
                      /\ \A l \in DOMAIN reply[j].accents :
                             reply[i].accents[k] = reply[j].accents[l]
                                 => i = j /\ k = l
               /\ reply[i].letter = reply[j].letter => i = j

=============================================================================
