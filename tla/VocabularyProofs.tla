------------------------- MODULE VocabularyProofs --------------------------
(***************************************************************************)
(* The properties of Vocabulary, for words of any length, any alphabet and *)
(* any word list.                                                          *)
(***************************************************************************)
EXTENDS Vocabulary, FiniteSetTheorems, NaturalsInduction,
        WellFoundedInduction, TLAPS

-----------------------------------------------------------------------------
(* Cardinality is the same operator in an instance.                        *)
LEMMA SameCardinality == \A S : Quiz!Cardinality(S) = Cardinality(S)
BY DEF Quiz!Cardinality, Cardinality

(* The least number of a set, and the way up from zero.                    *)

LEMMA LeastNumber ==
    ASSUME NEW T \in SUBSET Nat, T # {}
    PROVE  \E x \in T : \A y \in T : x <= y
<1>1. IsWellFoundedOn(OpToRel(<, Nat), Nat)
  BY NatLessThanWellFounded
<1>2. PICK x \in T : \A y \in T : ~(<<y, x>> \in OpToRel(<, Nat))
  BY <1>1, WFMin, Zenon
<1>3. \A y \in T : ~(y < x)
  BY <1>2 DEF OpToRel
<1> QED
  BY <1>3

(* A set that holds 0, and with each number below n the next.              *)
LEMMA UpTo ==
    ASSUME NEW n \in Nat, NEW S, 0 \in S,
           \A i \in 0 .. n - 1 : i \in S => i + 1 \in S
    PROVE  \A i \in 0 .. n : i \in S
<1> SUFFICES ASSUME NEW j \in 0 .. n, j \notin S PROVE FALSE
  OBVIOUS
<1> DEFINE T == (0 .. n) \ S
<1>1. PICK x \in T : \A y \in T : x <= y
  <2>1. T \in SUBSET Nat /\ T # {}
    OBVIOUS
  <2> HIDE DEF T
  <2> QED
    BY <2>1, LeastNumber
<1>2. x \in 1 .. n
  BY <1>1
<1>3. x - 1 \in S
  <2>1. x - 1 \notin T
    BY <1>1, <1>2
  <2> QED
    BY <1>2, <2>1
<1>4. (x - 1) + 1 \in S
  BY <1>2, <1>3
<1> QED
  BY <1>1, <1>2, <1>4

(* The elements of a set of numbers, counted from the least: every count   *)
(* up to the size of the set is that of one of them.                       *)
LEMMA Ranks ==
    ASSUME NEW V \in SUBSET Nat, IsFiniteSet(V)
    PROVE  LET rank(v) == Cardinality({u \in V : u <= v})
           IN  /\ \A v \in V : rank(v) \in 1 .. Cardinality(V)
               /\ \A v, w \in V : rank(v) = rank(w) => v = w
               /\ \A i \in 1 .. Cardinality(V) : \E v \in V : rank(v) = i
<1> DEFINE below(v) == {u \in V : u <= v}
           rank == [v \in V |-> Cardinality(below(v))]
           n == Cardinality(V)
<1>1. n \in Nat /\ IsFiniteSet(1 .. n) /\ Cardinality(1 .. n) = n
  BY FS_CardinalityType, FS_Interval
<1>2. \A v \in V :
          IsFiniteSet(below(v)) /\ v \in below(v) /\ below(v) \in SUBSET V
  BY FS_Subset
<1>3. ASSUME NEW v \in V PROVE Cardinality(below(v)) \in 1 .. n
  <2>1. Cardinality(below(v)) \in Nat /\ Cardinality(below(v)) <= n
    BY <1>2, FS_Subset, FS_CardinalityType
  <2>2. Cardinality(below(v)) # 0
    BY <1>2, FS_EmptySet
  <2> QED
    BY <1>1, <2>1, <2>2
<1>4. ASSUME NEW v \in V, NEW w \in V, v < w
      PROVE  Cardinality(below(v)) # Cardinality(below(w))
  <2>1. below(v) \in SUBSET below(w) /\ below(v) # below(w)
    <3>1. v \in Nat /\ w \in Nat /\ \A u \in V : u \in Nat
      OBVIOUS
    <3>2. \A u \in V : u <= v => u <= w
      BY <1>4, <3>1
    <3>3. w \in below(w) /\ w \notin below(v)
      BY <1>4, <3>1
    <3>4. below(v) \subseteq below(w)
      BY <3>2
    <3> QED
      BY <3>3, <3>4
  <2> HIDE DEF below
  <2> QED
    BY <1>2, <2>1, FS_Subset
<1>5. \A v, w \in V : rank[v] = rank[w] => v = w
  BY <1>4
<1>6. rank \in Injection(V, 1 .. n)
  <2>1. rank \in [V -> 1 .. n]
    BY <1>3
  <2> HIDE DEF rank
  <2> QED
    BY <1>5, <2>1 DEF Injection, IsInjective
<1>7. rank \in Surjection(V, 1 .. n)
  <2> HIDE DEF rank
  <2> QED
    BY <1>1, <1>6, FS_Injection
<1>8. \A i \in 1 .. n : \E v \in V : rank[v] = i
  <2> HIDE DEF rank, n
  <2> QED
    BY <1>7 DEF Surjection
<1> QED
  BY <1>3, <1>5, <1>8

-----------------------------------------------------------------------------
(* The spellings on offer.                                                 *)

(* Two vowels, and nothing but vowels in capitals.                         *)
Stressed ==
    {w \in Quiz!Spellings :
        Cardinality(w.vowels) >= 2 /\ w.capitals \subseteq w.vowels}

LEMMA WordsStressed == Quiz!Words \subseteq Stressed
BY SameCardinality DEF Quiz!Words, Stressed

LEMMA VowelsFinite ==
    ASSUME NEW w \in Stressed
    PROVE  /\ w.vowels \in SUBSET (1 .. w.letters) /\ w.vowels \in SUBSET Nat
           /\ w.letters \in 1 .. MaxLetters
           /\ IsFiniteSet(w.vowels)
           /\ Cardinality(w.vowels) \in Nat /\ Cardinality(w.vowels) >= 2
<1>1. /\ w.vowels \in SUBSET (1 .. w.letters) /\ w.letters \in 1 .. MaxLetters
      /\ Cardinality(w.vowels) >= 2
  BY DEF Stressed, Quiz!Spellings
<1>2. w.letters \in Int
  BY <1>1
<1>3. IsFiniteSet(1 .. w.letters)
  BY <1>2, FS_Interval
<1>4. IsFiniteSet(w.vowels)
  BY <1>1, <1>3, FS_Subset
<1> QED
  BY <1>1, <1>2, <1>4, FS_CardinalityType

(* A spelling with other stresses is one of the same word.                 *)
LEMMA Spelt ==
    ASSUME NEW w \in Stressed, NEW mask \in SUBSET w.vowels
    PROVE  LET x == Quiz!ApplyAccentMask(w, mask)
           IN  /\ x \in Stressed
               /\ x.capitals = mask
               /\ x.vowels = w.vowels /\ x.letters = w.letters
               /\ Quiz!AccentMask(x) = mask
               /\ Quiz!Normalize(x) = Quiz!Normalize(w)
               /\ \A m : Quiz!ApplyAccentMask(x, m) = Quiz!ApplyAccentMask(w, m)
<1> DEFINE x == Quiz!ApplyAccentMask(w, mask)
<1>1. mask \cap (1 .. w.letters) = mask
  BY VowelsFinite
<1>2. x = [w EXCEPT !.capitals = mask]
  BY <1>1 DEF Quiz!ApplyAccentMask
<1>3. w \in [letters : 1 .. MaxLetters, vowels : SUBSET (1 .. MaxLetters),
             capitals : SUBSET (1 .. MaxLetters)]
  BY DEF Stressed, Quiz!Spellings
<1> HIDE DEF x
<1>4. /\ x.capitals = mask /\ x.vowels = w.vowels /\ x.letters = w.letters
      /\ x \in [letters : 1 .. MaxLetters, vowels : SUBSET (1 .. MaxLetters),
                capitals : SUBSET (1 .. MaxLetters)]
  BY <1>2, <1>3
<1>5. x \in Stressed
  <2>1. w.vowels \cup w.capitals \subseteq 1 .. w.letters
        /\ Cardinality(w.vowels) >= 2
    BY DEF Stressed, Quiz!Spellings
  <2> QED
    BY <1>4, <2>1 DEF Stressed, Quiz!Spellings
<1>6. Quiz!AccentMask(x) = mask
  BY <1>4 DEF Quiz!AccentMask
<1>7. Quiz!Normalize(x) = Quiz!Normalize(w)
  BY <1>2, <1>3 DEF Quiz!Normalize
<1>8. \A m : Quiz!ApplyAccentMask(x, m) = Quiz!ApplyAccentMask(w, m)
  BY <1>2, <1>3, <1>4 DEF Quiz!ApplyAccentMask
<1> QED
  BY <1>4, <1>5, <1>6, <1>7, <1>8 DEF x

LEMMA AsSpelt ==
    ASSUME NEW w \in Stressed
    PROVE  /\ Quiz!AccentMask(w) = w.capitals
           /\ w.capitals \in SUBSET w.vowels
           /\ w = Quiz!ApplyAccentMask(w, w.capitals)
<1>1. /\ w \in [letters : 1 .. MaxLetters, vowels : SUBSET (1 .. MaxLetters),
                capitals : SUBSET (1 .. MaxLetters)]
      /\ w.capitals \subseteq w.vowels /\ w.capitals \subseteq 1 .. w.letters
  BY DEF Stressed, Quiz!Spellings
<1>2. w.capitals \cap (1 .. w.letters) = w.capitals
  BY <1>1
<1>3. w = [w EXCEPT !.capitals = w.capitals]
  BY <1>1
<1> QED
  BY <1>1, <1>2, <1>3 DEF Quiz!ApplyAccentMask, Quiz!AccentMask

(* The positions of the vowels are each of them once.                      *)
LEMMA Positions ==
    ASSUME NEW w \in Stressed
    PROVE  LET p == Quiz!VowelPositions(w)
               n == Cardinality(w.vowels)
           IN  /\ p \in [1 .. n -> w.vowels]
               /\ \A i, j \in 1 .. n : p[i] = p[j] => i = j
               /\ \A v \in w.vowels : \E i \in 1 .. n : p[i] = v
<1> DEFINE p == Quiz!VowelPositions(w)
           V == w.vowels
           n == Cardinality(V)
           rank(v) == Cardinality({u \in V : u <= v})
<1>1. /\ \A v \in V : rank(v) \in 1 .. n
      /\ \A v, u \in V : rank(v) = rank(u) => v = u
      /\ \A i \in 1 .. n : \E v \in V : rank(v) = i
  <2>1. V \in SUBSET Nat /\ IsFiniteSet(V)
    BY VowelsFinite
  <2> HIDE DEF V
  <2> QED
    BY <2>1, Ranks
<1>2. p = [i \in 1 .. n |-> CHOOSE v \in V : rank(v) = i]
  BY DEF Quiz!VowelPositions, Quiz!Cardinality, Cardinality
<1> HIDE DEF rank, p, V, n
<1>3. \A i \in 1 .. n : p[i] \in V /\ rank(p[i]) = i
  BY <1>1, <1>2
<1>4. p \in [1 .. n -> V]
  BY <1>2, <1>3
<1>5. \A v \in V : p[rank(v)] = v
  BY <1>1, <1>3
<1>6. \A i, j \in 1 .. n : p[i] = p[j] => i = j
  BY <1>3
<1>7. \A v \in V : \E i \in 1 .. n : p[i] = v
  BY <1>1, <1>5
<1> QED
  BY <1>4, <1>6, <1>7 DEF p, n, V

(* GetPossibleAccents: each vowel stressed, once.                          *)
LEMMA Singles ==
    ASSUME NEW w \in Stressed
    PROVE  LET s == Quiz!GetPossibleAccents(w)
               n == Cardinality(w.vowels)
           IN  /\ s \in [1 .. n -> Stressed]
               /\ \A i \in 1 .. n : \E v \in w.vowels :
                      s[i] = Quiz!ApplyAccentMask(w, {v})
               /\ \A v \in w.vowels : \E i \in 1 .. n :
                      s[i] = Quiz!ApplyAccentMask(w, {v})
               /\ \A i, j \in 1 .. n : s[i] = s[j] => i = j
<1> DEFINE s == Quiz!GetPossibleAccents(w)
           p == Quiz!VowelPositions(w)
           n == Cardinality(w.vowels)
           one(v) == Quiz!ApplyAccentMask(w, {v})
<1>1. /\ p \in [1 .. n -> w.vowels]
      /\ \A i, j \in 1 .. n : p[i] = p[j] => i = j
      /\ \A v \in w.vowels : \E i \in 1 .. n : p[i] = v
  BY Positions
<1>2. s = [i \in DOMAIN p |-> one(p[i])]
  BY DEF Quiz!GetPossibleAccents
<1>3. \A v \in w.vowels : one(v) \in Stressed /\ one(v).capitals = {v}
  BY Spelt
<1> HIDE DEF s, p, n, one
<1>4. /\ DOMAIN p = 1 .. n
      /\ \A i \in 1 .. n : s[i] = one(p[i]) /\ p[i] \in w.vowels
  BY <1>1, <1>2
<1>5. s \in [1 .. n -> Stressed]
  BY <1>2, <1>3, <1>4
<1>6. ASSUME NEW i \in 1 .. n, NEW j \in 1 .. n, s[i] = s[j]
      PROVE  i = j
  <2>1. one(p[i]) = one(p[j]) /\ p[i] \in w.vowels /\ p[j] \in w.vowels
    BY <1>4, <1>6
  <2>2. {p[i]} = {p[j]}
    BY <1>3, <2>1
  <2> QED
    BY <1>1, <2>2, p[i] \in {p[j]}
<1>7. \A v \in w.vowels : \E i \in 1 .. n : s[i] = one(v)
  BY <1>1, <1>4
<1> QED
  BY <1>4, <1>5, <1>6, <1>7 DEF s, n, one

(* The spellings with two stresses: finitely many, one at least, and the   *)
(* word itself if it is one.                                               *)
LEMMA Pairs ==
    ASSUME NEW w \in Stressed
    PROVE  LET D == Quiz!DoubleVariants(w)
           IN  /\ IsFiniteSet(D)
               /\ Cardinality(D) \in Nat /\ Cardinality(D) >= 1
               /\ \A x \in D : \E pair \in SUBSET w.vowels :
                      /\ Cardinality(pair) = 2
                      /\ x = Quiz!ApplyAccentMask(w, pair)
               /\ w \in D <=> Cardinality(w.capitals) = 2
<1> DEFINE D == Quiz!DoubleVariants(w)
           V == w.vowels
           K == {pair \in SUBSET V : Cardinality(pair) = 2}
           f == [pair \in K |-> Quiz!ApplyAccentMask(w, pair)]
<1>1. D = {Quiz!ApplyAccentMask(w, pair) : pair \in K}
  BY SameCardinality DEF Quiz!DoubleVariants, Quiz!kSubset
<1>2. IsFiniteSet(V) /\ Cardinality(V) \in Nat /\ Cardinality(V) >= 2
  BY VowelsFinite
<1>3. IsFiniteSet(K)
  <2>1. IsFiniteSet(SUBSET V)
    BY <1>2, FS_SUBSET
  <2>2. K \in SUBSET SUBSET V
    OBVIOUS
  <2> HIDE DEF K, V
  <2> QED
    BY <2>1, <2>2, FS_Subset
<1>4. f \in Surjection(K, D)
  <2>1. f \in [K -> D] /\ \A x \in D : \E pair \in K : f[pair] = x
    <3> HIDE DEF K, D
    <3> QED
      BY <1>1
  <2> HIDE DEF f, K, D
  <2> QED
    BY <2>1 DEF Surjection
<1>5. IsFiniteSet(D) /\ Cardinality(D) \in Nat
  <2>1. IsFiniteSet(D)
    <3> HIDE DEF f, K, D
    <3> QED
      BY <1>3, <1>4, FS_Surjection
  <2> QED
    BY <2>1, FS_CardinalityType
<1>6. PICK pair \in SUBSET V : Cardinality(pair) = 2
  <2>1. PICK u \in V : TRUE
    <3>1. V # {}
      BY <1>2, FS_EmptySet
    <3> QED
      BY <3>1
  <2>2. PICK v \in V : v # u
    <3>1. V # {u}
      BY <1>2, FS_Singleton
    <3> QED
      BY <2>1, <3>1
  <2>3. Cardinality({u} \cup {v}) = 2
    <3>1. IsFiniteSet({u}) /\ Cardinality({u}) = 1 /\ v \notin {u}
      BY <2>2, FS_Singleton
    <3> QED
      BY <3>1, FS_AddElement
  <2>4. {u} \cup {v} \in SUBSET V
    BY <2>1, <2>2
  <2> QED
    BY <2>3, <2>4
<1>7. Cardinality(D) >= 1
  <2>1. Quiz!ApplyAccentMask(w, pair) \in D
    BY <1>1, <1>6
  <2>2. D # {}
    BY <2>1
  <2>3. Cardinality(D) # 0
    <3> HIDE DEF D
    <3> QED
      BY <1>5, <2>2, FS_EmptySet
  <2> QED
    BY <1>5, <2>3
<1>8. ASSUME w \in D PROVE Cardinality(w.capitals) = 2
  BY <1>1, <1>8, Spelt
<1>9. ASSUME Cardinality(w.capitals) = 2 PROVE w \in D
  BY <1>1, <1>9, AsSpelt
<1>10. \A x \in D : \E q \in SUBSET V :
           Cardinality(q) = 2 /\ x = Quiz!ApplyAccentMask(w, q)
  BY <1>1
<1> QED
  BY <1>5, <1>7, <1>8, <1>9, <1>10

(* Spellings of one word are offered the same.                             *)
LEMMA SameOffer ==
    ASSUME NEW w \in Stressed, NEW mask \in SUBSET w.vowels
    PROVE  LET x == Quiz!ApplyAccentMask(w, mask)
           IN  /\ Quiz!GetPossibleAccents(x) = Quiz!GetPossibleAccents(w)
               /\ Quiz!DoubleVariants(x) = Quiz!DoubleVariants(w)
<1> DEFINE x == Quiz!ApplyAccentMask(w, mask)
<1>1. /\ x.vowels = w.vowels
      /\ \A m : Quiz!ApplyAccentMask(x, m) = Quiz!ApplyAccentMask(w, m)
  BY Spelt
<1> HIDE DEF x
<1>2. Quiz!VowelPositions(x) = Quiz!VowelPositions(w)
  BY <1>1 DEF Quiz!VowelPositions
<1>3. Quiz!GetPossibleAccents(x) = Quiz!GetPossibleAccents(w)
  BY <1>1, <1>2 DEF Quiz!GetPossibleAccents
<1>4. Quiz!DoubleVariants(x) = Quiz!DoubleVariants(w)
  BY <1>1 DEF Quiz!DoubleVariants
<1> QED
  BY <1>3, <1>4 DEF x

(* What AnswerVariants may choose of the spellings with two stresses: as   *)
(* many as are wanted and there are, the right one among them.             *)
Chosen(w, doubles) ==
    LET D == Quiz!DoubleVariants(w)
        wanted == Quiz!Doubles(w, doubles)
    IN  {C \in SUBSET D :
            /\ Cardinality(C) =
                   IF wanted <= Cardinality(D) THEN wanted ELSE Cardinality(D)
            /\ Cardinality(w.capitals) = 2 => w \in C}

LEMMA ChosenSound ==
    ASSUME NEW w \in Stressed, NEW doubles \in Quiz!DoubleOptions
    PROVE  LET wanted == Quiz!Doubles(w, doubles)
               right == IF Cardinality(w.capitals) = 2 /\ wanted > 0
                        THEN {w} ELSE {}
           IN  /\ wanted \in 0 .. 2
               /\ \A C : C \in Chosen(w, doubles) <=>
                      \E decoys \in Quiz!Decoys(w, wanted - Cardinality(right)) :
                          C = right \cup decoys
<1> DEFINE wanted == Quiz!Doubles(w, doubles)
           right == IF Cardinality(w.capitals) = 2 /\ wanted > 0
                    THEN {w} ELSE {}
           D == Quiz!DoubleVariants(w)
           n == wanted - Cardinality(right)
           wrong == D \ {w}
           size == IF n <= Cardinality(wrong) THEN n ELSE Cardinality(wrong)
           all == IF wanted <= Cardinality(D) THEN wanted ELSE Cardinality(D)
<1>1. /\ wanted \in 0 .. 2
      /\ Cardinality(w.capitals) = 2 => wanted > 0
      /\ Cardinality(w.capitals) # 2 => wanted = doubles
  <2>1. Quiz!Cardinality(Quiz!AccentMask(w)) = Cardinality(w.capitals)
    BY AsSpelt, SameCardinality
  <2>2. doubles \in 0 .. 2
    BY DEF Quiz!DoubleOptions
  <2>3. wanted = IF Cardinality(w.capitals) = 2 /\ doubles < 1
                 THEN 1 ELSE doubles
    BY <2>1 DEF Quiz!Doubles
  <2> HIDE DEF wanted
  <2> QED
    BY <2>2, <2>3
<1>2. /\ IsFiniteSet(D) /\ Cardinality(D) \in Nat /\ Cardinality(D) >= 1
      /\ w \in D <=> Cardinality(w.capitals) = 2
  BY Pairs
<1>3. /\ IsFiniteSet(wrong)
      /\ Cardinality(wrong) = IF w \in D THEN Cardinality(D) - 1
                                         ELSE Cardinality(D)
  BY <1>2, FS_RemoveElement
<1>4. Cardinality(right) = IF Cardinality(w.capitals) = 2 THEN 1 ELSE 0
  BY <1>1, FS_Singleton, FS_EmptySet
<1> HIDE DEF D, wanted
<1>5. \A decoys : decoys \in Quiz!Decoys(w, n) <=>
          decoys \in SUBSET wrong /\ Cardinality(decoys) = size
  <2>1. Cardinality(wrong) \in Nat /\ n \in Nat
    BY <1>1, <1>2, <1>3, <1>4
  <2>2. Quiz!Decoys(w, n) =
            IF n <= 0 THEN {{}}
            ELSE {s \in SUBSET wrong :
                     Cardinality(s) = Quiz!Min({n, Cardinality(wrong)})}
    BY SameCardinality DEF Quiz!Decoys, Quiz!kSubset, D
  <2> HIDE DEF n, wrong, size
  <2>3. Quiz!Min({n, Cardinality(wrong)}) = size
    BY <2>1 DEF Quiz!Min, size
  <2>4. CASE n <= 0
    <3>1. size = 0
      BY <2>1, <2>4 DEF size
    <3>2. \A decoys \in SUBSET wrong : Cardinality(decoys) = 0 <=> decoys = {}
      BY <1>3, FS_Subset, FS_EmptySet
    <3> QED
      BY <2>2, <2>4, <3>1, <3>2
  <2>5. CASE ~(n <= 0)
    BY <2>2, <2>3, <2>5
  <2> QED
    BY <2>4, <2>5
<1>6. ASSUME NEW decoys \in SUBSET wrong, Cardinality(decoys) = size
      PROVE  right \cup decoys \in Chosen(w, doubles)
  <2>1. IsFiniteSet(decoys)
    BY <1>3, FS_Subset
  <2>2. CASE w \in D
    <3>1. Cardinality({w} \cup decoys) = Cardinality(decoys) + 1
      BY <2>1, FS_AddElement
    <3>2. right = {w} /\ {w} \cup decoys \in SUBSET D
      BY <1>1, <1>2, <2>2
    <3>3. Cardinality({w} \cup decoys) = all
      BY <1>1, <1>2, <1>3, <1>4, <1>6, <2>2, <3>1
    <3> QED
      BY <3>2, <3>3 DEF Chosen, D, wanted
  <2>3. CASE w \notin D
    <3>1. right = {} /\ decoys \in SUBSET D
      BY <1>2, <2>3
    <3>2. Cardinality(decoys) = all
      BY <1>1, <1>2, <1>3, <1>4, <1>6, <2>3
    <3>3. Cardinality(w.capitals) # 2 /\ right \cup decoys = decoys
      BY <1>2, <2>3, <3>1
    <3> QED
      BY <3>1, <3>2, <3>3 DEF Chosen, D, wanted
  <2> QED
    BY <2>2, <2>3
<1>7. ASSUME NEW C \in Chosen(w, doubles)
      PROVE  \E decoys \in SUBSET wrong :
                 Cardinality(decoys) = size /\ C = right \cup decoys
  <2>1. /\ C \in SUBSET D /\ Cardinality(C) = all
        /\ Cardinality(w.capitals) = 2 => w \in C
    BY <1>7 DEF Chosen, D, wanted
  <2>2. IsFiniteSet(C)
    BY <1>2, <2>1, FS_Subset
  <2>3. CASE w \in D
    <3>1. Cardinality(C \ {w}) = Cardinality(C) - 1 /\ w \in C
      BY <1>2, <2>1, <2>2, <2>3, FS_RemoveElement
    <3>2. right = {w} /\ C \ {w} \in SUBSET wrong /\ C = {w} \cup (C \ {w})
      BY <1>1, <1>2, <2>1, <2>3, <3>1
    <3>3. Cardinality(C \ {w}) = size
      BY <1>1, <1>2, <1>3, <1>4, <2>1, <2>3, <3>1
    <3> QED
      BY <3>2, <3>3
  <2>4. CASE w \notin D
    <3>1. right = {} /\ C \in SUBSET wrong /\ C = {} \cup C
      BY <1>2, <2>1, <2>4
    <3>2. Cardinality(C) = size
      BY <1>1, <1>2, <1>3, <1>4, <2>1, <2>4
    <3> QED
      BY <3>1, <3>2
  <2> QED
    BY <2>3, <2>4
<1> HIDE DEF right, n, wrong, size
<1>8. \A C : C \in Chosen(w, doubles) <=>
          \E decoys \in Quiz!Decoys(w, n) : C = right \cup decoys
  BY <1>5, <1>6, <1>7
<1> QED
  BY <1>1, <1>8 DEF n, right, wanted

(* AnswerVariants: every spelling with one stress, from left to right, and *)
(* the chosen ones with two behind them in any order.                      *)
LEMMA Variants ==
    ASSUME NEW w \in Stressed, NEW doubles \in Quiz!DoubleOptions,
           Cardinality(w.capitals) <= 2
    PROVE  \A options : options \in Quiz!AnswerVariants(w, doubles) <=>
               \E C \in Chosen(w, doubles) : \E order \in Quiz!SetToSeqs(C) :
                   options = Quiz!GetPossibleAccents(w) \o order
<1> DEFINE wanted == Quiz!Doubles(w, doubles)
           right == IF Cardinality(w.capitals) = 2 /\ wanted > 0
                    THEN {w} ELSE {}
           given == IF Quiz!Cardinality(Quiz!AccentMask(w)) = 2 /\ wanted > 0
                    THEN {w} ELSE {}
           singles == Quiz!GetPossibleAccents(w)
           n == wanted - Cardinality(right)
           m == wanted - Quiz!Cardinality(given)
<1>1. /\ Quiz!Cardinality(Quiz!AccentMask(w)) = Cardinality(w.capitals)
      /\ Cardinality(w.capitals) \in Nat
  <2>1. w.capitals \in SUBSET w.vowels /\ IsFiniteSet(w.vowels)
    BY AsSpelt, VowelsFinite
  <2>2. Cardinality(w.capitals) \in Nat
    BY <2>1, FS_Subset, FS_CardinalityType
  <2> QED
    BY <2>2, AsSpelt, SameCardinality
<1>2. given = right /\ m = n
  BY <1>1, SameCardinality
<1>3. Quiz!AnswerVariants(w, doubles) =
          UNION {{singles \o order :
                      order \in Quiz!Shuffled(w, given \cup decoys)} :
                    decoys \in Quiz!Decoys(w, m)}
  <2>1. ~(Quiz!Cardinality(Quiz!AccentMask(w)) > 2)
    BY <1>1
  <2> QED
    BY <2>1 DEF Quiz!AnswerVariants
<1>4. \A C : C \in Chosen(w, doubles) <=>
          \E decoys \in Quiz!Decoys(w, n) : C = right \cup decoys
  BY ChosenSound
<1> HIDE DEF right, given, singles, n, m
<1>5. \A options : options \in Quiz!AnswerVariants(w, doubles) <=>
          \E decoys \in Quiz!Decoys(w, m) :
              \E order \in Quiz!Shuffled(w, given \cup decoys) :
                  options = singles \o order
  <2> DEFINE orders(decoys) == {singles \o order :
                                   order \in Quiz!Shuffled(w, given \cup decoys)}
  <2>1. Quiz!AnswerVariants(w, doubles) =
            UNION {orders(decoys) : decoys \in Quiz!Decoys(w, m)}
    BY <1>3
  <2>2. \A decoys, options : options \in orders(decoys) <=>
            \E order \in Quiz!Shuffled(w, given \cup decoys) :
                options = singles \o order
    OBVIOUS
  <2> HIDE DEF orders
  <2>3. \A options : options \in Quiz!AnswerVariants(w, doubles) <=>
            \E decoys \in Quiz!Decoys(w, m) : options \in orders(decoys)
    BY <2>1
  <2> SUFFICES ASSUME NEW options
               PROVE  options \in Quiz!AnswerVariants(w, doubles) <=>
                          \E decoys \in Quiz!Decoys(w, m) :
                              \E order \in Quiz!Shuffled(w, given \cup decoys) :
                                  options = singles \o order
    OBVIOUS
  <2>4. options \in Quiz!AnswerVariants(w, doubles) <=>
            \E decoys \in Quiz!Decoys(w, m) : options \in orders(decoys)
    BY <2>3
  <2>5. \A decoys : options \in orders(decoys) <=>
            \E order \in Quiz!Shuffled(w, given \cup decoys) :
                options = singles \o order
    BY <2>2
  <2> QED
    BY <2>4, <2>5, Zenon
<1> QED
  BY <1>2, <1>4, <1>5 DEF singles, Quiz!Shuffled

(* An order of a set has each element of it once.                          *)
LEMMA Orders ==
    ASSUME NEW C, IsFiniteSet(C), NEW order \in Quiz!SetToSeqs(C)
    PROVE  /\ order \in [1 .. Cardinality(C) -> C]
           /\ Cardinality(C) \in Nat
           /\ \A i, j \in 1 .. Cardinality(C) : order[i] = order[j] => i = j
           /\ \A x \in C : \E i \in 1 .. Cardinality(C) : order[i] = x
<1> DEFINE n == Cardinality(C)
<1>1. /\ order \in [1 .. n -> C]
      /\ \A i, j \in 1 .. n : i # j => order[i] # order[j]
  BY SameCardinality DEF Quiz!SetToSeqs
<1>2. n \in Nat /\ IsFiniteSet(1 .. n) /\ Cardinality(1 .. n) = n
  BY FS_CardinalityType, FS_Interval
<1>3. order \in Injection(1 .. n, C)
  BY <1>1 DEF Injection, IsInjective
<1>4. order \in Surjection(1 .. n, C)
  BY <1>2, <1>3, FS_Injection
<1> QED
  BY <1>1, <1>2, <1>4 DEF Surjection

(* Where an answer is found among the options.                             *)
LEMMA IndexFound ==
    ASSUME NEW S, NEW options \in Seq(S), NEW w
    PROVE  LET k == Quiz!IndexOf(options, w)
           IN  /\ k \in 0 .. Len(options)
               /\ k # 0 => options[k] = w
               /\ (\E i \in 1 .. Len(options) : options[i] = w) => k # 0
<1> DEFINE I == {i \in 1 .. Len(options) : options[i] = w}
           k == Quiz!IndexOf(options, w)
<1>1. k = IF I # {} THEN Quiz!Min(I) ELSE 0
  BY DEF Quiz!IndexOf, Quiz!SelectInSeq
<1>2. ASSUME I # {} PROVE Quiz!Min(I) \in I
  <2>1. I \in SUBSET Nat
    OBVIOUS
  <2> HIDE DEF I
  <2>2. \E x \in I : \A y \in I : x <= y
    BY <1>2, <2>1, LeastNumber
  <2> QED
    BY <2>2 DEF Quiz!Min
<1> HIDE DEF k
<1>3. Len(options) \in Nat
  OBVIOUS
<1> QED
  BY <1>1, <1>2, <1>3 DEF k

(* One behind the other.                                                   *)
LEMMA Behind ==
    ASSUME NEW S, NEW m \in Nat, NEW n \in Nat,
           NEW a \in [1 .. m -> S], NEW b \in [1 .. n -> S]
    PROVE  /\ a \o b \in Seq(S) /\ Len(a \o b) = m + n
           /\ \A i \in 1 .. m : i \in 1 .. m + n /\ (a \o b)[i] = a[i]
           /\ \A i \in 1 .. n : m + i \in 1 .. m + n /\ (a \o b)[m + i] = b[i]
           /\ \A i \in 1 .. m + n : i \in 1 .. m \/ i - m \in 1 .. n
<1>1. a \in Seq(S) /\ b \in Seq(S) /\ Len(a) = m /\ Len(b) = n
  OBVIOUS
<1> QED
  BY <1>1

(* The options are spellings of the word, once each, and those of a word   *)
(* with a stress have one and the word among them.                         *)
Offering(w, options) ==
    /\ options \in Seq(Stressed)
    /\ \A i, j \in 1 .. Len(options) : options[i] = options[j] => i = j
    /\ \A i \in 1 .. Len(options) :
           Quiz!Normalize(options[i]) = Quiz!Normalize(w)
    /\ w.capitals # {} =>
           /\ \A i \in 1 .. Len(options) : Quiz!AccentMask(options[i]) # {}
           /\ \E i \in 1 .. Len(options) : options[i] = w

LEMMA ManyOffered ==
    ASSUME NEW w \in Stressed, NEW doubles \in Quiz!DoubleOptions,
           Cardinality(w.capitals) > 2,
           NEW options \in Quiz!AnswerVariants(w, doubles)
    PROVE  Offering(w, options)
<1> DEFINE s == Quiz!GetPossibleAccents(w)
           n == Cardinality(w.vowels)
<1>1. options = Append(s, w)
  <2>1. Quiz!Cardinality(Quiz!AccentMask(w)) > 2
    BY AsSpelt, SameCardinality
  <2> QED
    BY <2>1 DEF Quiz!AnswerVariants
<1>2. /\ s \in [1 .. n -> Stressed] /\ n \in Nat
      /\ \A i \in 1 .. n : \E v \in w.vowels :
             s[i] = Quiz!ApplyAccentMask(w, {v})
      /\ \A i, j \in 1 .. n : s[i] = s[j] => i = j
  BY Singles, VowelsFinite
<1>3. \A i \in 1 .. n : /\ Quiz!Normalize(s[i]) = Quiz!Normalize(w)
                        /\ Quiz!AccentMask(s[i]) # {}
                        /\ s[i] # w
  <2> SUFFICES ASSUME NEW i \in 1 .. n
               PROVE  /\ Quiz!Normalize(s[i]) = Quiz!Normalize(w)
                      /\ Quiz!AccentMask(s[i]) # {}
                      /\ s[i] # w
    OBVIOUS
  <2>1. PICK v \in w.vowels : s[i] = Quiz!ApplyAccentMask(w, {v})
    BY <1>2
  <2>2. /\ s[i].capitals = {v} /\ Quiz!AccentMask(s[i]) = {v}
        /\ Quiz!Normalize(s[i]) = Quiz!Normalize(w)
    BY <2>1, Spelt
  <2>3. Cardinality(s[i].capitals) = 1
    BY <2>2, FS_Singleton
  <2> QED
    BY <2>2, <2>3
<1>4. Quiz!AccentMask(w) # {} \/ w.capitals = {}
  BY AsSpelt
<1> HIDE DEF s, n
<1>5. /\ options \in Seq(Stressed) /\ Len(options) = n + 1
      /\ \A i \in 1 .. n : options[i] = s[i]
      /\ options[n + 1] = w
  <2>1. s \in Seq(Stressed) /\ Len(s) = n
    BY <1>2
  <2> QED
    BY <1>1, <2>1
<1>6. \A i \in 1 .. n + 1 : i \in 1 .. n \/ i = n + 1
  BY <1>2
<1>7. n + 1 \in 1 .. Len(options)
  BY <1>2, <1>5
<1> QED
  BY <1>2, <1>3, <1>4, <1>5, <1>6, <1>7 DEF Offering

(* The chosen spellings: two stresses each, and so not among the others.   *)
LEMMA ChosenSpelt ==
    ASSUME NEW w \in Stressed, NEW doubles \in Quiz!DoubleOptions,
           NEW C \in Chosen(w, doubles)
    PROVE  /\ IsFiniteSet(C)
           /\ \A x \in C : /\ x \in Stressed
                           /\ Cardinality(x.capitals) = 2
                           /\ Quiz!Normalize(x) = Quiz!Normalize(w)
                           /\ Quiz!AccentMask(x) # {}
                           /\ \E pair \in SUBSET w.vowels :
                                  x = Quiz!ApplyAccentMask(w, pair)
           /\ Cardinality(w.capitals) = 2 => w \in C
<1>1. /\ C \in SUBSET Quiz!DoubleVariants(w)
      /\ Cardinality(w.capitals) = 2 => w \in C
  BY DEF Chosen
<1>2. IsFiniteSet(C)
  BY <1>1, Pairs, FS_Subset
<1>3. ASSUME NEW x \in C
      PROVE  /\ x \in Stressed
             /\ Cardinality(x.capitals) = 2
             /\ Quiz!Normalize(x) = Quiz!Normalize(w)
             /\ Quiz!AccentMask(x) # {}
             /\ \E pair \in SUBSET w.vowels :
                    x = Quiz!ApplyAccentMask(w, pair)
  <2>1. PICK pair \in SUBSET w.vowels :
            Cardinality(pair) = 2 /\ x = Quiz!ApplyAccentMask(w, pair)
    BY <1>1, Pairs
  <2>2. pair # {}
    BY <2>1, FS_EmptySet
  <2> QED
    BY <2>1, <2>2, Spelt
<1> QED
  BY <1>1, <1>2, <1>3

LEMMA FewOffered ==
    ASSUME NEW w \in Stressed, NEW doubles \in Quiz!DoubleOptions,
           Cardinality(w.capitals) <= 2,
           NEW options \in Quiz!AnswerVariants(w, doubles)
    PROVE  Offering(w, options)
<1> DEFINE s == Quiz!GetPossibleAccents(w)
           n == Cardinality(w.vowels)
<1>1. PICK C \in Chosen(w, doubles) : \E order \in Quiz!SetToSeqs(C) :
          options = s \o order
  BY Variants
<1>2. PICK order \in Quiz!SetToSeqs(C) : options = s \o order
  BY <1>1
<1> DEFINE k == Cardinality(C)
<1>3. /\ IsFiniteSet(C)
      /\ \A x \in C : /\ x \in Stressed
                      /\ Cardinality(x.capitals) = 2
                      /\ Quiz!Normalize(x) = Quiz!Normalize(w)
                      /\ Quiz!AccentMask(x) # {}
      /\ Cardinality(w.capitals) = 2 => w \in C
  BY ChosenSpelt
<1>4. /\ order \in [1 .. k -> Stressed] /\ order \in [1 .. k -> C] /\ k \in Nat
      /\ \A i, j \in 1 .. k : order[i] = order[j] => i = j
      /\ \A x \in C : \E i \in 1 .. k : order[i] = x
  <2>1. /\ order \in [1 .. k -> C] /\ k \in Nat
        /\ \A i, j \in 1 .. k : order[i] = order[j] => i = j
        /\ \A x \in C : \E i \in 1 .. k : order[i] = x
    BY <1>3, Orders
  <2> HIDE DEF k
  <2> QED
    BY <1>3, <2>1
<1>5. /\ s \in [1 .. n -> Stressed] /\ n \in Nat
      /\ \A i \in 1 .. n : \E v \in w.vowels :
             s[i] = Quiz!ApplyAccentMask(w, {v})
      /\ \A v \in w.vowels : \E i \in 1 .. n :
             s[i] = Quiz!ApplyAccentMask(w, {v})
      /\ \A i, j \in 1 .. n : s[i] = s[j] => i = j
  BY Singles, VowelsFinite
<1>6. \A i \in 1 .. n : /\ Quiz!Normalize(s[i]) = Quiz!Normalize(w)
                        /\ Quiz!AccentMask(s[i]) # {}
                        /\ Cardinality(s[i].capitals) = 1
  <2> SUFFICES ASSUME NEW i \in 1 .. n
               PROVE  /\ Quiz!Normalize(s[i]) = Quiz!Normalize(w)
                      /\ Quiz!AccentMask(s[i]) # {}
                      /\ Cardinality(s[i].capitals) = 1
    OBVIOUS
  <2>1. PICK v \in w.vowels : s[i] = Quiz!ApplyAccentMask(w, {v})
    BY <1>5
  <2>2. /\ s[i].capitals = {v} /\ Quiz!AccentMask(s[i]) = {v}
        /\ Quiz!Normalize(s[i]) = Quiz!Normalize(w)
    BY <2>1, Spelt
  <2> QED
    BY <2>2, FS_Singleton
<1> HIDE DEF s, n, k
<1>7. /\ options \in Seq(Stressed) /\ Len(options) = n + k
      /\ \A i \in 1 .. n : i \in 1 .. n + k /\ options[i] = s[i]
      /\ \A i \in 1 .. k : n + i \in 1 .. n + k /\ options[n + i] = order[i]
      /\ \A i \in 1 .. n + k : i \in 1 .. n \/ i - n \in 1 .. k
  <2>1. /\ n \in Nat /\ k \in Nat
        /\ s \in [1 .. n -> Stressed] /\ order \in [1 .. k -> Stressed]
    BY <1>4, <1>5
  <2>2. /\ s \o order \in Seq(Stressed) /\ Len(s \o order) = n + k
        /\ \A i \in 1 .. n : i \in 1 .. n + k /\ (s \o order)[i] = s[i]
        /\ \A i \in 1 .. k :
               n + i \in 1 .. n + k /\ (s \o order)[n + i] = order[i]
        /\ \A i \in 1 .. n + k : i \in 1 .. n \/ i - n \in 1 .. k
    BY <2>1, Behind
  <2> QED
    BY <1>2, <2>2
<1>8. \A i \in 1 .. n + k : ~(i \in 1 .. n) =>
          i - n \in 1 .. k /\ options[i] = order[i - n] /\ options[i] \in C
  <2> SUFFICES ASSUME NEW i \in 1 .. n + k, ~(i \in 1 .. n)
               PROVE  i - n \in 1 .. k /\ options[i] = order[i - n]
                      /\ options[i] \in C
    OBVIOUS
  <2>1. i - n \in 1 .. k /\ n + (i - n) = i
    BY <1>5, <1>7
  <2>2. options[n + (i - n)] = order[i - n]
    BY <1>7, <2>1
  <2> QED
    BY <1>4, <2>1, <2>2
<1>9. ASSUME NEW i \in 1 .. n + k, NEW j \in 1 .. n + k, options[i] = options[j]
      PROVE  i = j
  <2>1. CASE i \in 1 .. n /\ j \in 1 .. n
    BY <1>5, <1>7, <1>9, <2>1
  <2>2. CASE i \in 1 .. n /\ ~(j \in 1 .. n)
    <3>1. Cardinality(options[i].capitals) = 1
      BY <1>6, <1>7, <2>2
    <3>2. Cardinality(options[j].capitals) = 2
      BY <1>3, <1>8, <2>2
    <3> QED
      BY <1>9, <3>1, <3>2
  <2>3. CASE j \in 1 .. n /\ ~(i \in 1 .. n)
    <3>1. Cardinality(options[j].capitals) = 1
      BY <1>6, <1>7, <2>3
    <3>2. Cardinality(options[i].capitals) = 2
      BY <1>3, <1>8, <2>3
    <3> QED
      BY <1>9, <3>1, <3>2
  <2>4. CASE ~(i \in 1 .. n) /\ ~(j \in 1 .. n)
    <3>1. i - n = j - n
      BY <1>4, <1>8, <1>9, <2>4
    <3> QED
      BY <1>5, <3>1
  <2> QED
    BY <2>1, <2>2, <2>3, <2>4
<1>10. \A i \in 1 .. n + k : /\ Quiz!Normalize(options[i]) = Quiz!Normalize(w)
                             /\ Quiz!AccentMask(options[i]) # {}
  <2> SUFFICES ASSUME NEW i \in 1 .. n + k
               PROVE  /\ Quiz!Normalize(options[i]) = Quiz!Normalize(w)
                      /\ Quiz!AccentMask(options[i]) # {}
    OBVIOUS
  <2>1. CASE i \in 1 .. n
    BY <1>6, <1>7, <2>1
  <2>2. CASE ~(i \in 1 .. n)
    BY <1>3, <1>8, <2>2
  <2> QED
    BY <2>1, <2>2
<1>11. ASSUME w.capitals # {} PROVE \E i \in 1 .. n + k : options[i] = w
  <2>1. IsFiniteSet(w.capitals) /\ Cardinality(w.capitals) \in Nat
        /\ Cardinality(w.capitals) # 0 /\ w.capitals \in SUBSET w.vowels
    <3>1. IsFiniteSet(w.capitals) /\ w.capitals \in SUBSET w.vowels
      BY AsSpelt, VowelsFinite, FS_Subset
    <3> QED
      BY <1>11, <3>1, FS_CardinalityType, FS_EmptySet
  <2>2. CASE Cardinality(w.capitals) = 1
    <3>1. PICK v : w.capitals = {v}
      BY <2>1, <2>2, FS_Singleton
    <3>2. v \in w.vowels /\ w = Quiz!ApplyAccentMask(w, {v})
      BY <2>1, <3>1, AsSpelt
    <3> QED
      BY <1>5, <1>7, <3>2
  <2>3. CASE Cardinality(w.capitals) = 2
    BY <1>3, <1>4, <1>7, <2>3
  <2> QED
    BY <2>1, <2>2, <2>3
<1> QED
  BY <1>7, <1>9, <1>10, <1>11 DEF Offering

LEMMA Offered ==
    ASSUME NEW w \in Stressed, NEW doubles \in Quiz!DoubleOptions,
           NEW options \in Quiz!AnswerVariants(w, doubles)
    PROVE  Offering(w, options)
<1>1. Cardinality(w.capitals) \in Nat
  BY AsSpelt, VowelsFinite, FS_Subset, FS_CardinalityType
<1>2. Cardinality(w.capitals) > 2 \/ Cardinality(w.capitals) <= 2
  BY <1>1
<1> QED
  BY <1>2, ManyOffered, FewOffered

(* Each of the options could be the answer.                                *)
LEMMA AnyOption ==
    ASSUME NEW w \in Stressed, NEW doubles \in Quiz!DoubleOptions,
           Cardinality(w.capitals) <= 2,
           NEW options \in Quiz!AnswerVariants(w, doubles),
           NEW i \in 1 .. Len(options)
    PROVE  \E d \in Quiz!DoubleOptions :
               options \in Quiz!AnswerVariants(options[i], d)
<1> DEFINE s == Quiz!GetPossibleAccents(w)
           D == Quiz!DoubleVariants(w)
           n == Cardinality(w.vowels)
           d == Quiz!Doubles(w, doubles)
           x == options[i]
<1>1. PICK C \in Chosen(w, doubles) : \E order \in Quiz!SetToSeqs(C) :
          options = s \o order
  BY Variants
<1>2. PICK order \in Quiz!SetToSeqs(C) : options = s \o order
  BY <1>1
<1> DEFINE k == Cardinality(C)
<1>3. /\ IsFiniteSet(C)
      /\ \A c \in C : /\ Cardinality(c.capitals) = 2
                      /\ \E pair \in SUBSET w.vowels :
                             c = Quiz!ApplyAccentMask(w, pair)
  BY ChosenSpelt
<1>4. order \in [1 .. k -> C] /\ k \in Nat
  BY <1>3, Orders
<1>5. /\ s \in [1 .. n -> Stressed] /\ n \in Nat
      /\ \A j \in 1 .. n : \E v \in w.vowels :
             s[j] = Quiz!ApplyAccentMask(w, {v})
  BY Singles, VowelsFinite
<1>6. d \in 0 .. 2
  BY ChosenSound
<1>7. /\ C \in SUBSET D
      /\ k = IF d <= Cardinality(D) THEN d ELSE Cardinality(D)
  BY DEF Chosen
<1>8. IsFiniteSet(D) /\ Cardinality(D) \in Nat
  BY Pairs
(* It is a spelling of the word, and one of the chosen ones if it has two  *)
(* stresses.                                                               *)
<1>9. \E mask \in SUBSET w.vowels :
          /\ x = Quiz!ApplyAccentMask(w, mask)
          /\ \/ Cardinality(mask) = 1
             \/ Cardinality(mask) = 2 /\ x \in C
  <2>1. /\ Len(options) = n + k
        /\ \A j \in 1 .. n : options[j] = s[j]
        /\ \A j \in 1 .. k : options[n + j] = order[j]
        /\ \A j \in 1 .. n + k : j \in 1 .. n \/ j - n \in 1 .. k
    <3>1. /\ s \in [1 .. n -> Stressed] /\ order \in [1 .. k -> Stressed]
          /\ n \in Nat /\ k \in Nat
      <4>1. C \subseteq Stressed
        BY ChosenSpelt
      <4> HIDE DEF s, n, k
      <4> QED
        BY <1>4, <1>5, <4>1
    <3> HIDE DEF s, n, k
    <3> DEFINE Joined(seq) ==
                   /\ Len(seq) = n + k
                   /\ \A j \in 1 .. n : seq[j] = s[j]
                   /\ \A j \in 1 .. k : seq[n + j] = order[j]
                   /\ \A j \in 1 .. n + k : j \in 1 .. n \/ j - n \in 1 .. k
    <3>2. Joined(s \o order)
      BY <3>1, Behind
    <3> HIDE DEF Joined
    <3>3. Joined(options)
      BY <1>2, <3>2
    <3> QED
      BY <3>3 DEF Joined
  <2> HIDE DEF s, n, k
  <2>2. CASE i \in 1 .. n
    <3>1. PICK v \in w.vowels : x = Quiz!ApplyAccentMask(w, {v})
      BY <1>5, <2>1, <2>2
    <3>2. {v} \in SUBSET w.vowels /\ Cardinality({v}) = 1
      BY FS_Singleton
    <3> QED
      BY <3>1, <3>2
  <2>3. CASE i - n \in 1 .. k
    <3>1. x = order[i - n] /\ n + (i - n) = i
      BY <1>5, <2>1, <2>3
    <3>2. x \in C
      BY <1>4, <2>3, <3>1
    <3>3. PICK pair \in SUBSET w.vowels : x = Quiz!ApplyAccentMask(w, pair)
      BY <1>3, <3>2
    <3>4. Cardinality(x.capitals) = 2 /\ x.capitals = pair
      BY <1>3, <3>2, <3>3, Spelt
    <3> QED
      BY <3>2, <3>3, <3>4
  <2> QED
    BY <2>1, <2>2, <2>3
<1>10. PICK mask \in SUBSET w.vowels :
          /\ x = Quiz!ApplyAccentMask(w, mask)
          /\ \/ Cardinality(mask) = 1
             \/ Cardinality(mask) = 2 /\ x \in C
  BY <1>9
<1>11. /\ x \in Stressed /\ x.capitals = mask
       /\ Quiz!GetPossibleAccents(x) = s
       /\ Quiz!DoubleVariants(x) = D
  BY <1>10, Spelt, SameOffer
<1> HIDE DEF s, n, D, d, x
<1>12. Quiz!Doubles(x, d) = d
  <2>1. Quiz!Cardinality(Quiz!AccentMask(x)) = Cardinality(mask)
    BY <1>11, AsSpelt, SameCardinality
  <2>2. CASE Cardinality(mask) = 1
    BY <2>1, <2>2 DEF Quiz!Doubles
  <2>3. CASE Cardinality(mask) = 2 /\ x \in C
    <3>1. k # 0
      BY <1>3, <2>3, FS_EmptySet
    <3>2. d >= 1
      BY <1>4, <1>6, <1>7, <1>8, <3>1
    <3> QED
      BY <1>6, <2>1, <3>2 DEF Quiz!Doubles
  <2> QED
    BY <1>10, <2>2, <2>3
<1>13. C \in Chosen(x, d)
  <2>1. Cardinality(x.capitals) = 2 => x \in C
    BY <1>10, <1>11
  <2> QED
    BY <1>7, <1>11, <1>12, <2>1 DEF Chosen
<1>14. d \in Quiz!DoubleOptions /\ Cardinality(x.capitals) <= 2
  BY <1>6, <1>10, <1>11 DEF Quiz!DoubleOptions
<1>15. options \in Quiz!AnswerVariants(x, d)
  <2>1. options = Quiz!GetPossibleAccents(x) \o order
    BY <1>2, <1>11
  <2> QED
    BY <1>11, <1>13, <1>14, <2>1, Variants
<1> QED
  BY <1>14, <1>15 DEF x

-----------------------------------------------------------------------------
(* The quiz.                                                               *)

Questions == [word : Quiz!Words, options : Seq(Quiz!Spellings),
              correct : Nat, picked : Nat]

(* A question is put as AnswerVariants and SetAnswers leave it, and graded *)
(* on the option that was picked.                                          *)
QuestionSound ==
    question # NoQuestion =>
        /\ question \in Questions
        /\ \E doubles \in Quiz!DoubleOptions :
               question.options \in Quiz!AnswerVariants(question.word, doubles)
        /\ question.correct = Quiz!IndexOf(question.options, question.word)

VerdictSound ==
    verdict # "none" =>
        /\ question # NoQuestion
        /\ question.correct # 0
        /\ question.picked \in 1 .. Len(question.options)
        /\ verdict = IF question.options[question.picked] = question.word
                     THEN "right" ELSE "wrong"

QuizSound == QuestionSound /\ VerdictSound

LEMMA PutSound ==
    ASSUME QuizSound, NEW word \in Quiz!Words, Quiz!Put(word)
    PROVE  QuizSound'
<1>1. PICK doubles \in Quiz!DoubleOptions :
          \E options \in Quiz!AnswerVariants(word, doubles) :
              question' = [word |-> word, options |-> options,
                           correct |-> Quiz!IndexOf(options, word), picked |-> 0]
  BY DEF Quiz!Put
<1>2. PICK options \in Quiz!AnswerVariants(word, doubles) :
          question' = [word |-> word, options |-> options,
                       correct |-> Quiz!IndexOf(options, word), picked |-> 0]
  BY <1>1
<1>3. word \in Stressed
  BY WordsStressed
<1>4. options \in Seq(Stressed) /\ Stressed \subseteq Quiz!Spellings
  BY <1>3, Offered DEF Offering, Stressed
<1>5. options \in Seq(Quiz!Spellings) /\ Len(options) \in Nat
  BY <1>4
<1>6. Quiz!IndexOf(options, word) \in Nat
  BY <1>5, IndexFound
<1>7. question' \in Questions
  BY <1>2, <1>5, <1>6 DEF Questions
<1>8. /\ question'.word = word /\ question'.options = options
      /\ question'.correct = Quiz!IndexOf(options, word)
  BY <1>2
<1>9. verdict = "none" /\ verdict' = "none"
  BY DEF Quiz!Put, QuizSound, VerdictSound
<1> QED
  BY <1>7, <1>8, <1>9 DEF QuizSound, QuestionSound, VerdictSound

LEMMA AnswerSound ==
    ASSUME QuizSound, NEW i \in Nat, Quiz!Answer(i)
    PROVE  QuizSound'
<1>1. /\ question # NoQuestion /\ question.correct # 0
      /\ i \in DOMAIN question.options
      /\ question' = [question EXCEPT !.picked = i]
      /\ verdict' = IF question.options[i] = question.word
                    THEN "right" ELSE "wrong"
  BY DEF Quiz!Answer, Quiz!IsRight
<1>2. /\ question \in Questions
      /\ \E doubles \in Quiz!DoubleOptions :
             question.options \in Quiz!AnswerVariants(question.word, doubles)
      /\ question.correct = Quiz!IndexOf(question.options, question.word)
  BY <1>1 DEF QuizSound, QuestionSound
<1>3. /\ question' \in Questions /\ question'.word = question.word
      /\ question'.options = question.options
      /\ question'.correct = question.correct /\ question'.picked = i
  BY <1>1, <1>2 DEF Questions
<1>4. i \in 1 .. Len(question.options)
  BY <1>1, <1>2 DEF Questions
<1>5. question' # NoQuestion
  BY <1>3, VocabularyAssumption DEF Questions
<1> QED
  BY <1>1, <1>2, <1>3, <1>4, <1>5 DEF QuizSound, QuestionSound, VerdictSound

LEMMA PractiseSound ==
    ASSUME QuizSound, Quiz!Next
    PROVE  QuizSound'
<1>1. CASE \E word \in Quiz!Words : Quiz!Put(word)
  BY <1>1, PutSound
<1>2. CASE \E i \in 1 .. MaxLetters + 2 : Quiz!Answer(i)
  BY <1>2, AnswerSound, VocabularyAssumption
<1>3. CASE Quiz!Continue
  BY <1>3 DEF Quiz!Continue, QuizSound, QuestionSound, VerdictSound
<1> QED
  BY <1>1, <1>2, <1>3 DEF Quiz!Next

(* The inductive invariant of the quiz: it is put as AnswerVariants leaves *)
(* it and graded on the option that was picked (Question, Answer).         *)
THEOREM QuizStaysSound == Spec => []QuizSound
<1>1. Init => QuizSound
  BY DEF Init, Quiz!Init, QuizSound, QuestionSound, VerdictSound
<1>2. QuizSound /\ [Next]_vars => QuizSound'
  <2> SUFFICES ASSUME QuizSound, [Next]_vars PROVE QuizSound'
    OBVIOUS
  <2>1. CASE Practise
    BY <2>1, PractiseSound DEF Practise
  <2>2. CASE Browse \/ UNCHANGED vars
    <3>1. question' = question /\ verdict' = verdict
      BY <2>2 DEF Browse, vars, quiz
    <3> QED
      BY <3>1 DEF QuizSound, QuestionSound, VerdictSound
  <2> QED
    BY <2>1, <2>2 DEF Next
<1> QED
  BY <1>1, <1>2, PTL DEF Spec

LEMMA QuestionOffered ==
    ASSUME QuizSound, question # NoQuestion
    PROVE  /\ question.word \in Stressed
           /\ question.options \in Seq(Stressed)
           /\ DOMAIN question.options = 1 .. Len(question.options)
           /\ Offering(question.word, question.options)
           /\ question.correct \in 0 .. Len(question.options)
           /\ question.correct # 0 =>
                  question.options[question.correct] = question.word
           /\ (\E i \in 1 .. Len(question.options) :
                   question.options[i] = question.word) => question.correct # 0
<1>1. /\ question \in Questions
      /\ question.correct = Quiz!IndexOf(question.options, question.word)
      /\ \E doubles \in Quiz!DoubleOptions :
             question.options \in Quiz!AnswerVariants(question.word, doubles)
  BY DEF QuizSound, QuestionSound
<1>2. question.word \in Stressed
  BY <1>1, WordsStressed DEF Questions
<1>3. Offering(question.word, question.options)
  BY <1>1, <1>2, Offered
<1>4. question.options \in Seq(Stressed)
  BY <1>3 DEF Offering
<1> QED
  BY <1>1, <1>2, <1>3, <1>4, IndexFound

(* Where every word of the list has a stress, the answer is among the      *)
(* options, and they are as many spellings of the word (AnswerVariants,    *)
(* ask).                                                                   *)
THEOREM AnswerOfferedHolds ==
    ASSUME LeastStresses >= 1
    PROVE  Spec => []AnswerOffered
<1>1. QuizSound => AnswerOffered
  <2> SUFFICES ASSUME QuizSound, question # NoQuestion
               PROVE  /\ question.correct # 0
                      /\ Quiz!IsInjective(question.options)
                      /\ \A i \in DOMAIN question.options :
                             /\ Quiz!Normalize(question.options[i]) =
                                    Quiz!Normalize(question.word)
                             /\ Quiz!AccentMask(question.options[i]) # {}
    BY DEF AnswerOffered, Quiz!AnswerOffered
  <2>1. question.word.capitals # {}
    <3>1. question.word \in Quiz!Words
      BY DEF QuizSound, QuestionSound, Questions
    <3>2. Cardinality(question.word.capitals) \in LeastStresses .. MostStresses
      BY <3>1, SameCardinality DEF Quiz!Words
    <3>3. Cardinality(question.word.capitals) # 0
      BY <3>2, VocabularyAssumption
    <3> QED
      BY <3>3, FS_EmptySet
  <2> QED
    BY <2>1, QuestionOffered DEF Offering, Quiz!IsInjective
<1> QED
  BY <1>1, QuizStaysSound, PTL

(* A pick counts as right exactly when it is the one Telegram shows to be  *)
(* right, whatever the stresses of the words (Answer).                     *)
THEOREM GradedAsShownHolds == Spec => []GradedAsShown
<1>1. QuizSound => GradedAsShown
  <2> SUFFICES ASSUME QuizSound, verdict # "none"
               PROVE  verdict = "right" <=> question.picked = question.correct
    BY DEF GradedAsShown, Quiz!GradedAsShown
  <2>1. /\ question # NoQuestion /\ question.correct # 0
        /\ question.picked \in 1 .. Len(question.options)
        /\ verdict = IF question.options[question.picked] = question.word
                     THEN "right" ELSE "wrong"
    BY DEF QuizSound, VerdictSound
  <2>2. /\ question.correct \in 1 .. Len(question.options)
        /\ question.options[question.correct] = question.word
    BY <2>1, QuestionOffered
  <2>3. question.options[question.picked] = question.options[question.correct]
            => question.picked = question.correct
    BY <2>1, <2>2, QuestionOffered DEF Offering
  <2> QED
    BY <2>1, <2>2, <2>3
<1> QED
  BY <1>1, QuizStaysSound, PTL

(* Each of the options could be the answer, for all they show in number    *)
(* and order (AnswerVariants).                                             *)
THEOREM NoTellHolds == Spec => []NoTell
<1>1. QuizSound => NoTell
  <2> SUFFICES ASSUME QuizSound, question # NoQuestion,
                      Quiz!Cardinality(Quiz!AccentMask(question.word)) <= 2,
                      NEW i \in DOMAIN question.options
               PROVE  \E doubles \in Quiz!DoubleOptions :
                          question.options \in
                              Quiz!AnswerVariants(question.options[i], doubles)
    BY DEF NoTell, Quiz!NoTell
  <2>1. question.word \in Stressed /\ i \in 1 .. Len(question.options)
    BY QuestionOffered
  <2>2. Cardinality(question.word.capitals) <= 2
    BY <2>1, AsSpelt, SameCardinality
  <2>3. PICK doubles \in Quiz!DoubleOptions :
            question.options \in Quiz!AnswerVariants(question.word, doubles)
    BY DEF QuizSound, QuestionSound
  <2> QED
    BY <2>1, <2>2, <2>3, AnyOption
<1> QED
  BY <1>1, QuizStaysSound, PTL

-----------------------------------------------------------------------------
(* Folds.  FoldLeft is a recursive function on sets of positions: it       *)
(* exists, and read along the prefixes it is the loop of the code.         *)

LEMMA Greatest ==
    ASSUME NEW n \in Nat, NEW s \in SUBSET (1 .. n), s # {}
    PROVE  List!Max(s) \in s /\ \A y \in s : List!Max(s) >= y
<1> DEFINE T == {n - x : x \in s}
<1>1. T \in SUBSET Nat /\ T # {}
  <2>1. \A x \in s : n - x \in Nat
    OBVIOUS
  <2>2. PICK x \in s : TRUE
    OBVIOUS
  <2>3. n - x \in T
    BY <2>2
  <2> QED
    BY <2>1, <2>3
<1>2. PICK t \in T : \A y \in T : t <= y
  <2> HIDE DEF T
  <2> QED
    BY <1>1, LeastNumber
<1>3. PICK x \in s : t = n - x
  BY <1>2
<1>4. \A y \in s : x >= y
  <2> SUFFICES ASSUME NEW y \in s PROVE x >= y
    OBVIOUS
  <2>1. t <= n - y
    BY <1>2
  <2> QED
    BY <1>3, <2>1
<1> QED
  BY <1>4 DEF List!Max

LEMMA Prefix ==
    ASSUME NEW n \in Nat, NEW k \in 1 .. n
    PROVE  /\ 1 .. k \in SUBSET (1 .. n)
           /\ 1 .. k # {}
           /\ List!Max(1 .. k) = k
           /\ (1 .. k) \ {k} = 1 .. k - 1
<1>1. k \in 1 .. k /\ k \in Nat
  OBVIOUS
<1>2. 1 .. k # {}
  BY <1>1
<1>3. List!Max(1 .. k) \in 1 .. k /\ List!Max(1 .. k) >= k
  BY <1>1, <1>2, Greatest
<1>4. List!Max(1 .. k) = k
  BY <1>1, <1>3
<1>5. 1 .. k \in SUBSET (1 .. n)
  OBVIOUS
<1> QED
  BY <1>2, <1>4, <1>5

(* f is the fold of the first n values by this step.                       *)
Folds(f, n, V, base, step) ==
    /\ f \in [SUBSET (1 .. n) -> V]
    /\ \A s \in SUBSET (1 .. n) :
           f[s] = IF s = {} THEN base
                  ELSE step[<<f[s \ {List!Max(s)}], List!Max(s)>>]

LEMMA FoldExists ==
    ASSUME NEW V, NEW base \in V, NEW n \in Nat,
           NEW step \in [V \X (1 .. n) -> V]
    PROVE  \E f : Folds(f, n, V, base, step)
<1> DEFINE S == {m \in 0 .. n : \E f : Folds(f, m, V, base, step)}
<1>1. 0 \in S
  <2> DEFINE f == [s \in SUBSET (1 .. 0) |-> base]
  <2>1. Folds(f, 0, V, base, step)
    <3>1. \A s \in SUBSET (1 .. 0) : s = {}
      OBVIOUS
    <3> QED
      BY <3>1 DEF Folds
  <2> HIDE DEF f
  <2> QED
    BY <2>1
<1>2. ASSUME NEW m \in 0 .. n - 1, m \in S PROVE m + 1 \in S
  <2>1. PICK f : Folds(f, m, V, base, step)
    BY <1>2
  <2> DEFINE g == [s \in SUBSET (1 .. m + 1) |->
                      IF m + 1 \in s THEN step[<<f[s \ {m + 1}], m + 1>>]
                      ELSE f[s]]
  <2>2. \A s \in SUBSET (1 .. m + 1) : /\ s \ {m + 1} \in SUBSET (1 .. m)
                                       /\ m + 1 \notin s \ {m + 1}
    BY <1>2
  <2>3. \A s \in SUBSET (1 .. m) : s \in SUBSET (1 .. m + 1) /\ m + 1 \notin s
    BY <1>2
  <2>4. \A s \in SUBSET (1 .. m) : f[s] \in V /\ g[s] = f[s]
    BY <2>1, <2>3 DEF Folds
  <2>5. ASSUME NEW s \in SUBSET (1 .. m + 1), m + 1 \in s
        PROVE  /\ g[s] \in V /\ s # {}
               /\ g[s] = step[<<g[s \ {List!Max(s)}], List!Max(s)>>]
    <3>1. m + 1 \in Nat /\ m + 1 \in 1 .. n
      BY <1>2
    <3>2. List!Max(s) \in s /\ List!Max(s) >= m + 1
      BY <2>5, <3>1, Greatest
    <3>3. List!Max(s) = m + 1
      <4>1. List!Max(s) \in 1 .. m + 1
        BY <3>2
      <4> QED
        BY <1>2, <3>2, <4>1
    <3>4. g[s] = step[<<f[s \ {m + 1}], m + 1>>]
      BY <2>5
    <3>5. g[s \ {m + 1}] = f[s \ {m + 1}] /\ f[s \ {m + 1}] \in V
      BY <2>2, <2>4
    <3> HIDE DEF g
    <3> QED
      BY <2>5, <3>1, <3>3, <3>4, <3>5
  <2>6. ASSUME NEW s \in SUBSET (1 .. m + 1), m + 1 \notin s
        PROVE  /\ g[s] \in V
               /\ g[s] = IF s = {} THEN base
                         ELSE step[<<g[s \ {List!Max(s)}], List!Max(s)>>]
    <3>1. s \in SUBSET (1 .. m)
      BY <1>2, <2>6
    <3>2. s \ {List!Max(s)} \in SUBSET (1 .. m)
      BY <3>1
    <3>3. f[s] = IF s = {} THEN base
                 ELSE step[<<f[s \ {List!Max(s)}], List!Max(s)>>]
      BY <2>1, <3>1 DEF Folds
    <3> HIDE DEF g
    <3> QED
      BY <2>4, <3>1, <3>2, <3>3
  <2>7. Folds(g, m + 1, V, base, step)
    <3>1. \A s \in SUBSET (1 .. m + 1) : g[s] \in V
      <4> HIDE DEF g
      <4> QED
        BY <2>5, <2>6
    <3>2. g \in [SUBSET (1 .. m + 1) -> V]
      BY <3>1
    <3>3. \A s \in SUBSET (1 .. m + 1) :
              g[s] = IF s = {} THEN base
                     ELSE step[<<g[s \ {List!Max(s)}], List!Max(s)>>]
      <4> HIDE DEF g
      <4> QED
        BY <2>5, <2>6
    <3> HIDE DEF g
    <3> QED
      BY <3>2, <3>3 DEF Folds
  <2> HIDE DEF g
  <2> QED
    BY <1>2, <2>7
<1> HIDE DEF S
<1>3. n \in S
  BY <1>1, <1>2, UpTo
<1> QED
  BY <1>3 DEF S

-----------------------------------------------------------------------------
(* The three loops.                                                        *)

(* CatalogLetters, one row after the other.                                *)
LEMMA LettersLoop ==
    ASSUME NEW n \in Nat, NEW a \in [1 .. n -> List!Words]
    PROVE  \E h : /\ h[0] = <<>>
                  /\ \A k \in 1 .. n : h[k] = List!LetterAdded(h[k - 1], a[k])
                  /\ List!CatalogLetters(a) = h[n]
<1> DEFINE V == Seq(List!Alphabet)
           step == [x \in V \X (1 .. n) |-> List!LetterAdded(x[1], a[x[2]])]
<1>1. \A found \in V, k \in 1 .. n : List!LetterAdded(found, a[k]) \in V
  <2> SUFFICES ASSUME NEW found \in V, NEW k \in 1 .. n
               PROVE  List!LetterAdded(found, a[k]) \in V
    OBVIOUS
  <2>1. List!Letter(a[k]) \in List!Alphabet
    BY DEF List!Letter, List!Words
  <2> QED
    BY <2>1 DEF List!LetterAdded
<1> HIDE DEF V
<1>2. step \in [V \X (1 .. n) -> V]
  BY <1>1
<1>3. <<>> \in V
  BY DEF V
<1>4. PICK f : Folds(f, n, V, <<>>, step)
  <2> HIDE DEF step
  <2> QED
    BY <1>2, <1>3, FoldExists
<1>5. DOMAIN a = 1 .. n
  OBVIOUS
<1>6. \A s \in SUBSET (1 .. n) :
          f[s] = IF s = {} THEN <<>>
                 ELSE List!LetterAdded(f[s \ {List!Max(s)}], a[List!Max(s)])
  <2> SUFFICES ASSUME NEW s \in SUBSET (1 .. n), s # {}
               PROVE  f[s] = List!LetterAdded(f[s \ {List!Max(s)}],
                                              a[List!Max(s)])
    BY <1>4 DEF Folds
  <2>1. List!Max(s) \in 1 .. n /\ s \ {List!Max(s)} \in SUBSET (1 .. n)
    BY Greatest
  <2>2. f[s \ {List!Max(s)}] \in V
    BY <1>4, <2>1 DEF Folds
  <2>3. f[s] = step[<<f[s \ {List!Max(s)}], List!Max(s)>>]
    BY <1>4 DEF Folds
  <2> QED
    BY <2>1, <2>2, <2>3
<1>7. f = [s \in SUBSET DOMAIN a |->
              IF s = {} THEN <<>>
              ELSE List!LetterAdded(f[s \ {List!Max(s)}], a[List!Max(s)])]
  BY <1>4, <1>5, <1>6 DEF Folds
<1>8. PICK g : /\ g = [s \in SUBSET DOMAIN a |->
                          IF s = {} THEN <<>>
                          ELSE List!LetterAdded(g[s \ {List!Max(s)}],
                                                a[List!Max(s)])]
               /\ List!CatalogLetters(a) = g[DOMAIN a]
  BY <1>7 DEF List!CatalogLetters, List!FoldLeft, List!MapThenFoldSet
<1> DEFINE h == [k \in 0 .. n |-> g[1 .. k]]
<1>9. h[0] = <<>>
  BY <1>5, <1>8, 1 .. 0 = {}
<1>10. ASSUME NEW k \in 1 .. n
       PROVE  h[k] = List!LetterAdded(h[k - 1], a[k])
  <2>1. /\ 1 .. k # {} /\ List!Max(1 .. k) = k /\ (1 .. k) \ {k} = 1 .. k - 1
        /\ 1 .. k \in SUBSET DOMAIN a
    BY <1>5, Prefix
  <2>2. g[1 .. k] = List!LetterAdded(g[1 .. k - 1], a[k])
    BY <1>8, <2>1
  <2> QED
    BY <2>2
<1>11. List!CatalogLetters(a) = h[n]
  <2>1. h[n] = g[1 .. n]
    OBVIOUS
  <2> HIDE DEF h
  <2> QED
    BY <1>5, <1>8, <2>1
<1> HIDE DEF h
<1> QED
  BY <1>9, <1>10, <1>11

(* ByLetters, one row after the other.                                     *)
LEMMA ByLettersLoop ==
    ASSUME NEW n \in Nat, catalog \in [1 .. n -> List!Words], NEW wanted
    PROVE  \E h : /\ h[0] = <<>>
                  /\ \A k \in 1 .. n :
                         h[k] = IF List!Letter(catalog[k]) \in wanted
                                THEN Append(h[k - 1], catalog[k]) ELSE h[k - 1]
                  /\ List!ByLetters(wanted) = h[n]
<1> DEFINE V == Seq(List!Words)
           kept(found, word) == IF List!Letter(word) \in wanted
                                THEN Append(found, word) ELSE found
           step == [x \in V \X (1 .. n) |-> kept(x[1], catalog[x[2]])]
<1>1. \A found \in V, k \in 1 .. n : kept(found, catalog[k]) \in V
  OBVIOUS
<1> HIDE DEF V
<1>2. step \in [V \X (1 .. n) -> V]
  <2> HIDE DEF kept
  <2> QED
    BY <1>1
<1>3. <<>> \in V
  BY DEF V
<1>4. PICK f : Folds(f, n, V, <<>>, step)
  <2> HIDE DEF step
  <2> QED
    BY <1>2, <1>3, FoldExists
<1>5. DOMAIN catalog = 1 .. n
  OBVIOUS
<1>6. \A s \in SUBSET (1 .. n) :
          f[s] = IF s = {} THEN <<>>
                 ELSE kept(f[s \ {List!Max(s)}], catalog[List!Max(s)])
  <2> SUFFICES ASSUME NEW s \in SUBSET (1 .. n), s # {}
               PROVE  f[s] = kept(f[s \ {List!Max(s)}], catalog[List!Max(s)])
    BY <1>4 DEF Folds
  <2>1. List!Max(s) \in 1 .. n /\ s \ {List!Max(s)} \in SUBSET (1 .. n)
    BY Greatest
  <2>2. f[s \ {List!Max(s)}] \in V
    BY <1>4, <2>1 DEF Folds
  <2>3. f[s] = step[<<f[s \ {List!Max(s)}], List!Max(s)>>]
    BY <1>4 DEF Folds
  <2> HIDE DEF kept
  <2> QED
    BY <2>1, <2>2, <2>3
<1>7. f = [s \in SUBSET DOMAIN catalog |->
              IF s = {} THEN <<>>
              ELSE kept(f[s \ {List!Max(s)}], catalog[List!Max(s)])]
  <2> HIDE DEF kept
  <2> QED
    BY <1>4, <1>5, <1>6 DEF Folds
<1>8. PICK g : /\ g = [s \in SUBSET DOMAIN catalog |->
                          IF s = {} THEN <<>>
                          ELSE kept(g[s \ {List!Max(s)}], catalog[List!Max(s)])]
               /\ List!ByLetters(wanted) = g[DOMAIN catalog]
  BY <1>7 DEF List!ByLetters, List!FoldLeft, List!MapThenFoldSet
<1> DEFINE h == [k \in 0 .. n |-> g[1 .. k]]
<1>9. h[0] = <<>>
  <2> HIDE DEF kept
  <2> QED
    BY <1>5, <1>8, 1 .. 0 = {}
<1>10. ASSUME NEW k \in 1 .. n
       PROVE  h[k] = kept(h[k - 1], catalog[k])
  <2>1. /\ 1 .. k # {} /\ List!Max(1 .. k) = k /\ (1 .. k) \ {k} = 1 .. k - 1
        /\ 1 .. k \in SUBSET DOMAIN catalog
    BY <1>5, Prefix
  <2> HIDE DEF kept
  <2>2. g[1 .. k] = kept(g[1 .. k - 1], catalog[k])
    BY <1>8, <2>1
  <2> QED
    BY <2>2
<1>11. List!ByLetters(wanted) = h[n]
  <2>1. h[n] = g[1 .. n]
    OBVIOUS
  <2> HIDE DEF h
  <2> QED
    BY <1>5, <1>8, <2>1
<1> HIDE DEF h
<1> QED
  BY <1>9, <1>10, <1>11

Section == [letter : List!Alphabet, accents : Seq(List!Words)]

(* Grouped leaves sections.                                                *)
LEMMA GroupedType ==
    ASSUME NEW groups \in Seq(Section), NEW word \in List!Words
    PROVE  List!Grouped(groups, word) \in Seq(Section)
<1>1. List!Letter(word) \in List!Alphabet
  BY DEF List!Letter, List!Words
<1>2. CASE groups = <<>> \/ List!Last(groups).letter # List!Letter(word)
  <2>1. <<word>> \in Seq(List!Words)
    OBVIOUS
  <2>2. [letter |-> List!Letter(word), accents |-> <<word>>] \in Section
    BY <1>1, <2>1 DEF Section
  <2>3. List!Grouped(groups, word) =
            Append(groups, [letter |-> List!Letter(word), accents |-> <<word>>])
    BY <1>2 DEF List!Grouped
  <2> QED
    BY <2>2, <2>3
<1>3. CASE ~(groups = <<>> \/ List!Last(groups).letter # List!Letter(word))
  <2> DEFINE n == Len(groups)
             last == [groups[n] EXCEPT !.accents = Append(@, word)]
  <2>1. n \in 1 .. Len(groups)
    BY <1>3
  <2>2. groups[n] \in Section
    BY <2>1
  <2>3. last \in Section
    <3>1. /\ groups[n].letter \in List!Alphabet
          /\ groups[n].accents \in Seq(List!Words)
      BY <2>2 DEF Section
    <3>2. Append(groups[n].accents, word) \in Seq(List!Words)
      BY <3>1
    <3> QED
      BY <2>2, <3>2 DEF Section
  <2>4. List!Grouped(groups, word) = [groups EXCEPT ![n] = last]
    BY <1>3 DEF List!Grouped
  <2> HIDE DEF last, n
  <2> QED
    BY <2>1, <2>3, <2>4
<1> QED
  BY <1>2, <1>3

(* GroupByLetter, one word after the other.                                *)
LEMMA GroupLoop ==
    ASSUME NEW n \in Nat, NEW a \in [1 .. n -> List!Words]
    PROVE  \E h : /\ h[0] = <<>>
                  /\ \A k \in 1 .. n : h[k] = List!Grouped(h[k - 1], a[k])
                  /\ List!GroupByLetter(a) = h[n]
<1> DEFINE V == Seq(Section)
           step == [x \in V \X (1 .. n) |-> List!Grouped(x[1], a[x[2]])]
<1>1. \A groups \in V, k \in 1 .. n : List!Grouped(groups, a[k]) \in V
  BY GroupedType
<1> HIDE DEF V
<1>2. step \in [V \X (1 .. n) -> V]
  BY <1>1
<1>3. <<>> \in V
  BY DEF V
<1>4. PICK f : Folds(f, n, V, <<>>, step)
  <2> HIDE DEF step
  <2> QED
    BY <1>2, <1>3, FoldExists
<1>5. DOMAIN a = 1 .. n
  OBVIOUS
<1>6. \A s \in SUBSET (1 .. n) :
          f[s] = IF s = {} THEN <<>>
                 ELSE List!Grouped(f[s \ {List!Max(s)}], a[List!Max(s)])
  <2> SUFFICES ASSUME NEW s \in SUBSET (1 .. n), s # {}
               PROVE  f[s] = List!Grouped(f[s \ {List!Max(s)}], a[List!Max(s)])
    BY <1>4 DEF Folds
  <2>1. List!Max(s) \in 1 .. n /\ s \ {List!Max(s)} \in SUBSET (1 .. n)
    BY Greatest
  <2>2. f[s \ {List!Max(s)}] \in V
    BY <1>4, <2>1 DEF Folds
  <2>3. f[s] = step[<<f[s \ {List!Max(s)}], List!Max(s)>>]
    BY <1>4 DEF Folds
  <2> QED
    BY <2>1, <2>2, <2>3
<1>7. f = [s \in SUBSET DOMAIN a |->
              IF s = {} THEN <<>>
              ELSE List!Grouped(f[s \ {List!Max(s)}], a[List!Max(s)])]
  BY <1>4, <1>5, <1>6 DEF Folds
<1>8. PICK g : /\ g = [s \in SUBSET DOMAIN a |->
                          IF s = {} THEN <<>>
                          ELSE List!Grouped(g[s \ {List!Max(s)}],
                                            a[List!Max(s)])]
               /\ List!GroupByLetter(a) = g[DOMAIN a]
  BY <1>7 DEF List!GroupByLetter, List!FoldLeft, List!MapThenFoldSet
<1> DEFINE h == [k \in 0 .. n |-> g[1 .. k]]
<1>9. h[0] = <<>>
  BY <1>5, <1>8, 1 .. 0 = {}
<1>10. ASSUME NEW k \in 1 .. n
       PROVE  h[k] = List!Grouped(h[k - 1], a[k])
  <2>1. /\ 1 .. k # {} /\ List!Max(1 .. k) = k /\ (1 .. k) \ {k} = 1 .. k - 1
        /\ 1 .. k \in SUBSET DOMAIN a
    BY <1>5, Prefix
  <2>2. g[1 .. k] = List!Grouped(g[1 .. k - 1], a[k])
    BY <1>8, <2>1
  <2> QED
    BY <2>2
<1>11. List!GroupByLetter(a) = h[n]
  <2>1. h[n] = g[1 .. n]
    OBVIOUS
  <2> HIDE DEF h
  <2> QED
    BY <1>5, <1>8, <2>1
<1> HIDE DEF h
<1> QED
  BY <1>9, <1>10, <1>11

(* The letters of the catalogue: those of its words, once each.            *)
LEMMA LettersAre ==
    ASSUME NEW n \in Nat, NEW a \in [1 .. n -> List!Words]
    PROVE  LET found == List!CatalogLetters(a)
           IN  /\ found \in Seq(List!Alphabet)
               /\ \A i, j \in 1 .. Len(found) : found[i] = found[j] => i = j
               /\ \A i \in 1 .. Len(found) : \E j \in 1 .. n :
                      found[i] = List!Letter(a[j])
               /\ \A j \in 1 .. n : \E i \in 1 .. Len(found) :
                      found[i] = List!Letter(a[j])
<1> DEFINE Good(found, k) ==
               /\ found \in Seq(List!Alphabet)
               /\ \A i, j \in 1 .. Len(found) : found[i] = found[j] => i = j
               /\ \A i \in 1 .. Len(found) : \E j \in 1 .. k :
                      found[i] = List!Letter(a[j])
               /\ \A j \in 1 .. k : \E i \in 1 .. Len(found) :
                      found[i] = List!Letter(a[j])
<1>1. PICK h : /\ h[0] = <<>>
               /\ \A k \in 1 .. n : h[k] = List!LetterAdded(h[k - 1], a[k])
               /\ List!CatalogLetters(a) = h[n]
  BY LettersLoop
<1> DEFINE S == {k \in 0 .. n : Good(h[k], k)}
<1>2. 0 \in S
  <2>1. /\ 1 .. 0 = {} /\ Len(<<>>) = 0 /\ 0 \in 0 .. n
    OBVIOUS
  <2>2. Good(<<>>, 0)
    BY <2>1
  <2> HIDE DEF Good
  <2> QED
    BY <1>1, <2>1, <2>2
<1>3. ASSUME NEW k \in 0 .. n - 1, k \in S PROVE k + 1 \in S
  <2> DEFINE found == h[k]
             letter == List!Letter(a[k + 1])
  <2>1. Good(found, k)
    BY <1>3
  <2>2. k + 1 \in 1 .. n /\ k \in Nat /\ (k + 1) - 1 = k
    BY <1>3
  <2>3. h[k + 1] = IF letter \in List!Range(found) THEN found
                   ELSE Append(found, letter)
    BY <1>1, <2>2 DEF List!LetterAdded
  <2>4. letter \in List!Alphabet
    BY <2>2 DEF List!Letter, List!Words
  <2>5. found \in Seq(List!Alphabet) /\ DOMAIN found = 1 .. Len(found)
        /\ Len(found) \in Nat
    BY <2>1
  <2>6. letter \in List!Range(found) <=>
            \E i \in 1 .. Len(found) : found[i] = letter
    BY <2>5 DEF List!Range
  <2>7. \A j \in 1 .. k + 1 : j \in 1 .. k \/ j = k + 1
    BY <2>2
  <2>8. \A j \in 1 .. k : j \in 1 .. k + 1
    BY <2>2
  <2>9. CASE letter \in List!Range(found)
    <3>1. h[k + 1] = found
      BY <2>3, <2>9
    <3>2. Good(found, k + 1)
      <4>1. \A i \in 1 .. Len(found) : \E j \in 1 .. k + 1 :
                found[i] = List!Letter(a[j])
        BY <2>1, <2>8
      <4>2. \A j \in 1 .. k + 1 : \E i \in 1 .. Len(found) :
                found[i] = List!Letter(a[j])
        BY <2>1, <2>6, <2>7, <2>9
      <4> QED
        BY <2>1, <4>1, <4>2
    <3> HIDE DEF Good, found
    <3> QED
      BY <2>2, <3>1, <3>2
  <2>10. CASE letter \notin List!Range(found)
    <3> DEFINE next == Append(found, letter)
    <3>1. h[k + 1] = next
      BY <2>3, <2>10
    <3>2. /\ next \in Seq(List!Alphabet) /\ Len(next) = Len(found) + 1
          /\ \A i \in 1 .. Len(found) : next[i] = found[i]
          /\ next[Len(found) + 1] = letter
          /\ Len(found) + 1 \in 1 .. Len(found) + 1
      <4> HIDE DEF found, letter
      <4> QED
        BY <2>4, <2>5
    <3>3. \A i \in 1 .. Len(found) + 1 :
              i \in 1 .. Len(found) \/ i = Len(found) + 1
      BY <2>5
    <3>4. \A i \in 1 .. Len(found) : i \in 1 .. Len(found) + 1
      BY <2>5
    <3> HIDE DEF next
    <3>5. \A i, j \in 1 .. Len(next) : next[i] = next[j] => i = j
      BY <2>1, <2>6, <2>10, <3>2, <3>3
    <3>6. \A i \in 1 .. Len(next) : \E j \in 1 .. k + 1 :
              next[i] = List!Letter(a[j])
      <4>1. k + 1 \in 1 .. k + 1
        BY <2>2
      <4> QED
        BY <2>1, <2>8, <3>2, <3>3, <4>1
    <3>7. \A j \in 1 .. k + 1 : \E i \in 1 .. Len(next) :
              next[i] = List!Letter(a[j])
      BY <2>1, <2>7, <3>2, <3>4
    <3>8. Good(next, k + 1)
      BY <3>2, <3>5, <3>6, <3>7
    <3> HIDE DEF Good, found
    <3> QED
      BY <2>2, <3>1, <3>8
  <2> QED
    BY <2>9, <2>10
<1> HIDE DEF S
<1>4. n \in S
  <2>1. \A k \in 0 .. n - 1 : k \in S => k + 1 \in S
    BY <1>3
  <2>2. \A k \in 0 .. n : k \in S
    BY <1>2, <2>1, UpTo
  <2> QED
    BY <2>2
<1>5. Good(List!CatalogLetters(a), n)
  BY <1>1, <1>4 DEF S
<1> QED
  BY <1>5

(* The words come in the order of the first n rows.                        *)
InOrder(found, n) ==
    \A i, j \in 1 .. Len(found) : i < j =>
        \E p, q \in 1 .. n :
            p < q /\ found[i] = catalog[p] /\ found[j] = catalog[q]

(* What ByLetters finds: the rows under those letters, in their order.     *)
LEMMA ByLettersAre ==
    ASSUME NEW n \in Nat, catalog \in [1 .. n -> List!Words], NEW wanted
    PROVE  LET found == List!ByLetters(wanted)
           IN  /\ found \in Seq(List!Words)
               /\ \A i \in 1 .. Len(found) : \E p \in 1 .. n :
                      found[i] = catalog[p] /\ List!Letter(catalog[p]) \in wanted
               /\ \A p \in 1 .. n : List!Letter(catalog[p]) \in wanted =>
                      \E i \in 1 .. Len(found) : found[i] = catalog[p]
               /\ InOrder(found, n)
<1> DEFINE Good(found, k) ==
               /\ found \in Seq(List!Words)
               /\ \A i \in 1 .. Len(found) : \E p \in 1 .. k :
                      found[i] = catalog[p] /\ List!Letter(catalog[p]) \in wanted
               /\ \A p \in 1 .. k : List!Letter(catalog[p]) \in wanted =>
                      \E i \in 1 .. Len(found) : found[i] = catalog[p]
               /\ \A i, j \in 1 .. Len(found) : i < j =>
                      \E p, q \in 1 .. k :
                          p < q /\ found[i] = catalog[p] /\ found[j] = catalog[q]
<1>1. PICK h : /\ h[0] = <<>>
               /\ \A k \in 1 .. n :
                      h[k] = IF List!Letter(catalog[k]) \in wanted
                             THEN Append(h[k - 1], catalog[k]) ELSE h[k - 1]
               /\ List!ByLetters(wanted) = h[n]
  BY ByLettersLoop
<1> DEFINE S == {k \in 0 .. n : Good(h[k], k)}
<1>2. 0 \in S
  <2>1. /\ 1 .. 0 = {} /\ Len(<<>>) = 0 /\ 0 \in 0 .. n
    OBVIOUS
  <2>2. Good(<<>>, 0)
    BY <2>1
  <2> HIDE DEF Good
  <2> QED
    BY <1>1, <2>1, <2>2
<1>3. ASSUME NEW k \in 0 .. n - 1, k \in S PROVE k + 1 \in S
  <2> DEFINE found == h[k]
             word == catalog[k + 1]
  <2>1. Good(found, k)
    BY <1>3
  <2>2. k + 1 \in 1 .. n /\ k \in Nat /\ (k + 1) - 1 = k
    BY <1>3
  <2>3. h[k + 1] = IF List!Letter(word) \in wanted
                   THEN Append(found, word) ELSE found
    BY <1>1, <2>2
  <2>4. word \in List!Words /\ found \in Seq(List!Words) /\ Len(found) \in Nat
    BY <2>1, <2>2
  <2>5. \A p \in 1 .. k + 1 : p \in 1 .. k \/ p = k + 1
    BY <2>2
  <2>6. \A p \in 1 .. k : p \in 1 .. k + 1 /\ p < k + 1
    BY <2>2
  <2>7. CASE List!Letter(word) \notin wanted
    <3>1. h[k + 1] = found
      BY <2>3, <2>7
    <3>2. Good(found, k + 1)
      <4>1. \A i \in 1 .. Len(found) : \E p \in 1 .. k + 1 :
                found[i] = catalog[p] /\ List!Letter(catalog[p]) \in wanted
        BY <2>1, <2>6
      <4>2. \A p \in 1 .. k + 1 : List!Letter(catalog[p]) \in wanted =>
                \E i \in 1 .. Len(found) : found[i] = catalog[p]
        BY <2>1, <2>5, <2>7
      <4>3. \A i, j \in 1 .. Len(found) : i < j =>
                \E p, q \in 1 .. k + 1 :
                    p < q /\ found[i] = catalog[p] /\ found[j] = catalog[q]
        BY <2>1, <2>6
      <4> QED
        BY <2>4, <4>1, <4>2, <4>3
    <3> HIDE DEF Good, found
    <3> QED
      BY <2>2, <3>1, <3>2
  <2>8. CASE List!Letter(word) \in wanted
    <3> DEFINE next == Append(found, word)
    <3>1. h[k + 1] = next
      BY <2>3, <2>8
    <3>2. /\ next \in Seq(List!Words) /\ Len(next) = Len(found) + 1
          /\ \A i \in 1 .. Len(found) : next[i] = found[i]
          /\ next[Len(found) + 1] = word
          /\ Len(found) + 1 \in 1 .. Len(found) + 1
      <4> HIDE DEF found, word
      <4> QED
        BY <2>4
    <3>3. \A i \in 1 .. Len(found) + 1 :
              i \in 1 .. Len(found) \/ i = Len(found) + 1
      BY <2>4
    <3>4. \A i \in 1 .. Len(found) : i \in 1 .. Len(found) + 1
      BY <2>4
    <3>5. k + 1 \in 1 .. k + 1
      BY <2>2
    <3> HIDE DEF next
    <3>6. ASSUME NEW i \in 1 .. Len(next)
          PROVE  \E p \in 1 .. k + 1 :
                     next[i] = catalog[p] /\ List!Letter(catalog[p]) \in wanted
      <4>1. CASE i \in 1 .. Len(found)
        <5>1. PICK p \in 1 .. k :
                  found[i] = catalog[p] /\ List!Letter(catalog[p]) \in wanted
          BY <2>1, <4>1
        <5>2. p \in 1 .. k + 1 /\ next[i] = found[i]
          BY <2>6, <3>2, <4>1
        <5> QED
          BY <5>1, <5>2
      <4>2. CASE i = Len(found) + 1
        BY <2>8, <3>2, <3>5, <4>2
      <4> QED
        BY <3>2, <3>3, <4>1, <4>2
    <3>7. \A p \in 1 .. k + 1 : List!Letter(catalog[p]) \in wanted =>
              \E i \in 1 .. Len(next) : next[i] = catalog[p]
      BY <2>1, <2>5, <3>2, <3>4
    <3>8. ASSUME NEW i \in 1 .. Len(next), NEW j \in 1 .. Len(next), i < j
          PROVE  \E p, q \in 1 .. k + 1 :
                     p < q /\ next[i] = catalog[p] /\ next[j] = catalog[q]
      <4>1. i \in 1 .. Len(found)
        BY <2>4, <3>2, <3>8
      <4>2. CASE j \in 1 .. Len(found)
        <5>1. \E p, q \in 1 .. k :
                  p < q /\ found[i] = catalog[p] /\ found[j] = catalog[q]
          BY <2>1, <3>8, <4>1, <4>2
        <5> QED
          BY <2>6, <3>2, <4>1, <4>2, <5>1
      <4>3. CASE j = Len(found) + 1
        <5>1. PICK p \in 1 .. k : found[i] = catalog[p]
          BY <2>1, <4>1
        <5>2. next[i] = catalog[p] /\ next[j] = catalog[k + 1]
          BY <3>2, <4>1, <4>3, <5>1
        <5> QED
          BY <2>6, <3>5, <5>2
      <4> QED
        BY <3>2, <3>3, <4>2, <4>3
    <3>9. Good(next, k + 1)
      BY <3>2, <3>6, <3>7, <3>8
    <3> HIDE DEF Good, found
    <3> QED
      BY <2>2, <3>1, <3>9
  <2> QED
    BY <2>7, <2>8
<1> HIDE DEF S
<1>4. n \in S
  <2>1. \A k \in 0 .. n - 1 : k \in S => k + 1 \in S
    BY <1>3
  <2>2. \A k \in 0 .. n : k \in S
    BY <1>2, <2>1, UpTo
  <2> QED
    BY <2>2
<1>5. Good(List!ByLetters(wanted), n)
  BY <1>1, <1>4 DEF S
<1> QED
  BY <1>5 DEF InOrder

(* The word w is the x-th of section g.                                    *)
At(groups, g, x, w) ==
    /\ g \in 1 .. Len(groups)
    /\ x \in 1 .. Len(groups[g].accents)
    /\ groups[g].accents[x] = w

(* A word is added in one place, behind all the others, and nothing else   *)
(* moves.                                                                  *)
Placed(groups, next, word) ==
    LET last == Len(next)
        place == Len(next[last].accents)
    IN  /\ next \in Seq(Section)
        /\ last = Len(groups) \/ last = Len(groups) + 1
        /\ last \in 1 .. last
        /\ next[last].letter = List!Letter(word)
        /\ \A g \in 1 .. Len(groups) : next[g].letter = groups[g].letter
        /\ \A g, x, w : At(next, g, x, w) <=>
               \/ At(groups, g, x, w)
               \/ g = last /\ x = place /\ w = word
        /\ \A w : ~At(groups, last, place, w)
        /\ last = Len(groups) + 1 =>
               groups = <<>> \/ groups[Len(groups)].letter # List!Letter(word)

LEMMA Opens ==
    ASSUME NEW groups \in Seq(Section), NEW word \in List!Words,
           groups = <<>> \/ groups[Len(groups)].letter # List!Letter(word)
    PROVE  Placed(groups, List!Grouped(groups, word), word)
<1> DEFINE next == List!Grouped(groups, word)
           n == Len(groups)
           new == [letter |-> List!Letter(word), accents |-> <<word>>]
<1>1. next = Append(groups, new)
  BY DEF List!Grouped, List!Last
<1>2. next \in Seq(Section)
  BY GroupedType
<1>3. n \in Nat
  OBVIOUS
<1>4. /\ new.letter = List!Letter(word) /\ new.accents = <<word>>
      /\ Len(new.accents) = 1 /\ new.accents[1] = word
  OBVIOUS
<1> HIDE DEF next, new
<1>5. /\ Len(next) = n + 1
      /\ \A g \in 1 .. n : next[g] = groups[g]
      /\ next[n + 1] = new
  BY <1>1
<1> HIDE DEF n
<1>6. \A g : g \in 1 .. n + 1 <=> g \in 1 .. n \/ g = n + 1
  BY <1>3
<1>7. n + 1 \notin 1 .. n
  BY <1>3
<1>8. \A x : x \in 1 .. 1 <=> x = 1
  OBVIOUS
<1>9. ASSUME NEW g, NEW x, NEW w
      PROVE  At(next, g, x, w) <=> \/ At(groups, g, x, w)
                                   \/ g = n + 1 /\ x = 1 /\ w = word
  <2>1. CASE g \in 1 .. n
    BY <1>5, <1>6, <1>7, <2>1 DEF At, n
  <2>2. CASE g = n + 1
    BY <1>4, <1>5, <1>6, <1>7, <1>8, <2>2 DEF At, n
  <2>3. CASE g \notin 1 .. n + 1
    BY <1>5, <1>6, <2>3 DEF At, n
  <2> QED
    BY <1>6, <2>1, <2>2, <2>3
<1>10. \A w : ~At(groups, n + 1, 1, w)
  BY <1>7 DEF At, n
<1>11. Len(next) \in 1 .. Len(next)
  BY <1>3, <1>5
<1>12. \A g \in 1 .. n : next[g].letter = groups[g].letter
  BY <1>5
<1>13. /\ Len(next[Len(next)].accents) = 1
       /\ next[Len(next)].letter = List!Letter(word)
  BY <1>4, <1>5
<1>14. Placed(groups, next, word)
  BY <1>2, <1>5, <1>9, <1>10, <1>11, <1>12, <1>13 DEF Placed, n
<1> QED
  BY <1>14 DEF next

LEMMA Joins ==
    ASSUME NEW groups \in Seq(Section), NEW word \in List!Words,
           ~(groups = <<>> \/ groups[Len(groups)].letter # List!Letter(word))
    PROVE  Placed(groups, List!Grouped(groups, word), word)
<1> DEFINE next == List!Grouped(groups, word)
           n == Len(groups)
           old == groups[n]
           m == Len(old.accents)
           new == [old EXCEPT !.accents = Append(old.accents, word)]
<1>1. next = [groups EXCEPT ![n] = new]
  BY DEF List!Grouped, List!Last
<1>2. next \in Seq(Section)
  BY GroupedType
<1>3. n \in Nat /\ n \in 1 .. n
  OBVIOUS
<1>4. old \in Section /\ old.letter = List!Letter(word)
  BY <1>3
<1>5. /\ old.accents \in Seq(List!Words) /\ m \in Nat
  BY <1>4 DEF Section
<1>6. /\ new.letter = List!Letter(word)
      /\ new.accents = Append(old.accents, word)
  BY <1>4 DEF Section
<1> HIDE DEF new
<1>7. /\ Len(new.accents) = m + 1
      /\ \A x \in 1 .. m : new.accents[x] = old.accents[x]
      /\ new.accents[m + 1] = word
  <2> HIDE DEF old
  <2> QED
    BY <1>5, <1>6
<1> HIDE DEF next
<1>8. /\ Len(next) = n /\ next[n] = new
      /\ \A g \in 1 .. n : g # n => next[g] = groups[g]
  BY <1>1, <1>3
<1> HIDE DEF n, m
<1>9. \A x : x \in 1 .. m + 1 <=> x \in 1 .. m \/ x = m + 1
  BY <1>5
<1>10. m + 1 \notin 1 .. m
  BY <1>5
<1>11. ASSUME NEW g, NEW x, NEW w
       PROVE  At(next, g, x, w) <=> \/ At(groups, g, x, w)
                                    \/ g = n /\ x = m + 1 /\ w = word
  <2>1. CASE g \in 1 .. n /\ g # n
    BY <1>8, <2>1 DEF At, n
  <2>2. CASE g = n /\ x \in 1 .. m
    BY <1>3, <1>7, <1>8, <1>9, <1>10, <2>2 DEF At, n, m
  <2>3. CASE g = n /\ x = m + 1
    BY <1>3, <1>7, <1>8, <1>9, <1>10, <2>3 DEF At, n, m
  <2>4. CASE g = n /\ x \notin 1 .. m + 1
    BY <1>3, <1>7, <1>8, <1>9, <2>4 DEF At, n, m
  <2>5. CASE g \notin 1 .. n
    BY <1>3, <1>8, <2>5 DEF At, n
  <2> QED
    BY <1>9, <2>1, <2>2, <2>3, <2>4, <2>5
<1>12. \A w : ~At(groups, n, m + 1, w)
  BY <1>10 DEF At, m
<1>13. \A g \in 1 .. n : next[g].letter = groups[g].letter
  BY <1>4, <1>6, <1>8
<1>14. Len(next[Len(next)].accents) = m + 1
       /\ next[Len(next)].letter = List!Letter(word)
       /\ Len(next) \in 1 .. Len(next) /\ Len(next) # Len(groups) + 1
  BY <1>3, <1>6, <1>7, <1>8 DEF n
<1>15. Placed(groups, next, word)
  <2>1. Len(next) = Len(groups)
    BY <1>8 DEF n
  <2> QED
    BY <1>2, <1>8, <1>11, <1>12, <1>13, <1>14, <2>1 DEF Placed, n
<1> QED
  BY <1>15 DEF next

(* The sections: each word is in one place, under its letter.              *)
Sorted(groups, a, k) ==
    /\ groups \in Seq(Section)
    /\ \A g, x, w : At(groups, g, x, w) =>
           /\ groups[g].letter = List!Letter(w)
           /\ \E j \in 1 .. k : w = a[j]
    /\ \A j \in 1 .. k : \E g, x : At(groups, g, x, a[j])
    /\ \A g, x, h, y, w :
           At(groups, g, x, w) /\ At(groups, h, y, w) => g = h /\ x = y

(* Their letters go up to that of the last word.                           *)
Headed(groups, a, k) ==
    /\ \A g, h \in 1 .. Len(groups) :
           g < h => groups[g].letter < groups[h].letter
    /\ k >= 1 => /\ Len(groups) >= 1
                 /\ groups[Len(groups)].letter = List!Letter(a[k])

LEMMA PlacedSorted ==
    ASSUME NEW n \in Nat, NEW a \in [1 .. n -> List!Words],
           \A i, j \in 1 .. n : a[i] = a[j] => i = j,
           NEW k \in 0 .. n - 1, NEW groups, NEW next,
           Sorted(groups, a, k), Placed(groups, next, a[k + 1])
    PROVE  Sorted(next, a, k + 1)
<1> DEFINE word == a[k + 1]
           last == Len(next)
           place == Len(next[last].accents)
<1>1. /\ k + 1 \in 1 .. n /\ \A j \in 1 .. k : j \in 1 .. k + 1 /\ j \in 1 .. n
      /\ \A j \in 1 .. k : j # k + 1
      /\ k + 1 \in 1 .. k + 1
      /\ \A j \in 1 .. k + 1 : j \in 1 .. k \/ j = k + 1
  OBVIOUS
<1>2. \A g, x : ~At(groups, g, x, word)
  <2> SUFFICES ASSUME NEW g, NEW x, At(groups, g, x, word) PROVE FALSE
    OBVIOUS
  <2>1. PICK j \in 1 .. k : word = a[j]
    BY DEF Sorted
  <2> QED
    BY <1>1, <2>1
<1>3. /\ next \in Seq(Section)
      /\ next[last].letter = List!Letter(word)
      /\ \A g \in 1 .. Len(groups) : next[g].letter = groups[g].letter
      /\ \A g, x, w : At(next, g, x, w) <=>
             \/ At(groups, g, x, w)
             \/ g = last /\ x = place /\ w = word
      /\ \A w : ~At(groups, last, place, w)
  BY DEF Placed
<1> HIDE DEF word, last, place
<1>4. ASSUME NEW g, NEW x, NEW w, At(next, g, x, w)
      PROVE  /\ next[g].letter = List!Letter(w)
             /\ \E j \in 1 .. k + 1 : w = a[j]
  <2>1. CASE At(groups, g, x, w)
    <3>1. g \in 1 .. Len(groups)
      BY <2>1 DEF At
    <3> QED
      BY <1>1, <1>3, <2>1, <3>1 DEF Sorted
  <2>2. CASE g = last /\ w = word
    BY <1>1, <1>3, <2>2 DEF word
  <2> QED
    BY <1>3, <1>4, <2>1, <2>2
<1>5. ASSUME NEW j \in 1 .. k + 1 PROVE \E g, x : At(next, g, x, a[j])
  <2>1. CASE j \in 1 .. k
    BY <1>3, <2>1 DEF Sorted
  <2>2. CASE j = k + 1
    BY <1>3, <2>2 DEF word
  <2> QED
    BY <1>1, <2>1, <2>2
<1>6. ASSUME NEW g, NEW x, NEW h, NEW y, NEW w,
             At(next, g, x, w), At(next, h, y, w)
      PROVE  g = h /\ x = y
  <2>1. CASE w = word
    BY <1>2, <1>3, <1>6, <2>1
  <2>2. CASE w # word
    BY <1>3, <1>6, <2>2 DEF Sorted
  <2> QED
    BY <2>1, <2>2
<1> QED
  BY <1>3, <1>4, <1>5, <1>6 DEF Sorted

LEMMA PlacedHeaded ==
    ASSUME NEW n \in Nat, NEW a \in [1 .. n -> List!Words],
           \A i, j \in 1 .. n : i < j => List!Letter(a[i]) <= List!Letter(a[j]),
           NEW k \in 0 .. n - 1, NEW groups \in Seq(Section), NEW next,
           k = 0 => groups = <<>>,
           Headed(groups, a, k), Placed(groups, next, a[k + 1])
    PROVE  Headed(next, a, k + 1)
<1> DEFINE m == Len(groups)
           last == Len(next)
           letter == List!Letter(a[k + 1])
<1>1. m \in Nat /\ k \in Nat /\ k + 1 \in 1 .. n
  OBVIOUS
<1>2. letter \in Int /\ \A g \in 1 .. m : groups[g].letter \in Int
  <2>1. letter \in List!Alphabet
    BY <1>1 DEF List!Letter, List!Words
  <2>2. ASSUME NEW g \in 1 .. m PROVE groups[g].letter \in List!Alphabet
    <3>1. groups[g] \in Section
      OBVIOUS
    <3> QED
      BY <3>1 DEF Section
  <2> QED
    BY <2>1, <2>2, VocabularyAssumption DEF List!Alphabet
<1>3. /\ last = m \/ last = m + 1
      /\ last \in 1 .. last
      /\ next[last].letter = letter
      /\ \A g \in 1 .. m : next[g].letter = groups[g].letter
      /\ last = m + 1 => groups = <<>> \/ groups[m].letter # letter
  BY DEF Placed
<1>4. CASE k = 0
  <2>1. m = 0
    BY <1>4
  <2>2. last = 1
    BY <1>3, <2>1
  <2> QED
    BY <1>1, <1>3, <1>4, <2>2 DEF Headed
<1>5. CASE k >= 1
  <2>1. /\ m >= 1 /\ m \in 1 .. m
        /\ groups[m].letter = List!Letter(a[k])
    BY <1>1, <1>5 DEF Headed
  <2>2. groups[m].letter <= letter
    <3>1. k \in 1 .. n /\ k < k + 1
      BY <1>1, <1>5
    <3> QED
      BY <1>1, <2>1, <3>1
  <2>3. groups # <<>>
    BY <2>1
  <2>4. \A g, h \in 1 .. m : g < h => next[g].letter < next[h].letter
    BY <1>3 DEF Headed
  <2>5. \A g \in 1 .. m : next[g].letter <= groups[m].letter
    BY <1>1, <1>2, <1>3, <2>1 DEF Headed
  <2> HIDE DEF letter, m, last
  <2>6. CASE last = m
    BY <1>1, <1>3, <2>1, <2>4, <2>6 DEF Headed, last, letter
  <2>7. CASE last = m + 1
    <3>1. groups[m].letter < letter
      BY <1>2, <1>3, <2>1, <2>2, <2>3, <2>7
    <3>2. \A g \in 1 .. m : next[g].letter < letter
      BY <1>2, <1>3, <2>1, <2>5, <3>1
    <3>3. \A g \in 1 .. last : g \in 1 .. m \/ g = last
      BY <1>1, <2>7
    <3>4. \A g, h \in 1 .. last : g < h => next[g].letter < next[h].letter
      <4> SUFFICES ASSUME NEW g \in 1 .. last, NEW h \in 1 .. last, g < h
                   PROVE  next[g].letter < next[h].letter
        OBVIOUS
      <4>1. g \in 1 .. m
        BY <1>1, <2>7
      <4>2. CASE h \in 1 .. m
        BY <2>4, <4>1, <4>2
      <4>3. CASE h = last
        BY <1>3, <3>2, <4>1, <4>3
      <4> QED
        BY <3>3, <4>2, <4>3
    <3>5. last >= 1
      BY <1>1, <2>7
    <3> QED
      BY <1>3, <3>4, <3>5 DEF Headed, last, letter
  <2> QED
    BY <1>3, <2>6, <2>7
<1> QED
  BY <1>1, <1>4, <1>5

(* GroupByLetter: each word of a list without repetitions in one place,    *)
(* and one heading for each letter if the list is in alphabetical order.   *)
LEMMA GroupsAre ==
    ASSUME NEW n \in Nat, NEW a \in [1 .. n -> List!Words],
           \A i, j \in 1 .. n : a[i] = a[j] => i = j
    PROVE  /\ Sorted(List!GroupByLetter(a), a, n)
           /\ (\A i, j \in 1 .. n : i < j =>
                   List!Letter(a[i]) <= List!Letter(a[j]))
                  => Headed(List!GroupByLetter(a), a, n)
<1>1. PICK h : /\ h[0] = <<>>
               /\ \A k \in 1 .. n : h[k] = List!Grouped(h[k - 1], a[k])
               /\ List!GroupByLetter(a) = h[n]
  BY GroupLoop
<1> DEFINE ascending == \A i, j \in 1 .. n : i < j =>
                            List!Letter(a[i]) <= List!Letter(a[j])
           S == {k \in 0 .. n : Sorted(h[k], a, k)
                                /\ (ascending => Headed(h[k], a, k))}
<1> HIDE DEF ascending
<1>2. 0 \in S
  <2>1. 1 .. 0 = {} /\ Len(<<>>) = 0 /\ 0 \in 0 .. n /\ ~(0 >= 1)
    OBVIOUS
  <2>2. Sorted(<<>>, a, 0)
    BY <2>1 DEF Sorted, At
  <2>3. Headed(<<>>, a, 0)
    BY <2>1 DEF Headed
  <2> QED
    BY <1>1, <2>1, <2>2, <2>3
<1>3. ASSUME NEW k \in 0 .. n - 1, k \in S PROVE k + 1 \in S
  <2>1. k + 1 \in 1 .. n /\ k + 1 \in 0 .. n /\ (k + 1) - 1 = k
    OBVIOUS
  <2>2. h[k + 1] = List!Grouped(h[k], a[k + 1])
    BY <1>1, <2>1
  <2>3. Sorted(h[k], a, k) /\ (ascending => Headed(h[k], a, k))
    BY <1>3
  <2>4. h[k] \in Seq(Section) /\ a[k + 1] \in List!Words
    BY <2>1, <2>3 DEF Sorted
  <2>5. Placed(h[k], h[k + 1], a[k + 1])
    BY <2>2, <2>4, Opens, Joins
  <2>6. Sorted(h[k + 1], a, k + 1)
    BY <2>3, <2>5, PlacedSorted
  <2>7. ASSUME ascending PROVE Headed(h[k + 1], a, k + 1)
    <3>1. k = 0 => h[k] = <<>>
      BY <1>1
    <3> QED
      BY <2>3, <2>4, <2>5, <2>7, <3>1, PlacedHeaded DEF ascending
  <2> QED
    BY <2>1, <2>6, <2>7
<1> HIDE DEF S
<1>4. n \in S
  <2>1. \A k \in 0 .. n - 1 : k \in S => k + 1 \in S
    BY <1>3
  <2>2. \A k \in 0 .. n : k \in S
    BY <1>2, <2>1, UpTo
  <2> QED
    BY <2>2
<1> QED
  BY <1>1, <1>4 DEF S, ascending

-----------------------------------------------------------------------------
(* The list.                                                               *)

(* The rows are words, once each, in alphabetical order if they were       *)
(* seeded; and the letters are those NewCatalog has found in them.         *)
CatalogSound ==
    /\ catalog \in Seq(List!Words)
    /\ \A i, j \in 1 .. Len(catalog) : catalog[i] = catalog[j] => i = j
    /\ Seeded => \A i, j \in 1 .. Len(catalog) :
                     i < j => List!Precedes(catalog[i], catalog[j])
    /\ letters = List!CatalogLetters(catalog)

LEMMA TablesSound ==
    ASSUME NEW rows \in List!Tables
    PROVE  /\ rows \in Seq(List!Words)
           /\ \A i, j \in 1 .. Len(rows) : rows[i] = rows[j] => i = j
           /\ Seeded => \A i, j \in 1 .. Len(rows) :
                            i < j => List!Precedes(rows[i], rows[j])
<1>1. PICK s \in SUBSET List!Words : rows \in List!SetToSeqs(s)
  BY DEF List!Tables
<1> DEFINE n == List!Cardinality(s)
<1>2. /\ rows \in [1 .. n -> s]
      /\ \A i, j \in 1 .. n : i # j => rows[i] # rows[j]
  BY <1>1 DEF List!SetToSeqs
<1>3. n \in Nat
  <2>1. IsFiniteSet(List!Words)
    <3>1. IsFiniteSet(List!Alphabet) /\ IsFiniteSet(1 .. WordsPerLetter)
      BY VocabularyAssumption, FS_Interval DEF List!Alphabet
    <3> QED
      BY <3>1, FS_Product DEF List!Words
  <2>2. Cardinality(s) \in Nat
    BY <2>1, FS_Subset, FS_CardinalityType
  <2>3. n = Cardinality(s)
    BY DEF List!Cardinality, Cardinality
  <2> QED
    BY <2>2, <2>3
<1> HIDE DEF n
<1>4. rows \in Seq(List!Words) /\ Len(rows) = n /\ DOMAIN rows = 1 .. n
  BY <1>2, <1>3
<1>5. Seeded => \A i, j \in DOMAIN rows :
                    i < j => List!Precedes(rows[i], rows[j])
  BY DEF List!Tables
<1> QED
  BY <1>2, <1>4, <1>5

(* The catalogue stays what it was read as: no word in it twice, in the    *)
(* order of the rows, its letters those of its words (NewCatalog).         *)
THEOREM CatalogStaysSound == Spec => []CatalogSound
<1>1. Init => CatalogSound
  BY TablesSound DEF Init, List!Init, CatalogSound
<1>2. CatalogSound /\ [Next]_vars => CatalogSound'
  <2> SUFFICES ASSUME CatalogSound, [Next]_vars PROVE CatalogSound'
    OBVIOUS
  <2>1. catalog' = catalog /\ letters' = letters
    BY DEF Next, Practise, Browse, List!Next, List!SearchByLetters, vars
  <2> QED
    BY <2>1 DEF CatalogSound
<1> QED
  BY <1>1, <1>2, PTL DEF Spec

(* The keyboard leads to every word there is, to no empty list, and has    *)
(* each letter once, in whatever order the rows are (NewCatalog, Alphabet, *)
(* ByLetters).                                                             *)
THEOREM AlphabetLeadsToWordsHolds == Spec => []AlphabetLeadsToWords
<1>1. CatalogSound => AlphabetLeadsToWords
  <2> SUFFICES ASSUME CatalogSound
               PROVE  /\ \A i \in DOMAIN letters :
                             List!ByLetters({letters[i]}) # <<>>
                      /\ \A i \in DOMAIN catalog :
                             List!Letter(catalog[i]) \in List!Range(letters)
                      /\ List!IsInjective(letters)
    BY DEF AlphabetLeadsToWords, List!AlphabetLeadsToWords
  <2> DEFINE n == Len(catalog)
  <2>1. /\ n \in Nat /\ catalog \in [1 .. n -> List!Words]
        /\ DOMAIN catalog = 1 .. n
    BY DEF CatalogSound
  <2> HIDE DEF n
  <2>2. /\ letters \in Seq(List!Alphabet)
        /\ \A i, j \in 1 .. Len(letters) : letters[i] = letters[j] => i = j
        /\ \A i \in 1 .. Len(letters) : \E j \in 1 .. n :
               letters[i] = List!Letter(catalog[j])
        /\ \A j \in 1 .. n : \E i \in 1 .. Len(letters) :
               letters[i] = List!Letter(catalog[j])
    <3>1. letters = List!CatalogLetters(catalog)
      BY DEF CatalogSound
    <3>2. LET found == List!CatalogLetters(catalog)
          IN  /\ found \in Seq(List!Alphabet)
              /\ \A i, j \in 1 .. Len(found) : found[i] = found[j] => i = j
              /\ \A i \in 1 .. Len(found) : \E j \in 1 .. n :
                     found[i] = List!Letter(catalog[j])
              /\ \A j \in 1 .. n : \E i \in 1 .. Len(found) :
                     found[i] = List!Letter(catalog[j])
      BY <2>1, LettersAre
    <3> QED
      BY <3>1, <3>2
  <2>3. DOMAIN letters = 1 .. Len(letters)
    BY <2>2
  <2>4. ASSUME NEW i \in DOMAIN letters
        PROVE  List!ByLetters({letters[i]}) # <<>>
    <3>1. PICK j \in 1 .. n : letters[i] = List!Letter(catalog[j])
      BY <2>2, <2>3
    <3> DEFINE found == List!ByLetters({letters[i]})
    <3>2. \E k \in 1 .. Len(found) : found[k] = catalog[j]
      BY <2>1, <3>1, ByLettersAre
    <3>3. Len(<<>>) = 0 /\ 1 .. 0 = {}
      OBVIOUS
    <3> QED
      BY <3>2, <3>3
  <2>5. \A i \in DOMAIN catalog :
            List!Letter(catalog[i]) \in List!Range(letters)
    BY <2>1, <2>2, <2>3 DEF List!Range
  <2>6. List!IsInjective(letters)
    BY <2>2, <2>3 DEF List!IsInjective
  <2> QED
    BY <2>4, <2>5, <2>6
<1> QED
  BY <1>1, CatalogStaysSound, PTL

(* A reply has each word that was asked for in one place, under its        *)
(* letter, and no other.                                                   *)
ListedOnce ==
    reply # NoReply =>
        /\ reply \in Seq(Section)
        /\ \A g, x, w : At(reply, g, x, w) =>
               /\ reply[g].letter = List!Letter(w)
               /\ List!Letter(w) \in List!Range(message)
               /\ \E j \in 1 .. Len(catalog) : w = catalog[j]
        /\ \A j \in 1 .. Len(catalog) :
               List!Letter(catalog[j]) \in List!Range(message)
                   => \E g, x : At(reply, g, x, catalog[j])
        /\ \A g, x, h, y, w :
               At(reply, g, x, w) /\ At(reply, h, y, w) => g = h /\ x = y

(* If the rows were seeded, it has one heading for each letter.            *)
HeadedOnce ==
    reply # NoReply /\ Seeded =>
        \A g, h \in 1 .. Len(reply) :
            g < h => reply[g].letter < reply[h].letter

LEMMA SectionsSound ==
    ASSUME CatalogSound, NEW text, NEW groups, groups = List!Sections(text)
    PROVE  /\ groups \in Seq(Section)
           /\ \A g, x, w : At(groups, g, x, w) =>
                  /\ groups[g].letter = List!Letter(w)
                  /\ List!Letter(w) \in List!Range(text)
                  /\ \E j \in 1 .. Len(catalog) : w = catalog[j]
           /\ \A j \in 1 .. Len(catalog) :
                  List!Letter(catalog[j]) \in List!Range(text)
                      => \E g, x : At(groups, g, x, catalog[j])
           /\ \A g, x, h, y, w :
                  At(groups, g, x, w) /\ At(groups, h, y, w) => g = h /\ x = y
           /\ Seeded => \A g, h \in 1 .. Len(groups) :
                            g < h => groups[g].letter < groups[h].letter
<1> DEFINE n == Len(catalog)
           wanted == List!Range(text)
           a == List!ByLetters(wanted)
           m == Len(a)
<1>1. /\ n \in Nat /\ catalog \in [1 .. n -> List!Words]
      /\ \A i, j \in 1 .. n : catalog[i] = catalog[j] => i = j
      /\ Seeded => \A i, j \in 1 .. n :
                       i < j => List!Precedes(catalog[i], catalog[j])
  BY DEF CatalogSound
<1>2. groups = List!GroupByLetter(a)
  BY DEF List!Sections, List!Wanted
<1> HIDE DEF n, wanted
<1>3. /\ a \in Seq(List!Words)
      /\ \A i \in 1 .. m : \E p \in 1 .. n :
             a[i] = catalog[p] /\ List!Letter(catalog[p]) \in wanted
      /\ \A p \in 1 .. n : List!Letter(catalog[p]) \in wanted =>
             \E i \in 1 .. m : a[i] = catalog[p]
      /\ \A i, j \in 1 .. m : i < j =>
             \E p, q \in 1 .. n :
                 p < q /\ a[i] = catalog[p] /\ a[j] = catalog[q]
  <2>1. n \in Nat /\ catalog \in [1 .. n -> List!Words]
    BY <1>1
  <2>2. a \in Seq(List!Words)
    BY <2>1, ByLettersAre
  <2>3. \A i \in 1 .. m : \E p \in 1 .. n :
            a[i] = catalog[p] /\ List!Letter(catalog[p]) \in wanted
    BY <2>1, ByLettersAre
  <2>4. \A p \in 1 .. n : List!Letter(catalog[p]) \in wanted =>
            \E i \in 1 .. m : a[i] = catalog[p]
    BY <2>1, ByLettersAre
  <2>5. InOrder(a, n)
    BY <2>1, ByLettersAre
  <2> QED
    BY <2>2, <2>3, <2>4, <2>5 DEF InOrder
<1>4. m \in Nat /\ a \in [1 .. m -> List!Words]
  <2> HIDE DEF a
  <2> QED
    BY <1>3
<1> HIDE DEF a, m
<1>5. ASSUME NEW i \in 1 .. m, NEW j \in 1 .. m, i < j PROVE a[i] # a[j]
  <2>1. PICK p \in 1 .. n, q \in 1 .. n :
            p < q /\ a[i] = catalog[p] /\ a[j] = catalog[q]
    BY <1>3, <1>5
  <2>2. p # q
    BY <1>1, <2>1
  <2> QED
    BY <1>1, <2>1, <2>2
<1>6. \A i, j \in 1 .. m : a[i] = a[j] => i = j
  BY <1>4, <1>5
<1>7. ASSUME Seeded, NEW i \in 1 .. m, NEW j \in 1 .. m, i < j
      PROVE  List!Letter(a[i]) <= List!Letter(a[j])
  <2>1. PICK p \in 1 .. n, q \in 1 .. n :
            p < q /\ a[i] = catalog[p] /\ a[j] = catalog[q]
    BY <1>3, <1>7
  <2>2. List!Precedes(a[i], a[j])
    BY <1>1, <1>7, <2>1
  <2>3. a[i][1] \in Int /\ a[j][1] \in Int
    BY <1>4, VocabularyAssumption DEF List!Words, List!Alphabet
  <2> QED
    BY <2>2, <2>3 DEF List!Precedes, List!Letter
<1>8. Sorted(groups, a, m) /\ (Seeded => Headed(groups, a, m))
  BY <1>2, <1>4, <1>6, <1>7, GroupsAre
<1>9. ASSUME NEW g, NEW x, NEW w, At(groups, g, x, w)
      PROVE  /\ groups[g].letter = List!Letter(w)
             /\ List!Letter(w) \in wanted
             /\ \E j \in 1 .. n : w = catalog[j]
  <2>1. /\ groups[g].letter = List!Letter(w)
        /\ \E i \in 1 .. m : w = a[i]
    BY <1>8, <1>9 DEF Sorted
  <2> QED
    BY <1>3, <2>1
<1>10. ASSUME NEW j \in 1 .. n, List!Letter(catalog[j]) \in wanted
       PROVE  \E g, x : At(groups, g, x, catalog[j])
  <2>1. PICK i \in 1 .. m : a[i] = catalog[j]
    BY <1>3, <1>10
  <2> QED
    BY <1>8, <2>1 DEF Sorted
<1> QED
  BY <1>8, <1>9, <1>10 DEF Sorted, Headed, n, wanted

LEMMA BrowseListed ==
    ASSUME CatalogSound, List!Next
    PROVE  ListedOnce' /\ HeadedOnce'
<1>1. PICK text \in List!Messages : List!SearchByLetters(text)
  BY DEF List!Next
<1>2. /\ message' = text /\ reply' = List!Sections(text)
      /\ catalog' = catalog /\ letters' = letters
  BY <1>1 DEF List!SearchByLetters
<1> QED
  BY <1>2, SectionsSound DEF ListedOnce, HeadedOnce

(* Whatever the order of the rows, a reply lists each word that was asked  *)
(* for in one place, under its letter, and no other (ByLetters,            *)
(* groupByLetter).                                                         *)
THEOREM ListedOnceHolds == Spec => [](ListedOnce /\ HeadedOnce)
<1>1. Init => ListedOnce /\ HeadedOnce
  BY DEF Init, List!Init, ListedOnce, HeadedOnce
<1>2. CatalogSound /\ ListedOnce /\ HeadedOnce /\ [Next]_vars
          => ListedOnce' /\ HeadedOnce'
  <2> SUFFICES ASSUME CatalogSound, ListedOnce, HeadedOnce, [Next]_vars
               PROVE  ListedOnce' /\ HeadedOnce'
    OBVIOUS
  <2>1. CASE Practise
    BY <2>1 DEF Practise, ListedOnce, HeadedOnce
  <2>2. CASE Browse
    BY <2>2, BrowseListed DEF Browse
  <2>3. CASE UNCHANGED vars
    BY <2>3 DEF vars, list, ListedOnce, HeadedOnce
  <2> QED
    BY <2>1, <2>2, <2>3 DEF Next
<1> QED
  BY <1>1, <1>2, CatalogStaysSound, PTL DEF Spec

(* With the rows in alphabetical order, each word asked for is listed      *)
(* once, under the one heading of its letter, and no other is (WordList,   *)
(* groupByLetter).                                                         *)
THEOREM ListedUnderEachHolds ==
    ASSUME Seeded
    PROVE  Spec => []ListedUnderEach
<1>1. CatalogSound /\ ListedOnce /\ HeadedOnce => ListedUnderEach
  <2> SUFFICES ASSUME CatalogSound, ListedOnce, HeadedOnce, reply # NoReply
               PROVE  List!ListedUnderEach
    BY DEF ListedUnderEach, List!ListedUnderEach
  <2>1. /\ catalog \in Seq(List!Words)
        /\ DOMAIN catalog = 1 .. Len(catalog)
    BY DEF CatalogSound
  <2>2. /\ reply \in Seq(Section)
        /\ DOMAIN reply = 1 .. Len(reply) /\ Len(reply) \in Nat
    BY DEF ListedOnce
  <2>3. ASSUME NEW g \in 1 .. Len(reply)
        PROVE  /\ DOMAIN reply[g].accents = 1 .. Len(reply[g].accents)
               /\ reply[g].letter \in Int
    <3>1. reply[g] \in Section
      BY <2>2
    <3> QED
      BY <3>1, VocabularyAssumption DEF Section, List!Alphabet
  <2>4. \A g, x, w : At(reply, g, x, w) <=>
            /\ g \in DOMAIN reply
            /\ x \in DOMAIN reply[g].accents
            /\ reply[g].accents[x] = w
    BY <2>2, <2>3 DEF At
  <2>5. \A w : w \in UNION {List!Range(reply[g].accents) : g \in DOMAIN reply}
            <=> \E g, x : At(reply, g, x, w)
    BY <2>4 DEF List!Range
  <2>6. \A w : (\E g, x : At(reply, g, x, w)) <=>
            w \in {word \in List!Range(catalog) :
                      List!Letter(word) \in List!Range(message)}
    BY <2>1 DEF ListedOnce, List!Range
  <2>7. UNION {List!Range(reply[g].accents) : g \in DOMAIN reply} =
            {word \in List!Range(catalog) :
                List!Letter(word) \in List!Range(message)}
    BY <2>5, <2>6
  <2>8. ASSUME NEW g \in DOMAIN reply, NEW h \in DOMAIN reply,
               reply[g].letter = reply[h].letter
        PROVE  g = h
    BY <2>2, <2>3, <2>8 DEF HeadedOnce
  <2>9. ASSUME NEW g \in DOMAIN reply, NEW x \in DOMAIN reply[g].accents
        PROVE  List!Letter(reply[g].accents[x]) = reply[g].letter
    BY <2>4 DEF ListedOnce
  <2>10. ASSUME NEW g \in DOMAIN reply, NEW x \in DOMAIN reply[g].accents,
                NEW h \in DOMAIN reply, NEW y \in DOMAIN reply[h].accents,
                reply[g].accents[x] = reply[h].accents[y]
         PROVE  g = h /\ x = y
    <3> DEFINE w == reply[g].accents[x]
    <3>1. At(reply, g, x, w) /\ At(reply, h, y, w)
      BY <2>4, <2>10
    <3>2. \A k : At(reply, g, x, k) /\ At(reply, h, y, k) => g = h /\ x = y
      BY DEF ListedOnce
    <3> HIDE DEF w
    <3> QED
      BY <3>1, <3>2
  <2> QED
    BY <2>7, <2>8, <2>9, <2>10 DEF List!ListedUnderEach
<1> QED
  BY <1>1, CatalogStaysSound, ListedOnceHolds, PTL

=============================================================================
