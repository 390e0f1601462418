-------------------------- MODULE SeedWords_proofs --------------------------
(***************************************************************************)
(* Proofs about SeedWords, for any keys, any lists within the assumption   *)
(* on those that are loaded, any CRC that gives numbers, and any number of *)
(* interferences: the words on the device are of one list and of the keys  *)
(* they were written for; 25 of them are the seed; what the tool calls     *)
(* done is complete; and the device takes every part it is sent.           *)
(*                                                                         *)
(* The properties speak of 25 words and of a load that is done.  IInv adds *)
(* what holds on the way there: while parts are sent there is no 25th word,*)
(* and without interference the words there are those before the next part.*)
(* That a part is taken is about bytes: those before a word of a part and  *)
(* of the word itself are among those of the part, which the tool has      *)
(* counted; the table of bytes is a sum of sizes, which only grows.        *)
(***************************************************************************)
EXTENDS SeedWords, FiniteSetTheorems, WellFoundedInduction, TLAPS

-----------------------------------------------------------------------------
(***************************************************************************)
(* Sums of the bytes of a word list                                        *)
(***************************************************************************)
\* Induction up to a bound, for a set instead of a predicate, which the provers can instantiate.
LEMMA InductionUpTo ==
  ASSUME NEW k \in Nat, NEW S, 0 \in S, \A n \in 0 .. k - 1 : n \in S => n + 1 \in S
  PROVE  0 .. k \subseteq S
<1> DEFINE T == (0 .. k) \ S
           R == OpToRel(<, Nat)
<1>1. SUFFICES ASSUME T # {} PROVE FALSE
  OBVIOUS
<1>2. IsWellFoundedOn(R, Nat)
  BY NatLessThanWellFounded
<1>3. \A m, n \in Nat : m < n => <<m, n>> \in R
  BY DEF OpToRel
<1>4. PICK n \in T : \A m \in T : ~(<<m, n>> \in R)
  <2>1. T \subseteq Nat
    OBVIOUS
  <2> HIDE DEF R, T
  <2> QED BY <1>1, <1>2, <2>1, WFMin
<1> HIDE DEF R
<1>5. n # 0 /\ n - 1 \in 0 .. k - 1 /\ n - 1 \in Nat /\ n \in Nat /\ n - 1 < n
  BY <1>4
<1>6. n - 1 \notin T
  BY <1>3, <1>4, <1>5
<1>7. n - 1 \in S /\ (n - 1) + 1 = n
  BY <1>5, <1>6
<1> QED BY <1>4, <1>5, <1>7

\* The first sums of a sequence, up to the one of k numbers.
IsSums(f, s, k) ==
  f \in [0 .. k -> Nat] /\ f[0] = 0 /\ \A n \in 1 .. k : f[n] = f[n - 1] + s[n]

LEMMA OneMoreSum ==
  ASSUME NEW s \in Seq(Nat), NEW k \in Nat, k + 1 <= Len(s), NEW f, IsSums(f, s, k)
  PROVE  \E g : IsSums(g, s, k + 1)
<1> DEFINE g == [n \in 0 .. k + 1 |-> IF n = k + 1 THEN f[k] + s[k + 1] ELSE f[n]]
<1>1. s[k + 1] \in Nat /\ f[k] \in Nat
  BY DEF IsSums
<1>2. g \in [0 .. k + 1 -> Nat] /\ g[0] = 0
  BY <1>1 DEF IsSums
<1>3. \A n \in 1 .. k + 1 : g[n] = g[n - 1] + s[n]
  BY DEF IsSums
<1>4. IsSums(g, s, k + 1)
  <2> HIDE DEF g
  <2> QED BY <1>2, <1>3 DEF IsSums
<1> QED BY <1>4

LEMMA SumsExist ==
  ASSUME NEW s \in Seq(Nat)
  PROVE  \E f : IsSums(f, s, Len(s))
<1> DEFINE S == {k \in 0 .. Len(s) : \E f : IsSums(f, s, k)}
<1>0. Len(s) \in Nat
  OBVIOUS
<1>1. 0 \in S
  <2> DEFINE f == [n \in 0 .. 0 |-> 0]
  <2>1. IsSums(f, s, 0)
    BY DEF IsSums
  <2> HIDE DEF f
  <2> QED BY <1>0, <2>1
<1>2. ASSUME NEW k \in 0 .. Len(s) - 1, k \in S
      PROVE  k + 1 \in S
  <2>1. k \in Nat /\ k + 1 <= Len(s) /\ k + 1 \in 0 .. Len(s)
    BY <1>0
  <2>2. PICK f : IsSums(f, s, k)
    BY <1>2
  <2> QED BY <2>1, <2>2, OneMoreSum
<1>3. \A k \in 0 .. Len(s) - 1 : k \in S => k + 1 \in S
  BY <1>2
<1> HIDE DEF S
<1>4. 0 .. Len(s) \subseteq S
  BY <1>0, <1>1, <1>3, InductionUpTo
<1>5. Len(s) \in S
  BY <1>0, <1>4
<1> QED BY <1>5 DEF S

\* There are partial sums, and each adds one number to the one before.
LEMMA PartialSumsDef ==
  ASSUME NEW s \in Seq(Nat)
  PROVE  /\ PartialSums(s) \in [0 .. Len(s) -> Nat]
         /\ PartialSums(s)[0] = 0
         /\ \A n \in 1 .. Len(s) : PartialSums(s)[n] = PartialSums(s)[n - 1] + s[n]
<1> DEFINE Eq(f) == f = [n \in 0 .. Len(s) |-> IF n = 0 THEN 0 ELSE f[n - 1] + s[n]]
<1>4. Len(s) \in Nat
  OBVIOUS
<1>5. PICK f : Eq(f)
  <2>1. PICK f : IsSums(f, s, Len(s))
    BY SumsExist
  <2>2. Eq(f)
    BY <1>4, <2>1 DEF IsSums
  <2> QED BY <2>2
<1>6. Eq(PartialSums(s))
  BY <1>5 DEF PartialSums
<1> DEFINE p == PartialSums(s)
<1> HIDE DEF p
<1>7. Eq(p)
  BY <1>6 DEF p
<1>8. p[0] = 0 /\ \A n \in 1 .. Len(s) : p[n] = p[n - 1] + s[n]
  BY <1>4, <1>7
<1>9. \A n \in 0 .. Len(s) : p[n] \in Nat
  <2> DEFINE D == {n \in 0 .. Len(s) : p[n] \in Nat}
  <2>1. 0 \in D
    BY <1>4, <1>8
  <2>2. \A n \in 0 .. Len(s) - 1 : n \in D => n + 1 \in D
    <3> SUFFICES ASSUME NEW n \in 0 .. Len(s) - 1, n \in D PROVE n + 1 \in D
      OBVIOUS
    <3>1. n + 1 \in 1 .. Len(s) /\ (n + 1) - 1 = n
      BY <1>4
    <3>2. p[n + 1] = p[n] + s[n + 1] /\ s[n + 1] \in Nat
      BY <1>8, <3>1
    <3> QED BY <3>1, <3>2, <1>4
  <2> HIDE DEF D
  <2>3. 0 .. Len(s) \subseteq D
    BY <1>4, <2>1, <2>2, InductionUpTo
  <2> QED BY <2>3 DEF D
<1>10. p \in [0 .. Len(s) -> Nat]
  BY <1>7, <1>9
<1> QED BY <1>8, <1>10 DEF p

\* What the theorems ask of the CRC.
CrcIsNumber == \A trimmed : Crc32(trimmed) \in Nat

\* A word of a list at a place of the seeds of some keys.
OfKeys(lang, n, keys) == {Word(lang, WordIndex[key][n]) : key \in keys}

\* Words of one list, each at its place; the last one repeats another.
Belong(cells, lang, keys) ==
  /\ \A n \in Positions : cells[n] \subseteq OfKeys(lang, n, keys)
  /\ \E n \in Positions : cells[24] \subseteq OfKeys(lang, n, keys)

\* All 25 places are taken only by the 25 words of the key.
Complete(cells, lang, keys) ==
  \A key \in Keys :
    keys = {key} /\ (\A n \in 0..24 : cells[n] # {}) => cells = SeedWordsOf[key][lang]

Cells(cells) == cells = [n \in 0..24 |-> cells[n]]

Basics ==
  /\ b \in Keys /\ stored \in Keys
  /\ under \subseteq Keys /\ IsFiniteSet(under)
  /\ troubles \in 0..MaxTroubles
  /\ Cells(words)

ToolInv ==
  /\ tool.lang \in Languages
  /\ Sending => /\ tool = [phase |-> "sending", lang |-> tool.lang, start |-> tool.start, cnt |-> tool.cnt]
                /\ tool.lang \in Loadable
                /\ tool.start \in 0..(word_list_length - 1)
                /\ tool.cnt \in 1..(word_list_length - tool.start)
                /\ words[24] = {}

FlashInv ==
  \E lang \in Languages :
    /\ Sending => lang = tool.lang
    /\ Belong(words, lang, under) /\ Complete(words, lang, under)

\* The words before the next part, if nothing has interfered.
LoadInv ==
  Sending /\ troubles = 0 =>
    /\ under \subseteq {b}
    /\ \A n \in Positions :
         words[n] = IF WordIndex[b][n] < tool.start THEN {Word(tool.lang, WordIndex[b][n])} ELSE {}

IInv == Basics /\ ToolInv /\ FlashInv /\ LoadInv /\ DoneIsTheSeed

-----------------------------------------------------------------------------
(***************************************************************************)
(* Keys, lists and counts                                                  *)
(***************************************************************************)
LEMMA SeedKeyIsKey == SeedKey \in Keys /\ Imported \subseteq Keys
BY KeysAssumption

\* The numbers of a key point into a list.
LEMMA Indexes == \A key \in Keys, n \in Positions : WordIndex[key][n] \in 0..(word_list_length - 1)
<1> SUFFICES ASSUME NEW key \in Keys, NEW n \in Positions
             PROVE  WordIndex[key][n] \in 0..(word_list_length - 1)
  OBVIOUS
<1>1. (n \div 3) + 1 \in 1..8 /\ (n % 3) + 1 \in 1..3
  BY DEF Positions
<1>2. key[(n \div 3) + 1] \in Nat
  BY <1>1, KeysAssumption
<1>3. WordIndex[key][n] = wc(key[(n \div 3) + 1])[(n % 3) + 1]
  BY DEF WordIndex
<1>4. \A val \in Nat : \A i \in 1..3 : wc(val)[i] \in 0..(word_list_length - 1)
  <2> SUFFICES ASSUME NEW val \in Nat, NEW i \in 1..3
               PROVE  wc(val)[i] \in 0..(word_list_length - 1)
    OBVIOUS
  <2>1. wc(val)[1] \in 0..1625 /\ wc(val)[2] \in 0..1625 /\ wc(val)[3] \in 0..1625
    BY DEF wc, word_list_length
  <2> QED BY <2>1 DEF word_list_length
<1> QED BY <1>1, <1>2, <1>3, <1>4

LEMMA ListLength == word_list_length \in Nat \ {0}
BY DEF word_list_length

LEMMA LoadableLists == Loadable \subseteq Languages
BY LanguagesAssumption DEF Loadable, Languages

LEMMA SomeLanguage == 1 \in Languages
BY DEF Languages, electroneum_langs

\* From every word of a loadable list on there is a part, and it stays in the list.
LEMMA PartExists ==
  ASSUME NEW lang \in Loadable, NEW start \in 0..(word_list_length - 1)
  PROVE  Count(lang, start) \in 1..(word_list_length - start)
<1>1. \E cnt \in 1..(word_list_length - start) : EndsPart(lang, start, cnt)
  BY LoadableAssumption
<1> QED BY <1>1 DEF Count

LEMMA OneTrouble == \A n \in 0..MaxTroubles : Min({n + 1, MaxTroubles}) \in 1..MaxTroubles
<1> SUFFICES ASSUME NEW n \in 0..MaxTroubles PROVE Min({n + 1, MaxTroubles}) \in 1..MaxTroubles
  OBVIOUS
<1>1. \E x \in {n + 1, MaxTroubles} : \A y \in {n + 1, MaxTroubles} : x <= y
  <2>1. CASE n + 1 <= MaxTroubles
    BY <2>1, BoundAssumption
  <2>2. CASE ~(n + 1 <= MaxTroubles)
    BY <2>2, BoundAssumption
  <2> QED BY <2>1, <2>2
<1>2. Min({n + 1, MaxTroubles}) \in {n + 1, MaxTroubles}
      /\ \A y \in {n + 1, MaxTroubles} : Min({n + 1, MaxTroubles}) <= y
  BY <1>1 DEF Min
<1> QED BY <1>2, BoundAssumption

LEMMA AtMostOne ==
  ASSUME NEW S, IsFiniteSet(S), Cardinality(S) <= 1, NEW x \in S, NEW y \in S
  PROVE  x = y
<1> SUFFICES ASSUME x # y PROVE FALSE
  OBVIOUS
<1>1. IsFiniteSet(S \ {x}) /\ Cardinality(S \ {x}) = Cardinality(S) - 1
  BY FS_RemoveElement
<1>2. Cardinality(S \ {x}) \in Nat /\ Cardinality(S) \in Nat
  BY <1>1, FS_CardinalityType
<1>3. S \ {x} = {}
  BY <1>1, <1>2, FS_EmptySet
<1> QED BY <1>3

-----------------------------------------------------------------------------
(***************************************************************************)
(* Words: the 25th one, and parts                                          *)
(***************************************************************************)
\* The seed that the tool would print has the words of the device at its 24 places.
LEMMA SeedAt ==
  ASSUME NEW key \in Keys, NEW lang \in Languages, NEW n \in Positions
  PROVE  SeedWordsOf[key][lang][n] = {Word(lang, WordIndex[key][n])}
<1>1. (n \div 3) + 1 \in 1..8 /\ (n % 3) + 1 \in 1..3 /\ n \in 0..24 /\ n < 24
  BY DEF Positions
<1>2. WordIndex[key][n] = wc(key[(n \div 3) + 1])[(n % 3) + 1]
  BY DEF WordIndex
<1>3. spendkey_to_words(key, lang)[n] = Word(lang, wc(key[(n \div 3) + 1])[(n % 3) + 1])
  BY <1>1 DEF spendkey_to_words, wc, Positions
<1>4. SeedWordsOf[key][lang] = [m \in 0..24 |-> {spendkey_to_words(key, lang)[m]}]
  BY Zenon DEF SeedWordsOf
<1>5. SeedWordsOf[key][lang][n] = {spendkey_to_words(key, lang)[n]}
  BY <1>1, <1>4
<1> QED BY <1>2, <1>3, <1>5

LEMMA ChecksumIsPlace ==
  ASSUME CrcIsNumber, NEW cells, NEW p2
  PROVE  Checksum(cells, p2) \in Positions
<1>1. Crc32([n \in Positions |-> FieldPrefix(cells[n], p2)]) \in Nat
  BY DEF CrcIsNumber
<1> QED BY <1>1 DEF Checksum, Positions

\* The first letters of a word with nothing behind it, if it is long enough.
LEMMA PrefixOfOne ==
  ASSUME NEW word, NEW length, Size(word) \in Nat, length \in Nat, Size(word) >= length
  PROVE  FieldPrefix({word}, length) = {Prefix(word, length)}
<1>1. \A w \in {word} : Size(w) < Size(word) => Size(w) < length
  OBVIOUS
<1>2. {v \in {word} : \A w \in {word} : Size(w) < Size(v) => Size(w) < length} = {word}
  BY <1>1
<1>3. \E w \in {word} : Size(w) >= length
  OBVIOUS
<1> QED BY <1>2, <1>3 DEF FieldPrefix

\* Both sum the same letters, so the 25th word of the device is that of the tool.
LEMMA SameChecksum ==
  ASSUME CrcIsNumber, NEW key \in Keys, NEW lang \in Loadable, NEW cells,
         \A n \in Positions : cells[n] = {Word(lang, WordIndex[key][n])}
  PROVE  SeedWordsOf[key][lang][24] =
           {Word(lang, WordIndex[key][Checksum(cells, electroneum_langs[lang].prefix_length)])}
<1> DEFINE length == electroneum_langs[lang].prefix_length
<1> DEFINE store == [n \in Positions |-> Word(lang, wc(key[(n \div 3) + 1])[(n % 3) + 1])]
<1> DEFINE trimmed == [n \in Positions |-> {Prefix(store[n], length)}]
<1>1. lang \in Languages
  BY LoadableLists
<1>2. \A n \in Positions : WordIndex[key][n] = wc(key[(n \div 3) + 1])[(n % 3) + 1]
  BY DEF WordIndex
<1>3. spendkey_to_words(key, lang)[24] = store[Crc32(trimmed) % 24]
  <2>1. spendkey_to_words(key, lang) =
          [n \in 0..24 |-> IF n < 24 THEN store[n] ELSE store[Crc32(trimmed) % 24]]
    BY Zenon DEF spendkey_to_words, wc
  <2> HIDE DEF store, trimmed
  <2> QED BY <2>1
<1>4. \A n \in Positions : FieldPrefix(cells[n], length) = {Prefix(store[n], length)}
  <2> SUFFICES ASSUME NEW n \in Positions
               PROVE  FieldPrefix(cells[n], length) = {Prefix(store[n], length)}
    OBVIOUS
  <2>1. cells[n] = {store[n]} /\ store[n] = Word(lang, WordIndex[key][n])
    BY <1>2
  <2>2. Size(store[n]) \in Nat /\ length \in Nat /\ Size(store[n]) >= length
    BY <2>1, Indexes, LoadableAssumption
  <2> QED BY <2>1, <2>2, PrefixOfOne
<1>5. [n \in Positions |-> FieldPrefix(cells[n], length)] = trimmed
  BY <1>4
<1>6. Checksum(cells, length) = Crc32(trimmed) % 24
  BY <1>5 DEF Checksum
<1>7. SeedWordsOf[key][lang][24] = {spendkey_to_words(key, lang)[24]}
  BY <1>1 DEF SeedWordsOf
<1>8. Crc32(trimmed) % 24 \in Positions
  BY <1>6, ChecksumIsPlace
<1> QED BY <1>2, <1>3, <1>6, <1>7, <1>8

LEMMA OverAdds ==
  ASSUME NEW word, NEW cell
  PROVE  Over(word, cell) \subseteq {word} \cup cell /\ Over(word, {}) = {word}
BY DEF Over

LEMMA MoreKeys ==
  ASSUME NEW cells, NEW lang, NEW keys, NEW more, keys \subseteq more, Belong(cells, lang, keys)
  PROVE  Belong(cells, lang, more)
BY DEF Belong, OfKeys

LEMMA FewerWords ==
  ASSUME NEW cells, NEW lang, NEW keys, NEW fewer,
         \A n \in 0..24 : fewer[n] \subseteq cells[n], Belong(cells, lang, keys)
  PROVE  Belong(fewer, lang, keys)
BY DEF Belong, Positions

\* Where a place is free, not all are taken.
LEMMA Incomplete ==
  ASSUME NEW cells, NEW lang, NEW keys, NEW n \in 0..24, cells[n] = {}
  PROVE  Complete(cells, lang, keys)
BY DEF Complete

\* The words of a part are of the key in use.
LEMMA PartBelongs ==
  ASSUME NEW lang, NEW start, NEW end, NEW upto, Belong(words, lang, under)
  PROVE  /\ Cells(WithPart(lang, start, end, upto))
         /\ Belong(WithPart(lang, start, end, upto), lang,
                   IF Chosen(start, end) = {} THEN under ELSE under \cup {b})
         /\ WithPart(lang, start, end, upto)[24] = words[24]
<1> DEFINE cells == WithPart(lang, start, end, upto)
<1> DEFINE keys == IF Chosen(start, end) = {} THEN under ELSE under \cup {b}
<1>1. Cells(cells)
  BY DEF Cells, WithPart
<1>2. cells[24] = words[24]
  BY DEF WithPart, Chosen, Positions
<1>3. Belong(words, lang, keys)
  BY MoreKeys
<1>4. ASSUME NEW n \in Positions
      PROVE  cells[n] \subseteq OfKeys(lang, n, keys)
  <2>1. \/ cells[n] = words[n]
        \/ n \in Chosen(start, end) /\ cells[n] = Over(Word(lang, WordIndex[b][n]), words[n])
    BY DEF WithPart, Positions
  <2>2. words[n] \subseteq OfKeys(lang, n, keys)
    BY <1>3 DEF Belong
  <2>3. n \in Chosen(start, end) => Word(lang, WordIndex[b][n]) \in OfKeys(lang, n, keys)
    BY DEF OfKeys
  <2> HIDE DEF cells, keys
  <2>4. CASE cells[n] = words[n]
    BY <2>2, <2>4
  <2>5. CASE n \in Chosen(start, end) /\ cells[n] = Over(Word(lang, WordIndex[b][n]), words[n])
    BY <2>2, <2>3, <2>5, OverAdds
  <2> QED BY <2>1, <2>4, <2>5
<1>5. Belong(cells, lang, keys)
  BY <1>2, <1>3, <1>4 DEF Belong
<1> QED BY <1>1, <1>2, <1>5

\* The last part ends with the 25th word: it repeats another, and the right one if all
\* the others are there and of one key.
LEMMA ChecksumCompletes ==
  ASSUME CrcIsNumber, NEW lang \in Loadable, NEW cells, NEW keys,
         Cells(cells), Belong(cells, lang, keys)
  PROVE  LET checked == WithChecksum(cells, electroneum_langs[lang].prefix_length)
         IN  Cells(checked) /\ Belong(checked, lang, keys) /\ Complete(checked, lang, keys)
<1> DEFINE place == Checksum(cells, electroneum_langs[lang].prefix_length)
<1> DEFINE checked == WithChecksum(cells, electroneum_langs[lang].prefix_length)
<1>1. place \in Positions
  BY ChecksumIsPlace
<1>2. /\ Cells(checked) /\ checked[24] = cells[place]
      /\ \A n \in Positions : checked[n] = cells[n]
  <2>1. checked = [cells EXCEPT ![24] = cells[place]]
    BY Zenon DEF WithChecksum
  <2> HIDE DEF checked, place
  <2>2. cells = [n \in 0..24 |-> cells[n]]
    BY DEF Cells
  <2>3. checked = [n \in 0..24 |-> IF n = 24 THEN cells[place] ELSE cells[n]]
    BY <2>1, <2>2
  <2>4. \A n \in 0..24 : checked[n] = IF n = 24 THEN cells[place] ELSE cells[n]
    BY <2>3
  <2> QED BY <2>3, <2>4 DEF Cells, Positions
<1> HIDE DEF checked, place
<1>3. Belong(checked, lang, keys)
  BY <1>1, <1>2 DEF Belong
<1>4. ASSUME NEW key \in Keys, keys = {key}, \A n \in 0..24 : checked[n] # {}
      PROVE  checked = SeedWordsOf[key][lang]
  <2>1. \A n \in Positions : cells[n] = {Word(lang, WordIndex[key][n])}
    BY <1>2, <1>4, <1>3 DEF Belong, OfKeys, Positions
  <2>2. SeedWordsOf[key][lang][24] = {Word(lang, WordIndex[key][place])}
    BY <2>1, SameChecksum DEF place
  <2>3. \A n \in 0..24 : checked[n] = SeedWordsOf[key][lang][n]
    <3>1. checked[24] = SeedWordsOf[key][lang][24]
      BY <1>1, <1>2, <2>1, <2>2
    <3>2. \A n \in Positions : checked[n] = SeedWordsOf[key][lang][n]
      BY <1>2, <2>1, SeedAt, LoadableLists
    <3> QED BY <3>1, <3>2 DEF Positions
  <2>4. Cells(SeedWordsOf[key][lang])
    BY LoadableLists DEF SeedWordsOf, Cells
  <2> QED BY <1>2, <2>3, <2>4 DEF Cells
<1>5. Complete(checked, lang, keys)
  BY <1>4 DEF Complete
<1> QED BY <1>2, <1>3, <1>5 DEF checked

-----------------------------------------------------------------------------
(***************************************************************************)
(* The part that is sent                                                   *)
(***************************************************************************)
\* What the device makes of a part: it refuses it, and leaves the words, clears them or
\* stops at one; or it writes all of it.
Refused(result, lang, start, end) ==
  /\ result.accepted = FALSE
  /\ \/ result.words = words \/ result.words = NoWords
     \/ \E upto : result.words = WithPart(lang, start, end, upto)

Written(result, lang, start, end, p2) ==
  /\ result.accepted = TRUE
  /\ p2 = 0 => result.words = WithPart(lang, start, end, 24)
  /\ p2 # 0 => result.words = WithChecksum(WithPart(lang, start, end, 24), p2)

LEMMA PartResult ==
  ASSUME NEW lang, NEW start, NEW end, NEW p2
  PROVE  \/ Refused(manage_seedwords(lang, start, end, p2), lang, start, end)
         \/ Written(manage_seedwords(lang, start, end, p2), lang, start, end, p2)
<1> DEFINE bad == {n \in Chosen(start, end) : Found(Word(lang, WordIndex[b][n]), start) # "there"}
<1> DEFINE whole == WithPart(lang, start, end, 24)
<1>1. CASE start >= word_list_length \/ end > word_list_length \/ start > end
  BY <1>1 DEF manage_seedwords, Refused
<1>2. CASE ~(start >= word_list_length \/ end > word_list_length \/ start > end) /\ bad = {}
  <2>1. manage_seedwords(lang, start, end, p2) =
          [accepted |-> TRUE, words |-> IF p2 = 0 THEN whole ELSE WithChecksum(whole, p2)]
    BY <1>2, Zenon DEF manage_seedwords
  <2> QED BY <2>1 DEF Written
<1>3. CASE ~(start >= word_list_length \/ end > word_list_length \/ start > end) /\ bad # {}
  <2> DEFINE upto == Min(bad)
  <2> DEFINE result == manage_seedwords(lang, start, end, p2)
  <2> DEFINE isMissing == Found(Word(lang, WordIndex[b][upto]), start) = "not there"
  <2>1. result = [accepted |-> FALSE,
                  words |-> IF isMissing THEN NoWords ELSE WithPart(lang, start, end, upto)]
    BY <1>3, Zenon DEF manage_seedwords
  <2> HIDE DEF bad, upto, result, isMissing
  <2>2. /\ result.accepted = FALSE
        /\ result.words = NoWords \/ result.words = WithPart(lang, start, end, upto)
    BY <2>1
  <2>3. Refused(result, lang, start, end)
    BY <2>2, Zenon DEF Refused
  <2> QED BY <2>3 DEF result
<1> QED BY <1>1, <1>2, <1>3

LEMMA NoWordsBelong ==
  ASSUME NEW lang, NEW keys
  PROVE  Cells(NoWords) /\ Belong(NoWords, lang, keys) /\ Complete(NoWords, lang, keys)
<1>1. \A n \in 0..24 : NoWords[n] = {}
  BY DEF NoWords
<1>2. Cells(NoWords)
  BY DEF NoWords, Cells
<1>3. Belong(NoWords, lang, keys)
  BY <1>1 DEF Belong, Positions
<1>4. Complete(NoWords, lang, keys)
  BY <1>1, Incomplete
<1> QED BY <1>2, <1>3, <1>4

\* The words the list began with, and where its part is.
LEMMA WhileSending ==
  ASSUME IInv, Sending
  PROVE  /\ tool.lang \in Loadable /\ tool.lang \in Languages
         /\ tool.start \in 0..(word_list_length - 1) /\ End \in 1..word_list_length /\ tool.start < End
         /\ words[24] = {} /\ Cells(words) /\ Belong(words, tool.lang, under)
         /\ electroneum_langs[tool.lang].prefix_length # 0
<1>1. electroneum_langs[tool.lang].prefix_length # 0
  BY LoadableAssumption DEF IInv, ToolInv
<1>2. End \in 1..word_list_length /\ tool.start < End /\ tool.start \in 0..(word_list_length - 1)
  BY ListLength DEF IInv, ToolInv, End
<1>3. Cells(words) /\ Belong(words, tool.lang, under)
  BY DEF IInv, Basics, FlashInv
<1> QED BY <1>1, <1>2, <1>3 DEF IInv, ToolInv

\* A part, and what was written of it when the power was lost, keep the words of one list
\* and complete them only with the last.
LEMMA PartKeeps ==
  ASSUME CrcIsNumber, IInv, Sending
  PROVE  /\ Cells(Part.words) /\ Belong(Part.words, tool.lang, Under)
         /\ Complete(Part.words, tool.lang, Under)
         /\ ~IsLast => Part.words[24] = {}
<1> DEFINE p2 == IF IsLast THEN electroneum_langs[tool.lang].prefix_length ELSE 0
<1> DEFINE whole == WithPart(tool.lang, tool.start, End, 24)
<1>1. Part = manage_seedwords(tool.lang, tool.start, End, p2)
  BY DEF Part
<1>2. /\ words[24] = {} /\ Cells(words) /\ Belong(words, tool.lang, under) /\ tool.lang \in Loadable
      /\ electroneum_langs[tool.lang].prefix_length # 0
  BY WhileSending
<1>3. ASSUME NEW upto
      PROVE  LET cells == WithPart(tool.lang, tool.start, End, upto)
             IN  /\ Cells(cells) /\ Belong(cells, tool.lang, Under)
                 /\ Complete(cells, tool.lang, Under) /\ cells[24] = {}
  BY <1>2, PartBelongs, Incomplete DEF Under
<1>4. CASE Part.words = words
  BY <1>2, <1>4, MoreKeys, Incomplete DEF Under
<1>5. CASE Part.words = NoWords
  BY <1>5, NoWordsBelong DEF NoWords
<1>6. CASE \E upto : Part.words = WithPart(tool.lang, tool.start, End, upto)
  BY <1>3, <1>6
<1>7. CASE p2 # 0 /\ Part.words = WithChecksum(whole, p2)
  <2>1. IsLast /\ p2 = electroneum_langs[tool.lang].prefix_length
    BY <1>7
  <2>2. Cells(whole) /\ Belong(whole, tool.lang, Under)
    BY <1>3
  <2> QED BY <1>2, <1>7, <2>1, <2>2, ChecksumCompletes
<1> HIDE DEF p2
<1>8. CASE Refused(Part, tool.lang, tool.start, End)
  BY <1>4, <1>5, <1>6, <1>8 DEF Refused
<1>9. CASE Written(Part, tool.lang, tool.start, End, p2)
  BY <1>3, <1>7, <1>9 DEF Written
<1> QED BY <1>1, <1>8, <1>9, PartResult

\* Without interference an accepted part adds its words to those before it, and the last
\* one completes the seed.
LEMMA PartLoads ==
  ASSUME CrcIsNumber, IInv, Sending, troubles = 0, Part.accepted
  PROVE  /\ Under \subseteq {b}
         /\ \A n \in Positions :
              Part.words[n] = IF WordIndex[b][n] < End THEN {Word(tool.lang, WordIndex[b][n])} ELSE {}
         /\ IsLast => Part.words = SeedWordsOf[b][tool.lang]
<1> DEFINE length == electroneum_langs[tool.lang].prefix_length
<1> DEFINE p2 == IF IsLast THEN length ELSE 0
<1> DEFINE whole == WithPart(tool.lang, tool.start, End, 24)
<1> DEFINE place == Checksum(whole, length)
<1>1. /\ under \subseteq {b} /\ b \in Keys
      /\ \A n \in Positions :
           words[n] = IF WordIndex[b][n] < tool.start THEN {Word(tool.lang, WordIndex[b][n])} ELSE {}
  BY DEF IInv, LoadInv, Basics
<1>2. Part = manage_seedwords(tool.lang, tool.start, End, p2)
  BY DEF Part
<1>3. Written(Part, tool.lang, tool.start, End, p2)
  BY <1>2, PartResult DEF Refused
<1>4. /\ tool.lang \in Loadable /\ tool.lang \in Languages
      /\ tool.start \in 0..(word_list_length - 1) /\ End \in 1..word_list_length /\ tool.start < End
      /\ length # 0 /\ Belong(words, tool.lang, under)
  BY WhileSending
<1>5. Under \subseteq {b}
  BY <1>1 DEF Under
<1>6. ASSUME NEW n \in Positions
      PROVE  whole[n] = IF WordIndex[b][n] < End THEN {Word(tool.lang, WordIndex[b][n])} ELSE {}
  <2>1. WordIndex[b][n] \in 0..(word_list_length - 1)
    BY <1>1, Indexes
  <2>2. n \in 0..24 /\ n < 24
    BY DEF Positions
  <2>3. whole[n] = IF n \in Chosen(tool.start, End)
                   THEN Over(Word(tool.lang, WordIndex[b][n]), words[n]) ELSE words[n]
    BY <2>2 DEF WithPart
  <2>4. n \in Chosen(tool.start, End) <=> WordIndex[b][n] >= tool.start /\ WordIndex[b][n] < End
    BY DEF Chosen
  <2> HIDE DEF whole
  <2>5. CASE WordIndex[b][n] < tool.start
    BY <1>1, <1>4, <2>1, <2>3, <2>4, <2>5, ListLength
  <2>6. CASE ~(WordIndex[b][n] < tool.start)
    <3>1. words[n] = {}
      BY <1>1, <2>6
    <3>2. Over(Word(tool.lang, WordIndex[b][n]), words[n]) = {Word(tool.lang, WordIndex[b][n])}
      BY <3>1, OverAdds
    <3>3. n \in Chosen(tool.start, End) <=> WordIndex[b][n] < End
      BY <1>4, <2>1, <2>4, <2>6, ListLength
    <3> QED BY <2>3, <3>1, <3>2, <3>3
  <2> QED BY <2>5, <2>6
<1>7. Cells(whole)
  BY <1>4, PartBelongs
<1> HIDE DEF whole
<1>8. CASE ~IsLast
  <2>1. Part.words = whole
    BY <1>3, <1>8 DEF Written, whole
  <2> QED BY <1>5, <1>6, <1>8, <2>1
<1>9. CASE IsLast
  <2>1. Part.words = WithChecksum(whole, length)
    BY <1>3, <1>4, <1>9 DEF Written, whole
  <2>2. Part.words = [whole EXCEPT ![24] = whole[place]]
    BY <2>1 DEF WithChecksum
  <2>3. place \in Positions
    BY ChecksumIsPlace
  <2>4. \A n \in Positions : WordIndex[b][n] < End
    BY <1>1, <1>9, Indexes, ListLength DEF IsLast
  <2>5. \A n \in Positions : whole[n] = {Word(tool.lang, WordIndex[b][n])}
    BY <1>6, <2>4
  <2>6. whole = [n \in 0..24 |-> whole[n]]
    BY <1>7 DEF Cells
  <2>7. SeedWordsOf[b][tool.lang][24] = {Word(tool.lang, WordIndex[b][place])}
    <3>1. b \in Keys /\ tool.lang \in Loadable
      BY <1>1, <1>4
    <3> HIDE DEF place
    <3>2. place = Checksum(whole, electroneum_langs[tool.lang].prefix_length)
      BY DEF place
    <3> QED BY <2>5, <3>1, <3>2, SameChecksum
  <2>8. \A n \in Positions : SeedWordsOf[b][tool.lang][n] = {Word(tool.lang, WordIndex[b][n])}
    BY <1>1, <1>4, SeedAt
  <2>9. SeedWordsOf[b][tool.lang] = [n \in 0..24 |-> SeedWordsOf[b][tool.lang][n]]
    BY <1>1, <1>4 DEF SeedWordsOf
  <2> HIDE DEF place
  <2>10. Part.words = [n \in 0..24 |-> IF n = 24 THEN whole[place] ELSE whole[n]]
    BY <2>2, <2>6
  <2>11. \A n \in 0..24 :
           (IF n = 24 THEN whole[place] ELSE whole[n]) = SeedWordsOf[b][tool.lang][n]
    <3>1. whole[place] = SeedWordsOf[b][tool.lang][24]
      BY <2>3, <2>5, <2>7
    <3>2. \A n \in Positions : whole[n] = SeedWordsOf[b][tool.lang][n]
      BY <2>5, <2>8
    <3> QED BY <3>1, <3>2 DEF Positions
  <2>12. Part.words = SeedWordsOf[b][tool.lang]
    BY <2>9, <2>10, <2>11
  <2> QED BY <1>5, <2>8, <2>12, <2>4
<1> QED BY <1>8, <1>9

-----------------------------------------------------------------------------
(***************************************************************************)
(* Every step keeps the invariant                                          *)
(***************************************************************************)
LEMMA InitEstablishes == Init => IInv
<1> SUFFICES ASSUME Init PROVE IInv
  OBVIOUS
<1>1. Basics
  BY SeedKeyIsKey, BoundAssumption, FS_EmptySet, NoWordsBelong DEF Init, Basics
<1>2. ToolInv /\ LoadInv /\ DoneIsTheSeed
  BY SomeLanguage DEF Init, ToolInv, LoadInv, DoneIsTheSeed, Sending
<1>3. FlashInv
  BY SomeLanguage, NoWordsBelong DEF Init, FlashInv, Sending
<1> QED BY <1>1, <1>2, <1>3 DEF IInv

\* Words and load stay as they are, and another key in use counts as an interference.
LEMMA KeyStepKeeps ==
  ASSUME IInv, UNCHANGED << words, tool, under >>, b' \in Keys, stored' \in Keys,
         (b' = b /\ troubles' = troubles) \/ troubles' \in 1..MaxTroubles
  PROVE  IInv'
<1>1. Basics'
  BY BoundAssumption DEF IInv, Basics, Cells
<1>2. ToolInv'
  BY DEF IInv, ToolInv, Sending
<1>3. FlashInv'
  BY DEF IInv, FlashInv, Sending
<1>4. LoadInv' /\ DoneIsTheSeed'
  BY DEF IInv, LoadInv, DoneIsTheSeed, Sending
<1> QED BY <1>1, <1>2, <1>3, <1>4 DEF IInv

\* All words go, with a load perhaps, which then is not whole.
LEMMA ClearKeeps ==
  ASSUME IInv, words' = NoWords, under' = {}, UNCHANGED tool,
         b' \in Keys, stored' \in Keys, troubles' \in 1..MaxTroubles
  PROVE  IInv'
<1>1. Cells(words')
  BY NoWordsBelong
<1>2. Basics'
  BY <1>1, BoundAssumption, FS_EmptySet DEF Basics
<1>3. ToolInv'
  BY DEF IInv, ToolInv, Sending, NoWords
<1>4. FlashInv'
  BY NoWordsBelong DEF IInv, FlashInv, ToolInv, Sending
<1>5. LoadInv' /\ DoneIsTheSeed'
  BY DEF LoadInv, DoneIsTheSeed
<1> QED BY <1>2, <1>3, <1>4, <1>5 DEF IInv

\* The tool ends other than done, and what is on the device is of the list it sent.
LEMMA ExitKeeps ==
  ASSUME IInv, NEW lang \in Languages, NEW phase \in {"aborted", "refused", "printed"},
         tool' = [phase |-> phase, lang |-> lang, start |-> 0, cnt |-> 0],
         Cells(words'), \E l \in Languages : Belong(words', l, under') /\ Complete(words', l, under'),
         under' \subseteq Keys, IsFiniteSet(under'),
         b' \in Keys, stored' \in Keys, troubles' \in 0..MaxTroubles
  PROVE  IInv'
<1>1. Basics'
  BY DEF Basics
<1>2. ~Sending'
  BY DEF Sending
<1>3. ToolInv' /\ LoadInv' /\ DoneIsTheSeed'
  BY <1>2 DEF ToolInv, LoadInv, DoneIsTheSeed
<1>4. FlashInv'
  BY <1>2 DEF FlashInv
<1> QED BY <1>1, <1>3, <1>4 DEF IInv

LEMMA ExitTool ==
  ASSUME NEW phase \in {"aborted", "refused", "printed"}, IInv
  PROVE  \E lang \in Languages :
           Exit(phase) = [phase |-> phase, lang |-> lang, start |-> 0, cnt |-> 0]
BY SomeLanguage DEF Exit, IInv, ToolInv

LEMMA InterferesCounts == ASSUME IInv, Interferes PROVE troubles' \in 1..MaxTroubles
BY OneTrouble DEF IInv, Basics, Interferes

LEMMA Underway ==
  ASSUME IInv
  PROVE  Under \subseteq Keys /\ IsFiniteSet(Under)
BY FS_AddElement DEF IInv, Basics, Under

LEMMA ReloadKeeps ==
  ASSUME IInv, Reload, UNCHANGED << words, stored, tool, under >>
  PROVE  IInv'
<1>1. b' \in Keys /\ stored' \in Keys
  BY DEF Reload, IInv, Basics
<1>2. (b' = b /\ troubles' = troubles) \/ troubles' \in 1..MaxTroubles
  BY InterferesCounts DEF Reload
<1> QED BY <1>1, <1>2, KeyStepKeeps

LEMMA MenusKeep ==
  ASSUME IInv, ui_menu_words_clear \/ electroneum_install
  PROVE  IInv'
<1>1. troubles' \in 1..MaxTroubles
  BY InterferesCounts DEF ui_menu_words_clear, electroneum_install
<1>2. clear_words = NoWords
  BY DEF clear_words, Cleared, NoWords
<1>3. /\ words' = NoWords /\ under' = {} /\ UNCHANGED tool
      /\ b' \in Keys /\ stored' \in Keys
  BY <1>2, SeedKeyIsKey DEF ui_menu_words_clear, electroneum_install, IInv, Basics
<1> QED BY <1>1, <1>3, ClearKeeps

LEMMA WhatIsThere ==
  ASSUME IInv
  PROVE  /\ Cells(words) /\ under \subseteq Keys /\ IsFiniteSet(under)
         /\ b \in Keys /\ stored \in Keys /\ troubles \in 0..MaxTroubles
         /\ \E l \in Languages : Belong(words, l, under) /\ Complete(words, l, under)
BY DEF IInv, Basics, FlashInv

\* A load begins without words, at the first word of its list.
LEMMA get_online_seedKeeps ==
  ASSUME IInv, NEW lang \in Online, get_online_seed(lang)
  PROVE  IInv'
<1>1. CASE lang \in Loadable /\ Accepts(0)
  <2>1. /\ tool' = [phase |-> "sending", lang |-> lang, start |-> 0, cnt |-> Count(lang, 0)]
        /\ words' = clear_words /\ troubles' = 0 /\ under' = {}
        /\ b' = b /\ stored' = stored
    BY <1>1 DEF get_online_seed
  <2>2. words' = NoWords
    BY <2>1 DEF clear_words, Cleared, NoWords
  <2>3. 0 \in 0..(word_list_length - 1) /\ lang \in Languages
    BY <1>1, ListLength, LoadableLists
  <2>4. Count(lang, 0) \in 1..(word_list_length - 0)
    BY <1>1, <2>3, PartExists
  <2>5. Basics'
    BY <2>1, <2>2, NoWordsBelong, FS_EmptySet, BoundAssumption DEF IInv, Basics
  <2>6. ToolInv'
    BY <1>1, <2>1, <2>2, <2>3, <2>4 DEF ToolInv, Sending, NoWords
  <2>7. FlashInv'
    BY <2>1, <2>2, <2>3, NoWordsBelong DEF FlashInv, Sending
  <2>8. LoadInv'
    <3>1. \A n \in Positions : words'[n] = {} /\ ~(WordIndex[b][n] < 0)
      BY <2>2, Indexes DEF NoWords, Positions, IInv, Basics
    <3> QED BY <2>1, <3>1 DEF LoadInv
  <2>9. DoneIsTheSeed'
    BY <2>1 DEF DoneIsTheSeed
  <2> QED BY <2>5, <2>6, <2>7, <2>8, <2>9 DEF IInv
<1>2. CASE ~(lang \in Loadable /\ Accepts(0))
  <2>1. /\ tool' = Exit("aborted")
        /\ UNCHANGED << words, under, troubles, b, stored >>
    BY <1>2 DEF get_online_seed, Exits
  <2> QED BY <2>1, WhatIsThere, ExitTool, ExitKeeps DEF Cells
<1> QED BY <1>1, <1>2

LEMMA get_offline_seedKeeps ==
  ASSUME IInv, NEW lang \in Offline, NEW count, get_offline_seed(lang, count)
  PROVE  IInv'
<1> DEFINE phase == IF count \in {12, 18, 24} THEN "printed" ELSE "aborted"
<1>1. tool' = [phase |-> phase, lang |-> lang, start |-> 0, cnt |-> 0]
  BY DEF get_offline_seed, Exit
<1>2. lang \in Languages /\ phase \in {"aborted", "refused", "printed"}
  BY LanguagesAssumption DEF Languages
<1>3. UNCHANGED << words, under, troubles, b, stored >>
  BY DEF get_offline_seed
<1> HIDE DEF phase
<1> QED BY <1>1, <1>2, <1>3, WhatIsThere, ExitKeeps DEF Cells

LEMMA exchange_failsKeeps ==
  ASSUME CrcIsNumber, IInv, exchange_fails
  PROVE  IInv'
<1>1. tool' = Exit("aborted") /\ UNCHANGED << b, stored, troubles >> /\ Sending
  BY DEF exchange_fails, Exits
<1>2. CASE UNCHANGED << words, under >>
  BY <1>1, <1>2, WhatIsThere, ExitTool, ExitKeeps DEF Cells
<1>3. CASE words' = Part.words /\ under' = Under
  <2>1. Cells(words') /\ \E l \in Languages : Belong(words', l, under') /\ Complete(words', l, under')
    BY <1>1, <1>3, PartKeeps, WhileSending
  <2>2. under' \subseteq Keys /\ IsFiniteSet(under')
    BY <1>3, Underway
  <2> QED BY <1>1, <2>1, <2>2, WhatIsThere, ExitTool, ExitKeeps
<1> QED BY <1>2, <1>3 DEF exchange_fails

\* The next part begins where this one ended, and stays in the list.
LEMMA NextPartIs ==
  ASSUME IInv, Sending, ~IsLast
  PROVE  /\ NextPart = [phase |-> "sending", lang |-> tool.lang, start |-> End, cnt |-> Count(tool.lang, End)]
         /\ End \in 0..(word_list_length - 1)
         /\ Count(tool.lang, End) \in 1..(word_list_length - End)
<1>1. /\ tool.lang \in Loadable /\ End \in 1..word_list_length
  BY WhileSending
<1>2. End \in 0..(word_list_length - 1)
  BY <1>1, ListLength DEF IsLast
<1>3. Count(tool.lang, End) \in 1..(word_list_length - End)
  BY <1>1, <1>2, PartExists
<1> QED BY <1>2, <1>3 DEF NextPart

\* A part that is taken is followed by the next, or ends the load with the seed.
LEMMA send_dict_chunkKeeps ==
  ASSUME CrcIsNumber, IInv, send_dict_chunk
  PROVE  IInv'
<1>1. Sending /\ UNCHANGED << b, stored, troubles >>
  BY DEF send_dict_chunk
<1>2. /\ Cells(Part.words) /\ Belong(Part.words, tool.lang, Under)
      /\ Complete(Part.words, tool.lang, Under) /\ (~IsLast => Part.words[24] = {})
  BY <1>1, PartKeeps
<1>3. Under \subseteq Keys /\ IsFiniteSet(Under)
  BY Underway
<1>4. tool.lang \in Loadable /\ tool.lang \in Languages
  BY <1>1, WhileSending
<1>5. \/ tool' = Exit("aborted") /\ UNCHANGED << words, under >>
      \/ tool' = Exit("refused") /\ UNCHANGED << words, under >>
      \/ tool' = Exit("refused") /\ words' = Part.words /\ under' = Under
      \/ Part.accepted /\ tool' = NextPart /\ words' = Part.words /\ under' = Under
  BY Zenon DEF send_dict_chunk, Exits
<1>6. CASE (tool' = Exit("aborted") \/ tool' = Exit("refused")) /\ UNCHANGED << words, under >>
  BY <1>1, <1>6, WhatIsThere, ExitTool, ExitKeeps DEF Cells
<1>7. CASE tool' = Exit("refused") /\ words' = Part.words /\ under' = Under
  BY <1>1, <1>2, <1>3, <1>4, <1>7, WhatIsThere, ExitTool, ExitKeeps
<1>8. CASE Part.accepted /\ tool' = NextPart /\ words' = Part.words /\ under' = Under
  <2>1. Basics'
    BY <1>1, <1>2, <1>3, <1>8 DEF IInv, Basics
  <2>2. CASE IsLast
    <3>1. tool' = [phase |-> "done", lang |-> tool.lang, start |-> 0, cnt |-> 0]
      BY <1>8, <2>2 DEF NextPart, Exit
    <3>2. ToolInv' /\ LoadInv'
      BY <1>4, <3>1 DEF ToolInv, LoadInv, Sending
    <3>3. FlashInv'
      BY <1>2, <1>4, <1>8, <3>1 DEF FlashInv, Sending
    <3>4. DoneIsTheSeed'
      <4>1. troubles = 0 => Part.words = SeedWordsOf[b][tool.lang]
        BY <1>1, <1>8, <2>2, PartLoads
      <4>2. /\ words' = Part.words /\ b' = b /\ troubles' = troubles
            /\ tool'.lang = tool.lang
        BY <1>1, <1>8, <3>1
      <4> QED BY <4>1, <4>2, Zenon DEF DoneIsTheSeed
    <3> QED BY <2>1, <3>2, <3>3, <3>4 DEF IInv
  <2>3. CASE ~IsLast
    <3>1. /\ tool' = [phase |-> "sending", lang |-> tool.lang, start |-> End, cnt |-> Count(tool.lang, End)]
          /\ End \in 0..(word_list_length - 1)
          /\ Count(tool.lang, End) \in 1..(word_list_length - End)
      BY <1>1, <1>8, <2>3, NextPartIs
    <3>2. tool'.phase = "sending" /\ tool'.lang = tool.lang /\ tool'.start = End
      BY <3>1
    <3>3. ToolInv'
      BY <1>2, <1>4, <1>8, <2>3, <3>1 DEF ToolInv, Sending
    <3>4. FlashInv'
      BY <1>2, <1>4, <1>8, <3>2 DEF FlashInv
    <3>5. LoadInv'
      <4>1. troubles = 0 =>
              /\ Under \subseteq {b}
              /\ \A n \in Positions :
                   Part.words[n] = IF WordIndex[b][n] < End THEN {Word(tool.lang, WordIndex[b][n])} ELSE {}
        BY <1>1, <1>8, PartLoads
      <4> HIDE DEF End
      <4> QED BY <1>1, <1>8, <3>2, <4>1 DEF LoadInv
    <3>6. DoneIsTheSeed'
      BY <3>2 DEF DoneIsTheSeed
    <3> QED BY <2>1, <3>3, <3>4, <3>5, <3>6 DEF IInv
  <2> QED BY <2>2, <2>3
<1> QED BY <1>5, <1>6, <1>7, <1>8

\* Without power a clear has taken some words, and a part has written some.
LEMMA PowerLossKeeps ==
  ASSUME CrcIsNumber, IInv, PowerLoss
  PROVE  IInv'
<1>1. /\ b' = stored /\ stored' = stored /\ troubles' \in 1..MaxTroubles
      /\ IF Sending THEN tool' = Exit("aborted") ELSE UNCHANGED tool
  BY OneTrouble DEF PowerLoss, Exits, IInv, Basics
<1>2. /\ Cells(words') /\ under' \subseteq Keys /\ IsFiniteSet(under')
      /\ \E l \in Languages : Belong(words', l, under') /\ Complete(words', l, under')
  <2>1. CASE UNCHANGED << words, under >>
    BY <2>1, WhatIsThere DEF Cells
  <2>2. CASE \E upto \in Cuts : words' = Cleared(upto) /\ UNCHANGED under
    <3>1. PICK upto \in Cuts : words' = Cleared(upto) /\ UNCHANGED under
      BY <2>2
    <3>2. PICK l \in Languages : Belong(words, l, under)
      BY WhatIsThere
    <3>3. Cells(words') /\ words'[0] = {} /\ \A n \in 0..24 : words'[n] \subseteq words[n]
      BY <3>1, BoundAssumption DEF Cleared, Cells
    <3>4. Belong(words', l, under') /\ Complete(words', l, under')
      BY <3>1, <3>2, <3>3, FewerWords, Incomplete
    <3> QED BY <3>1, <3>3, <3>4, WhatIsThere
  <2>3. CASE /\ Sending /\ under' = Under
             /\ \E upto \in Cuts : words' = WithPart(tool.lang, tool.start, End, upto)
    <3>1. PICK upto \in Cuts : words' = WithPart(tool.lang, tool.start, End, upto)
      BY <2>3
    <3>2. words[24] = {} /\ Belong(words, tool.lang, under) /\ tool.lang \in Languages
      BY <2>3, WhileSending
    <3>3. /\ Cells(words') /\ words'[24] = {}
          /\ Belong(words', tool.lang, under') /\ Complete(words', tool.lang, under')
      BY <2>3, <3>1, <3>2, PartBelongs, Incomplete DEF Under
    <3> QED BY <2>3, <3>2, <3>3, Underway
  <2> QED BY <2>1, <2>2, <2>3 DEF PowerLoss
<1>3. b' \in Keys /\ stored' \in Keys /\ troubles' \in 0..MaxTroubles
  BY <1>1, WhatIsThere
<1>4. CASE Sending
  BY <1>1, <1>2, <1>3, <1>4, ExitTool, ExitKeeps
<1>5. CASE ~Sending
  <2>1. UNCHANGED tool /\ ~Sending'
    BY <1>1, <1>5 DEF Sending
  <2>2. Basics'
    BY <1>2, <1>3 DEF Basics
  <2>3. ToolInv' /\ LoadInv' /\ DoneIsTheSeed'
    BY <1>1, <2>1 DEF IInv, ToolInv, LoadInv, DoneIsTheSeed
  <2>4. FlashInv'
    BY <1>2, <2>1 DEF FlashInv
  <2> QED BY <2>2, <2>3, <2>4 DEF IInv
<1> QED BY <1>4, <1>5

\* Commands of other programs change no more than the key in the flash.
LEMMA OtherCommandsKeep ==
  ASSUME IInv, NEW cla,
         \/ put_key(cla, stored') /\ stored' \in Imported
         \/ other_command(cla) \/ apdu_reset(cla)
  PROVE  IInv'
<1>1. CASE put_key(cla, stored') /\ stored' \in Imported
  BY <1>1, SeedKeyIsKey, WhatIsThere, KeyStepKeeps DEF put_key
<1>2. CASE other_command(cla)
  BY <1>2, WhatIsThere, KeyStepKeeps DEF other_command
<1>3. CASE apdu_reset(cla)
  BY <1>3, ReloadKeeps DEF apdu_reset
<1> QED BY <1>1, <1>2, <1>3

LEMMA Inductive == ASSUME CrcIsNumber, IInv, [Next]_seedVars PROVE IInv'
<1>1. CASE \E lang \in Online : get_online_seed(lang)
  BY <1>1, get_online_seedKeeps
<1>2. CASE send_dict_chunk
  BY <1>2, send_dict_chunkKeeps
<1>3. CASE exchange_fails
  BY <1>3, exchange_failsKeeps
<1>4. CASE \E lang \in Offline, count \in {11, 24} : get_offline_seed(lang, count)
  BY <1>4, get_offline_seedKeeps
<1>5. CASE ui_menu_words_clear \/ electroneum_install
  BY <1>5, MenusKeep
<1>6. CASE Unlock
  BY <1>6, ReloadKeeps DEF Unlock
<1>7. CASE \E cla \in {0, 2}, key \in Imported : put_key(cla, key)
  BY <1>7, OtherCommandsKeep DEF put_key
<1>8. CASE \E cla \in {0, 2} : other_command(cla) \/ apdu_reset(cla)
  BY <1>8, OtherCommandsKeep
<1>9. CASE PowerLoss
  BY <1>9, PowerLossKeeps
<1>10. CASE UNCHANGED seedVars
  BY <1>10, WhatIsThere, KeyStepKeeps DEF seedVars
<1> QED BY <1>1, <1>2, <1>3, <1>4, <1>5, <1>6, <1>7, <1>8, <1>9, <1>10 DEF Next

-----------------------------------------------------------------------------
(***************************************************************************)
(* Theorems                                                                *)
(***************************************************************************)
\* Whatever is loaded, cut off, refused, cleared or imported, the words on the device are of
\* one list and of the keys they were written for.
THEOREM Invariance == ASSUME CrcIsNumber PROVE Spec => []IInv
<1>1. Init => IInv
  BY InitEstablishes
<1>2. IInv /\ [Next]_seedVars => IInv'
  BY Inductive
<1> QED BY <1>1, <1>2, PTL DEF Spec

\* A load that is done without interference is the seed of the key in use.
THEOREM LoadsTheSeed == ASSUME CrcIsNumber PROVE Spec => []DoneIsTheSeed
<1>1. IInv => DoneIsTheSeed
  BY DEF IInv
<1> QED BY <1>1, Invariance, PTL

\* Words that are all there and of one key are its seed, through every break of a load.
THEOREM ShowsTheSeed == ASSUME CrcIsNumber PROVE Spec => []TwentyFiveAreRight
<1>1. IInv => TwentyFiveAreRight
  <2> SUFFICES ASSUME IInv, NEW key \in Keys, under = {key}, \A n \in 0..24 : words[n] # {}
               PROVE  \E lang \in Languages : words = SeedWordsOf[key][lang]
    BY DEF TwentyFiveAreRight
  <2> QED BY WhatIsThere DEF Complete
<1> QED BY <1>1, Invariance, PTL

\* Loads of several lists never mix their words, and the words of one key never leave
\* their ends behind each other.
THEOREM KeepsOneLanguage == ASSUME CrcIsNumber PROVE Spec => []OneLanguage
<1>1. IInv => OneLanguage
  <2> SUFFICES ASSUME IInv PROVE OneLanguage
    OBVIOUS
  <2>1. PICK l \in Languages : Belong(words, l, under)
    BY WhatIsThere
  <2>2. \A n \in 0..24 : \E p \in Positions : words[n] \subseteq OfKeys(l, p, under)
    BY <2>1 DEF Belong, Positions
  <2>3. \A n \in 0..24 : \A w \in words[n] : w.lang = l
    BY <2>2 DEF OfKeys, Word
  <2>4. ASSUME Cardinality(under) <= 1, NEW n \in 0..24, NEW v \in words[n], NEW w \in words[n]
        PROVE  v = w
    <3>1. PICK p \in Positions : words[n] \subseteq OfKeys(l, p, under)
      BY <2>2
    <3>2. PICK key1 \in under, key2 \in under :
            v = Word(l, WordIndex[key1][p]) /\ w = Word(l, WordIndex[key2][p])
      BY <3>1, <2>4 DEF OfKeys
    <3>3. key1 = key2
      BY <2>4, WhatIsThere, AtMostOne
    <3> QED BY <3>2, <3>3
  <2> QED BY <2>3, <2>4 DEF OneLanguage
<1> QED BY <1>1, Invariance, PTL

-----------------------------------------------------------------------------
(***************************************************************************)
(* The bytes of a list                                                     *)
(***************************************************************************)
\* The bytes of a word, with its size before it.
WordBytes(l, i) == 1 + Size(Word(l, i))

\* The number of the k-th word of a row.
At(f, k) == 40 * f + k - 1

LEMMA WordFits ==
  ASSUME NEW l \in Loadable, NEW i \in 0..(word_list_length - 1)
  PROVE  Size(Word(l, i)) \in Nat /\ Size(Word(l, i)) <= 19 /\ WordBytes(l, i) \in Nat
BY LoadableAssumption DEF WordBytes

LEMMA RowBytesDef ==
  ASSUME NEW l \in Loadable, NEW f \in 0..40
  PROVE  /\ RowBytes(l, f) \in [0..RowSize(f) -> Nat] /\ RowBytes(l, f)[0] = 0
         /\ \A k \in 1..RowSize(f) :
              RowBytes(l, f)[k] = RowBytes(l, f)[k - 1] + WordBytes(l, At(f, k))
<1> DEFINE s == [k \in 1..RowSize(f) |-> 1 + Size(Word(l, 40 * f + k - 1))]
<1>1. \A k \in 1..RowSize(f) : At(f, k) \in 0..(word_list_length - 1) /\ At(f, k) = 40 * f + k - 1
  BY DEF word_list_length, At, RowSize
<1>2. \A k \in 1..RowSize(f) : s[k] = WordBytes(l, At(f, k)) /\ s[k] \in Nat
  BY <1>1, WordFits DEF WordBytes
<1>3. DOMAIN s = 1..RowSize(f) /\ s = [k \in 1..RowSize(f) |-> s[k]] /\ RowSize(f) \in Nat
  BY DEF RowSize
<1>4. RowBytes(l, f) = PartialSums(s)
  BY Zenon DEF RowBytes
<1> HIDE DEF s
<1>5. s \in Seq(Nat) /\ Len(s) = RowSize(f)
  BY <1>2, <1>3
<1>6. s \in Seq(Nat)
  BY <1>5
<1>7. /\ PartialSums(s) \in [0..Len(s) -> Nat] /\ PartialSums(s)[0] = 0
      /\ \A k \in 1..Len(s) : PartialSums(s)[k] = PartialSums(s)[k - 1] + s[k]
  BY <1>6, PartialSumsDef
<1> DEFINE sums == PartialSums(s)
<1> HIDE DEF sums
<1>8. sums \in [0..RowSize(f) -> Nat] /\ sums[0] = 0 /\ \A k \in 1..RowSize(f) : sums[k] = sums[k - 1] + s[k]
  BY <1>5, <1>7 DEF sums
<1>9. RowBytes(l, f) = sums
  BY <1>4 DEF sums
<1> QED BY <1>2, <1>8, <1>9

LEMMA RowsDef ==
  ASSUME NEW l \in Loadable
  PROVE  /\ Rows[l] \in [0..40 -> Nat] /\ Rows[l][0] = 0
         /\ \A f \in 1..40 : Rows[l][f] = Rows[l][f - 1] + RowBytes(l, f - 1)[40]
<1> DEFINE s == [f \in 1..40 |-> RowBytes(l, f - 1)[40]]
<1>1. l \in Languages
  BY LoadableLists
<1>2. Rows[l] = PartialSums(s)
  BY <1>1, Zenon DEF Rows
<1>3. \A f \in 1..40 : s[f] = RowBytes(l, f - 1)[40] /\ s[f] \in Nat
  <2>1. \A f \in 1..40 : f - 1 \in 0..39
    OBVIOUS
  <2>3. ASSUME NEW f \in 0..39 PROVE RowBytes(l, f)[40] \in Nat
    <3>1. f \in 0..40 /\ RowSize(f) = 40
      BY DEF RowSize
    <3>2. RowBytes(l, f) \in [0..RowSize(f) -> Nat]
      BY <3>1, RowBytesDef
    <3> QED BY <3>1, <3>2
  <2> QED BY <2>1, <2>3
<1>4. DOMAIN s = 1..40 /\ s = [f \in 1..40 |-> s[f]]
  OBVIOUS
<1> HIDE DEF s
<1>5. s \in Seq(Nat) /\ Len(s) = 40
  BY <1>3, <1>4
<1>6. /\ PartialSums(s) \in [0..40 -> Nat] /\ PartialSums(s)[0] = 0
      /\ \A f \in 1..40 : PartialSums(s)[f] = PartialSums(s)[f - 1] + s[f]
  BY <1>5, PartialSumsDef
<1> QED BY <1>2, <1>3, <1>6

\* Where a word is in its row, and what is before it.
LEMMA InRow ==
  ASSUME NEW l \in Loadable, NEW f \in 0..40, NEW k \in 0..RowSize(f)
  PROVE  /\ BytesBefore[l][40 * f + k] = Rows[l][f] + RowBytes(l, f)[k]
         /\ BytesBefore[l][40 * f + k] \in Nat
<1> DEFINE i == 40 * f + k
<1>1. l \in Languages /\ i \in 0..word_list_length
  BY LoadableLists DEF word_list_length, RowSize
<1>2. BytesBefore[l][i] =
        IF i = 0 THEN 0
        ELSE Rows[l][(i - 1) \div 40] + RowBytes(l, (i - 1) \div 40)[((i - 1) % 40) + 1]
  BY <1>1, Zenon DEF BytesBefore
<1>3. Rows[l][f] \in Nat /\ RowBytes(l, f)[k] \in Nat /\ Rows[l][0] = 0 /\ RowBytes(l, f)[0] = 0
  <2>1. Rows[l] \in [0..40 -> Nat] /\ Rows[l][0] = 0
    BY RowsDef
  <2>2. RowBytes(l, f) \in [0..RowSize(f) -> Nat] /\ RowBytes(l, f)[0] = 0
    BY RowBytesDef
  <2> QED BY <2>1, <2>2
<1>4. CASE k # 0
  <2>0. k - 1 \in 0..39
    BY <1>4 DEF RowSize
  <2>1. i # 0 /\ (i - 1) \div 40 = f /\ ((i - 1) % 40) + 1 = k
    BY <2>0
  <2> HIDE DEF i
  <2>2. BytesBefore[l][i] = Rows[l][f] + RowBytes(l, f)[k]
    BY <1>2, <2>1
  <2>3. BytesBefore[l][i] \in Nat
    BY <1>3, <2>2
  <2> QED BY <2>2, <2>3 DEF i
<1>5. CASE k = 0 /\ f # 0
  <2>1. i # 0 /\ (i - 1) \div 40 = f - 1 /\ ((i - 1) % 40) + 1 = 40
    BY <1>5
  <2>2. f \in 1..40
    BY <1>5
  <2>3. Rows[l][f] = Rows[l][f - 1] + RowBytes(l, f - 1)[40]
    BY <2>2, RowsDef
  <2> HIDE DEF i
  <2>4. BytesBefore[l][i] = Rows[l][f - 1] + RowBytes(l, f - 1)[40]
    BY <1>2, <2>1
  <2>5. RowBytes(l, f)[k] = 0
    BY <1>3, <1>5
  <2>6. BytesBefore[l][i] = Rows[l][f] + RowBytes(l, f)[k] /\ BytesBefore[l][i] \in Nat
    BY <1>3, <2>3, <2>4, <2>5
  <2> QED BY <2>6 DEF i
<1>6. CASE k = 0 /\ f = 0
  <2>1. i = 0
    BY <1>6
  <2> HIDE DEF i
  <2>2. BytesBefore[l][i] = 0 /\ Rows[l][f] = 0 /\ RowBytes(l, f)[k] = 0
    BY <1>2, <1>3, <1>6, <2>1
  <2> QED BY <2>2 DEF i
<1> QED BY <1>4, <1>5, <1>6

LEMMA RowStep ==
  ASSUME NEW l \in Loadable, NEW f \in 0..40
  PROVE  \A k \in 1..RowSize(f) :
           RowBytes(l, f)[k] = RowBytes(l, f)[k - 1] + WordBytes(l, At(f, k))
BY RowBytesDef

\* One more word.
LEMMA BytesOneMore ==
  ASSUME NEW l \in Loadable, NEW i \in 0..(word_list_length - 1)
  PROVE  /\ BytesBefore[l][i] \in Nat /\ BytesBefore[l][i + 1] \in Nat
         /\ BytesBefore[l][i + 1] = BytesBefore[l][i] + WordBytes(l, i)
<1> DEFINE f == i \div 40
           k == i % 40
<1>1. f \in 0..40 /\ k \in 0..(RowSize(f) - 1) /\ i = 40 * f + k /\ RowSize(f) \in Nat
  <2>1. f \in 0..40 /\ k \in 0..39 /\ i = 40 * f + k
    BY DEF word_list_length
  <2> HIDE DEF f, k
  <2> QED BY <2>1 DEF word_list_length, RowSize
<1> HIDE DEF f, k
<1> DEFINE next == k + 1
<1>2. k \in 0..RowSize(f) /\ next \in 0..RowSize(f) /\ next \in 1..RowSize(f) /\ next - 1 = k
  BY <1>1
<1>3. i + 1 = 40 * f + next /\ At(f, next) = i
  BY <1>1 DEF At
<1> HIDE DEF next
<1>4. BytesBefore[l][i] = Rows[l][f] + RowBytes(l, f)[k] /\ BytesBefore[l][i] \in Nat
  <2>1. f \in 0..40
    BY <1>1
  <2>2. k \in 0..RowSize(f)
    BY <1>2
  <2>3. /\ BytesBefore[l][40 * f + k] = Rows[l][f] + RowBytes(l, f)[k]
        /\ BytesBefore[l][40 * f + k] \in Nat
    BY <2>1, <2>2, InRow, Zenon
  <2> QED BY <1>1, <2>3
<1>5. BytesBefore[l][i + 1] = Rows[l][f] + RowBytes(l, f)[next] /\ BytesBefore[l][i + 1] \in Nat
  <2>1. /\ BytesBefore[l][40 * f + next] = Rows[l][f] + RowBytes(l, f)[next]
        /\ BytesBefore[l][40 * f + next] \in Nat
    BY <1>1, <1>2, InRow, Zenon
  <2> QED BY <1>3, <2>1
<1>6. /\ RowBytes(l, f) \in [0..RowSize(f) -> Nat]
      /\ RowBytes(l, f)[next] = RowBytes(l, f)[next - 1] + WordBytes(l, At(f, next))
  <2>1. f \in 0..40
    BY <1>1
  <2>2. next \in 1..RowSize(f)
    BY <1>2
  <2>3. RowBytes(l, f) \in [0..RowSize(f) -> Nat]
    BY <2>1, RowBytesDef
  <2>4. \A m \in 1..RowSize(f) :
          RowBytes(l, f)[m] = RowBytes(l, f)[m - 1] + WordBytes(l, At(f, m))
    BY <2>1, RowStep
  <2>5. RowBytes(l, f)[next] = RowBytes(l, f)[next - 1] + WordBytes(l, At(f, next))
    BY <2>2, <2>4
  <2> QED BY <2>3, <2>5
<1>7. RowBytes(l, f)[next] = RowBytes(l, f)[k] + WordBytes(l, i) /\ RowBytes(l, f)[k] \in Nat
  BY <1>2, <1>3, <1>6
<1>8. Rows[l][f] \in Nat
  <2>1. Rows[l] \in [0..40 -> Nat]
    BY RowsDef
  <2> QED BY <1>1, <2>1
<1>9. WordBytes(l, i) \in Nat
  BY WordFits
<1> QED BY <1>4, <1>5, <1>7, <1>8, <1>9

\* More words have no fewer bytes.
LEMMA BytesGrow ==
  ASSUME NEW l \in Loadable, NEW i \in 0..word_list_length, NEW j \in i..word_list_length
  PROVE  BytesBefore[l][i] <= BytesBefore[l][j] /\ BytesBefore[l][i] \in Nat /\ BytesBefore[l][j] \in Nat
<1> DEFINE S == {d \in 0..(word_list_length - i) : BytesBefore[l][i] <= BytesBefore[l][i + d]}
<1>1. \A n \in 0..word_list_length : BytesBefore[l][n] \in Nat
  <2> SUFFICES ASSUME NEW n \in 0..word_list_length PROVE BytesBefore[l][n] \in Nat
    OBVIOUS
  <2>1. CASE n \in 0..(word_list_length - 1)
    BY <2>1, BytesOneMore
  <2>2. CASE n = word_list_length
    <3>1. word_list_length - 1 \in 0..(word_list_length - 1) /\ (word_list_length - 1) + 1 = n
      BY <2>2, ListLength
    <3> QED BY <3>1, BytesOneMore
  <2> QED BY <2>1, <2>2, ListLength
<1>2. word_list_length - i \in Nat /\ j - i \in 0..(word_list_length - i) /\ i + (j - i) = j
  BY ListLength
<1>3. 0 \in S
  BY <1>1, <1>2
<1>4. ASSUME NEW d \in 0..(word_list_length - i) - 1, d \in S
      PROVE  d + 1 \in S
  <2>1. i + d \in 0..(word_list_length - 1) /\ i + (d + 1) = (i + d) + 1 /\ d + 1 \in 0..(word_list_length - i)
    BY ListLength
  <2>2. /\ BytesBefore[l][(i + d) + 1] = BytesBefore[l][i + d] + WordBytes(l, i + d)
        /\ WordBytes(l, i + d) \in Nat /\ BytesBefore[l][i + d] \in Nat /\ BytesBefore[l][i] \in Nat
    BY <1>1, <2>1, BytesOneMore, WordFits
  <2>3. BytesBefore[l][i] <= BytesBefore[l][i + d]
    BY <1>4
  <2> QED BY <2>1, <2>2, <2>3
<1>5. \A d \in 0..(word_list_length - i) - 1 : d \in S => d + 1 \in S
  BY <1>4
<1> HIDE DEF S
<1>6. j - i \in S
  <2>1. 0..(word_list_length - i) \subseteq S
    BY <1>2, <1>3, <1>5, InductionUpTo
  <2> QED BY <1>2, <2>1
<1>7. BytesBefore[l][i] <= BytesBefore[l][i + (j - i)]
  BY <1>6 DEF S
<1> QED BY <1>1, <1>2, <1>7

-----------------------------------------------------------------------------
(***************************************************************************)
(* Every part is taken                                                     *)
(***************************************************************************)
\* What is sent fits its command, and the tool has not been refused.
PartInv ==
  /\ tool.phase \in {"idle", "sending", "done", "aborted", "printed"}
  /\ tool.start \in 0..(word_list_length - 1)
  /\ Sending => FitsChunk(tool.lang, tool.start, End)

LEMMA CountFits ==
  ASSUME NEW lang \in Loadable, NEW start \in 0..(word_list_length - 1)
  PROVE  FitsChunk(lang, start, start + Count(lang, start))
<1>1. \E cnt \in 1..(word_list_length - start) : EndsPart(lang, start, cnt)
  BY LoadableAssumption
<1>2. EndsPart(lang, start, Count(lang, start))
  BY <1>1 DEF Count
<1> QED BY <1>2 DEF EndsPart

\* A word of a part that fits is found in it.
LEMMA WordFound ==
  ASSUME NEW lang \in Loadable, NEW start \in 0..(word_list_length - 1),
         NEW end \in 0..word_list_length, FitsChunk(lang, start, end),
         NEW index \in 0..(word_list_length - 1), start <= index, index < end
  PROVE  Found(Word(lang, index), start) = "there"
<1> DEFINE from == BytesBefore[lang][start]
           here == BytesBefore[lang][index]
           next == BytesBefore[lang][index + 1]
           to   == BytesBefore[lang][end]
           word == Word(lang, index)
<1>1. index + 1 \in 0..word_list_length /\ end \in (index + 1)..word_list_length
  BY ListLength
<1>2. start \in 0..word_list_length /\ index \in start..word_list_length
  BY ListLength
<1>3. from <= here /\ from \in Nat /\ here \in Nat
  BY <1>2, BytesGrow
<1>4. next <= to /\ next \in Nat /\ to \in Nat
  BY <1>1, BytesGrow
<1>5. next = here + WordBytes(lang, index)
  BY BytesOneMore
<1>6. Size(word) \in Nat /\ Size(word) <= 19 /\ WordBytes(lang, index) = 1 + Size(word)
  BY WordFits DEF WordBytes
<1>7. 1 + 8 + (to - from) <= 254
  BY DEF FitsChunk, Bytes
<1>8. word.lang = lang /\ word.index = index
  BY DEF Word
<1>9. Bytes(word.lang, start, word.index) = here - from
  BY <1>8 DEF Bytes
<1> HIDE DEF from, here, next, to, word
<1>10. /\ ~(here - from > Room)
       /\ ~(Size(word) > Room - (here - from) - 1 \/ Size(word) > 19)
  BY <1>3, <1>4, <1>5, <1>6, <1>7 DEF Room
<1>11. Found(word, start) = "there"
  BY <1>9, <1>10 DEF Found
<1> QED BY <1>11 DEF word

\* The part that is sent can be packed, and the device takes it.
LEMMA PartFits ==
  ASSUME IInv, PartInv, Sending
  PROVE  CanBePacked(tool.lang, tool.start, End) /\ Part.accepted
<1> DEFINE lang  == tool.lang
           start == tool.start
           p2    == IF IsLast THEN electroneum_langs[lang].prefix_length ELSE 0
           bad   == {n \in Chosen(start, End) : Found(Word(lang, WordIndex[b][n]), start) # "there"}
           whole == WithPart(lang, start, End, 24)
<1>1. /\ lang \in Loadable /\ start \in 0..(word_list_length - 1)
      /\ End \in 1..word_list_length /\ start < End
  BY WhileSending
<1>2. FitsChunk(lang, start, End)
  BY DEF PartInv
<1>3. start \in 0..word_list_length /\ End \in start..word_list_length /\ End \in 0..word_list_length
  BY <1>1, ListLength
<1>4. CanBePacked(lang, start, End)
  <2>1. BytesBefore[lang][start] \in Nat /\ BytesBefore[lang][End] \in Nat
    BY <1>1, <1>3, BytesGrow
  <2>2. 1 + 8 + Bytes(lang, start, End) <= 254 /\ Bytes(lang, start, End) \in Int
    BY <1>2, <2>1 DEF FitsChunk, Bytes
  <2> QED BY <2>2 DEF CanBePacked
<1>5. ASSUME NEW n \in Chosen(start, End)
      PROVE  Found(Word(lang, WordIndex[b][n]), start) = "there"
  <2>1. n \in Positions /\ start <= WordIndex[b][n] /\ WordIndex[b][n] < End
    <3>1. n \in Positions /\ WordIndex[b][n] >= start /\ WordIndex[b][n] < End
      BY DEF Chosen
    <3>2. WordIndex[b][n] \in 0..(word_list_length - 1)
      BY <3>1, Indexes DEF IInv, Basics
    <3> QED BY <1>1, <3>1, <3>2, ListLength
  <2>2. WordIndex[b][n] \in 0..(word_list_length - 1)
    BY <2>1, Indexes DEF IInv, Basics
  <2> HIDE DEF lang, start
  <2> QED BY <1>1, <1>2, <1>3, <2>1, <2>2, WordFound
<1>6. bad = {}
  BY <1>5
<1>7. ~(start >= word_list_length \/ End > word_list_length \/ start > End)
  BY <1>1, ListLength
<1>8. Part = manage_seedwords(lang, start, End, p2)
  BY DEF Part
<1>9. manage_seedwords(lang, start, End, p2) =
        [accepted |-> TRUE, words |-> IF p2 = 0 THEN whole ELSE WithChecksum(whole, p2)]
  BY <1>6, <1>7, Zenon DEF manage_seedwords
<1> QED BY <1>4, <1>8, <1>9

\* The number of words does not matter outside a load, and within one they fit.
LEMMA NextFits ==
  ASSUME NEW lang \in Loadable, NEW start \in 0..(word_list_length - 1),
         tool' = [phase |-> "sending", lang |-> lang, start |-> start, cnt |-> Count(lang, start)]
  PROVE  PartInv'
<1>1. FitsChunk(lang, start, start + Count(lang, start))
  BY CountFits
<1>2. tool'.lang = lang /\ tool'.start = start /\ End' = start + Count(lang, start)
  BY DEF End
<1> QED BY <1>1, <1>2 DEF PartInv

LEMMA ExitFits ==
  ASSUME NEW phase \in {"done", "aborted", "printed"}, tool'.phase = phase, tool'.start = 0
  PROVE  PartInv'
BY ListLength DEF PartInv, Sending

LEMMA PartInductive == ASSUME IInv, PartInv, [Next]_seedVars PROVE PartInv'
<1>1. ASSUME NEW lang \in Online, get_online_seed(lang)
      PROVE  PartInv'
  <2>1. CASE lang \in Loadable /\ Accepts(0)
    <3>1. tool' = [phase |-> "sending", lang |-> lang, start |-> 0, cnt |-> Count(lang, 0)]
      BY <1>1, <2>1 DEF get_online_seed
    <3>2. lang \in Loadable /\ 0 \in 0..(word_list_length - 1)
      BY <2>1, ListLength
    <3> QED BY <3>1, <3>2, NextFits
  <2>2. CASE ~(lang \in Loadable /\ Accepts(0))
    BY <1>1, <2>2, ExitFits DEF get_online_seed, Exits, Exit
  <2> QED BY <2>1, <2>2
<1>2. CASE send_dict_chunk
  <2>1. Sending
    BY <1>2 DEF send_dict_chunk
  <2>2. CASE ~Accepts(0)
    BY <1>2, <2>2, ExitFits DEF send_dict_chunk, Exits, Exit
  <2>3. CASE Accepts(0)
    <3>1. CanBePacked(tool.lang, tool.start, End) /\ Part.accepted
      BY <2>1, PartFits
    <3>2. tool' = NextPart
      BY <1>2, <2>3, <3>1 DEF send_dict_chunk
    <3>3. CASE IsLast
      BY <3>2, <3>3, ExitFits DEF NextPart, Exit
    <3>4. CASE ~IsLast
      BY <2>1, <3>2, <3>4, NextPartIs, WhileSending, NextFits
    <3> QED BY <3>3, <3>4
  <2> QED BY <2>2, <2>3
<1>3. CASE exchange_fails
  BY <1>3, ExitFits DEF exchange_fails, Exits, Exit
<1>4. ASSUME NEW lang \in Offline, NEW count \in {11, 24}, get_offline_seed(lang, count)
      PROVE  PartInv'
  <2>1. tool'.phase \in {"aborted", "printed"} /\ tool'.start = 0
    BY <1>4 DEF get_offline_seed, Exit
  <2> QED BY <2>1, ExitFits
<1>5. CASE UNCHANGED tool
  BY <1>5 DEF PartInv, Sending, End
<1>6. CASE PowerLoss
  <2>1. CASE Sending
    BY <1>6, <2>1, ExitFits DEF PowerLoss, Exits, Exit
  <2>2. CASE ~Sending
    BY <1>5, <1>6, <2>2 DEF PowerLoss
  <2> QED BY <2>1, <2>2
<1>7. CASE \/ ui_menu_words_clear \/ electroneum_install \/ Unlock
           \/ \E cla \in {0, 2}, key \in Imported : put_key(cla, key)
           \/ \E cla \in {0, 2} : other_command(cla)
           \/ \E cla \in {0, 2} : apdu_reset(cla)
  BY <1>5, <1>7 DEF ui_menu_words_clear, electroneum_install, Unlock, put_key, other_command, apdu_reset
<1>8. CASE UNCHANGED seedVars
  BY <1>5, <1>8 DEF seedVars
<1> QED BY <1>1, <1>2, <1>3, <1>4, <1>6, <1>7, <1>8 DEF Next

ProtocolInv == protocol \in {0, 2, Unset}

LEMMA ProtocolInductive == ASSUME ProtocolInv, [Next]_seedVars PROVE ProtocolInv'
<1>1. CASE UNCHANGED protocol \/ protocol' \in {0, 2, Unset}
  BY <1>1 DEF ProtocolInv
<1>2. CASE (\E lang \in Online : get_online_seed(lang)) \/ send_dict_chunk \/ exchange_fails
  BY <1>1, <1>2 DEF get_online_seed, send_dict_chunk, exchange_fails
<1>3. CASE \E lang \in Offline, count \in {11, 24} : get_offline_seed(lang, count)
  BY <1>1, <1>3 DEF get_offline_seed
<1>4. CASE ui_menu_words_clear \/ electroneum_install \/ Unlock \/ PowerLoss
  BY <1>1, <1>4 DEF ui_menu_words_clear, electroneum_install, Unlock, PowerLoss
<1>5. CASE \/ \E cla \in {0, 2}, key \in Imported : put_key(cla, key)
           \/ \E cla \in {0, 2} : other_command(cla)
           \/ \E cla \in {0, 2} : apdu_reset(cla)
  BY <1>1, <1>5 DEF put_key, other_command, apdu_reset
<1>6. CASE UNCHANGED seedVars
  BY <1>1, <1>6 DEF seedVars
<1> QED BY <1>2, <1>3, <1>4, <1>5, <1>6 DEF Next

LEMMA Parts == ASSUME CrcIsNumber PROVE Spec => []PartInv
<1>1. Init => PartInv
  BY ListLength DEF Init, PartInv, Sending
<1>2. IInv /\ PartInv /\ [Next]_seedVars => PartInv'
  BY PartInductive
<1> QED BY <1>1, <1>2, Invariance, PTL DEF Spec

\* The device takes every part of every list: the command holds it, every word of it is
\* found and fits its field, and its numbers are in range.
THEOREM TakesEveryPart == ASSUME CrcIsNumber PROVE Spec => []PartsAccepted
<1>1. PartInv => PartsAccepted
  BY DEF PartInv, PartsAccepted
<1> QED BY <1>1, Parts, PTL

\* Every variable has its type: the words are of the lists, and a load goes on from a word
\* of its list.
THEOREM TypeCorrect == ASSUME CrcIsNumber PROVE Spec => []TypeOK
<1>1. Spec => []ProtocolInv
  <2>1. Init => ProtocolInv
    BY DEF Init, ProtocolInv
  <2>2. ProtocolInv /\ [Next]_seedVars => ProtocolInv'
    BY ProtocolInductive
  <2> QED BY <2>1, <2>2, PTL DEF Spec
<1>2. IInv /\ PartInv /\ ProtocolInv => TypeOK
  <2> SUFFICES ASSUME IInv, PartInv, ProtocolInv PROVE TypeOK
    OBVIOUS
  <2>1. DOMAIN words = 0..24
    <3>1. words = [n \in 0..24 |-> words[n]]
      BY WhatIsThere DEF Cells
    <3> QED BY <3>1
  <2>2. ASSUME NEW n \in 0..24, NEW w \in words[n]
        PROVE  w \in AllWords
    <3>1. PICK l \in Languages : Belong(words, l, under)
      BY WhatIsThere
    <3>2. PICK p \in Positions : w \in OfKeys(l, p, under)
      BY <3>1 DEF Belong, Positions
    <3>3. PICK key \in under : w = Word(l, WordIndex[key][p])
      BY <3>2 DEF OfKeys
    <3>4. WordIndex[key][p] \in 0..(word_list_length - 1)
      BY WhatIsThere, Indexes
    <3> QED BY <3>3, <3>4 DEF Word, AllWords
  <2>3. b \in Keys /\ stored \in Keys /\ troubles \in 0..MaxTroubles /\ under \subseteq Keys
    BY WhatIsThere
  <2>4. tool.lang \in Languages /\ (Sending => tool.cnt \in 1..(word_list_length - tool.start))
    BY DEF IInv, ToolInv
  <2> QED BY <2>1, <2>2, <2>3, <2>4 DEF TypeOK, PartInv, ProtocolInv
<1> QED BY <1>1, <1>2, Invariance, Parts, PTL
=============================================================================
