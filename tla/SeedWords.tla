----------------------------- MODULE SeedWords ------------------------------
(***************************************************************************)
(* The 25 words of a wallet: the seed conversion tool of the host          *)
(* (seedconv.py), which computes them itself or loads a word list part by  *)
(* part on the device; the device, which picks its words from each part    *)
(* (electroneum_apdu_manage_seedwords); and all that happens to the words  *)
(* and to the key between two parts: menus, other programs, unlocks, loss  *)
(* of power.                                                               *)
(*                                                                         *)
(* A word is its list and its index.  A word in the flash is the set of    *)
(* the words that can be read there: a write covers no more than its own   *)
(* length, so the end of a longer word shows behind a shorter one.         *)
(***************************************************************************)
EXTENDS Integers, FiniteSets, FiniteSetsExt, Sums, Dictionaries

CONSTANTS
  Keys,              \* spend keys: sequences of eight numbers
  Imported,          \* those a host imports
  Online, Offline,   \* the lists the user of the tool asks for
  SeedKey,           \* the spend key of the seed: m/44'/415'/0'/0/0
  Crc32(_),          \* the CRC of 24 trimmed words
  Cuts,              \* how many words were written when the power was lost
  MaxTroubles        \* bound: interferences with one load

word_list_length == 1626

ASSUME ListsAssumption ==
  \A l \in DOMAIN electroneum_langs : Len(electroneum_langs[l].words) = word_list_length
ASSUME KeysAssumption ==
  /\ \A key \in Keys : DOMAIN key = 1..8 /\ \A i \in 1..8 : key[i] \in Nat
  /\ Imported \cup {SeedKey} \subseteq Keys
ASSUME BoundAssumption == Cuts \subseteq 1..24 /\ MaxTroubles \in Nat \ {0}
ASSUME LanguagesAssumption == Online \cup Offline \subseteq DOMAIN electroneum_langs

VARIABLES
  words,    \* the words in the flash, by their place
  b,        \* the spend key in use
  stored,   \* the spend key the flash would load
  protocol, \* the version the first command has fixed
  tool,     \* what the tool does, with which list, the first word and the number of a part
  troubles, \* history: the interferences since the tool cleared the words
  under     \* history: the keys in use when words were written since the last clear

seedVars == << words, b, stored, protocol, tool, troubles, under >>

-----------------------------------------------------------------------------
(***************************************************************************)
(* The lists                                                               *)
(***************************************************************************)
Languages == DOMAIN electroneum_langs
Positions == 0..23

Word(lang, index) == [lang |-> lang, index |-> index]

Size(word) == electroneum_langs[word.lang].words[word.index + 1]

\* A list in 40 rows of 40 words and one of 26.  The bytes of the first words of each row,
\* each word with its size before it; of the first rows; and of the first words of all.  TLC
\* computes the table once.
RowSize(f) == IF f < 40 THEN 40 ELSE 26
RowBytes(l, f) == PartialSums([k \in 1..RowSize(f) |-> 1 + Size(Word(l, 40 * f + k - 1))])
Rows == [l \in Languages |-> PartialSums([f \in 1..40 |-> RowBytes(l, f - 1)[40]])]
BytesBefore ==
  [l \in Languages |-> [i \in 0..word_list_length |->
     IF i = 0 THEN 0
     ELSE Rows[l][(i - 1) \div 40] + RowBytes(l, (i - 1) \div 40)[((i - 1) % 40) + 1]]]

Bytes(lang, start, end) == BytesBefore[lang][end] - BytesBefore[lang][start]

-----------------------------------------------------------------------------
(***************************************************************************)
(* The tool: words of a key, parts of a list                               *)
(***************************************************************************)
\* The first letters of a word, as many as tell it from the others of its list.
Prefix(word, length) == [word |-> word, length |-> Min({length, Size(word)})]

\* Four bytes are three words, and the 25th word repeats the one the checksum points at.
spendkey_to_words(key, lang) ==
  LET val(n)   == key[(n \div 3) + 1]
      w1(n)    == val(n) % word_list_length
      w2(n)    == ((val(n) \div word_list_length) + w1(n)) % word_list_length
      w3(n)    == (((val(n) \div word_list_length) \div word_list_length) + w2(n)) % word_list_length
      store    == [n \in Positions |-> Word(lang, << w1(n), w2(n), w3(n) >>[(n % 3) + 1])]
      trimmed  == [n \in Positions |-> {Prefix(store[n], electroneum_langs[lang].prefix_length)}]
      checksum == Crc32(trimmed) % 24
  IN  [n \in 0..24 |-> IF n < 24 THEN store[n] ELSE store[checksum]]

\* Mutant of FitsChunk: the options, the start and the count are forgotten.
FitsChunk_without_header(lang, start, end) == Bytes(lang, start, end) <= 254

FitsChunk(lang, start, end) == 1 + 8 + Bytes(lang, start, end) <= 254

\* Mutant of Count: parts of as many words each.
Count_fixed(lang, start) == 30

\* How many words make a part: it ends where the next word does not fit.
EndsPart(lang, start, cnt) ==
  /\ start + cnt = word_list_length \/ ~FitsChunk(lang, start, start + cnt + 1)
  /\ FitsChunk(lang, start, start + cnt)

Count(lang, start) == CHOOSE cnt \in 1..(word_list_length - start) : EndsPart(lang, start, cnt)

Supported == {"English", "Esperanto", "French", "Italian", "Lobjan", "Portuguese"}
Loadable  == {l \in Online : electroneum_langs[l].english_language_name \in Supported}

\* The lists that are loaded on a device: no word is shorter than the letters that tell the
\* words apart, or longer than its field, and from every word on there is a part.
ASSUME LoadableAssumption ==
  \A l \in Loadable :
    /\ electroneum_langs[l].prefix_length \in Nat \ {0}
    /\ \A i \in 0..(word_list_length - 1) :
         /\ Size(Word(l, i)) \in Nat /\ Size(Word(l, i)) >= electroneum_langs[l].prefix_length
         /\ Size(Word(l, i)) <= 19
         /\ \E cnt \in 1..(word_list_length - i) : EndsPart(l, i, cnt)

\* struct.pack raises an error when the length of the data is no byte.
CanBePacked(lang, start, end) == 1 + 8 + Bytes(lang, start, end) <= 255

-----------------------------------------------------------------------------
(***************************************************************************)
(* The device: words of a part                                             *)
(***************************************************************************)
\* Mutant of wc: the second word is not added to the third.
wc_plain(val) ==
  << val % word_list_length,
     ((val \div word_list_length) + (val % word_list_length)) % word_list_length,
     ((val \div word_list_length) \div word_list_length) % word_list_length >>

wc(val) ==
  LET w1 == val % word_list_length
      w2 == ((val \div word_list_length) + w1) % word_list_length
      w3 == (((val \div word_list_length) \div word_list_length) + w2) % word_list_length
  IN  << w1, w2, w3 >>

WordIndex == [key \in Keys |-> [n \in Positions |-> wc(key[(n \div 3) + 1])[(n % 3) + 1]]]

\* What is left of the buffer behind the options, the start and the count.
Room == 300 - 9

\* How electroneum_set_word finds a word in a part of a list.
Found(word, start) ==
  LET before == Bytes(word.lang, start, word.index)
  IN  IF before > Room THEN "not there"
      ELSE IF Size(word) > Room - before - 1 \/ Size(word) > 19 THEN "too long"
      ELSE "there"

\* A word is written over what was there, of which the end may show behind it.
Over(word, cell) == {word} \cup {old \in cell : Size(old) > Size(word)}

NoWords == [n \in 0..24 |-> {}]

\* The places of the words of a part, for the key in use.
Chosen(start, end) == {n \in Positions : WordIndex[b][n] >= start /\ WordIndex[b][n] < end}

\* The words once those of a part before the place upto are written.
WithPart(lang, start, end, upto) ==
  [n \in 0..24 |->
     IF n < upto /\ n \in Chosen(start, end) THEN Over(Word(lang, WordIndex[b][n]), words[n])
     ELSE words[n]]

\* The first bytes of a field of 20 bytes; what no word covers is zeros.
Zeros == [word |-> Word(0, 0), length |-> 0]
FieldPrefix(cell, length) ==
  {Prefix(w, length) : w \in {v \in cell : \A u \in cell : Size(u) < Size(v) => Size(u) < length}}
    \cup IF \E w \in cell : Size(w) >= length THEN {} ELSE {Zeros}

\* The last part has the length of a prefix in P2: the checksum chooses the 25th word.
Checksum(cells, p2) == Crc32([n \in Positions |-> FieldPrefix(cells[n], p2)]) % 24

WithChecksum(cells, p2) == [cells EXCEPT ![24] = cells[Checksum(cells, p2)]]

\* What the device does with a part: it may refuse its numbers, or a word, which leaves
\* those before it, or clear all if the part ends too soon.
manage_seedwords(lang, start, end, p2) ==
  LET bad   == {n \in Chosen(start, end) : Found(Word(lang, WordIndex[b][n]), start) # "there"}
      whole == WithPart(lang, start, end, 24)
  IN  IF start >= word_list_length \/ end > word_list_length \/ start > end
      THEN [accepted |-> FALSE, words |-> words]
      ELSE IF bad = {}
      THEN [accepted |-> TRUE, words |-> IF p2 = 0 THEN whole ELSE WithChecksum(whole, p2)]
      ELSE [accepted |-> FALSE,
            words |-> IF Found(Word(lang, WordIndex[b][Min(bad)]), start) = "not there" THEN NoWords
                      ELSE WithPart(lang, start, end, Min(bad))]

\* electroneum_clear_words, as far as it got.
Cleared(upto) == [n \in 0..24 |-> IF n < upto THEN {} ELSE words[n]]

\* Mutant of clear_words: one word short.
clear_words_24 == Cleared(24)
clear_words == Cleared(25)

-----------------------------------------------------------------------------
(***************************************************************************)
(* A run of the tool                                                       *)
(***************************************************************************)
Unset == 255
Accepts(cla) == protocol \in {Unset, cla}

Sending == tool.phase = "sending"

\* The tool exits; what it loaded or printed is remembered with the list.
Exit(phase) ==
  [phase |-> phase, lang |-> IF phase \in {"done", "printed"} THEN tool.lang ELSE 1,
   start |-> 0, cnt |-> 0]
Exits(phase) == tool' = Exit(phase)

\* The user names a list, in online mode one of those not shown if he likes.  The old
\* words are erased before anything is sent.
get_online_seed(lang) ==
  /\ ~Sending
  /\ IF lang \in Loadable /\ Accepts(0)
     THEN /\ tool' = [phase |-> "sending", lang |-> lang, start |-> 0, cnt |-> Count(lang, 0)]
          /\ words' = clear_words
          /\ protocol' = 0
          /\ troubles' = 0 /\ under' = {}
     ELSE /\ Exits("aborted")
          /\ UNCHANGED << words, protocol, troubles, under >>
  /\ UNCHANGED << b, stored >>

\* The part that is sent, and what the device makes of it.
End    == tool.start + tool.cnt
IsLast == End = word_list_length
Part   == manage_seedwords(tool.lang, tool.start, End,
                           IF IsLast THEN electroneum_langs[tool.lang].prefix_length ELSE 0)
Under  == IF Chosen(tool.start, End) = {} THEN under ELSE under \cup {b}

\* Mutant of NextPart: the start is not moved on.
NextPart_stays == IF IsLast THEN Exit("done") ELSE tool

NextPart ==
  IF IsLast THEN Exit("done")
  ELSE [phase |-> "sending", lang |-> tool.lang, start |-> End, cnt |-> Count(tool.lang, End)]

\* One part and its answer.  A refusal is an exception of the tool, which ends it.
send_dict_chunk ==
  /\ Sending
  /\ IF ~Accepts(0)
     THEN Exits("aborted") /\ UNCHANGED << words, protocol, under >>
     ELSE IF ~CanBePacked(tool.lang, tool.start, End)
     THEN Exits("refused") /\ UNCHANGED << words, protocol, under >>
     ELSE \E part \in {Part} :
            /\ tool' = IF part.accepted THEN NextPart ELSE Exit("refused")
            /\ words' = part.words
            /\ under' = Under
            /\ protocol' = 0
  /\ UNCHANGED << b, stored, troubles >>

\* The exchange fails, before or after the device has done its part of it.
exchange_fails ==
  /\ Sending /\ Accepts(0)
  /\ Exits("aborted")
  /\ \/ UNCHANGED << words, under, protocol >>
     \/ words' = Part.words /\ under' = Under /\ protocol' = 0
  /\ UNCHANGED << b, stored, troubles >>

\* Offline the tool asks for the 12, 18 or 24 words of the device and prints the words of
\* a key of its own: it derives along m/44'/128'/0'/0/0.
get_offline_seed(lang, count) ==
  /\ ~Sending
  /\ tool' = [Exit(IF count \in {12, 18, 24} THEN "printed" ELSE "aborted") EXCEPT !.lang = lang]
  /\ UNCHANGED << words, b, stored, protocol, troubles, under >>

-----------------------------------------------------------------------------
(***************************************************************************)
(* What else happens to words and key                                      *)
(***************************************************************************)
\* An interference with what the tool loads or has loaded.
Interferes ==
  /\ Sending => troubles < MaxTroubles
  /\ troubles' = Min({troubles + 1, MaxTroubles})

\* The keys in use are those of the flash from now on.
Reload ==
  /\ b' = stored
  /\ IF b' = b THEN UNCHANGED troubles ELSE Interferes

ui_menu_words_clear ==
  /\ words' = clear_words /\ under' = {}
  /\ Interferes
  /\ UNCHANGED << b, stored, protocol, tool >>

\* Mutant of electroneum_install: the words are not erased.
electroneum_install_keeps_words ==
  /\ b' = SeedKey /\ stored' = SeedKey
  /\ protocol' = Unset /\ under' = {}
  /\ Interferes
  /\ UNCHANGED << words, tool >>

\* Another network, or a reset in the menu: the flash is erased, the words with it.
electroneum_install ==
  /\ words' = NoWords /\ under' = {}
  /\ b' = SeedKey /\ stored' = SeedKey
  /\ protocol' = Unset
  /\ Interferes
  /\ UNCHANGED tool

Unlock == Reload /\ UNCHANGED << words, stored, protocol, tool, under >>

\* Another program, with another version of the protocol perhaps.
put_key(cla, key) ==
  /\ Accepts(cla)
  /\ stored' = key /\ protocol' = cla
  /\ UNCHANGED << words, b, tool, troubles, under >>

other_command(cla) ==
  /\ Accepts(cla)
  /\ protocol' = cla
  /\ UNCHANGED << words, b, stored, tool, troubles, under >>

apdu_reset(cla) ==
  /\ Accepts(cla)
  /\ protocol' = Unset
  /\ Reload
  /\ UNCHANGED << words, stored, tool, under >>

\* The power is lost, or the application left: in the middle of the writes of a part or of
\* a clear, or between two commands.
PowerLoss ==
  /\ b' = stored /\ protocol' = Unset
  /\ \/ UNCHANGED << words, under >>
     \/ \E upto \in Cuts : words' = Cleared(upto) /\ UNCHANGED under
     \/ /\ Sending /\ Accepts(0)
        /\ \E upto \in Cuts : words' = WithPart(tool.lang, tool.start, End, upto)
        /\ under' = Under
  /\ IF Sending THEN Exits("aborted") ELSE UNCHANGED tool
  /\ troubles' = Min({troubles + 1, MaxTroubles})
  /\ UNCHANGED stored

-----------------------------------------------------------------------------
Init ==
  /\ words = NoWords
  /\ b = SeedKey /\ stored = SeedKey
  /\ protocol = Unset
  /\ tool = [phase |-> "idle", lang |-> 1, start |-> 0, cnt |-> 0]
  /\ troubles = 0 /\ under = {}

Next ==
  \/ \E lang \in Online : get_online_seed(lang)
  \/ send_dict_chunk \/ exchange_fails
  \/ \E lang \in Offline, count \in {11, 24} : get_offline_seed(lang, count)
  \/ ui_menu_words_clear \/ electroneum_install \/ Unlock
  \/ \E cla \in {0, 2}, key \in Imported : put_key(cla, key)
  \/ \E cla \in {0, 2} : other_command(cla)
  \/ \E cla \in {0, 2} : apdu_reset(cla)
  \/ PowerLoss

Spec == Init /\ [][Next]_seedVars

(***************************************************************************)
(* The tool waits for the answer of the device, which comes or the         *)
(* exchange fails, and goes on.                                            *)
(***************************************************************************)
FairSpec == Spec /\ WF_seedVars(send_dict_chunk)

-----------------------------------------------------------------------------
(***************************************************************************)
(* Properties                                                              *)
(***************************************************************************)
AllWords == [lang : Languages, index : 0..(word_list_length - 1)]

\* Every variable has its type; a load goes on from a word of the list it began with.
TypeOK ==
  /\ DOMAIN words = 0..24 /\ \A n \in 0..24 : \A w \in words[n] : w \in AllWords
  /\ b \in Keys /\ stored \in Keys
  /\ protocol \in {0, 2, Unset}
  /\ tool.phase \in {"idle", "sending", "done", "refused", "aborted", "printed"}
  /\ tool.lang \in Languages /\ tool.start \in 0..(word_list_length - 1)
  /\ Sending => tool.cnt \in 1..(word_list_length - tool.start)
  /\ troubles \in 0..MaxTroubles /\ under \subseteq Keys

SeedWordsOf ==
  [key \in Keys |-> [lang \in Languages |->
     LET printed == spendkey_to_words(key, lang) IN [n \in 0..24 |-> {printed[n]}]]]

\* When the tool says "Done" and nothing has interfered with the load, the device holds the
\* 25 words of the key in use, the same the tool would have computed itself: no part is
\* missing or counted wrong, and both sum the same first letters.
DoneIsTheSeed == tool.phase = "done" /\ troubles = 0 => words = SeedWordsOf[b][tool.lang]

\* A user who is shown 25 words is shown the right 25, unless the key was changed in the
\* middle of a load: a load that was cut off, refused or half cleared shows fewer.
TwentyFiveAreRight ==
  \A key \in Keys :
    under = {key} /\ (\A n \in 0..24 : words[n] # {}) =>
      \E lang \in Languages : words = SeedWordsOf[key][lang]

\* All words are of one language, through all loads of different lists, whole or broken;
\* and no word shows the end of another behind it, unless the key was changed in the
\* middle of a load, when a word may be written over that of another key.
OneLanguage ==
  /\ Cardinality(under) <= 1 => \A n \in 0..24 : \A v, w \in words[n] : v = w
  /\ \E lang \in Languages : \A n \in 0..24 : \A w \in words[n] : w.lang = lang

\* The device takes every part of every list the tool sends: it fits the command, its
\* words fit their fields, and its numbers are in range.
PartsAccepted == tool.phase # "refused"

\* A load ends, with all parts sent or with an error.
LoadEnds == Sending ~> ~Sending
=============================================================================
