---------------------------- MODULE Dictionaries ----------------------------
(***************************************************************************)
(* The word lists of the seed conversion tool (dictionaries/).             *)
(*                                                                         *)
(* A word is its place in its list and the number of its bytes: no part of *)
(* the tool or of the device looks at its letters, except to print it and  *)
(* to sum its first ones, which tell the words of a list apart.  The lists *)
(* of the languages that are loaded on a device are here in full, 150      *)
(* words to a definition.                                                  *)
(***************************************************************************)
EXTENDS Naturals, Sequences

\* A list that is never sent to a device: its words are as many as the others', and
\* nothing depends on their sizes.  This is the size of the shortest, in letters.
Uniform(size) == [i \in 1..1626 |-> size]

Chinese ==
  [english_language_name |-> "Chinese (simplified)", online |-> FALSE,
   prefix_length |-> 1, words |-> Uniform(1)]

Dutch ==
  [english_language_name |-> "Dutch", online |-> FALSE,
   prefix_length |-> 4, words |-> Uniform(4)]

English_1 ==
  << 5, 7, 7, 6, 8, 5, 8, 6, 5, 7, 4, 6, 6, 8, 7, 6, 7, 6, 5, 8, 5, 8, 6, 5, 9, 5,
     9, 6, 4, 6, 6, 6, 5, 6, 5, 7, 6, 9, 5, 5, 8, 5, 6, 5, 5, 8, 7, 7, 5, 4, 4, 6,
     5, 7, 6, 7, 8, 5, 6, 5, 6, 7, 4, 8, 6, 6, 5, 6, 7, 6, 4, 7, 5, 5, 6, 6, 7, 8,
     6, 5, 7, 7, 6, 5, 7, 7, 5, 4, 5, 6, 7, 5, 7, 8, 8, 9, 6, 6, 5, 5, 6, 4, 6, 5,
     7, 8, 6, 7, 5, 5, 6, 6, 8, 6, 7, 5, 4, 6, 6, 6, 8, 5, 6, 4, 7, 6, 6, 6, 5, 8,
     7, 5, 7, 6, 6, 4, 4, 4, 5, 5, 4, 5, 5, 7, 7, 6, 6, 7, 6, 5 >>

English_2 ==
  << 7, 5, 5, 6, 4, 7, 4, 5, 5, 6, 5, 5, 7, 7, 7, 6, 7, 5, 6, 6, 4, 7, 4, 8, 7, 6,
     9, 9, 7, 7, 5, 7, 4, 8, 7, 4, 7, 4, 7, 6, 6, 4, 6, 4, 6, 4, 4, 7, 6, 7, 5, 9,
     6, 5, 6, 7, 6, 6, 4, 8, 4, 6, 5, 8, 6, 6, 6, 7, 6, 6, 5, 6, 6, 4, 4, 5, 4, 8,
     4, 5, 6, 5, 5, 9, 5, 5, 7, 4, 6, 4, 7, 8, 6, 5, 5, 6, 6, 7, 7, 8, 5, 5, 4, 4,
     5, 5, 4, 7, 6, 4, 8, 5, 6, 4, 4, 4, 7, 7, 7, 6, 4, 8, 4, 8, 7, 5, 7, 7, 7, 6,
     7, 8, 7, 7, 4, 4, 6, 5, 4, 9, 6, 6, 4, 6, 9, 4, 7, 5, 5, 5 >>

English_3 ==
  << 9, 7, 6, 7, 9, 5, 8, 7, 11, 6, 9, 5, 4, 6, 7, 9, 7, 4, 4, 9, 5, 6, 4, 6, 5, 8,
     8, 8, 5, 6, 5, 6, 5, 4, 4, 5, 7, 8, 6, 7, 7, 6, 6, 6, 4, 4, 5, 6, 6, 8, 5, 6,
     4, 6, 8, 4, 5, 4, 8, 5, 5, 6, 8, 6, 6, 5, 5, 9, 5, 8, 8, 4, 5, 5, 4, 6, 9, 9,
     4, 7, 9, 8, 4, 4, 6, 8, 4, 9, 4, 9, 5, 6, 5, 6, 5, 6, 6, 5, 5, 4, 6, 6, 5, 6,
     4, 7, 5, 7, 6, 7, 8, 6, 5, 6, 6, 6, 7, 6, 8, 4, 5, 5, 5, 7, 7, 5, 7, 9, 9, 6,
     6, 7, 6, 9, 8, 8, 7, 7, 7, 6, 6, 4, 6, 9, 5, 5, 7, 7, 6, 7 >>

English_4 ==
  << 5, 4, 6, 5, 7, 5, 6, 5, 5, 5, 5, 8, 7, 4, 6, 7, 6, 5, 8, 7, 5, 6, 4, 6, 9, 6,
     6, 7, 5, 5, 4, 7, 7, 4, 6, 6, 5, 8, 6, 5, 5, 4, 5, 6, 7, 5, 7, 6, 8, 5, 5, 5,
     6, 8, 5, 5, 6, 5, 4, 8, 5, 6, 6, 9, 8, 6, 5, 6, 6, 4, 6, 6, 6, 4, 4, 6, 5, 4,
     4, 4, 7, 5, 4, 4, 8, 7, 8, 5, 7, 7, 6, 6, 5, 5, 5, 5, 8, 5, 7, 6, 5, 6, 5, 7,
     5, 4, 5, 4, 6, 9, 4, 7, 5, 8, 4, 7, 6, 7, 6, 6, 7, 9, 4, 7, 5, 7, 5, 5, 4, 7,
     4, 5, 6, 4, 7, 5, 6, 7, 7, 7, 5, 9, 7, 7, 7, 7, 6, 4, 8, 6 >>

English_5 ==
  << 7, 8, 5, 5, 6, 7, 5, 5, 8, 7, 7, 6, 7, 6, 5, 5, 7, 6, 5, 4, 7, 7, 4, 4, 5, 6,
     8, 4, 6, 6, 4, 6, 8, 5, 7, 5, 5, 7, 6, 4, 4, 5, 6, 7, 7, 4, 6, 8, 5, 7, 5, 4,
     8, 5, 5, 5, 5, 6, 6, 7, 7, 9, 7, 5, 8, 7, 5, 10, 7, 8, 8, 8, 6, 7, 6, 6, 8, 9,
     5, 7, 7, 6, 8, 8, 6, 8, 5, 5, 4, 5, 8, 6, 8, 6, 7, 6, 5, 9, 6, 5, 6, 7, 5, 6,
     6, 7, 7, 6, 5, 7, 4, 4, 5, 5, 9, 8, 7, 6, 7, 6, 6, 6, 7, 4, 4, 6, 6, 7, 6, 6,
     6, 7, 6, 7, 5, 7, 5, 7, 4, 4, 4, 4, 7, 8, 8, 6, 4, 6, 4, 7 >>

English_6 ==
  << 6, 8, 7, 7, 4, 5, 6, 8, 4, 8, 4, 5, 9, 7, 5, 10, 6, 6, 4, 5, 4, 8, 6, 5, 4, 5,
     9, 4, 7, 6, 4, 8, 5, 5, 4, 6, 7, 5, 7, 7, 6, 7, 7, 4, 7, 5, 4, 4, 9, 5, 8, 5,
     6, 5, 4, 8, 6, 6, 6, 6, 7, 6, 5, 5, 5, 9, 4, 7, 6, 8, 6, 7, 6, 4, 5, 5, 5, 7,
     8, 7, 6, 5, 4, 4, 6, 5, 4, 6, 5, 7, 9, 6, 5, 6, 6, 6, 4, 9, 5, 4, 8, 7, 5, 4,
     5, 8, 8, 7, 8, 7, 6, 4, 6, 4, 5, 4, 4, 5, 6, 4, 6, 6, 7, 7, 4, 6, 6, 6, 8, 6,
     6, 5, 4, 4, 6, 6, 8, 5, 8, 6, 4, 5, 6, 6, 6, 6, 7, 6, 5, 7 >>

English_7 ==
  << 6, 6, 7, 4, 7, 6, 4, 5, 5, 6, 7, 5, 7, 8, 4, 6, 8, 6, 8, 7, 4, 6, 6, 6, 7, 7,
     5, 4, 5, 4, 5, 5, 5, 7, 6, 8, 7, 8, 6, 9, 5, 6, 5, 7, 8, 7, 5, 5, 7, 7, 6, 6,
     7, 6, 6, 8, 4, 6, 4, 5, 8, 5, 4, 4, 5, 7, 8, 6, 7, 9, 9, 7, 7, 5, 5, 7, 4, 8,
     6, 5, 8, 8, 4, 5, 5, 8, 5, 8, 7, 7, 8, 7, 7, 5, 6, 9, 4, 6, 5, 7, 6, 8, 7, 4,
     6, 5, 6, 6, 6, 6, 8, 7, 5, 7, 9, 5, 4, 5, 5, 9, 4, 8, 4, 4, 4, 4, 5, 7, 6, 6,
     5, 4, 7, 5, 7, 6, 8, 8, 5, 8, 6, 5, 5, 9, 8, 7, 7, 7, 8, 8 >>

English_8 ==
  << 6, 4, 7, 6, 6, 6, 7, 5, 6, 5, 9, 5, 7, 7, 5, 6, 6, 7, 7, 6, 7, 7, 8, 6, 7, 7,
     5, 6, 5, 7, 6, 6, 8, 4, 7, 8, 7, 7, 6, 5, 5, 5, 6, 4, 7, 8, 8, 6, 5, 7, 6, 4,
     7, 5, 8, 6, 6, 7, 6, 4, 6, 6, 4, 8, 5, 5, 6, 4, 5, 7, 6, 7, 6, 5, 5, 5, 7, 9,
     5, 5, 4, 7, 6, 5, 6, 8, 5, 6, 4, 5, 6, 4, 5, 5, 5, 6, 6, 4, 5, 7, 6, 8, 8, 8,
     5, 6, 7, 7, 6, 7, 6, 4, 6, 7, 6, 6, 5, 6, 6, 6, 6, 4, 5, 4, 7, 5, 6, 6, 6, 5,
     6, 5, 7, 6, 5, 5, 7, 5, 5, 6, 6, 7, 5, 7, 5, 4, 6, 7, 6, 6 >>

English_9 ==
  << 6, 6, 6, 5, 7, 8, 8, 4, 7, 6, 4, 6, 4, 6, 6, 6, 7, 7, 4, 5, 8, 5, 7, 9, 7, 7,
     6, 6, 7, 5, 5, 5, 7, 6, 5, 6, 8, 7, 7, 9, 8, 9, 8, 7, 7, 5, 7, 6, 8, 7, 7, 8,
     8, 8, 7, 8, 8, 8, 5, 7, 8, 4, 8, 9, 6, 5, 8, 7, 5, 6, 4, 8, 6, 7, 8, 9, 4, 6,
     4, 5, 8, 7, 4, 8, 5, 6, 5, 5, 4, 5, 5, 6, 4, 8, 5, 4, 6, 9, 5, 6, 7, 5, 8, 9,
     5, 4, 5, 6, 6, 7, 8, 5, 5, 4, 6, 6, 8, 7, 5, 9, 8, 8, 9, 6, 7, 8, 5, 7, 5, 8,
     7, 6, 6, 8, 6, 5, 6, 7, 5, 7, 5, 5, 8, 8, 8, 7, 6, 5, 5, 8 >>

English_10 ==
  << 6, 4, 5, 6, 6, 5, 8, 9, 6, 6, 6, 6, 5, 4, 8, 9, 7, 7, 4, 8, 6, 5, 7, 8, 7, 6,
     8, 4, 9, 7, 5, 8, 6, 6, 6, 4, 5, 5, 4, 6, 6, 5, 6, 6, 6, 7, 7, 5, 7, 6, 8, 6,
     5, 8, 8, 5, 7, 5, 5, 6, 5, 6, 5, 5, 5, 5, 6, 6, 8, 5, 6, 7, 5, 5, 5, 7, 5, 4,
     7, 6, 8, 6, 6, 5, 5, 6, 5, 8, 5, 7, 6, 6, 6, 4, 6, 8, 8, 6, 8, 9, 5, 5, 6, 5,
     8, 7, 5, 8, 7, 8, 6, 9, 8, 7, 8, 6, 6, 5, 7, 6, 6, 5, 6, 8, 6, 7, 6, 6, 6, 4,
     5, 7, 8, 7, 7, 5, 7, 6, 5, 6, 5, 5, 5, 8, 7, 6, 6, 7, 8, 5 >>

English_11 ==
  << 4, 5, 7, 4, 7, 4, 8, 4, 6, 6, 6, 5, 7, 4, 6, 8, 12, 6, 7, 5, 5, 7, 6, 5, 9, 8,
     6, 7, 7, 6, 6, 7, 7, 6, 5, 5, 5, 5, 5, 7, 6, 5, 7, 6, 6, 7, 4, 6, 7, 5, 6, 7,
     6, 6, 7, 5, 8, 6, 7, 7, 7, 5, 7, 5, 7, 4, 4, 4, 7, 7, 5, 4, 7, 5, 7, 5, 5, 4,
     6, 6, 6, 7, 6, 4, 9, 5, 6, 6, 4, 5, 4, 7, 7, 5, 5, 7, 5, 4, 5, 5, 5, 5, 5, 4,
     7, 8, 6, 9, 4, 6, 5, 4, 7, 4, 6, 4, 5, 4, 5, 7, 6, 7, 6, 6, 5, 4 >>

English ==
  [english_language_name |-> "English", online |-> TRUE,
   prefix_length |-> 3, words |-> English_1 \o English_2 \o English_3 \o English_4 \o English_5 \o
               English_6 \o English_7 \o English_8 \o English_9 \o
               English_10 \o English_11]

Esperanto_1 ==
  << 5, 6, 5, 11, 8, 7, 9, 8, 8, 6, 7, 5, 6, 8, 6, 6, 9, 10, 8, 6, 9, 6, 8, 4, 9, 7,
     6, 6, 6, 8, 7, 6, 6, 5, 6, 5, 4, 9, 7, 6, 7, 6, 6, 6, 7, 4, 7, 11, 9, 9, 5, 4,
     8, 7, 4, 5, 8, 5, 4, 8, 8, 6, 6, 7, 8, 6, 6, 6, 6, 4, 8, 4, 7, 9, 8, 6, 6, 5,
     9, 9, 8, 4, 7, 6, 6, 5, 8, 9, 5, 7, 6, 5, 7, 8, 8, 8, 8, 9, 10, 5, 7, 8, 8, 8,
     6, 6, 5, 6, 5, 6, 11, 6, 7, 8, 5, 6, 6, 5, 8, 5, 5, 6, 6, 8, 8, 6, 4, 6, 6, 6,
     11, 4, 8, 4, 6, 5, 5, 8, 7, 5, 7, 5, 7, 7, 7, 7, 6, 8, 6, 7 >>

Esperanto_2 ==
  << 5, 5, 8, 6, 6, 6, 9, 5, 8, 5, 7, 8, 8, 7, 6, 6, 7, 11, 5, 6, 6, 6, 10, 8, 6, 8,
     4, 5, 6, 4, 7, 5, 4, 7, 6, 6, 7, 5, 8, 4, 7, 12, 5, 6, 7, 6, 5, 6, 5, 6, 6, 6,
     5, 10, 7, 6, 5, 8, 9, 8, 6, 5, 11, 5, 9, 5, 8, 8, 6, 6, 10, 6, 5, 6, 5, 4, 5,
     8, 9, 9, 9, 10, 6, 4, 6, 4, 7, 4, 9, 5, 5, 6, 6, 9, 7, 8, 5, 7, 6, 8, 4, 6, 5,
     8, 5, 7, 9, 5, 11, 9, 6, 6, 4, 4, 5, 5, 6, 6, 6, 7, 7, 4, 4, 5, 6, 5, 5, 6, 4,
     5, 6, 8, 5, 8, 7, 6, 7, 12, 8, 7, 5, 10, 4, 5, 6, 5, 4, 4, 8, 8 >>

Esperanto_3 ==
  << 4, 6, 7, 7, 5, 4, 5, 5, 7, 6, 8, 6, 6, 7, 7, 7, 6, 6, 10, 10, 8, 7, 5, 7, 6, 7,
     6, 4, 6, 7, 8, 9, 5, 9, 7, 5, 9, 9, 8, 6, 5, 7, 7, 7, 6, 7, 7, 11, 7, 6, 6, 7,
     6, 6, 6, 6, 5, 9, 6, 6, 5, 5, 6, 5, 6, 8, 4, 6, 5, 5, 6, 7, 6, 5, 6, 6, 6, 8,
     5, 6, 9, 4, 7, 6, 5, 10, 4, 5, 7, 5, 5, 5, 5, 5, 4, 9, 7, 4, 5, 6, 8, 5, 9, 5,
     5, 10, 8, 7, 6, 7, 4, 6, 9, 6, 4, 6, 8, 7, 6, 5, 7, 7, 9, 8, 7, 6, 6, 6, 7, 9,
     8, 6, 7, 7, 6, 7, 6, 7, 6, 6, 6, 6, 6, 7, 9, 8, 8, 7, 6, 7 >>

Esperanto_4 ==
  << 6, 6, 6, 8, 7, 6, 8, 6, 7, 7, 10, 10, 12, 9, 7, 7, 7, 6, 6, 8, 6, 7, 6, 6, 8,
     8, 7, 10, 4, 7, 6, 4, 5, 7, 5, 13, 8, 5, 5, 4, 6, 9, 7, 6, 7, 6, 7, 7, 7, 6, 6,
     7, 6, 7, 5, 6, 8, 7, 8, 12, 6, 5, 7, 7, 11, 6, 6, 5, 6, 5, 7, 6, 6, 6, 5, 5, 4,
     7, 8, 5, 5, 6, 6, 7, 5, 9, 5, 7, 4, 6, 8, 5, 5, 6, 4, 6, 5, 6, 5, 6, 6, 7, 9,
     5, 5, 7, 6, 5, 8, 6, 5, 7, 8, 7, 6, 6, 5, 5, 6, 5, 5, 5, 6, 7, 7, 6, 5, 7, 5,
     7, 7, 9, 7, 6, 5, 6, 4, 5, 5, 4, 6, 7, 7, 10, 6, 7, 6, 7, 5, 9 >>

Esperanto_5 ==
  << 4, 5, 4, 6, 4, 4, 7, 5, 5, 6, 5, 5, 5, 6, 9, 6, 8, 8, 6, 7, 4, 8, 7, 7, 9, 7,
     7, 11, 4, 5, 6, 7, 5, 10, 10, 5, 8, 9, 6, 7, 5, 5, 5, 5, 8, 6, 5, 4, 5, 7, 7,
     4, 10, 5, 7, 6, 7, 6, 6, 5, 5, 5, 5, 5, 11, 9, 4, 6, 7, 4, 5, 5, 5, 4, 12, 7,
     7, 8, 8, 6, 6, 11, 8, 5, 8, 5, 7, 7, 6, 4, 5, 4, 7, 7, 6, 6, 9, 5, 7, 5, 9, 4,
     6, 5, 4, 10, 6, 8, 7, 9, 10, 7, 5, 6, 5, 7, 11, 7, 8, 5, 5, 5, 9, 6, 7, 4, 9,
     9, 6, 5, 4, 6, 8, 6, 8, 6, 5, 4, 6, 5, 6, 5, 4, 6, 7, 9, 8, 7, 6, 5 >>

Esperanto_6 ==
  << 5, 6, 6, 5, 4, 5, 6, 6, 6, 5, 6, 4, 10, 11, 8, 8, 7, 5, 7, 7, 5, 9, 9, 6, 6, 7,
     6, 8, 7, 7, 7, 7, 11, 6, 6, 4, 9, 7, 6, 5, 5, 8, 6, 5, 6, 7, 7, 5, 6, 9, 7, 7,
     4, 7, 5, 4, 7, 6, 8, 4, 5, 6, 7, 7, 5, 7, 5, 7, 7, 5, 4, 5, 6, 4, 7, 5, 6, 8,
     7, 4, 6, 6, 5, 7, 5, 5, 8, 9, 8, 9, 7, 6, 6, 6, 5, 5, 5, 5, 5, 5, 5, 10, 6, 7,
     5, 6, 9, 6, 6, 6, 7, 4, 6, 5, 7, 7, 5, 7, 5, 5, 5, 5, 7, 6, 5, 6, 8, 6, 6, 6,
     7, 9, 5, 7, 5, 6, 5, 7, 5, 4, 4, 5, 8, 7, 9, 5, 6, 5, 5, 5 >>

Esperanto_7 ==
  << 4, 6, 8, 6, 5, 4, 6, 6, 4, 6, 7, 6, 4, 5, 6, 6, 9, 4, 6, 7, 11, 9, 9, 5, 6, 9,
     8, 8, 6, 7, 7, 8, 7, 6, 6, 7, 8, 6, 5, 6, 6, 6, 4, 5, 6, 5, 5, 5, 6, 7, 4, 6,
     6, 4, 6, 5, 10, 6, 5, 6, 6, 6, 5, 5, 6, 4, 6, 7, 6, 6, 5, 5, 4, 8, 5, 6, 6, 6,
     7, 5, 6, 6, 7, 8, 10, 5, 7, 6, 9, 4, 9, 6, 6, 6, 5, 6, 6, 7, 5, 8, 7, 6, 8, 5,
     8, 7, 6, 5, 5, 7, 6, 4, 6, 9, 7, 5, 7, 10, 6, 6, 8, 5, 4, 7, 7, 6, 5, 9, 8, 5,
     7, 7, 6, 6, 7, 11, 5, 5, 7, 6, 9, 7, 5, 6, 5, 5, 5, 4, 7, 7 >>

Esperanto_8 ==
  << 9, 4, 5, 5, 5, 5, 7, 9, 4, 7, 5, 6, 6, 7, 10, 6, 6, 10, 6, 6, 6, 6, 10, 7, 7,
     8, 5, 10, 5, 7, 5, 4, 5, 6, 4, 5, 9, 8, 6, 6, 9, 6, 5, 5, 6, 5, 8, 5, 9, 8, 6,
     6, 6, 4, 6, 6, 6, 6, 8, 5, 4, 5, 4, 4, 7, 7, 5, 7, 6, 5, 6, 9, 5, 6, 8, 7, 4,
     5, 4, 9, 5, 9, 4, 6, 7, 5, 6, 4, 5, 5, 5, 5, 8, 6, 8, 6, 4, 5, 7, 7, 7, 10, 9,
     5, 8, 6, 8, 6, 9, 7, 6, 8, 5, 6, 8, 7, 8, 4, 8, 6, 9, 5, 6, 6, 9, 5, 6, 9, 4,
     7, 5, 6, 6, 6, 6, 5, 6, 6, 8, 9, 6, 6, 6, 5, 6, 4, 6, 7, 8, 8 >>

Esperanto_9 ==
  << 7, 6, 7, 9, 5, 6, 5, 8, 6, 9, 7, 6, 7, 10, 6, 7, 9, 5, 6, 7, 6, 8, 9, 7, 10, 4,
     5, 5, 8, 6, 6, 11, 7, 9, 8, 9, 12, 6, 6, 8, 9, 7, 10, 8, 9, 6, 10, 8, 7, 7, 5,
     4, 9, 8, 5, 6, 4, 5, 4, 7, 5, 6, 9, 6, 8, 5, 5, 7, 5, 5, 5, 6, 8, 8, 7, 6, 7,
     7, 7, 7, 7, 7, 7, 6, 10, 6, 7, 8, 8, 8, 12, 10, 8, 8, 8, 6, 7, 5, 6, 6, 6, 9,
     7, 7, 6, 7, 8, 6, 5, 5, 6, 9, 6, 10, 4, 9, 8, 9, 7, 6, 7, 6, 6, 7, 9, 4, 6, 5,
     6, 6, 4, 5, 4, 9, 6, 6, 7, 7, 6, 8, 5, 7, 7, 6, 7, 8, 6, 5, 6, 6 >>

Esperanto_10 ==
  << 4, 8, 8, 10, 9, 7, 7, 7, 7, 9, 5, 7, 6, 6, 6, 5, 7, 8, 7, 6, 6, 6, 7, 5, 7, 6,
     7, 6, 7, 8, 7, 6, 7, 5, 7, 6, 7, 9, 7, 6, 6, 7, 7, 8, 6, 8, 5, 5, 7, 5, 7, 7,
     4, 5, 5, 5, 7, 6, 6, 6, 5, 5, 6, 8, 8, 5, 6, 6, 6, 5, 7, 10, 7, 7, 6, 8, 8, 5,
     9, 7, 5, 6, 5, 4, 7, 5, 11, 8, 6, 5, 8, 6, 5, 6, 7, 7, 10, 7, 5, 5, 7, 7, 6, 5,
     5, 7, 6, 9, 8, 6, 7, 8, 5, 8, 6, 6, 7, 7, 5, 4, 5, 5, 10, 6, 5, 5, 6, 8, 4, 6,
     8, 6, 8, 6, 8, 5, 4, 5, 8, 7, 6, 10, 7, 5, 6, 7, 5, 9, 7, 8 >>

Esperanto_11 ==
  << 7, 7, 8, 4, 6, 6, 7, 6, 7, 4, 8, 6, 5, 5, 5, 7, 6, 4, 8, 5, 8, 4, 6, 8, 5, 9,
     7, 6, 6, 5, 6, 7, 7, 5, 5, 6, 8, 5, 6, 5, 8, 7, 6, 8, 6, 7, 6, 9, 5, 7, 6, 7,
     9, 6, 5, 5, 4, 6, 9, 7, 8, 7, 5, 6, 9, 7, 5, 5, 7, 7, 6, 6, 6, 5, 4, 7, 5, 5,
     7, 4, 6, 6, 5, 7, 8, 7, 5, 6, 6, 5, 5, 6, 6, 5, 6, 4, 7, 5, 4, 5, 6, 5, 7, 5,
     8, 9, 4, 5, 6, 6, 7, 7, 8, 4, 7, 5, 4, 8, 7, 5, 6, 4, 8, 5, 6, 6 >>

Esperanto ==
  [english_language_name |-> "Esperanto", online |-> TRUE,
   prefix_length |-> 4, words |-> Esperanto_1 \o Esperanto_2 \o Esperanto_3 \o Esperanto_4 \o
               Esperanto_5 \o Esperanto_6 \o Esperanto_7 \o
               Esperanto_8 \o Esperanto_9 \o Esperanto_10 \o
               Esperanto_11]

French_1 ==
  << 7, 7, 4, 6, 7, 4, 7, 6, 6, 6, 6, 6, 6, 9, 7, 6, 5, 7, 5, 5, 6, 4, 6, 5, 6, 5,
     8, 5, 6, 8, 6, 7, 8, 4, 6, 5, 4, 6, 6, 6, 6, 5, 5, 5, 4, 8, 6, 5, 5, 4, 7, 6,
     5, 6, 6, 5, 5, 5, 7, 5, 6, 6, 4, 7, 5, 5, 6, 6, 6, 7, 8, 6, 6, 8, 10, 9, 5, 8,
     9, 7, 5, 6, 6, 5, 6, 6, 6, 5, 4, 6, 8, 7, 7, 5, 6, 6, 5, 8, 7, 5, 6, 5, 6, 8,
     7, 7, 4, 5, 6, 10, 6, 6, 5, 6, 6, 9, 5, 4, 5, 4, 6, 6, 4, 5, 5, 4, 5, 6, 5, 5,
     4, 5, 6, 5, 4, 7, 5, 6, 6, 5, 6, 6, 4, 7, 5, 8, 6, 6, 6, 5 >>

French_2 ==
  << 6, 6, 7, 8, 6, 6, 5, 6, 5, 4, 5, 6, 6, 6, 5, 6, 6, 4, 5, 5, 6, 5, 6, 4, 4, 5,
     5, 5, 8, 6, 6, 6, 7, 7, 6, 6, 5, 6, 6, 6, 5, 6, 4, 4, 6, 6, 7, 7, 4, 5, 6, 6,
     6, 7, 4, 6, 6, 6, 6, 6, 7, 7, 5, 5, 6, 6, 5, 6, 7, 5, 5, 7, 5, 7, 5, 5, 6, 6,
     5, 4, 6, 5, 5, 8, 6, 8, 5, 5, 7, 5, 5, 8, 5, 5, 6, 6, 6, 9, 5, 6, 4, 4, 4, 5,
     6, 4, 9, 6, 6, 6, 6, 7, 6, 6, 5, 7, 7, 7, 6, 6, 6, 4, 5, 4, 6, 6, 4, 7, 5, 7,
     6, 5, 6, 4, 5, 5, 4, 5, 6, 5, 4, 6, 4, 6, 6, 6, 6, 8, 5, 6 >>

French_3 ==
  << 5, 7, 4, 6, 7, 4, 6, 6, 6, 5, 4, 4, 4, 5, 5, 7, 4, 7, 5, 6, 5, 6, 8, 8, 7, 5,
     7, 6, 8, 6, 7, 6, 5, 6, 5, 6, 5, 6, 7, 4, 7, 7, 5, 7, 6, 4, 7, 6, 5, 5, 4, 5,
     7, 5, 5, 7, 5, 5, 5, 5, 4, 7, 4, 4, 6, 4, 9, 6, 6, 6, 5, 6, 8, 4, 5, 4, 6, 7,
     9, 6, 6, 5, 5, 4, 6, 7, 5, 6, 6, 4, 9, 9, 5, 6, 8, 5, 5, 4, 7, 8, 8, 8, 5, 6,
     6, 7, 4, 5, 5, 7, 8, 6, 6, 6, 5, 6, 6, 6, 6, 6, 7, 5, 4, 8, 7, 5, 4, 7, 5, 4,
     4, 5, 6, 6, 5, 4, 7, 5, 6, 9, 4, 9, 7, 7, 6, 8, 8, 6, 6, 6 >>

French_4 ==
  << 8, 7, 6, 6, 8, 5, 6, 8, 6, 7, 5, 5, 7, 6, 5, 8, 7, 7, 8, 6, 8, 5, 10, 5, 7, 6,
     8, 6, 6, 6, 5, 5, 7, 7, 5, 8, 6, 7, 6, 4, 7, 5, 9, 7, 8, 6, 5, 7, 6, 4, 6, 4,
     5, 4, 7, 7, 5, 5, 6, 7, 6, 5, 5, 4, 6, 6, 5, 7, 5, 6, 5, 5, 6, 7, 6, 6, 5, 6,
     4, 5, 6, 5, 5, 6, 4, 6, 5, 7, 5, 5, 5, 4, 6, 5, 6, 4, 6, 5, 6, 5, 4, 4, 6, 5,
     4, 5, 4, 5, 6, 5, 8, 6, 5, 5, 5, 6, 5, 4, 5, 5, 6, 5, 4, 5, 5, 5, 7, 7, 6, 6,
     5, 5, 7, 5, 5, 4, 5, 5, 6, 7, 5, 5, 6, 5, 6, 4, 4, 5, 5, 5 >>

French_5 ==
  << 4, 6, 5, 5, 6, 6, 5, 5, 5, 5, 5, 5, 4, 6, 6, 5, 6, 6, 5, 6, 5, 5, 7, 5, 6, 6,
     5, 4, 6, 5, 6, 6, 5, 6, 5, 4, 5, 6, 8, 7, 4, 7, 4, 6, 6, 4, 8, 7, 6, 5, 7, 5,
     4, 5, 5, 5, 6, 6, 6, 5, 6, 5, 6, 6, 4, 5, 5, 5, 5, 4, 8, 5, 6, 5, 7, 5, 5, 7,
     7, 5, 6, 6, 5, 4, 6, 6, 6, 6, 6, 5, 5, 7, 8, 5, 7, 8, 7, 10, 9, 7, 5, 8, 6, 6,
     4, 8, 7, 9, 6, 7, 8, 7, 4, 4, 5, 4, 4, 5, 6, 5, 7, 6, 5, 8, 5, 5, 5, 5, 4, 7,
     4, 6, 7, 4, 4, 7, 4, 6, 6, 4, 5, 5, 5, 4, 6, 5, 5, 7, 4, 4 >>

French_6 ==
  << 5, 5, 5, 6, 5, 6, 4, 4, 6, 5, 5, 4, 7, 5, 5, 5, 5, 9, 9, 6, 6, 4, 5, 6, 5, 5,
     4, 4, 10, 5, 7, 6, 6, 5, 6, 6, 4, 4, 6, 5, 5, 4, 5, 5, 4, 6, 4, 5, 4, 5, 5, 4,
     5, 5, 5, 5, 6, 5, 4, 5, 5, 4, 6, 5, 5, 4, 7, 6, 5, 10, 5, 6, 4, 6, 6, 6, 7, 5,
     6, 6, 6, 6, 7, 6, 5, 5, 7, 7, 4, 6, 5, 5, 7, 8, 5, 6, 7, 5, 8, 6, 4, 5, 5, 6,
     6, 6, 7, 5, 5, 5, 4, 4, 6, 5, 6, 5, 5, 5, 6, 8, 6, 6, 6, 5, 4, 5, 6, 4, 6, 5,
     4, 6, 5, 5, 8, 6, 6, 5, 7, 6, 6, 5, 7, 5, 5, 5, 6, 5, 6, 6 >>

French_7 ==
  << 6, 9, 5, 4, 6, 5, 6, 5, 8, 5, 5, 4, 7, 5, 5, 5, 4, 9, 6, 6, 6, 5, 6, 6, 5, 5,
     8, 6, 5, 4, 7, 4, 6, 5, 5, 5, 4, 6, 5, 4, 5, 4, 6, 6, 6, 4, 5, 7, 6, 5, 5, 6,
     7, 4, 7, 6, 6, 5, 5, 6, 5, 4, 5, 5, 5, 5, 7, 6, 8, 7, 4, 8, 7, 4, 5, 5, 6, 7,
     8, 6, 5, 6, 5, 5, 8, 7, 5, 4, 5, 6, 7, 4, 6, 6, 9, 5, 7, 6, 5, 7, 6, 6, 5, 6,
     5, 4, 7, 5, 6, 5, 7, 5, 4, 5, 5, 6, 6, 5, 5, 5, 4, 6, 4, 5, 4, 6, 9, 7, 8, 5,
     7, 4, 6, 6, 4, 5, 7, 6, 5, 6, 6, 8, 6, 6, 5, 6, 5, 5, 6, 5 >>

French_8 ==
  << 5, 5, 4, 4, 6, 8, 6, 6, 7, 6, 6, 5, 6, 5, 5, 9, 8, 5, 5, 9, 5, 6, 4, 5, 5, 6,
     5, 4, 6, 4, 4, 6, 6, 6, 6, 6, 6, 5, 4, 6, 6, 4, 5, 5, 5, 5, 5, 6, 5, 6, 4, 6,
     4, 5, 7, 6, 5, 7, 4, 5, 5, 4, 4, 5, 6, 5, 4, 5, 5, 6, 8, 6, 6, 6, 5, 7, 6, 6,
     4, 7, 5, 8, 8, 5, 6, 5, 5, 6, 6, 6, 5, 4, 7, 6, 7, 7, 7, 7, 7, 6, 5, 7, 6, 6,
     6, 4, 8, 8, 7, 5, 6, 8, 9, 6, 5, 7, 5, 6, 4, 6, 6, 4, 5, 4, 5, 5, 6, 5, 8, 5,
     6, 4, 8, 5, 6, 6, 6, 7, 4, 6, 7, 4, 8, 6, 6, 8, 5, 5, 6, 4 >>

French_9 ==
  << 5, 7, 4, 4, 6, 8, 7, 5, 5, 4, 6, 6, 7, 8, 6, 5, 6, 8, 5, 5, 6, 6, 5, 5, 5, 6,
     8, 9, 6, 7, 9, 7, 6, 9, 4, 7, 9, 8, 7, 8, 9, 8, 6, 8, 7, 6, 9, 6, 6, 8, 7, 9,
     5, 5, 7, 8, 6, 7, 10, 5, 6, 7, 7, 6, 9, 7, 6, 5, 5, 7, 5, 6, 8, 4, 6, 6, 4, 7,
     6, 6, 4, 4, 5, 7, 6, 5, 6, 6, 5, 6, 5, 7, 6, 5, 4, 5, 8, 6, 4, 5, 6, 5, 5, 5,
     5, 4, 6, 4, 5, 5, 5, 6, 5, 4, 6, 5, 5, 5, 5, 4, 5, 6, 6, 6, 5, 5, 5, 5, 5, 5,
     7, 7, 5, 8, 10, 5, 4, 5, 5, 5, 6, 6, 6, 7, 5, 5, 6, 6, 5, 8 >>

French_10 ==
  << 4, 5, 5, 5, 7, 7, 5, 5, 7, 6, 4, 5, 6, 6, 7, 5, 9, 5, 4, 5, 6, 7, 4, 6, 5, 5,
     5, 5, 5, 4, 9, 5, 4, 5, 6, 5, 6, 7, 4, 8, 4, 7, 6, 6, 6, 4, 7, 6, 5, 8, 7, 7,
     6, 5, 5, 7, 5, 7, 8, 9, 8, 9, 5, 5, 10, 8, 7, 6, 9, 5, 5, 9, 5, 4, 6, 5, 4, 5,
     5, 5, 5, 5, 4, 7, 4, 5, 6, 5, 7, 8, 4, 10, 7, 10, 5, 5, 5, 5, 6, 5, 4, 4, 6, 5,
     5, 5, 6, 5, 5, 4, 5, 5, 4, 5, 5, 5, 5, 7, 4, 7, 5, 4, 9, 6, 6, 5, 6, 4, 5, 6,
     5, 4, 5, 4, 5, 5, 4, 4, 5, 5, 5, 5, 5, 4, 5, 6, 7, 6, 4, 5 >>

French_11 ==
  << 5, 5, 5, 6, 5, 7, 8, 4, 7, 4, 4, 5, 5, 5, 10, 7, 8, 6, 5, 5, 4, 5, 6, 4, 5, 7,
     5, 4, 7, 6, 4, 6, 4, 4, 5, 5, 4, 5, 4, 5, 6, 4, 7, 5, 4, 5, 4, 6, 5, 5, 5, 5,
     7, 6, 6, 6, 5, 7, 6, 5, 4, 6, 5, 7, 4, 6, 5, 4, 5, 5, 7, 7, 7, 5, 5, 4, 5, 4,
     7, 4, 5, 5, 5, 5, 5, 5, 7, 5, 5, 6, 5, 6, 6, 8, 7, 6, 5, 5, 5, 5, 5, 5, 4, 6,
     7, 8, 6, 5, 4, 6, 5, 5, 7, 4, 6, 5, 4, 4, 5, 4, 4, 4, 5, 4, 4, 4 >>

French ==
  [english_language_name |-> "French", online |-> TRUE,
   prefix_length |-> 4, words |-> French_1 \o French_2 \o French_3 \o French_4 \o French_5 \o French_6
               \o French_7 \o French_8 \o French_9 \o French_10 \o
               French_11]

Italian_1 ==
  << 8, 8, 6, 7, 8, 8, 7, 7, 7, 8, 5, 5, 8, 8, 8, 7, 5, 6, 8, 7, 7, 8, 8, 6, 5, 8,
     6, 7, 8, 8, 8, 8, 8, 7, 8, 8, 8, 4, 5, 7, 5, 7, 6, 7, 6, 4, 4, 8, 6, 8, 7, 8,
     7, 8, 7, 8, 6, 4, 8, 5, 8, 6, 8, 8, 8, 7, 5, 8, 8, 7, 8, 5, 8, 8, 7, 8, 6, 8,
     6, 4, 8, 6, 8, 8, 6, 6, 8, 8, 8, 5, 8, 4, 8, 8, 7, 8, 6, 8, 7, 7, 8, 8, 8, 8,
     6, 6, 5, 8, 8, 7, 8, 8, 4, 7, 7, 4, 6, 4, 7, 5, 8, 7, 8, 4, 8, 7, 8, 5, 8, 8,
     8, 7, 7, 7, 4, 8, 7, 8, 5, 8, 7, 6, 6, 4, 8, 6, 4, 7, 6, 8 >>

Italian_2 ==
  << 7, 4, 7, 8, 8, 5, 8, 5, 6, 8, 6, 8, 7, 6, 7, 7, 8, 5, 7, 5, 8, 8, 5, 7, 6, 7,
     7, 7, 7, 8, 5, 6, 5, 7, 8, 7, 8, 8, 7, 8, 8, 7, 7, 8, 4, 7, 8, 6, 8, 6, 6, 7,
     6, 4, 6, 8, 8, 7, 8, 8, 8, 7, 8, 8, 5, 8, 7, 8, 5, 8, 8, 5, 7, 7, 8, 8, 5, 7,
     8, 7, 7, 6, 5, 8, 8, 8, 8, 8, 8, 8, 7, 8, 8, 8, 7, 6, 8, 6, 6, 5, 8, 4, 5, 7,
     7, 7, 7, 8, 6, 5, 8, 6, 8, 5, 8, 6, 7, 7, 8, 8, 7, 8, 6, 6, 8, 7, 8, 8, 7, 4,
     7, 7, 5, 7, 7, 4, 7, 7, 6, 4, 7, 5, 7, 7, 7, 8, 8, 7, 8, 6 >>

Italian_3 ==
  << 8, 5, 4, 7, 7, 8, 6, 8, 8, 8, 6, 8, 7, 5, 8, 7, 7, 8, 4, 8, 8, 7, 6, 8, 8, 7,
     7, 8, 8, 8, 8, 7, 8, 6, 8, 5, 7, 6, 8, 8, 8, 8, 4, 4, 6, 8, 7, 7, 5, 5, 5, 8,
     8, 6, 6, 7, 8, 7, 7, 7, 8, 8, 8, 7, 7, 6, 8, 7, 5, 7, 5, 7, 8, 8, 6, 8, 8, 7,
     5, 7, 7, 8, 7, 8, 8, 8, 8, 6, 8, 8, 8, 8, 8, 8, 5, 8, 7, 5, 7, 7, 5, 8, 7, 6,
     5, 8, 5, 8, 5, 4, 7, 6, 7, 5, 6, 7, 8, 6, 7, 5, 8, 7, 8, 5, 8, 7, 8, 8, 7, 8,
     6, 7, 5, 5, 6, 6, 4, 5, 7, 7, 7, 4, 8, 8, 7, 8, 7, 8, 8, 7 >>

Italian_4 ==
  << 7, 6, 8, 8, 8, 8, 7, 8, 7, 8, 8, 8, 7, 8, 6, 7, 8, 6, 8, 8, 7, 8, 7, 7, 8, 4,
     8, 6, 7, 8, 7, 8, 8, 8, 4, 5, 4, 8, 8, 8, 7, 8, 6, 8, 8, 8, 8, 5, 6, 7, 5, 8,
     7, 6, 8, 7, 6, 6, 8, 6, 6, 8, 7, 8, 7, 8, 5, 8, 7, 8, 7, 7, 6, 8, 8, 8, 8, 8,
     6, 8, 7, 6, 8, 8, 8, 8, 8, 8, 7, 7, 6, 6, 7, 6, 8, 7, 8, 5, 8, 4, 5, 4, 7, 6,
     8, 8, 5, 8, 8, 7, 7, 8, 5, 7, 8, 6, 6, 7, 8, 6, 5, 8, 6, 8, 8, 6, 8, 7, 8, 8,
     8, 7, 7, 5, 4, 8, 6, 5, 8, 8, 8, 4, 4, 8, 8, 5, 6, 6, 7, 6 >>

Italian_5 ==
  << 8, 7, 8, 7, 7, 5, 5, 6, 6, 4, 6, 6, 5, 4, 6, 6, 7, 7, 8, 8, 7, 8, 7, 6, 5, 8,
     6, 7, 8, 7, 6, 7, 8, 5, 7, 8, 8, 6, 8, 6, 8, 6, 8, 7, 7, 8, 7, 8, 7, 7, 4, 7,
     7, 7, 6, 8, 7, 8, 8, 8, 7, 6, 7, 6, 8, 8, 7, 8, 6, 8, 8, 6, 6, 6, 7, 7, 6, 8,
     5, 8, 7, 5, 6, 8, 4, 6, 8, 8, 7, 5, 6, 8, 8, 7, 5, 6, 8, 6, 7, 8, 8, 7, 8, 8,
     7, 7, 8, 8, 8, 8, 6, 8, 8, 7, 5, 8, 6, 7, 7, 8, 7, 6, 5, 6, 8, 6, 8, 6, 6, 5,
     8, 7, 7, 7, 8, 8, 8, 6, 8, 7, 8, 8, 8, 6, 8, 5, 7, 8, 4, 7 >>

Italian_6 ==
  << 6, 5, 5, 4, 8, 5, 6, 7, 8, 6, 6, 7, 8, 8, 8, 8, 8, 7, 7, 7, 7, 8, 8, 8, 8, 6,
     8, 6, 7, 8, 7, 8, 8, 8, 7, 8, 8, 8, 7, 8, 8, 8, 8, 7, 7, 8, 8, 7, 6, 8, 6, 8,
     7, 6, 8, 8, 5, 8, 8, 7, 8, 8, 4, 6, 8, 5, 4, 7, 7, 8, 8, 6, 5, 7, 8, 6, 5, 6,
     7, 8, 7, 6, 7, 8, 5, 5, 7, 7, 6, 8, 7, 8, 8, 5, 7, 7, 6, 5, 6, 7, 4, 7, 8, 5,
     6, 7, 8, 8, 6, 4, 8, 6, 5, 7, 6, 6, 8, 8, 4, 8, 8, 8, 4, 8, 7, 8, 8, 6, 8, 8,
     8, 8, 5, 5, 4, 7, 8, 8, 7, 8, 5, 8, 7, 8, 8, 7, 8, 6, 6, 8 >>

Italian_7 ==
  << 6, 8, 5, 7, 8, 8, 4, 8, 8, 5, 6, 7, 5, 6, 8, 8, 8, 6, 8, 8, 7, 7, 6, 4, 6, 4,
     8, 6, 8, 5, 7, 6, 8, 8, 8, 6, 8, 7, 7, 5, 6, 8, 4, 6, 4, 7, 8, 7, 5, 6, 7, 7,
     6, 6, 6, 4, 8, 6, 7, 6, 4, 5, 7, 7, 8, 4, 8, 8, 4, 6, 8, 8, 4, 5, 8, 6, 7, 4,
     6, 4, 7, 7, 7, 6, 8, 6, 7, 5, 7, 8, 7, 7, 4, 7, 4, 5, 8, 8, 8, 6, 5, 5, 8, 8,
     7, 6, 6, 8, 6, 8, 7, 8, 7, 8, 8, 4, 8, 8, 6, 8, 8, 8, 8, 6, 7, 5, 5, 4, 8, 7,
     6, 6, 8, 7, 8, 8, 8, 7, 6, 8, 8, 4, 8, 8, 8, 7, 7, 7, 8, 7 >>

Italian_8 ==
  << 7, 5, 6, 7, 8, 8, 5, 8, 7, 6, 8, 6, 4, 8, 8, 8, 7, 8, 8, 7, 8, 8, 5, 8, 7, 6,
     5, 4, 7, 8, 5, 7, 7, 7, 6, 6, 7, 5, 7, 6, 7, 8, 8, 8, 6, 8, 7, 6, 8, 6, 4, 6,
     8, 7, 8, 5, 6, 7, 5, 8, 7, 6, 6, 8, 7, 8, 5, 7, 8, 8, 8, 5, 6, 5, 5, 8, 8, 7,
     8, 6, 8, 6, 5, 8, 8, 6, 8, 8, 7, 6, 8, 7, 8, 8, 8, 7, 8, 8, 6, 8, 7, 8, 8, 5,
     8, 8, 6, 8, 6, 8, 7, 7, 6, 8, 8, 6, 7, 8, 6, 8, 6, 7, 7, 7, 8, 4, 4, 8, 6, 8,
     8, 8, 7, 7, 8, 8, 8, 8, 7, 6, 8, 8, 8, 6, 6, 8, 8, 6, 7, 7 >>

Italian_9 ==
  << 6, 5, 4, 8, 7, 8, 8, 8, 7, 8, 7, 8, 7, 7, 8, 8, 8, 8, 8, 8, 7, 8, 8, 8, 8, 6,
     8, 8, 8, 8, 8, 7, 4, 8, 8, 5, 7, 8, 7, 8, 8, 4, 8, 7, 4, 5, 5, 7, 5, 8, 6, 7,
     8, 6, 5, 8, 6, 5, 6, 4, 6, 7, 5, 8, 6, 6, 8, 6, 8, 8, 7, 8, 6, 8, 6, 8, 8, 5,
     5, 7, 8, 6, 7, 6, 5, 8, 8, 7, 7, 7, 7, 8, 7, 8, 8, 6, 5, 8, 6, 8, 8, 8, 8, 6,
     7, 8, 6, 8, 6, 5, 6, 7, 7, 8, 4, 6, 4, 8, 8, 8, 8, 6, 8, 8, 5, 4, 7, 7, 5, 7,
     8, 7, 8, 6, 5, 6, 8, 8, 8, 8, 8, 7, 8, 8, 8, 8, 6, 7, 7, 4 >>

Italian_10 ==
  << 6, 8, 8, 8, 5, 8, 8, 8, 8, 7, 5, 4, 8, 4, 8, 7, 5, 8, 7, 7, 8, 7, 8, 5, 8, 6,
     7, 8, 6, 8, 7, 8, 8, 8, 8, 8, 8, 8, 8, 8, 8, 6, 8, 8, 8, 6, 8, 8, 7, 7, 8, 6,
     8, 8, 6, 8, 8, 7, 6, 8, 6, 8, 7, 6, 5, 6, 6, 6, 8, 8, 8, 5, 8, 6, 8, 6, 5, 8,
     8, 8, 8, 6, 7, 8, 6, 8, 7, 7, 4, 8, 6, 6, 7, 8, 7, 7, 8, 8, 6, 5, 6, 7, 6, 8,
     4, 6, 5, 8, 7, 8, 7, 8, 7, 7, 8, 7, 4, 6, 7, 5, 8, 6, 5, 8, 6, 5, 6, 6, 6, 6,
     7, 8, 8, 6, 8, 8, 8, 8, 8, 8, 8, 8, 8, 8, 8, 7, 6, 5, 8, 8 >>

Italian_11 ==
  << 8, 6, 8, 5, 7, 6, 4, 8, 7, 7, 5, 7, 4, 8, 6, 7, 7, 7, 5, 4, 8, 5, 6, 8, 8, 6,
     8, 4, 7, 6, 6, 6, 6, 8, 7, 5, 6, 8, 5, 6, 8, 7, 7, 8, 5, 6, 8, 5, 8, 7, 6, 8,
     6, 7, 4, 6, 8, 7, 7, 8, 6, 5, 7, 5, 7, 7, 8, 7, 4, 7, 7, 8, 7, 7, 7, 7, 8, 5,
     5, 8, 7, 7, 7, 8, 7, 8, 7, 5, 7, 7, 6, 7, 8, 6, 4, 7, 7, 8, 6, 7, 6, 6, 5, 5,
     6, 7, 8, 7, 6, 7, 7, 8, 7, 8, 5, 7, 7, 7, 7, 4, 7, 7, 7, 5, 6, 8 >>

Italian ==
  [english_language_name |-> "Italian", online |-> TRUE,
   prefix_length |-> 4, words |-> Italian_1 \o Italian_2 \o Italian_3 \o Italian_4 \o Italian_5 \o
               Italian_6 \o Italian_7 \o Italian_8 \o Italian_9 \o
               Italian_10 \o Italian_11]

Japanese ==
  [english_language_name |-> "Japanese", online |-> FALSE,
   prefix_length |-> 3, words |-> Uniform(3)]

Lobjan_1 ==
  << 5, 5, 5, 5, 5, 5, 5, 5, 5, 5, 5, 5, 5, 5, 5, 5, 5, 5, 5, 5, 5, 5, 5, 5, 5, 5,
     5, 5, 5, 5, 5, 5, 5, 5, 5, 5, 5, 5, 5, 5, 5, 5, 5, 5, 5, 5, 5, 5, 5, 5, 5, 5,
     5, 5, 5, 5, 5, 5, 5, 5, 5, 5, 5, 5, 5, 5, 5, 5, 5, 5, 5, 5, 5, 5, 5, 5, 5, 5,
     5, 5, 5, 5, 5, 5, 5, 5, 5, 5, 5, 5, 5, 5, 5, 5, 5, 5, 5, 5, 5, 5, 5, 5, 5, 5,
     5, 5, 5, 5, 5, 5, 5, 5, 5, 5, 5, 5, 5, 5, 5, 5, 5, 5, 5, 5, 5, 5, 5, 5, 5, 5,
     5, 5, 5, 5, 5, 5, 5, 5, 5, 5, 5, 5, 5, 5, 5, 5, 5, 5, 5, 5 >>

Lobjan_2 ==
  << 5, 5, 5, 5, 5, 5, 5, 5, 5, 5, 5, 5, 5, 5, 5, 5, 5, 5, 5, 5, 5, 5, 5, 5, 5, 5,
     5, 5, 5, 5, 5, 5, 5, 5, 5, 5, 5, 5, 5, 5, 5, 5, 5, 5, 5, 5, 5, 5, 5, 5, 5, 5,
     5, 5, 5, 5, 5, 5, 5, 5, 5, 5, 5, 5, 5, 5, 5, 5, 5, 5, 5, 5, 5, 5, 5, 5, 5, 5,
     5, 5, 5, 5, 5, 5, 5, 5, 5, 5, 5, 5, 5, 5, 5, 5, 5, 5, 5, 5, 5, 5, 5, 5, 5, 5,
     5, 5, 5, 5, 5, 5, 5, 5, 5, 5, 5, 5, 5, 5, 5, 5, 5, 5, 5, 5, 5, 5, 5, 5, 5, 5,
     5, 5, 5, 5, 5, 5, 5, 5, 5, 5, 5, 5, 5, 5, 5, 5, 5, 5, 5, 5 >>

Lobjan_3 ==
  << 5, 5, 5, 5, 5, 5, 5, 5, 5, 5, 5, 5, 5, 5, 5, 5, 5, 5, 5, 5, 5, 5, 5, 5, 5, 5,
     5, 5, 5, 5, 5, 5, 5, 5, 5, 5, 5, 5, 5, 5, 5, 5, 5, 5, 5, 5, 5, 5, 5, 5, 5, 5,
     5, 5, 5, 5, 5, 5, 5, 5, 5, 5, 5, 5, 5, 5, 5, 5, 5, 5, 5, 5, 5, 5, 5, 5, 5, 5,
     5, 5, 5, 5, 5, 5, 5, 5, 5, 5, 5, 5, 5, 5, 5, 5, 5, 5, 5, 5, 5, 5, 5, 5, 5, 5,
     5, 5, 5, 5, 5, 5, 5, 5, 5, 5, 5, 5, 5, 5, 5, 5, 5, 5, 5, 5, 5, 5, 5, 5, 5, 5,
     5, 5, 5, 5, 5, 5, 5, 5, 5, 5, 5, 5, 5, 5, 5, 5, 5, 5, 5, 5 >>

Lobjan_4 ==
  << 5, 5, 5, 5, 5, 5, 5, 5, 5, 5, 5, 5, 5, 5, 5, 5, 5, 5, 5, 5, 5, 5, 5, 5, 5, 5,
     5, 5, 5, 5, 5, 5, 5, 5, 5, 5, 5, 5, 5, 5, 5, 5, 5, 5, 5, 5, 5, 5, 5, 5, 5, 5,
     5, 5, 5, 5, 5, 5, 5, 5, 5, 5, 5, 5, 5, 5, 5, 5, 5, 5, 5, 5, 5, 5, 5, 5, 5, 5,
     5, 5, 5, 5, 5, 5, 5, 5, 5, 5, 5, 5, 5, 5, 5, 5, 5, 5, 5, 5, 5, 5, 5, 5, 5, 5,
     5, 5, 5, 5, 5, 5, 5, 5, 5, 5, 5, 5, 5, 5, 5, 5, 5, 5, 5, 5, 5, 5, 5, 5, 5, 5,
     5, 5, 5, 5, 5, 5, 5, 5, 5, 5, 5, 5, 5, 5, 5, 5, 5, 5, 5, 5 >>

Lobjan_5 ==
  << 5, 5, 5, 5, 5, 5, 5, 5, 5, 5, 5, 5, 5, 5, 5, 5, 5, 5, 5, 5, 5, 5, 5, 5, 5, 5,
     5, 5, 5, 5, 5, 5, 5, 5, 5, 5, 5, 5, 5, 5, 5, 5, 5, 5, 5, 5, 5, 5, 5, 5, 5, 5,
     5, 5, 5, 5, 5, 5, 5, 5, 5, 5, 5, 5, 5, 5, 5, 5, 5, 5, 5, 5, 5, 5, 5, 5, 5, 5,
     5, 5, 5, 5, 5, 5, 5, 5, 5, 5, 5, 5, 5, 5, 5, 5, 5, 5, 5, 5, 5, 5, 5, 5, 5, 5,
     5, 5, 5, 5, 5, 5, 5, 5, 5, 5, 5, 5, 5, 5, 5, 5, 5, 5, 5, 5, 5, 5, 5, 5, 5, 5,
     5, 5, 5, 5, 5, 5, 5, 5, 5, 5, 5, 5, 5, 5, 5, 5, 5, 5, 5, 5 >>

Lobjan_6 ==
  << 5, 5, 5, 5, 5, 5, 5, 5, 5, 5, 5, 5, 5, 5, 5, 5, 5, 5, 5, 5, 5, 5, 5, 5, 5, 5,
     5, 5, 5, 5, 5, 5, 5, 5, 5, 5, 5, 5, 5, 5, 5, 5, 5, 5, 5, 5, 5, 5, 5, 5, 5, 5,
     5, 5, 5, 5, 5, 5, 5, 5, 5, 5, 5, 5, 5, 5, 5, 5, 5, 5, 5, 5, 5, 5, 5, 5, 5, 5,
     5, 5, 5, 5, 5, 5, 5, 5, 5, 5, 5, 5, 5, 5, 5, 5, 5, 5, 5, 5, 5, 5, 5, 5, 5, 5,
     5, 5, 5, 5, 5, 5, 5, 5, 5, 5, 5, 5, 5, 5, 5, 5, 5, 5, 5, 5, 5, 5, 5, 5, 5, 5,
     5, 5, 5, 5, 5, 5, 5, 5, 5, 5, 5, 5, 5, 5, 5, 5, 5, 5, 5, 5 >>

Lobjan_7 ==
  << 5, 5, 5, 5, 5, 5, 5, 5, 5, 5, 5, 5, 5, 5, 5, 5, 5, 5, 5, 5, 5, 5, 5, 5, 5, 5,
     5, 5, 5, 5, 5, 5, 5, 5, 5, 5, 5, 5, 5, 5, 5, 5, 5, 5, 5, 5, 5, 5, 5, 5, 5, 5,
     5, 5, 5, 5, 5, 5, 5, 5, 5, 5, 5, 5, 5, 5, 5, 5, 5, 5, 5, 5, 5, 5, 5, 5, 5, 5,
     5, 5, 5, 5, 5, 5, 5, 5, 5, 5, 5, 5, 5, 5, 5, 5, 5, 5, 5, 5, 5, 5, 5, 5, 5, 5,
     5, 5, 5, 5, 5, 5, 5, 5, 5, 5, 5, 5, 5, 5, 5, 5, 5, 5, 5, 5, 5, 5, 5, 5, 5, 5,
     5, 5, 5, 5, 5, 5, 5, 5, 5, 5, 5, 5, 5, 5, 5, 5, 5, 5, 5, 5 >>

Lobjan_8 ==
  << 5, 5, 5, 5, 5, 5, 5, 5, 5, 5, 5, 5, 5, 5, 5, 5, 5, 5, 5, 5, 5, 5, 5, 5, 5, 5,
     5, 5, 5, 5, 5, 5, 5, 5, 5, 5, 5, 5, 5, 5, 5, 5, 5, 5, 5, 5, 5, 5, 5, 5, 5, 5,
     5, 5, 5, 5, 5, 5, 5, 5, 5, 5, 5, 5, 5, 5, 5, 5, 5, 5, 5, 5, 5, 5, 5, 5, 5, 5,
     5, 5, 5, 5, 5, 5, 5, 5, 5, 5, 5, 5, 5, 5, 5, 5, 5, 5, 5, 5, 5, 5, 5, 5, 5, 5,
     5, 5, 5, 5, 5, 5, 5, 5, 5, 5, 5, 5, 5, 5, 5, 5, 5, 5, 5, 5, 5, 5, 5, 5, 5, 5,
     5, 5, 5, 5, 5, 5, 5, 5, 5, 5, 5, 5, 5, 5, 5, 5, 5, 5, 5, 5 >>

Lobjan_9 ==
  << 5, 5, 5, 5, 5, 5, 5, 5, 5, 5, 5, 5, 5, 5, 5, 5, 5, 5, 5, 5, 5, 5, 5, 5, 5, 5,
     5, 5, 5, 5, 5, 5, 5, 5, 5, 5, 5, 5, 5, 5, 5, 5, 5, 5, 5, 5, 5, 5, 5, 5, 5, 5,
     5, 5, 5, 5, 5, 5, 5, 5, 5, 5, 5, 5, 5, 5, 5, 5, 5, 5, 5, 5, 5, 5, 5, 5, 5, 5,
     5, 5, 5, 5, 5, 5, 5, 5, 5, 5, 5, 5, 5, 5, 5, 5, 5, 5, 5, 5, 5, 5, 5, 5, 5, 5,
     5, 5, 5, 5, 5, 5, 5, 5, 5, 5, 5, 5, 5, 5, 5, 5, 5, 5, 5, 5, 5, 5, 5, 5, 5, 5,
     5, 5, 5, 5, 5, 5, 5, 5, 5, 5, 5, 5, 5, 5, 5, 5, 5, 5, 5, 5 >>

Lobjan_10 ==
  << 5, 5, 5, 5, 5, 5, 5, 5, 5, 5, 5, 5, 5, 5, 5, 5, 5, 5, 5, 5, 5, 5, 5, 5, 5, 5,
     5, 5, 5, 5, 5, 5, 5, 5, 5, 5, 5, 5, 5, 5, 5, 5, 5, 5, 5, 5, 5, 5, 5, 5, 5, 5,
     5, 5, 5, 5, 5, 5, 5, 5, 5, 5, 5, 5, 5, 5, 5, 5, 5, 5, 5, 5, 5, 5, 5, 5, 5, 5,
     5, 5, 5, 5, 5, 5, 5, 5, 5, 5, 5, 5, 5, 5, 5, 5, 5, 5, 5, 5, 5, 5, 5, 5, 5, 5,
     5, 5, 5, 5, 5, 5, 5, 5, 5, 5, 5, 5, 5, 5, 5, 5, 5, 5, 5, 5, 5, 5, 5, 5, 5, 5,
     5, 5, 5, 5, 5, 5, 5, 5, 5, 5, 5, 5, 5, 5, 5, 5, 5, 5, 5, 5 >>

Lobjan_11 ==
  << 5, 5, 5, 5, 5, 5, 5, 5, 5, 5, 5, 5, 5, 5, 5, 5, 5, 5, 5, 5, 5, 5, 6, 6, 6, 6,
     6, 6, 6, 8, 12, 6, 6, 7, 13, 6, 6, 7, 7, 6, 6, 6, 6, 6, 6, 9, 7, 7, 8, 9, 6, 6,
     6, 6, 6, 6, 6, 7, 7, 6, 6, 7, 6, 6, 6, 9, 6, 6, 7, 7, 6, 6, 6, 7, 6, 6, 6, 6,
     7, 7, 7, 6, 6, 6, 7, 6, 6, 8, 7, 6, 9, 7, 9, 10, 6, 7, 6, 8, 6, 8, 6, 6, 6, 7,
     8, 6, 6, 6, 6, 6, 6, 6, 6, 6, 6, 7, 6, 9, 6, 6, 6, 7, 7, 10, 6, 7 >>

Lobjan ==
  [english_language_name |-> "Lobjan", online |-> TRUE,
   prefix_length |-> 4, words |-> Lobjan_1 \o Lobjan_2 \o Lobjan_3 \o Lobjan_4 \o Lobjan_5 \o Lobjan_6
               \o Lobjan_7 \o Lobjan_8 \o Lobjan_9 \o Lobjan_10 \o
               Lobjan_11]

Portuguese_1 ==
  << 7, 9, 5, 9, 6, 7, 7, 7, 10, 7, 6, 9, 11, 7, 12, 7, 4, 9, 9, 12, 8, 9, 5, 8, 7,
     9, 9, 7, 8, 9, 8, 7, 7, 8, 8, 8, 5, 6, 9, 8, 6, 8, 7, 5, 9, 7, 6, 4, 4, 6, 7,
     8, 8, 6, 6, 8, 7, 7, 9, 9, 6, 7, 6, 10, 10, 7, 10, 9, 6, 7, 6, 9, 11, 9, 8, 9,
     8, 7, 9, 7, 5, 6, 11, 4, 6, 7, 7, 7, 7, 5, 5, 9, 5, 9, 10, 9, 6, 4, 6, 6, 6, 7,
     5, 6, 5, 6, 10, 8, 10, 10, 6, 7, 7, 7, 9, 7, 7, 7, 9, 8, 9, 8, 6, 8, 5, 9, 11,
     10, 5, 7, 7, 7, 7, 4, 7, 6, 6, 6, 6, 9, 8, 6, 10, 11, 7, 5, 7, 15, 9, 8 >>

Portuguese_2 ==
  << 7, 7, 11, 8, 5, 5, 7, 7, 9, 6, 7, 6, 6, 12, 5, 7, 7, 12, 8, 7, 5, 7, 6, 6, 5,
     8, 6, 6, 7, 7, 6, 9, 12, 6, 8, 7, 9, 7, 8, 7, 13, 7, 8, 7, 6, 9, 7, 7, 8, 10,
     7, 8, 6, 7, 6, 6, 5, 8, 5, 6, 11, 10, 9, 7, 6, 8, 7, 9, 6, 6, 5, 9, 8, 8, 4, 7,
     6, 6, 5, 5, 10, 10, 5, 7, 6, 8, 7, 7, 6, 8, 7, 6, 10, 9, 6, 7, 10, 9, 6, 8, 8,
     6, 5, 5, 4, 5, 7, 8, 5, 7, 7, 7, 11, 6, 8, 10, 6, 7, 5, 4, 8, 5, 8, 9, 5, 7, 8,
     7, 9, 5, 8, 7, 7, 6, 6, 8, 9, 8, 5, 7, 9, 10, 13, 10, 12, 8, 7, 5, 10, 7 >>

Portuguese_3 ==
  << 5, 10, 7, 6, 5, 7, 6, 4, 6, 6, 6, 4, 8, 10, 6, 5, 7, 7, 8, 6, 6, 5, 13, 8, 10,
     7, 8, 7, 10, 6, 6, 4, 10, 7, 7, 7, 8, 6, 8, 7, 9, 8, 5, 7, 10, 8, 12, 6, 8, 7,
     8, 10, 8, 8, 6, 9, 7, 8, 8, 10, 7, 11, 5, 9, 9, 6, 8, 7, 4, 5, 6, 5, 4, 5, 6,
     4, 7, 6, 6, 6, 4, 6, 4, 9, 5, 6, 6, 5, 6, 5, 5, 6, 6, 7, 7, 5, 8, 5, 5, 5, 7,
     7, 6, 11, 10, 10, 6, 4, 9, 7, 9, 7, 6, 7, 10, 7, 4, 12, 4, 5, 5, 6, 10, 8, 6,
     4, 9, 11, 9, 7, 7, 4, 6, 7, 6, 7, 8, 8, 6, 7, 8, 7, 4, 9, 7, 10, 14, 8, 10, 7 >>

Portuguese_4 ==
  << 12, 8, 12, 6, 10, 6, 7, 5, 5, 8, 6, 5, 5, 7, 9, 4, 8, 5, 7, 7, 9, 7, 10, 6, 8,
     8, 10, 9, 8, 7, 14, 10, 8, 6, 6, 9, 8, 4, 7, 10, 8, 8, 6, 7, 9, 9, 7, 13, 8, 7,
     8, 13, 8, 9, 5, 7, 7, 7, 9, 6, 8, 11, 4, 7, 6, 6, 7, 6, 7, 6, 6, 7, 6, 9, 6, 8,
     9, 5, 8, 6, 7, 9, 7, 5, 10, 7, 6, 5, 8, 7, 7, 4, 5, 9, 7, 6, 5, 8, 10, 5, 4, 8,
     7, 6, 6, 6, 6, 6, 8, 8, 6, 4, 6, 6, 11, 8, 10, 5, 4, 6, 8, 4, 8, 7, 5, 5, 5,
     12, 8, 11, 5, 7, 6, 7, 4, 6, 8, 6, 5, 10, 4, 9, 9, 8, 10, 6, 5, 7, 4, 7 >>

Portuguese_5 ==
  << 8, 7, 7, 4, 15, 4, 5, 8, 10, 6, 9, 6, 6, 9, 4, 6, 9, 8, 7, 13, 8, 7, 9, 4, 6,
     6, 7, 10, 7, 7, 5, 5, 5, 8, 8, 5, 4, 7, 8, 4, 5, 5, 6, 8, 7, 7, 4, 5, 8, 5, 8,
     5, 8, 4, 5, 5, 6, 4, 4, 9, 8, 7, 7, 8, 14, 10, 10, 9, 8, 7, 7, 6, 10, 9, 6, 6,
     8, 11, 8, 12, 9, 7, 13, 10, 8, 5, 7, 12, 10, 9, 10, 7, 5, 4, 6, 7, 14, 10, 9,
     4, 9, 5, 7, 6, 5, 10, 9, 9, 7, 4, 5, 4, 4, 8, 7, 5, 5, 4, 7, 7, 4, 4, 7, 9, 5,
     8, 8, 5, 8, 4, 7, 4, 7, 6, 7, 7, 7, 8, 7, 9, 8, 12, 7, 9, 6, 8, 6, 7, 8, 13 >>

Portuguese_6 ==
  << 7, 7, 12, 7, 5, 6, 6, 7, 6, 10, 13, 13, 14, 12, 12, 9, 4, 7, 4, 9, 6, 4, 7, 9,
     4, 8, 6, 7, 8, 4, 6, 8, 7, 8, 9, 4, 4, 7, 10, 5, 5, 9, 13, 9, 4, 7, 8, 6, 5, 9,
     7, 7, 5, 6, 4, 5, 5, 4, 5, 7, 5, 8, 5, 9, 6, 5, 5, 6, 5, 4, 6, 4, 6, 6, 7, 4,
     6, 5, 4, 5, 7, 8, 6, 7, 5, 6, 7, 7, 5, 6, 5, 4, 9, 7, 6, 5, 6, 11, 5, 7, 6, 5,
     6, 8, 5, 7, 5, 8, 4, 10, 7, 4, 6, 5, 8, 8, 6, 5, 5, 8, 9, 8, 10, 5, 6, 5, 8, 9,
     11, 8, 8, 12, 8, 7, 6, 9, 6, 4, 6, 7, 4, 5, 7, 8, 6, 4, 6, 6, 7, 5 >>

Portuguese_7 ==
  << 6, 4, 12, 6, 7, 4, 8, 6, 8, 4, 5, 10, 7, 6, 7, 7, 5, 9, 11, 8, 6, 10, 8, 10, 7,
     9, 6, 8, 7, 6, 7, 7, 5, 6, 13, 6, 8, 5, 9, 4, 10, 10, 7, 11, 8, 8, 4, 13, 5,
     10, 6, 6, 8, 7, 8, 7, 6, 8, 9, 6, 9, 6, 4, 4, 5, 5, 7, 9, 7, 10, 10, 6, 5, 7,
     8, 6, 9, 4, 5, 6, 7, 5, 4, 7, 6, 9, 6, 4, 9, 4, 5, 4, 6, 6, 7, 10, 7, 10, 7, 6,
     7, 8, 9, 9, 5, 6, 7, 9, 7, 5, 6, 7, 8, 10, 4, 10, 6, 9, 8, 5, 6, 8, 8, 7, 5,
     14, 6, 7, 6, 4, 8, 5, 4, 10, 7, 9, 10, 7, 7, 6, 6, 11, 7, 4, 11, 9, 7, 9, 6, 5 >>

Portuguese_8 ==
  << 7, 5, 9, 7, 7, 7, 11, 8, 6, 4, 5, 5, 9, 11, 6, 8, 7, 4, 8, 8, 8, 9, 7, 5, 7, 6,
     11, 5, 4, 6, 6, 10, 7, 6, 6, 6, 5, 8, 4, 4, 9, 9, 10, 6, 8, 8, 7, 7, 12, 10, 4,
     4, 11, 8, 10, 4, 6, 8, 12, 8, 8, 7, 5, 5, 5, 4, 10, 8, 12, 7, 6, 8, 6, 9, 6, 5,
     4, 5, 7, 5, 6, 9, 7, 4, 11, 5, 5, 6, 6, 6, 8, 8, 7, 10, 5, 9, 6, 5, 9, 6, 11,
     6, 11, 7, 5, 5, 9, 8, 4, 5, 4, 10, 9, 6, 8, 10, 6, 7, 6, 7, 6, 9, 9, 6, 6, 6,
     7, 8, 7, 6, 7, 10, 8, 10, 10, 7, 6, 8, 10, 6, 13, 10, 4, 8, 7, 6, 4, 9, 7, 9 >>

Portuguese_9 ==
  << 7, 8, 6, 6, 6, 5, 5, 6, 5, 6, 11, 7, 9, 10, 8, 12, 8, 10, 5, 6, 4, 9, 4, 7, 10,
     5, 4, 9, 7, 6, 4, 12, 7, 10, 10, 8, 7, 7, 5, 4, 6, 4, 8, 8, 6, 10, 4, 7, 8, 7,
     8, 8, 8, 9, 9, 11, 9, 10, 13, 16, 5, 11, 9, 10, 6, 9, 6, 7, 10, 9, 8, 6, 9, 6,
     8, 5, 8, 4, 5, 4, 4, 7, 8, 7, 12, 9, 4, 7, 6, 10, 4, 4, 5, 4, 10, 8, 8, 7, 5,
     7, 8, 4, 5, 4, 6, 10, 5, 4, 6, 5, 4, 8, 6, 7, 5, 7, 7, 8, 6, 7, 14, 5, 5, 4, 7,
     9, 4, 7, 9, 7, 5, 5, 7, 11, 7, 7, 6, 5, 9, 6, 7, 8, 6, 4, 6, 6, 7, 9, 7, 9 >>

Portuguese_10 ==
  << 7, 4, 8, 9, 6, 6, 9, 7, 5, 10, 6, 5, 10, 8, 8, 5, 6, 6, 5, 5, 6, 4, 6, 9, 9, 8,
     8, 5, 4, 6, 7, 5, 5, 7, 10, 7, 7, 9, 8, 7, 8, 9, 8, 10, 8, 9, 5, 4, 6, 6, 8, 4,
     7, 6, 5, 7, 7, 8, 4, 8, 6, 10, 8, 6, 8, 10, 7, 6, 7, 6, 6, 6, 11, 6, 12, 13,
     10, 10, 7, 6, 9, 5, 7, 8, 5, 9, 6, 7, 10, 12, 7, 9, 4, 6, 5, 5, 5, 7, 7, 6, 8,
     7, 10, 7, 8, 6, 7, 4, 4, 6, 4, 7, 8, 7, 9, 7, 8, 6, 10, 6, 4, 5, 6, 6, 9, 12,
     7, 5, 8, 7, 6, 4, 4, 6, 6, 10, 8, 10, 5, 4, 9, 8, 8, 7, 9, 5, 4, 8, 5, 12 >>

Portuguese_11 ==
  << 9, 5, 5, 6, 11, 6, 8, 7, 7, 7, 5, 6, 5, 6, 7, 6, 4, 7, 4, 8, 6, 5, 6, 7, 4, 8,
     7, 5, 8, 7, 6, 10, 5, 5, 7, 6, 7, 7, 9, 8, 8, 8, 5, 9, 10, 5, 5, 6, 8, 10, 4,
     4, 6, 9, 7, 5, 9, 7, 9, 5, 6, 10, 6, 7, 6, 10, 8, 11, 4, 6, 10, 9, 5, 10, 9, 5,
     4, 5, 4, 9, 4, 5, 5, 6, 6, 7, 7, 5, 4, 9, 7, 5, 5, 4, 7, 6, 4, 5, 5, 6, 5, 7,
     5, 7, 4, 5, 6, 8, 5, 11, 6, 7, 4, 4, 5, 5, 7, 8, 8, 6, 6, 4, 6, 6, 6, 5 >>

Portuguese ==
  [english_language_name |-> "Portuguese", online |-> TRUE,
   prefix_length |-> 4, words |-> Portuguese_1 \o Portuguese_2 \o Portuguese_3 \o Portuguese_4 \o
               Portuguese_5 \o Portuguese_6 \o Portuguese_7 \o
               Portuguese_8 \o Portuguese_9 \o Portuguese_10 \o
               Portuguese_11]

Russian ==
  [english_language_name |-> "Russian", online |-> FALSE,
   prefix_length |-> 4, words |-> Uniform(4)]

Spanish ==
  [english_language_name |-> "Spanish", online |-> FALSE,
   prefix_length |-> 4, words |-> Uniform(3)]

\* languages.py: in the order in which the user is asked.
electroneum_langs ==
  << Chinese, Dutch, English, Esperanto, French, Italian,
     Japanese, Lobjan, Portuguese, Russian, Spanish >>
=============================================================================
