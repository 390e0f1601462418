-------------------------------- MODULE Sums --------------------------------
(***************************************************************************)
(* Sums of sequences of numbers: what the amounts of a prefix and the bytes*)
(* of a part of a word list are compared with.  A sum is a recursive       *)
(* function of how many numbers are added, so that it can be proved about. *)
(***************************************************************************)
EXTENDS Naturals, Sequences

\* The sums of the first 0, 1, 2, ... numbers of a sequence.
PartialSums(s) ==
  LET upTo[n \in 0 .. Len(s)] == IF n = 0 THEN 0 ELSE upTo[n - 1] + s[n]
  IN  upTo

\* The sum of all of them.
Sum(s) == PartialSums(s)[Len(s)]
=============================================================================
