------------------------------ MODULE Numbers -------------------------------
(***************************************************************************)
(* Numbers as bytes and as texts (electroneum_crypto.c): varints, and the  *)
(* amounts on the screen.                                                  *)
(*                                                                         *)
(* An amount is the sequence of its decimal digits, the first one not 0,   *)
(* since the code only takes it apart into digits.  A text is a sequence   *)
(* of digits and at most one Dot.                                          *)
(***************************************************************************)
EXTENDS Integers, Sequences, FiniteSetsExt

\* Mutant of encode_varint: 128 is taken to fit one byte.
encode_varint_late(num) ==
  LET bytes[n \in 0 .. num] == IF n > 128 THEN << (n % 128) + 128 >> \o bytes[n \div 128] ELSE << n >>
  IN  bytes[num]

\* Seven bits to a byte, the lowest first; all bytes but the last have the top bit.  (The
\* limit of 2^63, above which nothing is encoded, is in TxPrefix.)
encode_varint(num) ==
  LET bytes[n \in 0 .. num] == IF n >= 128 THEN << (n % 128) + 128 >> \o bytes[n \div 128] ELSE << n >>
  IN  bytes[num]

\* electroneum_vamount2uint64: as far as the first byte without the top bit.  Where the
\* bytes end without one, zeros are taken to follow.
vamount2uint64[bytes \in Seq(0 .. 255)] ==
  IF bytes = << >> THEN 0
  ELSE (Head(bytes) % 128) + IF Head(bytes) >= 128 THEN 128 * vamount2uint64[Tail(bytes)] ELSE 0

-----------------------------------------------------------------------------
Dot == 10

\* The local stramount: 20 digits, of which two after the dot.
stramount(amount) ==
  LET digit(i) == IF i > 20 - Len(amount) THEN amount[i - 20 + Len(amount)] ELSE 0
  IN  [i \in 1 .. 21 |-> CASE i <= 18 -> digit(i) [] i = 19 -> Dot [] OTHER -> digit(i - 1)]

\* Without the zeros in front, but for one before the dot, and without those at the end
\* of the decimals; then cut to what str holds with the 0 that ends it.
Trimmed(text) ==
  LET shown == {i \in DOMAIN text : text[i] # 0}
      first == IF text[Min(shown)] = Dot THEN Min(shown) - 1 ELSE Min(shown)
      last  == IF text[Max(shown)] = Dot THEN Max(shown) - 1 ELSE Max(shown)
  IN  SubSeq(text, first, last)

Cut(text, length) == SubSeq(text, 1, Min({Len(text), length}))

\* Mutant of amount2str: the byte for the 0 that ends the text is counted twice.
amount2str_short(amount, str_len) ==
  IF amount = << >> THEN << 0 >> ELSE Cut(Trimmed(stramount(amount)), str_len - 2)

\* What is in str; that it was cut is returned too, but no caller looks at it.
amount2str(amount, str_len) ==
  IF amount = << >> THEN << 0 >> ELSE Cut(Trimmed(stramount(amount)), str_len - 1)
=============================================================================
