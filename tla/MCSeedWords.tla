---------------------------- MODULE MCSeedWords -----------------------------
(***************************************************************************)
(* TLC instance of SeedWords, with the lists of the tool.  The numbers of  *)
(* one key give the first and the last word of a list and words of all its *)
(* parts; those of the other the same words in several places, all in the  *)
(* first half of a list, so that a change of key can come when all are     *)
(* there.  They stay below 2^31, the numbers of TLC.                       *)
(***************************************************************************)
EXTENDS SeedWords

MCSeedKey   == << 0, 1625, 1626, 2147483647, 1234567890, 271828182, 1626 * 1626 - 1, 987654321 >>
MCOtherKey  == << 1, 0, 41, 314, 1626 * 59 + 26, 592, 1626 * 1626 * 3 + 50, 577 >>

MCKeys == {MCSeedKey, MCOtherKey}
MCImported == {MCOtherKey}

\* Each place and each letter counts.
MCCrc32(trimmed) ==
  MapThenSumSet(LAMBDA n : (n + 1) * MapThenSumSet(LAMBDA p : 1 + p.word.index + 7 * p.length, trimmed[n]),
                DOMAIN trimmed)
=============================================================================
