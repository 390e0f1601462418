----------------------------- MODULE MCIoBuffer -----------------------------
(***************************************************************************)
(* TLC instance of IoBuffer: numbers on both sides of what fits one, two   *)
(* and three bytes of a varint, amounts at both ends of the 14 characters  *)
(* of the screen, the sizes of an extra field up to the longest one a      *)
(* command can hold, and claims on both sides of what is negative.         *)
(***************************************************************************)
EXTENDS IoBuffer

MCPrefixNumbers == {0, 127, 128, 16383, 16384, 2097152}

MCExtraSizes == {0, 33, 127, 128, 250}

\* With ints of 16 bits.
MC_INT_LIMIT == 32768
MCClaimedSizes == {251, 256, 32767, 32768, 65531, 65535}

\* Nothing, or the last byte, half of a field, fields and the byte in front of them.
MCCuts == {0, 1, 16, 32, 33, 65, 129}

\* 0.00, 0.01, 0.10, 1.00, 20.50, ninety-nine billions and 99 cents, a hundred billions, and
\* two that are cut: among the cents and among the billions.
MCScreenAmounts ==
  {<< >>, << 1 >>, << 1, 0 >>, << 1, 0, 0 >>, << 2, 0, 5, 0 >>, [i \in 1 .. 13 |-> 9],
   << 1 >> \o [i \in 1 .. 13 |-> 0], [i \in 1 .. 14 |-> 9], [i \in 1 .. 18 |-> 1 + (i % 9)]}
=============================================================================
