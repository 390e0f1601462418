----------------------------- MODULE MCScreens ------------------------------
(***************************************************************************)
(* TLC instance of Screens, with the sizes of the code: addresses that fill*)
(* all their blocks, one whose third block needs one character less, and   *)
(* one whose fourth block needs two less and the last one.                 *)
(***************************************************************************)
EXTENDS Screens

\* The digits of an address are all the same but for the zeros.
Address(digit, size, zeros) == [i \in 1 .. size |-> IF i \in zeros THEN 0 ELSE digit]

Small == Address(7, 98, {23})
Cut   == Address(8, 98, {34, 35, 89})

MCOrdinary   == {Address(9, 98, {}), Small, Cut}
MCIntegrated == {Address(10, 109, {})}
MCWallets    == {Small, Cut}

\* Words that end in what a proof writes, and past the mode.
MCWordEnds == {128, 200}
=============================================================================
