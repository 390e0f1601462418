----------------------------- MODULE TxSecrets ------------------------------
(***************************************************************************)
(* What the sealing of secrets promises, without keys, HMACs or commands:  *)
(* a transaction is opened and ends, and while it is open the device takes *)
(* back only secrets it gave out in that same transaction.  Ending a       *)
(* transaction revokes all its secrets at once, for ever.                  *)
(***************************************************************************)
EXTENDS Integers

VARIABLES
  open,     \* a transaction is open
  latest,   \* the number of the last transaction opened
  valid,    \* the transactions whose secrets an open transaction would take
  used      \* the transactions whose secrets the last command of a transaction took

secretVars == << open, latest, valid, used >>

Closed == ~open /\ latest = 0 /\ valid = {} /\ used = {}

\* A new transaction, with secrets of its own and of no other.
Begin ==
  /\ open' = TRUE
  /\ latest' = latest + 1
  /\ valid' = {latest'}
  /\ used' = {}

\* The transaction ends: by a close, an error, a refusal or a restart.
End ==
  /\ open' = FALSE
  /\ valid' = {}
  /\ used' = {}
  /\ UNCHANGED latest

\* A command of the open transaction takes some of its secrets.
Work ==
  /\ open
  /\ used' \subseteq valid
  /\ UNCHANGED << open, latest, valid >>

SecretsSpec == Closed /\ [][Begin \/ End \/ Work]_secretVars
=============================================================================
