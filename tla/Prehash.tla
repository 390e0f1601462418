------------------------------ MODULE Prehash ------------------------------
(***************************************************************************)
(* The validation of a confidential transaction: what is generated for the *)
(* outputs (INS_GEN_TXOUT_KEYS) is hashed and compared with what the user  *)
(* is shown (INS_VALIDATE), whose commitments are hashed and compared with *)
(* the list the signature covers, and the prehash made on the way becomes  *)
(* the challenge of the signature (INS_MLSAG)                              *)
(* (electroneum_prehash.c, electroneum_mlsag.c, electroneum_key.c).        *)
(*                                                                         *)
(* Three hash contexts and four results live through the whole             *)
(* transaction, and commands outside it, those that hash its prefix        *)
(* (module TxPrefix), the menu and the reload of the keys write some of    *)
(* them.                                                                   *)
(*                                                                         *)
(* A SHA-256 context is the sequence it absorbed and its result is the set *)
(* that holds this sequence, {} for 32 bytes of zeros.  The Keccak context *)
(* and its results keep only whether they cover the whole of what the host *)
(* sent for them, and for which transaction.                               *)
(***************************************************************************)
EXTENDS Integers, Sequences

CONSTANTS
  Outputs,      \* what describes an output: its address, change flag and amount key
  Commitments,  \* commitments to amounts
  Zero,         \* those that open to the amount 0
  InOrder,      \* the host sends its commands in the documented order
  MaxOutputs,   \* bound: what one SHA-256 context absorbs
  MaxSessions   \* bound: the transactions the host opens

ASSUME CommitmentsAssumption == Zero \subseteq Commitments
ASSUME OrderAssumption == InOrder \in BOOLEAN
ASSUME PrehashBounds == MaxOutputs \in Nat /\ MaxSessions \in Nat

VARIABLES
  protocol, sig_mode, tx_in_progress,
  outkeys,     \* sha256_out_keys
  OUTK,        \* its result when the prehash began
  commitment,  \* sha256_commitment
  C,           \* its result when the last output was checked
  keccakH,     \* "fresh", "transcript" or "challenge" of this transaction, or "other"
  H,           \* the transaction H is the prehash of, 0 for any other content
  c,           \* the transaction c is the challenge of, 0 for any other content
  asked,       \* the question on the screen
  session,     \* transactions opened so far
  phase,       \* the last thing the host did
  generated,   \* history: the outputs generated in this transaction
  checked,     \* history: the outputs and commitments checked since the prehash began
  listed,      \* history: the commitments accumulated since
  accepted     \* history: what the user agreed to since, of what is validated

modeVars    == << protocol, sig_mode >>
chainVars   == << outkeys, OUTK, commitment, C >>
keccakVars  == << keccakH, H, c >>
historyVars == << generated, checked, listed, accepted >>
prehashVars == << modeVars, tx_in_progress, chainVars, keccakVars, asked, session, phase, historyVars >>

-----------------------------------------------------------------------------
Hash(s) == {s}

Nothing      == [ask |-> "nothing", of |-> << >>]
Fee          == [ask |-> "fee", of |-> << >>]
Address      == [ask |-> "address", of |-> << >>]
Prefix       == [ask |-> "prefix", of |-> << >>]
Output(o, k) == [ask |-> "output", of |-> << o, k >>]

Phases == {"none", "open", "init", "update", "updated", "final", "hash", "hashed"}

\* The order blue-app-commands.rst gives, which a host may keep to.
Host(before, after) == (InOrder => phase \in before) /\ phase' = after

Waiting == asked # Nothing
InTx    == tx_in_progress /\ ~Waiting

\* More of what the Keccak context holds, if that is what it holds.
Continued(what) == IF keccakH = what THEN what ELSE "other"

\* Mutant of start_contexts: the context of the generated outputs goes on.
start_contexts_keeps_outkeys ==
  /\ keccakH' = "fresh"
  /\ commitment' = << >>
  /\ UNCHANGED outkeys

start_contexts == keccakH' = "fresh" /\ outkeys' = << >> /\ commitment' = << >>

\* electroneum_reset_tx starts the three contexts again, and leaves their results.
reset_tx ==
  /\ start_contexts
  /\ tx_in_progress' = FALSE
  /\ UNCHANGED << OUTK, C, H, c >>

\* A command fails, and the host gives its transaction up.
Throw == reset_tx /\ phase' = "none" /\ UNCHANGED << modeVars, asked, session, historyVars >>

CommandFails == ~Waiting /\ Throw

\* electroneum_aes_derive leaves its own data in the Keccak context.
init_private_key == keccakH' = "other"

\* electroneum_base58_public_key leaves the checksum of the address in H.
base58_public_key == H' = 0

-----------------------------------------------------------------------------
(***************************************************************************)
(* Around the prehash                                                      *)
(***************************************************************************)
set_signature_mode ==
  /\ ~Waiting
  /\ Host({"none"}, phase)
  /\ sig_mode' \in {"REAL", "FAKE"}
  /\ UNCHANGED << protocol, tx_in_progress, chainVars, keccakVars, asked, session, historyVars >>

open_tx ==
  /\ ~Waiting
  /\ session < MaxSessions /\ session' = session + 1
  /\ Host({"none"}, "open")
  /\ start_contexts
  /\ tx_in_progress' = TRUE
  /\ generated' = << >> /\ checked' = << >> /\ listed' = << >> /\ accepted' = << >>
  /\ UNCHANGED << modeVars, OUTK, C, H, c, asked >>

close_tx ==
  /\ ~Waiting
  /\ Host(Phases, "none")
  /\ reset_tx
  /\ UNCHANGED << modeVars, asked, session, historyVars >>

\* Only a real transaction, under protocol 2, hashes its outputs.
generate_txout_keys(o) ==
  /\ InTx
  /\ Host({"open"}, "open")
  /\ Len(generated) < MaxOutputs
  /\ generated' = Append(generated, o)
  /\ IF sig_mode = "REAL" /\ protocol = 2
     THEN Len(outkeys) < MaxOutputs /\ outkeys' = Append(outkeys, o)
     ELSE UNCHANGED outkeys
  /\ UNCHANGED << modeVars, tx_in_progress, OUTK, commitment, C, keccakVars, asked, session,
                  checked, listed, accepted >>

-----------------------------------------------------------------------------
(***************************************************************************)
(* INS_VALIDATE                                                            *)
(***************************************************************************)
\* The first part, P2 = 1: what was generated is fixed, and the fee is shown.
mlsag_prehash_init ==
  /\ InTx
  /\ Host({"open"}, "init")
  /\ checked' = << >> /\ listed' = << >> /\ accepted' = << >>
  /\ IF sig_mode = "REAL"
     THEN /\ OUTK' = Hash(outkeys)
          /\ outkeys' = << >> /\ commitment' = << >>
          /\ keccakH' = "transcript"
          /\ asked' = Fee
     ELSE /\ keccakH' = (IF keccakH = "fresh" THEN "transcript" ELSE "other")
          /\ UNCHANGED << OUTK, outkeys, commitment, asked >>
  /\ UNCHANGED << modeVars, tx_in_progress, C, H, c, session, generated >>

\* The parts after it.
mlsag_prehash_init_more ==
  /\ InTx
  /\ Host({"init"}, "init")
  /\ keccakH' = Continued("transcript")
  /\ UNCHANGED << modeVars, tx_in_progress, chainVars, H, c, asked, session, historyVars >>

\* The control of the last output: the outputs shown are those generated.
SameOutputs(absorbed) == protocol = 2 => Hash(absorbed) = OUTK

\* Mutant of Prompted: an amount of zero is shown as well.
Prompted_always(o, k) == Output(o, k)

\* Every amount but zero is shown.
Prompted(o, k) == IF k \in Zero THEN Nothing ELSE Output(o, k)

\* An output of a real transaction: opens tells whether its commitment opens to the
\* amount and mask the host sent, and to_us whether it is change; the address of one
\* that is not is put in base 58.
mlsag_prehash_update_real(o, k, opens, to_us, last) ==
  LET absorbed == IF protocol = 2 THEN Append(outkeys, o) ELSE outkeys
  IN  /\ sig_mode = "REAL"
      /\ Len(outkeys) < MaxOutputs /\ Len(commitment) < MaxOutputs /\ Len(checked) < MaxOutputs
      /\ IF opens /\ (last => SameOutputs(absorbed))
         THEN /\ Host({"init", "update"}, IF last THEN "updated" ELSE "update")
              /\ outkeys' = (IF last /\ protocol = 2 THEN << >> ELSE absorbed)
              /\ C' = (IF last THEN Hash(Append(commitment, k)) ELSE C)
              /\ commitment' = (IF last THEN << >> ELSE Append(commitment, k))
              /\ keccakH' = Continued("transcript")
              /\ IF to_us THEN UNCHANGED H ELSE base58_public_key
              /\ asked' = Prompted(o, k)
              /\ checked' = Append(checked, << o, k >>)
              /\ UNCHANGED << modeVars, tx_in_progress, OUTK, c, session, generated, listed, accepted >>
         ELSE Throw

\* In any other mode the output is only hashed.
mlsag_prehash_update_other(last) ==
  /\ sig_mode # "REAL"
  /\ Host({"init", "update"}, IF last THEN "updated" ELSE "update")
  /\ keccakH' = Continued("transcript")
  /\ UNCHANGED << modeVars, tx_in_progress, chainVars, H, c, asked, session, historyVars >>

mlsag_prehash_update ==
  /\ InTx
  /\ InOrder => phase \in {"init", "update"}
  /\ \E last \in BOOLEAN :
       \/ mlsag_prehash_update_other(last)
       \/ \E o \in Outputs, k \in Commitments, opens, to_us \in BOOLEAN :
            mlsag_prehash_update_real(o, k, opens, to_us, last)

\* A commitment of the list that is signed, in every mode.
mlsag_prehash_finalize_more(k) ==
  /\ InTx
  /\ Host({"updated"}, "updated")
  /\ Len(commitment) < MaxOutputs /\ Len(listed) < MaxOutputs
  /\ commitment' = Append(commitment, k)
  /\ listed' = Append(listed, k)
  /\ keccakH' = Continued("transcript")
  /\ UNCHANGED << modeVars, tx_in_progress, outkeys, OUTK, C, H, c, asked, session,
                  generated, checked, accepted >>

\* Mutant of the control of the list: it is not made.
SameCommitments_unchecked == TRUE

\* The control of the list: its commitments are those that were opened.
SameCommitments == Hash(commitment) = C

mlsag_prehash_finalize ==
  /\ InTx
  /\ InOrder => phase = "updated"
  /\ IF sig_mode = "REAL" => SameCommitments
     THEN /\ phase' = "final"
          /\ commitment' = (IF sig_mode = "REAL" THEN << >> ELSE commitment)
          /\ H' = (IF keccakH = "transcript" THEN session ELSE 0)
          /\ keccakH' = "fresh"
          /\ UNCHANGED << modeVars, tx_in_progress, outkeys, OUTK, C, c, asked, session, historyVars >>
     ELSE Throw

-----------------------------------------------------------------------------
(***************************************************************************)
(* INS_MLSAG                                                               *)
(***************************************************************************)
\* What the parts of mlsag_hash absorb; the last one draws the challenge from it.
Challenge(absorbed, last) ==
  /\ keccakH' = (IF last THEN "fresh" ELSE absorbed)
  /\ c' = (IF ~last THEN c ELSE IF absorbed = "challenge" THEN session ELSE 0)
  /\ UNCHANGED << modeVars, tx_in_progress, chainVars, H, asked, session, historyVars >>

\* P2 = 1: the device puts the prehash in place of what the host sent.
mlsag_hash(last) ==
  /\ InTx
  /\ Host({"final", "hashed"}, IF last THEN "hashed" ELSE "hash")
  /\ Challenge(IF H = session THEN "challenge" ELSE "other", last)

mlsag_hash_more(last) ==
  /\ InTx
  /\ Host({"hash"}, IF last THEN "hashed" ELSE "hash")
  /\ Challenge(Continued("challenge"), last)

-----------------------------------------------------------------------------
(***************************************************************************)
(* Low level commands, the user and the lock                               *)
(***************************************************************************)
\* INS_TX_PREFIX_* and INS_HASH_TO_SCALAR_*: the Keccak context absorbs something else,
\* until the last command of each finishes it.
hash_prefix(last) ==
  /\ InTx
  /\ keccakH' = (IF last THEN "fresh" ELSE "other")
  /\ UNCHANGED << modeVars, tx_in_progress, chainVars, H, c, asked, session, phase, historyVars >>

\* The amount that leaves by the prefix is shown with its address, a loopback without one.
tx_prompt_amount ==
  /\ InTx /\ sig_mode = "REAL"
  /\ base58_public_key \/ UNCHANGED H
  /\ asked' = Prefix
  /\ UNCHANGED << modeVars, tx_in_progress, chainVars, keccakH, c, session, phase, historyVars >>

tx_prompt_fee ==
  /\ InTx /\ sig_mode = "REAL"
  /\ asked' = Prefix
  /\ UNCHANGED << modeVars, tx_in_progress, chainVars, keccakVars, session, phase, historyVars >>

\* INS_GET_KEY with P1 = 1, free in every state of the device.
get_public_key ==
  /\ ~Waiting
  /\ base58_public_key
  /\ UNCHANGED << modeVars, tx_in_progress, chainVars, keccakH, c, asked, session, phase, historyVars >>

\* INS_DISPLAY_ADDRESS, and the address of the menu.
display_address ==
  /\ ~Waiting
  /\ base58_public_key
  /\ asked' = Address
  /\ UNCHANGED << modeVars, tx_in_progress, chainVars, keccakH, c, session, phase, historyVars >>

pubaddr_action ==
  /\ asked = Address
  /\ asked' = Nothing
  /\ UNCHANGED << modeVars, tx_in_progress, chainVars, keccakVars, session, phase, historyVars >>

\* What the user agreed to, with one more answer.
Answered(question) == IF question = Prefix THEN accepted ELSE Append(accepted, question)

\* Mutant of validation_action: a refusal is answered and nothing else.
validation_action_goes_on(accept) ==
  /\ asked.ask \in {"fee", "output", "prefix"}
  /\ asked' = Nothing
  /\ accepted' = (IF accept THEN Answered(asked) ELSE accepted)
  /\ UNCHANGED << modeVars, tx_in_progress, chainVars, keccakVars, session, phase,
                  generated, checked, listed >>

\* The host may not notice a refusal, and go on.
validation_action(accept) ==
  /\ asked.ask \in {"fee", "output", "prefix"}
  /\ asked' = Nothing
  /\ IF accept
     THEN /\ accepted' = Answered(asked)
          /\ UNCHANGED << tx_in_progress, chainVars, keccakVars >>
     ELSE reset_tx /\ UNCHANGED accepted
  /\ UNCHANGED << modeVars, session, phase, generated, checked, listed >>

\* The device is locked, and unlocked before the next command.
Unlock ==
  /\ init_private_key
  /\ UNCHANGED << modeVars, tx_in_progress, chainVars, H, c, asked, session, phase, historyVars >>

\* Everything volatile is cleared, and the host connects again.
electroneum_init ==
  /\ protocol' \in {0, 2} /\ sig_mode' = "NONE" /\ tx_in_progress' = FALSE
  /\ outkeys' = << >> /\ commitment' = << >> /\ OUTK' = {} /\ C' = {}
  /\ init_private_key /\ H' = 0 /\ c' = 0
  /\ asked' = Nothing
  /\ phase' = "none"
  /\ UNCHANGED << session, historyVars >>

-----------------------------------------------------------------------------
Init ==
  /\ protocol \in {0, 2} /\ sig_mode = "NONE" /\ tx_in_progress = FALSE
  /\ outkeys = << >> /\ commitment = << >> /\ OUTK = {} /\ C = {}
  /\ keccakH = "other" /\ H = 0 /\ c = 0
  /\ asked = Nothing
  /\ session = 0 /\ phase = "none"
  /\ generated = << >> /\ checked = << >> /\ listed = << >> /\ accepted = << >>

Next ==
  \/ set_signature_mode \/ open_tx \/ close_tx \/ CommandFails
  \/ \E o \in Outputs : generate_txout_keys(o)
  \/ mlsag_prehash_init \/ mlsag_prehash_init_more \/ mlsag_prehash_update
  \/ \E k \in Commitments : mlsag_prehash_finalize_more(k)
  \/ mlsag_prehash_finalize
  \/ \E last \in BOOLEAN : mlsag_hash(last) \/ mlsag_hash_more(last)
  \/ \E last \in BOOLEAN : hash_prefix(last)
  \/ tx_prompt_amount \/ tx_prompt_fee
  \/ get_public_key \/ display_address \/ pubaddr_action
  \/ \E accept \in BOOLEAN : validation_action(accept)
  \/ Unlock \/ electroneum_init

Spec == Init /\ [][Next]_prehashVars

-----------------------------------------------------------------------------
(***************************************************************************)
(* Properties                                                              *)
(***************************************************************************)
\* The last control of a real transaction passed, and the signature can begin.
Signable == tx_in_progress /\ sig_mode = "REAL" /\ phase \in {"final", "hash", "hashed"}

\* Every variable has its type: a hash result holds at most one sequence, and no output of
\* the amount zero is asked about.
TypeOK ==
  /\ protocol \in {0, 2} /\ sig_mode \in {"NONE", "REAL", "FAKE"}
  /\ tx_in_progress \in BOOLEAN
  /\ outkeys \in Seq(Outputs) /\ commitment \in Seq(Commitments)
  /\ \A s \in OUTK : OUTK = {s} /\ s \in Seq(Outputs)
  /\ \A s \in C : C = {s} /\ s \in Seq(Commitments)
  /\ keccakH \in {"fresh", "transcript", "challenge", "other"}
  /\ H \in 0 .. session /\ c \in 0 .. session
  /\ asked \in {Nothing, Fee, Address, Prefix} \cup {Output(o, k) : o \in Outputs, k \in Commitments \ Zero}
  /\ session \in Nat /\ phase \in Phases
  /\ generated \in Seq(Outputs) /\ checked \in Seq(Outputs \X Commitments)
  /\ listed \in Seq(Commitments)

\* The outputs the user was shown are those that were generated in this transaction,
\* all of them and in their order (the chain control of OUTK), whatever was left by
\* transactions that were aborted, refused or failed before it.
ShownAsGenerated ==
  Signable /\ protocol = 2 => generated = [i \in DOMAIN checked |-> checked[i][1]]

\* The commitments the signature covers are those that were opened for the user, all of
\* them and in their order (the chain control of C).
SignedAsOpened == Signable => listed = [i \in DOMAIN checked |-> checked[i][2]]

\* What there is to agree to when 0, 1, 2, ... outputs are checked: the fee, then every
\* amount but zero, in their order.
AgreedUpTo(pairs) ==
  LET upTo[n \in 0 .. Len(pairs)] ==
        IF n = 0 THEN << Fee >>
        ELSE IF pairs[n][2] \in Zero THEN upTo[n - 1]
        ELSE Append(upTo[n - 1], Output(pairs[n][1], pairs[n][2]))
  IN  upTo
Agreed(pairs) == AgreedUpTo(pairs)[Len(pairs)]

\* The user agreed to the fee and to every amount that is not zero, each once, in this
\* transaction, even when the host does not read the answers.
AllAccepted == Signable => accepted = Agreed(checked)

\* "Once open the device impose a certain order in subsequent commands"
\* (blue-app-commands.rst:1634): the prehash of a real transaction is not finalised before
\* an output of this transaction was checked.
OrderIsImposed ==
  [][mlsag_prehash_finalize /\ phase' = "final" /\ sig_mode = "REAL" => checked # << >>]_prehashVars

\* "The prehash will be kept inside NanoS to ensure its integrity"
\* (blue-app-commands.rst:1606): once the prehash of a transaction is made, the challenges
\* of this transaction are drawn from it.
PrehashIsKept ==
  [][H = session /\ Signable /\ Signable' => H' = H]_prehashVars
=============================================================================
