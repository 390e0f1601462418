------------------------------ MODULE TxPrefix ------------------------------
(***************************************************************************)
(* The transaction prefix: INS_TX_PREFIX_* hash the prefix of a transaction*)
(* while the device adds up what goes in, what goes out and what leaves for*)
(* somebody else, INS_TX_PROMPT_* show the sums to the user, and           *)
(* INS_HASH_TO_SCALAR_* hash the result into a challenge.  INS_VALIDATE    *)
(* and INS_MLSAG hash with the same context and ask on the same screens    *)
(* (electroneum_prehash.c, electroneum_key.c, electroneum_mlsag.c,         *)
(* electroneum_open_tx.c).                                                 *)
(*                                                                         *)
(* The hash and the sums live in separate fields that different commands,  *)
(* errors, refusals and the reload of the keys at unlock change: what the  *)
(* user is shown is of the transaction only as long as they agree.         *)
(*                                                                         *)
(* A hash context is the sequence of what it absorbed since it was         *)
(* initialised.  An output's key is kept as the address it is the stealth  *)
(* key of, at the index and under the r of this transaction.               *)
(*                                                                         *)
(* The indexes of change are bits, and no index is compared with their     *)
(* number: one past the last of them is a bit of the fields behind.        *)
(***************************************************************************)
EXTENDS Integers, Sequences, FiniteSets, Sums

CONSTANTS
  Amounts,     \* the amounts the host uses
  AmountBits,  \* the width of an amount: 64
  FeeBits,     \* the width of tx_fee, an unsigned int: 32
  CountBits,   \* the width of tx_ins_count and tx_outs_current_index, as wide: 32
  Room,        \* the bits of tx_change_idx: 400
  Gap,         \* the bits between it and tx_outs_current_index, which is aligned: 16
  Indexes,     \* the output indexes the host gives, any unsigned int
  Payees,      \* addresses of others
  Own,         \* the device's own address
  NoAddress,   \* no address at all: dest_Aout and dest_Bout before they are set
  MaxHashed,   \* bound: what one hash context absorbs
  MaxCounted   \* bound: the inputs, and the outputs, since they were counted from 0

ASSUME WidthAssumption ==
  /\ AmountBits \in Nat \ {0} /\ FeeBits \in Nat \ {0} /\ CountBits \in Nat \ {0}
  /\ 2^FeeBits <= 2^AmountBits
  /\ Amounts \subseteq 0 .. 2^AmountBits - 1
ASSUME LayoutAssumption == Room \in Nat /\ Gap \in Nat /\ Indexes \subseteq Nat
ASSUME AddressAssumption == Own \notin Payees /\ NoAddress \notin Payees \cup {Own}
ASSUME PrefixBounds == MaxHashed \in Nat /\ MaxCounted \in Nat

VARIABLES
  tx_in_progress,
  real,                   \* sig_mode = TRANSACTION_CREATE_REAL
  tx_ins_count, tx_ins_amount, tx_outs_amount, tx_total_amount,
  tx_outs_current_index,
  tx_change_idx,          \* the bits that are set of it, and of the gap behind it
  dest,                   \* dest_Aout, dest_Bout
  keccakH,                \* what the hash context absorbed
  shown,                  \* the question on the screen
  waiting,                \* a command is not answered yet
  strayed                 \* history: tx_outs_current_index was written as an index of change
                          \* since outputs were last counted from 0

sumVars    == << tx_ins_count, tx_ins_amount, tx_outs_amount, tx_total_amount,
                 tx_outs_current_index, strayed >>
outVars    == << tx_change_idx, dest >>
prefixVars == << tx_in_progress, real, sumVars, outVars, keccakH, shown, waiting >>

-----------------------------------------------------------------------------
(***************************************************************************)
(* What is hashed, and what is shown                                       *)
(***************************************************************************)
Addresses == Payees \cup {Own, NoAddress}

\* An amount of more than half the range has no varint: nothing of it is hashed.
NoVarint == 2^AmountBits
encode_varint(a) == IF a > (2^AmountBits - 1) \div 2 THEN NoVarint ELSE a

\* An item is a command whose fields were absorbed: the amount it was sent with, and what
\* the hash holds of this amount.
Item(kind, a, to, change) ==
  [kind |-> kind, amount |-> a, hashed |-> encode_varint(a), to |-> to, change |-> change]
Start  == Item("start", 0, NoAddress, FALSE)   \* version, unlock time, number of inputs
In(a)  == Item("in", a, NoAddress, FALSE)
Out(a, to, change) == Item("out", a, to, change)
Extra  == Item("extra", 0, NoAddress, FALSE)   \* the extra field, and the number of outputs
Other  == Item("other", 0, NoAddress, FALSE)   \* anything that is no part of a prefix

\* A sum in an integer of a given width.
Wrap(n, bits) == n % 2^bits

Nothing == [ask |-> "nothing", amount |-> 0, to |-> NoAddress]

Ask(what, amount, to) ==
  /\ shown' = [ask |-> what, amount |-> amount, to |-> to]
  /\ waiting' = TRUE

\* INS_VALIDATE asks about a fee or an amount of its own: module Prehash tells which.
AskOfPrehash == Ask("prehash", 0, NoAddress)

\* The hash context holds a prefix, from its start, and perhaps more.
HoldsPrefix(h) == h # << >> /\ Head(h) = Start

\* Absorb more: a prefix is kept item by item, as far as the bound goes; what did not
\* begin as a prefix never becomes one.
Absorb(item) ==
  IF HoldsPrefix(keccakH)
  THEN Len(keccakH) < MaxHashed /\ keccakH' = Append(keccakH, item)
  ELSE keccakH' = << Other >>

\* Mutant of electroneum_reset_tx: the hash of the transaction goes on.
reset_tx_keeps_hash == tx_in_progress' = FALSE /\ UNCHANGED << keccakH, sumVars, outVars >>

\* electroneum_reset_tx wipes the hash, but neither the sums nor the change indexes.
reset_tx ==
  /\ tx_in_progress' = FALSE
  /\ keccakH' = << >>
  /\ UNCHANGED << sumVars, outVars >>

\* electroneum_init_private_key derives the AES key with the context of the
\* prefix, and leaves it finished and not initialised again.
init_private_key == keccakH' = << Other >>

-----------------------------------------------------------------------------
(***************************************************************************)
(* Around the prefix                                                       *)
(***************************************************************************)
open_tx ==
  /\ ~waiting
  /\ tx_in_progress' = TRUE
  /\ keccakH' = << >>
  /\ UNCHANGED << real, sumVars, outVars, shown, waiting >>

\* A close, or any command that throws.
end_tx ==
  /\ ~waiting
  /\ reset_tx
  /\ UNCHANGED << real, shown, waiting >>

set_signature_mode ==
  /\ ~waiting
  /\ real' \in BOOLEAN
  /\ UNCHANGED << tx_in_progress, sumVars, outVars, keccakH, shown, waiting >>

InTx == tx_in_progress /\ ~waiting

\* Where tx_outs_current_index lies, counted in bits from the first index of change.
CounterBits == Room + Gap .. Room + Gap + CountBits - 1

\* A bit of an integer, and the counter (there is one) that has this bit set and the others
\* of the integer.
Bit(n, k)     == (n \div 2^k) % 2
WithBit(n, k) == {m \in 0 .. 2^CountBits - 1 :
                    \A j \in 0 .. CountBits - 1 : Bit(m, j) = IF j = k THEN 1 ELSE Bit(n, j)}

\* What the bit of an output's index reads: behind the counter lies the destination,
\* whose bits may be any.
ChangeBit(i) ==
  IF i < Room + Gap THEN {i \in tx_change_idx}
  ELSE IF i \in CounterBits THEN {Bit(tx_outs_current_index, i - (Room + Gap)) = 1}
  ELSE BOOLEAN

\* The indexes are cleared, and the gap behind them is not.
clear_change_idx == tx_change_idx' = {i \in tx_change_idx : i >= Room}

\* An output is change: the bit of its index is set, wherever it lies.  Further out it
\* damages the destination, or what lies behind, which is none of these variables.
set_change_bit(i) ==
  \/ /\ i < Room + Gap
     /\ tx_change_idx' = tx_change_idx \cup {i}
     /\ UNCHANGED << tx_outs_current_index, strayed, dest >>
  \/ /\ i \in CounterBits
     /\ tx_outs_current_index' \in WithBit(tx_outs_current_index, i - (Room + Gap))
     /\ strayed' = TRUE
     /\ UNCHANGED outVars
  \/ /\ i >= Room + Gap + CountBits
     /\ dest' \in Addresses
     /\ UNCHANGED << tx_outs_current_index, strayed, tx_change_idx >>

\* INS_GEN_TXOUT_KEYS: the host says which outputs are change, and who is paid
\* by the last one that is not.
generate_txout_keys(i, change, to) ==
  /\ InTx
  /\ IF change
     THEN set_change_bit(i)
     ELSE dest' = to /\ UNCHANGED << tx_outs_current_index, strayed, tx_change_idx >>
  /\ UNCHANGED << tx_in_progress, real, tx_ins_count, tx_ins_amount, tx_outs_amount,
                  tx_total_amount, keccakH, shown, waiting >>

-----------------------------------------------------------------------------
(***************************************************************************)
(* The prefix                                                              *)
(***************************************************************************)
\* Mutant of tx_prefix_start: the total for the destination is not cleared.
tx_prefix_start_keeps_total ==
  /\ InTx
  /\ tx_ins_count' = 0 /\ tx_ins_amount' = 0 /\ tx_outs_amount' = 0
  /\ tx_outs_current_index' = 0 /\ strayed' = FALSE
  /\ keccakH' = << Start >>
  /\ UNCHANGED << tx_in_progress, real, tx_total_amount, outVars, shown, waiting >>

tx_prefix_start ==
  /\ InTx
  /\ tx_ins_count' = 0 /\ tx_ins_amount' = 0 /\ tx_outs_amount' = 0
  /\ tx_outs_current_index' = 0 /\ strayed' = FALSE /\ tx_total_amount' = 0
  /\ keccakH' = << Start >>
  /\ UNCHANGED << tx_in_progress, real, outVars, shown, waiting >>

tx_prefix_inputs(amount) ==
  /\ InTx
  /\ tx_ins_count < MaxCounted
  /\ Absorb(In(amount))
  /\ tx_ins_amount' = Wrap(tx_ins_amount + amount, AmountBits)
  /\ tx_ins_count' = Wrap(tx_ins_count + 1, CountBits)
  /\ UNCHANGED << tx_in_progress, real, tx_outs_amount, tx_total_amount,
                  tx_outs_current_index, strayed, outVars, shown, waiting >>

\* The address the device recomputes the output's key from.
Expected(is_change) == IF is_change THEN Own ELSE dest

\* The recomputed key is the output's key: the indexes are cleared and false is
\* returned, which is no status word, so no answer is sent.
tx_prefix_outputs_matches(to) ==
  /\ InTx
  /\ \E is_change \in ChangeBit(tx_outs_current_index) : to = Expected(is_change)
  /\ clear_change_idx
  /\ waiting' = TRUE
  /\ UNCHANGED << tx_in_progress, real, sumVars, dest, keccakH, shown >>

\* It is not: the output is taken.
tx_prefix_outputs(amount, to) ==
  /\ InTx
  /\ tx_outs_current_index < MaxCounted
  /\ \E is_change \in ChangeBit(tx_outs_current_index) :
       /\ to # Expected(is_change)
       /\ Absorb(Out(amount, to, is_change))
       /\ tx_total_amount' =
            IF is_change THEN tx_total_amount ELSE Wrap(tx_total_amount + amount, AmountBits)
  /\ tx_outs_amount' = Wrap(tx_outs_amount + amount, AmountBits)
  /\ tx_outs_current_index' = Wrap(tx_outs_current_index + 1, CountBits)
  /\ UNCHANGED << tx_in_progress, real, tx_ins_count, tx_ins_amount, strayed, outVars,
                  shown, waiting >>

tx_prefix_outputs_size ==
  /\ InTx
  /\ Absorb(Extra)
  /\ UNCHANGED << tx_in_progress, real, sumVars, outVars, shown, waiting >>

\* The hash is finished, which initialises its context again.
tx_prefix_extra ==
  /\ InTx
  /\ keccakH' = << >>
  /\ clear_change_idx
  /\ UNCHANGED << tx_in_progress, real, sumVars, dest, shown, waiting >>

-----------------------------------------------------------------------------
(***************************************************************************)
(* The user                                                                *)
(***************************************************************************)
\* Mutant of tx_prompt_amount: what is shown is all that goes out, change included.
tx_prompt_amount_shows_all ==
  /\ InTx /\ real
  /\ IF tx_total_amount > 0
     THEN Ask("amount", tx_outs_amount, dest)
     ELSE Ask("loopback", tx_outs_amount, NoAddress)
  /\ UNCHANGED << tx_in_progress, real, sumVars, outVars, keccakH >>

\* What leaves for the destination; when nothing does, the transaction is a
\* loopback, and all of it is shown.
tx_prompt_amount ==
  /\ InTx /\ real
  /\ IF tx_total_amount > 0
     THEN Ask("amount", tx_total_amount, dest)
     ELSE Ask("loopback", tx_outs_amount, NoAddress)
  /\ UNCHANGED << tx_in_progress, real, sumVars, outVars, keccakH >>

\* Mutant of tx_prompt_fee: the difference is taken in a signed integer.
tx_prompt_fee_signed ==
  /\ InTx /\ real
  /\ Ask("fee", tx_ins_amount - tx_outs_amount, NoAddress)
  /\ UNCHANGED << tx_in_progress, real, sumVars, outVars, keccakH >>

\* The field tx_fee is narrower than an amount; nothing else reads it.
tx_prompt_fee ==
  /\ InTx /\ real
  /\ LET tx_fee == Wrap(Wrap(tx_ins_amount - tx_outs_amount, AmountBits), FeeBits)
     IN  Ask("fee", tx_fee, NoAddress)
  /\ UNCHANGED << tx_in_progress, real, sumVars, outVars, keccakH >>

validation_action(accept) ==
  /\ shown # Nothing
  /\ shown' = Nothing
  /\ waiting' = FALSE
  /\ IF accept
     THEN UNCHANGED << tx_in_progress, sumVars, outVars, keccakH >>
     ELSE reset_tx
  /\ UNCHANGED real

\* The device is locked, and unlocked before the next command.
Unlock ==
  /\ init_private_key
  /\ UNCHANGED << tx_in_progress, real, sumVars, outVars, shown, waiting >>

-----------------------------------------------------------------------------
(***************************************************************************)
(* The challenge                                                           *)
(***************************************************************************)
hash_to_scalar_init ==
  /\ InTx
  /\ keccakH' = << Other >>
  /\ UNCHANGED << tx_in_progress, real, sumVars, outVars, shown, waiting >>

hash_to_scalar_batch ==
  /\ InTx
  /\ Absorb(Other)
  /\ UNCHANGED << tx_in_progress, real, sumVars, outVars, shown, waiting >>

hash_to_scalar ==
  /\ InTx
  /\ keccakH' = << >>
  /\ UNCHANGED << tx_in_progress, real, sumVars, outVars, shown, waiting >>

-----------------------------------------------------------------------------
(***************************************************************************)
(* INS_VALIDATE and INS_MLSAG, which use the context of the prefix         *)
(***************************************************************************)
\* The first part of a real transaction initialises the context and asks; any other
\* part is absorbed.
mlsag_prehash_init ==
  /\ InTx
  /\ \/ real /\ keccakH' = << Other >> /\ AskOfPrehash
     \/ Absorb(Other) /\ UNCHANGED << shown, waiting >>
  /\ UNCHANGED << tx_in_progress, real, sumVars, outVars >>

\* An amount that is not 0 is shown in a real transaction.
mlsag_prehash_update ==
  /\ InTx
  /\ Absorb(Other)
  /\ (real /\ AskOfPrehash) \/ UNCHANGED << shown, waiting >>
  /\ UNCHANGED << tx_in_progress, real, sumVars, outVars >>

\* More is absorbed, or the prehash is finished.
mlsag_prehash_finalize ==
  /\ InTx
  /\ Absorb(Other) \/ keccakH' = << >>
  /\ UNCHANGED << tx_in_progress, real, sumVars, outVars, shown, waiting >>

\* The context is initialised for the first part, and finished after the last.
mlsag_hash ==
  /\ InTx
  /\ keccakH' = << Other >> \/ Absorb(Other) \/ keccakH' = << >>
  /\ UNCHANGED << tx_in_progress, real, sumVars, outVars, shown, waiting >>

-----------------------------------------------------------------------------
\* electroneum_init, after a restart, a transport reset, INS_RESET or a reset from the menu.
electroneum_init ==
  /\ tx_in_progress' = FALSE /\ real' = FALSE
  /\ tx_ins_count' = 0 /\ tx_ins_amount' = 0 /\ tx_outs_amount' = 0
  /\ tx_outs_current_index' = 0 /\ strayed' = FALSE /\ tx_total_amount' = 0
  /\ tx_change_idx' = {} /\ dest' = NoAddress
  /\ init_private_key
  /\ shown' = Nothing /\ waiting' = FALSE

Init ==
  /\ tx_in_progress = FALSE /\ real = FALSE
  /\ tx_ins_count = 0 /\ tx_ins_amount = 0 /\ tx_outs_amount = 0
  /\ tx_outs_current_index = 0 /\ strayed = FALSE /\ tx_total_amount = 0
  /\ tx_change_idx = {} /\ dest = NoAddress
  /\ keccakH = << Other >>
  /\ shown = Nothing /\ waiting = FALSE

Next ==
  \/ open_tx \/ end_tx \/ set_signature_mode
  \/ \E i \in Indexes, change \in BOOLEAN, to \in Payees : generate_txout_keys(i, change, to)
  \/ tx_prefix_start \/ tx_prefix_outputs_size \/ tx_prefix_extra
  \/ \E a \in Amounts : tx_prefix_inputs(a)
  \/ \E a \in Amounts, to \in Payees \cup {Own} : tx_prefix_outputs(a, to)
  \/ \E to \in Payees \cup {Own} : tx_prefix_outputs_matches(to)
  \/ tx_prompt_amount \/ tx_prompt_fee
  \/ \E accept \in BOOLEAN : validation_action(accept)
  \/ hash_to_scalar_init \/ hash_to_scalar_batch \/ hash_to_scalar
  \/ mlsag_prehash_init \/ mlsag_prehash_update \/ mlsag_prehash_finalize \/ mlsag_hash
  \/ Unlock \/ electroneum_init

Spec == Init /\ [][Next]_prefixVars

-----------------------------------------------------------------------------
(***************************************************************************)
(* Properties                                                              *)
(***************************************************************************)
Kinds     == {"start", "in", "out", "extra", "other"}
Questions == {"nothing", "amount", "loopback", "fee", "prehash"}
Items     == [kind : Kinds, amount : 0 .. 2^AmountBits - 1, hashed : 0 .. NoVarint,
              to : Addresses, change : BOOLEAN]

\* Every variable has its type and every sum its width.
TypeOK ==
  /\ tx_in_progress \in BOOLEAN /\ real \in BOOLEAN /\ waiting \in BOOLEAN /\ strayed \in BOOLEAN
  /\ {tx_ins_count, tx_outs_current_index} \subseteq 0 .. 2^CountBits - 1
  /\ {tx_ins_amount, tx_outs_amount, tx_total_amount} \subseteq 0 .. 2^AmountBits - 1
  /\ tx_change_idx \subseteq 0 .. Room + Gap - 1
  /\ dest \in Addresses
  /\ keccakH \in Seq(Items)
  /\ shown \in [ask : Questions, amount : 0 .. 2^AmountBits - 1, to : Addresses]

\* What goes in by a prefix, what goes out, and what goes out to somebody else.
Ins(h)   == Sum([i \in DOMAIN h |-> IF h[i].kind = "in" THEN h[i].amount ELSE 0])
Outs(h)  == Sum([i \in DOMAIN h |-> IF h[i].kind = "out" THEN h[i].amount ELSE 0])
Paid(h)  == Sum([i \in DOMAIN h |-> IF h[i].kind = "out" /\ ~h[i].change THEN h[i].amount ELSE 0])
Count(h, kind) == Cardinality({i \in DOMAIN h : h[i].kind = kind})

\* The sums are the sums of exactly the commands the hash absorbed, in every order of
\* commands, across errors, refused transactions and unlocks: as long as the hash holds a
\* prefix, no input or output was counted that it did not absorb, none was absorbed and not
\* counted, and what it holds of an amount is this amount, or nothing for one that has no
\* varint.  The one counter an index of change can reach, if the host gives one behind
\* tx_change_idx (electroneum_key.c:838), is right until one does.
CountsWhatIsHashed ==
  HoldsPrefix(keccakH) =>
    /\ tx_ins_count = Wrap(Count(keccakH, "in"), CountBits)
    /\ ~strayed => tx_outs_current_index = Wrap(Count(keccakH, "out"), CountBits)
    /\ tx_ins_amount = Wrap(Ins(keccakH), AmountBits)
    /\ tx_outs_amount = Wrap(Outs(keccakH), AmountBits)
    /\ tx_total_amount = Wrap(Paid(keccakH), AmountBits)
    /\ \A i \in DOMAIN keccakH : keccakH[i].hashed \in {keccakH[i].amount, NoVarint}

\* What INS_TX_PROMPT_* ask about is all that leaves by the prefix being hashed, whatever
\* else was absorbed, asked and refused before: the amount is what is paid, a loopback pays
\* nobody and shows all, and the fee is what goes in and not out, each as long as it fits
\* its field, whether or not the other sums do.
ShownIsPaid ==
  LET paid == Paid(keccakH)
      all  == Outs(keccakH)
      fee  == Ins(keccakH) - all
  IN  HoldsPrefix(keccakH) =>
        /\ shown.ask = "amount" /\ paid < 2^AmountBits => shown.amount = paid /\ paid > 0
        /\ shown.ask = "loopback" /\ paid < 2^AmountBits => paid = 0
        /\ shown.ask = "loopback" /\ all < 2^AmountBits => shown.amount = all
        /\ shown.ask = "fee" /\ 0 <= fee /\ fee < 2^FeeBits => shown.amount = fee

\* A transaction that ended, however it ended, leaves no half-hashed prefix that the
\* next one could go on with.
NoPrefixOutsideTx == ~tx_in_progress => ~HoldsPrefix(keccakH)

\* "To ensure the outputs are really going to their intended destination, we need to
\* check that the stealth addresses correspond" (electroneum_prehash.c:322): an output
\* that was hashed as change comes back to the device.
ChangeComesBack ==
  HoldsPrefix(keccakH) =>
    \A i \in DOMAIN keccakH : keccakH[i].kind = "out" /\ keccakH[i].change => keccakH[i].to = Own
=============================================================================
