------------------------------ MODULE IoBuffer ------------------------------
(***************************************************************************)
(* The IO buffer (electroneum_io.c), the loop that fills and sends it      *)
(* (electroneum_main.c), and what every handler takes from it and puts in  *)
(* it.  A command is read from, and its answer built in, the same 300      *)
(* bytes, by way of one offset and one length that all handlers move.      *)
(*                                                                         *)
(* A byte is the field it belongs to and its place there; what earlier     *)
(* commands left behind is Old.  A handler is the sequence of its calls on *)
(* the buffer, and nothing interrupts it.                                  *)
(***************************************************************************)
EXTENDS Numbers, SequencesExt

CONSTANTS
  PrefixNumbers,  \* numbers of a transaction prefix
  ScreenAmounts,  \* amounts to be shown
  ExtraSizes,     \* sizes of an extra field that a command can hold
  ClaimedSizes,   \* sizes of an extra field that none can
  INT_LIMIT,      \* the least number that is no int: 2^31
  Cuts            \* how many bytes at the end of a command a host may leave out

ELECTRONEUM_IO_BUFFER_LENGTH == 300
MAX_OUT == 254

\* Nothing of 2^63 or more is encoded, so no number takes more than nine bytes.
ASSUME PrefixAssumption == \A n \in PrefixNumbers : n \in Nat /\ Len(encode_varint(n)) <= 9

\* The longest extra field a command can hold: 255 bytes without options and size.
ASSUME ExtraAssumption == ExtraSizes \subseteq 0 .. 250

\* Any other number of 32 bits that a host can write in front of an extra field.
ASSUME ClaimAssumption ==
  /\ INT_LIMIT \in Nat /\ INT_LIMIT > 251
  /\ ClaimedSizes \subseteq 251 .. 2 * INT_LIMIT - 1
  /\ \A size \in ClaimedSizes : Len(encode_varint(size)) <= 9

ASSUME CutAssumption == Cuts \subseteq Nat

\* The digits of a number of 64 bits, the first of them not 0 (electroneum_crypto.c:839).
ASSUME AmountAssumption ==
  \A amount \in ScreenAmounts :
    amount \in Seq(0 .. 9) /\ Len(amount) <= 20 /\ (amount # << >> => amount[1] # 0)

VARIABLES
  io,       \* io_buffer, io_offset, io_length, and what the handlers see and do
  phase,    \* "waiting" for a command, "received", "answering", "asking" or "silent"
  command,  \* the command that was received last
  answer    \* the bytes sent for it, once they are

ioVars == << io, phase, command, answer >>

-----------------------------------------------------------------------------
(***************************************************************************)
(* Bytes                                                                   *)
(***************************************************************************)
Zero == << "zero", 0 >>
Old  == << "old", 0 >>
Field(what, size) == [i \in 1 .. size |-> << what, i >>]
Varint(n) == [i \in DOMAIN encode_varint(n) |-> << "varint", encode_varint(n)[i] >>]

\* A sealed secret: in a transaction its HMAC follows it, as bytes 33 to 64.
SealedSize(tx) == IF tx THEN 64 ELSE 32

\* The buffer with some bytes over those at an offset.
Over(buffer, offset, bytes) ==
  [i \in DOMAIN buffer |->
     IF i \in offset + 1 .. offset + Len(bytes) THEN bytes[i - offset] ELSE buffer[i]]

-----------------------------------------------------------------------------
(***************************************************************************)
(* electroneum_io.c                                                        *)
(***************************************************************************)
Fails(s, error) == [s EXCEPT !.error = error]

\* Mutant of Available: what counts is the buffer and not the command.
Available_in_buffer(s, size) == ELECTRONEUM_IO_BUFFER_LENGTH - s.offset >= size

\* electroneum_io_assert_available
Available(s, size) == s.length - s.offset >= size

Holds(s, place, what, size) == SubSeq(s.buffer, place + 1, place + size) = Field(what, size)

\* The bytes at a place are the field a handler takes them for; if not, it is noted.
Read(s, place, what, size) ==
  IF Holds(s, place, what, size) THEN s ELSE [s EXCEPT !.misread = @ \cup {what}]

\* A pointer into the buffer, taken now and read later.
Points(s, what) ==
  [s EXCEPT !.at = [x \in DOMAIN @ \cup {what} |-> IF x = what THEN s.offset ELSE @[x]]]

\* A fetch goes on by step bytes if it can take so many.
Take(s, what, size, needs, step) ==
  IF Available(s, needs)
  THEN [Read(s, s.offset, what, size) EXCEPT !.offset = @ + step]
  ELSE Fails(s, "SW_WRONG_LENGTH")

fetch(s, what, size) == Take(s, what, size, size, size)

\* An unsigned int where an int is wanted.
Signed(size) == IF size < INT_LIMIT THEN size ELSE size - 2 * INT_LIMIT

\* A fetch into NULL of as many bytes as the host says.  Where the offset goes to is lost in
\* the discard that comes next.
skip(s, size) == IF Available(s, Signed(size)) THEN s ELSE Fails(s, "SW_WRONG_LENGTH")

\* In a transaction other bytes than a sealed secret have no valid HMAC behind them.
fetch_decrypt(s, what) ==
  IF s.tx /\ Available(s, 64) /\ ~Holds(s, s.offset, what, 64)
  THEN Fails(s, "SW_SECURITY_TRUSTED_INPUT")
  ELSE Take(s, what, 32, SealedSize(s.tx), SealedSize(s.tx))

\* The placeholder of the spend key is left at its HMAC.
fetch_decrypt_key(s, what) ==
  IF s.keys = "spend" /\ Holds(s, s.offset, what, 32)
  THEN Take(s, what, 32, SealedSize(s.tx), 32)
  ELSE fetch_decrypt(s, what)

\* Mutant of discard: the offset stays where the command was read to.
discard_length(s, clear) ==
  [s EXCEPT !.length = 0, !.buffer = IF clear THEN [i \in DOMAIN @ |-> Zero] ELSE @]

discard(s, clear) ==
  [s EXCEPT !.offset = 0, !.length = 0,
            !.buffer = IF clear THEN [i \in DOMAIN @ |-> Zero] ELSE @]

\* electroneum_io_hole moves what is behind the offset, and the bytes go in between.
insert(s, bytes) ==
  LET moved == SubSeq(s.buffer, s.offset + 1, s.length)
  IN  IF s.length + Len(bytes) > ELECTRONEUM_IO_BUFFER_LENGTH
      THEN Fails(s, "ERROR_IO_FULL")
      ELSE [s EXCEPT !.buffer = Over(@, s.offset, bytes \o moved),
                     !.offset = @ + Len(bytes), !.length = @ + Len(bytes)]

\* A handler means to answer these bytes.
Put(s, bytes) == [insert(s, bytes) EXCEPT !.put = @ \o bytes]

\* What the extra field is copied from is where it was received, whatever is there now.
insert_from_buffer(s, what, size) ==
  [insert(s, SubSeq(s.buffer, s.at[what] + 1, s.at[what] + size)) EXCEPT !.put = @ \o Field(what, size)]

\* The address is written in place; then electroneum_io_inserted counts it.  The characters
\* its encoding leaves out stay as discard cleared them: see Screens.
insert_address(s) ==
  [s EXCEPT !.buffer = Over(@, s.offset, Field("address", 98)), !.offset = @ + 98,
            !.length = @ + 98, !.put = @ \o Field("address", 98)]

-----------------------------------------------------------------------------
(***************************************************************************)
(* Calls of the handlers                                                   *)
(***************************************************************************)
Call(op, what, size) == [op |-> op, what |-> what, size |-> size, amount |-> << >>]

Fetch(what, size) == Call("fetch", what, size)
Point(what, size) == Call("point", what, size)  \* fetch into NULL, and a pointer to it
Peek(what, size)  == Call("peek", what, size)   \* a pointer, without a fetch or a check
Use(what, size)   == Call("use", what, size)    \* read by way of the pointer
Sealed(what)      == Call("fetch_decrypt", what, 32)
Key(what)         == Call("fetch_decrypt_key", what, 32)
Rest(what, size)  == Call("rest", what, size)   \* bytes that are not fetched
Skip(what, size)  == Call("skip", what, size)
Fault             == Call("fault", "", 0)       \* memory is read that there is not
Exactly(size)     == Call("exactly", "", size)
Discard(clear)    == Call(IF clear THEN "clear" ELSE "discard", "", 0)
Insert(what, size) == Call("insert", what, size)
Seal(what)        == Call("insert_encrypt", what, 32)
Number(n)         == Call("add_to_tx_prefix", "varint", n)
Extra(size)       == Call("insert_extra", "extra", size)
Address           == Call("insert_address", "address", 98)
Scribble(size)    == Call("scribble", "", size) \* the buffer as scratch space
Show(amount)      == [Call("amount2str", "", 15) EXCEPT !.amount = amount]
SetTx(open)       == Call(IF open THEN "open" ELSE "close", "", 0)
Ask               == Call("ends", "asking", 0)  \* return 0 with a question
Never             == Call("ends", "silent", 0)  \* return 0 without one

Do(s, c) ==
  IF s.error # "none" THEN s ELSE
  CASE c.op = "fetch" -> fetch(s, c.what, c.size)
    [] c.op = "point" -> IF Available(s, c.size)
                         THEN [Points(s, c.what) EXCEPT !.offset = @ + c.size]
                         ELSE Fails(s, "SW_WRONG_LENGTH")
    [] c.op = "peek" -> Points(s, c.what)
    [] c.op = "use" -> Read(s, s.at[c.what], c.what, c.size)
    [] c.op = "fetch_decrypt" -> fetch_decrypt(s, c.what)
    [] c.op = "fetch_decrypt_key" -> fetch_decrypt_key(s, c.what)
    [] c.op = "rest" -> s
    [] c.op = "skip" -> skip(s, c.size)
    [] c.op = "fault" -> Fails(s, "exception")
    [] c.op = "exactly" -> IF s.length = c.size THEN s ELSE Fails(s, "SW_WRONG_LENGTH")
    [] c.op \in {"discard", "clear"} -> discard(s, c.op = "clear")
    [] c.op = "insert" -> Put(s, Field(c.what, c.size))
    [] c.op = "insert_encrypt" -> Put(s, Field(c.what, SealedSize(s.tx)))
    [] c.op = "add_to_tx_prefix" -> Put(s, Varint(c.size))
    [] c.op = "insert_extra" -> insert_from_buffer(s, c.what, c.size)
    [] c.op = "insert_address" -> insert_address(s)
    [] c.op = "scribble" -> [s EXCEPT !.buffer = Over(@, 0, [i \in 1 .. c.size |-> Old])]
    [] c.op = "amount2str" -> [s EXCEPT !.shown = @ \cup {<< c.amount, amount2str(c.amount, c.size) >>}]
    [] c.op \in {"open", "close"} -> [s EXCEPT !.tx = c.op = "open"]
    [] c.op = "ends" -> [s EXCEPT !.ends = c.what]

\* The states a handler goes through, call by call; and the one it leaves.
Runs(s, calls) ==
  LET after[n \in 0 .. Len(calls)] == IF n = 0 THEN s ELSE Do(after[n - 1], calls[n])
  IN  after
Run(s, calls) == Runs(s, calls)[Len(calls)]

\* What a host sends for these calls, in or out of a transaction.
Sent(c, tx) ==
  CASE c.op \in {"fetch", "point", "peek", "rest"} -> Field(c.what, c.size)
    [] c.op \in {"fetch_decrypt", "fetch_decrypt_key"} -> Field(c.what, SealedSize(tx))
    [] OTHER -> << >>
Data(calls, tx) == FlattenSeq([i \in DOMAIN calls |-> Sent(calls[i], tx)])

-----------------------------------------------------------------------------
(***************************************************************************)
(* The handlers                                                            *)
(***************************************************************************)
Command(name, calls) == [name |-> name, calls |-> << Fetch("options", 1) >> \o calls]

apdu_reset ==
  Command("reset", << Exactly(8), Fetch("version", 7), Discard(TRUE), SetTx(FALSE), Insert("number", 3) >>)

\* Options and four keys make 129 bytes, so the address is taken to have 97.
put_key ==
  Command("put_key", << Exactly(226), Fetch("a", 32), Fetch("A", 32), Fetch("b", 32), Fetch("B", 32),
                        Rest("address", 97), Discard(TRUE) >>)

get_public_key ==
  Command("get_public_key", << Discard(TRUE), Insert("A", 32), Insert("B", 32), Address >>)

get_view_key       == Command("get_view_key", << Discard(TRUE), Ask >>)
get_view_key_again == Command("get_view_key_again", << Discard(TRUE), Insert("a", 32) >>)

\* Mutant of display_address: the command is left in the buffer.
display_address_kept == Command("display_address", << Fetch("index", 8), Fetch("payment_id", 8), Ask >>)

display_address ==
  Command("display_address", << Fetch("index", 8), Fetch("payment_id", 8), Discard(FALSE), Ask >>)

\* The words are looked for up to the end of the buffer.  Then the first P2 letters of 24
\* words are put together in the buffer; here P2 is 4, the most that a list of the tool has
\* (nothing stops a host that writes 13 or more from leaving the buffer).
manage_seedwords ==
  Command("manage_seedwords", << Fetch("w_start", 4), Fetch("w_count", 4), Peek("words", 230),
                                 Use("words", 230), Discard(TRUE), Scribble(96) >>)

manage_seedwords_clear == Command("manage_seedwords_clear", << Discard(FALSE) >>)

\* Another P1: nothing is done, and the command stays in the buffer.
manage_seedwords_other == Command("manage_seedwords_other", << Rest("words", 8) >>)

verify_key ==
  Command("verify_key", << Key("priv"), Fetch("pub", 32), Discard(TRUE), Insert("verified", 4) >>)

get_chacha8_prekey == Command("get_chacha8_prekey", << Discard(FALSE), Insert("prekey", 200) >>)

sc_add == Command("sc_add", << Sealed("s1"), Sealed("s2"), Discard(FALSE), Seal("r") >>)

sc_sub == Command("sc_sub", << Sealed("s1"), Sealed("s2"), Discard(FALSE), Seal("r") >>)

scalar_mulsub ==
  Command("scalar_mulsub", << Fetch("c", 32), Sealed("x"), Sealed("q"), Discard(FALSE), Insert("r", 32) >>)

scal_mul_key ==
  Command("scal_mul_key", << Fetch("pub", 32), Key("sec"), Discard(FALSE), Insert("r", 32) >>)

scal_mul_base == Command("scal_mul_base", << Sealed("sec"), Discard(FALSE), Insert("r", 32) >>)

generate_keypair ==
  Command("generate_keypair", << Discard(FALSE), Insert("pub", 32), Seal("sec") >>)

secret_key_to_public_key ==
  Command("secret_key_to_public_key", << Sealed("sec"), Discard(FALSE), Insert("pub", 32) >>)

generate_key_derivation ==
  Command("generate_key_derivation", << Fetch("pub", 32), Key("sec"), Discard(FALSE), Seal("drv") >>)

derivation_to_scalar ==
  Command("derivation_to_scalar", << Sealed("derivation"), Fetch("output_index", 4), Discard(FALSE), Seal("res") >>)

derive_public_key ==
  Command("derive_public_key", << Sealed("derivation"), Fetch("output_index", 4), Fetch("pub", 32),
                                  Discard(FALSE), Insert("drvpub", 32) >>)

derive_secret_key ==
  Command("derive_secret_key", << Sealed("derivation"), Fetch("output_index", 4), Key("sec"),
                                  Discard(FALSE), Seal("drvsec") >>)

generate_key_image ==
  Command("generate_key_image", << Fetch("pub", 32), Sealed("sec"), Discard(FALSE), Insert("image", 32) >>)

derive_subaddress_public_key ==
  Command("derive_subaddress_public_key", << Fetch("pub", 32), Sealed("derivation"), Fetch("output_index", 4),
                                             Discard(FALSE), Insert("sub_pub", 32) >>)

get_subaddress ==
  Command("get_subaddress", << Fetch("index", 8), Discard(FALSE), Insert("C", 32), Insert("D", 32) >>)

get_subaddress_spend_public_key ==
  Command("get_subaddress_spend_public_key", << Fetch("index", 8), Discard(TRUE), Insert("D", 32) >>)

get_subaddress_secret_key ==
  Command("get_subaddress_secret_key", << Key("sec"), Fetch("index", 8), Discard(FALSE), Seal("sub_sec") >>)

unblind ==
  Command("unblind", << Sealed("AKout"), Fetch("k", 32), Fetch("v", 32), Discard(TRUE),
                        Insert("v", 32), Insert("k", 32) >>)

stealth ==
  Command("stealth", << Fetch("pub", 32), Key("sec"), Fetch("payID", 8), Discard(FALSE), Insert("payID", 8) >>)

\* The message and the points are used after the discard, and before the answer.
get_tx_proof ==
  Command("get_tx_proof", << Point("msg", 32), Point("R", 32), Point("A", 32), Point("B", 32), Point("D", 32),
                             Key("r"), Discard(FALSE), Use("msg", 32), Use("D", 32), Use("B", 32),
                             Use("A", 32), Insert("sig_c", 32), Insert("sig_r", 32) >>)

open_tx ==
  Command("open_tx", << Fetch("account", 4), Discard(TRUE), SetTx(TRUE), Insert("R", 32), Seal("r"),
                        Insert("view", 64), Insert("spend", 64) >>)

close_tx == Command("close_tx", << Discard(TRUE), SetTx(FALSE) >>)

set_signature_mode ==
  Command("set_signature_mode", << Fetch("sig_mode", 1), Discard(FALSE), Insert("sig_mode", 4) >>)

\* Without the additional key its 32 bytes are there, but no HMAC.
generate_txout_keys(tx_version, additional) ==
  Command("generate_txout_keys",
    << Fetch("tx_version", 4), Key("tx_key"), Point("txkey_pub", 32), Point("Aout", 32), Point("Bout", 32),
       Fetch("output_index", 4), Fetch("is_change", 1), Fetch("is_subaddress", 1),
       Fetch("need_additional_txkeys", 1),
       IF additional THEN Key("additional_txkey") ELSE Point("additional_txkey", 32),
       Use("Aout", 32), Use("Bout", 32), Use("txkey_pub", 32),
       Discard(FALSE) >>
    \o (IF tx_version > 1 THEN << Seal("amount_key") >> ELSE << >>)
    \o << Insert("out_eph_public_key", 32) >>
    \o IF additional THEN << Insert("additional_txkey_pub", 32) >> ELSE << >>)

blind ==
  Command("blind", << Sealed("AKout"), Fetch("k", 32), Fetch("v", 32), Discard(TRUE),
                      Insert("v", 32), Insert("k", 32) >>)

gen_commitment_mask == Command("gen_commitment_mask", << Sealed("AKout"), Discard(TRUE), Insert("k", 32) >>)

\* All of the command is hashed; the first one holds a type and the fee, and the fee is
\* read as far as its varint goes.
mlsag_prehash_init(amount) ==
  Command("mlsag_prehash_init", << Fetch("type", 1), Peek("fee", 5), Use("fee", 5), Show(amount), Discard(TRUE), Ask >>)

mlsag_prehash_init_more == Command("mlsag_prehash_init_more", << Rest("part", 32), Discard(TRUE) >>)

OutputFields(version) ==
  << Fetch("is_subaddress", 1) >> \o (IF version = 2 THEN << Fetch("is_change", 1) >> ELSE << >>)
  \o << Point("Aout", 32), Point("Bout", 32), Sealed("AKout"), Fetch("C", 32), Fetch("k", 32), Fetch("v", 32) >>

\* Mutant of mlsag_prehash_update: the buffer is cleared while the destination is used.
mlsag_prehash_update_cleared(version, amount, asks) ==
  Command("mlsag_prehash_update",
    OutputFields(version) \o << Discard(TRUE), Use("Aout", 32), Use("Bout", 32) >>
    \o IF asks THEN << Show(amount), Ask >> ELSE << >>)

\* The destination is used after the discard.  The user is asked in a real transaction,
\* if the amount is not 0.
mlsag_prehash_update(version, amount, asks) ==
  Command("mlsag_prehash_update",
    OutputFields(version) \o << Discard(FALSE), Use("Aout", 32), Use("Bout", 32) >>
    \o IF asks THEN << Show(amount), Ask >> ELSE << >>)

mlsag_prehash_finalize_more == Command("mlsag_prehash_finalize_more", << Fetch("H", 32), Discard(TRUE) >>)

mlsag_prehash_finalize ==
  Command("mlsag_prehash_finalize", << Fetch("message", 32), Fetch("proof", 32), Discard(TRUE) >>)

\* Keys come sealed, in the clear when the options say so, or not at all.
mlsag_prepare(keys) ==
  Command("mlsag_prepare",
    keys \o << Discard(TRUE), Seal("alpha"), Insert("alpha_G", 32) >>
    \o IF keys = << >> THEN << >> ELSE << Insert("alpha_Hi", 32), Insert("II", 32) >>)

mlsag_hash(first, last) ==
  Command("mlsag_hash", (IF first THEN << >> ELSE << Fetch("msg", 32) >>) \o << Discard(TRUE) >>
                        \o IF last THEN << Insert("c", 32) >> ELSE << >>)

mlsag_sign(real) ==
  Command("mlsag_sign",
    (IF real THEN << Sealed("xin"), Sealed("alpha") >> ELSE << Fetch("xin", 32), Fetch("alpha", 32) >>)
    \o << Discard(TRUE), Insert("ss2", 32), Insert("sig_mode", 4) >>)

tx_prefix_start(n) ==
  Command("tx_prefix_start", << Fetch("version", 4), Fetch("unlock_time", 4), Fetch("vins_size", 4),
                                Discard(TRUE), Number(n), Number(n), Number(n) >>)

tx_prefix_inputs(n) ==
  Command("tx_prefix_inputs", << Fetch("amount", 8), Fetch("key_offset", 4), Fetch("k_image", 32), Discard(FALSE),
                                 Number(2), Number(n), Number(1), Number(n), Insert("k_image", 32) >>)

tx_prefix_outputs(n) ==
  Command("tx_prefix_outputs", << Fetch("amount", 8), Fetch("key", 32), Fetch("output_index", 4), Discard(FALSE),
                                  Number(n), Number(2), Insert("key", 32) >>)

\* The recomputed key is the output's: false is returned, and no answer sent.
tx_prefix_outputs_matches ==
  Command("tx_prefix_outputs", << Fetch("amount", 8), Fetch("key", 32), Fetch("output_index", 4), Discard(FALSE), Never >>)

tx_prefix_outputs_size(n) ==
  Command("tx_prefix_outputs_size", << Fetch("vins_size", 4), Discard(FALSE), Number(n) >>)

\* Mutant of tx_prefix_extra: the answer is put behind the command.
tx_prefix_extra_kept(size) ==
  Command("tx_prefix_extra", << Fetch("extra_size", 4), Point("extra", size),
                                Number(size), Use("extra", size), Extra(size) >>)

\* The extra field is hashed and copied after its size was put in front of it.
tx_prefix_extra(size) ==
  Command("tx_prefix_extra", << Fetch("extra_size", 4), Point("extra", size), Discard(FALSE),
                                Number(size), Use("extra", size), Extra(size) >>)

\* No command holds more than 250 bytes of the field, but the host may claim more: one byte
\* too many stands for them.  A size of 2^31 or more is negative as an int, any command is
\* long enough for it, and the handler goes on, until it hashes memory up to that size.
tx_prefix_extra_claimed(size) ==
  Command("tx_prefix_extra", << Fetch("extra_size", 4), Rest("extra", 251), Skip("extra", size), Discard(FALSE),
                                Number(size), Fault >>)

tx_prompt_fee(amount)    == Command("tx_prompt_fee", << Show(amount), Discard(TRUE), Ask >>)
tx_prompt_amount(amount) == Command("tx_prompt_amount", << Show(amount), Discard(TRUE), Ask >>)

\* What goes back to the sender, and the number of inputs as an amount.
tx_prompt_loopback(amount) ==
  Command("tx_prompt_amount", << Show(amount), Show(<< 2, 0, 0 >>), Discard(TRUE), Ask >>)

tx_prompt_fake == Command("tx_prompt_fake", << Discard(TRUE) >>)

hash_to_scalar_init  == Command("hash_to_scalar_init", << Discard(FALSE) >>)
hash_to_scalar       == Command("hash_to_scalar", << Discard(FALSE), Insert("h", 32) >>)
hash_to_scalar_batch == Command("hash_to_scalar_batch", << Fetch("a", 32), Fetch("b", 32), Discard(FALSE) >>)

-----------------------------------------------------------------------------
(***************************************************************************)
(* Which commands there are                                                *)
(***************************************************************************)
\* check_ins_access: these are taken outside a transaction too.
FreeCommands ==
  {apdu_reset, put_key, get_public_key, get_view_key, get_view_key_again, display_address,
   manage_seedwords, manage_seedwords_clear, manage_seedwords_other, verify_key, get_chacha8_prekey,
   sc_add, sc_sub, scalar_mulsub, scal_mul_key, scal_mul_base, generate_keypair,
   secret_key_to_public_key, generate_key_derivation, derivation_to_scalar, derive_public_key,
   derive_secret_key, generate_key_image, derive_subaddress_public_key, get_subaddress,
   get_subaddress_spend_public_key, get_subaddress_secret_key, unblind, stealth, get_tx_proof,
   open_tx, close_tx, set_signature_mode}

NumberCommands ==
  UNION {{tx_prefix_start(n), tx_prefix_inputs(n), tx_prefix_outputs(n), tx_prefix_outputs_size(n)} : n \in PrefixNumbers}

ExtraCommands == {tx_prefix_extra(size) : size \in ExtraSizes}

ClaimedCommands == {tx_prefix_extra_claimed(size) : size \in ClaimedSizes}

PrefixCommands == NumberCommands \cup ExtraCommands \cup ClaimedCommands \cup {tx_prefix_outputs_matches}

AmountCommands ==
  UNION {{mlsag_prehash_init(a), tx_prompt_fee(a), tx_prompt_amount(a), tx_prompt_loopback(a),
          mlsag_prehash_update(2, a, TRUE), mlsag_prehash_update(0, a, TRUE)} : a \in ScreenAmounts}

TxCommands ==
  {generate_txout_keys(v, a) : v \in 1 .. 2, a \in BOOLEAN}
  \cup {mlsag_prepare(keys) : keys \in {<< >>, << Fetch("Hi", 32), Fetch("xin", 32) >>, << Fetch("Hi", 32), Sealed("xin") >>}}
  \cup {mlsag_hash(first, last) : first, last \in BOOLEAN} \cup {mlsag_sign(real) : real \in BOOLEAN}
  \cup {blind, gen_commitment_mask, mlsag_prehash_init_more, mlsag_prehash_update(2, << >>, FALSE),
        mlsag_prehash_finalize_more, mlsag_prehash_finalize, tx_prompt_fake,
        hash_to_scalar_init, hash_to_scalar, hash_to_scalar_batch}
  \cup PrefixCommands \cup AmountCommands

Commands == FreeCommands \cup TxCommands

\* Any key may come as the placeholder of the view key or of the spend key.
KeysOf(c) ==
  IF \E i \in DOMAIN c.calls : c.calls[i].op = "fetch_decrypt_key" THEN {"sealed", "view", "spend"} ELSE {"sealed"}

-----------------------------------------------------------------------------
(***************************************************************************)
(* The loop                                                                *)
(***************************************************************************)
Status == Field("sw", 2)

\* The end of electroneum_io_do: the data of a command come in over those of the last one.
Received(data, keys, tx, whole) ==
  [buffer |-> data \o [i \in 1 .. ELECTRONEUM_IO_BUFFER_LENGTH - Len(data) |-> Old], offset |-> 0,
   length |-> Len(data), tx |-> tx, keys |-> keys, whole |-> whole,
   at |-> << >>, error |-> "none", misread |-> {}, put |-> << >>, shown |-> {}, ends |-> "answering"]

\* A host may send less than a handler wants, and no more than 255 bytes.
Receive(c, keys) ==
  LET data == Data(c.calls, io.tx)
  IN  /\ phase = "waiting"
      /\ \E cut \in Cuts :
           /\ Len(data) - cut \in 0 .. 255
           /\ io' = Received(SubSeq(data, 1, Len(data) - cut), keys, io.tx, cut = 0)
      /\ phase' = "received"
      /\ command' = c
      /\ answer' = << >>

\* The CATCH_OTHER of electroneum_main: the transaction ends, and nothing stays in the
\* buffer.  What is no status word is told in front of one.
Caught(s) ==
  LET cleared == [discard(s, TRUE) EXCEPT !.tx = FALSE, !.put = << >>]
  IN  insert(IF s.error \in {"ERROR_IO_FULL", "exception"} THEN Put(cleared, Field("e", 4)) ELSE cleared, Status)

Allowed(s) == IF s.tx \/ command \in FreeCommands THEN s ELSE Fails(s, "SW_CONDITIONS_NOT_SATISFIED")

\* A handler returns a status word, or 0, and then a callback may answer.
Returns ==
  LET s == Run(Allowed(io), command.calls)
  IN  /\ phase = "received"
      /\ s.error = "none"
      /\ io' = IF s.ends = "answering" THEN insert(s, Status) ELSE s
      /\ phase' = s.ends
      /\ UNCHANGED << command, answer >>

\* It fails in a call, or is refused for another reason before any of them.
Throws ==
  /\ phase = "received"
  /\ \E n \in 0 .. Len(command.calls), error \in {"none", "SW_WRONG_DATA", "exception"} :
       LET s == Runs(Allowed(io), command.calls)[n]
           t == IF s.error = "none" THEN Fails(s, error) ELSE s
       IN  t.error # "none" /\ io' = Caught(t)
  /\ phase' = "answering"
  /\ UNCHANGED << command, answer >>

Dispatch == Returns \/ Throws

\* The first half of electroneum_io_do.
SendNow(s) ==
  IF s.length > MAX_OUT
  THEN io' = Caught(Fails(s, "SW_FILE_FULL")) /\ phase' = "answering" /\ UNCHANGED answer
  ELSE io' = [s EXCEPT !.offset = 0] /\ phase' = "waiting" /\ answer' = SubSeq(s.buffer, 1, s.length)

Send == phase = "answering" /\ SendNow(io) /\ UNCHANGED command

\* ui_menu_export_viewkey_action puts the view key into the buffer, or 32 zeros.
export_viewkey_action(accept) ==
  /\ phase = "asking"
  /\ command = get_view_key
  /\ SendNow(insert(Put(discard(io, FALSE), Field(IF accept THEN "a" ELSE "zeros", 32)), Status))
  /\ UNCHANGED command

\* The others put nothing but the status there; who refuses an amount ends the transaction.
validation_action(accept) ==
  /\ phase = "asking"
  /\ command # get_view_key
  /\ SendNow(insert([io EXCEPT !.tx = @ /\ (accept \/ command = display_address)], Status))
  /\ UNCHANGED command

\* The transport is reset while the application waits, or the device restarts at any time, and
\* electroneum_init clears all.
IoReset ==
  /\ io' = discard(Received(<< >>, "sealed", FALSE, TRUE), TRUE)
  /\ phase' = "waiting"
  /\ answer' = << >>
  /\ UNCHANGED command

Init ==
  /\ io = discard(Received(<< >>, "sealed", FALSE, TRUE), TRUE)
  /\ phase = "waiting"
  /\ command = close_tx
  /\ answer = << >>

Next ==
  \/ \E c \in Commands : \E keys \in KeysOf(c) : Receive(c, keys)
  \/ Dispatch
  \/ Send
  \/ \E accept \in BOOLEAN : export_viewkey_action(accept) \/ validation_action(accept)
  \/ IoReset

Spec == Init /\ [][Next]_ioVars

-----------------------------------------------------------------------------
(***************************************************************************)
(* Properties                                                              *)
(***************************************************************************)
\* Types, and no handler leaves the offset behind the end of what it has received or built
\* (electroneum_io.c:64-80, 86-101).
TypeOK ==
  /\ phase \in {"waiting", "received", "answering", "asking", "silent"}
  /\ command \in Commands
  /\ DOMAIN io.buffer = 1 .. ELECTRONEUM_IO_BUFFER_LENGTH
  /\ 0 <= io.offset /\ io.offset <= io.length /\ io.length <= ELECTRONEUM_IO_BUFFER_LENGTH
  /\ io.tx \in BOOLEAN
  /\ io.error \in {"none", "SW_WRONG_LENGTH", "SW_WRONG_DATA", "SW_CONDITIONS_NOT_SATISFIED",
                   "SW_SECURITY_TRUSTED_INPUT", "ERROR_IO_FULL", "SW_FILE_FULL", "exception"}

\* The fields a handler takes behind a key, by a fetch or by way of a pointer.
BehindKey(c) ==
  LET behind(op) == {c.calls[i].what : i \in {j \in DOMAIN c.calls :
                       c.calls[j].op = op /\ \E k \in 1 .. j - 1 : c.calls[k].op = "fetch_decrypt_key"}}
  IN  behind("fetch") \cup (behind("point") \cap behind("use"))

\* What a handler takes for a field of a whole command is this field, although it is often
\* read by way of a pointer after the buffer was discarded (electroneum_prehash.c:80-87,
\* 369-376, electroneum_proof.c:48-77).  The exception is a transaction and the placeholder
\* of the spend key: all fields behind it are read 32 bytes early (electroneum_io.c:276-284).
ReadAsSent ==
  phase # "received" /\ io.whole /\ io.error = "none" =>
    io.misread = IF io.tx /\ io.keys = "spend" THEN BehindKey(command) ELSE {}

\* A command that ends too soon is refused and ends the transaction, whichever of its fields
\* is not there (electroneum_io.c:194-198).  The exceptions take what is left, however much it
\* is; or the host says that an extra field has 2^31 bytes or more, which passes the check
\* (electroneum_prehash.c:368-370); and what is behind a placeholder of the spend key is looked
\* for too early.
CutIsRefused ==
  /\ phase # "received"
  /\ ~io.whole
  /\ command \notin {tx_prefix_extra_claimed(size) : size \in {n \in ClaimedSizes : n >= INT_LIMIT}}
  /\ command.name \notin {"mlsag_prehash_init", "mlsag_prehash_init_more", "manage_seedwords",
                          "manage_seedwords_other"}
  /\ io.keys = "spend" => BehindKey(command) = {}
  => io.error # "none" /\ ~io.tx

\* An answer is what the handler has put there and then the status: nothing of a command is
\* sent back, although answers are built where commands are (electroneum_io.c:86-134).  The
\* exception is MANAGE_SEEDWORDS with another P1 (electroneum_key.c:125-167).
AnswerIsInserted ==
  phase = "waiting" /\ answer # << >> /\ command # manage_seedwords_other => answer = io.put \o Status

\* No answer is too long for the buffer or for what is sent of it: the longest one, of the
\* extra field, has just the size (electroneum_io.c:87, 397).
AnswerFits == io.error \notin {"ERROR_IO_FULL", "SW_FILE_FULL"}

\* What the device hashes of the prefix it sends back, and the host can read the numbers in it
\* (electroneum_prehash.c:249-255, electroneum_crypto.c:82-98, 915-932).
NumbersAreEchoed ==
  phase = "waiting" /\ answer # << >> /\ io.error = "none" =>
    \A i \in DOMAIN command.calls :
      command.calls[i].op = "add_to_tx_prefix"
        /\ (\A j \in 1 .. i - 1 : command.calls[j].op # "add_to_tx_prefix")
      => vamount2uint64[[k \in DOMAIN answer |-> answer[k][2]]] = command.calls[i].size

\* An amount in units as it is read from the screen, where it is in hundreds of them.
InUnits(text) ==
  LET whole  == SelectInSeq(text \o << Dot >>, LAMBDA x : x = Dot) - 1
      cents  == SubSeq(text, whole + 2, Len(text))
      digits == SubSeq(text, 1, whole) \o cents \o [i \in 1 .. 2 - Len(cents) |-> 0]
      first  == SelectInSeq(digits, LAMBDA x : x # 0)
  IN  IF first = 0 THEN << >> ELSE SubSeq(digits, first, Len(digits))

\* The user can read the amount from the screen if it has 13 digits or less, and no text is
\* longer than the 14 characters there is room for (electroneum_crypto.c:839-892).
AmountIsShown ==
  \A shown \in io.shown :
    LET amount == shown[1]
        text   == shown[2]
    IN  Len(text) <= 14 /\ (Len(amount) <= 13 => InUnits(text) = amount)
=============================================================================
