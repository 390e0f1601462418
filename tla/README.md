# A verification of the Electroneum application for Ledger devices

The application keeps the keys of a wallet on a Ledger device and signs for a host that is
not trusted. It is about 5700 lines of C for a single-threaded processor; beside it the
repository has a tool in Python, with its word lists, that turns the seed of a device into
words or loads word lists on the device. This directory holds TLA+ modules translated from
both, TLC runs that check them on small instances, and proofs for every value of the
constants. `dispatch.c` stands for `src/electroneum_dispatch.c` in the repository and so on;
`seedconv.py` and `dictionaries/` are in `tools/python/src/ledger/electroneum/`.

## 1. Inventory

### How the parts interact

The host sends one command (APDU) at a time. `electroneum_main` receives it, `dispatch.c`
checks the protocol version, the PIN and whether a transaction is open, and calls one
handler. A handler fetches its arguments from the IO buffer, changes the volatile state
`G_electroneum_vstate` or the flash `N_electroneum_pstate`, puts its results in the same
buffer and returns a status word, which is sent at once. It may instead display a question
and return 0: then the loop waits in `io_exchange`, and the callback of the screen sends the
answer. Any exception ends the transaction and is answered with its code.

Nothing runs in parallel. What interleaves is commands (in any order the host likes), the
buttons, the PIN lock, resets of the transport, and restarts; and one global structure is
shared by all handlers, callbacks and menus, with fields that several of them use for
different things. That is where this code is hard to test: a sequence of legal steps of
several of these actors that leaves two pieces of state in disagreement.

The conversion tool runs on the host and shares no state with the device. In online mode it
sends a word list in some forty commands, waits for each answer, and ends at the first error.
The device picks the words of its key from each part and writes them to the flash. Between
two parts anything can happen on the device, by its user or by another program of the host.

| part | state | operations | what makes it correct |
|---|---|---|---|
| command loop and dispatcher (`main.c`, `dispatch.c`) | protocol, pending command, PIN | receive, check, run, throw, lock, unlock, transport reset, restart | one answer for each command; a command of a transaction runs only in one; an error ends the transaction |
| transaction session (`open_tx.c`) | `tx_in_progress`, `r`, `hmac_key`, `sig_mode` | open, close, abort, mode | `r` lives as long as its transaction; the HMAC key is drawn anew for each |
| sealed secrets (`io.c`) | none of its own | encrypt and HMAC, verify and decrypt | in a transaction only secrets of this transaction are taken back |
| IO buffer (`io.c`) | buffer, offset, length, mark | fetch, insert, discard, hole | an answer holds what was inserted, inside its limits |
| transaction prefix (`prehash.c`, `key.c`) | Keccak context, sums, indexes of change, destination | start, inputs, outputs, size, extra, two prompts, hash to scalar | what is shown is what is hashed |
| prehash and signature (`prehash.c`, `mlsag.c`) | three hash contexts, `OUTK`, `C`, `H`, `c` | init, update, finalize, hash | what is signed was generated, opened and agreed to in this transaction |
| key commands, blinding, proofs (`key.c`, `blind.c`, `stealth.c`, `proof.c`) | none that lasts | 24 commands on keys | they take secrets only through the sealing |
| persistent store (`init.c`, `key.c`, `nvram.c`) | magic, network, key mode, keys, words | install, reset, change of network, put keys, words | it can always be started; keys are of one wallet |
| seed words (`key.c`) | words in the flash | take a part of a list, clear | 25 words on the device are the seed of its key |
| conversion tool (`seedconv.py`) | list, first word of the part | online: send a list in parts; offline: print words | every part fits a command; "Done" means the seed is there |
| word lists (`dictionaries/`) | constants | | 1626 words each, told apart by their first letters |
| screens (`ux_nanos.c`, `ux_nanox.c`) | what is displayed, a union of buffers | questions, menus, addresses | the screen asks what the waiting command asks; an address on it is the address |
| numbers and texts (`crypto.c`) | none | varints, amounts as texts | the text is the number |
| base 58 addresses (`electroneum.c`) | the buffer it writes to; `H` as scratch | encode | the text is the address, whatever the buffer held |
| curve arithmetic (`crypto.c`) | Keccak contexts as scratch | | pure functions, apart from the scratch |

What the hardware and the SDK do (BOLOS, `io_seproxyhal`, UX, the cryptographic library) is
not in the repository. Two of its calls matter to the models and are marked external:
`cx_rng` gives values not given before, `nvm_write` writes one block. The hazards this code
is exposed to are listed, each at its line, in `PROJECT.json`.

### Modules

| module | models | abstracts |
|---|---|---|
| `DeviceSession` | loop, dispatcher, session, sealing, questions, lock, restarts: every command of the dispatcher | contents of secrets, arithmetic |
| `TxSecrets` | abstract: what the sealing promises | everything but transactions and the secrets they take |
| `TxPrefix` | prefix, sums, prompts, challenge from the prefix; of `INS_VALIDATE` and `INS_MLSAG` what they do to the hash context and the screen | stealth keys: the address they belong to |
| `Prehash` | `INS_GEN_TXOUT_KEYS`, `INS_VALIDATE`, the hash of `INS_MLSAG`; of the prefix what it does to the hash context, `H` and the screen | hashes, commitments |
| `KeyStore` | flash, installation, import of keys, loading | keys: the wallet they are of |
| `SeedWords`, `Dictionaries` | the conversion tool, `INS_MANAGE_SEEDWORDS`, and all that happens to words and key between two parts | letters: the place and the length of a word; the CRC |
| `IoBuffer`, `Numbers` | the IO buffer under the calls of every handler; varints and amounts as texts | bytes: the field they belong to and their place in it |
| `Screens` | base 58 encoder, buffers and pages of addresses of the Nano X | which digits an address has |
| `Sums` | the sums that amounts of a prefix and bytes of a part of a list are compared with | |
| `MCSeedWords`, `MCIoBuffer`, `MCScreens` | the values of the constants that a `.cfg` cannot hold | |
| `DeviceSession_proofs`, `TxPrefix_proofs`, `Prehash_proofs`, `KeyStore_proofs`, `SeedWords_proofs`, `IoBuffer_proofs`, `Screens_proofs` | proofs about the module they are named for | |
| `IoFields_proofs` | proofs about what the handlers of `IoBuffer` read and show | |

The modules are not merged into one: each keeps the part of `G_electroneum_vstate` that its
properties relate, and has an action for every command, callback, menu, lock and restart that writes
these fields. `electroneum_reset_tx`, `electroneum_init`, exceptions, refusals, and the reload of
the keys at unlock are in all modules of a transaction, each time with their effect on that module's
fields; the hash context that prefix, prehash and signature share, and the questions of a
transaction, are written by the same commands in `TxPrefix` and in `Prehash`. What a module says
nothing of is left out of it: the questions about an address (in `TxPrefix`) and the view key (in
`TxPrefix` and `Prehash`), which only delay the next command there and are in `DeviceSession`. This
is the composition the code has: handlers share fields and never call each other. Where two programs
do interact, the tool and the device, one module has both.

## 2. How the models correspond to the code

**DeviceSession.** A command is one action, since nothing can interrupt a handler. Each
handler is described by the number of sealed secrets it takes and whether it seals one
(`Handler`), because the session depends on nothing else; `FreeCommand` and `TxCommand` run
any of them with any secrets the host was ever given, or with bytes that carry no HMAC of the
device. `owed` counts commands minus answers: 2 would be a command taken before the last was
answered, -1 an answer nobody waits for. A sealed secret is the key that authenticates it and
the transaction it was sealed in. `WrongVersion`, `TxCommandRefused` and `CommandFails` are
the exceptions, by the place where they are thrown. The buttons work only while the device is
unlocked.

**TxPrefix.** A hash context is the sequence of what it absorbed. What does not begin with the
start of a prefix is collapsed to one value, since no property looks into it. An output's key
is the address it is the stealth key of, so "the recomputed key is the output's key" is an
equality of addresses. Amounts and `tx_fee` have their widths as parameters, and the sums wrap.
`init_private_key` is the reload of keys at unlock: it derives an AES key with the hash context
of the prefix, so what follows is hashed on top of that. `INS_VALIDATE` and `INS_MLSAG` initialise,
feed and finish the same context; what they ask about is the question "prehash" here, whose amount is
not of the prefix. A number of 2^63 or more has no varint, so it is added to the sums and nothing is
hashed for it; `NoVarint` stands for that in the small widths.

The indexes of change are bits in the order of `types.h:184-188`: the 400 of `tx_change_idx`
(`Room`), the bytes that align the next field (`Gap`), the counter of outputs, then the destination.
No handler compares an index with 400. `INS_GEN_TXOUT_KEYS` ORs the bit of whatever index the host
gives (`key.c:836-839`): in the gap, in the counter, or further out, where it may change the
destination (any address afterwards) and beyond it what is not in this module. `TX_PREFIX_OUTPUTS`
reads the bit of the counter's value in the same way (`ChangeBit`). `strayed` is history: an index
has reached the counter since it was last 0.

**Prehash.** The SHA-256 contexts are sequences, and a result is the set that holds the
sequence, empty for the zeros of a fresh start; so equal hashes are equal sequences. The Keccak
context keeps whether it covers all of what it should, and `H` and `c` the transaction they
belong to. `phase` is the last thing the host did: with `InOrder` the host keeps to the order
that `doc/developer/blue-app-commands.rst` gives, and may abort, be refused, or start again
anywhere; without it, commands come in any order. The device looks at neither. The variables
named history are not in the code: they record what the host sent and the user agreed to.

The commands of the prefix, which no order of the document puts in a prehash but no check keeps out
of it either, come at any time for either host (`hash_prefix`, `tx_prompt_amount`, `tx_prompt_fee`).
Answers to their prompts are not part of `accepted`, which is about what is validated.

**KeyStore.** An operation is a sequence of flash writes. `electroneum_nvm_write` of the whole
structure is taken field by field in address order, and power can be lost between any two
writes. A start tests the magic once, installs if it is not there, and then loads the keys in any
case (`electroneum_init`, `init_private_key`). `since` is a history variable: what happened to the
wallet since the magic was erased.

**SeedWords.** A run of the tool is `get_online_seed`, which clears the words of the device and
begins a list, then one `send_dict_chunk` for each part, or `exchange_fails`. The tool and the
device each have their own arithmetic for the words of a key (`spendkey_to_words`, `wc`), and
their own way to the 25th word: the tool sums the first letters of the words it computed, the
device those of the bytes it finds in the flash when the last part comes. A word in the flash is
the set of the words that can be read there, since a write covers no more than its own length.
Letters matter only for the lengths of words and for first letters, which tell the words of a list
apart; so `Dictionaries` holds the lengths of all 1626 words of the lists that are loaded on a
device, 150 to a definition, and a first-letters prefix is the word with a length. The words of
these lists are ASCII, so letters are bytes. The lists that are only printed have words of one
length (`Uniform`): nothing looks at it. Around the load, an unlock or a reset of the transport
takes the key that a `PUT_KEY` has left in the flash, menus clear words or reinstall, and power is
lost after some of the writes of a part or a clear (`Cuts`). `troubles` and `under` are history:
what interfered since the tool cleared the words, and the keys in use when words were written.

**IoBuffer.** A byte is the field it belongs to and its place in it; what an earlier command left
is `Old`. A handler is the sequence of its calls on the buffer (`fetch`, `discard`, `insert`, a
pointer taken now and read later, ...), and `Do` is what each call does to offset, length and
bytes; when one throws, the rest are not made. A command comes whole or without some of its last
bytes (`Cuts`), in or out of a transaction, with its keys as sealed secrets or as the placeholders of
the view or the spend key. Lengths are compared as the signed integers they are (`io.c:194`). The
one size that a host can write itself is that of the extra field (`prehash.c:368-370`): beside those
a command can hold there are others it may claim (`ClaimedSizes`), of which `Signed` makes negative
numbers from `INT_LIMIT` on. These pass the check; the handler then hashes as many bytes from the
buffer on, which is more memory than there is (`Fault`: an exception, or the transport is reset at
any time). `MANAGE_SEEDWORDS` puts 24 times P2 bytes together in the buffer; P2 is the length of a
list's prefix, at most 4 for the lists of the tool, and 13 or more would leave the buffer.
`misread` collects the fields that are not where the handler looks for
them. `Numbers` holds the varint and the two conversions of amounts; an amount is its digits, as
the code only takes it apart.

**Screens.** An address is the sequence of the base 58 digits of its blocks. `encode_block` writes
a block from its end and leaves the characters of leading zeros as they are;
`electroneum_base58_public_key` repairs the first character of a full block if it is 0. The
buffers have the sizes and the overlaps of `types.h`: `ux_address` and `disp_addr_mode` are in a
union with the text of the words and with the scratch space of a proof, and the page "Address" is
drawn from a second buffer. Prompts of a transaction come at any time, since which transaction
asks them is in `DeviceSession`. The module is the Nano X: the Nano S draws from the same buffers
by other code, and `ui_menu_validation_loopback_display` exists only there.

## 3. Runs

| run | bounds | what it shows |
|---|---|---|
| `device_session` | 2 transactions, 4 HMAC keys | `TypeOK`: each command is answered once. `SecretKeyLivesInTx`, `KeyIsOfThisTx`, `NoTxAfterError`: the transaction leaves nothing behind. `ScreenAsksForPending`: the question on the screen is the one that waits. `SecretsStayInTheirTx`: refinement of `TxSecrets`. `Answered`: questions get their answer |
| `tx_prefix` | amounts of 2 bits, a fee of 1 bit, counters of 2 bits, an index for each bit of change, gap, counter and destination, up to 3 inputs and outputs, 5 items in a prefix, one payee | `CountsWhatIsHashed`, `ShownIsPaid`, `NoPrefixOutsideTx`: sums, prompts and hash agree in every order of commands, those of the prehash and the signature included |
| `prehash` | 2 outputs, 2 commitments of which one to zero, 2 transactions | `ShownAsGenerated`, `SignedAsOpened`, `AllAccepted`: for a host that keeps the order, what can be signed was generated, opened and accepted in this transaction |
| `key_store` | 2 wallets, 2 networks | `AlwaysStarts`, `JustInstalled`, `SeedUntilImported`: loss of power anywhere is survived |
| `seed_words` | six lists of the tool and one it refuses, 2 keys, one interference with a load, power lost after 1 or 13 words | `DoneIsTheSeed`, `TwentyFiveAreRight`, `OneLanguage`: what the tool calls done, and 25 words on the device, are the seed. `PartsAccepted`, `LoadEnds`: every part of every list fits, and a load ends |
| `io_buffer` | every command; whole, and 1, 16, 32, 33, 65 or 129 bytes short; sizes claimed on both sides of what is negative, for ints of 16 bits; in and out of a transaction; three kinds of keys | `ReadAsSent`, `CutIsRefused`, `AnswerIsInserted`, `AnswerFits`: fields are read where they were sent, and answers are what was put there. `NumbersAreEchoed`, `AmountIsShown`: numbers survive their conversions |
| `screens` | the sizes of the code; 3 addresses, one integrated address, 2 accounts | `PageIsTheAddress`, `DestinationBegins`, `ModeTellsWhoAsked`: the page shows the address, and Ok answers who asked |
| `prefix_change`, `prehash_order`, `prehash_kept`, `put_key`, `menu_address` | as above | one disagreement each, see section 5 |

Why these bounds are enough. In the session a fault needs at most a transaction and its successor,
and a key of each, one for the reset between them and one to spare; the proofs remove the bound. In
the prefix, amounts of 1 and 2 in 2 bits let every sum wrap (2 + 2), 2 is past the half of the range
and has no varint, a fee of 2 does not fit its bit, and four items after the start let change and
payment come in both orders. One bit of change and one of the gap are followed by the two of the
counter and by the destination, so each of the indexes 0 to 4 hits something else. One payee is
enough as the device keeps only one destination, and `Own` is the second address. In the prehash two
outputs give every wrong order, repetition and omission, and the second transaction finds what the
first left. In the store, two wallets tell an import from the one before it, and the number of
losses of power is not bounded at all.

The word lists are the real ones, so parts have their real sizes and number. The first key has
the first and the last word of a list and words in most parts; the words of the second are all in
the first half, so that a change of key can come when all 24 are there. One interference is enough
for each kind to hit each part; the proofs remove the bound and the two keys. In `io_buffer` the
numbers are on both sides of what one, two and three bytes of a varint hold, the extra field goes
up to the longest a command can hold, the cuts take away a byte, half a field, a field and more, and
fields with the byte before them, and amounts have from none to 18 digits, both sides of the 14
characters of the screen. In `screens` one address fills all its blocks, one has a block that the
repair reaches, and one a block that is two characters short and a short last block, which it does
not reach; the text of the words ends in what a proof writes, or behind the mode.

Deadlock is checked in all runs: the device always takes a command, a button, or a restart.

### Fairness

- `DeviceSession!Fairness`: weak fairness of `Unlock` (a user whose device is locked unlocks
  it) and strong fairness of `UserAnswers` (a user asked again and again answers; weak fairness
  would not do, as the lock disables the buttons, possibly again and again). Nothing is assumed
  of the host. The code's own part is that each question stays until it is answered and that
  each callback sends an answer, which is what `Answered` checks. `TX_PREFIX_OUTPUTS` is left
  out: it returns `false`, that is 0, without a question, and only a reset of the transport
  ends the wait (`prehash.c:340`).
- `SeedWords!FairSpec`: weak fairness of `send_dict_chunk`. The tool is a loop that waits for the
  answer to each part, which comes or the exchange fails, and goes on.

## 4. Proofs

TLC checks the instances of section 3; what follows holds for every value of the constants
that meets the named assumptions of the modules.

### The session

`DeviceSession_proofs` proves, for every set of keys and every number of transactions, the five
invariants of `device_session` and that `DeviceSession` implements `TxSecrets`.

Assumptions used: `KeysAssumption`, the zero key and the mark of a missing HMAC are no values
of the random generator. `BoundAssumption` and `EnoughKeys` only make the instance meaningful:
the proofs do not need them. That `cx_rng` never repeats a key is part of the model
(`FreshKeys`), not an assumption of a proof.

The argument. `TypeOK` and the four invariants are not inductive: that a new key authenticates
nothing old is kept by `FreshKeys`, but that `hmac_key` *does* authenticate what the open
transaction sealed, which the refinement needs (`valid` must be exactly the open transaction),
is said by none of them. `IInv` adds `OpenTxHasSecret`: the sealed `r` of the open transaction
is among what was issued. `IInv` is the conjunction of `TxInv` (transaction and secrets),
`UiInv` (screen and waiting command) and `OutInv` (last answer). Each has a few lemmas, one for
each way its variables change (`electroneum_reset_tx`, `electroneum_init`, opening, sealing,
nothing; answer at once, ask, reply), and the step proof has one case for each action, citing
these lemmas. The refinement takes `IInv` and `IInv'` and maps every action to `Begin`, `End`,
`Work` or a stutter of `TxSecrets`.

### The prefix

`TxPrefix_proofs` proves the four invariants of `tx_prefix` for all widths, any number of items and
any payees. Assumptions: `WidthAssumption`, `LayoutAssumption` (indexes are numbers, of any size),
`AddressAssumption`, `PrefixBounds`. `TypeOK` says that every sum, every shown amount and the fee
keep the width of their field. That 2^b is a positive number is not known to the provers; it is
proved by counting the subsets of `1 .. b`. `NoPrefixOutsideTx` is inductive on its own: each way
out of a transaction clears the hash, and the unlock, which may come outside of one, leaves what is
no prefix.

`CountsWhatIsHashed` compares each counter with the sum of some of the hashed items, modulo the
width. The lemmas say what an item that is hashed adds to each of these sums (`OneMoreItem`,
`OneMoreCounted`), and that a sum that has wrapped goes on as the sum would (`WrapSum`, on top of
`SumAppend`). With them each action keeps it, and with `TypeOK` it is inductive. The counter of outputs
is not counted alone: an index of change can be one of its bits. So the property has it only until
that happens (`strayed`); the sums, the counter of inputs and the hash are out of the reach of an
index, as far as the module goes, and it has them always.

`ShownIsPaid` is about a question, and has to survive all that can happen while it is on the screen.
The strengthening (`AskedWhileWaiting`) is that a question of a prefix is there only while its
command waits, so nothing is hashed or counted under it. Each amount is compared only while the sum
it is of fits; a wrapped sum of the outputs does not excuse a wrong total for the payee.

### The chain of controls

`Prehash_proofs` proves `TypeOK` for every host, and `SignedAsOpened` and `ShownAsGenerated` for a
host that keeps the order (`InOrder`), which the device does not impose (`prehash_order`). The two
controls compare hashes of whatever their contexts hold, so the invariant has to say what that is:
`ChainInv` has a conjunct for each phase of the transaction. Before the prehash the context of the
outputs holds those generated (`Generating`); while outputs are checked, the contexts hold those
checked (`Checking`); after the first control, and while commitments are listed, what was compared
still stands. The lemmas are about sequences of pairs and their two projections. All phases but
those of a real transaction are free (`NoTxChain`, `NotRealChain`).

`AllAccepted` needs one thing more (`AgreedInv`): what was agreed to is, in their order, the fee and
those of the checked outputs that have an amount, but for the one that is being asked about. A
commitment to zero is checked without a question, and so is not in the list; selecting from a
sequence with one more member is one of the lemmas.

### The store

`KeyStore_proofs` proves the four invariants of `key_store` for any wallets and networks, under
`WalletsAssumption` (the zeros and the seed are no imported wallet) and `NetworksAssumption`. The
invariants say what a start finds after power was lost at any write. `IInv` adds how far the running
operation has come: what is left to do is the end of its writes (`OpInv`), a magic that is set
vouches for what can be loaded, and right after an installation for all of it (`FlashInv`), and an
application that waits has keys in memory, those of the seed unless some were imported (`RamInv`).
An installation keeps what it has written until the magic, which comes last.

### The words

`SeedWords_proofs` proves `DoneIsTheSeed`, `TwentyFiveAreRight` and `OneLanguage` for any keys, any
lists that meet `LoadableAssumption`, and any number of interferences and losses of power.
`LoadableAssumption` says that no word of a list that is loaded is shorter than the prefix that is
summed or longer than the 19 bytes its field has room for, and that from every word on there is a
part that fits; TLC evaluates it on the six real lists in `seed_words`. The CRC is an operator that
is a constant, which TLC cannot quantify over; so that it gives numbers is a hypothesis of the
theorems (`CrcIsNumber`).

The properties speak of 25 words and of loads that are done. The invariant adds the way there: all
words are of one list, at the places they have in the seeds of the keys they were written for
(`FlashInv`); while parts are sent there is no 25th word, and a load that nothing interfered with
has put there just the words before the next part (`LoadInv`). The first letters that the device
sums are then those of one word in each field, long enough, and equal to those the tool sums
(`SameChecksum`); this is where the assumption on the prefix is needed.

`PartsAccepted` says that the device refuses no part. The tool counts the bytes of a part, word by
word, and the device walks over the same words by their lengths: the sum of the lengths of the words
is what both have in hand (`PartialSumsDef`), and from that follows that each word is found where the
tool has put it and that the last ends where the command does. The invariant adds that a load that
goes on goes on from a word of its list (`PartInv`). `TypeOK` of `seed_words` follows from the same.

### The IO buffer

`IoBuffer_proofs` proves `TypeOK`, `AnswerFits`, `AnswerIsInserted` and `NumbersAreEchoed` for all
numbers of a prefix, all amounts, and all extra fields. Assumptions: `PrefixAssumption`, numbers
have at most nine bytes as varints, which is what is below 2^63 and so is encoded at all;
`ExtraAssumption`, an extra field that is there leaves room for the rest of its command in 255 bytes;
`ClaimAssumption`, one that is not there is said to have any other size of the width of an int,
negative ones included; `CutAssumption`, any number of bytes may be missing at the end.

A handler is a sequence of calls on one buffer, and what holds of its end is proved without running
it. Each call is put in one of three kinds: it reads and leaves the answer alone, it discards and
leaves an empty answer, or it puts and makes the answer longer by as much as it says. Every handler
but two reads up to its last discard and then puts no more than fits (`HandlerShapes`), so it ends
with an answer that is what was inserted (`HandlerRun`). Two are looked at by themselves: the extra
field, which is decoded and encoded in the place where it is (`ExtraRun`), and
`MANAGE_SEEDWORDS` with another P1, which discards nothing and answers with its command (section 5);
`AnswerIsInserted` makes an exception for it, `AnswerFits` does not. A handler that throws has made
some of its calls; as the answer is then the status alone, it matters only that it stopped in the
buffer.

The inductive invariant (`IoInv`) says for each phase of the loop what the buffer is: a command that
was received is at its beginning, an answer is complete before it is sent, and while the user is
asked the buffer is empty, so that the callback answers with nothing else.

That numbers are echoed needs two more things. An answer with numbers begins with one: where a
handler puts any, its first call behind the discard puts one (`NumberFirst`), and what is put later
only makes the answer longer. `EchoInv` carries this from the handler to the answer that is sent; it
relies on `IoInv`, and on errors staying with the buffer through `Caught`. And a varint is read back
as the number it was made of, whatever follows it (`VarintDecoded`): of numbers for which it were
not, there would be a least one, and the number without its lowest seven bits is less. Both
recursive functions are unfolded by equations that are proved (`VarintUnfold`, `DecoderDef`).

`IoFields_proofs` adds what is read and what is shown: `CutIsRefused`, `ReadAsSent` and
`AmountIsShown`. One more assumption is used, `AmountAssumption`: an amount has the digits of a number
of 64 bits, at most 20 and the first of them not 0.

What the host sends is the fields that the calls of the handler take, one behind the other. So the
place of a field is the sum of the sizes before it, which is also the offset at which its call finds
the buffer: this is the induction under both theorems. It does not ask what the fields are, only how
the calls read, and for that all handlers but the one of the extra field are of one shape
(`Regular`, `CommandShapes`): they take fields up to a discard, use by pointer only what they
have pointed to before and before they clear or overwrite it, take no name twice behind a key, and
take what is left only at the end. The extra field is looked at by itself again (`ExtraFound`).

`CutIsRefused` needs, besides `IoInv`, that a command that was received is whole or too short
(`FreshInv`). If a handler came to its end with a command that is too short, each of its fields
would have been there, so all of them together would not be longer than what was received
(`CutCommand`). An extra field of a size that no command holds is refused by `skip` where that size
is an int (`ClaimedCut`); from 2^31 on it is not, and the property excepts just these. For
`ReadAsSent` the invariant also says that a handler that takes a key asks nothing of the user
(`QuietKeys`): who refuses a question ends the transaction, and whether fields behind a placeholder
of the spend key are read early depends on the transaction. Call by call the handler has misread
just those fields (`FoundRun`, up to the discard, and `RegularRun` behind it, where only pointers
are used): none at all, but for those behind that placeholder.

`AmountIsShown` follows from `ShownInv`: all that is shown are texts of amounts, made for the same 15
bytes. The lemma about these (`AmountText`) follows the code: the 20 digits and the dot, the first
and the last character that are kept (`TrimmedText`), what is cut (`CutText`); and then the way back,
the place of the dot and of the first digit that is not 0 (`FirstDot`, `FirstDigit`, `ReadText`).

### The screens

`Screens_proofs` proves the invariants of `screens` for all sizes of blocks, addresses and buffers
within `SizesAssumption`. The encoder is proved to write every character of an address that fills
its blocks over any text (`EncoderWrites`) and of a repairable one over zeros (`EncoderRepairs`). The
strengthening (`QuestionsWait`) is that a question is on the screen only while a command waits, so no
other command writes to the union under it.

### Theorems

| module | theorem | property |
|---|---|---|
| `DeviceSession_proofs` | `Invariance` | `IInv` |
| | `TypeCorrect` | `TypeOK` |
| | `SecretKeyConfined` | `SecretKeyLivesInTx` |
| | `KeyConfined` | `KeyIsOfThisTx` |
| | `ErrorsEndTx` | `NoTxAfterError` |
| | `RightQuestion` | `ScreenAsksForPending` |
| | `SecretsConfined` | `SecretsStayInTheirTx` |
| `TxPrefix_proofs` | `TypeCorrect` | `TypeOK` |
| | `PrefixConfined` | `NoPrefixOutsideTx` |
| | `CountedIsHashed` | `CountsWhatIsHashed` |
| | `PaymentShown` | `ShownIsPaid` |
| `Prehash_proofs` | `TypeCorrect` | `TypeOK` |
| | `Invariance` | `IInv` |
| | `SignsWhatWasOpened` | `SignedAsOpened` |
| | `ShowsWhatWasGenerated` | `ShownAsGenerated` |
| | `AgreedToAll` | `AllAccepted` |
| `KeyStore_proofs` | `Invariant` | `IInv` |
| | `TypeCorrect` | `TypeOK` |
| | `StartsAlways` | `AlwaysStarts` |
| | `InstallsAfresh` | `JustInstalled` |
| | `KeepsSeed` | `SeedUntilImported` |
| `SeedWords_proofs` | `Invariance` | `IInv` |
| | `LoadsTheSeed` | `DoneIsTheSeed` |
| | `ShowsTheSeed` | `TwentyFiveAreRight` |
| | `KeepsOneLanguage` | `OneLanguage` |
| | `TakesEveryPart` | `PartsAccepted` |
| | `TypeCorrect` | `TypeOK` |
| `IoBuffer_proofs` | `IoInvariant` | `IoInv` |
| | `TypeCorrect` | `TypeOK` |
| | `AnswersFit` | `AnswerFits` |
| | `AnswersAreInserted` | `AnswerIsInserted` |
| | `NumbersEchoed` | `NumbersAreEchoed` |
| `IoFields_proofs` | `CutsAreRefused` | `CutIsRefused` |
| | `FieldsAreRead` | `ReadAsSent` |
| | `AmountsAreShown` | `AmountIsShown` |
| `Screens_proofs` | `Invariance` | `IInv` |
| | `TypeCorrect` | `TypeOK` |
| | `ShowsTheAddress` | `PageIsTheAddress` |
| | `AsksForTheDestination` | `DestinationBegins` |
| | `AnswersWhoAsked` | `ModeTellsWhoAsked` |

### Only model-checked

- `Answered`, `LoadEnds`: liveness under fairness is out of the prover's reach, as is
  everything about `ENABLED`.

Every invariant and every action property of the passing runs is proved.

What is recursive in the modules with proofs is a recursive function, never an operator, and its
equation is proved, not assumed: there is a function with that equation up to every number, by
induction in the form that a set of numbers without a least member is empty (`InductionUpTo`, which is
short and stands in each module that needs it).

## 5. Where code and documents disagree

Five runs end in a violation, each of what a comment or the command reference says:

- **`prefix_change`**: an output is hashed as change when its key is *not* the recomputed
  stealth key, and one whose key matches makes the handler return `false` (`prehash.c:339`); the
  comment at `prehash.c:322` wants the opposite.
- **`prehash_order`**: "Once open the device impose a certain order in subsequent commands"
  (`blue-app-commands.rst:1634`). It imposes none: `tx_state` is never read, `C` survives the
  end of a transaction, and the prehash of a second transaction can be finalised against it
  without one output checked.
- **`prehash_kept`**: "The prehash will be kept inside NanoS" (`blue-app-commands.rst:1606`), in
  `H`, which `electroneum_base58_public_key` uses as scratch space; it is called by `INS_GET_KEY`
  and `INS_DISPLAY_ADDRESS`, which are free during a transaction, and by the menu.
- **`put_key`**: `PUT_KEY` stores the view key before it checks the spend key (`key.c:270`).
- **`menu_address`**: "Hard fix to correctly display some addresses on device screen"
  (`electroneum.c:155`). The fix reaches the first character of a full block; a last block that is a
  small number, and a full one that is two characters short, still end the text early.

Others are plain from the definitions and have no run:

- "the first command enforce the protocol version until application quits" (`dispatch.c:26`), but
  `electroneum_init` clears the version (`init.c:54`), and `INS_RESET` and two menus call it.
- `tx_fee` is an `unsigned int`, the difference of the sums a `uint64_t` (`prehash.c:238`,
  `types.h:179`): a wide fee is shown short. `TxPrefix!tx_prompt_fee` cuts it, and `ShownIsPaid` is
  about fees that fit.
- The tool, offline, derives the key along `m/44'/128'/0'/0/0` (`seedconv.py:232`), the device along
  `44'/415'` (`init.c:88`): the words it prints are not of the wallet of the device, which is what
  `tools/python/README.md:15-17` offers.
- A transaction can be opened while one is open (`DeviceSession!open_tx`), where
  `blue-app-commands.rst:1648` refuses another transaction; what matters, that nothing of the first
  reaches the second, is checked and proved.
- The comment at `main.c:136` allows "TX parsing in lock mode", while `check_ins_access` refuses each
  command of a transaction of a locked device, which ends the transaction
  (`DeviceSession!TxCommandRefused`).
- The comment at `types.h:204` gives addresses 95 or 106 characters; they have 98 or 109, of which the
  page of an integrated address copies 106 (`ux_nanox.c:625`).

Code that the models reproduce, with no rule of the code to check it against: the indexes of
change survive the end of their transaction; an index of 400 or more is not refused and sets a bit
of what is behind them (`key.c:838`, `types.h:184`); an extra field of 2^31 bytes or more passes for
one that is there (`prehash.c:370`, `io.c:195`); an output that matches hangs the command
(`prehash.c:332`); only the destination of the last output that is
no change is shown for the sum of all; a refused export of the view key is answered with zeros
and the status of success; `MANAGE_SEEDWORDS` with another P1 than 1 or 2 answers with the command
it was sent, and the status in it (`key.c:125-167`); what follows a placeholder of the spend key in a
transaction is read 32 bytes early (`io.c:276`); an amount of 14 digits or more is cut on the screen,
and no caller looks at the flag that says so; an amount of 2^63 or more is counted but not hashed
(`crypto.c:84`); the page of a destination ends with the tail of a longer text that was there, as
prompts and `INS_DISPLAY_ADDRESS` encode over old text (`DestinationBegins` and `PageIsTheAddress`
say for which addresses this shows).

## 6. Plan

Done: `DeviceSession` with `TxSecrets`, `TxPrefix`, `Prehash`, `KeyStore`, then `SeedWords` with the
lists of the tool, `IoBuffer` with `Numbers`, `Screens`, and proofs for all of these.

To be modelled, in this order: the drawing code of the Nano S, which shares the buffers of
`Screens`; the short address of the main menu, which is computed at start and goes stale at an
unlock that loads other keys (`init.c:129`); the texts beside an address ("Account: 0" is copied
with 8 of its characters, and indexes are cut at 16, `ux_nanox.c:611-618`).

Not modelled, and not planned: curve and scalar arithmetic, AES and the hash functions (no states,
and arithmetic out of reach of both tools); the arithmetic of base 58 beyond which characters are
written; icons; layout and navigation of the menus; the derivation of keys in the tool; the operating
system and the SDK. Functions that nothing calls are left out: in `io.c` mark, `set_offset`,
`fetch_nv` and the functions of tags and lengths; in `seedconv.py` `test`, `max_wlen` and
`clear_online_seed`.
