--------------------------- MODULE DeviceSession ---------------------------
(***************************************************************************)
(* The session layer of the Electroneum application: the command loop of   *)
(* electroneum_main.c, the checks of electroneum_dispatch.c, the           *)
(* transaction session of electroneum_open_tx.c, the sealing of secrets of *)
(* electroneum_io.c and the screens that answer a command later.           *)
(*                                                                         *)
(* The device is single threaded.  It takes one command at a time and      *)
(* either answers it at once or leaves the answer to the callback of a     *)
(* screen; button events, the PIN lock and transport resets are seen only  *)
(* while the loop waits in io_exchange.  So a command is one action, and   *)
(* what interleaves is commands, the user, the lock and restarts.          *)
(*                                                                         *)
(* A secret leaves the device encrypted and, inside a transaction, followed*)
(* by an HMAC under a key drawn for that transaction.  A sealed secret is  *)
(* kept here as the key that authenticates it and the transaction it was   *)
(* sealed in; its content is left out.                                     *)
(***************************************************************************)
EXTENDS Integers, FiniteSets

CONSTANTS
  HmacKeys,    \* the values cx_rng can give to hmac_key
  ZeroKey,     \* hmac_key as electroneum_init leaves it: 32 zero bytes
  NoMac,       \* the authentication of a secret sealed outside a transaction
  MaxSessions  \* bound: the transactions the host opens

ASSUME KeysAssumption == ZeroKey \notin HmacKeys /\ NoMac \notin HmacKeys \cup {ZeroKey}
ASSUME BoundAssumption == MaxSessions \in Nat
\* A key can always be drawn: one per transaction, the current one and the next.
ASSUME EnoughKeys == IsFiniteSet(HmacKeys) => Cardinality(HmacKeys) >= MaxSessions + 2

VARIABLES
  pinVerified,      \* os_global_pin_is_validated() = PIN_VERIFIED
  protocol,         \* the version the first command fixed, or Unset (0xff)
  sig_mode,
  tx_in_progress,
  r,                \* the transaction's secret key: the transaction it was drawn for, 0 = wiped
  hmac_key,
  export_view_key,  \* the user agreed to export the view key
  disp_addr_mode,   \* the address on the screen was asked for by a command
  screen,           \* what is displayed
  owed,             \* commands received minus answers sent
  pending,          \* the command whose answer is left to a callback
  out,              \* the last answer, and the sealed secrets its command consumed
  issued,           \* every sealed secret with an HMAC the host was ever given
  session           \* transactions opened so far

vars == << pinVerified, protocol, sig_mode, tx_in_progress, r, hmac_key, export_view_key,
           disp_addr_mode, screen, owed, pending, out, issued, session >>

txVars   == << tx_in_progress, r, hmac_key, session, issued >>
uiVars   == << screen, disp_addr_mode >>
hostVars == << owed, pending >>

(***************************************************************************)
(* Commands                                                                *)
(***************************************************************************)
Unset    == 255
Versions == {0, 2}
OtherCLA == 3             \* any class byte that is neither of Versions

Modes      == {"NONE", "REAL", "FAKE"}
TxScreens  == {"fee", "change", "destination", "loopback"}
Prompts    == TxScreens \cup {"export", "address"}
Screens    == Prompts \cup {"menu"}

\* What a handler reads and writes sealed: how many sealed secrets it may take
\* (electroneum_io_fetch_decrypt, fetch_decrypt_key) and whether it gives one
\* back (electroneum_io_insert_encrypt).  The arithmetic in between is left out.
Handler(taken, gives) == [opens |-> {taken}, seals |-> gives]

\* Handlers that need neither a PIN nor a transaction.
put_key                         == Handler(0, FALSE)
get_public_key                  == Handler(0, FALSE)
manage_seedwords                == Handler(0, FALSE)
verify_key                      == Handler(1, FALSE)
get_chacha8_prekey              == Handler(0, FALSE)
secret_key_to_public_key        == Handler(1, FALSE)
generate_key_derivation         == Handler(1, TRUE)
derivation_to_scalar            == Handler(1, TRUE)
derive_public_key               == Handler(1, FALSE)
derive_secret_key               == Handler(2, TRUE)
generate_key_image              == Handler(1, FALSE)
sc_add                          == Handler(2, TRUE)
scalar_mulsub                   == Handler(2, FALSE)
sc_sub                          == Handler(2, TRUE)
generate_keypair                == Handler(0, TRUE)
scal_mul_key                    == Handler(1, FALSE)
scal_mul_base                   == Handler(1, FALSE)
derive_subaddress_public_key    == Handler(1, FALSE)
get_subaddress                  == Handler(0, FALSE)
get_subaddress_spend_public_key == Handler(0, FALSE)
get_subaddress_secret_key       == Handler(1, TRUE)
unblind                         == Handler(1, FALSE)
stealth                         == Handler(1, FALSE)
get_tx_proof                    == Handler(1, FALSE)

\* Handlers of a running transaction.  A second key is opened on request, and the amount
\* key of an output is sealed for a host that writes version 2 (electroneum_key.c:863).
generate_txout_keys(tx_version) == [opens |-> {1, 2}, seals |-> tx_version > 1]
blind                  == Handler(1, FALSE)
gen_commitment_mask    == Handler(1, FALSE)
mlsag_prepare          == [opens |-> {0, 1}, seals |-> TRUE]   \* none, or the input's key
mlsag_hash             == Handler(0, FALSE)
mlsag_prehash_finalize == Handler(0, FALSE)
tx_prefix_start        == Handler(0, FALSE)
tx_prefix_inputs       == Handler(0, FALSE)
tx_prefix_outputs_size == Handler(0, FALSE)
tx_prefix_extra        == Handler(0, FALSE)
hash_to_scalar_init    == Handler(0, FALSE)
hash_to_scalar         == Handler(0, FALSE)
hash_to_scalar_batch   == Handler(0, FALSE)

\* The rest of the free commands, and of the commands of a running transaction.
FreeHandlers ==
  { put_key, get_public_key, manage_seedwords, verify_key, get_chacha8_prekey,
    secret_key_to_public_key, generate_key_derivation, derivation_to_scalar,
    derive_public_key, derive_secret_key, generate_key_image, sc_add, scalar_mulsub, sc_sub,
    generate_keypair, scal_mul_key, scal_mul_base, derive_subaddress_public_key,
    get_subaddress, get_subaddress_spend_public_key, get_subaddress_secret_key, unblind,
    stealth, get_tx_proof }

TxHandlers ==
  { generate_txout_keys(1), generate_txout_keys(2), blind, gen_commitment_mask, mlsag_prepare,
    mlsag_hash, mlsag_prehash_finalize, tx_prefix_start, tx_prefix_inputs, tx_prefix_outputs_size,
    tx_prefix_extra, hash_to_scalar_init, hash_to_scalar, hash_to_scalar_batch }

-----------------------------------------------------------------------------
(***************************************************************************)
(* Sealed secrets and the transaction session                              *)
(***************************************************************************)
SealedSecret == [mac : HmacKeys \cup {NoMac}, born : Nat]

\* What the host can present to a handler: anything it was given, or bytes
\* that carry no HMAC of this device.
Unauthenticated == [mac |-> NoMac, born |-> 0]
Presentable     == issued \cup {Unauthenticated}

\* Inside a transaction only what carries an HMAC under the current key is
\* decrypted; outside, no HMAC is read.
verify_hmac(s) == s.mac = hmac_key
fetch_decrypt(used) == tx_in_progress => \A s \in used : verify_hmac(s)

\* The choices of secrets a handler that takes n of them can be called with.
Inputs(n) == {used \in SUBSET Presentable : Cardinality(used) \in (IF n = 0 THEN {0} ELSE 1 .. n)}

\* An HMAC is added only inside a transaction: a secret sealed outside is Unauthenticated.
insert_encrypt(gives) ==
  issued' = IF gives /\ tx_in_progress
            THEN issued \cup {[mac |-> hmac_key, born |-> session]}
            ELSE issued

\* cx_rng does not repeat a key.
FreshKeys == HmacKeys \ ({s.mac : s \in issued} \cup {hmac_key})

\* Mutants, each a slip in the definition after them: the r of the transaction
\* is left, the HMAC key is left.
reset_tx_keeps_r ==
  /\ hmac_key' \in FreshKeys
  /\ tx_in_progress' = FALSE
  /\ UNCHANGED << r, session, issued >>

reset_tx_keeps_key ==
  /\ r' = 0
  /\ tx_in_progress' = FALSE
  /\ UNCHANGED << hmac_key, session, issued >>

\* electroneum_reset_tx
reset_tx ==
  /\ r' = 0
  /\ hmac_key' \in FreshKeys
  /\ tx_in_progress' = FALSE
  /\ UNCHANGED << session, issued >>

\* Mutant of electroneum_init: the display's part of the state is not cleared.
electroneum_init_keeps_ui ==
  /\ protocol' = Unset
  /\ sig_mode' = "NONE"
  /\ r' = 0
  /\ hmac_key' = ZeroKey
  /\ tx_in_progress' = FALSE
  /\ export_view_key' = FALSE
  /\ UNCHANGED << disp_addr_mode, session, issued >>

\* The whole volatile state is cleared: at start, after a transport reset, on
\* INS_RESET and from two menus.
electroneum_init ==
  /\ protocol' = Unset
  /\ sig_mode' = "NONE"
  /\ r' = 0
  /\ hmac_key' = ZeroKey
  /\ tx_in_progress' = FALSE
  /\ export_view_key' = FALSE
  /\ disp_addr_mode' = FALSE
  /\ UNCHANGED << session, issued >>

(***************************************************************************)
(* The command loop                                                        *)
(***************************************************************************)
check_protocol(v) ==
  /\ v \in Versions
  /\ protocol \in {Unset, v}

Receive(v) == owed = 0 /\ check_protocol(v) /\ protocol' = v

\* check_ins_access
MayOpen == pinVerified
InTx    == pinVerified /\ tx_in_progress

Silent           == [sw |-> "none", used |-> {}, inTx |-> FALSE, viewKey |-> FALSE]
Did(sw, used)    == [sw |-> sw, used |-> used, inTx |-> tx_in_progress, viewKey |-> FALSE]

\* The answer leaves as the command ends.
Answer(sw, used) == out' = Did(sw, used) /\ UNCHANGED hostVars

\* The command returns 0: the answer is left to the screen's callback.
Prompt(ins, s, used) ==
  /\ screen' = s
  /\ owed' = owed + 1
  /\ pending' = ins
  /\ out' = Did("none", used)

\* Mutant of Throw: the error is answered and the transaction goes on.
Throw_keeps_tx == UNCHANGED txVars /\ Answer("ERROR", {})

\* An exception ends every transaction, and is answered at once.
Throw == reset_tx /\ Answer("ERROR", {})

\* A class byte that is unknown, or not the one fixed before.
WrongVersion(v) ==
  /\ owed = 0 /\ ~check_protocol(v)
  /\ Throw
  /\ UNCHANGED << pinVerified, protocol, sig_mode, export_view_key, uiVars >>

\* check_ins_access refuses a command of a transaction while none is open, or
\* while the device is locked.
TxCommandRefused(v) ==
  /\ Receive(v)
  /\ ~InTx
  /\ reset_tx
  /\ Answer("REFUSED", {})
  /\ UNCHANGED << pinVerified, sig_mode, export_view_key, uiVars >>

\* An unknown instruction, truncated data, wrong P1 or P2, an HMAC that does not
\* match, a failed control: every THROW before a handler changed anything this
\* module keeps.
CommandFails(v) ==
  /\ Receive(v)
  /\ Throw
  /\ UNCHANGED << pinVerified, sig_mode, export_view_key, uiVars >>

RunHandler(v, h, used) ==
  /\ Receive(v)
  /\ \E n \in h.opens : used \in Inputs(n)
  /\ fetch_decrypt(used)
  /\ insert_encrypt(h.seals)
  /\ Answer("OK", used)
  /\ UNCHANGED << pinVerified, sig_mode, tx_in_progress, r, hmac_key, session,
                  export_view_key, uiVars >>

FreeCommand(v) == \E h \in FreeHandlers : \E used \in SUBSET Presentable : RunHandler(v, h, used)

TxCommand(v) == InTx /\ \E h \in TxHandlers : \E used \in SUBSET Presentable : RunHandler(v, h, used)

\* The last secrets of a signature: in the clear in FAKE mode, sealed in REAL mode.
mlsag_sign(v) ==
  /\ InTx
  /\ sig_mode \in {"FAKE", "REAL"}
  /\ LET h == Handler(IF sig_mode = "REAL" THEN 2 ELSE 0, FALSE)
     IN  \E used \in SUBSET Presentable : RunHandler(v, h, used)

\* INS_RESET by a supported client; the screen is left as it is.
apdu_reset(v) ==
  /\ owed = 0 /\ check_protocol(v)
  /\ electroneum_init
  /\ Answer("OK", {})
  /\ UNCHANGED << pinVerified, screen >>

\* Mutant of open_tx: the key is drawn only when no transaction was open.
open_tx_reuses_key(v) ==
  /\ Receive(v)
  /\ MayOpen
  /\ session < MaxSessions
  /\ session' = session + 1
  /\ r' = session'
  /\ tx_in_progress' = TRUE
  /\ hmac_key' \in (IF tx_in_progress THEN {hmac_key} ELSE FreshKeys)
  /\ issued' = issued \cup {[mac |-> hmac_key', born |-> session']}
  /\ Answer("OK", {})
  /\ UNCHANGED << pinVerified, sig_mode, export_view_key, uiVars >>

\* A transaction may be opened while one is open: that one ends.  The host gets
\* the sealed r and the HMACs of the two placeholder keys.
open_tx(v) ==
  /\ Receive(v)
  /\ MayOpen
  /\ session < MaxSessions
  /\ session' = session + 1
  /\ r' = session'
  /\ tx_in_progress' = TRUE
  /\ hmac_key' \in FreshKeys
  /\ issued' = issued \cup {[mac |-> hmac_key', born |-> session']}
  /\ Answer("OK", {})
  /\ UNCHANGED << pinVerified, sig_mode, export_view_key, uiVars >>

close_tx(v) ==
  /\ Receive(v)
  /\ reset_tx
  /\ Answer("OK", {})
  /\ UNCHANGED << pinVerified, sig_mode, export_view_key, uiVars >>

set_signature_mode(v) ==
  /\ Receive(v)
  /\ MayOpen
  /\ sig_mode' \in {"REAL", "FAKE"}
  /\ Answer("OK", {})
  /\ UNCHANGED << pinVerified, txVars, export_view_key, uiVars >>

\* A mode byte that is missing or unknown is found after sig_mode was set.
set_signature_mode_fails(v) ==
  /\ Receive(v)
  /\ MayOpen
  /\ sig_mode' = "FAKE"
  /\ Throw
  /\ UNCHANGED << pinVerified, export_view_key, uiVars >>

-----------------------------------------------------------------------------
(***************************************************************************)
(* Commands that ask the user                                              *)
(***************************************************************************)
Ask(v, ins, s, used) ==
  /\ Receive(v)
  /\ fetch_decrypt(used)
  /\ Prompt(ins, s, used)
  /\ UNCHANGED << pinVerified, sig_mode, txVars, export_view_key >>

AskInTx(v, ins, s, used) == InTx /\ Ask(v, ins, s, used) /\ UNCHANGED disp_addr_mode

NoAsk(v, used) == InTx /\ RunHandler(v, Handler(Cardinality(used), FALSE), used)

\* INS_VALIDATE, P1 = 1: the first part (P2 = 1) of a real transaction shows the fee.
mlsag_prehash_init(v) ==
  \/ sig_mode = "REAL" /\ AskInTx(v, "VALIDATE", "fee", {})
  \/ NoAsk(v, {})             \* another mode, or a later part

\* INS_VALIDATE, P1 = 2: every output with an amount is shown.
mlsag_prehash_update(v) ==
  \E s \in Presentable :
    \/ sig_mode = "REAL" /\ \E d \in {"destination", "change"} : AskInTx(v, "VALIDATE", d, {s})
    \/ NoAsk(v, {s})          \* another mode, or a zero amount

tx_prompt_amount(v) ==
  \/ sig_mode = "REAL" /\ \E d \in {"destination", "loopback"} : AskInTx(v, "TX_PROMPT_AMOUNT", d, {})
  \/ sig_mode # "REAL" /\ NoAsk(v, {})

tx_prompt_fee(v) ==
  \/ sig_mode = "REAL" /\ AskInTx(v, "TX_PROMPT_FEE", "fee", {})
  \/ sig_mode # "REAL" /\ NoAsk(v, {})

\* When the output key is the recomputed stealth key the handler returns false,
\* that is 0: the loop waits for a callback, and nothing was displayed.
tx_prefix_outputs(v) ==
  \/ AskInTx(v, "TX_PREFIX_OUTPUTS", screen, {})
  \/ NoAsk(v, {})

\* INS_GET_KEY, P1 = 2.
get_view_key(v) ==
  \/ ~export_view_key /\ Ask(v, "GET_KEY", "export", {}) /\ UNCHANGED disp_addr_mode
  \/ /\ export_view_key
     /\ Receive(v)
     /\ out' = [Did("OK", {}) EXCEPT !.viewKey = TRUE]
     /\ UNCHANGED << pinVerified, sig_mode, txVars, export_view_key, uiVars, hostVars >>

display_address(v) == disp_addr_mode' = TRUE /\ Ask(v, "DISPLAY_ADDRESS", "address", {})

Command(v) ==
  \/ CommandFails(v)      \/ TxCommandRefused(v)   \/ apdu_reset(v)
  \/ FreeCommand(v)       \/ TxCommand(v)          \/ mlsag_sign(v)
  \/ open_tx(v)           \/ close_tx(v)
  \/ set_signature_mode(v)   \/ set_signature_mode_fails(v)
  \/ mlsag_prehash_init(v)   \/ mlsag_prehash_update(v)
  \/ tx_prompt_amount(v)     \/ tx_prompt_fee(v)   \/ tx_prefix_outputs(v)
  \/ get_view_key(v)         \/ display_address(v)

-----------------------------------------------------------------------------
(***************************************************************************)
(* The user, the lock and restarts.  The buttons reach the application     *)
(* only while the PIN is verified: a locked device shows the system's      *)
(* screen.                                                                 *)
(***************************************************************************)
\* electroneum_io_do(IO_RETURN_AFTER_TX) in a callback, then the main menu.
Reply(sw) ==
  /\ owed' = owed - 1
  /\ pending' = "none"
  /\ screen' = "menu"
  /\ out' = [out EXCEPT !.sw = sw]

\* ui_menu_amount_validation_action, ui_menu_validation_action and the loopback's:
\* a rejection ends the transaction.
validation_action(accept) ==
  /\ pinVerified
  /\ screen \in TxScreens
  /\ Reply(IF accept THEN "OK" ELSE "REJECTED")
  /\ IF accept THEN UNCHANGED txVars ELSE reset_tx
  /\ UNCHANGED << pinVerified, protocol, sig_mode, export_view_key, disp_addr_mode >>

\* Mutant of export_viewkey_action: a refusal only leaves the screen.
export_viewkey_action_drops_refusal(accept) ==
  /\ pinVerified
  /\ screen = "export"
  /\ export_view_key' = accept
  /\ screen' = "menu"
  /\ IF accept
     THEN owed' = owed - 1 /\ pending' = "none" /\ out' = [out EXCEPT !.sw = "OK", !.viewKey = TRUE]
     ELSE UNCHANGED << hostVars, out >>
  /\ UNCHANGED << pinVerified, protocol, sig_mode, txVars, disp_addr_mode >>

\* A refusal is answered with a key of zeros and the status of success.
export_viewkey_action(accept) ==
  /\ pinVerified
  /\ screen = "export"
  /\ export_view_key' = accept
  /\ owed' = owed - 1
  /\ pending' = "none"
  /\ screen' = "menu"
  /\ out' = [out EXCEPT !.sw = "OK", !.viewKey = accept]
  /\ UNCHANGED << pinVerified, protocol, sig_mode, txVars, disp_addr_mode >>

\* Mutant of pubaddr_action: Ok answers whoever opened the address.
pubaddr_action_answers_always ==
  /\ pinVerified
  /\ screen = "address"
  /\ disp_addr_mode' = FALSE
  /\ Reply("OK")
  /\ UNCHANGED << pinVerified, protocol, sig_mode, txVars, export_view_key >>

\* The Ok of an address: it answers the command that asked for the address,
\* and nothing when the user opened it from the menu.
pubaddr_action ==
  /\ pinVerified
  /\ screen = "address"
  /\ disp_addr_mode' = FALSE
  /\ IF disp_addr_mode
     THEN Reply("OK")
     ELSE screen' = "menu" /\ UNCHANGED << out, hostVars >>
  /\ UNCHANGED << pinVerified, protocol, sig_mode, txVars, export_view_key >>

pubaddr_display ==
  /\ pinVerified
  /\ screen = "menu"
  /\ screen' = "address"
  /\ disp_addr_mode' = FALSE
  /\ UNCHANGED << pinVerified, protocol, sig_mode, txVars, export_view_key, hostVars, out >>

\* "Change Network" and "Reset" both end in electroneum_init.
menu_reinit ==
  /\ pinVerified
  /\ screen = "menu"
  /\ electroneum_init
  /\ UNCHANGED << pinVerified, screen, hostVars, out >>

Lock ==
  /\ pinVerified
  /\ pinVerified' = FALSE
  /\ UNCHANGED << protocol, sig_mode, txVars, export_view_key, uiVars, hostVars, out >>

\* io_event then reloads the keys from the flash, which leaves what this module keeps.
Unlock ==
  /\ ~pinVerified
  /\ pinVerified' = TRUE
  /\ UNCHANGED << protocol, sig_mode, txVars, export_view_key, uiVars, hostVars, out >>

\* EXCEPTION_IO_RESET: electroneum_main returns and main starts over.
Boot ==
  /\ electroneum_init
  /\ screen' = "menu"
  /\ owed' = 0
  /\ pending' = "none"
  /\ out' = Silent

io_reset == Boot /\ UNCHANGED pinVerified

\* The application is left, or the power is lost, and it is started again.
Restart == Boot /\ pinVerified' = TRUE

UserAnswers == (\E a \in BOOLEAN : validation_action(a) \/ export_viewkey_action(a)) \/ pubaddr_action

-----------------------------------------------------------------------------
Init ==
  /\ pinVerified = TRUE
  /\ protocol = Unset
  /\ sig_mode = "NONE"
  /\ tx_in_progress = FALSE
  /\ r = 0
  /\ hmac_key = ZeroKey
  /\ export_view_key = FALSE
  /\ disp_addr_mode = FALSE
  /\ screen = "menu"
  /\ owed = 0
  /\ pending = "none"
  /\ out = Silent
  /\ issued = {}
  /\ session = 0

Next ==
  \/ \E v \in Versions : Command(v)
  \/ \E v \in Versions \cup {OtherCLA} : WrongVersion(v)
  \/ \E a \in BOOLEAN : validation_action(a) \/ export_viewkey_action(a)
  \/ pubaddr_action
  \/ pubaddr_display
  \/ menu_reinit
  \/ Lock
  \/ Unlock
  \/ io_reset
  \/ Restart

Spec == Init /\ [][Next]_vars

(***************************************************************************)
(* The user unlocks a locked device, and answers a question that is put    *)
(* to them again and again.                                                *)
(***************************************************************************)
Fairness == WF_vars(Unlock) /\ SF_vars(UserAnswers)

FairSpec == Spec /\ Fairness

-----------------------------------------------------------------------------
(***************************************************************************)
(* Properties                                                              *)
(***************************************************************************)
Answers == [sw : {"none", "OK", "ERROR", "REFUSED", "REJECTED"}, used : SUBSET SealedSecret,
            inTx : BOOLEAN, viewKey : BOOLEAN]

AsyncCommands == {"VALIDATE", "TX_PROMPT_AMOUNT", "TX_PROMPT_FEE", "TX_PREFIX_OUTPUTS",
                  "GET_KEY", "DISPLAY_ADDRESS"}

\* Every variable has its type; in particular the device never sends an answer
\* nobody waits for (owed = -1) and never takes a command before it answered the
\* last one (owed = 2).
TypeOK ==
  /\ pinVerified \in BOOLEAN
  /\ protocol \in Versions \cup {Unset}
  /\ sig_mode \in Modes
  /\ tx_in_progress \in BOOLEAN
  /\ r \in Nat
  /\ hmac_key \in HmacKeys \cup {ZeroKey}
  /\ export_view_key \in BOOLEAN
  /\ disp_addr_mode \in BOOLEAN
  /\ screen \in Screens
  /\ owed \in {0, 1}
  /\ pending \in AsyncCommands \cup {"none"}
  /\ out \in Answers
  /\ issued \subseteq SealedSecret
  /\ session \in Nat

\* The secret key of a transaction exists exactly as long as the transaction:
\* no way out of one, by command, error, refusal or restart, leaves it behind.
SecretKeyLivesInTx == r = (IF tx_in_progress THEN session ELSE 0)

\* A sealed secret whose HMAC the current key verifies was given out in the
\* transaction that is open now: electroneum_reset_tx and open_tx draw the key anew,
\* and the zero key electroneum_init leaves never authenticates an open transaction.
KeyIsOfThisTx ==
  /\ tx_in_progress => hmac_key # ZeroKey
  /\ \A s \in issued : verify_hmac(s) => tx_in_progress /\ s.born = session

\* After an error or a refusal by the user, no transaction is open: a host that
\* ignores the status word cannot go on signing.
NoTxAfterError == out.sw \in {"ERROR", "REFUSED", "REJECTED"} => ~tx_in_progress

\* What the user is asked is what the command that waits asks: a question about a
\* transaction is on the screen only while its command waits, in a real transaction
\* that is open, and an address is answered for exactly when a command asked for it.
QuestionOf(ins) ==
  CASE ins = "VALIDATE"         -> {"fee", "destination", "change"}
    [] ins = "TX_PROMPT_AMOUNT" -> {"destination", "loopback"}
    [] ins = "TX_PROMPT_FEE"    -> {"fee"}
    [] ins = "GET_KEY"          -> {"export"}
    [] ins = "DISPLAY_ADDRESS"  -> {"address"}
    [] OTHER                    -> {"menu", "address"}

ScreenAsksForPending ==
  /\ (owed = 1) <=> (pending # "none")
  /\ owed = 1 => screen \in QuestionOf(pending)
  /\ screen \in TxScreens \cup {"export"} => owed = 1
  /\ screen \in TxScreens => tx_in_progress /\ sig_mode = "REAL"
  /\ disp_addr_mode <=> pending = "DISPLAY_ADDRESS"

\* The keys and HMACs implement the promise of TxSecrets: secrets of an earlier
\* transaction, of one that failed, or from before a restart are never taken back.
Abstract ==
  INSTANCE TxSecrets WITH
    open   <- tx_in_progress,
    latest <- session,
    valid  <- IF tx_in_progress THEN {s.born : s \in {x \in issued : verify_hmac(x)}} ELSE {},
    used   <- IF tx_in_progress /\ out.inTx THEN {s.born : s \in out.used} ELSE {}

SecretsStayInTheirTx == Abstract!SecretsSpec

\* Every command that left its answer to a screen is answered once the user acts,
\* whatever locks and unlocks happen meanwhile.  Left out is TX_PREFIX_OUTPUTS.
Answered == [](owed = 1 /\ pending # "TX_PREFIX_OUTPUTS" => <>(owed = 0))
=============================================================================
