------------------------ MODULE DeviceSession_proofs ------------------------
(***************************************************************************)
(* Proofs about DeviceSession, for any number of keys and transactions.    *)
(*                                                                         *)
(* The inductive invariant IInv has three parts, one for each group of     *)
(* variables: the transaction and its secrets (TxInv), the screen and the  *)
(* command that waits (UiInv), and the last answer (OutInv).               *)
(***************************************************************************)
EXTENDS DeviceSession, TLAPS

\* An open transaction has given out a secret under its key: the sealed r.
OpenTxHasSecret ==
  tx_in_progress => [mac |-> hmac_key, born |-> session] \in issued

TxTypeOK ==
  /\ tx_in_progress \in BOOLEAN
  /\ r \in Nat
  /\ hmac_key \in HmacKeys \cup {ZeroKey}
  /\ issued \subseteq SealedSecret
  /\ session \in Nat

TxInv == TxTypeOK /\ SecretKeyLivesInTx /\ KeyIsOfThisTx /\ OpenTxHasSecret

UiTypeOK ==
  /\ pinVerified \in BOOLEAN
  /\ protocol \in Versions \cup {Unset}
  /\ sig_mode \in Modes
  /\ export_view_key \in BOOLEAN
  /\ disp_addr_mode \in BOOLEAN
  /\ screen \in Screens
  /\ owed \in {0, 1}
  /\ pending \in AsyncCommands \cup {"none"}

UiInv == UiTypeOK /\ ScreenAsksForPending

OutInv == out \in Answers /\ NoTxAfterError

IInv == TxInv /\ UiInv /\ OutInv

-----------------------------------------------------------------------------
(***************************************************************************)
(* The three ways the transaction variables change.                        *)
(***************************************************************************)
USE KeysAssumption

\* electroneum_reset_tx wipes r and draws a key no secret was sealed with.
LEMMA ResetKeepsTxInv ==
  ASSUME TxInv, reset_tx
  PROVE  TxInv' /\ ~tx_in_progress'
BY DEF TxInv, TxTypeOK, SecretKeyLivesInTx, KeyIsOfThisTx, OpenTxHasSecret, reset_tx,
       FreshKeys, verify_hmac, SealedSecret

\* electroneum_init does the same with the zero key, which no secret carries.
LEMMA InitKeepsTxInv ==
  ASSUME TxInv, electroneum_init
  PROVE  TxInv' /\ ~tx_in_progress'
BY DEF TxInv, TxTypeOK, SecretKeyLivesInTx, KeyIsOfThisTx, OpenTxHasSecret,
       electroneum_init, verify_hmac, SealedSecret

\* What a handler seals belongs to the transaction that is open.
LEMMA SealKeepsTxInv ==
  ASSUME TxInv, NEW gives \in BOOLEAN, insert_encrypt(gives),
         UNCHANGED << tx_in_progress, r, hmac_key, session >>
  PROVE  TxInv'
<1>1. TxTypeOK'
  BY DEF TxInv, TxTypeOK, KeyIsOfThisTx, insert_encrypt, SealedSecret
<1>2. SecretKeyLivesInTx'
  BY DEF TxInv, SecretKeyLivesInTx
<1>3. KeyIsOfThisTx'
  BY DEF TxInv, KeyIsOfThisTx, insert_encrypt, verify_hmac
<1>4. OpenTxHasSecret'
  BY DEF TxInv, OpenTxHasSecret, insert_encrypt
<1> QED BY <1>1, <1>2, <1>3, <1>4 DEF TxInv

\* electroneum_apdu_open_tx draws a key no secret was sealed with, and seals r under it.
LEMMA OpenKeepsTxInv ==
  ASSUME TxInv, NEW v, open_tx(v)
  PROVE  TxInv' /\ tx_in_progress'
<1>1. /\ tx_in_progress' = TRUE /\ session' = session + 1 /\ r' = session + 1
      /\ hmac_key' \in HmacKeys
      /\ \A s \in issued : s.mac # hmac_key'
      /\ issued' = issued \cup {[mac |-> hmac_key', born |-> session + 1]}
  BY DEF open_tx, FreshKeys
<1>2. TxTypeOK'
  BY <1>1 DEF TxInv, TxTypeOK, SealedSecret
<1>3. SecretKeyLivesInTx'
  BY <1>1 DEF SecretKeyLivesInTx
<1>4. KeyIsOfThisTx'
  BY <1>1 DEF KeyIsOfThisTx, verify_hmac
<1>5. OpenTxHasSecret'
  BY <1>1 DEF OpenTxHasSecret
<1> QED BY <1>1, <1>2, <1>3, <1>4, <1>5 DEF TxInv

\* Nothing changes of the transaction.
LEMMA SameTx ==
  ASSUME TxInv, UNCHANGED txVars
  PROVE  TxInv'
BY DEF TxInv, TxTypeOK, SecretKeyLivesInTx, KeyIsOfThisTx, OpenTxHasSecret, verify_hmac, txVars

-----------------------------------------------------------------------------
(***************************************************************************)
(* The screen, the command that waits and the last answer, for each way a  *)
(* command can end.                                                        *)
(***************************************************************************)

\* What the host presents is a sealed secret.
LEMMA PresentableIsSealed ==
  ASSUME TxInv
  PROVE  Presentable \subseteq SealedSecret
BY DEF TxInv, TxTypeOK, Presentable, Unauthenticated, SealedSecret

\* A command comes in only when no answer is due: no question is on the screen.
LEMMA NothingAsked ==
  ASSUME UiInv, NEW v, owed = 0, check_protocol(v)
  PROVE  /\ pending = "none" /\ ~disp_addr_mode
         /\ screen \in {"menu", "address"}
         /\ v \in Versions
BY DEF UiInv, UiTypeOK, ScreenAsksForPending, check_protocol, Screens, Prompts, TxScreens

\* A command that answers at once leaves the screen as it was.
LEMMA AnswerKeepsUiInv ==
  ASSUME UiInv, NEW v, owed = 0, check_protocol(v), UNCHANGED << pinVerified, uiVars, hostVars >>,
         protocol' \in Versions \cup {Unset}, sig_mode' \in Modes, export_view_key' \in BOOLEAN
  PROVE  UiInv'
<1>1. /\ pending = "none" /\ ~disp_addr_mode /\ screen \in {"menu", "address"}
  BY NothingAsked
<1>2. UiTypeOK'
  BY DEF UiInv, UiTypeOK, uiVars, hostVars
<1>3. ScreenAsksForPending'
  BY <1>1 DEF uiVars, hostVars, ScreenAsksForPending, TxScreens
<1> QED BY <1>2, <1>3 DEF UiInv

\* The answer of a command that worked, or of one that left no transaction open.
LEMMA AnswerKeepsOutInv ==
  ASSUME TxInv, NEW sw \in {"OK", "ERROR", "REFUSED", "none"}, NEW used \in SUBSET Presentable,
         out' = Did(sw, used), sw \in {"OK", "none"} \/ ~tx_in_progress'
  PROVE  OutInv'
<1>1. used \in SUBSET SealedSecret
  BY PresentableIsSealed
<1>2. tx_in_progress \in BOOLEAN
  BY DEF TxInv, TxTypeOK
<1>3. out' \in Answers /\ out'.sw = sw
  BY <1>1, <1>2 DEF Did, Answers
<1> QED BY <1>3 DEF OutInv, NoTxAfterError

\* A handler that runs to its end: it may seal one more secret.
LEMMA SealAndAnswerKeepIInv ==
  ASSUME IInv, NEW v, NEW gives \in BOOLEAN, NEW used \in SUBSET Presentable,
         Receive(v), insert_encrypt(gives), Answer("OK", used),
         UNCHANGED << pinVerified, sig_mode, tx_in_progress, r, hmac_key, session,
                      export_view_key, uiVars >>
  PROVE  IInv'
<1>1. owed = 0 /\ check_protocol(v) /\ protocol' = v /\ v \in Versions
  BY DEF Receive, check_protocol
<1>2. TxInv'
  BY SealKeepsTxInv DEF IInv
<1>3. UiInv'
  BY <1>1, AnswerKeepsUiInv DEF Answer, IInv, UiInv, UiTypeOK
<1>4. OutInv'
  BY AnswerKeepsOutInv DEF Answer, IInv
<1> QED BY <1>2, <1>3, <1>4 DEF IInv

\* The handlers of the two tables.
LEMMA RunHandlerKeepsIInv ==
  ASSUME IInv, NEW v, NEW h, h.seals \in BOOLEAN, NEW used \in SUBSET Presentable,
         RunHandler(v, h, used)
  PROVE  IInv'
BY SealAndAnswerKeepIInv DEF RunHandler

\* The handlers that only read.
LEMMA ReadingKeepsIInv ==
  ASSUME IInv, NEW v, NEW used \in SUBSET Presentable,
         \E n : RunHandler(v, Handler(n, FALSE), used)
  PROVE  IInv'
BY SealAndAnswerKeepIInv DEF RunHandler, Handler

\* A handler that asks: its question is on the screen and its answer is due.
LEMMA AskKeepsIInv ==
  ASSUME IInv, NEW v, NEW ins \in AsyncCommands, NEW s \in Screens,
         NEW used \in SUBSET Presentable, Ask(v, ins, s, used),
         s \in QuestionOf(ins),
         s \in TxScreens => tx_in_progress /\ sig_mode = "REAL",
         disp_addr_mode' \in BOOLEAN, disp_addr_mode' <=> ins = "DISPLAY_ADDRESS"
  PROVE  IInv'
<1>1. /\ owed = 0 /\ check_protocol(v) /\ protocol' = v /\ v \in Versions
      /\ screen' = s /\ owed' = owed + 1 /\ pending' = ins
      /\ out' = Did("none", used)
      /\ UNCHANGED << pinVerified, sig_mode, txVars, export_view_key >>
  BY DEF Ask, Receive, Prompt, check_protocol
<1>2. TxInv'
  BY <1>1, SameTx DEF IInv
<1>3. UiTypeOK'
  BY <1>1 DEF IInv, UiInv, UiTypeOK
<1>4. ScreenAsksForPending'
  <2>1. ins # "none"
    BY DEF AsyncCommands
  <2> QED BY <1>1, <2>1 DEF ScreenAsksForPending, txVars, QuestionOf
<1>5. OutInv'
  BY <1>1, AnswerKeepsOutInv DEF IInv
<1> QED BY <1>2, <1>3, <1>4, <1>5 DEF IInv, UiInv

LEMMA ThrowKeepsIInv ==
  ASSUME IInv, Throw,
         \/ UNCHANGED protocol
         \/ protocol' \in Versions,
         sig_mode' \in Modes,
         owed = 0, UNCHANGED << pinVerified, export_view_key, uiVars >>
  PROVE  IInv'
<1>1. TxInv' /\ ~tx_in_progress'
  BY ResetKeepsTxInv DEF Throw, IInv
<1>2. UiInv'
  BY DEF IInv, UiInv, UiTypeOK, ScreenAsksForPending, Throw, Answer, hostVars, uiVars, TxScreens
<1>3. OutInv'
  BY <1>1, AnswerKeepsOutInv DEF IInv, Throw, Answer
<1> QED BY <1>1, <1>2, <1>3 DEF IInv

-----------------------------------------------------------------------------
(***************************************************************************)
(* The commands.                                                           *)
(***************************************************************************)

\* Whether a handler seals what it computes is fixed.
LEMMA HandlersSeal == \A h \in FreeHandlers \cup TxHandlers : h.seals \in BOOLEAN
<1>1. \A n : Handler(n, TRUE).seals \in BOOLEAN /\ Handler(n, FALSE).seals \in BOOLEAN
  BY DEF Handler
<1>2. /\ \A v \in Nat : generate_txout_keys(v).seals \in BOOLEAN
      /\ mlsag_prepare.seals \in BOOLEAN
  BY DEF generate_txout_keys, mlsag_prepare
<1>3. \A h \in FreeHandlers : h.seals \in BOOLEAN
  BY <1>1, Zenon
     DEF FreeHandlers, put_key, get_public_key, manage_seedwords, verify_key,
         get_chacha8_prekey, secret_key_to_public_key, generate_key_derivation,
         derivation_to_scalar, derive_public_key, derive_secret_key, generate_key_image,
         sc_add, scalar_mulsub, sc_sub, generate_keypair, scal_mul_key, scal_mul_base,
         derive_subaddress_public_key, get_subaddress, get_subaddress_spend_public_key,
         get_subaddress_secret_key, unblind, stealth, get_tx_proof
<1>4. generate_txout_keys(1).seals \in BOOLEAN /\ generate_txout_keys(2).seals \in BOOLEAN
  BY <1>2
<1>5. \A h \in TxHandlers : h.seals \in BOOLEAN
  BY <1>1, <1>2, <1>4, Zenon
     DEF TxHandlers, blind, gen_commitment_mask, mlsag_hash, mlsag_prehash_finalize,
         tx_prefix_start, tx_prefix_inputs, tx_prefix_outputs_size, tx_prefix_extra,
         hash_to_scalar_init, hash_to_scalar, hash_to_scalar_batch
<1> QED BY <1>3, <1>5

\* A handler that did not need to ask.
LEMMA NoAskKeepsIInv ==
  ASSUME IInv, NEW v, NEW used \in SUBSET Presentable, NoAsk(v, used)
  PROVE  IInv'
BY ReadingKeepsIInv DEF NoAsk

\* A handler of a transaction that asks a question of its own.
LEMMA AskInTxKeepsIInv ==
  ASSUME IInv, NEW v, NEW ins \in AsyncCommands \ {"DISPLAY_ADDRESS"}, NEW s \in Screens,
         NEW used \in SUBSET Presentable, AskInTx(v, ins, s, used),
         s \in QuestionOf(ins),
         s \in TxScreens => sig_mode = "REAL"
  PROVE  IInv'
<1>1. Ask(v, ins, s, used) /\ disp_addr_mode' = disp_addr_mode /\ tx_in_progress
  BY DEF AskInTx, InTx
<1>2. owed = 0 /\ check_protocol(v)
  BY <1>1 DEF Ask, Receive
<1>3. disp_addr_mode \in BOOLEAN /\ ~disp_addr_mode
  BY <1>2, NothingAsked DEF IInv, UiInv, UiTypeOK
<1> QED BY <1>1, <1>3, AskKeepsIInv

\* Every command keeps the invariant.
LEMMA CommandKeepsIInv ==
  ASSUME IInv, NEW v \in Versions, Command(v)
  PROVE  IInv'
<1>1. CASE CommandFails(v)
  <2>1. protocol' \in Versions /\ sig_mode' \in Modes /\ owed = 0
    BY <1>1 DEF CommandFails, Receive, IInv, UiInv, UiTypeOK
  <2> QED BY <1>1, <2>1, ThrowKeepsIInv DEF CommandFails
<1>2. CASE TxCommandRefused(v)
  <2>1. TxInv' /\ ~tx_in_progress'
    BY <1>2, ResetKeepsTxInv DEF TxCommandRefused, IInv
  <2>2. UiInv'
    BY <1>2, AnswerKeepsUiInv DEF TxCommandRefused, Receive, Answer, IInv, UiInv, UiTypeOK
  <2>3. OutInv'
    BY <1>2, <2>1, AnswerKeepsOutInv DEF TxCommandRefused, Answer, IInv
  <2> QED BY <2>1, <2>2, <2>3 DEF IInv
<1>3. CASE apdu_reset(v)
  <2>1. TxInv' /\ ~tx_in_progress'
    BY <1>3, InitKeepsTxInv DEF apdu_reset, IInv
  <2>2. UiInv'
    <3>1. /\ pending = "none" /\ screen \in {"menu", "address"} /\ owed = 0
      BY <1>3, NothingAsked DEF apdu_reset, IInv
    <3> QED BY <1>3, <3>1 DEF apdu_reset, electroneum_init, Answer, hostVars, Modes,
               IInv, UiInv, UiTypeOK, ScreenAsksForPending, TxScreens
  <2>3. OutInv'
    BY <1>3, <2>1, AnswerKeepsOutInv DEF apdu_reset, Answer, IInv
  <2> QED BY <2>1, <2>2, <2>3 DEF IInv
<1>4. CASE FreeCommand(v)
  <2>1. PICK h \in FreeHandlers, used \in SUBSET Presentable : RunHandler(v, h, used)
    BY <1>4 DEF FreeCommand
  <2> QED BY <2>1, HandlersSeal, RunHandlerKeepsIInv
<1>5. CASE TxCommand(v)
  <2>1. PICK h \in TxHandlers, used \in SUBSET Presentable : RunHandler(v, h, used)
    BY <1>5 DEF TxCommand
  <2> QED BY <2>1, HandlersSeal, RunHandlerKeepsIInv
<1>6. CASE mlsag_sign(v)
  <2>1. PICK used \in SUBSET Presentable :
           RunHandler(v, Handler(IF sig_mode = "REAL" THEN 2 ELSE 0, FALSE), used)
    BY <1>6 DEF mlsag_sign
  <2>2. \E n : RunHandler(v, Handler(n, FALSE), used)
    BY <2>1
  <2> QED BY <2>2, ReadingKeepsIInv
<1>7. CASE open_tx(v)
  <2>1. TxInv'
    BY <1>7, OpenKeepsTxInv DEF IInv
  <2>2. UiInv'
    BY <1>7, AnswerKeepsUiInv DEF open_tx, Receive, Answer, IInv, UiInv, UiTypeOK
  <2>3. OutInv'
    BY <1>7, AnswerKeepsOutInv DEF open_tx, Answer, IInv
  <2> QED BY <2>1, <2>2, <2>3 DEF IInv
<1>8. CASE close_tx(v)
  <2>1. TxInv'
    BY <1>8, ResetKeepsTxInv DEF close_tx, IInv
  <2>2. UiInv'
    BY <1>8, AnswerKeepsUiInv DEF close_tx, Receive, Answer, IInv, UiInv, UiTypeOK
  <2>3. OutInv'
    BY <1>8, AnswerKeepsOutInv DEF close_tx, Answer, IInv
  <2> QED BY <2>1, <2>2, <2>3 DEF IInv
<1>9. CASE set_signature_mode(v)
  <2>1. TxInv'
    BY <1>9, SameTx DEF set_signature_mode, IInv
  <2>2. UiInv'
    BY <1>9, AnswerKeepsUiInv DEF set_signature_mode, Receive, Answer, Modes,
       IInv, UiInv, UiTypeOK
  <2>3. OutInv'
    BY <1>9, AnswerKeepsOutInv DEF set_signature_mode, Answer, IInv
  <2> QED BY <2>1, <2>2, <2>3 DEF IInv
<1>10. CASE set_signature_mode_fails(v)
  <2>1. protocol' \in Versions /\ sig_mode' \in Modes /\ owed = 0
    BY <1>10 DEF set_signature_mode_fails, Receive, Modes
  <2> QED BY <1>10, <2>1, ThrowKeepsIInv DEF set_signature_mode_fails
<1>11. CASE mlsag_prehash_init(v)
  <2>1. CASE sig_mode = "REAL" /\ AskInTx(v, "VALIDATE", "fee", {})
    BY <2>1, AskInTxKeepsIInv DEF AsyncCommands, Screens, Prompts, TxScreens, QuestionOf
  <2>2. CASE NoAsk(v, {})
    BY <2>2, NoAskKeepsIInv
  <2> QED BY <1>11, <2>1, <2>2 DEF mlsag_prehash_init
<1>12. CASE mlsag_prehash_update(v)
  <2>1. PICK s \in Presentable :
           \/ sig_mode = "REAL" /\ \E d \in {"destination", "change"} : AskInTx(v, "VALIDATE", d, {s})
           \/ NoAsk(v, {s})
    BY <1>12 DEF mlsag_prehash_update
  <2>2. ASSUME sig_mode = "REAL", NEW d \in {"destination", "change"},
               AskInTx(v, "VALIDATE", d, {s})
        PROVE  IInv'
    BY <2>2, AskInTxKeepsIInv DEF AsyncCommands, Screens, Prompts, TxScreens, QuestionOf
  <2>3. CASE NoAsk(v, {s})
    BY <2>3, NoAskKeepsIInv
  <2> QED BY <2>1, <2>2, <2>3
<1>13. CASE tx_prompt_amount(v)
  <2>1. ASSUME sig_mode = "REAL", NEW d \in {"destination", "loopback"},
               AskInTx(v, "TX_PROMPT_AMOUNT", d, {})
        PROVE  IInv'
    BY <2>1, AskInTxKeepsIInv DEF AsyncCommands, Screens, Prompts, TxScreens, QuestionOf
  <2>2. CASE NoAsk(v, {})
    BY <2>2, NoAskKeepsIInv
  <2> QED BY <1>13, <2>1, <2>2 DEF tx_prompt_amount
<1>14. CASE tx_prompt_fee(v)
  <2>1. CASE sig_mode = "REAL" /\ AskInTx(v, "TX_PROMPT_FEE", "fee", {})
    BY <2>1, AskInTxKeepsIInv DEF AsyncCommands, Screens, Prompts, TxScreens, QuestionOf
  <2>2. CASE NoAsk(v, {})
    BY <2>2, NoAskKeepsIInv
  <2> QED BY <1>14, <2>1, <2>2 DEF tx_prompt_fee
<1>15. CASE tx_prefix_outputs(v)
  <2>1. CASE AskInTx(v, "TX_PREFIX_OUTPUTS", screen, {})
    <3>1. owed = 0 /\ check_protocol(v)
      BY <2>1 DEF AskInTx, Ask, Receive
    <3>2. screen \in {"menu", "address"}
      BY <3>1, NothingAsked DEF IInv
    <3> QED BY <2>1, <3>2, AskInTxKeepsIInv DEF AsyncCommands, Screens, Prompts, TxScreens, QuestionOf
  <2>2. CASE NoAsk(v, {})
    BY <2>2, NoAskKeepsIInv
  <2> QED BY <1>15, <2>1, <2>2 DEF tx_prefix_outputs
<1>16. CASE get_view_key(v)
  <2>1. CASE ~export_view_key /\ Ask(v, "GET_KEY", "export", {}) /\ UNCHANGED disp_addr_mode
    <3>1. disp_addr_mode' \in BOOLEAN /\ ~disp_addr_mode'
      BY <2>1, NothingAsked DEF Ask, Receive, IInv, UiInv, UiTypeOK
    <3> QED BY <2>1, <3>1, AskKeepsIInv DEF AsyncCommands, Screens, Prompts, TxScreens, QuestionOf
  <2>2. CASE /\ Receive(v)
             /\ out' = [Did("OK", {}) EXCEPT !.viewKey = TRUE]
             /\ UNCHANGED << pinVerified, sig_mode, txVars, export_view_key, uiVars, hostVars >>
    <3>1. TxInv'
      BY <2>2, SameTx DEF IInv
    <3>2. UiInv'
      BY <2>2, AnswerKeepsUiInv DEF Receive, IInv, UiInv, UiTypeOK
    <3>3. OutInv'
      BY <2>2 DEF Did, Answers, OutInv, NoTxAfterError, IInv, TxInv, TxTypeOK
    <3> QED BY <3>1, <3>2, <3>3 DEF IInv
  <2> QED BY <1>16, <2>1, <2>2 DEF get_view_key
<1>17. CASE display_address(v)
  BY <1>17, AskKeepsIInv DEF display_address, AsyncCommands, Screens, Prompts, TxScreens, QuestionOf
<1> QED BY <1>1, <1>2, <1>3, <1>4, <1>5, <1>6, <1>7, <1>8, <1>9, <1>10, <1>11, <1>12, <1>13,
           <1>14, <1>15, <1>16, <1>17 DEF Command
-----------------------------------------------------------------------------
(***************************************************************************)
(* The user, the lock, the restarts.                                       *)
(***************************************************************************)

\* The answer of a callback: the one that is due, and nothing is due any more.
LEMMA UserKeepsIInv ==
  ASSUME IInv, UserAnswers
  PROVE  IInv'
<1>0. /\ out \in Answers /\ TxInv /\ UiInv /\ NoTxAfterError
  BY DEF IInv, OutInv
<1>1. ASSUME NEW a \in BOOLEAN, validation_action(a)
      PROVE  IInv'
  <2>1. TxInv' /\ (a \/ ~tx_in_progress')
    <3>1. CASE a
      BY <1>1, <3>1, <1>0, SameTx DEF validation_action
    <3>2. CASE ~a
      BY <1>1, <3>2, <1>0, ResetKeepsTxInv DEF validation_action
    <3> QED BY <3>1, <3>2
  <2>2. owed = 1 /\ ~disp_addr_mode
    BY <1>0, <1>1 DEF validation_action, UiInv, ScreenAsksForPending, TxScreens, QuestionOf
  <2>3. UiInv'
    BY <1>0, <1>1, <2>2 DEF validation_action, Reply, UiInv, UiTypeOK, ScreenAsksForPending,
       Screens, Prompts, TxScreens
  <2>4. out' \in Answers /\ (out'.sw = "OK" \/ ~a)
    BY <1>0, <1>1 DEF validation_action, Reply, Answers
  <2>5. OutInv'
    BY <2>1, <2>4 DEF OutInv, NoTxAfterError
  <2> QED BY <2>1, <2>3, <2>5 DEF IInv
<1>2. ASSUME NEW a \in BOOLEAN, export_viewkey_action(a)
      PROVE  IInv'
  <2>1. TxInv'
    BY <1>2, <1>0, SameTx DEF export_viewkey_action
  <2>2. owed = 1 /\ ~disp_addr_mode
    BY <1>0, <1>2 DEF export_viewkey_action, UiInv, ScreenAsksForPending, QuestionOf
  <2>3. UiInv'
    BY <1>0, <1>2, <2>2 DEF export_viewkey_action, UiInv, UiTypeOK, ScreenAsksForPending,
       Screens, Prompts, TxScreens
  <2>4. OutInv'
    BY <1>0, <1>2 DEF export_viewkey_action, Answers, OutInv, NoTxAfterError
  <2> QED BY <2>1, <2>3, <2>4 DEF IInv
<1>3. CASE pubaddr_action
  <2>1. TxInv'
    BY <1>3, <1>0, SameTx DEF pubaddr_action
  <2>2. CASE disp_addr_mode
    <3>1. owed = 1
      BY <1>0, <2>2 DEF UiInv, UiTypeOK, ScreenAsksForPending
    <3>2. /\ disp_addr_mode' = FALSE /\ screen' = "menu" /\ owed' = 0 /\ pending' = "none"
          /\ UNCHANGED << pinVerified, protocol, sig_mode, export_view_key >>
      BY <1>3, <2>2, <3>1 DEF pubaddr_action, Reply
    <3>3. UiTypeOK'
      BY <1>0, <3>2 DEF UiInv, UiTypeOK, Screens
    <3>4. ScreenAsksForPending'
      BY <3>2 DEF ScreenAsksForPending, TxScreens
    <3>5. OutInv'
      BY <1>0, <1>3, <2>2 DEF pubaddr_action, Reply, Answers, OutInv, NoTxAfterError
    <3> QED BY <2>1, <3>3, <3>4, <3>5 DEF IInv, UiInv
  <2>3. CASE ~disp_addr_mode
    <3>1. owed = 1 => pending = "TX_PREFIX_OUTPUTS"
      BY <1>0, <1>3, <2>3 DEF pubaddr_action, UiInv, UiTypeOK, ScreenAsksForPending, QuestionOf,
         AsyncCommands
    <3>2. UiInv'
      BY <1>0, <1>3, <2>3, <3>1 DEF pubaddr_action, UiInv, UiTypeOK, ScreenAsksForPending,
         Screens, Prompts, TxScreens, QuestionOf, hostVars
    <3>3. OutInv'
      BY <1>0, <1>3, <2>3 DEF pubaddr_action, OutInv, NoTxAfterError, txVars
    <3> QED BY <2>1, <3>2, <3>3 DEF IInv
  <2> QED BY <2>2, <2>3, <1>0 DEF UiInv, UiTypeOK
<1> QED BY <1>1, <1>2, <1>3 DEF UserAnswers

\* A restart leaves nothing behind.
LEMMA BootKeepsIInv ==
  ASSUME IInv, Boot, pinVerified' \in BOOLEAN
  PROVE  IInv'
<1>1. TxInv' /\ ~tx_in_progress'
  BY InitKeepsTxInv DEF Boot, IInv
<1>2. UiInv'
  <2>1. UiTypeOK'
    BY DEF Boot, electroneum_init, UiTypeOK, Modes, Screens
  <2>2. disp_addr_mode' = FALSE /\ screen' = "menu" /\ owed' = 0 /\ pending' = "none"
    BY DEF Boot, electroneum_init
  <2>3. ScreenAsksForPending'
    BY <2>2 DEF ScreenAsksForPending, TxScreens
  <2> QED BY <2>1, <2>3 DEF UiInv
<1>3. OutInv'
  BY <1>1 DEF Boot, Silent, OutInv, NoTxAfterError, Answers, SealedSecret
<1> QED BY <1>1, <1>2, <1>3 DEF IInv

\* Nothing asked about a transaction is on the main menu.
LEMMA MenuKeepsIInv ==
  ASSUME IInv, pubaddr_display \/ menu_reinit
  PROVE  IInv'
<1>0. screen = "menu" /\ UiInv /\ OutInv /\ TxInv
  BY DEF IInv, pubaddr_display, menu_reinit
<1>1. pending \in {"none", "TX_PREFIX_OUTPUTS"} /\ ~disp_addr_mode
  BY <1>0 DEF UiInv, UiTypeOK, ScreenAsksForPending, QuestionOf, AsyncCommands
<1>2. CASE pubaddr_display
  <2>1. TxInv' /\ OutInv'
    BY <1>0, <1>2, SameTx DEF pubaddr_display, OutInv, NoTxAfterError, txVars
  <2>2. UiInv'
    BY <1>0, <1>1, <1>2 DEF pubaddr_display, hostVars, UiInv, UiTypeOK, ScreenAsksForPending,
       Screens, Prompts, TxScreens, QuestionOf
  <2> QED BY <2>1, <2>2 DEF IInv
<1>3. CASE menu_reinit
  <2>1. TxInv' /\ ~tx_in_progress'
    BY <1>0, <1>3, InitKeepsTxInv DEF menu_reinit
  <2>2. OutInv'
    BY <1>0, <1>3, <2>1 DEF menu_reinit, OutInv, NoTxAfterError
  <2>3. UiInv'
    BY <1>0, <1>1, <1>3 DEF menu_reinit, electroneum_init, hostVars, UiInv, UiTypeOK,
       ScreenAsksForPending, Screens, Prompts, TxScreens, QuestionOf, Modes
  <2> QED BY <2>1, <2>2, <2>3 DEF IInv
<1> QED BY <1>2, <1>3

\* The lock changes only what the device may be asked.
LEMMA LockKeepsIInv ==
  ASSUME IInv, UNCHANGED << protocol, sig_mode, txVars, export_view_key, uiVars, hostVars, out >>,
         pinVerified' \in BOOLEAN
  PROVE  IInv'
<1>1. TxInv'
  BY SameTx DEF IInv
<1>2. UiInv' /\ OutInv'
  BY DEF IInv, UiInv, UiTypeOK, ScreenAsksForPending, OutInv, NoTxAfterError, txVars, uiVars,
     hostVars
<1> QED BY <1>1, <1>2 DEF IInv

-----------------------------------------------------------------------------
(***************************************************************************)
(* The invariant and what follows from it.                                 *)
(***************************************************************************)

\* A device that has just started satisfies the invariant.
LEMMA InitIInv == Init => IInv
<1> SUFFICES ASSUME Init PROVE IInv
  OBVIOUS
<1>1. TxInv
  BY DEF Init, TxInv, TxTypeOK, SecretKeyLivesInTx, KeyIsOfThisTx, OpenTxHasSecret
<1>2. UiInv
  <2>1. UiTypeOK
    BY DEF Init, UiTypeOK, Modes, Screens
  <2>2. disp_addr_mode = FALSE /\ screen = "menu" /\ owed = 0 /\ pending = "none"
    BY DEF Init
  <2>3. ScreenAsksForPending
    BY <2>2 DEF ScreenAsksForPending, TxScreens
  <2> QED BY <2>1, <2>3 DEF UiInv
<1>3. OutInv
  BY DEF Init, OutInv, NoTxAfterError, Silent, Answers
<1> QED BY <1>1, <1>2, <1>3 DEF IInv

\* Every step keeps it.
LEMMA NextIInv == IInv /\ [Next]_vars => IInv'
<1> SUFFICES ASSUME IInv, [Next]_vars PROVE IInv'
  OBVIOUS
<1>1. ASSUME NEW v \in Versions, Command(v) PROVE IInv'
  BY <1>1, CommandKeepsIInv
<1>2. ASSUME NEW v \in Versions \cup {OtherCLA}, WrongVersion(v) PROVE IInv'
  BY <1>2, ThrowKeepsIInv DEF WrongVersion, IInv, UiInv, UiTypeOK
<1>3. CASE UserAnswers
  BY <1>3, UserKeepsIInv
<1>4. CASE pubaddr_display \/ menu_reinit
  BY <1>4, MenuKeepsIInv
<1>5. CASE Lock \/ Unlock
  BY <1>5, LockKeepsIInv DEF Lock, Unlock
<1>6. CASE io_reset \/ Restart
  BY <1>6, BootKeepsIInv DEF io_reset, Restart, IInv, UiInv, UiTypeOK
<1>7. CASE UNCHANGED vars
  BY <1>7, LockKeepsIInv DEF vars, txVars, uiVars, hostVars, IInv, UiInv, UiTypeOK
<1> QED BY <1>1, <1>2, <1>3, <1>4, <1>5, <1>6, <1>7 DEF Next, UserAnswers

\* The inductive invariant holds in every state the device reaches.
THEOREM Invariance == Spec => []IInv
<1> QED BY InitIInv, NextIInv, PTL DEF Spec

\* TypeOK: one answer for each command, whatever the commands, the user, the lock and
\* the restarts do.
THEOREM TypeCorrect == Spec => []TypeOK
<1>1. IInv => TypeOK
  BY DEF IInv, TxInv, TxTypeOK, UiInv, UiTypeOK, OutInv, TypeOK
<1> QED BY <1>1, Invariance, PTL

\* The secret key of a transaction lives exactly as long as the transaction.
THEOREM SecretKeyConfined == Spec => []SecretKeyLivesInTx
<1>1. IInv => SecretKeyLivesInTx
  BY DEF IInv, TxInv
<1> QED BY <1>1, Invariance, PTL

\* The current HMAC key authenticates only secrets of the transaction that is open.
THEOREM KeyConfined == Spec => []KeyIsOfThisTx
<1>1. IInv => KeyIsOfThisTx
  BY DEF IInv, TxInv
<1> QED BY <1>1, Invariance, PTL

\* No transaction survives an error or a refusal.
THEOREM ErrorsEndTx == Spec => []NoTxAfterError
<1>1. IInv => NoTxAfterError
  BY DEF IInv, OutInv
<1> QED BY <1>1, Invariance, PTL

\* The question on the screen is the one of the command that waits.
THEOREM RightQuestion == Spec => []ScreenAsksForPending
<1>1. IInv => ScreenAsksForPending
  BY DEF IInv, UiInv
<1> QED BY <1>1, Invariance, PTL
-----------------------------------------------------------------------------
(***************************************************************************)
(* The session implements TxSecrets.  Under the invariant, what an open    *)
(* transaction would take is exactly what it gave out, so the abstract     *)
(* state has a short form.                                                 *)
(***************************************************************************)
AbsValid == IF tx_in_progress THEN {s.born : s \in {x \in issued : verify_hmac(x)}} ELSE {}
AbsUsed  == IF tx_in_progress /\ out.inTx THEN {s.born : s \in out.used} ELSE {}

LEMMA ValidIsSession ==
  ASSUME TxInv
  PROVE  AbsValid = IF tx_in_progress THEN {session} ELSE {}
<1>1. CASE tx_in_progress
  <2>1. \A s \in issued : verify_hmac(s) => s.born = session
    BY <1>1 DEF TxInv, KeyIsOfThisTx
  <2>2. [mac |-> hmac_key, born |-> session] \in {x \in issued : verify_hmac(x)}
    BY <1>1 DEF TxInv, OpenTxHasSecret, verify_hmac
  <2> QED BY <1>1, <2>1, <2>2 DEF AbsValid
<1>2. CASE ~tx_in_progress
  BY <1>2 DEF AbsValid
<1> QED BY <1>1, <1>2

AbsStep == \/ Abstract!Begin \/ Abstract!End \/ Abstract!Work
           \/ UNCHANGED Abstract!secretVars

\* A step that leaves no transaction open ends one, if one was open.
LEMMA EndMaps ==
  ASSUME reset_tx \/ electroneum_init
  PROVE  AbsStep
BY DEF AbsStep, Abstract!End, reset_tx, electroneum_init

\* A step that keeps the transaction and takes secrets it gave out.
LEMMA WorkMaps ==
  ASSUME TxInv, TxInv', UNCHANGED << tx_in_progress, hmac_key, session >>,
         NEW used \in SUBSET Presentable, fetch_decrypt(used),
         out'.used = used
  PROVE  AbsStep
<1>1. AbsValid' = AbsValid
  <2>1. AbsValid' = IF tx_in_progress' THEN {session'} ELSE {}
    <3>1. (AbsValid = IF tx_in_progress THEN {session} ELSE {})'
      BY ValidIsSession, PTL
    <3> QED BY <3>1
  <2> QED BY <2>1, ValidIsSession
<1>2. CASE tx_in_progress
  <2>1. \A s \in used : s \in issued /\ verify_hmac(s)
    BY <1>2 DEF fetch_decrypt, verify_hmac, Presentable, Unauthenticated, TxInv, TxTypeOK,
       KeyIsOfThisTx
  <2>2. AbsUsed' \subseteq AbsValid
    BY <1>2, <2>1 DEF AbsUsed, AbsValid
  <2>3. Abstract!Work
    BY <1>1, <1>2, <2>2 DEF Abstract!Work, AbsValid, AbsUsed
  <2> QED BY <2>3 DEF AbsStep
<1>3. CASE ~tx_in_progress
  <2>1. AbsUsed' = {} /\ AbsUsed = {}
    BY <1>3 DEF AbsUsed, TxInv, TxTypeOK
  <2> QED BY <1>1, <1>3, <2>1 DEF AbsStep, Abstract!secretVars, AbsValid, AbsUsed
<1> QED BY <1>2, <1>3

\* open_tx: the secrets of the new transaction and no others.
LEMMA OpenMaps ==
  ASSUME TxInv, NEW v, open_tx(v)
  PROVE  AbsStep
<1>1. tx_in_progress' = TRUE /\ session' = session + 1 /\ out'.used = {}
  BY DEF open_tx, Answer, Did
<1>2. AbsValid' = {session'}
  <2>1. (AbsValid = IF tx_in_progress THEN {session} ELSE {})'
    BY OpenKeepsTxInv, ValidIsSession, PTL
  <2> QED BY <1>1, <2>1
<1>3. AbsUsed' = {}
  BY <1>1 DEF AbsUsed
<1> QED BY <1>1, <1>2, <1>3 DEF AbsStep, Abstract!Begin, AbsValid, AbsUsed

\* A step that touches neither the transaction nor what the last command took.
LEMMA StutterMaps ==
  ASSUME UNCHANGED txVars, out'.used = out.used, out'.inTx = out.inTx
  PROVE  AbsStep
BY DEF AbsStep, Abstract!secretVars, txVars, verify_hmac

\* A handler that runs to its end.
LEMMA RunHandlerMaps ==
  ASSUME IInv, IInv', NEW v, NEW used \in SUBSET Presentable, \E h : RunHandler(v, h, used)
  PROVE  AbsStep
<1>1. /\ fetch_decrypt(used) /\ out'.used = used
      /\ UNCHANGED << tx_in_progress, hmac_key, session >>
  BY DEF RunHandler, Answer, Did
<1> QED BY <1>1, WorkMaps DEF IInv

\* A handler that asks.
LEMMA AskMaps ==
  ASSUME IInv, IInv', NEW used \in SUBSET Presentable, \E v, ins, s : Ask(v, ins, s, used)
  PROVE  AbsStep
<1>1. /\ fetch_decrypt(used) /\ out'.used = used
      /\ UNCHANGED << tx_in_progress, hmac_key, session >>
  BY DEF Ask, Prompt, Did, txVars
<1> QED BY <1>1, WorkMaps DEF IInv

\* Every command maps to a step of TxSecrets, or to none.
LEMMA CommandMaps ==
  ASSUME IInv, IInv', NEW v \in Versions, Command(v)
  PROVE  AbsStep
<1>0. {} \in SUBSET Presentable /\ \A s \in Presentable : {s} \in SUBSET Presentable
  OBVIOUS
<1>1. CASE CommandFails(v) \/ TxCommandRefused(v) \/ apdu_reset(v) \/ close_tx(v)
           \/ set_signature_mode_fails(v)
  BY <1>1, EndMaps DEF CommandFails, TxCommandRefused, apdu_reset, close_tx,
     set_signature_mode_fails, Throw
<1>2. CASE FreeCommand(v) \/ TxCommand(v) \/ mlsag_sign(v)
  <2>1. PICK used \in SUBSET Presentable : \E h : RunHandler(v, h, used)
    BY <1>2 DEF FreeCommand, TxCommand, mlsag_sign
  <2> QED BY <2>1, RunHandlerMaps
<1>3. CASE open_tx(v)
  BY <1>3, OpenMaps DEF IInv
<1>4. CASE set_signature_mode(v)
  <2>1. /\ fetch_decrypt({}) /\ out'.used = {}
        /\ UNCHANGED << tx_in_progress, hmac_key, session >>
    BY <1>4 DEF set_signature_mode, Answer, Did, txVars, fetch_decrypt
  <2> QED BY <1>0, <2>1, WorkMaps DEF IInv
<1>5. ASSUME NEW used \in SUBSET Presentable, NoAsk(v, used)
      PROVE  AbsStep
  BY <1>5, RunHandlerMaps DEF NoAsk
<1>6. ASSUME NEW used \in SUBSET Presentable, NEW ins, NEW s, AskInTx(v, ins, s, used)
      PROVE  AbsStep
  BY <1>6, AskMaps DEF AskInTx
<1>7. CASE mlsag_prehash_init(v) \/ tx_prompt_amount(v) \/ tx_prompt_fee(v)
  BY <1>0, <1>5, <1>6, <1>7 DEF mlsag_prehash_init, tx_prompt_amount, tx_prompt_fee
<1>8. CASE mlsag_prehash_update(v)
  BY <1>0, <1>5, <1>6, <1>8 DEF mlsag_prehash_update
<1>9. CASE tx_prefix_outputs(v)
  <2>1. CASE AskInTx(v, "TX_PREFIX_OUTPUTS", screen, {})
    BY <1>0, <2>1, AskMaps DEF AskInTx
  <2> QED BY <1>0, <1>5, <1>9, <2>1 DEF tx_prefix_outputs
<1>10. CASE get_view_key(v)
  <2>1. CASE Ask(v, "GET_KEY", "export", {})
    BY <1>0, <2>1, AskMaps
  <2>2. CASE /\ out' = [Did("OK", {}) EXCEPT !.viewKey = TRUE]
             /\ UNCHANGED txVars
    <3>1. /\ fetch_decrypt({}) /\ out'.used = {}
          /\ UNCHANGED << tx_in_progress, hmac_key, session >>
      BY <2>2 DEF Did, txVars, fetch_decrypt
    <3> QED BY <1>0, <3>1, WorkMaps DEF IInv
  <2> QED BY <1>10, <2>1, <2>2 DEF get_view_key
<1>11. CASE display_address(v)
  BY <1>0, <1>11, AskMaps DEF display_address
<1> QED BY <1>1, <1>2, <1>3, <1>4, <1>7, <1>8, <1>9, <1>10, <1>11 DEF Command

\* Every step does.
LEMMA NextMaps ==
  ASSUME IInv, IInv', [Next]_vars
  PROVE  AbsStep
<1>0. out \in Answers
  BY DEF IInv, OutInv
<1>1. ASSUME NEW v \in Versions, Command(v) PROVE AbsStep
  BY <1>1, CommandMaps
<1>2. ASSUME NEW v, WrongVersion(v) PROVE AbsStep
  BY <1>2, EndMaps DEF WrongVersion, Throw
<1>3. ASSUME NEW a \in BOOLEAN, validation_action(a) PROVE AbsStep
  <2>1. CASE a
    <3>1. UNCHANGED txVars /\ out'.used = out.used /\ out'.inTx = out.inTx
      BY <1>0, <1>3, <2>1 DEF validation_action, Reply, Answers
    <3> QED BY <3>1, StutterMaps
  <2>2. CASE ~a
    BY <1>3, <2>2, EndMaps DEF validation_action
  <2> QED BY <2>1, <2>2
<1>4. ASSUME NEW a \in BOOLEAN, export_viewkey_action(a) PROVE AbsStep
  <2>1. UNCHANGED txVars /\ out'.used = out.used /\ out'.inTx = out.inTx
    BY <1>0, <1>4 DEF export_viewkey_action, Answers
  <2> QED BY <2>1, StutterMaps
<1>5. CASE pubaddr_action
  <2>1. UNCHANGED txVars /\ (out' = [out EXCEPT !.sw = "OK"] \/ out' = out)
    BY <1>5 DEF pubaddr_action, Reply
  <2>2. out'.used = out.used /\ out'.inTx = out.inTx
    BY <1>0, <2>1 DEF Answers
  <2> QED BY <2>1, <2>2, StutterMaps
<1>6. CASE menu_reinit \/ io_reset \/ Restart
  BY <1>6, EndMaps DEF menu_reinit, io_reset, Restart, Boot
<1>7. CASE pubaddr_display \/ Lock \/ Unlock \/ UNCHANGED vars
  BY <1>7, StutterMaps DEF pubaddr_display, Lock, Unlock, vars, txVars
<1> QED BY <1>1, <1>2, <1>3, <1>4, <1>5, <1>6, <1>7 DEF Next

\* The secrets of a transaction stay in it: the session implements TxSecrets.
THEOREM SecretsConfined == Spec => SecretsStayInTheirTx
<1>1. Init => Abstract!Closed
  BY DEF Init, Abstract!Closed
<1>2. IInv /\ IInv' /\ [Next]_vars
        => [Abstract!Begin \/ Abstract!End \/ Abstract!Work]_Abstract!secretVars
  BY NextMaps DEF AbsStep
<1> QED BY <1>1, <1>2, Invariance, PTL DEF Spec, SecretsStayInTheirTx, Abstract!SecretsSpec
=============================================================================
