--------------------------- MODULE Screens_proofs ---------------------------
(***************************************************************************)
(* Proofs about Screens: what the encoder leaves in a buffer, and which    *)
(* pages show an address as it is.                                         *)
(***************************************************************************)
EXTENDS Screens, TLAPS

-----------------------------------------------------------------------------
(***************************************************************************)
(* The encoder                                                             *)
(***************************************************************************)
\* An address has one size.
LEMMA OneSize ==
  /\ \A a \in Ordinary : a \in Digits(OrdinarySize) /\ SizeOf(a) = OrdinarySize
  /\ \A a \in Integrated : a \in Digits(IntegratedSize) /\ SizeOf(a) = IntegratedSize
<1>1. Digits(OrdinarySize) \cap Digits(IntegratedSize) = {}
  <2>1. OrdinarySize \in Nat /\ IntegratedSize \in Nat /\ OrdinarySize < IntegratedSize
    BY SizesAssumption
  <2>2. IntegratedSize \in 1 .. IntegratedSize /\ IntegratedSize \notin 1 .. OrdinarySize
    BY <2>1
  <2> QED BY <2>2 DEF Digits
<1> QED BY <1>1, AddressesAssumption DEF SizeOf

\* A block starts at a number no greater than the position.
LEMMA StartsBefore ==
  ASSUME NEW size \in Nat, NEW i \in 1 .. size
  PROVE  BlockStart(size, i) \in Int /\ BlockStart(size, i) =< i
<1>1. Full \in Nat \ {0} /\ Last \in Nat \ {0}
  BY SizesAssumption
<1>2. (i - 1) % Full \in 0 .. Full - 1
  BY <1>1
<1> QED BY <1>1, <1>2 DEF BlockStart

\* The encoder keeps the buffer's bounds and the kind of its bytes.
LEMMA EncoderType ==
  ASSUME NEW n \in Nat, NEW size \in Nat, size =< n,
         NEW str \in [1 .. n -> Chars], NEW a \in Digits(size)
  PROVE  electroneum_base58_public_key(str, a, size) \in [1 .. n -> Chars]
<1> DEFINE new == electroneum_base58_public_key(str, a, size)
<1>1. ASSUME NEW i \in 1 .. n PROVE new[i] \in Chars
  <2>1. str[i] \in Chars
    OBVIOUS
  <2>2. CASE i > size
    BY <2>1, <2>2 DEF electroneum_base58_public_key
  <2>3. CASE i =< size
    <3>1. a[i] \in Nat
      BY <2>3 DEF Digits
    <3>2. alphabet(a[i]) \in Chars /\ alphabet(0) \in Chars
      BY <3>1 DEF alphabet, Chars
    <3> QED BY <2>1, <2>3, <3>2 DEF electroneum_base58_public_key, encode_block
  <2> QED BY <2>2, <2>3
<1> QED BY <1>1 DEF electroneum_base58_public_key

\* What follows the address is left alone.
LEMMA EncoderEnds ==
  ASSUME NEW n \in Nat, NEW size \in Nat,
         NEW str \in [1 .. n -> Chars], NEW a, NEW i \in 1 .. n, i > size
  PROVE  electroneum_base58_public_key(str, a, size)[i] = str[i]
BY DEF electroneum_base58_public_key

\* Over any text, an address whose blocks fill their characters is written whole.
LEMMA EncoderWrites ==
  ASSUME NEW n \in Nat, NEW size \in Nat, size =< n, NEW str \in [1 .. n -> Chars],
         NEW a \in Digits(size), SizeOf(a) = size, Fills(a)
  PROVE  Begins(electroneum_base58_public_key(str, a, size), a, size)
<1> SUFFICES ASSUME NEW i \in 1 .. size
             PROVE  electroneum_base58_public_key(str, a, size)[i] = alphabet(a[i])
  BY DEF Begins
<1>1. IsWritten(a, size, i)
  <2>1. BlockStart(size, i) \in BlockStart(size, i) .. i
    BY StartsBefore
  <2> QED BY <2>1 DEF IsWritten, Fills
<1>2. a[i] \in Nat
  BY DEF Digits
<1>3. encode_block(str, a, size, i) = alphabet(a[i]) /\ alphabet(a[i]) # NUL
  BY <1>1, <1>2 DEF encode_block, alphabet, NUL
<1> QED BY <1>3 DEF electroneum_base58_public_key

\* Over an empty text, so is one that is repairable.
LEMMA EncoderRepairs ==
  ASSUME NEW n \in Nat, NEW size \in Nat, size =< n,
         NEW a \in Digits(size), SizeOf(a) = size, Repairable(a)
  PROVE  Begins(electroneum_base58_public_key(Empty(n), a, size), a, size)
<1> SUFFICES ASSUME NEW i \in 1 .. size
             PROVE  electroneum_base58_public_key(Empty(n), a, size)[i] = alphabet(a[i])
  BY DEF Begins
<1>1. a[i] \in Nat /\ i \in 1 .. n /\ i \in Nat
  BY DEF Digits
<1>2. CASE IsWritten(a, size, i)
  <2>1. encode_block(Empty(n), a, size, i) = alphabet(a[i]) /\ alphabet(a[i]) # NUL
    BY <1>1, <1>2 DEF encode_block, alphabet, NUL
  <2> QED BY <1>1, <2>1 DEF electroneum_base58_public_key, Empty
<1>3. CASE ~IsWritten(a, size, i)
  <2>1. StartsFullBlock(size, i)
    BY <1>3 DEF Repairable
  <2>2. a[i] = 0
    <3>1. i \in BlockStart(size, i) .. i
      BY <1>1, <2>1 DEF StartsFullBlock
    <3> QED BY <1>3, <3>1 DEF IsWritten
  <2>3. encode_block(Empty(n), a, size, i) = NUL
    BY <1>1, <1>3 DEF encode_block, Empty
  <2> QED BY <1>1, <2>1, <2>2, <2>3 DEF electroneum_base58_public_key, Empty
<1> QED BY <1>2, <1>3

\* An empty buffer holds characters.
LEMMA EmptyType ==
  ASSUME NEW n \in Nat
  PROVE  Empty(n) \in [1 .. n -> Chars]
BY DEF Empty, Chars, NUL

\* The sizes the proofs compare.
LEMMA Sizes ==
  /\ OrdinarySize \in Nat /\ IntegratedSize \in Nat /\ IntegratedShown \in Nat
  /\ PageSize \in Nat /\ AddressSize \in Nat
  /\ OrdinarySize =< IntegratedShown /\ IntegratedShown =< IntegratedSize
  /\ IntegratedShown < PageSize /\ IntegratedSize < AddressSize
  /\ OrdinarySize < PageSize /\ OrdinarySize < AddressSize
BY SizesAssumption

-----------------------------------------------------------------------------
(***************************************************************************)
(* Types                                                                   *)
(***************************************************************************)
\* What the user and the commands encode is an address.
LEMMA WalletIsOrdinary == \A w \in Wallets : w \in Ordinary /\ w \in Digits(OrdinarySize)
BY AddressesAssumption

\* The buffer of the addresses after an address was encoded to it.
LEMMA AddressType ==
  /\ \A str \in [1 .. AddressSize -> Chars] :
       /\ \A a \in Ordinary :
            electroneum_base58_public_key(str, a, OrdinarySize) \in [1 .. AddressSize -> Chars]
       /\ \A a \in Integrated :
            electroneum_base58_public_key(str, a, IntegratedSize) \in [1 .. AddressSize -> Chars]
  /\ Empty(AddressSize) \in [1 .. AddressSize -> Chars]
  /\ \A w \in Wallets :
       electroneum_base58_public_key(Empty(PageSize), w, OrdinarySize) \in [1 .. PageSize -> Chars]
<1>1. ASSUME NEW str \in [1 .. AddressSize -> Chars], NEW a \in Ordinary
      PROVE  electroneum_base58_public_key(str, a, OrdinarySize) \in [1 .. AddressSize -> Chars]
  BY EncoderType, OneSize, Sizes
<1>2. ASSUME NEW str \in [1 .. AddressSize -> Chars], NEW a \in Integrated
      PROVE  electroneum_base58_public_key(str, a, IntegratedSize) \in [1 .. AddressSize -> Chars]
  BY EncoderType, OneSize, Sizes
<1>3. ASSUME NEW w \in Wallets
      PROVE  electroneum_base58_public_key(Empty(PageSize), w, OrdinarySize)
               \in [1 .. PageSize -> Chars]
  <2>1. Empty(PageSize) \in [1 .. PageSize -> Chars] /\ w \in Digits(OrdinarySize)
    BY EmptyType, WalletIsOrdinary, Sizes
  <2> QED BY <2>1, EncoderType, Sizes
<1> QED BY <1>1, <1>2, <1>3, EmptyType, Sizes

\* Opening the page copies characters to it.
LEMMA PageType ==
  ASSUME NEW str \in [1 .. AddressSize -> Chars], NEW mode, NEW a,
         ui_menu_any_pubaddr_display(str, mode, a)
  PROVE  ux_wallet_public_address' \in [1 .. PageSize -> Chars]
<1> DEFINE l == IF mode = "DISP_INTEGRATED" THEN IntegratedShown ELSE OrdinarySize
<1>1. l \in Nat /\ l < AddressSize
  BY Sizes
<1>2. \A i \in 1 .. PageSize : (IF i =< l THEN str[i] ELSE NUL) \in Chars
  BY <1>1, Sizes DEF Chars, NUL
<1>3. ux_wallet_public_address' = [i \in 1 .. PageSize |-> IF i =< l THEN str[i] ELSE NUL]
  BY DEF ui_menu_any_pubaddr_display
<1> QED BY <1>2, <1>3

\* Initially the buffers hold characters.
LEMMA InitType == Init => TypeOK
BY AddressType, WalletIsOrdinary DEF Init, TypeOK, Modes, Pages

\* Every step keeps them.
LEMMA StepType == TypeOK /\ [Next]_vars => TypeOK'
<1> SUFFICES ASSUME TypeOK, [Next]_vars PROVE TypeOK'
  OBVIOUS
<1> USE DEF Modes, Pages
<1>1. ASSUME NEW mode \in {"DISP_MAIN", "DISP_SUB"}, NEW a \in Ordinary,
             electroneum_apdu_display_address(mode, a, OrdinarySize)
      PROVE  TypeOK'
  <2> DEFINE str == electroneum_base58_public_key(ux_address, a, OrdinarySize)
  <2>1. str \in [1 .. AddressSize -> Chars]
    BY AddressType DEF TypeOK
  <2>2. ui_menu_any_pubaddr_display(str, mode, a)
    BY <1>1 DEF electroneum_apdu_display_address
  <2>3. ux_wallet_public_address' \in [1 .. PageSize -> Chars]
    BY <2>1, <2>2, PageType
  <2>4. /\ ux_address' = str /\ screen' = "pubaddr" /\ subject' = a /\ waits' = TRUE
        /\ disp_addr_mode' = mode /\ stored' = stored /\ wallet' = wallet
    BY <1>1 DEF electroneum_apdu_display_address, ui_menu_any_pubaddr_display, keyVars
  <2> QED BY <2>1, <2>3, <2>4 DEF TypeOK
<1>2. ASSUME NEW a \in Integrated,
             electroneum_apdu_display_address("DISP_INTEGRATED", a, IntegratedSize)
      PROVE  TypeOK'
  <2> DEFINE str == electroneum_base58_public_key(ux_address, a, IntegratedSize)
  <2>1. str \in [1 .. AddressSize -> Chars]
    BY AddressType DEF TypeOK
  <2>2. ui_menu_any_pubaddr_display(str, "DISP_INTEGRATED", a)
    BY <1>2 DEF electroneum_apdu_display_address
  <2>3. ux_wallet_public_address' \in [1 .. PageSize -> Chars]
    BY <2>1, <2>2, PageType
  <2>4. /\ ux_address' = str /\ screen' = "pubaddr" /\ subject' = a /\ waits' = TRUE
        /\ disp_addr_mode' = "DISP_INTEGRATED" /\ stored' = stored /\ wallet' = wallet
    BY <1>2 DEF electroneum_apdu_display_address, ui_menu_any_pubaddr_display, keyVars
  <2> QED BY <2>1, <2>3, <2>4 DEF TypeOK
<1>3. ASSUME NEW a \in Ordinary, NEW is_change \in BOOLEAN,
             electroneum_apdu_mlsag_prehash_update(a, is_change)
      PROVE  TypeOK'
  BY <1>3, AddressType
     DEF TypeOK, electroneum_apdu_mlsag_prehash_update, Asks, Nothing, keyVars, pageVars
<1>4. ASSUME NEW a \in Ordinary, electroneum_apdu_tx_prompt_amount(a) PROVE TypeOK'
  BY <1>4, AddressType DEF TypeOK, electroneum_apdu_tx_prompt_amount, Asks, keyVars
<1>5. CASE electroneum_apdu_tx_prompt_fee \/ electroneum_apdu_get_key
  BY <1>5 DEF TypeOK, electroneum_apdu_tx_prompt_fee, electroneum_apdu_get_key, Asks, Nothing,
              keyVars, textVars
<1>6. CASE electroneum_apdu_get_tx_proof
  <2>1. \A i \in 1 .. AddressSize : (IF i >= ScratchAt THEN Scratch ELSE ux_address[i]) \in Chars
    BY DEF TypeOK, Chars
  <2> QED BY <1>6, <2>1 DEF TypeOK, electroneum_apdu_get_tx_proof, keyVars, pageVars
<1>7. ASSUME NEW w \in Wallets, electroneum_apdu_put_key(w) PROVE TypeOK'
  BY <1>7 DEF TypeOK, electroneum_apdu_put_key, textVars, pageVars
<1>8. CASE electroneum_apdu_reset
  BY <1>8, AddressType, WalletIsOrdinary DEF TypeOK, electroneum_apdu_reset, electroneum_init
<1>9. CASE ui_menu_pubaddr_display
  <2> DEFINE str == electroneum_base58_public_key(Empty(AddressSize), wallet, OrdinarySize)
  <2>1. wallet \in Ordinary
    BY WalletIsOrdinary DEF TypeOK
  <2>2. str \in [1 .. AddressSize -> Chars]
    BY <2>1, AddressType
  <2>3. ui_menu_any_pubaddr_display(str, "0", wallet) /\ ux_address' = str
    BY <1>9 DEF ui_menu_pubaddr_display
  <2>4. ux_wallet_public_address' \in [1 .. PageSize -> Chars]
    BY <2>2, <2>3, PageType
  <2>5. /\ screen' = "pubaddr" /\ subject' = wallet /\ disp_addr_mode' = "0"
        /\ UNCHANGED << stored, wallet, waits >>
    BY <1>9 DEF ui_menu_pubaddr_display, ui_menu_any_pubaddr_display, keyVars
  <2> QED BY <2>1, <2>2, <2>3, <2>4, <2>5 DEF TypeOK
<1>10. CASE ui_menu_pubaddr_action \/ ui_menu_words_back \/ ui_menu_validation_action
  BY <1>10 DEF TypeOK, ui_menu_pubaddr_action, ui_menu_words_back, ui_menu_validation_action,
               ui_menu_main_display, Nothing, keyVars, textVars
<1>11. CASE ui_menu_words_display
  <2>1. PICK end \in WordEnds :
          /\ ux_address' = [i \in 1 .. AddressSize |-> IF i =< end THEN Letter ELSE NUL]
          /\ disp_addr_mode' = IF ModeAt =< end THEN "letter" ELSE "0"
    BY <1>11 DEF ui_menu_words_display
  <2>2. \A i \in 1 .. AddressSize : (IF i =< end THEN Letter ELSE NUL) \in Chars
    BY DEF Chars, NUL
  <2> QED BY <1>11, <2>1, <2>2 DEF TypeOK, ui_menu_words_display, Nothing, keyVars
<1>12. CASE ui_menu_reset_action
  <2>1. PICK w \in Wallets : stored' = w /\ electroneum_init(w)
    BY <1>12 DEF ui_menu_reset_action
  <2> QED BY <1>12, <2>1, AddressType
          DEF TypeOK, ui_menu_reset_action, ui_menu_main_display, electroneum_init, Nothing
<1>13. CASE unlock
  BY <1>13 DEF TypeOK, unlock, textVars, pageVars
<1>14. CASE restart
  BY <1>14, AddressType DEF TypeOK, restart, ui_menu_main_display, electroneum_init, Nothing
<1>15. CASE UNCHANGED vars
  BY <1>15 DEF TypeOK, vars, keyVars, textVars, pageVars
<1> QED BY <1>1, <1>2, <1>3, <1>4, <1>5, <1>6, <1>7, <1>8, <1>9, <1>10, <1>11, <1>12, <1>13,
           <1>14, <1>15, WalletIsOrdinary DEF Next, Command, User, TypeOK

-----------------------------------------------------------------------------
(***************************************************************************)
(* What is shown.  Beside the properties the invariant says that a question*)
(* is on the screen only while a command waits: no other command writes to *)
(* the buffers under it.                                                   *)
(***************************************************************************)
QuestionsWait == screen \in Questions => waits

IInv ==
  /\ TypeOK
  /\ QuestionsWait
  /\ ModeTellsWhoAsked
  /\ PageIsTheAddress
  /\ DestinationBegins

Shown(a) == IF a \in Integrated THEN IntegratedShown ELSE OrdinarySize

\* A page copied from a buffer that begins with the address is the text of the address.
LEMMA PageShows ==
  ASSUME NEW str, NEW mode, NEW a \in Ordinary \cup Integrated,
         mode = "DISP_INTEGRATED" <=> a \in Integrated,
         Begins(str, a, SizeOf(a)), ui_menu_any_pubaddr_display(str, mode, a)
  PROVE  IsText(ux_wallet_public_address, subject, Shown(subject))'
<1> DEFINE l == Shown(a)
<1>1. /\ ux_wallet_public_address' = [i \in 1 .. PageSize |-> IF i =< l THEN str[i] ELSE NUL]
      /\ subject' = a
  BY DEF ui_menu_any_pubaddr_display, Shown
<1>2. l \in Nat /\ l =< SizeOf(a) /\ l < PageSize /\ SizeOf(a) \in Nat
  BY Sizes DEF Shown, SizeOf
<1>3. Begins(ux_wallet_public_address', a, l)
  <2> SUFFICES ASSUME NEW i \in 1 .. l PROVE ux_wallet_public_address'[i] = alphabet(a[i])
    BY DEF Begins
  <2>1. i \in 1 .. PageSize /\ i \in 1 .. SizeOf(a) /\ i =< l
    BY <1>2, Sizes
  <2> QED BY <1>1, <2>1 DEF Begins
<1>4. ux_wallet_public_address'[l + 1] = NUL
  <2>1. l + 1 \in 1 .. PageSize /\ ~(l + 1 =< l)
    BY <1>2, Sizes
  <2> QED BY <1>1, <2>1
<1> QED BY <1>1, <1>3, <1>4 DEF IsText, Shown

\* After a start the buffer of the page is the text of the address of the account, if it is
\* repairable.
LEMMA StartShows ==
  ASSUME NEW w \in Wallets, Repairable(w)
  PROVE  IsText(electroneum_base58_public_key(Empty(PageSize), w, OrdinarySize), w, Shown(w))
<1> DEFINE str == electroneum_base58_public_key(Empty(PageSize), w, OrdinarySize)
<1>1. w \in Digits(OrdinarySize) /\ SizeOf(w) = OrdinarySize /\ Shown(w) = OrdinarySize
  BY WalletIsOrdinary, OneSize, Sizes, SizesAssumption DEF Shown, SizeOf
<1>2. Begins(str, w, OrdinarySize)
  BY <1>1, EncoderRepairs, Sizes
<1>3. str[OrdinarySize + 1] = NUL
  <2>1. OrdinarySize + 1 \in 1 .. PageSize /\ OrdinarySize + 1 > OrdinarySize
    BY Sizes
  <2>2. Empty(PageSize) \in [1 .. PageSize -> Chars] /\ Empty(PageSize)[OrdinarySize + 1] = NUL
    BY <2>1, EmptyType, Sizes DEF Empty
  <2> QED BY <2>1, <2>2, EncoderEnds, Sizes
<1> QED BY <1>1, <1>2, <1>3 DEF IsText

\* The destination is encoded to the buffer the page shows.
LEMMA DestinationWritten ==
  ASSUME TypeOK, NEW a \in Ordinary, Fills(a),
         ux_address' = electroneum_base58_public_key(ux_address, a, OrdinarySize)
  PROVE  Begins(ux_address', a, OrdinarySize)
BY EncoderWrites, OneSize, Sizes DEF TypeOK

\* A step that leaves the page, or does not open one, keeps what is shown.
LEMMA PageKept ==
  ASSUME IInv, UNCHANGED << disp_addr_mode, ux_wallet_public_address, screen, subject, waits >>
  PROVE  (QuestionsWait /\ ModeTellsWhoAsked /\ PageIsTheAddress)'
BY DEF IInv, QuestionsWait, ModeTellsWhoAsked, PageIsTheAddress

LEMMA NoPage ==
  ASSUME screen' # "pubaddr"
  PROVE  (ModeTellsWhoAsked /\ PageIsTheAddress)'
BY DEF ModeTellsWhoAsked, PageIsTheAddress

LEMMA NoDestination ==
  ASSUME screen' # "validation"
  PROVE  DestinationBegins'
BY DEF DestinationBegins

\* Every step keeps what is shown.
LEMMA StepShows == IInv /\ [Next]_vars => IInv'
<1> SUFFICES ASSUME IInv, [Next]_vars
             PROVE  (QuestionsWait /\ ModeTellsWhoAsked /\ PageIsTheAddress
                      /\ DestinationBegins)'
  BY StepType DEF IInv
<1> DEFINE Kept == (QuestionsWait /\ ModeTellsWhoAsked /\ PageIsTheAddress
                      /\ DestinationBegins)'
<1>0. TypeOK /\ wallet \in Ordinary /\ stored \in Wallets /\ stored \in Ordinary
  BY WalletIsOrdinary DEF IInv, TypeOK
<1>1. ASSUME NEW mode \in {"DISP_MAIN", "DISP_SUB"}, NEW a \in Ordinary,
             electroneum_apdu_display_address(mode, a, OrdinarySize)
      PROVE  Kept
  <2> DEFINE str == electroneum_base58_public_key(ux_address, a, OrdinarySize)
  <2>1. /\ ui_menu_any_pubaddr_display(str, mode, a) /\ disp_addr_mode' = mode
        /\ screen' = "pubaddr" /\ subject' = a /\ waits' = TRUE
    BY <1>1 DEF electroneum_apdu_display_address, ui_menu_any_pubaddr_display
  <2>2. a \in Digits(OrdinarySize) /\ SizeOf(a) = OrdinarySize /\ a \notin Integrated
    BY OneSize, Sizes, SizesAssumption
  <2>3. Fills(a) => IsText(ux_wallet_public_address, subject, Shown(subject))'
    BY <1>0, <2>1, <2>2, EncoderWrites, PageShows, Sizes DEF TypeOK
  <2>4. PageIsTheAddress'
    BY <2>1, <2>3 DEF PageIsTheAddress, Shown
  <2> QED BY <2>1, <2>4, NoDestination DEF QuestionsWait, Questions, ModeTellsWhoAsked
<1>2. ASSUME NEW a \in Integrated,
             electroneum_apdu_display_address("DISP_INTEGRATED", a, IntegratedSize)
      PROVE  Kept
  <2> DEFINE str == electroneum_base58_public_key(ux_address, a, IntegratedSize)
  <2>1. /\ ui_menu_any_pubaddr_display(str, "DISP_INTEGRATED", a)
        /\ disp_addr_mode' = "DISP_INTEGRATED"
        /\ screen' = "pubaddr" /\ subject' = a /\ waits' = TRUE
    BY <1>2 DEF electroneum_apdu_display_address, ui_menu_any_pubaddr_display
  <2>2. a \in Digits(IntegratedSize) /\ SizeOf(a) = IntegratedSize
    BY OneSize
  <2>3. Fills(a) => IsText(ux_wallet_public_address, subject, Shown(subject))'
    BY <1>0, <2>1, <2>2, EncoderWrites, PageShows, Sizes DEF TypeOK
  <2>4. PageIsTheAddress'
    BY <2>1, <2>3 DEF PageIsTheAddress, Shown
  <2> QED BY <2>1, <2>4, NoDestination DEF QuestionsWait, Questions, ModeTellsWhoAsked
<1>3. ASSUME NEW a \in Ordinary, NEW is_change \in BOOLEAN,
             electroneum_apdu_mlsag_prehash_update(a, is_change)
      PROVE  Kept
  <2>1. CASE UNCHANGED pageVars
    <3>1. UNCHANGED << disp_addr_mode, ux_wallet_public_address, screen, subject, waits >>
          /\ ~waits
      BY <1>3, <2>1 DEF electroneum_apdu_mlsag_prehash_update, pageVars
    <3>2. screen' # "validation"
      BY <3>1 DEF IInv, QuestionsWait, Questions
    <3> QED BY <3>1, <3>2, PageKept, NoDestination
  <2>2. CASE is_change /\ Asks("amount", Nothing)
    BY <2>2, NoPage, NoDestination DEF Asks, QuestionsWait
  <2>3. CASE ~is_change /\ Asks("validation", a)
    <3>1. ux_address' = electroneum_base58_public_key(ux_address, a, OrdinarySize)
      BY <1>3, <2>3 DEF electroneum_apdu_mlsag_prehash_update
    <3> QED BY <1>0, <2>3, <3>1, DestinationWritten, NoPage
            DEF Asks, QuestionsWait, DestinationBegins
  <2> QED BY <1>3, <2>1, <2>2, <2>3 DEF electroneum_apdu_mlsag_prehash_update
<1>4. ASSUME NEW a \in Ordinary, electroneum_apdu_tx_prompt_amount(a) PROVE Kept
  BY <1>0, <1>4, DestinationWritten, NoPage
     DEF electroneum_apdu_tx_prompt_amount, Asks, QuestionsWait, DestinationBegins
<1>5. CASE electroneum_apdu_tx_prompt_fee \/ electroneum_apdu_get_key
  BY <1>5, NoPage, NoDestination
     DEF electroneum_apdu_tx_prompt_fee, electroneum_apdu_get_key, Asks, QuestionsWait
<1>6. CASE electroneum_apdu_get_tx_proof
  <2>1. UNCHANGED << disp_addr_mode, ux_wallet_public_address, screen, subject, waits >> /\ ~waits
    BY <1>6 DEF electroneum_apdu_get_tx_proof, pageVars
  <2>2. screen' # "validation"
    BY <2>1 DEF IInv, QuestionsWait, Questions
  <2> QED BY <2>1, <2>2, PageKept, NoDestination
<1>7. CASE (\E w \in Wallets : electroneum_apdu_put_key(w)) \/ unlock \/ UNCHANGED vars
  <2>1. UNCHANGED << textVars, pageVars >>
    BY <1>7 DEF electroneum_apdu_put_key, unlock, vars
  <2>2. DestinationBegins'
    BY <2>1 DEF textVars, pageVars, IInv, DestinationBegins
  <2> QED BY <2>1, <2>2, PageKept DEF textVars, pageVars
<1>8. CASE electroneum_apdu_reset
  <2>1. /\ ~waits /\ UNCHANGED << screen, waits >> /\ disp_addr_mode' = "0"
        /\ ux_wallet_public_address' =
             electroneum_base58_public_key(Empty(PageSize), stored, OrdinarySize)
        /\ screen = "pubaddr" => subject' = stored
    BY <1>8 DEF electroneum_apdu_reset, electroneum_init
  <2>2. screen' \notin Questions
    BY <2>1 DEF IInv, QuestionsWait
  <2>3. PageIsTheAddress'
    BY <1>0, <2>1, StartShows DEF PageIsTheAddress, Shown
  <2> QED BY <2>1, <2>2, <2>3, NoDestination DEF QuestionsWait, Questions, ModeTellsWhoAsked
<1>9. CASE ui_menu_pubaddr_display
  <2> DEFINE str == electroneum_base58_public_key(Empty(AddressSize), wallet, OrdinarySize)
  <2>1. /\ ui_menu_any_pubaddr_display(str, "0", wallet) /\ disp_addr_mode' = "0"
        /\ screen' = "pubaddr" /\ subject' = wallet /\ waits' = FALSE
    BY <1>0, <1>9 DEF ui_menu_pubaddr_display, ui_menu_any_pubaddr_display, TypeOK
  <2>2. wallet \in Digits(OrdinarySize) /\ SizeOf(wallet) = OrdinarySize /\ wallet \notin Integrated
    BY <1>0, OneSize, Sizes, SizesAssumption
  <2>3. Repairable(wallet) => IsText(ux_wallet_public_address, subject, Shown(subject))'
    BY <1>0, <2>1, <2>2, EncoderRepairs, PageShows, Sizes
  <2>4. PageIsTheAddress'
    BY <2>1, <2>3 DEF PageIsTheAddress, Shown
  <2> QED BY <2>1, <2>4, NoDestination DEF QuestionsWait, Questions, ModeTellsWhoAsked
<1>10. CASE ui_menu_pubaddr_action \/ ui_menu_words_back \/ ui_menu_validation_action
            \/ ui_menu_words_display \/ ui_menu_reset_action \/ restart
  <2>1. screen' \in {"main", "words"}
    BY <1>10 DEF ui_menu_pubaddr_action, ui_menu_words_back, ui_menu_validation_action,
                 ui_menu_words_display, ui_menu_reset_action, restart, ui_menu_main_display
  <2> QED BY <2>1, NoPage, NoDestination DEF QuestionsWait, Questions
<1> QED BY <1>0, <1>1, <1>2, <1>3, <1>4, <1>5, <1>6, <1>7, <1>8, <1>9, <1>10
        DEF Next, Command, User

-----------------------------------------------------------------------------
\* The inductive invariant holds, whatever the addresses, and the sizes within the
\* assumption.
THEOREM Invariance == Spec => []IInv
<1>1. Init => IInv
  BY InitType
     DEF Init, IInv, QuestionsWait, Questions, ModeTellsWhoAsked, PageIsTheAddress,
         DestinationBegins
<1> QED BY <1>1, StepShows, PTL DEF Spec

\* The buffers hold characters.
THEOREM TypeCorrect == Spec => []TypeOK
<1>1. IInv => TypeOK
  BY DEF IInv
<1> QED BY <1>1, Invariance, PTL

\* An address without short blocks is shown as it is, over whatever text was there.
THEOREM ShowsTheAddress == Spec => []PageIsTheAddress
<1>1. IInv => PageIsTheAddress
  BY DEF IInv
<1> QED BY <1>1, Invariance, PTL

\* The user is asked about a page that begins with the destination of the output.
THEOREM AsksForTheDestination == Spec => []DestinationBegins
<1>1. IInv => DestinationBegins
  BY DEF IInv
<1> QED BY <1>1, Invariance, PTL

\* OK answers a command when and only when one waits.
THEOREM AnswersWhoAsked == Spec => []ModeTellsWhoAsked
<1>1. IInv => ModeTellsWhoAsked
  BY DEF IInv
<1> QED BY <1>1, Invariance, PTL
=============================================================================
