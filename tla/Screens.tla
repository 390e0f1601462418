------------------------------ MODULE Screens ------------------------------
(***************************************************************************)
(* Addresses on the screen of a Nano X (electroneum_electroneum.c,         *)
(* electroneum_ux_nanox.c): the base 58 encoder, the buffers it writes to, *)
(* of which one is in a union with the text of the 25 words and with the   *)
(* scratch space of a proof, and the pages, which are drawn from these     *)
(* buffers whenever the screen is refreshed.                               *)
(*                                                                         *)
(* An address is the sequence of the base 58 digits of its blocks, most    *)
(* significant first; which digits keys, network and payment ID encode to  *)
(* is left free.  The texts beside an address, and amounts, are left out:  *)
(* they are written whole before each page.                                *)
(***************************************************************************)
EXTENDS Integers, Sequences

CONSTANTS
  Full,            \* the characters of a full block, FULL_ENCODED_BLOCK_SIZE: 11
  Last,            \* the characters of the last block: 10
  OrdinarySize,    \* the characters of an address, 98,
  IntegratedSize,  \* and of one with a payment ID, 109
  IntegratedShown, \* those the page copies of an integrated address: 106
  PageSize,        \* the bytes of ux_wallet_public_address before ADDR_TYPE: 108
  AddressSize,     \* the bytes of ux_address: 132
  ModeAt,          \* where disp_addr_mode is, counted from the start of ux_address: 179
  ScratchAt,       \* the first byte of ux_address a proof writes, to the last one: 125
  Ordinary,        \* addresses without a payment ID,
  Integrated,      \* with one,
  Wallets,         \* and of the accounts the device may hold
  WordEnds         \* where the text of the words may end, counted like ModeAt

Digits(size) == [1 .. size -> Nat]

ASSUME SizesAssumption ==
  /\ Full \in Nat \ {0} /\ Last \in Nat \ {0}
  /\ OrdinarySize \in Nat /\ OrdinarySize > Last /\ (OrdinarySize - Last) % Full = 0
  /\ IntegratedSize = OrdinarySize + Full
  /\ IntegratedShown \in OrdinarySize .. IntegratedSize
  /\ PageSize \in Nat /\ PageSize > IntegratedShown
  /\ AddressSize \in Nat /\ AddressSize > IntegratedSize
  /\ ModeAt \in Nat /\ ScratchAt \in Nat
ASSUME AddressesAssumption ==
  /\ Ordinary \subseteq Digits(OrdinarySize) /\ Integrated \subseteq Digits(IntegratedSize)
  /\ Wallets \subseteq Ordinary /\ Wallets # {}
  /\ WordEnds \subseteq Nat

VARIABLES
  stored,         \* the address of the account in the flash,
  wallet,         \* and of the keys in memory
  ux_address, disp_addr_mode,  \* in the union
  ux_wallet_public_address,
  screen,         \* the page
  subject,        \* the address the page is to show
  waits           \* a command is not answered yet

keyVars  == << stored, wallet >>
textVars == << ux_address, disp_addr_mode, ux_wallet_public_address >>
pageVars == << screen, subject, waits >>
vars     == << keyVars, textVars, pageVars >>

-----------------------------------------------------------------------------
(***************************************************************************)
(* Characters and base 58                                                  *)
(***************************************************************************)
NUL == 0
alphabet(digit) == digit + 1  \* so '1' is 1
Letter  == -1                 \* of the words
Scratch == -2                 \* a byte of the proof
Chars   == Nat \cup {Letter, Scratch}

\* The first position of the block of position i in an address of this size.
BlockStart(size, i) ==
  IF i > size - Last THEN size - Last + 1 ELSE i - ((i - 1) % Full)

StartsFullBlock(size, i) == i =< size - Last /\ BlockStart(size, i) = i

\* The block is written from its last digit up, until what is left of the number is 0.
IsWritten(a, size, i) == \E j \in BlockStart(size, i) .. i : a[j] # 0
encode_block(str, a, size, i) == IF IsWritten(a, size, i) THEN alphabet(a[i]) ELSE str[i]

\* The first character of a full block is repaired when nothing was there.
electroneum_base58_public_key(str, a, size) ==
  [i \in DOMAIN str |->
     IF i > size THEN str[i]
     ELSE IF StartsFullBlock(size, i) /\ encode_block(str, a, size, i) = NUL THEN alphabet(0)
     ELSE encode_block(str, a, size, i)]

-----------------------------------------------------------------------------
(***************************************************************************)
(* Pages                                                                   *)
(***************************************************************************)
Modes     == {"0", "DISP_MAIN", "DISP_SUB", "DISP_INTEGRATED", "letter"}
Pages     == {"main", "words", "pubaddr", "validation", "amount", "viewkey"}
Questions == {"validation", "amount", "viewkey"}

Empty(size) == [i \in 1 .. size |-> NUL]

Nothing == << >>  \* the page shows no address

ui_menu_main_display == screen' = "main" /\ subject' = Nothing

\* Mutant of ui_menu_any_pubaddr_display: the copy is as long as its source.
ui_menu_any_pubaddr_display_whole(str, mode, a) ==
  /\ ux_wallet_public_address' = str
  /\ screen' = "pubaddr" /\ subject' = a

\* The page holds a copy of the address.
ui_menu_any_pubaddr_display(str, mode, a) ==
  LET l == IF mode = "DISP_INTEGRATED" THEN IntegratedShown ELSE OrdinarySize
  IN  /\ ux_wallet_public_address' = [i \in 1 .. PageSize |-> IF i =< l THEN str[i] ELSE NUL]
      /\ screen' = "pubaddr" /\ subject' = a

\* Mutant of ui_menu_pubaddr_display: the address is written over what was there.
ui_menu_pubaddr_display_over ==
  /\ screen = "main" /\ ~waits
  /\ LET str == electroneum_base58_public_key(ux_address, wallet, OrdinarySize)
     IN  ux_address' = str /\ ui_menu_any_pubaddr_display(str, "0", wallet)
  /\ disp_addr_mode' = "0"
  /\ UNCHANGED << keyVars, waits >>

\* Mutant of ui_menu_pubaddr_display: the mode is left as it is.
ui_menu_pubaddr_display_mode ==
  /\ screen = "main" /\ ~waits
  /\ LET str == electroneum_base58_public_key(Empty(AddressSize), wallet, OrdinarySize)
     IN  ux_address' = str /\ ui_menu_any_pubaddr_display(str, "0", wallet)
  /\ UNCHANGED << keyVars, disp_addr_mode, waits >>

\* The buffer is cleared before the address of the keys in memory is written.
ui_menu_pubaddr_display ==
  /\ screen = "main" /\ ~waits
  /\ LET str == electroneum_base58_public_key(Empty(AddressSize), wallet, OrdinarySize)
     IN  ux_address' = str /\ ui_menu_any_pubaddr_display(str, "0", wallet)
  /\ disp_addr_mode' = "0"
  /\ UNCHANGED << keyVars, waits >>

\* OK: the command that asked is answered, if the mode says that one did.
ui_menu_pubaddr_action ==
  /\ screen = "pubaddr"
  /\ waits' = (waits /\ disp_addr_mode = "0")
  /\ disp_addr_mode' = "0"
  /\ ui_menu_main_display
  /\ UNCHANGED << keyVars, ux_address, ux_wallet_public_address >>

\* The union is cleared and filled with the words up to where they end.
ui_menu_words_display ==
  /\ screen = "main" /\ ~waits
  /\ \E end \in WordEnds :
       /\ ux_address' = [i \in 1 .. AddressSize |-> IF i =< end THEN Letter ELSE NUL]
       /\ disp_addr_mode' = IF ModeAt =< end THEN "letter" ELSE "0"
  /\ screen' = "words" /\ subject' = Nothing
  /\ UNCHANGED << keyVars, ux_wallet_public_address, waits >>

\* Back, or after the words are cleared in the flash.
ui_menu_words_back ==
  /\ screen = "words"
  /\ ui_menu_main_display
  /\ UNCHANGED << keyVars, textVars, waits >>

-----------------------------------------------------------------------------
(***************************************************************************)
(* Commands: one is not read before the last one is answered               *)
(***************************************************************************)
Asks(page, a) == screen' = page /\ subject' = a /\ waits' = TRUE

electroneum_apdu_display_address(mode, a, size) ==
  /\ ~waits
  /\ LET str == electroneum_base58_public_key(ux_address, a, size)
     IN  ux_address' = str /\ ui_menu_any_pubaddr_display(str, mode, a)
  /\ disp_addr_mode' = mode /\ waits' = TRUE
  /\ UNCHANGED keyVars

\* The destination is written as soon as the output is read, unless it is change; the user
\* is asked when the commitment is right and the amount is not 0.
electroneum_apdu_mlsag_prehash_update(a, is_change) ==
  /\ ~waits
  /\ ux_address' = IF is_change THEN ux_address
                   ELSE electroneum_base58_public_key(ux_address, a, OrdinarySize)
  /\ \/ is_change /\ Asks("amount", Nothing)
     \/ ~is_change /\ Asks("validation", a)
     \/ UNCHANGED pageVars
  /\ UNCHANGED << keyVars, disp_addr_mode, ux_wallet_public_address >>

\* Mutant of electroneum_apdu_tx_prompt_amount: it shows what the output had left there.
electroneum_apdu_tx_prompt_amount_kept(a) ==
  /\ ~waits
  /\ Asks("validation", a)
  /\ UNCHANGED << keyVars, textVars >>

electroneum_apdu_tx_prompt_amount(a) ==
  /\ ~waits
  /\ ux_address' = electroneum_base58_public_key(ux_address, a, OrdinarySize)
  /\ Asks("validation", a)
  /\ UNCHANGED << keyVars, disp_addr_mode, ux_wallet_public_address >>

\* A fee, or the view key: no address is shown.
electroneum_apdu_tx_prompt_fee == ~waits /\ Asks("amount", Nothing) /\ UNCHANGED << keyVars, textVars >>
electroneum_apdu_get_key       == ~waits /\ Asks("viewkey", Nothing) /\ UNCHANGED << keyVars, textVars >>

ui_menu_validation_action ==
  /\ screen \in Questions
  /\ waits' = FALSE
  /\ ui_menu_main_display
  /\ UNCHANGED << keyVars, textVars >>

\* tmp[0..127] is in ux_menu, which no page shows; k is tmp[256..287].
electroneum_apdu_get_tx_proof ==
  /\ ~waits
  /\ ux_address' = [i \in 1 .. AddressSize |-> IF i >= ScratchAt THEN Scratch ELSE ux_address[i]]
  /\ UNCHANGED << keyVars, disp_addr_mode, ux_wallet_public_address, pageVars >>

electroneum_apdu_put_key(w) ==
  /\ ~waits
  /\ stored' = w
  /\ UNCHANGED << wallet, textVars, pageVars >>

-----------------------------------------------------------------------------
(***************************************************************************)
(* Start, reset and unlock                                                 *)
(***************************************************************************)
\* All of the state is cleared; the address for the main menu is written to the buffer of
\* the page.
electroneum_init(w) ==
  /\ wallet' = w
  /\ ux_address' = Empty(AddressSize) /\ disp_addr_mode' = "0"
  /\ ux_wallet_public_address' =
       electroneum_base58_public_key(Empty(PageSize), w, OrdinarySize)

\* The page that is open stays open, over another buffer.
electroneum_apdu_reset ==
  /\ ~waits
  /\ electroneum_init(stored)
  /\ subject' = IF screen = "pubaddr" THEN stored ELSE subject
  /\ UNCHANGED << stored, screen, waits >>

\* The menu erases the device, or sets another network.
ui_menu_reset_action ==
  /\ screen = "main" /\ ~waits
  /\ \E w \in Wallets : stored' = w /\ electroneum_init(w)
  /\ ui_menu_main_display
  /\ UNCHANGED waits

unlock ==
  /\ wallet' = stored
  /\ UNCHANGED << stored, textVars, pageVars >>

restart ==
  /\ electroneum_init(stored)
  /\ ui_menu_main_display
  /\ waits' = FALSE
  /\ UNCHANGED stored

-----------------------------------------------------------------------------
Init ==
  /\ stored \in Wallets /\ wallet = stored
  /\ ux_address = Empty(AddressSize) /\ disp_addr_mode = "0"
  /\ ux_wallet_public_address =
       electroneum_base58_public_key(Empty(PageSize), stored, OrdinarySize)
  /\ screen = "main" /\ subject = Nothing /\ waits = FALSE

Command ==
  \/ electroneum_apdu_display_address("DISP_MAIN", wallet, OrdinarySize)
  \/ \E a \in Ordinary : electroneum_apdu_display_address("DISP_SUB", a, OrdinarySize)
  \/ \E a \in Integrated : electroneum_apdu_display_address("DISP_INTEGRATED", a, IntegratedSize)
  \/ \E a \in Ordinary, is_change \in BOOLEAN :
       electroneum_apdu_mlsag_prehash_update(a, is_change)
  \/ \E a \in Ordinary : electroneum_apdu_tx_prompt_amount(a)
  \/ electroneum_apdu_tx_prompt_fee \/ electroneum_apdu_get_key
  \/ electroneum_apdu_get_tx_proof
  \/ \E w \in Wallets : electroneum_apdu_put_key(w)
  \/ electroneum_apdu_reset

User ==
  \/ ui_menu_pubaddr_display \/ ui_menu_pubaddr_action
  \/ ui_menu_words_display \/ ui_menu_words_back
  \/ ui_menu_validation_action \/ ui_menu_reset_action

Next == Command \/ User \/ unlock \/ restart

Spec == Init /\ [][Next]_vars

-----------------------------------------------------------------------------
(***************************************************************************)
(* Properties                                                              *)
(***************************************************************************)
\* The buffers hold characters, and the page is one the code draws.
TypeOK ==
  /\ stored \in Wallets /\ wallet \in Wallets
  /\ ux_address \in [1 .. AddressSize -> Chars] /\ disp_addr_mode \in Modes
  /\ ux_wallet_public_address \in [1 .. PageSize -> Chars]
  /\ screen \in Pages /\ subject \in Ordinary \cup Integrated \cup {Nothing} /\ waits \in BOOLEAN

SizeOf(a) == IF a \in Integrated THEN IntegratedSize ELSE OrdinarySize

\* The first n characters of the address are in the buffer; and nothing follows.
Begins(str, a, n) == \A i \in 1 .. n : str[i] = alphabet(a[i])
IsText(str, a, n) == Begins(str, a, n) /\ str[n + 1] = NUL

\* No block of the address is so small a number that it needs fewer characters.
Fills(a) == \A i \in 1 .. SizeOf(a) : a[BlockStart(SizeOf(a), i)] # 0

\* Only full blocks are, and need one character less.
Repairable(a) ==
  \A i \in 1 .. SizeOf(a) :
    IsWritten(a, SizeOf(a), i) \/ StartsFullBlock(SizeOf(a), i)

\* The page "Address" shows the address it was opened for, the first 106 characters if it
\* is an integrated one, whatever was in the buffers before and whatever commands came
\* since: for the menu if the address is repairable, for INS_DISPLAY_ADDRESS, which writes
\* over an older text, if all of its blocks fill their characters.
PageIsTheAddress ==
  /\ screen = "pubaddr"
  /\ IF disp_addr_mode = "0" THEN Repairable(subject) ELSE Fills(subject)
  => IsText(ux_wallet_public_address, subject,
            IF subject \in Integrated THEN IntegratedShown ELSE OrdinarySize)

\* The page "Destination" begins with the address the user is asked about, as long as its
\* blocks fill their characters; what follows may be left from a longer text.
DestinationBegins ==
  screen = "validation" /\ Fills(subject) => Begins(ux_address, subject, OrdinarySize)

\* OK on the page "Address" sends an answer when and only when a command waits for one,
\* although the mode that tells is in the union with the words.
ModeTellsWhoAsked == screen = "pubaddr" => (waits <=> disp_addr_mode # "0")

\* "Hard fix to correctly display some addresses on device screen"
\* (electroneum_electroneum.c:155): the address of the menu is shown as it is.
MenuAddressIsRight ==
  screen = "pubaddr" /\ disp_addr_mode = "0"
    => IsText(ux_wallet_public_address, subject, OrdinarySize)
=============================================================================
