------------------------------ MODULE KeyStore ------------------------------
(***************************************************************************)
(* What survives a restart: the flash (electroneum_nv_state_s), its        *)
(* installation and reset (electroneum_init.c), the import of keys and the *)
(* seed words (electroneum_key.c), and the keys loaded from it.            *)
(*                                                                         *)
(* An operation is a sequence of flash writes.  A field is written whole,  *)
(* a block field by field in the order of its addresses, and the power can *)
(* be lost between any two writes.  Nothing else runs between them.        *)
(***************************************************************************)
EXTENDS Sequences

CONSTANTS
  Wallets,  \* the key pairs a host imports
  Seed,     \* the key pair derived from the seed of the device
  NoWallet, \* zeros in place of a key or of words
  Networks,
  Default   \* the network of a first installation: MAINNET

ASSUME WalletsAssumption == Seed \notin Wallets /\ NoWallet \notin Wallets \cup {Seed}
ASSUME NetworksAssumption == Default \in Networks

VARIABLES
  flash,  \* N_electroneum_pstate
  ram,    \* the keys in use, a and b, and whether they were set
  app,    \* "off", "running", or "stopped" by an error of its start
  doing,  \* the operation that runs; a PUT_KEY whose spend key is wrong is "refused"
  todo,   \* the writes it has left
  since   \* history: what the wallet is since the magic was last erased

storeVars == << flash, ram, app, doing, todo, since >>

-----------------------------------------------------------------------------
Write(field, value) == [field |-> field, value |-> value]

Erased == [magic |-> FALSE, network_id |-> Default, key_mode |-> "NONE",
           b |-> NoWallet, a |-> NoWallet, words |-> NoWallet]

\* Mutants of electroneum_install: the magic is written before what it vouches for; the
\* flash is not erased before.
electroneum_install_magic_first(netId) ==
  << Write("magic", FALSE), Write("network_id", Default), Write("key_mode", "NONE"),
     Write("b", NoWallet), Write("a", NoWallet), Write("words", NoWallet),
     Write("magic", TRUE), Write("key_mode", "SEED"), Write("network_id", netId) >>

electroneum_install_over(netId) ==
  << Write("key_mode", "SEED"), Write("network_id", netId), Write("magic", TRUE) >>

\* The fields are erased in the order of electroneum_nv_state_s, then three are written.
electroneum_install(netId) ==
  << Write("magic", FALSE), Write("network_id", Default), Write("key_mode", "NONE"),
     Write("b", NoWallet), Write("a", NoWallet), Write("words", NoWallet),
     Write("key_mode", "SEED"), Write("network_id", netId), Write("magic", TRUE) >>

NoKeys == [set |-> FALSE, a |-> NoWallet, b |-> NoWallet]

\* The keys electroneum_init_private_key loads; another key mode is an error.
Loadable == flash.key_mode \in {"SEED", "EXTERNAL"}

\* Mutant of Loaded: key_set is forgotten.
Loaded_unset ==
  IF flash.key_mode = "SEED"
  THEN [set |-> FALSE, a |-> Seed, b |-> Seed]
  ELSE [set |-> FALSE, a |-> flash.a, b |-> flash.b]

Loaded ==
  IF flash.key_mode = "SEED"
  THEN [set |-> TRUE, a |-> Seed, b |-> Seed]
  ELSE [set |-> TRUE, a |-> flash.a, b |-> flash.b]

Idle == app = "running" /\ doing = "nothing"

\* A start: up to the test of the magic, and after it.
Starting == {"electroneum_init", "init_private_key"}

Start(operation, writes) ==
  /\ Idle
  /\ doing' = operation
  /\ todo' = writes
  /\ UNCHANGED << flash, ram, app, since >>

-----------------------------------------------------------------------------
\* main, and again after the application was left or the power lost.
Boot ==
  /\ app = "off"
  /\ app' = "running" /\ doing' = "electroneum_init"
  /\ UNCHANGED << flash, ram, todo, since >>

PowerLoss ==
  /\ app' = "off" /\ doing' = "nothing" /\ todo' = << >>
  /\ ram' = NoKeys
  /\ UNCHANGED << flash, since >>

\* The next write of the operation that runs.
nvm_write ==
  /\ todo # << >>
  /\ flash' = [flash EXCEPT ![Head(todo).field] = Head(todo).value]
  /\ todo' = Tail(todo)
  /\ since' = IF Head(todo) = Write("magic", FALSE) THEN "installed"
              ELSE IF doing = "put_key" /\ todo' = << >> THEN "imported"
              ELSE IF doing \notin Starting /\ since = "installed" THEN "used"
              ELSE since
  /\ UNCHANGED << ram, app, doing >>

\* What was to be written before is written.  The magic is tested, once: without it the
\* flash is installed.
electroneum_init ==
  /\ doing = "electroneum_init" /\ todo = << >>
  /\ doing' = "init_private_key"
  /\ todo' = (IF flash.magic THEN << >> ELSE electroneum_install(Default))
  /\ UNCHANGED << flash, ram, app, since >>

\* Then the keys are loaded, whatever the magic is, and an error of this stops the application.
init_private_key ==
  /\ doing = "init_private_key" /\ todo = << >>
  /\ doing' = "nothing"
  /\ IF Loadable
     THEN ram' = Loaded /\ UNCHANGED app
     ELSE ram' = NoKeys /\ app' = "stopped"
  /\ UNCHANGED << flash, todo, since >>

\* The other operations end with their last write.
Done ==
  /\ doing \in {"put_key", "refused", "seedwords"} /\ todo = << >>
  /\ doing' = "nothing"
  /\ UNCHANGED << flash, ram, app, todo, since >>

-----------------------------------------------------------------------------
\* INS_RESET, or a reset of the transport: the flash is not touched.
apdu_reset == Start("electroneum_init", << >>)

ui_menu_reset_action == Start("electroneum_init", << Write("magic", FALSE) >>)

ui_menu_network_action(net) == Start("electroneum_init", electroneum_install(net))

\* Mutant of put_key: the mode is changed before the keys are there.
put_key_mode_first(w, spendKeyIsRight) ==
  Start(IF spendKeyIsRight THEN "put_key" ELSE "refused",
        IF spendKeyIsRight
        THEN << Write("key_mode", "EXTERNAL"), Write("a", w), Write("b", w) >>
        ELSE << Write("key_mode", "EXTERNAL"), Write("a", w) >>)

\* The view key was checked and is stored; then the spend key is checked and stored,
\* and the mode changed.
put_key(w, spendKeyIsRight) ==
  Start(IF spendKeyIsRight THEN "put_key" ELSE "refused",
        IF spendKeyIsRight
        THEN << Write("a", w), Write("b", w), Write("key_mode", "EXTERNAL") >>
        ELSE << Write("a", w) >>)

\* Words of the key in use, from some part of a list, or no words.
manage_seedwords == \E owner \in {ram.b, NoWallet} : Start("seedwords", << Write("words", owner) >>)

\* io_event loads the keys again when the device is unlocked.
Unlock ==
  /\ Idle
  /\ Loadable
  /\ ram' = Loaded
  /\ UNCHANGED << flash, app, doing, todo, since >>

-----------------------------------------------------------------------------
Init ==
  /\ flash = Erased
  /\ ram = NoKeys
  /\ app = "off" /\ doing = "nothing" /\ todo = << >>
  /\ since = "installed"

Next ==
  \/ Boot \/ PowerLoss \/ nvm_write \/ electroneum_init \/ init_private_key \/ Done
  \/ apdu_reset \/ ui_menu_reset_action
  \/ \E net \in Networks : ui_menu_network_action(net)
  \/ \E w \in Wallets, spendKeyIsRight \in BOOLEAN : put_key(w, spendKeyIsRight)
  \/ manage_seedwords
  \/ Unlock

Spec == Init /\ [][Next]_storeVars

-----------------------------------------------------------------------------
(***************************************************************************)
(* Properties                                                              *)
(***************************************************************************)
Owners == Wallets \cup {Seed, NoWallet}
Flash  == [magic : BOOLEAN, network_id : Networks, key_mode : {"NONE", "SEED", "EXTERNAL"},
           b : Owners, a : Owners, words : Owners]

\* Every variable has its type; what is left to do belongs to an operation, and a running
\* application that waits has its keys set.
TypeOK ==
  /\ flash \in Flash
  /\ ram \in [set : BOOLEAN, a : Owners, b : Owners]
  /\ app \in {"off", "running", "stopped"}
  /\ doing \in {"nothing", "put_key", "refused", "seedwords"} \cup Starting
  /\ todo # << >> => doing # "nothing"
  /\ since \in {"installed", "used", "imported"}
  /\ Idle => ram.set

\* The magic vouches for the flash: wherever the power was lost, and in whichever
\* installation, the application starts and loads its keys.
AlwaysStarts == app # "stopped" /\ (Idle => Loadable)

\* The flash after an installation for a network.
Fresh(net) == [magic |-> TRUE, network_id |-> net, key_mode |-> "SEED",
               b |-> NoWallet, a |-> NoWallet, words |-> NoWallet]

\* Once a reset or a change of the network has erased the magic, nothing of the wallet
\* before it comes back, whatever was interrupted: the application is as just installed
\* until keys or words are put in again.
JustInstalled ==
  Idle /\ since = "installed" => flash = Fresh(flash.network_id)

\* A PUT_KEY that was refused half way, or cut off by a loss of power, does not take a
\* device off the keys of its seed.
SeedUntilImported == Idle /\ since # "imported" => ram.a = Seed /\ ram.b = Seed

\* "check A == a.G, check B == b.G, store" (blue-app-commands.rst:415): a pair of keys is
\* stored once both are checked, so the keys in use are of one pair.
KeysArePaired == Idle => ram.a = ram.b
=============================================================================
