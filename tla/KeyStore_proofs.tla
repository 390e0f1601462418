-------------------------- MODULE KeyStore_proofs ---------------------------
(***************************************************************************)
(* Proofs about KeyStore, for any wallets and networks.                    *)
(*                                                                         *)
(* The inductive invariant IInv says how far the operation that runs has   *)
(* come (OpInv), what the magic vouches for (FlashInv) and which keys are  *)
(* in use once the application waits (RamInv).  An installation writes nine*)
(* fields, and each of them stays as written until the magic, which comes  *)
(* last: this is what FlashInv needs of OpInv.                             *)
(***************************************************************************)
EXTENDS KeyStore, Integers, TLAPS

\* A write of a value to a field that can hold it.
Writes ==
  [field : {"magic"}, value : BOOLEAN] \cup [field : {"network_id"}, value : Networks]
    \cup [field : {"key_mode"}, value : {"NONE", "SEED", "EXTERNAL"}]
    \cup [field : {"b", "a", "words"}, value : Owners]

\* What is left to do is the end of these writes.
Left(writes) ==
  /\ Len(todo) <= Len(writes)
  /\ \A i \in 1..Len(todo) : todo[i] = writes[Len(writes) - Len(todo) + i]

\* The writes of a PUT_KEY.
Pair(w) == << Write("a", w), Write("b", w), Write("key_mode", "EXTERNAL") >>

\* An installation that has begun: the magic is erased, and what was written is there.
Installing(net) ==
  /\ Left(electroneum_install(net))
  /\ Len(todo) <= 8 => ~flash.magic
  /\ Len(todo) <= 5 => flash.b = NoWallet
  /\ Len(todo) <= 4 => flash.a = NoWallet
  /\ Len(todo) <= 3 => flash.words = NoWallet
  /\ Len(todo) <= 2 => flash.key_mode = "SEED"
  /\ Len(todo) <= 1 => flash.network_id = net

OpInv ==
  /\ todo \in Seq(Writes)
  /\ app # "running" => doing = "nothing"
  /\ doing = "nothing" => todo = << >>
  /\ doing = "electroneum_init" /\ todo # << >> =>
       \/ \E net \in Networks : Installing(net)
       \/ Left(<< Write("magic", FALSE) >>)
  /\ doing = "init_private_key" =>
       IF todo = << >> THEN flash.magic ELSE Installing(Default)
  /\ doing = "put_key"   => \E w \in Wallets : Left(Pair(w))
  /\ doing = "refused"   => \E w \in Wallets : Left(<< Write("a", w) >>)
  /\ doing = "seedwords" => \E w \in Owners : Left(<< Write("words", w) >>)

FlashInv ==
  /\ flash \in Flash
  /\ ~flash.magic => since = "installed"
  /\ flash.magic => Loadable
  /\ flash.magic /\ since # "imported" => flash.key_mode = "SEED"
  /\ flash.magic /\ since = "installed" => flash = Fresh(flash.network_id)

RamInv ==
  /\ ram \in [set : BOOLEAN, a : Owners, b : Owners]
  /\ app = "running" /\ doing \notin Starting =>
       /\ flash.magic /\ ram.set
       /\ since # "imported" => ram.a = Seed /\ ram.b = Seed

Basics ==
  /\ app \in {"off", "running"}
  /\ doing \in {"nothing", "put_key", "refused", "seedwords"} \cup Starting
  /\ since \in {"installed", "used", "imported"}

IInv == Basics /\ OpInv /\ FlashInv /\ RamInv

-----------------------------------------------------------------------------
(***************************************************************************)
(* Sequences of writes                                                     *)
(***************************************************************************)
USE WalletsAssumption, NetworksAssumption DEF Starting

\* The sequences of writes the operations begin with.
LEMMA WritesTyped ==
  /\ \A net \in Networks : electroneum_install(net) \in Seq(Writes)
  /\ \A w \in Owners : /\ Pair(w) \in Seq(Writes)
                       /\ << Write("a", w) >> \in Seq(Writes)
                       /\ << Write("words", w) >> \in Seq(Writes)
  /\ << Write("magic", FALSE) >> \in Seq(Writes)
  /\ Wallets \subseteq Owners /\ NoWallet \in Owners
BY DEF electroneum_install, Pair, Write, Writes, Owners

\* A new operation has all its writes left.
LEMMA AllLeft ==
  ASSUME NEW writes \in Seq(Writes), todo' = writes
  PROVE  Left(writes)' /\ todo' \in Seq(Writes)
BY DEF Left

\* The next write is the one before those left after it.
LEMMA OneLess ==
  ASSUME todo \in Seq(Writes), todo # << >>, todo' = Tail(todo),
         NEW writes \in Seq(Writes), Left(writes)
  PROVE  /\ Left(writes)'
         /\ todo' \in Seq(Writes)
         /\ Len(todo) \in 1..Len(writes)
         /\ Len(todo') = Len(todo) - 1
         /\ Head(todo) = writes[Len(writes) - Len(todo) + 1]
<1>1. Len(todo) \in Nat \ {0} /\ Len(todo') = Len(todo) - 1 /\ todo' \in Seq(Writes)
  BY DEF Writes
<1>2. \A i \in 1..Len(todo') : todo'[i] = todo[i + 1]
  BY <1>1
<1>3. Head(todo) = todo[1]
  BY <1>1
<1>4. Len(writes) \in Nat
  OBVIOUS
<1>5. Left(writes)'
  <2>1. Len(todo') <= Len(writes)
    BY <1>1, <1>4 DEF Left
  <2>2. ASSUME NEW i \in 1..Len(todo')
        PROVE  todo'[i] = writes[Len(writes) - Len(todo') + i]
    <3>1. i + 1 \in 1..Len(todo) BY <1>1
    <3>2. todo[i + 1] = writes[Len(writes) - Len(todo) + (i + 1)] BY <3>1 DEF Left
    <3>3. Len(writes) - Len(todo) + (i + 1) = Len(writes) - Len(todo') + i BY <1>1, <1>4
    <3> QED BY <1>2, <3>2, <3>3
  <2> QED BY <2>1, <2>2 DEF Left
<1> QED BY <1>1, <1>3, <1>4, <1>5 DEF Left

-----------------------------------------------------------------------------
(***************************************************************************)
(* Beginnings of operations                                                *)
(***************************************************************************)
LEMMA InitEstablishes == Init => IInv
BY DEF Init, IInv, Basics, OpInv, FlashInv, RamInv, Erased, Flash, Owners, NoKeys, Loadable

\* Flash and keys are as they were, and all writes of the operation are left.
LEMMA StartKeeps ==
  ASSUME IInv, NEW operation, NEW writes \in Seq(Writes), Start(operation, writes)
  PROVE  /\ FlashInv' /\ RamInv'
         /\ app' = "running" /\ doing' = operation /\ since' \in {"installed", "used", "imported"}
         /\ todo' \in Seq(Writes) /\ todo' = writes /\ Left(writes)'
<1>1. FlashInv'
  BY DEF IInv, FlashInv, Start, Loadable
<1>2. RamInv'
  BY DEF IInv, RamInv, Start, Idle
<1>3. Left(writes)'
  BY AllLeft DEF Start
<1> QED BY <1>1, <1>2, <1>3 DEF IInv, Basics, Start, Idle

LEMMA StartsInstallation ==
  ASSUME IInv, NEW net \in Networks, Start("electroneum_init", electroneum_install(net))
  PROVE  IInv'
<1>1. electroneum_install(net) \in Seq(Writes)
  BY WritesTyped
<1>2. /\ FlashInv' /\ RamInv' /\ app' = "running" /\ doing' = "electroneum_init"
      /\ since' \in {"installed", "used", "imported"}
      /\ todo' \in Seq(Writes) /\ todo' = electroneum_install(net)
      /\ Left(electroneum_install(net))'
  BY <1>1, StartKeeps
<1>3. Len(todo') = 9
  BY <1>2 DEF electroneum_install
<1>4. Installing(net)'
  BY <1>2, <1>3 DEF Installing
<1> QED BY <1>2, <1>4 DEF IInv, Basics, OpInv

LEMMA StartsReset ==
  ASSUME IInv, Start("electroneum_init", << Write("magic", FALSE) >>)
  PROVE  IInv'
<1>1. << Write("magic", FALSE) >> \in Seq(Writes)
  BY WritesTyped
<1>2. /\ FlashInv' /\ RamInv' /\ app' = "running" /\ doing' = "electroneum_init"
      /\ since' \in {"installed", "used", "imported"} /\ todo' \in Seq(Writes)
      /\ Left(<< Write("magic", FALSE) >>)'
  BY <1>1, StartKeeps
<1> QED BY <1>2 DEF IInv, Basics, OpInv

LEMMA StartsInit ==
  ASSUME IInv, Start("electroneum_init", << >>)
  PROVE  IInv'
<1>1. << >> \in Seq(Writes)
  OBVIOUS
<1>2. /\ FlashInv' /\ RamInv' /\ app' = "running" /\ doing' = "electroneum_init"
      /\ since' \in {"installed", "used", "imported"} /\ todo' \in Seq(Writes) /\ todo' = << >>
  BY <1>1, StartKeeps
<1> QED BY <1>2 DEF IInv, Basics, OpInv

LEMMA StartsPutKey ==
  ASSUME IInv, NEW w \in Wallets, NEW spendKeyIsRight \in BOOLEAN, put_key(w, spendKeyIsRight)
  PROVE  IInv'
<1>1. Pair(w) \in Seq(Writes) /\ << Write("a", w) >> \in Seq(Writes)
  BY WritesTyped
<1>2. CASE spendKeyIsRight
  <2>1. Start("put_key", Pair(w))
    BY <1>2 DEF put_key, Pair
  <2>2. /\ FlashInv' /\ RamInv' /\ app' = "running" /\ doing' = "put_key"
        /\ since' \in {"installed", "used", "imported"} /\ todo' \in Seq(Writes) /\ Left(Pair(w))'
    BY <1>1, <2>1, StartKeeps
  <2> QED BY <2>2 DEF IInv, Basics, OpInv
<1>3. CASE ~spendKeyIsRight
  <2>1. Start("refused", << Write("a", w) >>)
    BY <1>3 DEF put_key
  <2>2. /\ FlashInv' /\ RamInv' /\ app' = "running" /\ doing' = "refused"
        /\ since' \in {"installed", "used", "imported"} /\ todo' \in Seq(Writes)
        /\ Left(<< Write("a", w) >>)'
    BY <1>1, <2>1, StartKeeps
  <2> QED BY <2>2 DEF IInv, Basics, OpInv
<1> QED BY <1>2, <1>3

LEMMA StartsSeedwords ==
  ASSUME IInv, manage_seedwords
  PROVE  IInv'
<1>1. PICK owner \in {ram.b, NoWallet} : Start("seedwords", << Write("words", owner) >>)
  BY DEF manage_seedwords
<1>2. owner \in Owners
  BY DEF IInv, RamInv, Owners
<1>3. << Write("words", owner) >> \in Seq(Writes)
  BY <1>2, WritesTyped
<1>4. /\ FlashInv' /\ RamInv' /\ app' = "running" /\ doing' = "seedwords"
      /\ since' \in {"installed", "used", "imported"} /\ todo' \in Seq(Writes)
      /\ Left(<< Write("words", owner) >>)'
  BY <1>1, <1>3, StartKeeps
<1> QED BY <1>2, <1>4 DEF IInv, Basics, OpInv

-----------------------------------------------------------------------------
(***************************************************************************)
(* One write                                                               *)
(***************************************************************************)
\* What a write does, by its field.
LEMMA Written ==
  ASSUME IInv, nvm_write, NEW field, NEW value, Head(todo) = Write(field, value)
  PROVE  /\ field = "magic" => flash' = [flash EXCEPT !.magic = value]
         /\ field = "network_id" => flash' = [flash EXCEPT !.network_id = value]
         /\ field = "key_mode" => flash' = [flash EXCEPT !.key_mode = value]
         /\ field = "b" => flash' = [flash EXCEPT !.b = value]
         /\ field = "a" => flash' = [flash EXCEPT !.a = value]
         /\ field = "words" => flash' = [flash EXCEPT !.words = value]
<1>0. Head(todo).field = field /\ Head(todo).value = value
  BY DEF Write
<1>1. flash' = [flash EXCEPT ![field] = value]
  BY <1>0 DEF nvm_write
<1>2. field = "magic" => flash' = [flash EXCEPT !.magic = value] BY <1>1
<1>3. field = "network_id" => flash' = [flash EXCEPT !.network_id = value] BY <1>1
<1>4. field = "key_mode" => flash' = [flash EXCEPT !.key_mode = value] BY <1>1
<1>5. field = "b" => flash' = [flash EXCEPT !.b = value] BY <1>1
<1>6. field = "a" => flash' = [flash EXCEPT !.a = value] BY <1>1
<1>7. field = "words" => flash' = [flash EXCEPT !.words = value] BY <1>1
<1> QED BY <1>2, <1>3, <1>4, <1>5, <1>6, <1>7

\* An installation goes on.
LEMMA InstallGoesOn ==
  ASSUME IInv, nvm_write, NEW net \in Networks, Installing(net),
         doing = "electroneum_init" \/ (doing = "init_private_key" /\ net = Default)
  PROVE  IInv'
<1> DEFINE writes == electroneum_install(net)
<1>1. writes \in Seq(Writes)
  BY WritesTyped
<1>2. Len(writes) = 9
  BY DEF electroneum_install
<1>3. todo \in Seq(Writes) /\ todo # << >> /\ todo' = Tail(todo) /\ Left(writes)
  BY DEF IInv, OpInv, nvm_write, Installing
<1>4. /\ flash \in Flash /\ ram \in [set : BOOLEAN, a : Owners, b : Owners]
      /\ ~flash.magic => since = "installed"
  BY DEF IInv, FlashInv, RamInv
<1>5. /\ app' = "running" /\ doing' = doing /\ doing \in Starting /\ ram' = ram
      /\ since \in {"installed", "used", "imported"}
      /\ since' = IF Head(todo) = Write("magic", FALSE) THEN "installed" ELSE since
  BY DEF IInv, Basics, OpInv, Starting, nvm_write
<1>n. PICK n \in 1..9 : n = Len(todo)
  BY <1>1, <1>2, <1>3, OneLess
<1>6. /\ Left(writes)' /\ todo' \in Seq(Writes)
      /\ Len(todo') = n - 1
      /\ Head(todo) = writes[(9 - n) + 1]
  BY <1>1, <1>2, <1>3, <1>n, OneLess
<1>7. /\ n <= 8 => ~flash.magic
      /\ n <= 5 => flash.b = NoWallet
      /\ n <= 4 => flash.a = NoWallet
      /\ n <= 3 => flash.words = NoWallet
      /\ n <= 2 => flash.key_mode = "SEED"
      /\ n <= 1 => flash.network_id = net
  BY <1>n DEF Installing
\* It is enough that the flash is as it should be after the write.
<1>8. SUFFICES /\ FlashInv'
               /\ since' \in {"installed", "used", "imported"}
               /\ IF n = 1 THEN flash'.magic ELSE Installing(net)'
  <2>1. Basics'
    BY <1>5, <1>8 DEF Basics
  <2>2. RamInv'
    BY <1>4, <1>5 DEF RamInv
  <2>3. todo' = << >> <=> n = 1
    BY <1>6
  <2>4. OpInv'
    <3>1. CASE doing = "electroneum_init"
      BY <1>5, <1>6, <1>8, <2>3, <3>1 DEF OpInv
    <3>2. CASE doing = "init_private_key" /\ net = Default
      BY <1>5, <1>6, <1>8, <2>3, <3>2 DEF OpInv
    <3> QED BY <3>1, <3>2
  <2> QED BY <1>8, <2>1, <2>2, <2>4 DEF IInv
<1>9. CASE n = 9
  <2>1. Head(todo) = writes[1]
    BY <1>6, <1>9
  <2>2. Head(todo) = Write("magic", FALSE)
    BY <2>1 DEF electroneum_install
  <2>3. flash' = [flash EXCEPT !.magic = FALSE]
    BY <2>2, Written
  <2>4. since' = "installed"
    BY <1>5, <2>2
  <2>5. FlashInv'
    BY <1>4, <2>3, <2>4 DEF FlashInv, Flash
  <2>6. Installing(net)'
    BY <1>4, <1>6, <1>9, <2>3 DEF Installing, Flash
  <2> QED BY <1>9, <2>4, <2>5, <2>6
<1>10. CASE n \in 2..8
  <2>1. ~flash.magic /\ since = "installed"
    BY <1>4, <1>7, <1>10
  <2>2. since' = "installed"
    BY <1>5, <2>1
  <2>3. \/ n = 8 /\ Head(todo) = writes[2]
        \/ n = 7 /\ Head(todo) = writes[3]
        \/ n = 6 /\ Head(todo) = writes[4]
        \/ n = 5 /\ Head(todo) = writes[5]
        \/ n = 4 /\ Head(todo) = writes[6]
        \/ n = 3 /\ Head(todo) = writes[7]
        \/ n = 2 /\ Head(todo) = writes[8]
    <3> HIDE DEF writes
    <3> QED BY <1>6, <1>10
  <2>4. \/ n = 8 /\ flash' = [flash EXCEPT !.network_id = Default]
        \/ n = 7 /\ flash' = [flash EXCEPT !.key_mode = "NONE"]
        \/ n = 6 /\ flash' = [flash EXCEPT !.b = NoWallet]
        \/ n = 5 /\ flash' = [flash EXCEPT !.a = NoWallet]
        \/ n = 4 /\ flash' = [flash EXCEPT !.words = NoWallet]
        \/ n = 3 /\ flash' = [flash EXCEPT !.key_mode = "SEED"]
        \/ n = 2 /\ flash' = [flash EXCEPT !.network_id = net]
    <3>1. /\ writes[2] = Write("network_id", Default) /\ writes[3] = Write("key_mode", "NONE")
          /\ writes[4] = Write("b", NoWallet) /\ writes[5] = Write("a", NoWallet)
          /\ writes[6] = Write("words", NoWallet) /\ writes[7] = Write("key_mode", "SEED")
          /\ writes[8] = Write("network_id", net)
      BY DEF electroneum_install
    <3> HIDE DEF writes
    <3> QED BY <2>3, <3>1, Written
  <2>5. flash' \in Flash /\ ~flash'.magic
    BY <1>4, <2>1, <2>4 DEF Flash, Owners
  <2>6. FlashInv'
    BY <2>2, <2>5 DEF FlashInv
  <2>7. Installing(net)'
    BY <1>4, <1>6, <1>7, <2>4, <2>5 DEF Installing, Flash
  <2> QED BY <1>10, <2>2, <2>6, <2>7
<1>11. CASE n = 1
  <2>1. Head(todo) = writes[9]
    BY <1>6, <1>11
  <2>2. Head(todo) = Write("magic", TRUE)
    BY <2>1 DEF electroneum_install
  <2>3. flash' = [flash EXCEPT !.magic = TRUE]
    BY <2>2, Written
  <2>4. /\ ~flash.magic /\ flash.network_id = net /\ flash.key_mode = "SEED"
        /\ flash.b = NoWallet /\ flash.a = NoWallet /\ flash.words = NoWallet
    BY <1>7, <1>11
  <2>5. flash' = Fresh(net)
    <3>1. flash = [magic |-> FALSE, network_id |-> net, key_mode |-> "SEED",
                   b |-> NoWallet, a |-> NoWallet, words |-> NoWallet]
      BY <1>4, <2>4 DEF Flash
    <3>2. flash' = [magic |-> TRUE, network_id |-> net, key_mode |-> "SEED",
                    b |-> NoWallet, a |-> NoWallet, words |-> NoWallet]
      BY <2>3, <3>1
    <3> QED BY <3>2 DEF Fresh
  <2>6. since' = "installed"
    BY <1>4, <1>5, <2>4
  <2>7. FlashInv'
    BY <2>5, <2>6 DEF FlashInv, Fresh, Flash, Owners, Loadable
  <2> QED BY <1>11, <2>5, <2>6, <2>7 DEF Fresh
<1> QED
  <2>1. n = 9 \/ n \in 2..8 \/ n = 1
    OBVIOUS
  <2> QED BY <1>9, <1>10, <1>11, <2>1

\* A reset erases the magic.
LEMMA ResetGoesOn ==
  ASSUME IInv, nvm_write, doing = "electroneum_init", Left(<< Write("magic", FALSE) >>)
  PROVE  IInv'
<1> DEFINE writes == << Write("magic", FALSE) >>
<1>1. writes \in Seq(Writes) /\ Len(writes) = 1
  BY WritesTyped
<1>2. todo \in Seq(Writes) /\ todo # << >> /\ todo' = Tail(todo)
  BY DEF IInv, OpInv, nvm_write
<1>3. Left(writes)
  OBVIOUS
<1>4. Len(todo') = 0 /\ todo' \in Seq(Writes) /\ Head(todo) = writes[1]
  <2> HIDE DEF writes
  <2>1. Len(todo) \in 1..1 /\ Len(todo') = Len(todo) - 1 /\ todo' \in Seq(Writes)
        /\ Head(todo) = writes[1 - Len(todo) + 1]
    BY <1>1, <1>2, <1>3, OneLess
  <2>2. Len(todo) = 1
    BY <2>1
  <2> QED BY <2>1, <2>2
<1>5. Head(todo) = Write("magic", FALSE)
  BY <1>4
<1>6. flash' = [flash EXCEPT !.magic = FALSE]
  BY <1>5, Written
<1>7. since' = "installed" /\ app' = app /\ doing' = "electroneum_init" /\ ram' = ram
  BY <1>5 DEF nvm_write
<1>8. todo' = << >>
  BY <1>4
<1>9. FlashInv'
  BY <1>6, <1>7 DEF IInv, FlashInv, Flash
<1>10. RamInv'
  BY <1>7 DEF IInv, RamInv
<1>11. Basics' /\ OpInv'
  BY <1>4, <1>7, <1>8 DEF IInv, Basics, OpInv
<1> QED BY <1>9, <1>10, <1>11 DEF IInv

\* While keys or words are stored the magic is there and stays, and the history says that
\* something was put in.
LEMMA Storing ==
  ASSUME IInv, nvm_write, doing \in {"put_key", "refused", "seedwords"},
         NEW field \in {"a", "b", "words"}, NEW value \in Owners,
         Head(todo) = Write(field, value)
  PROVE  /\ FlashInv' /\ RamInv' /\ Basics'
         /\ app' = "running" /\ doing' = doing
<1>1. Head(todo) # Write("magic", FALSE)
  <2>1. Head(todo).field # "magic"
    BY DEF Write
  <2> QED BY <2>1 DEF Write
<1>2. /\ app = "running" /\ flash.magic /\ flash \in Flash /\ flash.key_mode \in {"SEED", "EXTERNAL"}
      /\ since # "imported" => flash.key_mode = "SEED"
      /\ since \in {"installed", "used", "imported"}
  BY DEF IInv, Basics, OpInv, FlashInv, RamInv, Loadable
<1>3. /\ since' \in {"used", "imported"}
      /\ since = "imported" => since' = "imported"
  BY <1>1, <1>2 DEF nvm_write
<1>4. /\ flash' \in Flash /\ flash'.magic /\ flash'.key_mode = flash.key_mode
  <2>1. /\ field = "a" => flash' = [flash EXCEPT !.a = value]
        /\ field = "b" => flash' = [flash EXCEPT !.b = value]
        /\ field = "words" => flash' = [flash EXCEPT !.words = value]
    BY Written
  <2> QED BY <1>2, <2>1 DEF Flash
<1>5. FlashInv'
  BY <1>2, <1>3, <1>4 DEF FlashInv, Loadable
<1>6. RamInv'
  BY <1>2, <1>3, <1>4 DEF IInv, RamInv, nvm_write
<1> QED BY <1>2, <1>3, <1>5, <1>6 DEF IInv, Basics, nvm_write

\* A PUT_KEY with the right spend key: the mode is changed with the last of its writes.
LEMMA PutKeyGoesOn ==
  ASSUME IInv, nvm_write, doing = "put_key", NEW w \in Wallets, Left(Pair(w))
  PROVE  IInv'
<1>1. Pair(w) \in Seq(Writes) /\ w \in Owners
  BY WritesTyped
<1>2. Len(Pair(w)) = 3
  BY DEF Pair
<1>3. todo \in Seq(Writes) /\ todo # << >> /\ todo' = Tail(todo)
  BY DEF IInv, OpInv, nvm_write
<1>n. PICK n \in 1..3 : n = Len(todo)
  BY <1>1, <1>2, <1>3, OneLess
<1>4. /\ Left(Pair(w))' /\ todo' \in Seq(Writes)
      /\ Len(todo') = n - 1 /\ Head(todo) = Pair(w)[(3 - n) + 1]
  BY <1>1, <1>2, <1>3, <1>n, OneLess
<1>5. CASE n = 3
  <2>1. Head(todo) = Pair(w)[1]
    BY <1>4, <1>5
  <2>2. Head(todo) = Write("a", w)
    BY <2>1 DEF Pair
  <2>3. FlashInv' /\ RamInv' /\ Basics' /\ app' = "running" /\ doing' = doing
    BY <1>1, <2>2, Storing
  <2> QED BY <1>4, <2>3 DEF IInv, OpInv
<1>6. CASE n = 2
  <2>1. Head(todo) = Pair(w)[2]
    BY <1>4, <1>6
  <2>2. Head(todo) = Write("b", w)
    BY <2>1 DEF Pair
  <2>3. FlashInv' /\ RamInv' /\ Basics' /\ app' = "running" /\ doing' = doing
    BY <1>1, <2>2, Storing
  <2> QED BY <1>4, <2>3 DEF IInv, OpInv
<1>7. CASE n = 1
  <2>1. Head(todo) = Pair(w)[3]
    BY <1>4, <1>7
  <2>2. Head(todo) = Write("key_mode", "EXTERNAL")
    BY <2>1 DEF Pair
  <2>3. flash' = [flash EXCEPT !.key_mode = "EXTERNAL"]
    BY <2>2, Written
  <2>4. Head(todo) # Write("magic", FALSE)
    <3>1. Head(todo).field # "magic"
      BY <2>2 DEF Write
    <3> QED BY <3>1 DEF Write
  <2>5. todo' = << >>
    BY <1>4, <1>7
  <2>6. since' = "imported" /\ ram' = ram /\ app' = app /\ doing' = doing
    BY <2>4, <2>5 DEF nvm_write
  <2>7. /\ app = "running" /\ flash \in Flash /\ flash.magic
    BY DEF IInv, Basics, OpInv, FlashInv, RamInv
  <2>8. FlashInv'
    BY <2>3, <2>6, <2>7 DEF FlashInv, Flash, Loadable
  <2>9. RamInv'
    BY <2>3, <2>6, <2>7 DEF IInv, RamInv, Flash
  <2>10. Basics' /\ OpInv'
    BY <1>4, <2>6, <2>7 DEF IInv, Basics, OpInv
  <2> QED BY <2>8, <2>9, <2>10 DEF IInv
<1> QED BY <1>5, <1>6, <1>7

\* The other two operations write one field.
LEMMA OneWrite ==
  ASSUME IInv, nvm_write, NEW field \in {"a", "words"}, NEW value \in Owners,
         << Write(field, value) >> \in Seq(Writes), Left(<< Write(field, value) >>)
  PROVE  Head(todo) = Write(field, value) /\ todo' \in Seq(Writes)
         /\ Left(<< Write(field, value) >>)'
<1> DEFINE writes == << Write(field, value) >>
<1>1. writes \in Seq(Writes) /\ Len(writes) = 1 /\ Left(writes)
  OBVIOUS
<1>2. todo \in Seq(Writes) /\ todo # << >> /\ todo' = Tail(todo)
  BY DEF IInv, OpInv, nvm_write
<1>3. Left(writes)' /\ todo' \in Seq(Writes) /\ Head(todo) = writes[1]
  <2> HIDE DEF writes
  <2>1. /\ Len(todo) \in 1..1 /\ todo' \in Seq(Writes) /\ Left(writes)'
        /\ Head(todo) = writes[1 - Len(todo) + 1]
    BY <1>1, <1>2, OneLess
  <2>2. Len(todo) = 1
    BY <2>1
  <2> QED BY <2>1, <2>2
<1> QED BY <1>3

LEMMA RefusedGoesOn ==
  ASSUME IInv, nvm_write, doing = "refused", NEW w \in Wallets, Left(<< Write("a", w) >>)
  PROVE  IInv'
<1>1. << Write("a", w) >> \in Seq(Writes) /\ w \in Owners
  BY WritesTyped
<1>2. Head(todo) = Write("a", w) /\ todo' \in Seq(Writes) /\ Left(<< Write("a", w) >>)'
  BY <1>1, OneWrite
<1>3. FlashInv' /\ RamInv' /\ Basics' /\ app' = "running" /\ doing' = doing
  BY <1>1, <1>2, Storing
<1> QED BY <1>2, <1>3 DEF IInv, OpInv

LEMMA SeedwordsGoOn ==
  ASSUME IInv, nvm_write, doing = "seedwords", NEW w \in Owners, Left(<< Write("words", w) >>)
  PROVE  IInv'
<1>1. << Write("words", w) >> \in Seq(Writes)
  BY WritesTyped
<1>2. Head(todo) = Write("words", w) /\ todo' \in Seq(Writes) /\ Left(<< Write("words", w) >>)'
  BY <1>1, OneWrite
<1>3. FlashInv' /\ RamInv' /\ Basics' /\ app' = "running" /\ doing' = doing
  BY <1>2, Storing
<1> QED BY <1>2, <1>3 DEF IInv, OpInv

LEMMA WriteKeeps ==
  ASSUME IInv, nvm_write
  PROVE  IInv'
<1>1. todo # << >> /\ doing \in {"put_key", "refused", "seedwords"} \cup Starting
  BY DEF nvm_write, IInv, Basics, OpInv
<1>2. CASE doing = "electroneum_init"
  <2>1. (\E net \in Networks : Installing(net)) \/ Left(<< Write("magic", FALSE) >>)
    BY <1>1, <1>2 DEF IInv, OpInv
  <2> QED BY <1>2, <2>1, InstallGoesOn, ResetGoesOn
<1>3. CASE doing = "put_key"
  <2>1. \E w \in Wallets : Left(Pair(w))
    BY <1>3 DEF IInv, OpInv
  <2> QED BY <1>3, <2>1, PutKeyGoesOn
<1>4. CASE doing = "refused"
  <2>1. \E w \in Wallets : Left(<< Write("a", w) >>)
    BY <1>4 DEF IInv, OpInv
  <2> QED BY <1>4, <2>1, RefusedGoesOn
<1>5. CASE doing = "seedwords"
  <2>1. \E w \in Owners : Left(<< Write("words", w) >>)
    BY <1>5 DEF IInv, OpInv
  <2> QED BY <1>5, <2>1, SeedwordsGoOn
<1>6. CASE doing = "init_private_key"
  <2>1. Installing(Default)
    BY <1>1, <1>6 DEF IInv, OpInv
  <2> QED BY <1>6, <2>1, InstallGoesOn
<1> QED BY <1>1, <1>2, <1>3, <1>4, <1>5, <1>6 DEF Starting

-----------------------------------------------------------------------------
(***************************************************************************)
(* Starts, ends and losses of power                                        *)
(***************************************************************************)
LEMMA BootKeeps == ASSUME IInv, Boot PROVE IInv'
<1>1. todo' = << >> /\ todo' \in Seq(Writes)
  BY DEF IInv, OpInv, Boot
<1>2. FlashInv'
  BY DEF IInv, FlashInv, Boot, Loadable
<1>3. RamInv'
  BY DEF IInv, RamInv, Boot
<1> QED BY <1>1, <1>2, <1>3 DEF IInv, Basics, OpInv, Boot

LEMMA PowerLossKeeps == ASSUME IInv, PowerLoss PROVE IInv'
<1>1. todo' = << >> /\ todo' \in Seq(Writes)
  BY DEF PowerLoss
<1>2. FlashInv'
  BY DEF IInv, FlashInv, PowerLoss, Loadable
<1>3. RamInv'
  BY DEF IInv, RamInv, PowerLoss, NoKeys, Owners
<1> QED BY <1>1, <1>2, <1>3 DEF IInv, Basics, OpInv, PowerLoss

LEMMA DoneKeeps == ASSUME IInv, Done PROVE IInv'
<1>1. FlashInv'
  BY DEF IInv, FlashInv, Done, Loadable
<1>2. RamInv'
  BY DEF IInv, RamInv, Done
<1>3. OpInv' /\ Basics'
  BY DEF IInv, OpInv, Basics, Done
<1> QED BY <1>1, <1>2, <1>3 DEF IInv

\* What is loaded when the magic is there.
LEMMA LoadedKeys ==
  ASSUME FlashInv, flash.magic
  PROVE  /\ Loadable /\ Loaded \in [set : BOOLEAN, a : Owners, b : Owners] /\ Loaded.set
         /\ since # "imported" => Loaded.a = Seed /\ Loaded.b = Seed
BY DEF FlashInv, Loadable, Loaded, Flash, Owners

LEMMA UnlockKeeps == ASSUME IInv, Unlock PROVE IInv'
<1>1. flash.magic /\ FlashInv /\ app = "running" /\ doing = "nothing"
  BY DEF IInv, RamInv, Unlock, Idle
<1>2. FlashInv'
  BY <1>1 DEF FlashInv, Unlock, Loadable
<1>3. RamInv'
  BY <1>1, LoadedKeys DEF RamInv, Unlock
<1>4. OpInv' /\ Basics'
  BY <1>1 DEF IInv, OpInv, Basics, Unlock
<1> QED BY <1>2, <1>3, <1>4 DEF IInv

LEMMA electroneum_initKeeps == ASSUME IInv, electroneum_init PROVE IInv'
<1>1. app = "running" /\ FlashInv
  BY DEF IInv, OpInv, Basics, electroneum_init
<1>2. FlashInv'
  BY <1>1 DEF FlashInv, electroneum_init, Loadable
<1>3. RamInv' /\ Basics'
  BY DEF IInv, RamInv, Basics, electroneum_init, Starting
<1>4. CASE ~flash.magic
  <2>1. /\ todo' = electroneum_install(Default) /\ UNCHANGED << flash, ram, app, since >>
        /\ doing' = "init_private_key"
    BY <1>4 DEF electroneum_init
  <2>2. electroneum_install(Default) \in Seq(Writes)
    BY WritesTyped
  <2>3. Left(electroneum_install(Default))' /\ todo' \in Seq(Writes)
    BY <2>1, <2>2, AllLeft
  <2>4. Len(todo') = 9
    BY <2>1 DEF electroneum_install
  <2>5. Installing(Default)'
    BY <2>3, <2>4 DEF Installing
  <2>6. OpInv'
    BY <1>1, <2>1, <2>3, <2>4, <2>5 DEF OpInv
  <2> QED BY <1>2, <1>3, <2>6 DEF IInv
<1>5. CASE flash.magic
  <2>1. /\ todo' = << >> /\ UNCHANGED << flash, ram, app, since >>
        /\ doing' = "init_private_key"
    BY <1>5 DEF electroneum_init
  <2>2. OpInv'
    BY <1>1, <1>5, <2>1 DEF OpInv
  <2> QED BY <1>2, <1>3, <2>2 DEF IInv
<1> QED BY <1>4, <1>5

LEMMA init_private_keyKeeps == ASSUME IInv, init_private_key PROVE IInv'
<1>1. app = "running" /\ FlashInv /\ flash.magic
  BY DEF IInv, OpInv, Basics, init_private_key
<1>2. FlashInv'
  BY <1>1 DEF FlashInv, init_private_key, Loadable
<1>3. Loadable
  BY <1>1, LoadedKeys
<1>4. /\ doing' = "nothing" /\ ram' = Loaded /\ UNCHANGED << flash, app, todo, since >>
      /\ todo = << >>
  BY <1>3 DEF init_private_key
<1>5. RamInv'
  BY <1>1, <1>4, LoadedKeys DEF RamInv
<1>6. OpInv' /\ Basics'
  BY <1>1, <1>4 DEF IInv, OpInv, Basics
<1> QED BY <1>2, <1>5, <1>6 DEF IInv

LEMMA StutterKeeps == ASSUME IInv, UNCHANGED storeVars PROVE IInv'
<1>1. FlashInv' /\ RamInv' /\ Basics'
  BY DEF IInv, FlashInv, RamInv, Basics, Loadable, storeVars
<1>2. /\ \A net \in Networks : Installing(net) => Installing(net)'
      /\ \A writes : Left(writes) => Left(writes)'
  BY DEF Installing, Left, storeVars
<1>3. OpInv'
  BY <1>2 DEF IInv, OpInv, storeVars
<1> QED BY <1>1, <1>3 DEF IInv

LEMMA Inductive == IInv /\ [Next]_storeVars => IInv'
<1> SUFFICES ASSUME IInv, [Next]_storeVars PROVE IInv'
  OBVIOUS
<1>1. CASE Boot BY <1>1, BootKeeps
<1>2. CASE PowerLoss BY <1>2, PowerLossKeeps
<1>3. CASE nvm_write BY <1>3, WriteKeeps
<1>4. CASE electroneum_init BY <1>4, electroneum_initKeeps
<1>5. CASE Done BY <1>5, DoneKeeps
<1>13. CASE init_private_key BY <1>13, init_private_keyKeeps
<1>6. CASE apdu_reset BY <1>6, StartsInit DEF apdu_reset
<1>7. CASE ui_menu_reset_action BY <1>7, StartsReset DEF ui_menu_reset_action
<1>8. CASE \E net \in Networks : ui_menu_network_action(net)
  BY <1>8, StartsInstallation DEF ui_menu_network_action
<1>9. CASE \E w \in Wallets, spendKeyIsRight \in BOOLEAN : put_key(w, spendKeyIsRight)
  BY <1>9, StartsPutKey
<1>10. CASE manage_seedwords BY <1>10, StartsSeedwords
<1>11. CASE Unlock BY <1>11, UnlockKeeps
<1>12. CASE UNCHANGED storeVars BY <1>12, StutterKeeps
<1> QED BY <1>1, <1>2, <1>3, <1>4, <1>5, <1>6, <1>7, <1>8, <1>9, <1>10, <1>11, <1>12, <1>13
    DEF Next

-----------------------------------------------------------------------------
(***************************************************************************)
(* Theorems                                                                *)
(***************************************************************************)
\* How far the operation has come, what the magic vouches for and which keys are in use
\* is right in every state.
THEOREM Invariant == Spec => []IInv
<1>1. Init => IInv
  BY InitEstablishes
<1>2. IInv /\ [Next]_storeVars => IInv'
  BY Inductive
<1> QED BY <1>1, <1>2, PTL DEF Spec

\* Every variable has its type, and a running application that waits has its keys set.
THEOREM TypeCorrect == Spec => []TypeOK
<1>1. IInv => TypeOK
  BY DEF IInv, Basics, OpInv, FlashInv, RamInv, TypeOK, Idle
<1> QED BY <1>1, Invariant, PTL

\* Whenever the power is lost, in an installation, a reset, an import or a load of words,
\* the next start finds a flash it can load its keys from, or one without its magic, which
\* it installs: electroneum_init never fails.
THEOREM StartsAlways == Spec => []AlwaysStarts
<1>1. IInv => AlwaysStarts
  BY DEF IInv, Basics, FlashInv, RamInv, AlwaysStarts, Idle
<1> QED BY <1>1, Invariant, PTL

\* What is installed after the magic was erased is an empty wallet of the device's seed,
\* for some network, though any number of installations were cut off before.
THEOREM InstallsAfresh == Spec => []JustInstalled
<1>1. IInv => JustInstalled
  BY DEF IInv, FlashInv, RamInv, JustInstalled, Idle
<1> QED BY <1>1, Invariant, PTL

\* Only a PUT_KEY that reached its last write takes a device off the keys of its seed.
THEOREM KeepsSeed == Spec => []SeedUntilImported
<1>1. IInv => SeedUntilImported
  BY DEF IInv, RamInv, SeedUntilImported, Idle
<1> QED BY <1>1, Invariant, PTL
=============================================================================
