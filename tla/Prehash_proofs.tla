--------------------------- MODULE Prehash_proofs ---------------------------
(***************************************************************************)
(* Proofs about Prehash, for any outputs, commitments and bounds: the      *)
(* types for every host, and for a host that keeps the documented order    *)
(* the two chain controls and that the user agreed to all that is signed.  *)
(*                                                                         *)
(* The controls compare hashes, and a hash is of whatever its context      *)
(* holds.  The inductive invariant IInv says, for each phase of a real     *)
(* transaction, what the contexts and their results hold of what the host  *)
(* sent in this transaction; AgreedInv, what the user agreed to of it.     *)
(***************************************************************************)
EXTENDS Prehash, SequenceTheorems, WellFoundedInduction, TLAPS

-----------------------------------------------------------------------------
(***************************************************************************)
(* Induction                                                               *)
(***************************************************************************)
\* Induction up to a bound, for a set instead of a predicate, which the provers can instantiate.
LEMMA InductionUpTo ==
  ASSUME NEW k \in Nat, NEW S, 0 \in S, \A n \in 0 .. k - 1 : n \in S => n + 1 \in S
  PROVE  0 .. k \subseteq S
<1> DEFINE T == (0 .. k) \ S
           R == OpToRel(<, Nat)
<1>1. SUFFICES ASSUME T # {} PROVE FALSE
  OBVIOUS
<1>2. IsWellFoundedOn(R, Nat)
  BY NatLessThanWellFounded
<1>3. \A m, n \in Nat : m < n => <<m, n>> \in R
  BY DEF OpToRel
<1>4. PICK n \in T : \A m \in T : ~(<<m, n>> \in R)
  <2>1. T \subseteq Nat
    OBVIOUS
  <2> HIDE DEF R, T
  <2> QED BY <1>1, <1>2, <2>1, WFMin
<1> HIDE DEF R
<1>5. n # 0 /\ n - 1 \in 0 .. k - 1 /\ n - 1 \in Nat /\ n \in Nat /\ n - 1 < n
  BY <1>4
<1>6. n - 1 \notin T
  BY <1>3, <1>4, <1>5
<1>7. n - 1 \in S /\ (n - 1) + 1 = n
  BY <1>5, <1>6
<1> QED BY <1>4, <1>5, <1>7

\* Induction over all numbers.
LEMMA Induction ==
  ASSUME NEW S, 0 \in S, \A n \in Nat : n \in S => n + 1 \in S
  PROVE  Nat \subseteq S
<1> SUFFICES ASSUME NEW k \in Nat PROVE k \in S
  OBVIOUS
<1>1. 0 .. k \subseteq S
  BY InductionUpTo
<1> QED BY <1>1

\* The outputs and the commitments of what was checked.
Firsts  == [i \in DOMAIN checked |-> checked[i][1]]
Seconds == [i \in DOMAIN checked |-> checked[i][2]]

RealTx == tx_in_progress /\ sig_mode = "REAL"

\* A host that gave its transaction up left none open.
Closed == phase = "none" => ~tx_in_progress

\* Before the prehash, the context of the outputs holds those generated.
Generating == RealTx /\ phase = "open" /\ protocol = 2 => outkeys = generated

\* While outputs are checked, the contexts hold those checked.
Checking ==
  RealTx /\ phase \in {"init", "update"} =>
    /\ commitment = Seconds /\ listed = << >>
    /\ protocol = 2 => outkeys = Firsts /\ OUTK = Hash(generated)

\* After the last output, the context of the commitments holds the list that is signed.
Listing ==
  RealTx /\ phase = "updated" =>
    /\ commitment = listed /\ C = Hash(Seconds)
    /\ protocol = 2 => generated = Firsts

\* After the prehash, both controls were passed.
Signing ==
  RealTx /\ phase \in {"final", "hash", "hashed"} =>
    /\ listed = Seconds
    /\ protocol = 2 => generated = Firsts

ChainInv == Closed /\ Generating /\ Checking /\ Listing /\ Signing

IInv == TypeOK /\ ChainInv

-----------------------------------------------------------------------------
(***************************************************************************)
(* Types                                                                   *)
(***************************************************************************)
USE CommitmentsAssumption, OrderAssumption, PrehashBounds

\* What can be asked.
Asks == {Nothing, Fee, Address, Prefix} \cup {Output(o, k) : o \in Outputs, k \in Commitments \ Zero}

\* The parts of TypeOK, by the variables that change together.
ModeType    == protocol \in {0, 2} /\ sig_mode \in {"NONE", "REAL", "FAKE"} /\ tx_in_progress \in BOOLEAN
ContextType == outkeys \in Seq(Outputs) /\ commitment \in Seq(Commitments)
ResultType  == /\ \A s \in OUTK : OUTK = {s} /\ s \in Seq(Outputs)
               /\ \A s \in C : C = {s} /\ s \in Seq(Commitments)
KeccakType  == /\ keccakH \in {"fresh", "transcript", "challenge", "other"}
               /\ session \in Nat /\ H \in 0 .. session /\ c \in 0 .. session
HostType    == phase \in Phases /\ asked \in Asks
HistoryType == /\ generated \in Seq(Outputs) /\ checked \in Seq(Outputs \X Commitments)
               /\ listed \in Seq(Commitments)

LEMMA TypeParts ==
  /\ TypeOK  <=> ModeType  /\ ContextType  /\ ResultType  /\ KeccakType  /\ HostType  /\ HistoryType
  /\ TypeOK' <=> ModeType' /\ ContextType' /\ ResultType' /\ KeccakType' /\ HostType' /\ HistoryType'
BY DEF TypeOK, ModeType, ContextType, ResultType, KeccakType, HostType, HistoryType, Asks

LEMMA Empty == \A S : << >> \in Seq(S)
OBVIOUS

LEMMA InitTyped ==
  ASSUME Init
  PROVE  TypeOK
<1>1. ModeType
  BY DEF Init, ModeType
<1>2. ContextType
  BY Empty DEF Init, ContextType
<1>3. ResultType
  BY DEF Init, ResultType
<1>4. KeccakType
  BY DEF Init, KeccakType
<1>5. HostType
  BY DEF Init, HostType, Phases, Asks
<1>6. HistoryType
  BY Empty DEF Init, HistoryType
<1> QED BY <1>1, <1>2, <1>3, <1>4, <1>5, <1>6, TypeParts

\* What is kept with the variables it is about.
LEMMA SameTypes ==
  ASSUME TypeOK
  PROVE  /\ UNCHANGED << modeVars, tx_in_progress >> => ModeType'
         /\ UNCHANGED chainVars => ContextType' /\ ResultType'
         /\ UNCHANGED << keccakVars, session >> => KeccakType'
         /\ UNCHANGED << phase, asked >> => HostType'
         /\ UNCHANGED << generated, checked, listed >> => HistoryType'
BY TypeParts DEF ModeType, ContextType, ResultType, KeccakType, HostType, HistoryType, modeVars, chainVars, keccakVars

LEMMA ResetTyped ==
  ASSUME TypeOK, reset_tx, UNCHANGED << modeVars, session >>
  PROVE  ModeType' /\ ContextType' /\ ResultType' /\ KeccakType'
<1>1. ModeType'
  BY TypeParts DEF reset_tx, ModeType, modeVars
<1>2. ContextType'
  BY Empty DEF reset_tx, start_contexts, ContextType
<1>3. ResultType'
  BY TypeParts DEF reset_tx, ResultType
<1>4. KeccakType'
  BY TypeParts DEF reset_tx, start_contexts, KeccakType
<1> QED BY <1>1, <1>2, <1>3, <1>4

LEMMA ThrowTyped ==
  ASSUME TypeOK, Throw
  PROVE  TypeOK'
<1>1. ModeType' /\ ContextType' /\ ResultType' /\ KeccakType'
  BY ResetTyped DEF Throw
<1>2. HostType'
  BY DEF TypeOK, Throw, HostType, Phases, Asks
<1>3. HistoryType'
  BY SameTypes DEF Throw, historyVars
<1> QED BY <1>1, <1>2, <1>3, TypeParts

LEMMA UpdateTyped ==
  ASSUME TypeOK, NEW o \in Outputs, NEW k \in Commitments, NEW opens \in BOOLEAN,
         NEW to_us \in BOOLEAN, NEW last \in BOOLEAN,
         mlsag_prehash_update_real(o, k, opens, to_us, last)
  PROVE  TypeOK'
<1> DEFINE absorbed == IF protocol = 2 THEN Append(outkeys, o) ELSE outkeys
           taken    == opens /\ (last => SameOutputs(absorbed))
<1>1. CASE ~taken
  BY <1>1, ThrowTyped DEF mlsag_prehash_update_real
<1>2. CASE taken
  <2>1. /\ Host({"init", "update"}, IF last THEN "updated" ELSE "update")
        /\ outkeys' = (IF last /\ protocol = 2 THEN << >> ELSE absorbed)
        /\ C' = (IF last THEN Hash(Append(commitment, k)) ELSE C)
        /\ commitment' = (IF last THEN << >> ELSE Append(commitment, k))
        /\ keccakH' = Continued("transcript")
        /\ IF to_us THEN UNCHANGED H ELSE base58_public_key
        /\ asked' = Prompted(o, k)
        /\ checked' = Append(checked, << o, k >>)
        /\ UNCHANGED << modeVars, tx_in_progress, OUTK, c, session, generated, listed, accepted >>
    BY <1>2 DEF mlsag_prehash_update_real
  <2>2. ModeType'
    BY <2>1, SameTypes
  <2>3. ContextType' /\ ResultType'
    <3>1. absorbed \in Seq(Outputs) /\ Append(commitment, k) \in Seq(Commitments)
      BY DEF TypeOK
    <3> HIDE DEF absorbed
    <3>2. ContextType'
      BY <2>1, <3>1, Empty DEF ContextType
    <3>3. ResultType'
      BY <2>1, <3>1, TypeParts DEF ResultType, Hash
    <3> QED BY <3>2, <3>3
  <2>4. KeccakType'
    BY <2>1 DEF TypeOK, KeccakType, Continued, base58_public_key
  <2>5. HostType'
    BY <2>1 DEF TypeOK, HostType, Host, Prompted, Asks, Phases
  <2>6. HistoryType'
    BY <2>1 DEF TypeOK, HistoryType
  <2> QED BY <2>2, <2>3, <2>4, <2>5, <2>6, TypeParts
<1> QED BY <1>1, <1>2

LEMMA StepTyped ==
  ASSUME TypeOK, [Next]_prehashVars
  PROVE  TypeOK'
<1> USE DEF ModeType, ContextType, ResultType, KeccakType, HostType, HistoryType, modeVars, chainVars,
            keccakVars, historyVars
<1>0. outkeys \in Seq(Outputs) /\ commitment \in Seq(Commitments)
  BY DEF TypeOK
<1>1. CASE set_signature_mode
  <2>1. ModeType' /\ HostType' BY <1>1 DEF TypeOK, set_signature_mode, Host, Asks
  <2> QED BY <1>1, <2>1, SameTypes, TypeParts DEF set_signature_mode
<1>2. CASE open_tx
  <2>1. ModeType' /\ KeccakType' BY <1>2 DEF TypeOK, open_tx, start_contexts
  <2>4. ContextType' BY <1>2, Empty DEF open_tx, start_contexts
  <2>5. ResultType' BY <1>2 DEF TypeOK, open_tx
  <2>2. HostType' BY <1>2 DEF TypeOK, open_tx, Host, Asks, Phases
  <2>3. HistoryType' BY <1>2, Empty DEF open_tx
  <2> QED BY <2>1, <2>2, <2>3, <2>4, <2>5, TypeParts
<1>3. CASE close_tx
  <2>1. ModeType' /\ ContextType' /\ ResultType' /\ KeccakType' BY <1>3, ResetTyped DEF close_tx
  <2>2. HostType' BY <1>3 DEF TypeOK, close_tx, Host, Asks, Phases
  <2> QED BY <1>3, <2>1, <2>2, SameTypes, TypeParts DEF close_tx
<1>4. CASE CommandFails
  BY <1>4, ThrowTyped DEF CommandFails
<1>5. ASSUME NEW o \in Outputs, generate_txout_keys(o) PROVE TypeOK'
  <2>1. ContextType'
    <3>1. outkeys' = outkeys \/ outkeys' = Append(outkeys, o)
      BY <1>5 DEF generate_txout_keys
    <3>2. commitment' = commitment
      BY <1>5 DEF generate_txout_keys
    <3> QED BY <1>0, <3>1, <3>2
  <2>4. ResultType' BY <1>5, TypeParts DEF generate_txout_keys
  <2>2. HostType' BY <1>5 DEF TypeOK, generate_txout_keys, Host, Asks, Phases
  <2>3. HistoryType' BY <1>5 DEF TypeOK, generate_txout_keys
  <2> QED BY <1>5, <2>1, <2>2, <2>3, <2>4, SameTypes, TypeParts DEF generate_txout_keys
<1>6. CASE mlsag_prehash_init
  <2>1. ContextType'
    <3>1. outkeys' \in {outkeys, << >>} /\ commitment' \in {commitment, << >>}
      BY <1>6 DEF mlsag_prehash_init
    <3> QED BY <1>0, <3>1, Empty
  <2>5. ResultType' BY <1>6 DEF TypeOK, mlsag_prehash_init, Hash
  <2>2. KeccakType' BY <1>6 DEF TypeOK, mlsag_prehash_init
  <2>3. HostType' BY <1>6 DEF TypeOK, mlsag_prehash_init, Host, Asks, Phases
  <2>4. HistoryType' BY <1>6, Empty DEF TypeOK, mlsag_prehash_init
  <2> QED BY <1>6, <2>1, <2>2, <2>3, <2>4, <2>5, SameTypes, TypeParts DEF mlsag_prehash_init
<1>7. CASE mlsag_prehash_init_more
  <2>1. KeccakType' BY <1>7 DEF TypeOK, mlsag_prehash_init_more, Continued
  <2>2. HostType' BY <1>7 DEF TypeOK, mlsag_prehash_init_more, Host, Asks, Phases
  <2> QED BY <1>7, <2>1, <2>2, SameTypes, TypeParts DEF mlsag_prehash_init_more
<1>8. CASE mlsag_prehash_update
  <2>1. ASSUME NEW last \in BOOLEAN, mlsag_prehash_update_other(last) PROVE TypeOK'
    <3>1. KeccakType' BY <2>1 DEF TypeOK, mlsag_prehash_update_other, Continued
    <3>2. HostType' BY <2>1 DEF TypeOK, mlsag_prehash_update_other, Host, Asks, Phases
    <3> QED BY <2>1, <3>1, <3>2, SameTypes, TypeParts DEF mlsag_prehash_update_other
  <2> QED BY <1>8, <2>1, UpdateTyped DEF mlsag_prehash_update
<1>9. ASSUME NEW k \in Commitments, mlsag_prehash_finalize_more(k) PROVE TypeOK'
  <2>1. ContextType' /\ ResultType' BY <1>9 DEF TypeOK, mlsag_prehash_finalize_more
  <2>2. KeccakType' BY <1>9 DEF TypeOK, mlsag_prehash_finalize_more, Continued
  <2>3. HostType' BY <1>9 DEF TypeOK, mlsag_prehash_finalize_more, Host, Asks, Phases
  <2>4. HistoryType' BY <1>9 DEF TypeOK, mlsag_prehash_finalize_more
  <2> QED BY <1>9, <2>1, <2>2, <2>3, <2>4, SameTypes, TypeParts DEF mlsag_prehash_finalize_more
<1>10. CASE mlsag_prehash_finalize
  <2>1. CASE ~(sig_mode = "REAL" => SameCommitments)
    BY <1>10, <2>1, ThrowTyped DEF mlsag_prehash_finalize
  <2>2. CASE sig_mode = "REAL" => SameCommitments
    <3>1. ContextType'
      <4>1. outkeys' = outkeys /\ commitment' \in {commitment, << >>}
        BY <1>10, <2>2 DEF mlsag_prehash_finalize
      <4> QED BY <1>0, <4>1, Empty
    <3>4. ResultType' BY <1>10, <2>2 DEF TypeOK, mlsag_prehash_finalize
    <3>2. KeccakType' BY <1>10, <2>2 DEF TypeOK, mlsag_prehash_finalize
    <3>3. HostType' BY <1>10, <2>2 DEF TypeOK, mlsag_prehash_finalize, Asks, Phases
    <3> QED BY <1>10, <2>2, <3>1, <3>2, <3>3, <3>4, SameTypes, TypeParts DEF mlsag_prehash_finalize
  <2> QED BY <2>1, <2>2
<1>11. ASSUME NEW last \in BOOLEAN, mlsag_hash(last) \/ mlsag_hash_more(last) PROVE TypeOK'
  <2>1. KeccakType' BY <1>11 DEF TypeOK, mlsag_hash, mlsag_hash_more, Challenge, Continued
  <2>2. HostType' BY <1>11 DEF TypeOK, mlsag_hash, mlsag_hash_more, Challenge, Host, Asks, Phases
  <2>3. UNCHANGED << modeVars, tx_in_progress, chainVars, historyVars >>
    BY <1>11 DEF mlsag_hash, mlsag_hash_more, Challenge
  <2> QED BY <2>1, <2>2, <2>3, SameTypes, TypeParts
<1>12. CASE get_public_key
  BY <1>12 DEF TypeOK, get_public_key, base58_public_key
<1>13. CASE display_address
  BY <1>13 DEF TypeOK, display_address, base58_public_key
<1>14. CASE pubaddr_action
  BY <1>14 DEF TypeOK, pubaddr_action
<1>15. ASSUME NEW accept \in BOOLEAN, validation_action(accept) PROVE TypeOK'
  <2>1. HostType' BY <1>15 DEF TypeOK, validation_action, Asks
  <2>2. ModeType' /\ ContextType' /\ ResultType' /\ KeccakType'
    BY <1>15, ResetTyped, SameTypes DEF validation_action
  <2> QED BY <1>15, <2>1, <2>2, SameTypes, TypeParts DEF validation_action
<1>16. CASE Unlock
  BY <1>16 DEF TypeOK, Unlock, init_private_key
<1>17. CASE electroneum_init
  <2>1. ModeType' BY <1>17 DEF electroneum_init
  <2>2. ContextType' BY <1>17, Empty DEF electroneum_init
  <2>3. ResultType' BY <1>17 DEF electroneum_init
  <2>4. KeccakType' BY <1>17 DEF TypeOK, electroneum_init, init_private_key
  <2>5. HostType' BY <1>17 DEF electroneum_init, Asks, Phases
  <2> QED BY <1>17, <2>1, <2>2, <2>3, <2>4, <2>5, SameTypes, TypeParts DEF electroneum_init
<1>18. CASE UNCHANGED prehashVars
  BY <1>18 DEF TypeOK, prehashVars
<1>19. CASE (\E last \in BOOLEAN : hash_prefix(last)) \/ tx_prompt_amount \/ tx_prompt_fee
  <2>1. KeccakType'
    BY <1>19 DEF TypeOK, hash_prefix, tx_prompt_amount, tx_prompt_fee, base58_public_key
  <2>2. HostType' BY <1>19 DEF TypeOK, hash_prefix, tx_prompt_amount, tx_prompt_fee, Asks
  <2> QED BY <1>19, <2>1, <2>2, SameTypes, TypeParts DEF hash_prefix, tx_prompt_amount, tx_prompt_fee
<1> QED
  BY <1>1, <1>2, <1>3, <1>4, <1>5, <1>6, <1>7, <1>8, <1>9, <1>10, <1>11, <1>12, <1>13, <1>14,
     <1>15, <1>16, <1>17, <1>18, <1>19 DEF Next

-----------------------------------------------------------------------------
(***************************************************************************)
(* What was checked, one output longer                                     *)
(***************************************************************************)
LEMMA Projections ==
  ASSUME NEW pairs \in Seq(Outputs \X Commitments)
  PROVE  LET firsts  == [i \in DOMAIN pairs |-> pairs[i][1]]
             seconds == [i \in DOMAIN pairs |-> pairs[i][2]]
         IN  /\ firsts \in Seq(Outputs) /\ seconds \in Seq(Commitments)
             /\ Len(pairs) \in Nat /\ DOMAIN pairs = 1 .. Len(pairs)
             /\ Len(firsts) = Len(pairs) /\ Len(seconds) = Len(pairs)
<1>1. Len(pairs) \in Nat /\ DOMAIN pairs = 1 .. Len(pairs)
  OBVIOUS
<1>2. \A i \in 1 .. Len(pairs) : pairs[i][1] \in Outputs /\ pairs[i][2] \in Commitments
  OBVIOUS
<1>3. [i \in DOMAIN pairs |-> pairs[i][1]] \in Seq(Outputs)
  BY <1>1, <1>2
<1>4. [i \in DOMAIN pairs |-> pairs[i][2]] \in Seq(Commitments)
  BY <1>1, <1>2
<1> QED BY <1>1, <1>3, <1>4

\* A sequence that goes on where another ends.
LEMMA OneLonger ==
  ASSUME NEW S, NEW s \in Seq(S), NEW e \in S, NEW t \in Seq(S),
         Len(t) = Len(s) + 1, \A i \in 1 .. Len(s) : t[i] = s[i], t[Len(s) + 1] = e
  PROVE  t = Append(s, e)
<1>1. /\ Append(s, e) \in Seq(S) /\ Len(Append(s, e)) = Len(s) + 1
      /\ \A i \in 1 .. Len(s) : Append(s, e)[i] = s[i]
      /\ Append(s, e)[Len(s) + 1] = e
  BY AppendProperties
<1>2. Len(s) \in Nat
  OBVIOUS
<1>3. \A i \in 1 .. Len(t) : t[i] = Append(s, e)[i]
  BY <1>1, <1>2
<1> QED BY <1>1, <1>3, SeqEqual

LEMMA OneMoreChecked ==
  ASSUME TypeOK, NEW o \in Outputs, NEW k \in Commitments,
         checked' = Append(checked, << o, k >>)
  PROVE  Firsts' = Append(Firsts, o) /\ Seconds' = Append(Seconds, k)
<1> DEFINE n == Len(checked)
<1>1. checked \in Seq(Outputs \X Commitments)
  BY DEF TypeOK
<1>2. n \in Nat /\ Len(checked') = n + 1 /\ checked' \in Seq(Outputs \X Commitments)
  BY <1>1
<1>3. (\A i \in 1 .. n : checked'[i] = checked[i]) /\ checked'[n + 1] = << o, k >>
  BY <1>1
<1>4. /\ Firsts \in Seq(Outputs) /\ Seconds \in Seq(Commitments)
      /\ Len(Firsts) = n /\ Len(Seconds) = n /\ DOMAIN checked = 1 .. n
      /\ Firsts' \in Seq(Outputs) /\ Seconds' \in Seq(Commitments)
      /\ Len(Firsts') = n + 1 /\ Len(Seconds') = n + 1 /\ DOMAIN checked' = 1 .. n + 1
  BY <1>1, <1>2, Projections DEF Firsts, Seconds
<1>5. (\A i \in 1 .. n : Firsts'[i] = Firsts[i]) /\ Firsts'[n + 1] = o
  BY <1>2, <1>3, <1>4 DEF Firsts
<1>6. (\A i \in 1 .. n : Seconds'[i] = Seconds[i]) /\ Seconds'[n + 1] = k
  BY <1>2, <1>3, <1>4 DEF Seconds
<1>7. Firsts' = Append(Firsts, o)
  BY <1>4, <1>5, OneLonger
<1>8. Seconds' = Append(Seconds, k)
  BY <1>4, <1>6, OneLonger
<1> QED BY <1>7, <1>8

-----------------------------------------------------------------------------
(***************************************************************************)
(* The chain controls                                                      *)
(***************************************************************************)
USE DEF ChainInv

\* Outside a transaction there is nothing to keep.
LEMMA NoTxChain == ~tx_in_progress' => ChainInv'
BY DEF Closed, Generating, Checking, Listing, Signing, RealTx

\* Nor in a transaction that is not real, as long as its host did not give it up.
LEMMA NotRealChain == sig_mode' # "REAL" /\ phase' # "none" => ChainInv'
BY DEF Closed, Generating, Checking, Listing, Signing, RealTx

LEMMA SameChain ==
  ASSUME ChainInv,
         UNCHANGED << modeVars, tx_in_progress, chainVars, phase, generated, checked, listed >>
  PROVE  ChainInv'
BY DEF Closed, Generating, Checking, Listing, Signing, RealTx, Firsts, Seconds, modeVars, chainVars

\* The end of the outputs' chain: the hash of those checked is the hash of those generated.
LEMMA UpdateChain ==
  ASSUME IInv, InOrder, phase \in {"init", "update"}, tx_in_progress,
         NEW o \in Outputs, NEW k \in Commitments, NEW opens \in BOOLEAN,
         NEW to_us \in BOOLEAN, NEW last \in BOOLEAN,
         mlsag_prehash_update_real(o, k, opens, to_us, last)
  PROVE  ChainInv'
<1> DEFINE absorbed == IF protocol = 2 THEN Append(outkeys, o) ELSE outkeys
           taken    == opens /\ (last => SameOutputs(absorbed))
<1>1. CASE ~taken
  <2>1. Throw
    BY <1>1 DEF mlsag_prehash_update_real
  <2> QED BY <2>1, NoTxChain DEF Throw, reset_tx
<1>2. CASE taken
  <2>1. /\ phase' = (IF last THEN "updated" ELSE "update")
        /\ outkeys' = (IF last /\ protocol = 2 THEN << >> ELSE absorbed)
        /\ C' = (IF last THEN Hash(Append(commitment, k)) ELSE C)
        /\ commitment' = (IF last THEN << >> ELSE Append(commitment, k))
        /\ checked' = Append(checked, << o, k >>)
        /\ sig_mode = "REAL" /\ sig_mode' = sig_mode /\ protocol' = protocol /\ OUTK' = OUTK
        /\ generated' = generated /\ listed' = listed
    BY <1>2 DEF mlsag_prehash_update_real, Host, modeVars
  <2>2. /\ commitment = Seconds /\ listed = << >>
        /\ protocol = 2 => outkeys = Firsts /\ OUTK = Hash(generated)
    BY <2>1 DEF IInv, Checking, RealTx
  <2>3. Firsts' = Append(Firsts, o) /\ Seconds' = Append(Seconds, k)
    BY <2>1, OneMoreChecked DEF IInv
  <2>4. CASE last
    <3>1. commitment' = listed' /\ C' = Hash(Seconds')
      BY <2>1, <2>2, <2>3, <2>4
    <3>2. ASSUME protocol = 2 PROVE generated' = Firsts'
      <4>1. Hash(Append(outkeys, o)) = OUTK
        BY <1>2, <2>4, <3>2 DEF SameOutputs
      <4> QED BY <2>1, <2>2, <2>3, <3>2, <4>1 DEF Hash
    <3> QED BY <2>1, <2>4, <3>1, <3>2 DEF Closed, Generating, Checking, Listing, Signing, RealTx
  <2>5. CASE ~last
    <3>1. commitment' = Seconds' /\ listed' = << >>
      BY <2>1, <2>2, <2>3, <2>5
    <3>2. protocol = 2 => outkeys' = Firsts' /\ OUTK' = Hash(generated')
      BY <2>1, <2>2, <2>3, <2>5
    <3> QED BY <2>1, <2>5, <3>1, <3>2 DEF Closed, Generating, Checking, Listing, Signing, RealTx
  <2> QED BY <2>4, <2>5
<1> QED BY <1>1, <1>2

LEMMA StepChain ==
  ASSUME IInv, InOrder, [Next]_prehashVars
  PROVE  ChainInv'
<1> USE DEF IInv
<1>1. CASE set_signature_mode
  <2>1. tx_in_progress' = FALSE
    BY <1>1 DEF set_signature_mode, Host, Closed, TypeOK
  <2> QED BY <2>1, NoTxChain
<1>2. CASE open_tx
  <2>1. phase' = "open" /\ outkeys' = << >> /\ generated' = << >>
    BY <1>2 DEF open_tx, Host, start_contexts
  <2> QED BY <2>1 DEF Closed, Generating, Checking, Listing, Signing, RealTx
<1>3. CASE close_tx \/ CommandFails
  <2>1. tx_in_progress' = FALSE
    BY <1>3 DEF close_tx, CommandFails, Throw, reset_tx
  <2> QED BY <2>1, NoTxChain
<1>4. ASSUME NEW o \in Outputs, generate_txout_keys(o) PROVE ChainInv'
  <2>1. /\ phase = "open" /\ phase' = "open" /\ generated' = Append(generated, o)
        /\ sig_mode = "REAL" /\ protocol = 2 => outkeys' = Append(outkeys, o)
        /\ UNCHANGED << protocol, sig_mode, tx_in_progress >>
    BY <1>4 DEF generate_txout_keys, Host, modeVars
  <2> QED BY <2>1 DEF Closed, Generating, Checking, Listing, Signing, RealTx
<1>5. CASE mlsag_prehash_init
  <2>1. /\ phase = "open" /\ phase' = "init" /\ checked' = << >> /\ listed' = << >>
        /\ sig_mode = "REAL" =>
             OUTK' = Hash(outkeys) /\ outkeys' = << >> /\ commitment' = << >>
        /\ UNCHANGED << protocol, sig_mode, tx_in_progress, generated >>
    BY <1>5 DEF mlsag_prehash_init, Host, modeVars
  <2>2. Firsts' = << >> /\ Seconds' = << >>
    BY <2>1 DEF Firsts, Seconds
  <2>3. RealTx /\ protocol = 2 => outkeys = generated
    BY <2>1 DEF Generating
  <2>4. Checking'
    BY <2>1, <2>2, <2>3 DEF Checking, RealTx
  <2> QED BY <2>1, <2>4 DEF Closed, Generating, Listing, Signing
<1>6. CASE mlsag_prehash_init_more
  BY <1>6, SameChain DEF mlsag_prehash_init_more, Host, historyVars
<1>7. CASE mlsag_prehash_update
  <2>1. phase \in {"init", "update"} /\ tx_in_progress
    BY <1>7 DEF mlsag_prehash_update, InTx
  <2>2. ASSUME NEW last \in BOOLEAN, mlsag_prehash_update_other(last) PROVE ChainInv'
    BY <2>2, NotRealChain DEF mlsag_prehash_update_other, Host, modeVars
  <2> QED BY <1>7, <2>1, <2>2, UpdateChain DEF mlsag_prehash_update
<1>8. ASSUME NEW k \in Commitments, mlsag_prehash_finalize_more(k) PROVE ChainInv'
  <2>1. /\ phase = "updated" /\ phase' = "updated"
        /\ commitment' = Append(commitment, k) /\ listed' = Append(listed, k)
        /\ UNCHANGED << protocol, sig_mode, tx_in_progress, C, generated, checked >>
    BY <1>8 DEF mlsag_prehash_finalize_more, Host, modeVars
  <2>2. Firsts' = Firsts /\ Seconds' = Seconds
    BY <2>1 DEF Firsts, Seconds
  <2>3. Listing'
    BY <2>1, <2>2 DEF Listing, RealTx
  <2> QED BY <2>1, <2>3 DEF Closed, Generating, Checking, Signing
<1>9. CASE mlsag_prehash_finalize
  <2>1. CASE ~(sig_mode = "REAL" => SameCommitments)
    BY <1>9, <2>1, NoTxChain DEF mlsag_prehash_finalize, Throw, reset_tx
  <2>2. CASE sig_mode = "REAL" => SameCommitments
    <3>1. /\ phase = "updated" /\ phase' = "final"
          /\ UNCHANGED << protocol, sig_mode, tx_in_progress, generated, checked, listed >>
      BY <1>9, <2>2 DEF mlsag_prehash_finalize, modeVars, historyVars
    <3>2. Firsts' = Firsts /\ Seconds' = Seconds
      BY <3>1 DEF Firsts, Seconds
    <3>3. ASSUME RealTx PROVE listed = Seconds /\ (protocol = 2 => generated = Firsts)
      BY <2>2, <3>1, <3>3 DEF Listing, RealTx, SameCommitments, Hash
    <3>4. Signing'
      BY <3>1, <3>2, <3>3 DEF Signing, RealTx
    <3> QED BY <3>1, <3>4 DEF Closed, Generating, Checking, Listing
  <2> QED BY <2>1, <2>2
<1>10. ASSUME NEW last \in BOOLEAN, mlsag_hash(last) \/ mlsag_hash_more(last) PROVE ChainInv'
  <2>1. /\ phase \in {"final", "hash", "hashed"} /\ phase' \in {"hash", "hashed"}
        /\ UNCHANGED << protocol, sig_mode, tx_in_progress, generated, checked, listed >>
    BY <1>10 DEF mlsag_hash, mlsag_hash_more, Challenge, Host, modeVars, historyVars
  <2>2. Firsts' = Firsts /\ Seconds' = Seconds
    BY <2>1 DEF Firsts, Seconds
  <2>3. Signing'
    BY <2>1, <2>2 DEF Signing, RealTx
  <2> QED BY <2>1, <2>3 DEF Closed, Generating, Checking, Listing
<1>11. CASE get_public_key \/ display_address \/ pubaddr_action \/ Unlock
  BY <1>11, SameChain DEF get_public_key, display_address, pubaddr_action, Unlock, historyVars
<1>12. ASSUME NEW accept \in BOOLEAN, validation_action(accept) PROVE ChainInv'
  <2>1. CASE accept
    BY <1>12, <2>1, SameChain DEF validation_action
  <2>2. CASE ~accept
    BY <1>12, <2>2, NoTxChain DEF validation_action, reset_tx
  <2> QED BY <2>1, <2>2
<1>13. CASE electroneum_init
  BY <1>13, NoTxChain DEF electroneum_init
<1>14. CASE UNCHANGED prehashVars
  BY <1>14, SameChain DEF prehashVars, historyVars
<1>15. CASE (\E last \in BOOLEAN : hash_prefix(last)) \/ tx_prompt_amount \/ tx_prompt_fee
  BY <1>15, SameChain DEF hash_prefix, tx_prompt_amount, tx_prompt_fee, historyVars
<1> QED
  BY <1>1, <1>2, <1>3, <1>4, <1>5, <1>6, <1>7, <1>8, <1>9, <1>10, <1>11, <1>12, <1>13, <1>14,
     <1>15 DEF Next

-----------------------------------------------------------------------------
(***************************************************************************)
(* Theorems                                                                *)
(***************************************************************************)
\* Every variable has its type, and a result is the hash of at most one sequence, in
\* every order of the commands.
THEOREM TypeCorrect == Spec => []TypeOK
<1>1. TypeOK /\ [Next]_prehashVars => TypeOK'
  BY StepTyped
<1> QED BY InitTyped, <1>1, PTL DEF Spec

\* The contexts and their results hold what the phase of the transaction says, if the
\* host keeps the order.
THEOREM Invariance ==
  ASSUME InOrder
  PROVE  Spec => []IInv
<1>1. Init => IInv
  BY InitTyped DEF Init, IInv, Closed, Generating, Checking, Listing, Signing, RealTx
<1>2. IInv /\ [Next]_prehashVars => IInv'
  BY StepTyped, StepChain DEF IInv
<1> QED BY <1>1, <1>2, PTL DEF Spec

\* What is signed are the commitments that were opened for the user (the control of C).
THEOREM SignsWhatWasOpened ==
  ASSUME InOrder
  PROVE  Spec => []SignedAsOpened
<1>1. IInv => SignedAsOpened
  BY DEF IInv, Signing, SignedAsOpened, Signable, RealTx, Seconds
<1> QED BY <1>1, Invariance, PTL

\* What was shown are the outputs that were generated (the control of OUTK).
THEOREM ShowsWhatWasGenerated ==
  ASSUME InOrder
  PROVE  Spec => []ShownAsGenerated
<1>1. IInv => ShownAsGenerated
  BY DEF IInv, Signing, ShownAsGenerated, Signable, RealTx, Firsts
<1> QED BY <1>1, Invariance, PTL

-----------------------------------------------------------------------------
(***************************************************************************)
(* What the user agrees to, one output longer                              *)
(***************************************************************************)
Pairs == Outputs \X Commitments

\* What is added for a pair to what was agreed to before it.
With(agreed, pair) == IF pair[2] \in Zero THEN agreed ELSE Append(agreed, Output(pair[1], pair[2]))

\* What is agreed to after 0, 1, 2, ... pairs.
IsAgreed(f, pairs, k) ==
  f = [n \in 0 .. k |-> IF n = 0 THEN << Fee >> ELSE With(f[n - 1], pairs[n])]

\* The same, by what it says of each number of pairs.
LEMMA AgreedParts ==
  ASSUME NEW f, NEW pairs, NEW k \in Nat
  PROVE  IsAgreed(f, pairs, k) <=>
           /\ f = [n \in 0 .. k |-> f[n]] /\ f[0] = << Fee >>
           /\ \A n \in 1 .. k : f[n] = With(f[n - 1], pairs[n])
<1>1. 0 \in 0 .. k /\ \A n \in 0 .. k : n = 0 \/ n \in 1 .. k
  OBVIOUS
<1>2. \A n \in 1 .. k : n \in 0 .. k /\ n # 0
  OBVIOUS
<1> QED BY <1>1, <1>2 DEF IsAgreed

LEMMA AgreedOneMore ==
  ASSUME NEW pairs, NEW k \in Nat, NEW f, IsAgreed(f, pairs, k)
  PROVE  \E g : IsAgreed(g, pairs, k + 1)
<1> DEFINE g == [n \in 0 .. k + 1 |-> IF n = k + 1 THEN With(f[k], pairs[k + 1]) ELSE f[n]]
<1>1. f[0] = << Fee >> /\ \A n \in 1 .. k : f[n] = With(f[n - 1], pairs[n])
  BY AgreedParts
<1>2. \A n \in 0 .. k : g[n] = f[n]
  OBVIOUS
<1>3. g[k + 1] = With(f[k], pairs[k + 1])
  OBVIOUS
<1>4. g = [n \in 0 .. k + 1 |-> g[n]]
  OBVIOUS
<1> HIDE DEF g
<1>5. g[0] = << Fee >>
  BY <1>1, <1>2
<1>6. ASSUME NEW n \in 1 .. k + 1
      PROVE  g[n] = With(g[n - 1], pairs[n])
  <2>1. CASE n \in 1 .. k
    <3>1. n \in 0 .. k /\ n - 1 \in 0 .. k
      BY <2>1
    <3> QED BY <1>1, <1>2, <2>1, <3>1
  <2>2. CASE n = k + 1
    <3>1. n - 1 = k /\ k \in 0 .. k
      BY <2>2
    <3> QED BY <1>2, <1>3, <2>2, <3>1
  <2> QED BY <2>1, <2>2
<1>7. IsAgreed(g, pairs, k + 1)
  <2>1. \A n \in 0 .. k + 1 : n = 0 \/ n \in 1 .. k + 1
    OBVIOUS
  <2>2. \A n \in 0 .. k + 1 : g[n] = IF n = 0 THEN << Fee >> ELSE With(g[n - 1], pairs[n])
    BY <1>5, <1>6, <2>1
  <2> QED BY <1>4, <2>2 DEF IsAgreed
<1> QED BY <1>7

LEMMA AgreedExists ==
  ASSUME NEW pairs, NEW k \in Nat
  PROVE  \E f : IsAgreed(f, pairs, k)
<1> DEFINE S == {n \in Nat : \E f : IsAgreed(f, pairs, n)}
<1>1. 0 \in S
  <2> DEFINE f == [n \in 0 .. 0 |-> << Fee >>]
  <2>1. f = [n \in 0 .. 0 |-> f[n]] /\ f[0] = << Fee >>
    OBVIOUS
  <2> HIDE DEF f
  <2>2. IsAgreed(f, pairs, 0)
    <3>1. \A n \in 0 .. 0 : f[n] = IF n = 0 THEN << Fee >> ELSE With(f[n - 1], pairs[n])
      BY <2>1
    <3> QED BY <2>1, <3>1 DEF IsAgreed
  <2> QED BY <2>2
<1>2. \A n \in Nat : n \in S => n + 1 \in S
  BY AgreedOneMore
<1> HIDE DEF S
<1>3. k \in S
  BY <1>1, <1>2, Induction
<1> QED BY <1>3 DEF S

LEMMA AgreedUpToDef ==
  ASSUME NEW pairs \in Seq(Pairs)
  PROVE  /\ AgreedUpTo(pairs)[0] = << Fee >>
         /\ \A n \in 1 .. Len(pairs) :
              AgreedUpTo(pairs)[n] = With(AgreedUpTo(pairs)[n - 1], pairs[n])
<1>1. Len(pairs) \in Nat
  OBVIOUS
<1>2. IsAgreed(AgreedUpTo(pairs), pairs, Len(pairs))
  <2>1. \E f : IsAgreed(f, pairs, Len(pairs))
    BY <1>1, AgreedExists
  <2>2. AgreedUpTo(pairs) = CHOOSE f : IsAgreed(f, pairs, Len(pairs))
    BY Zenon DEF AgreedUpTo, IsAgreed, With
  <2> QED BY <2>1, <2>2
<1> QED BY <1>1, <1>2, AgreedParts

LEMMA AgreedEmpty == Agreed(<< >>) = << Fee >>
<1>1. << >> \in Seq(Pairs) /\ Len(<< >>) = 0
  OBVIOUS
<1> QED BY <1>1, AgreedUpToDef DEF Agreed

LEMMA AgreedAppend ==
  ASSUME NEW pairs \in Seq(Pairs), NEW pair \in Pairs
  PROVE  Agreed(Append(pairs, pair)) = With(Agreed(pairs), pair)
<1> DEFINE more == Append(pairs, pair)
           f    == AgreedUpTo(pairs)
           g    == AgreedUpTo(more)
           S    == {n \in 0 .. Len(pairs) : f[n] = g[n]}
<1>1. /\ more \in Seq(Pairs) /\ Len(more) = Len(pairs) + 1 /\ Len(pairs) \in Nat
      /\ more[Len(pairs) + 1] = pair /\ \A n \in 1 .. Len(pairs) : more[n] = pairs[n]
  OBVIOUS
<1> HIDE DEF more
<1>2. f[0] = << Fee >> /\ \A n \in 1 .. Len(pairs) : f[n] = With(f[n - 1], pairs[n])
  BY AgreedUpToDef
<1>3. g[0] = << Fee >> /\ \A n \in 1 .. Len(pairs) + 1 : g[n] = With(g[n - 1], more[n])
  BY <1>1, AgreedUpToDef
<1> HIDE DEF f, g
<1>4. 0 \in S
  BY <1>1, <1>2, <1>3
<1>5. ASSUME NEW n \in 0 .. Len(pairs) - 1, n \in S
      PROVE  n + 1 \in S
  <2>1. /\ n + 1 \in 1 .. Len(pairs) /\ n + 1 \in 1 .. Len(pairs) + 1 /\ (n + 1) - 1 = n
        /\ n + 1 \in 0 .. Len(pairs)
    BY <1>1
  <2>2. f[n + 1] = With(f[n], pairs[n + 1]) /\ g[n + 1] = With(g[n], more[n + 1])
    BY <1>2, <1>3, <2>1
  <2> QED BY <1>1, <1>5, <2>1, <2>2
<1>6. \A n \in 0 .. Len(pairs) - 1 : n \in S => n + 1 \in S
  BY <1>5
<1>7. f[Len(pairs)] = g[Len(pairs)]
  <2> HIDE DEF S
  <2>1. 0 .. Len(pairs) \subseteq S
    BY <1>1, <1>4, <1>6, InductionUpTo
  <2>2. Len(pairs) \in S
    BY <1>1, <2>1
  <2> QED BY <2>2 DEF S
<1>8. g[Len(pairs) + 1] = With(g[Len(pairs)], pair)
  <2>1. Len(pairs) + 1 \in 1 .. Len(pairs) + 1 /\ (Len(pairs) + 1) - 1 = Len(pairs)
    BY <1>1
  <2> QED BY <1>1, <1>3, <2>1
<1> QED BY <1>1, <1>7, <1>8 DEF f, g, more, Agreed

-----------------------------------------------------------------------------
(***************************************************************************)
(* What the user agreed to                                                 *)
(***************************************************************************)
Asking == asked.ask \in {"fee", "output"}

\* From the fee on, the user agreed to all there is to agree to for what was checked, or is
\* being asked for the last of it.
Agreeing ==
  RealTx /\ phase \in {"init", "update", "updated", "final", "hash", "hashed"} =>
    Agreed(checked) = IF Asking THEN Append(accepted, asked) ELSE accepted

\* Once the prehash is made, nothing of the transaction is asked any more.
AllAsked == RealTx /\ phase \in {"final", "hash", "hashed"} => ~Asking

AgreedInv == Agreeing /\ AllAsked

LEMMA WaitsForAnswer ==
  /\ ~Waiting => ~Asking
  /\ asked' = Nothing => ~Asking'
  /\ asked' = Address => ~Asking'
  /\ asked' = Prefix => ~Asking'
  /\ asked' = Fee => Asking'
  /\ \A o, k : asked' = Output(o, k) => Asking'
BY DEF Waiting, Asking, Nothing, Address, Prefix, Fee, Output

LEMMA NotRealAgreed == ~RealTx' => AgreedInv'
BY DEF AgreedInv, Agreeing, AllAsked

LEMMA NotYetAgreed == phase' \in {"none", "open"} => AgreedInv'
BY DEF AgreedInv, Agreeing, AllAsked

\* What does not touch the questions and what was agreed to keeps the agreement.
LEMMA SameAgreed ==
  ASSUME AgreedInv, UNCHANGED << modeVars, tx_in_progress, asked, checked, accepted >>,
         phase' = phase
  PROVE  AgreedInv'
BY DEF AgreedInv, Agreeing, AllAsked, RealTx, modeVars, Asking

\* From one phase to the next, with nothing asked.
LEMMA PhaseAgreed ==
  ASSUME AgreedInv, ~Asking, UNCHANGED << modeVars, tx_in_progress, asked, checked, accepted >>,
         phase \in {"init", "update", "updated", "final", "hash", "hashed"}
  PROVE  AgreedInv'
BY DEF AgreedInv, Agreeing, AllAsked, RealTx, modeVars, Asking

LEMMA UpdateAgreed ==
  ASSUME IInv, AgreedInv, InOrder, InTx, phase \in {"init", "update"},
         NEW o \in Outputs, NEW k \in Commitments, NEW opens \in BOOLEAN,
         NEW to_us \in BOOLEAN, NEW last \in BOOLEAN,
         mlsag_prehash_update_real(o, k, opens, to_us, last)
  PROVE  AgreedInv'
<1> DEFINE absorbed == IF protocol = 2 THEN Append(outkeys, o) ELSE outkeys
           taken    == opens /\ (last => SameOutputs(absorbed))
<1>1. CASE ~taken
  <2>1. Throw
    BY <1>1 DEF mlsag_prehash_update_real
  <2> QED BY <2>1, NotRealAgreed DEF Throw, reset_tx, RealTx
<1>2. CASE taken
  <2>1. /\ phase' \in {"update", "updated"} /\ sig_mode = "REAL"
        /\ asked' = Prompted(o, k) /\ checked' = Append(checked, << o, k >>)
        /\ UNCHANGED << modeVars, tx_in_progress, accepted >>
    BY <1>2 DEF mlsag_prehash_update_real, Host
  <2>2. accepted = Agreed(checked)
    BY <2>1, WaitsForAnswer DEF AgreedInv, Agreeing, InTx, RealTx
  <2>3. Agreed(checked') = With(Agreed(checked), << o, k >>)
    <3>1. checked \in Seq(Pairs) /\ << o, k >> \in Pairs
      BY DEF IInv, TypeOK, Pairs
    <3> QED BY <2>1, <3>1, AgreedAppend
  <2>4. CASE k \in Zero
    <3>1. ~Asking' /\ Agreed(checked') = accepted'
      BY <2>1, <2>2, <2>3, <2>4, WaitsForAnswer DEF Prompted, With
    <3> QED BY <2>1, <3>1 DEF AgreedInv, Agreeing, AllAsked
  <2>5. CASE k \notin Zero
    <3>1. asked' = Output(o, k) /\ Agreed(checked') = Append(accepted', asked')
      BY <2>1, <2>2, <2>3, <2>5 DEF Prompted, With
    <3>2. Asking'
      BY <3>1, WaitsForAnswer
    <3> QED BY <2>1, <3>1, <3>2 DEF AgreedInv, Agreeing, AllAsked
  <2> QED BY <2>4, <2>5
<1> QED BY <1>1, <1>2

LEMMA InitAgreed ==
  ASSUME InOrder, mlsag_prehash_init
  PROVE  AgreedInv'
<1>1. CASE sig_mode # "REAL"
  BY <1>1, NotRealAgreed DEF mlsag_prehash_init, modeVars, RealTx
<1>2. CASE sig_mode = "REAL"
  <2>1. /\ phase' = "init" /\ asked' = Fee /\ checked' = << >> /\ accepted' = << >>
    BY <1>2 DEF mlsag_prehash_init, Host
  <2>2. Agreed(checked') = Append(accepted', asked')
    BY <2>1, AgreedEmpty
  <2>3. Asking'
    BY <2>1, WaitsForAnswer
  <2> QED BY <2>1, <2>2, <2>3 DEF AgreedInv, Agreeing, AllAsked
<1> QED BY <1>1, <1>2

LEMMA AnswerAgreed ==
  ASSUME IInv, AgreedInv, NEW accept \in BOOLEAN, validation_action(accept)
  PROVE  AgreedInv'
<1>1. ~Asking' /\ (Asking \/ asked.ask = "prefix")
  BY WaitsForAnswer DEF validation_action, Asking
<1>2. CASE accept
  <2>1. /\ accepted' = Answered(asked)
        /\ UNCHANGED << modeVars, tx_in_progress, phase, checked >>
    BY <1>2 DEF validation_action
  <2>2. accepted' = IF Asking THEN Append(accepted, asked) ELSE accepted
    BY <1>1, <2>1 DEF Answered, Asking, Prefix, IInv, TypeOK, Nothing, Fee, Address, Output
  <2> QED BY <1>1, <2>1, <2>2 DEF AgreedInv, Agreeing, AllAsked, RealTx, modeVars
<1>3. CASE ~accept
  BY <1>3, NotRealAgreed DEF validation_action, reset_tx, RealTx
<1> QED BY <1>2, <1>3

LEMMA StepAgreed ==
  ASSUME IInv, AgreedInv, InOrder, [Next]_prehashVars
  PROVE  AgreedInv'
<1>0. InTx => ~Asking
  BY WaitsForAnswer DEF InTx
<1>1. CASE set_signature_mode
  <2>1. tx_in_progress' = FALSE
    BY <1>1 DEF set_signature_mode, Host, IInv, Closed, TypeOK
  <2> QED BY <2>1, NotRealAgreed DEF RealTx
<1>2. CASE open_tx
  BY <1>2, NotYetAgreed DEF open_tx, Host
<1>3. CASE close_tx \/ CommandFails
  BY <1>3, NotYetAgreed DEF close_tx, CommandFails, Throw, Host
<1>4. CASE \E o \in Outputs : generate_txout_keys(o)
  BY <1>4, NotYetAgreed DEF generate_txout_keys, Host
<1>5. CASE mlsag_prehash_init
  BY <1>5, InitAgreed
<1>6. CASE mlsag_prehash_init_more
  BY <1>6, SameAgreed DEF mlsag_prehash_init_more, Host, historyVars
<1>7. CASE mlsag_prehash_update
  <2>1. phase \in {"init", "update"} /\ InTx
    BY <1>7 DEF mlsag_prehash_update
  <2>2. ASSUME NEW last \in BOOLEAN, mlsag_prehash_update_other(last) PROVE AgreedInv'
    BY <2>2, NotRealAgreed DEF mlsag_prehash_update_other, RealTx, modeVars
  <2> QED BY <1>7, <2>1, <2>2, UpdateAgreed DEF mlsag_prehash_update
<1>8. CASE \E k \in Commitments : mlsag_prehash_finalize_more(k)
  BY <1>8, SameAgreed DEF mlsag_prehash_finalize_more, Host
<1>9. CASE mlsag_prehash_finalize
  <2>1. CASE ~(sig_mode = "REAL" => SameCommitments)
    BY <1>9, <2>1, NotYetAgreed DEF mlsag_prehash_finalize, Throw
  <2>2. CASE sig_mode = "REAL" => SameCommitments
    BY <1>0, <1>9, <2>2, PhaseAgreed DEF mlsag_prehash_finalize, historyVars
  <2> QED BY <2>1, <2>2
<1>10. CASE \E last \in BOOLEAN : mlsag_hash(last) \/ mlsag_hash_more(last)
  BY <1>0, <1>10, PhaseAgreed DEF mlsag_hash, mlsag_hash_more, Challenge, Host, historyVars
<1>11. CASE get_public_key \/ Unlock \/ \E last \in BOOLEAN : hash_prefix(last)
  BY <1>11, SameAgreed DEF get_public_key, Unlock, hash_prefix, historyVars
<1>12. CASE display_address \/ pubaddr_action \/ tx_prompt_amount \/ tx_prompt_fee
  <2>1. ~Asking /\ ~Asking'
    BY <1>0, <1>12, WaitsForAnswer
       DEF display_address, pubaddr_action, tx_prompt_amount, tx_prompt_fee, Asking, Address
  <2>2. UNCHANGED << modeVars, tx_in_progress, phase, checked, accepted >>
    BY <1>12 DEF display_address, pubaddr_action, tx_prompt_amount, tx_prompt_fee, historyVars
  <2> QED BY <2>1, <2>2 DEF AgreedInv, Agreeing, AllAsked, RealTx, modeVars
<1>13. CASE \E accept \in BOOLEAN : validation_action(accept)
  BY <1>13, AnswerAgreed
<1>14. CASE electroneum_init
  BY <1>14, NotRealAgreed DEF electroneum_init, RealTx
<1>15. CASE UNCHANGED prehashVars
  BY <1>15, SameAgreed DEF prehashVars, historyVars
<1> QED
  BY <1>1, <1>2, <1>3, <1>4, <1>5, <1>6, <1>7, <1>8, <1>9, <1>10, <1>11, <1>12, <1>13, <1>14,
     <1>15 DEF Next

\* When the signature of a real transaction begins, the user agreed to the fee and to every
\* amount but zero of the outputs checked, each once and in their order.
THEOREM AgreedToAll ==
  ASSUME InOrder
  PROVE  Spec => []AllAccepted
<1>1. Init => AgreedInv
  BY DEF Init, AgreedInv, Agreeing, AllAsked, RealTx
<1>2. IInv /\ AgreedInv /\ [Next]_prehashVars => AgreedInv'
  BY StepAgreed
<1>3. AgreedInv => AllAccepted
  BY DEF AgreedInv, Agreeing, AllAsked, AllAccepted, Signable, RealTx
<1> QED BY <1>1, <1>2, <1>3, Invariance, PTL DEF Spec
=============================================================================
