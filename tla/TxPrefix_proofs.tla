-------------------------- MODULE TxPrefix_proofs --------------------------
(***************************************************************************)
(* Proofs about TxPrefix, for any amounts, widths, addresses and bounds:   *)
(* the types, with the width of every sum, that no half-hashed prefix      *)
(* outlives its transaction, that what is counted is what is hashed, and   *)
(* that what is shown is what is paid.                                     *)
(***************************************************************************)
EXTENDS TxPrefix, FiniteSetTheorems, WellFoundedInduction, TLAPS

-----------------------------------------------------------------------------
(***************************************************************************)
(* Sums of amounts                                                         *)
(***************************************************************************)
\* Induction up to a bound, for a set instead of a predicate, which the provers can instantiate.
LEMMA InductionUpTo ==
  ASSUME NEW k \in Nat, NEW S, 0 \in S, \A n \in 0 .. k - 1 : n \in S => n + 1 \in S
  PROVE  0 .. k \subseteq S
<1> DEFINE T == (0 .. k) \ S
           R == OpToRel(<, Nat)
<1>1. SUFFICES ASSUME T # {} PROVE FALSE
  OBVIOUS
<1>2. IsWellFoundedOn(R, Nat)
  BY NatLessThanWellFounded
<1>3. \A m, n \in Nat : m < n => <<m, n>> \in R
  BY DEF OpToRel
<1>4. PICK n \in T : \A m \in T : ~(<<m, n>> \in R)
  <2>1. T \subseteq Nat
    OBVIOUS
  <2> HIDE DEF R, T
  <2> QED BY <1>1, <1>2, <2>1, WFMin
<1> HIDE DEF R
<1>5. n # 0 /\ n - 1 \in 0 .. k - 1 /\ n - 1 \in Nat /\ n \in Nat /\ n - 1 < n
  BY <1>4
<1>6. n - 1 \notin T
  BY <1>3, <1>4, <1>5
<1>7. n - 1 \in S /\ (n - 1) + 1 = n
  BY <1>5, <1>6
<1> QED BY <1>4, <1>5, <1>7

\* The first sums of a sequence, up to the one of k numbers.
IsSums(f, s, k) ==
  f \in [0 .. k -> Nat] /\ f[0] = 0 /\ \A n \in 1 .. k : f[n] = f[n - 1] + s[n]

LEMMA OneMoreSum ==
  ASSUME NEW s \in Seq(Nat), NEW k \in Nat, k + 1 <= Len(s), NEW f, IsSums(f, s, k)
  PROVE  \E g : IsSums(g, s, k + 1)
<1> DEFINE g == [n \in 0 .. k + 1 |-> IF n = k + 1 THEN f[k] + s[k + 1] ELSE f[n]]
<1>1. s[k + 1] \in Nat /\ f[k] \in Nat
  BY DEF IsSums
<1>2. g \in [0 .. k + 1 -> Nat] /\ g[0] = 0
  BY <1>1 DEF IsSums
<1>3. \A n \in 1 .. k + 1 : g[n] = g[n - 1] + s[n]
  BY DEF IsSums
<1>4. IsSums(g, s, k + 1)
  <2> HIDE DEF g
  <2> QED BY <1>2, <1>3 DEF IsSums
<1> QED BY <1>4

LEMMA SumsExist ==
  ASSUME NEW s \in Seq(Nat)
  PROVE  \E f : IsSums(f, s, Len(s))
<1> DEFINE S == {k \in 0 .. Len(s) : \E f : IsSums(f, s, k)}
<1>0. Len(s) \in Nat
  OBVIOUS
<1>1. 0 \in S
  <2> DEFINE f == [n \in 0 .. 0 |-> 0]
  <2>1. IsSums(f, s, 0)
    BY DEF IsSums
  <2> HIDE DEF f
  <2> QED BY <1>0, <2>1
<1>2. ASSUME NEW k \in 0 .. Len(s) - 1, k \in S
      PROVE  k + 1 \in S
  <2>1. k \in Nat /\ k + 1 <= Len(s) /\ k + 1 \in 0 .. Len(s)
    BY <1>0
  <2>2. PICK f : IsSums(f, s, k)
    BY <1>2
  <2> QED BY <2>1, <2>2, OneMoreSum
<1>3. \A k \in 0 .. Len(s) - 1 : k \in S => k + 1 \in S
  BY <1>2
<1> HIDE DEF S
<1>4. 0 .. Len(s) \subseteq S
  BY <1>0, <1>1, <1>3, InductionUpTo
<1>5. Len(s) \in S
  BY <1>0, <1>4
<1> QED BY <1>5 DEF S

\* There are partial sums, and each adds one number to the one before.
LEMMA PartialSumsDef ==
  ASSUME NEW s \in Seq(Nat)
  PROVE  /\ PartialSums(s) \in [0 .. Len(s) -> Nat]
         /\ PartialSums(s)[0] = 0
         /\ \A n \in 1 .. Len(s) : PartialSums(s)[n] = PartialSums(s)[n - 1] + s[n]
<1> DEFINE Eq(f) == f = [n \in 0 .. Len(s) |-> IF n = 0 THEN 0 ELSE f[n - 1] + s[n]]
<1>4. Len(s) \in Nat
  OBVIOUS
<1>5. PICK f : Eq(f)
  <2>1. PICK f : IsSums(f, s, Len(s))
    BY SumsExist
  <2>2. Eq(f)
    BY <1>4, <2>1 DEF IsSums
  <2> QED BY <2>2
<1>6. Eq(PartialSums(s))
  BY <1>5 DEF PartialSums
<1> DEFINE p == PartialSums(s)
<1> HIDE DEF p
<1>7. Eq(p)
  BY <1>6 DEF p
<1>8. p[0] = 0 /\ \A n \in 1 .. Len(s) : p[n] = p[n - 1] + s[n]
  BY <1>4, <1>7
<1>9. \A n \in 0 .. Len(s) : p[n] \in Nat
  <2> DEFINE D == {n \in 0 .. Len(s) : p[n] \in Nat}
  <2>1. 0 \in D
    BY <1>4, <1>8
  <2>2. \A n \in 0 .. Len(s) - 1 : n \in D => n + 1 \in D
    <3> SUFFICES ASSUME NEW n \in 0 .. Len(s) - 1, n \in D PROVE n + 1 \in D
      OBVIOUS
    <3>1. n + 1 \in 1 .. Len(s) /\ (n + 1) - 1 = n
      BY <1>4
    <3>2. p[n + 1] = p[n] + s[n + 1] /\ s[n + 1] \in Nat
      BY <1>8, <3>1
    <3> QED BY <3>1, <3>2, <1>4
  <2> HIDE DEF D
  <2>3. 0 .. Len(s) \subseteq D
    BY <1>4, <2>1, <2>2, InductionUpTo
  <2> QED BY <2>3 DEF D
<1>10. p \in [0 .. Len(s) -> Nat]
  BY <1>7, <1>9
<1> QED BY <1>8, <1>10 DEF p

\* A sum of numbers is a number, and nothing adds up to nothing.
LEMMA SumType ==
  ASSUME NEW s \in Seq(Nat)
  PROVE  Sum(s) \in Nat
<1>1. Len(s) \in 0 .. Len(s)
  OBVIOUS
<1> QED BY <1>1, PartialSumsDef DEF Sum

LEMMA SumEmpty == Sum(<< >>) = 0
<1>1. << >> \in Seq(Nat) /\ Len(<< >>) = 0
  OBVIOUS
<1> QED BY <1>1, PartialSumsDef DEF Sum

\* Two sequences have the same partial sums as far as they are the same.
LEMMA SamePartialSums ==
  ASSUME NEW s \in Seq(Nat), NEW t \in Seq(Nat), NEW k \in Nat, k <= Len(s), k <= Len(t),
         \A i \in 1 .. k : s[i] = t[i]
  PROVE  \A n \in 0 .. k : PartialSums(s)[n] = PartialSums(t)[n]
<1> DEFINE p == PartialSums(s)
           q == PartialSums(t)
           S == {n \in 0 .. k : p[n] = q[n]}
<1>1. /\ p[0] = 0 /\ q[0] = 0
      /\ \A n \in 1 .. Len(s) : p[n] = p[n - 1] + s[n]
      /\ \A n \in 1 .. Len(t) : q[n] = q[n - 1] + t[n]
  BY PartialSumsDef
<1> HIDE DEF p, q
<1>2. 0 \in S
  BY <1>1
<1>3. \A n \in 0 .. k - 1 : n \in S => n + 1 \in S
  <2> SUFFICES ASSUME NEW n \in 0 .. k - 1, n \in S PROVE n + 1 \in S
    OBVIOUS
  <2>1. n + 1 \in 1 .. k /\ n + 1 \in 1 .. Len(s) /\ n + 1 \in 1 .. Len(t) /\ (n + 1) - 1 = n
    OBVIOUS
  <2>2. p[n + 1] = p[n] + s[n + 1] /\ q[n + 1] = q[n] + t[n + 1] /\ s[n + 1] = t[n + 1]
    BY <1>1, <2>1
  <2> QED BY <2>1, <2>2
<1> HIDE DEF S
<1>4. 0 .. k \subseteq S
  BY <1>2, <1>3, InductionUpTo
<1>5. \A n \in 0 .. k : p[n] = q[n]
  BY <1>4 DEF S
<1> QED BY <1>5 DEF p, q

\* One more number.
LEMMA SumAppend ==
  ASSUME NEW s \in Seq(Nat), NEW x \in Nat
  PROVE  Sum(Append(s, x)) = Sum(s) + x
<1> DEFINE t == Append(s, x)
<1>1. /\ t \in Seq(Nat) /\ Len(t) = Len(s) + 1 /\ t[Len(s) + 1] = x
      /\ \A i \in 1 .. Len(s) : t[i] = s[i]
      /\ Len(s) \in Nat
  OBVIOUS
<1> HIDE DEF t
<1>2. PartialSums(s)[Len(s)] = PartialSums(t)[Len(s)]
  <2>0. /\ Len(s) <= Len(s) /\ Len(s) <= Len(t)
        /\ \A i \in 1 .. Len(s) : s[i] = t[i]
    BY <1>1
  <2>1. \A n \in 0 .. Len(s) : PartialSums(s)[n] = PartialSums(t)[n]
    BY <1>1, <2>0, SamePartialSums
  <2> QED BY <1>1, <2>1
<1>3. PartialSums(t)[Len(s) + 1] = PartialSums(t)[Len(s)] + x
  BY <1>1, PartialSumsDef
<1>4. Sum(t) = Sum(s) + x
  BY <1>1, <1>2, <1>3 DEF Sum
<1> QED BY <1>4 DEF t

\* What is no greater, number by number, has no greater sum.
LEMMA SumMonotone ==
  ASSUME NEW s \in Seq(Nat), NEW t \in Seq(Nat), Len(s) = Len(t),
         \A i \in 1 .. Len(s) : s[i] <= t[i]
  PROVE  Sum(s) <= Sum(t)
<1> DEFINE p == PartialSums(s)
           q == PartialSums(t)
           S == {n \in 0 .. Len(s) : p[n] <= q[n]}
<1>0. Len(s) \in Nat
  OBVIOUS
<1>1. /\ p \in [0 .. Len(s) -> Nat] /\ q \in [0 .. Len(s) -> Nat]
      /\ p[0] = 0 /\ q[0] = 0
      /\ \A n \in 1 .. Len(s) : p[n] = p[n - 1] + s[n] /\ q[n] = q[n - 1] + t[n]
  BY PartialSumsDef
<1> HIDE DEF p, q
<1>2. 0 \in S
  BY <1>0, <1>1
<1>3. \A n \in 0 .. Len(s) - 1 : n \in S => n + 1 \in S
  <2> SUFFICES ASSUME NEW n \in 0 .. Len(s) - 1, n \in S PROVE n + 1 \in S
    OBVIOUS
  <2>1. n + 1 \in 1 .. Len(s) /\ (n + 1) - 1 = n /\ n \in 0 .. Len(s) /\ n + 1 \in 0 .. Len(s)
    BY <1>0
  <2>2. s[n + 1] \in Nat /\ t[n + 1] \in Nat /\ s[n + 1] <= t[n + 1]
    BY <2>1
  <2>3. /\ p[n + 1] = p[n] + s[n + 1] /\ q[n + 1] = q[n] + t[n + 1]
        /\ p[n] \in Nat /\ q[n] \in Nat /\ p[n] <= q[n]
    BY <1>1, <2>1
  <2>4. p[n + 1] <= q[n + 1]
    BY <2>2, <2>3
  <2> QED BY <2>1, <2>4
<1> HIDE DEF S
<1>4. 0 .. Len(s) \subseteq S
  BY <1>0, <1>2, <1>3, InductionUpTo
<1>5. p[Len(s)] <= q[Len(s)]
  BY <1>0, <1>4 DEF S
<1> QED BY <1>5 DEF p, q, Sum

-----------------------------------------------------------------------------
(***************************************************************************)
(* Widths                                                                  *)
(***************************************************************************)
\* A power of two counts subsets, so it is a positive number.
LEMMA PowerOfTwo ==
  ASSUME NEW b \in Nat
  PROVE  2^b \in Nat \ {0}
<1> DEFINE S == 1 .. b
<1>1. IsFiniteSet(S) /\ Cardinality(S) = b
  BY FS_Interval
<1>2. IsFiniteSet(SUBSET S) /\ Cardinality(SUBSET S) = 2^b
  BY <1>1, FS_SUBSET
<1>3. Cardinality(SUBSET S) \in Nat /\ Cardinality(SUBSET S) # 0
  BY <1>2, FS_CardinalityType, FS_EmptySet
<1> QED BY <1>2, <1>3

USE WidthAssumption, LayoutAssumption, AddressAssumption, PrefixBounds

\* What fits an integer of a given width.
Fits(bits) == 0 .. 2^bits - 1

LEMMA WrapFits ==
  ASSUME NEW n \in Int, NEW bits \in Nat
  PROVE  Wrap(n, bits) \in Fits(bits)
<1> DEFINE m == 2^bits
<1>1. m \in Nat \ {0}
  BY PowerOfTwo
<1>2. n % m \in 0 .. m - 1
  <2> HIDE DEF m
  <2> QED BY <1>1
<1> QED BY <1>2 DEF Wrap, Fits

-----------------------------------------------------------------------------
(***************************************************************************)
(* Types                                                                   *)
(***************************************************************************)
Amount == Fits(AmountBits)

\* The parts of TypeOK, by the variables that change together.
FlagType   == tx_in_progress \in BOOLEAN /\ real \in BOOLEAN /\ waiting \in BOOLEAN
CountType  ==
  tx_ins_count \in Fits(CountBits) /\ tx_outs_current_index \in Fits(CountBits) /\ strayed \in BOOLEAN
AmountType == tx_ins_amount \in Amount /\ tx_outs_amount \in Amount /\ tx_total_amount \in Amount
OutType    == tx_change_idx \subseteq 0 .. Room + Gap - 1 /\ dest \in Addresses
HashType   == keccakH \in Seq(Items)
ScreenType == shown \in [ask : Questions, amount : Amount, to : Addresses]

LEMMA TypeParts ==
  /\ TypeOK  <=> FlagType  /\ CountType  /\ AmountType  /\ OutType  /\ HashType  /\ ScreenType
  /\ TypeOK' <=> FlagType' /\ CountType' /\ AmountType' /\ OutType' /\ HashType' /\ ScreenType'
BY DEF TypeOK, FlagType, CountType, AmountType, OutType, HashType, ScreenType, Amount, Fits

LEMMA BitIsTruth == \A i : ChangeBit(i) \subseteq BOOLEAN
BY DEF ChangeBit

\* What is kept with the variables it is about.
LEMMA SameTypes ==
  ASSUME TypeOK
  PROVE  /\ UNCHANGED << tx_in_progress, real, waiting >> => FlagType'
         /\ UNCHANGED sumVars => CountType' /\ AmountType'
         /\ UNCHANGED outVars => OutType'
         /\ UNCHANGED keccakH => HashType'
         /\ UNCHANGED shown => ScreenType'
BY TypeParts
   DEF FlagType, CountType, AmountType, OutType, HashType, ScreenType, sumVars, outVars

LEMMA ZeroFits ==
  /\ 0 \in Amount /\ 2^AmountBits \in Nat \ {0}
  /\ 0 \in Fits(CountBits) /\ 2^CountBits \in Nat \ {0}
BY PowerOfTwo DEF Amount, Fits

LEMMA OneMoreFits ==
  ASSUME NEW n \in Fits(CountBits)
  PROVE  Wrap(n + 1, CountBits) \in Fits(CountBits)
<1>1. n + 1 \in Int
  BY ZeroFits DEF Fits
<1> QED BY <1>1, WrapFits

LEMMA AmountsFit == Amounts \subseteq Amount
BY DEF Amount, Fits

LEMMA SumFits ==
  ASSUME NEW a \in Amount, NEW b \in Amount
  PROVE  Wrap(a + b, AmountBits) \in Amount
<1>1. a + b \in Int
  BY ZeroFits DEF Amount, Fits
<1> QED BY <1>1, WrapFits DEF Amount

\* A fee is cut to its width, which can only make it less.
LEMMA FeeFits ==
  ASSUME TypeOK
  PROVE  Wrap(Wrap(tx_ins_amount - tx_outs_amount, AmountBits), FeeBits) \in Amount
<1> DEFINE difference == Wrap(tx_ins_amount - tx_outs_amount, AmountBits)
           m == 2^FeeBits
<1>1. tx_ins_amount - tx_outs_amount \in Int
  BY TypeParts, ZeroFits DEF AmountType, Amount, Fits
<1>2. difference \in Nat /\ difference \in Amount
  BY <1>1, WrapFits, ZeroFits DEF Amount, Fits
<1>3. m \in Nat \ {0}
  BY PowerOfTwo
<1>4. difference % m \in 0 .. difference
  <2> HIDE DEF difference, m
  <2> QED BY <1>2, <1>3
<1>5. difference % m \in Amount
  <2> HIDE DEF difference, m
  <2> QED BY <1>2, <1>4, ZeroFits DEF Amount, Fits
<1> QED BY <1>5 DEF Wrap

LEMMA ItemsTyped ==
  /\ Start \in Items /\ Extra \in Items /\ Other \in Items
  /\ \A a \in Amounts : In(a) \in Items
  /\ \A a \in Amounts, to \in Payees \cup {Own}, change \in BOOLEAN : Out(a, to, change) \in Items
<1>1. NoVarint \in Nat /\ 0 \in 0 .. 2^AmountBits - 1
  BY ZeroFits DEF NoVarint
<1>2. \A a \in 0 .. 2^AmountBits - 1 : encode_varint(a) \in 0 .. NoVarint
  BY <1>1, ZeroFits DEF encode_varint, NoVarint
<1>3. \A kind \in Kinds, a \in 0 .. 2^AmountBits - 1, to \in Addresses, change \in BOOLEAN :
        Item(kind, a, to, change) \in Items
  BY <1>2 DEF Items, Item
<1> QED BY <1>1, <1>3 DEF Kinds, Addresses, Start, Extra, Other, In, Out

LEMMA AbsorbTyped ==
  ASSUME HashType, NEW item \in Items, Absorb(item)
  PROVE  HashType'
<1>1. keccakH' = Append(keccakH, item) \/ keccakH' = << Other >>
  BY DEF Absorb
<1>2. << Other >> \in Seq(Items)
  BY ItemsTyped
<1>3. Append(keccakH, item) \in Seq(Items)
  BY DEF HashType
<1>4. keccakH' \in Seq(Items)
  BY <1>1, <1>2, <1>3
<1> QED BY <1>4 DEF HashType

\* A context that was initialised, begun, or left to something else.
LEMMA ContextTyped ==
  ASSUME keccakH' = << >> \/ keccakH' = << Start >> \/ keccakH' = << Other >>
  PROVE  HashType'
<1>1. << >> \in Seq(Items) /\ << Start >> \in Seq(Items) /\ << Other >> \in Seq(Items)
  BY ItemsTyped
<1> QED BY <1>1 DEF HashType

LEMMA AskTyped ==
  ASSUME NEW what \in Questions, NEW amount \in Amount, NEW to \in Addresses, Ask(what, amount, to)
  PROVE  ScreenType'
BY DEF Ask, ScreenType

LEMMA NothingTyped ==
  ASSUME shown' = Nothing
  PROVE  ScreenType'
BY ZeroFits DEF ScreenType, Nothing, Questions, Addresses

LEMMA InitTyped ==
  ASSUME Init
  PROVE  TypeOK
<1>1. FlagType
  BY DEF Init, FlagType
<1>2. CountType
  BY ZeroFits DEF Init, CountType
<1>3. AmountType
  BY ZeroFits DEF Init, AmountType
<1>4. OutType
  BY DEF Init, OutType, Addresses
<1>5. HashType
  BY ItemsTyped DEF Init, HashType
<1>6. ScreenType
  BY ZeroFits DEF Init, ScreenType, Nothing, Questions, Addresses
<1> QED BY <1>1, <1>2, <1>3, <1>4, <1>5, <1>6, TypeParts

\* The bit of an index is set wherever it lies, and nothing else.
LEMMA ChangeTyped ==
  ASSUME CountType, OutType, NEW i \in Indexes, NEW change \in BOOLEAN, NEW to \in Payees,
         tx_ins_count' = tx_ins_count,
         IF change THEN set_change_bit(i)
         ELSE dest' = to /\ UNCHANGED << tx_outs_current_index, strayed, tx_change_idx >>
  PROVE  CountType' /\ OutType'
<1>1. CASE ~change
  BY <1>1 DEF CountType, OutType, Addresses
<1>2. CASE change
  <2>1. CASE i < Room + Gap /\ tx_change_idx' = tx_change_idx \cup {i}
             /\ UNCHANGED << tx_outs_current_index, strayed, dest >>
    <3>1. i \in 0 .. Room + Gap - 1
      BY <2>1
    <3> QED BY <2>1, <3>1 DEF CountType, OutType
  <2>2. CASE tx_outs_current_index' \in WithBit(tx_outs_current_index, i - (Room + Gap))
             /\ strayed' = TRUE /\ UNCHANGED outVars
    <3>1. tx_outs_current_index' \in Fits(CountBits)
      BY <2>2 DEF WithBit, Fits
    <3> QED BY <2>2, <3>1 DEF CountType, OutType, outVars
  <2>3. CASE dest' \in Addresses /\ UNCHANGED << tx_outs_current_index, strayed, tx_change_idx >>
    BY <2>3 DEF CountType, OutType
  <2> QED BY <1>2, <2>1, <2>2, <2>3 DEF set_change_bit
<1> QED BY <1>1, <1>2

LEMMA ResetTyped ==
  ASSUME TypeOK, reset_tx
  PROVE  CountType' /\ AmountType' /\ OutType' /\ HashType' /\ tx_in_progress' \in BOOLEAN
BY SameTypes, ContextTyped DEF reset_tx

LEMMA StepTyped ==
  ASSUME TypeOK, [Next]_prefixVars
  PROVE  TypeOK'
<1>0. FlagType /\ CountType /\ AmountType /\ OutType /\ HashType /\ ScreenType
  BY TypeParts
<1>1. CASE open_tx
  <2>1. FlagType' BY <1>0, <1>1 DEF open_tx, FlagType
  <2>2. HashType' BY <1>1, ContextTyped DEF open_tx
  <2> QED BY <1>1, <2>1, <2>2, SameTypes, TypeParts DEF open_tx
<1>2. CASE end_tx
  <2>1. FlagType' BY <1>0, <1>2 DEF end_tx, reset_tx, FlagType
  <2> QED BY <1>2, <2>1, ResetTyped, SameTypes, TypeParts DEF end_tx
<1>3. CASE set_signature_mode
  <2>1. FlagType' BY <1>0, <1>3 DEF set_signature_mode, FlagType
  <2> QED BY <1>3, <2>1, SameTypes, TypeParts DEF set_signature_mode
<1>4. ASSUME NEW i \in Indexes, NEW change \in BOOLEAN, NEW to \in Payees,
             generate_txout_keys(i, change, to)
      PROVE  TypeOK'
  <2>1. OutType' /\ CountType'
    BY <1>0, <1>4, ChangeTyped DEF generate_txout_keys
  <2>2. AmountType'
    BY <1>0, <1>4 DEF generate_txout_keys, AmountType
  <2> QED BY <1>4, <2>1, <2>2, SameTypes, TypeParts DEF generate_txout_keys
<1>5. CASE tx_prefix_start
  <2>1. CountType' BY <1>5, ZeroFits DEF tx_prefix_start, CountType
  <2>2. AmountType' BY <1>5, ZeroFits DEF tx_prefix_start, AmountType
  <2>3. HashType' BY <1>5, ContextTyped DEF tx_prefix_start
  <2> QED BY <1>5, <2>1, <2>2, <2>3, SameTypes, TypeParts DEF tx_prefix_start
<1>6. ASSUME NEW a \in Amounts, tx_prefix_inputs(a) PROVE TypeOK'
  <2>1. CountType' BY <1>0, <1>6, OneMoreFits DEF tx_prefix_inputs, CountType
  <2>2. AmountType' BY <1>0, <1>6, AmountsFit, SumFits DEF tx_prefix_inputs, AmountType
  <2>3. HashType' BY <1>0, <1>6, ItemsTyped, AbsorbTyped DEF tx_prefix_inputs
  <2> QED BY <1>6, <2>1, <2>2, <2>3, SameTypes, TypeParts DEF tx_prefix_inputs
<1>7. ASSUME NEW a \in Amounts, NEW to \in Payees \cup {Own}, tx_prefix_outputs(a, to)
      PROVE  TypeOK'
  <2>0. PICK is_change \in BOOLEAN :
          /\ Absorb(Out(a, to, is_change))
          /\ tx_total_amount' =
               IF is_change THEN tx_total_amount ELSE Wrap(tx_total_amount + a, AmountBits)
    BY <1>7, BitIsTruth DEF tx_prefix_outputs
  <2>1. CountType' BY <1>0, <1>7, OneMoreFits DEF tx_prefix_outputs, CountType
  <2>2. AmountType' BY <1>0, <1>7, <2>0, AmountsFit, SumFits DEF tx_prefix_outputs, AmountType
  <2>3. HashType' BY <1>0, <2>0, ItemsTyped, AbsorbTyped
  <2>4. OutType' BY <1>0, <1>7, SameTypes DEF tx_prefix_outputs
  <2> QED BY <1>7, <2>1, <2>2, <2>3, <2>4, SameTypes, TypeParts DEF tx_prefix_outputs
<1>8. ASSUME NEW to \in Payees \cup {Own}, tx_prefix_outputs_matches(to) PROVE TypeOK'
  <2>1. FlagType' BY <1>0, <1>8 DEF tx_prefix_outputs_matches, FlagType
  <2>2. OutType' BY <1>0, <1>8 DEF tx_prefix_outputs_matches, clear_change_idx, OutType
  <2> QED BY <1>8, <2>1, <2>2, SameTypes, TypeParts DEF tx_prefix_outputs_matches
<1>9. CASE tx_prefix_outputs_size
  <2>1. HashType' BY <1>0, <1>9, ItemsTyped, AbsorbTyped DEF tx_prefix_outputs_size
  <2> QED BY <1>9, <2>1, SameTypes, TypeParts DEF tx_prefix_outputs_size
<1>10. CASE tx_prefix_extra
  <2>1. OutType' BY <1>0, <1>10 DEF tx_prefix_extra, clear_change_idx, OutType
  <2>2. HashType' BY <1>10, ContextTyped DEF tx_prefix_extra
  <2> QED BY <1>10, <2>1, <2>2, SameTypes, TypeParts DEF tx_prefix_extra
<1>11. CASE tx_prompt_amount
  <2>1. FlagType' BY <1>0, <1>11 DEF tx_prompt_amount, Ask, FlagType
  <2>2. ScreenType'
    BY <1>0, <1>11, AskTyped DEF tx_prompt_amount, AmountType, OutType, Questions, Addresses
  <2> QED BY <1>11, <2>1, <2>2, SameTypes, TypeParts DEF tx_prompt_amount
<1>12. CASE tx_prompt_fee
  <2>1. FlagType' BY <1>0, <1>12 DEF tx_prompt_fee, Ask, FlagType
  <2>2. ScreenType' BY <1>0, <1>12, FeeFits, AskTyped DEF tx_prompt_fee, Questions, Addresses
  <2> QED BY <1>12, <2>1, <2>2, SameTypes, TypeParts DEF tx_prompt_fee
<1>13. ASSUME NEW accept \in BOOLEAN, validation_action(accept) PROVE TypeOK'
  <2>1. FlagType' BY <1>0, <1>13 DEF validation_action, reset_tx, FlagType
  <2>2. ScreenType' BY <1>13, NothingTyped DEF validation_action
  <2>3. CountType' /\ AmountType' /\ OutType' /\ HashType'
    BY <1>13, ResetTyped, SameTypes DEF validation_action
  <2> QED BY <2>1, <2>2, <2>3, TypeParts
<1>14. CASE Unlock
  <2>1. HashType' BY <1>14, ContextTyped DEF Unlock, init_private_key
  <2> QED BY <1>14, <2>1, SameTypes, TypeParts DEF Unlock
<1>15. CASE hash_to_scalar_init \/ hash_to_scalar
  <2>1. HashType' BY <1>15, ContextTyped DEF hash_to_scalar_init, hash_to_scalar
  <2> QED BY <1>15, <2>1, SameTypes, TypeParts DEF hash_to_scalar_init, hash_to_scalar
<1>16. CASE hash_to_scalar_batch
  <2>1. HashType' BY <1>0, <1>16, ItemsTyped, AbsorbTyped DEF hash_to_scalar_batch
  <2> QED BY <1>16, <2>1, SameTypes, TypeParts DEF hash_to_scalar_batch
<1>17. CASE electroneum_init
  <2>1. FlagType' BY <1>17 DEF electroneum_init, FlagType
  <2>2. CountType' BY <1>17, ZeroFits DEF electroneum_init, CountType
  <2>3. AmountType' BY <1>17, ZeroFits DEF electroneum_init, AmountType
  <2>4. OutType' BY <1>17 DEF electroneum_init, OutType, Addresses
  <2>5. HashType' BY <1>17, ContextTyped DEF electroneum_init, init_private_key
  <2>6. ScreenType' BY <1>17, NothingTyped DEF electroneum_init
  <2> QED BY <2>1, <2>2, <2>3, <2>4, <2>5, <2>6, TypeParts
<1>18. CASE UNCHANGED prefixVars
  BY <1>18, SameTypes, TypeParts DEF prefixVars
<1>19. CASE mlsag_prehash_init \/ mlsag_prehash_update \/ mlsag_prehash_finalize \/ mlsag_hash
  <2>0. CountType' /\ AmountType' /\ OutType' /\ tx_in_progress' \in BOOLEAN /\ real' \in BOOLEAN
    BY <1>0, <1>19, SameTypes
       DEF mlsag_prehash_init, mlsag_prehash_update, mlsag_prehash_finalize, mlsag_hash, FlagType
  <2>1. Absorb(Other) \/ keccakH' = << >> \/ keccakH' = << Other >>
    BY <1>19 DEF mlsag_prehash_init, mlsag_prehash_update, mlsag_prehash_finalize, mlsag_hash
  <2>2. HashType' BY <1>0, <2>1, ContextTyped, ItemsTyped, AbsorbTyped
  <2>3. AskOfPrehash \/ UNCHANGED << shown, waiting >>
    BY <1>19 DEF mlsag_prehash_init, mlsag_prehash_update, mlsag_prehash_finalize, mlsag_hash
  <2>4. AskOfPrehash => ScreenType' /\ waiting' \in BOOLEAN
    BY ZeroFits, AskTyped DEF AskOfPrehash, Ask, Questions, Addresses
  <2>5. FlagType' /\ ScreenType'
    BY <1>0, <2>0, <2>3, <2>4 DEF FlagType, ScreenType
  <2> QED BY <2>0, <2>2, <2>5, TypeParts
<1> QED
  BY <1>1, <1>2, <1>3, <1>4, <1>5, <1>6, <1>7, <1>8, <1>9, <1>10, <1>11, <1>12, <1>13, <1>14,
     <1>15, <1>16, <1>17, <1>18, <1>19 DEF Next

-----------------------------------------------------------------------------
(***************************************************************************)
(* Theorems                                                                *)
(***************************************************************************)
\* Every variable has its type, every sum fits an amount, and so does what is shown, in
\* every order of the commands.
THEOREM TypeCorrect == Spec => []TypeOK
<1>1. TypeOK /\ [Next]_prefixVars => TypeOK'
  BY StepTyped
<1> QED BY InitTyped, <1>1, PTL DEF Spec

\* Neither an empty context nor one that holds something else holds a prefix.
LEMMA HoldsNone == ~HoldsPrefix(<< >>) /\ ~HoldsPrefix(<< Other >>)
BY DEF HoldsPrefix, Other, Start, Item

\* A prefix is hashed in a transaction only, and the end of one, however it comes, leaves
\* none: the next transaction cannot go on with it.
THEOREM PrefixConfined == Spec => []NoPrefixOutsideTx
<1>1. Init => NoPrefixOutsideTx
  BY HoldsNone DEF Init, NoPrefixOutsideTx
<1>2. ASSUME NoPrefixOutsideTx, [Next]_prefixVars
      PROVE  NoPrefixOutsideTx'
  <2>1. CASE keccakH' = << >> \/ keccakH' = << Other >>
    BY <2>1, HoldsNone DEF NoPrefixOutsideTx
  <2>2. CASE tx_in_progress /\ tx_in_progress' = tx_in_progress
    BY <2>2 DEF NoPrefixOutsideTx
  <2>3. CASE UNCHANGED << tx_in_progress, keccakH >>
    BY <1>2, <2>3 DEF NoPrefixOutsideTx
  <2>4. CASE \/ open_tx \/ end_tx \/ tx_prefix_extra \/ hash_to_scalar_init \/ hash_to_scalar
             \/ Unlock \/ electroneum_init
    BY <2>1, <2>4 DEF open_tx, end_tx, reset_tx, tx_prefix_extra, hash_to_scalar_init,
                      hash_to_scalar, Unlock, electroneum_init, init_private_key
  <2>5. CASE \/ tx_prefix_start \/ tx_prefix_outputs_size \/ hash_to_scalar_batch
             \/ tx_prompt_amount \/ tx_prompt_fee
    BY <2>2, <2>5 DEF tx_prefix_start, tx_prefix_outputs_size, hash_to_scalar_batch,
                      tx_prompt_amount, tx_prompt_fee, InTx
  <2>6. CASE \/ \E a \in Amounts : tx_prefix_inputs(a)
             \/ \E a \in Amounts, to \in Payees \cup {Own} : tx_prefix_outputs(a, to)
             \/ \E to \in Payees \cup {Own} : tx_prefix_outputs_matches(to)
    BY <2>2, <2>6 DEF tx_prefix_inputs, tx_prefix_outputs, tx_prefix_outputs_matches, InTx
  <2>7. ASSUME NEW accept \in BOOLEAN, validation_action(accept) PROVE NoPrefixOutsideTx'
    BY <2>1, <2>3, <2>7 DEF validation_action, reset_tx
  <2>8. CASE \/ set_signature_mode \/ UNCHANGED prefixVars
             \/ \E i \in Indexes, change \in BOOLEAN, to \in Payees :
                  generate_txout_keys(i, change, to)
    BY <2>3, <2>8 DEF set_signature_mode, prefixVars, generate_txout_keys
  <2>9. CASE mlsag_prehash_init \/ mlsag_prehash_update \/ mlsag_prehash_finalize \/ mlsag_hash
    BY <2>2, <2>9 DEF mlsag_prehash_init, mlsag_prehash_update, mlsag_prehash_finalize, mlsag_hash,
                      InTx
  <2> QED BY <1>2, <2>4, <2>5, <2>6, <2>7, <2>8, <2>9 DEF Next
<1> QED BY <1>1, <1>2, PTL DEF Spec

-----------------------------------------------------------------------------
(***************************************************************************)
(* Sums modulo a power of two                                              *)
(***************************************************************************)
\* The remainder is the only number of its range at a multiple's distance.
LEMMA OneRemainder ==
  ASSUME NEW m \in Nat \ {0}, NEW q \in Int, NEW k \in Int, NEW r \in 0 .. m - 1,
         NEW t \in 0 .. m - 1, m * q + r = m * k + t
  PROVE  r = t
<1>1. m * (q - k) = t - r
  BY Z3
<1>2. CASE q - k >= 1
  <2>1. m * (q - k) >= m
    BY <1>2, Z3
  <2> QED BY <1>1, <2>1
<1>3. CASE q - k <= -1
  <2>1. m * (q - k) <= -m
    BY <1>3, Z3
  <2> QED BY <1>1, <2>1
<1>4. CASE q - k = 0
  BY <1>1, <1>4
<1> QED BY <1>2, <1>3, <1>4

\* A sum that was wrapped before something is added wraps to the same.
LEMMA WrapSum ==
  ASSUME NEW m \in Nat \ {0}, NEW x \in Nat, NEW a \in Nat
  PROVE  ((x % m) + a) % m = (x + a) % m
<1> DEFINE y == (x % m) + a
           z == x + a
<1>1. x = m * (x \div m) + (x % m) /\ x \div m \in Int /\ x % m \in 0 .. m - 1
  OBVIOUS
<1>2. y \in Nat /\ z \in Nat /\ z = m * (x \div m) + y
  BY <1>1
<1> HIDE DEF y, z
<1>3. /\ y = m * (y \div m) + (y % m) /\ y \div m \in Int /\ y % m \in 0 .. m - 1
      /\ z = m * (z \div m) + (z % m) /\ z \div m \in Int /\ z % m \in 0 .. m - 1
  <2>1. \A n \in Nat : n = m * (n \div m) + (n % m) /\ n \div m \in Int /\ n % m \in 0 .. m - 1
    OBVIOUS
  <2> QED BY <1>2, <2>1
<1> DEFINE q == (x \div m) + (y \div m)
           k == z \div m
           r == y % m
           t == z % m
<1>4. m * q + r = m * k + t
  BY <1>1, <1>2, <1>3, Z3
<1>5. q \in Int /\ k \in Int /\ r \in 0 .. m - 1 /\ t \in 0 .. m - 1
  BY <1>1, <1>3
<1>6. r = t
  <2> HIDE DEF q, k, r, t
  <2> QED BY <1>4, <1>5, OneRemainder
<1> QED BY <1>6 DEF y, z

\* A difference of two sums that were wrapped wraps to the same.
LEMMA WrapDifference ==
  ASSUME NEW m \in Nat \ {0}, NEW x \in Nat, NEW z \in Nat
  PROVE  ((x % m) - (z % m)) % m = (x - z) % m
<1> DEFINE y == (x % m) - (z % m)
           d == x - z
<1>1. /\ x = m * (x \div m) + (x % m) /\ x \div m \in Int /\ x % m \in 0 .. m - 1
      /\ z = m * (z \div m) + (z % m) /\ z \div m \in Int /\ z % m \in 0 .. m - 1
  OBVIOUS
<1>2. y \in Int /\ d \in Int /\ d = m * (x \div m) - m * (z \div m) + y
  BY <1>1
<1> HIDE DEF y, d
<1>3. /\ y = m * (y \div m) + (y % m) /\ y \div m \in Int /\ y % m \in 0 .. m - 1
      /\ d = m * (d \div m) + (d % m) /\ d \div m \in Int /\ d % m \in 0 .. m - 1
  <2>1. \A n \in Int : n = m * (n \div m) + (n % m) /\ n \div m \in Int /\ n % m \in 0 .. m - 1
    OBVIOUS
  <2> QED BY <1>2, <2>1
<1> DEFINE q == (x \div m) - (z \div m) + (y \div m)
           k == d \div m
           r == y % m
           t == d % m
<1>4. m * q + r = m * k + t
  BY <1>1, <1>2, <1>3, Z3
<1>5. q \in Int /\ k \in Int /\ r \in 0 .. m - 1 /\ t \in 0 .. m - 1
  BY <1>1, <1>3
<1>6. r = t
  <2> HIDE DEF q, k, r, t
  <2> QED BY <1>4, <1>5, OneRemainder
<1> QED BY <1>6 DEF y, d

LEMMA CountedWraps ==
  ASSUME NEW x \in Nat, NEW a \in Nat, NEW bits \in Nat
  PROVE  Wrap(Wrap(x, bits) + a, bits) = Wrap(x + a, bits)
<1> DEFINE m == 2^bits
<1>1. m \in Nat \ {0}
  BY PowerOfTwo
<1>2. ((x % m) + a) % m = (x + a) % m
  <2> HIDE DEF m
  <2> QED BY <1>1, WrapSum
<1> QED BY <1>2 DEF Wrap

\* What fits is not wrapped.
LEMMA FitsUnwrapped ==
  ASSUME NEW bits \in Nat, NEW x \in Fits(bits)
  PROVE  Wrap(x, bits) = x
<1> DEFINE m == 2^bits
<1>1. m \in Nat \ {0} /\ x \in 0 .. m - 1
  BY PowerOfTwo DEF Fits
<1>2. x % m = x
  <2> HIDE DEF m
  <2> QED BY <1>1
<1> QED BY <1>2 DEF Wrap

-----------------------------------------------------------------------------
(***************************************************************************)
(* One more item                                                           *)
(***************************************************************************)
\* The amounts of a prefix that are summed, item by item.
InsOf(h)  == [i \in DOMAIN h |-> IF h[i].kind = "in" THEN h[i].amount ELSE 0]
OutsOf(h) == [i \in DOMAIN h |-> IF h[i].kind = "out" THEN h[i].amount ELSE 0]
PaidOf(h) == [i \in DOMAIN h |-> IF h[i].kind = "out" /\ ~h[i].change THEN h[i].amount ELSE 0]

LEMMA ItemAmounts ==
  /\ \A x \in Items : x.amount \in Nat
  /\ \A h \in Seq(Items) : \A i \in DOMAIN h : h[i] \in Items /\ h[i].amount \in Nat
<1>1. 2^AmountBits \in Nat
  BY ZeroFits
<1>2. \A x \in Items : x.amount \in Nat
  BY <1>1 DEF Items
<1>3. \A h \in Seq(Items) : \A i \in DOMAIN h : h[i] \in Items
  OBVIOUS
<1> QED BY <1>2, <1>3

LEMMA AmountsTyped ==
  ASSUME NEW h \in Seq(Items)
  PROVE  /\ InsOf(h) \in Seq(Nat) /\ OutsOf(h) \in Seq(Nat) /\ PaidOf(h) \in Seq(Nat)
         /\ Len(OutsOf(h)) = Len(h) /\ Len(PaidOf(h)) = Len(h)
<1>1. DOMAIN h = 1 .. Len(h) /\ Len(h) \in Nat
  OBVIOUS
<1>2. \A i \in DOMAIN h : h[i].amount \in Nat
  BY ItemAmounts
<1> QED BY <1>1, <1>2 DEF InsOf, OutsOf, PaidOf

LEMMA SumsTyped ==
  ASSUME NEW h \in Seq(Items)
  PROVE  Ins(h) \in Nat /\ Outs(h) \in Nat /\ Paid(h) \in Nat /\ Paid(h) <= Outs(h)
<1>1. Sum(InsOf(h)) \in Nat /\ Sum(OutsOf(h)) \in Nat /\ Sum(PaidOf(h)) \in Nat
  BY AmountsTyped, SumType
<1>2. \A i \in 1 .. Len(PaidOf(h)) : PaidOf(h)[i] <= OutsOf(h)[i]
  <2>1. \A i \in DOMAIN h : h[i].amount \in Nat
    BY ItemAmounts
  <2>2. DOMAIN h = 1 .. Len(PaidOf(h))
    BY AmountsTyped
  <2> QED BY <2>1, <2>2 DEF PaidOf, OutsOf
<1>3. Sum(PaidOf(h)) <= Sum(OutsOf(h))
  BY <1>2, AmountsTyped, SumMonotone
<1> QED BY <1>1, <1>3 DEF Ins, Outs, Paid, InsOf, OutsOf, PaidOf

\* What one more item adds to each of the sums.
LEMMA OneMoreItem ==
  ASSUME NEW h \in Seq(Items), NEW x \in Items
  PROVE  /\ Ins(Append(h, x)) = Ins(h) + (IF x.kind = "in" THEN x.amount ELSE 0)
         /\ Outs(Append(h, x)) = Outs(h) + (IF x.kind = "out" THEN x.amount ELSE 0)
         /\ Paid(Append(h, x)) = Paid(h) + (IF x.kind = "out" /\ ~x.change THEN x.amount ELSE 0)
<1> DEFINE g == Append(h, x)
<1>1. /\ g \in Seq(Items) /\ Len(g) = Len(h) + 1 /\ Len(h) \in Nat
      /\ DOMAIN g = 1 .. Len(h) + 1 /\ DOMAIN h = 1 .. Len(h)
      /\ g[Len(h) + 1] = x /\ \A i \in DOMAIN h : g[i] = h[i]
  OBVIOUS
<1>2. x.amount \in Nat
  BY ItemAmounts
<1> HIDE DEF g
<1>3. InsOf(g) = Append(InsOf(h), IF x.kind = "in" THEN x.amount ELSE 0)
  BY <1>1, <1>2, AmountsTyped DEF InsOf
<1>4. OutsOf(g) = Append(OutsOf(h), IF x.kind = "out" THEN x.amount ELSE 0)
  BY <1>1, <1>2, AmountsTyped DEF OutsOf
<1>5. PaidOf(g) = Append(PaidOf(h), IF x.kind = "out" /\ ~x.change THEN x.amount ELSE 0)
  BY <1>1, <1>2, AmountsTyped DEF PaidOf
<1>6. /\ Sum(InsOf(g)) = Sum(InsOf(h)) + (IF x.kind = "in" THEN x.amount ELSE 0)
      /\ Sum(OutsOf(g)) = Sum(OutsOf(h)) + (IF x.kind = "out" THEN x.amount ELSE 0)
      /\ Sum(PaidOf(g)) = Sum(PaidOf(h)) + (IF x.kind = "out" /\ ~x.change THEN x.amount ELSE 0)
  BY <1>2, <1>3, <1>4, <1>5, AmountsTyped, SumAppend
<1> QED BY <1>6 DEF g, Ins, Outs, Paid, InsOf, OutsOf, PaidOf

LEMMA OneMoreCounted ==
  ASSUME NEW h \in Seq(Items), NEW x \in Items, NEW kind
  PROVE  /\ Count(h, kind) \in Nat
         /\ Count(Append(h, x), kind) = Count(h, kind) + (IF x.kind = kind THEN 1 ELSE 0)
<1> DEFINE S == {i \in DOMAIN h : h[i].kind = kind}
           T == {i \in DOMAIN Append(h, x) : Append(h, x)[i].kind = kind}
<1>1. Len(h) \in Nat /\ DOMAIN h = 1 .. Len(h) /\ DOMAIN Append(h, x) = 1 .. Len(h) + 1
  OBVIOUS
<1>2. Append(h, x)[Len(h) + 1] = x /\ \A i \in DOMAIN h : Append(h, x)[i] = h[i]
  OBVIOUS
<1>3. T = IF x.kind = kind THEN S \cup {Len(h) + 1} ELSE S
  BY <1>1, <1>2
<1>4. Len(h) + 1 \notin S
  BY <1>1
<1>5. IsFiniteSet(S)
  <2>1. IsFiniteSet(1 .. Len(h)) /\ S \subseteq 1 .. Len(h)
    BY <1>1, FS_Interval
  <2> HIDE DEF S
  <2> QED BY <2>1, FS_Subset
<1> HIDE DEF S, T
<1>6. Cardinality(T) = Cardinality(S) + (IF x.kind = kind THEN 1 ELSE 0) /\ Cardinality(S) \in Nat
  <2>1. Cardinality(S) \in Nat
    BY <1>5, FS_CardinalityType
  <2>2. Cardinality(S \cup {Len(h) + 1}) = Cardinality(S) + 1
    BY <1>4, <1>5, FS_AddElement
  <2> QED BY <1>3, <2>1, <2>2
<1> QED BY <1>6 DEF Count, S, T

LEMMA EmptySums ==
  /\ Ins(<< >>) = 0 /\ Outs(<< >>) = 0 /\ Paid(<< >>) = 0
  /\ \A kind : Count(<< >>, kind) = 0
<1>1. InsOf(<< >>) = << >> /\ OutsOf(<< >>) = << >> /\ PaidOf(<< >>) = << >>
  BY DEF InsOf, OutsOf, PaidOf
<1>2. \A kind : {i \in DOMAIN << >> : << >>[i].kind = kind} = {}
  OBVIOUS
<1>3. Cardinality({}) = 0
  BY FS_EmptySet
<1> QED BY <1>1, <1>2, <1>3, SumEmpty DEF Ins, Outs, Paid, Count, InsOf, OutsOf, PaidOf

-----------------------------------------------------------------------------
(***************************************************************************)
(* What is counted is what is hashed                                       *)
(***************************************************************************)
\* The amounts an item adds to the inputs, to the outputs and to what is paid.
InOf(x)   == IF x.kind = "in" THEN x.amount ELSE 0
OutOf(x)  == IF x.kind = "out" THEN x.amount ELSE 0
PayOf(x)  == IF x.kind = "out" /\ ~x.change THEN x.amount ELSE 0
OneOf(x, kind) == IF x.kind = kind THEN 1 ELSE 0

\* The hash holds of an item the amount it was sent with, or none.
HashedAmount(x) == x.hashed \in {x.amount, NoVarint}

\* The counters count one more item.
CountsItem(x) ==
  /\ tx_ins_count' = Wrap(tx_ins_count + OneOf(x, "in"), CountBits)
  /\ strayed' = strayed
  /\ tx_outs_current_index' = Wrap(tx_outs_current_index + OneOf(x, "out"), CountBits)
  /\ tx_ins_amount' = Wrap(tx_ins_amount + InOf(x), AmountBits)
  /\ tx_outs_amount' = Wrap(tx_outs_amount + OutOf(x), AmountBits)
  /\ tx_total_amount' = Wrap(tx_total_amount + PayOf(x), AmountBits)

\* What is counted of a sequence of items is their sum.
CountedFor(h) ==
  /\ tx_ins_count = Wrap(Count(h, "in"), CountBits)
  /\ ~strayed => tx_outs_current_index = Wrap(Count(h, "out"), CountBits)
  /\ tx_ins_amount = Wrap(Ins(h), AmountBits)
  /\ tx_outs_amount = Wrap(Outs(h), AmountBits)
  /\ tx_total_amount = Wrap(Paid(h), AmountBits)
  /\ \A i \in DOMAIN h : HashedAmount(h[i])

LEMMA CountedIsCountedFor ==
  /\ CountsWhatIsHashed  <=> (HoldsPrefix(keccakH)  => CountedFor(keccakH))
  /\ CountsWhatIsHashed' <=> (HoldsPrefix(keccakH') => CountedFor(keccakH)')
BY DEF CountsWhatIsHashed, CountedFor, HashedAmount

LEMMA ItemIsHashed ==
  /\ \A kind, a, to, change : HashedAmount(Item(kind, a, to, change))
  /\ HashedAmount(Start) /\ HashedAmount(Extra) /\ HashedAmount(Other)
  /\ \A a : HashedAmount(In(a))
  /\ \A a, to, change : HashedAmount(Out(a, to, change))
BY DEF HashedAmount, Item, encode_varint, Start, Extra, Other, In, Out

LEMMA CountedOneMore ==
  ASSUME NEW h \in Seq(Items), NEW x \in Items, CountedFor(h), CountsItem(x), HashedAmount(x)
  PROVE  /\ tx_ins_count' = Wrap(Count(Append(h, x), "in"), CountBits)
         /\ ~strayed' => tx_outs_current_index' = Wrap(Count(Append(h, x), "out"), CountBits)
         /\ tx_ins_amount' = Wrap(Ins(Append(h, x)), AmountBits)
         /\ tx_outs_amount' = Wrap(Outs(Append(h, x)), AmountBits)
         /\ tx_total_amount' = Wrap(Paid(Append(h, x)), AmountBits)
         /\ \A i \in DOMAIN Append(h, x) : HashedAmount(Append(h, x)[i])
<1>0. CountBits \in Nat /\ AmountBits \in Nat
  OBVIOUS
<1>1. \A n, a \in Nat, bits \in {CountBits, AmountBits} :
        Wrap(Wrap(n, bits) + a, bits) = Wrap(n + a, bits)
  <2> SUFFICES ASSUME NEW n \in Nat, NEW a \in Nat, NEW bits \in {CountBits, AmountBits}
               PROVE  Wrap(Wrap(n, bits) + a, bits) = Wrap(n + a, bits)
    OBVIOUS
  <2>1. bits \in Nat
    BY <1>0
  <2> QED BY <2>1, CountedWraps
<1>2. /\ Ins(h) \in Nat /\ Outs(h) \in Nat /\ Paid(h) \in Nat
      /\ InOf(x) \in Nat /\ OutOf(x) \in Nat /\ PayOf(x) \in Nat
      /\ \A kind : Count(h, kind) \in Nat /\ OneOf(x, kind) \in Nat
  <2>1. x.amount \in Nat
    BY ItemAmounts
  <2>2. InOf(x) \in Nat /\ OutOf(x) \in Nat /\ PayOf(x) \in Nat
    BY <2>1 DEF InOf, OutOf, PayOf
  <2>3. \A kind : OneOf(x, kind) \in Nat
    BY DEF OneOf
  <2>4. \A kind : Count(h, kind) \in Nat
    BY OneMoreCounted
  <2> QED BY <2>2, <2>3, <2>4, SumsTyped
<1>3. /\ Ins(Append(h, x)) = Ins(h) + InOf(x)
      /\ Outs(Append(h, x)) = Outs(h) + OutOf(x)
      /\ Paid(Append(h, x)) = Paid(h) + PayOf(x)
      /\ \A kind : Count(Append(h, x), kind) = Count(h, kind) + OneOf(x, kind)
  <2>1. \A kind : Count(Append(h, x), kind) = Count(h, kind) + OneOf(x, kind)
    BY OneMoreCounted DEF OneOf
  <2> QED BY <2>1, OneMoreItem DEF InOf, OutOf, PayOf
<1>4. tx_ins_count' = Wrap(Count(Append(h, x), "in"), CountBits)
  <2>1. tx_ins_count' = Wrap(Wrap(Count(h, "in"), CountBits) + OneOf(x, "in"), CountBits)
    BY DEF CountedFor, CountsItem
  <2>2. Wrap(Wrap(Count(h, "in"), CountBits) + OneOf(x, "in"), CountBits)
        = Wrap(Count(h, "in") + OneOf(x, "in"), CountBits)
    BY ONLY <1>1, <1>2
  <2> QED BY <1>3, <2>1, <2>2
<1>5. ~strayed' => tx_outs_current_index' = Wrap(Count(Append(h, x), "out"), CountBits)
  <2> SUFFICES ASSUME ~strayed'
               PROVE  tx_outs_current_index' = Wrap(Count(Append(h, x), "out"), CountBits)
    OBVIOUS
  <2>1. tx_outs_current_index = Wrap(Count(h, "out"), CountBits)
    BY DEF CountedFor, CountsItem
  <2>2. tx_outs_current_index' = Wrap(Wrap(Count(h, "out"), CountBits) + OneOf(x, "out"), CountBits)
    BY <2>1 DEF CountsItem
  <2>3. Wrap(Wrap(Count(h, "out"), CountBits) + OneOf(x, "out"), CountBits)
        = Wrap(Count(h, "out") + OneOf(x, "out"), CountBits)
    BY ONLY <1>1, <1>2
  <2> QED BY <1>3, <2>2, <2>3
<1>6. /\ tx_ins_amount' = Wrap(Ins(Append(h, x)), AmountBits)
      /\ tx_outs_amount' = Wrap(Outs(Append(h, x)), AmountBits)
      /\ tx_total_amount' = Wrap(Paid(Append(h, x)), AmountBits)
  <2>1. /\ tx_ins_amount' = Wrap(Wrap(Ins(h), AmountBits) + InOf(x), AmountBits)
        /\ tx_outs_amount' = Wrap(Wrap(Outs(h), AmountBits) + OutOf(x), AmountBits)
        /\ tx_total_amount' = Wrap(Wrap(Paid(h), AmountBits) + PayOf(x), AmountBits)
    BY DEF CountedFor, CountsItem
  <2>2. /\ Wrap(Wrap(Ins(h), AmountBits) + InOf(x), AmountBits) = Wrap(Ins(h) + InOf(x), AmountBits)
        /\ Wrap(Wrap(Outs(h), AmountBits) + OutOf(x), AmountBits) = Wrap(Outs(h) + OutOf(x), AmountBits)
        /\ Wrap(Wrap(Paid(h), AmountBits) + PayOf(x), AmountBits) = Wrap(Paid(h) + PayOf(x), AmountBits)
    BY ONLY <1>1, <1>2
  <2> QED BY <1>3, <2>1, <2>2
<1>7. \A i \in DOMAIN Append(h, x) : HashedAmount(Append(h, x)[i])
  <2>1. /\ DOMAIN Append(h, x) = 1 .. Len(h) + 1 /\ DOMAIN h = 1 .. Len(h) /\ Len(h) \in Nat
        /\ Append(h, x)[Len(h) + 1] = x /\ \A i \in DOMAIN h : Append(h, x)[i] = h[i]
    OBVIOUS
  <2>2. \A i \in DOMAIN h : HashedAmount(h[i])
    BY DEF CountedFor
  <2>3. \A i \in DOMAIN Append(h, x) : i \in DOMAIN h \/ i = Len(h) + 1
    BY <2>1
  <2> QED BY <2>1, <2>2, <2>3, Zenon
<1> QED BY <1>4, <1>5, <1>6, <1>7

LEMMA AbsorbedIsCounted ==
  ASSUME TypeOK, CountsWhatIsHashed, NEW x \in Items, HashedAmount(x), Absorb(x),
         HoldsPrefix(keccakH) => CountsItem(x)
  PROVE  CountsWhatIsHashed'
<1>1. CASE ~HoldsPrefix(keccakH)
  <2>1. keccakH' = << Other >>
    BY <1>1 DEF Absorb
  <2> QED BY <2>1, HoldsNone DEF CountsWhatIsHashed
<1>2. CASE HoldsPrefix(keccakH)
  <2>1. keccakH' = Append(keccakH, x) /\ keccakH \in Seq(Items)
    BY <1>2, TypeParts DEF Absorb, HashType
  <2>2. CountedFor(keccakH)
    BY <1>2, CountedIsCountedFor
  <2>3. CountedFor(keccakH)'
    BY <1>2, <2>1, <2>2, CountedOneMore DEF CountedFor
  <2> QED BY <2>3, CountedIsCountedFor
<1> QED BY <1>1, <1>2

\* What fits keeps its value when nothing is added.
LEMMA NothingAdded ==
  ASSUME TypeOK
  PROVE  /\ tx_ins_count = Wrap(tx_ins_count + 0, CountBits)
         /\ tx_outs_current_index = Wrap(tx_outs_current_index + 0, CountBits)
         /\ tx_ins_amount = Wrap(tx_ins_amount + 0, AmountBits)
         /\ tx_outs_amount = Wrap(tx_outs_amount + 0, AmountBits)
         /\ tx_total_amount = Wrap(tx_total_amount + 0, AmountBits)
<1>1. \A bits \in {CountBits, AmountBits} : \A n \in Fits(bits) : n = Wrap(n + 0, bits)
  <2>1. \A bits \in {CountBits, AmountBits} : \A n \in Fits(bits) : n + 0 = n
    BY ZeroFits DEF Fits
  <2> QED BY <2>1, FitsUnwrapped
<1> QED BY <1>1, TypeParts DEF CountType, AmountType, Amount

\* Nothing that is no input and no output is counted.
LEMMA UncountedItem ==
  ASSUME TypeOK, NEW x \in {Start, Extra, Other}, UNCHANGED sumVars
  PROVE  CountsItem(x)
<1>1. /\ InOf(x) = 0 /\ OutOf(x) = 0 /\ PayOf(x) = 0
      /\ OneOf(x, "in") = 0 /\ OneOf(x, "out") = 0
  BY DEF Start, Extra, Other, Item, InOf, OutOf, PayOf, OneOf
<1> QED BY <1>1, NothingAdded DEF CountsItem, sumVars

LEMMA InputIsCounted ==
  ASSUME TypeOK, CountsWhatIsHashed, NEW a \in Amounts, tx_prefix_inputs(a)
  PROVE  CountsWhatIsHashed'
<1> DEFINE x == In(a)
<1>1. /\ x \in Items /\ HashedAmount(x) /\ InOf(x) = a /\ OutOf(x) = 0 /\ PayOf(x) = 0
      /\ OneOf(x, "in") = 1 /\ OneOf(x, "out") = 0
  BY ItemsTyped, ItemIsHashed DEF In, Item, InOf, OutOf, PayOf, OneOf
<1>2. Absorb(x)
  BY DEF tx_prefix_inputs
<1> HIDE DEF x
<1>3. CountsItem(x)
  BY <1>1, NothingAdded DEF tx_prefix_inputs, CountsItem
<1> QED BY <1>1, <1>2, <1>3, AbsorbedIsCounted

LEMMA OutputIsCounted ==
  ASSUME TypeOK, CountsWhatIsHashed, NEW a \in Amounts, NEW to \in Payees \cup {Own},
         tx_prefix_outputs(a, to)
  PROVE  CountsWhatIsHashed'
<1>0. PICK is_change \in BOOLEAN :
        /\ Absorb(Out(a, to, is_change))
        /\ tx_total_amount' =
             IF is_change THEN tx_total_amount ELSE Wrap(tx_total_amount + a, AmountBits)
  BY BitIsTruth DEF tx_prefix_outputs
<1> DEFINE x == Out(a, to, is_change)
<1>1. /\ x \in Items /\ HashedAmount(x) /\ InOf(x) = 0 /\ OutOf(x) = a
      /\ PayOf(x) = (IF is_change THEN 0 ELSE a)
      /\ OneOf(x, "in") = 0 /\ OneOf(x, "out") = 1
  BY ItemsTyped, ItemIsHashed DEF Out, Item, InOf, OutOf, PayOf, OneOf
<1> HIDE DEF x
<1>3. CountsItem(x)
  BY <1>0, <1>1, NothingAdded DEF tx_prefix_outputs, CountsItem
<1> QED BY <1>0, <1>1, <1>3, AbsorbedIsCounted DEF x

\* A prefix that begins is one item, of which nothing is counted.
LEMMA StartIsCounted ==
  ASSUME tx_prefix_start
  PROVE  CountsWhatIsHashed'
<1>1. /\ Append(<< >>, Start) = << Start >> /\ << >> \in Seq(Items) /\ Start \in Items
      /\ Start.kind = "start"
  BY ItemsTyped DEF Start, Item
<1>2. /\ Ins(<< Start >>) = 0 /\ Outs(<< Start >>) = 0 /\ Paid(<< Start >>) = 0
      /\ Count(<< Start >>, "in") = 0 /\ Count(<< Start >>, "out") = 0
  <2> DEFINE none == << >>
  <2>1. none \in Seq(Items) /\ << Start >> = Append(none, Start)
    BY <1>1
  <2>2. Ins(none) = 0 /\ Outs(none) = 0 /\ Paid(none) = 0 /\ \A kind : Count(none, kind) = 0
    BY EmptySums
  <2> HIDE DEF none
  <2>3. /\ Ins(Append(none, Start)) = 0 /\ Outs(Append(none, Start)) = 0
        /\ Paid(Append(none, Start)) = 0
    BY <1>1, <2>1, <2>2, OneMoreItem
  <2>4. Count(Append(none, Start), "in") = 0 /\ Count(Append(none, Start), "out") = 0
    BY <1>1, <2>1, <2>2, OneMoreCounted
  <2> QED BY <2>1, <2>3, <2>4
<1>3. Wrap(0, AmountBits) = 0 /\ Wrap(0, CountBits) = 0
  BY FitsUnwrapped, ZeroFits DEF Amount
<1>4. \A i \in DOMAIN << Start >> : HashedAmount(<< Start >>[i])
  BY ItemIsHashed
<1>5. CountedFor(keccakH)'
  BY <1>2, <1>3, <1>4 DEF tx_prefix_start, CountedFor
<1> QED BY <1>5, CountedIsCountedFor

\* An index of change may write one counter, which is marked.
LEMMA ChangeIsCounted ==
  ASSUME CountsWhatIsHashed, NEW i \in Indexes, NEW change \in BOOLEAN, NEW to \in Payees,
         generate_txout_keys(i, change, to)
  PROVE  CountsWhatIsHashed'
<1>1. UNCHANGED << keccakH, tx_ins_count, tx_ins_amount, tx_outs_amount, tx_total_amount >>
  BY DEF generate_txout_keys
<1>2. UNCHANGED << tx_outs_current_index, strayed >> \/ strayed'
  BY DEF generate_txout_keys, set_change_bit
<1>3. CountedFor(keccakH) => CountedFor(keccakH)'
  BY <1>1, <1>2 DEF CountedFor
<1> QED BY <1>1, <1>3, CountedIsCountedFor

LEMMA StepCounts ==
  ASSUME TypeOK, CountsWhatIsHashed, [Next]_prefixVars
  PROVE  CountsWhatIsHashed'
<1>1. CASE keccakH' = << >> \/ keccakH' = << Other >>
  BY <1>1, HoldsNone DEF CountsWhatIsHashed
<1>2. CASE UNCHANGED << keccakH, sumVars >>
  BY <1>2 DEF CountsWhatIsHashed, sumVars
<1>3. ASSUME NEW x \in {Start, Extra, Other}, Absorb(x), UNCHANGED sumVars
      PROVE  CountsWhatIsHashed'
  BY <1>3, UncountedItem, AbsorbedIsCounted, ItemsTyped, ItemIsHashed
<1>4. CASE \/ open_tx \/ end_tx \/ tx_prefix_extra \/ hash_to_scalar_init \/ hash_to_scalar
           \/ Unlock \/ electroneum_init
  BY <1>1, <1>4 DEF open_tx, end_tx, reset_tx, tx_prefix_extra, hash_to_scalar_init,
                    hash_to_scalar, Unlock, electroneum_init, init_private_key
<1>5. CASE tx_prefix_start
  BY <1>5, StartIsCounted
<1>6. CASE tx_prefix_outputs_size \/ hash_to_scalar_batch
  BY <1>3, <1>6 DEF tx_prefix_outputs_size, hash_to_scalar_batch
<1>7. CASE \/ \E a \in Amounts : tx_prefix_inputs(a)
           \/ \E a \in Amounts, to \in Payees \cup {Own} : tx_prefix_outputs(a, to)
  BY <1>7, InputIsCounted, OutputIsCounted
<1>8. CASE \/ tx_prompt_amount \/ tx_prompt_fee \/ set_signature_mode \/ UNCHANGED prefixVars
           \/ \E to \in Payees \cup {Own} : tx_prefix_outputs_matches(to)
  BY <1>2, <1>8 DEF tx_prompt_amount, tx_prompt_fee, set_signature_mode, prefixVars,
                    tx_prefix_outputs_matches
<1>9. ASSUME NEW accept \in BOOLEAN, validation_action(accept)
      PROVE  CountsWhatIsHashed'
  BY <1>1, <1>2, <1>9 DEF validation_action, reset_tx
<1>10. CASE \E i \in Indexes, change \in BOOLEAN, to \in Payees :
              generate_txout_keys(i, change, to)
  BY <1>10, ChangeIsCounted
<1>11. CASE mlsag_prehash_init \/ mlsag_prehash_update \/ mlsag_prehash_finalize \/ mlsag_hash
  <2>1. Absorb(Other) \/ keccakH' = << >> \/ keccakH' = << Other >>
    BY <1>11 DEF mlsag_prehash_init, mlsag_prehash_update, mlsag_prehash_finalize, mlsag_hash
  <2>2. UNCHANGED sumVars
    BY <1>11 DEF mlsag_prehash_init, mlsag_prehash_update, mlsag_prehash_finalize, mlsag_hash
  <2> QED BY <1>1, <1>3, <2>1, <2>2
<1> QED BY <1>4, <1>5, <1>6, <1>7, <1>8, <1>9, <1>10, <1>11 DEF Next

\* As long as the hash holds a prefix, every counter and every sum is that of exactly the
\* items it absorbed, whatever the commands, their order, the errors and the unlocks: for
\* any number of items, for sums that wrap around, and for the counter of the outputs until
\* an index of change that is behind tx_change_idx writes it.
THEOREM CountedIsHashed == Spec => []CountsWhatIsHashed
<1>1. Init => CountsWhatIsHashed
  BY HoldsNone DEF Init, CountsWhatIsHashed
<1>2. TypeOK /\ CountsWhatIsHashed /\ [Next]_prefixVars => CountsWhatIsHashed'
  BY StepCounts
<1> QED BY TypeCorrect, <1>1, <1>2, PTL DEF Spec

-----------------------------------------------------------------------------
(***************************************************************************)
(* What is shown is what is paid                                           *)
(***************************************************************************)
\* A question is on the screen only while its command waits for the answer, so that no
\* command comes between the question and the answer.
AskedWhileWaiting == shown # Nothing => waiting

LEMMA StepAsked ==
  ASSUME AskedWhileWaiting, [Next]_prefixVars
  PROVE  AskedWhileWaiting'
<1>1. CASE waiting' = TRUE \/ shown' = Nothing
  BY <1>1 DEF AskedWhileWaiting, Nothing
<1>2. CASE UNCHANGED << shown, waiting >>
  BY <1>2 DEF AskedWhileWaiting, Nothing
<1>3. CASE tx_prompt_amount \/ tx_prompt_fee \/ electroneum_init
           \/ \E to \in Payees \cup {Own} : tx_prefix_outputs_matches(to)
           \/ \E accept \in BOOLEAN : validation_action(accept)
  BY <1>1, <1>3 DEF tx_prompt_amount, tx_prompt_fee, Ask, electroneum_init,
                    tx_prefix_outputs_matches, validation_action
<1>4. CASE \/ open_tx \/ end_tx \/ set_signature_mode \/ tx_prefix_start
           \/ tx_prefix_outputs_size \/ tx_prefix_extra \/ hash_to_scalar_init
           \/ hash_to_scalar_batch \/ hash_to_scalar \/ Unlock \/ UNCHANGED prefixVars
           \/ mlsag_prehash_finalize \/ mlsag_hash
           \/ \E a \in Amounts : tx_prefix_inputs(a)
           \/ \E a \in Amounts, to \in Payees \cup {Own} : tx_prefix_outputs(a, to)
           \/ \E i \in Indexes, change \in BOOLEAN, to \in Payees :
                generate_txout_keys(i, change, to)
  BY <1>2, <1>4 DEF open_tx, end_tx, set_signature_mode, tx_prefix_start,
                    tx_prefix_outputs_size, tx_prefix_extra, hash_to_scalar_init,
                    hash_to_scalar_batch, hash_to_scalar, Unlock, prefixVars, tx_prefix_inputs,
                    tx_prefix_outputs, generate_txout_keys, mlsag_prehash_finalize, mlsag_hash
<1>5. CASE mlsag_prehash_init \/ mlsag_prehash_update
  BY <1>1, <1>2, <1>5 DEF mlsag_prehash_init, mlsag_prehash_update, AskOfPrehash, Ask
<1> QED BY <1>3, <1>4, <1>5 DEF Next

\* A sum that fits an amount is what is counted of it, whether or not the others fit.
LEMMA SumsUnwrapped ==
  ASSUME NEW n \in Nat, NEW bits \in Nat, n < 2^bits
  PROVE  Wrap(n, bits) = n
<1>1. n \in Fits(bits)
  BY PowerOfTwo DEF Fits
<1> QED BY <1>1, FitsUnwrapped

LEMMA AmountIsPaid ==
  ASSUME TypeOK, CountsWhatIsHashed, tx_prompt_amount
  PROVE  ShownIsPaid'
<1> DEFINE paid == Paid(keccakH)
           all  == Outs(keccakH)
<1>1. UNCHANGED keccakH
  BY DEF tx_prompt_amount
<1> SUFFICES ASSUME HoldsPrefix(keccakH)
             PROVE  /\ shown'.ask = "amount" /\ paid < 2^AmountBits
                       => shown'.amount = paid /\ paid > 0
                    /\ shown'.ask = "loopback" /\ paid < 2^AmountBits => paid = 0
                    /\ shown'.ask = "loopback" /\ all < 2^AmountBits => shown'.amount = all
                    /\ shown'.ask # "fee"
  BY <1>1 DEF ShownIsPaid
<1>2. /\ tx_outs_amount = Wrap(all, AmountBits)
      /\ tx_total_amount = Wrap(paid, AmountBits)
  BY DEF CountsWhatIsHashed
<1>3. paid \in Nat /\ all \in Nat
  BY SumsTyped, TypeParts DEF HashType
<1> HIDE DEF paid, all
<1>4. /\ paid < 2^AmountBits => tx_total_amount = paid
      /\ all < 2^AmountBits => tx_outs_amount = all
  BY <1>2, <1>3, SumsUnwrapped
<1>5. CASE tx_total_amount > 0
  <2>1. shown' = [ask |-> "amount", amount |-> tx_total_amount, to |-> dest]
    BY <1>5 DEF tx_prompt_amount, Ask
  <2> QED BY <1>4, <1>5, <2>1
<1>6. CASE ~(tx_total_amount > 0)
  <2>1. shown' = [ask |-> "loopback", amount |-> tx_outs_amount, to |-> NoAddress]
    BY <1>6 DEF tx_prompt_amount, Ask
  <2>2. paid < 2^AmountBits => paid = 0
    BY <1>3, <1>4, <1>6
  <2> QED BY <1>4, <2>1, <2>2
<1> QED BY <1>5, <1>6

LEMMA FeeIsPaid ==
  ASSUME TypeOK, CountsWhatIsHashed, tx_prompt_fee
  PROVE  ShownIsPaid'
<1> DEFINE ins == Ins(keccakH)
           all == Outs(keccakH)
           fee == ins - all
           cut == Wrap(Wrap(tx_ins_amount - tx_outs_amount, AmountBits), FeeBits)
<1>1. UNCHANGED keccakH
  BY DEF tx_prompt_fee
<1>2. shown' = [ask |-> "fee", amount |-> cut, to |-> NoAddress]
  BY DEF tx_prompt_fee, Ask
<1> SUFFICES ASSUME HoldsPrefix(keccakH), 0 <= fee, fee < 2^FeeBits
             PROVE  cut = fee
  BY <1>1, <1>2 DEF ShownIsPaid
<1>3. tx_ins_amount = Wrap(ins, AmountBits) /\ tx_outs_amount = Wrap(all, AmountBits)
  BY DEF CountsWhatIsHashed
<1>4. ins \in Nat /\ all \in Nat
  BY SumsTyped, TypeParts DEF HashType
<1> HIDE DEF ins, all
<1>5. fee \in Nat
  BY <1>4
<1>6. Wrap(tx_ins_amount - tx_outs_amount, AmountBits) = Wrap(fee, AmountBits)
  <2> DEFINE m == 2^AmountBits
  <2>1. m \in Nat \ {0}
    BY PowerOfTwo
  <2>2. ((ins % m) - (all % m)) % m = (ins - all) % m
    <3> HIDE DEF m, fee
    <3> QED BY <1>4, <2>1, WrapDifference
  <2> QED BY <1>3, <2>2 DEF Wrap
<1> HIDE DEF fee
<1>7. fee < 2^AmountBits /\ fee < 2^FeeBits
  <2>1. 2^AmountBits \in Nat /\ 2^FeeBits \in Nat /\ 2^FeeBits <= 2^AmountBits
    BY PowerOfTwo
  <2> QED BY <1>5, <2>1
<1>8. Wrap(fee, AmountBits) = fee /\ Wrap(fee, FeeBits) = fee
  BY <1>5, <1>7, SumsUnwrapped
<1> QED BY <1>6, <1>8

\* The questions of INS_VALIDATE are not about a prefix.
LEMMA PrehashShows ==
  ASSUME AskOfPrehash
  PROVE  ShownIsPaid'
BY DEF AskOfPrehash, Ask, ShownIsPaid

LEMMA StepShows ==
  ASSUME TypeOK, CountsWhatIsHashed, AskedWhileWaiting, ShownIsPaid, [Next]_prefixVars
  PROVE  ShownIsPaid'
<1>1. CASE keccakH' = << >> \/ keccakH' = << Other >>
  BY <1>1, HoldsNone DEF ShownIsPaid
<1>2. CASE shown' = Nothing
  BY <1>2 DEF ShownIsPaid, Nothing
<1>3. CASE UNCHANGED << shown, keccakH >>
  BY <1>3 DEF ShownIsPaid
<1>4. CASE ~waiting /\ UNCHANGED shown
  BY <1>2, <1>4 DEF AskedWhileWaiting, Nothing
<1>5. CASE tx_prompt_amount \/ tx_prompt_fee
  BY <1>5, AmountIsPaid, FeeIsPaid
<1>6. CASE Unlock
  BY <1>1, <1>6 DEF Unlock, init_private_key
<1>7. CASE electroneum_init \/ \E accept \in BOOLEAN : validation_action(accept)
  BY <1>2, <1>7 DEF electroneum_init, validation_action
<1>8. CASE UNCHANGED prefixVars
  BY <1>3, <1>8 DEF prefixVars
<1>9. CASE \/ open_tx \/ end_tx \/ set_signature_mode \/ tx_prefix_start
           \/ tx_prefix_outputs_size \/ tx_prefix_extra \/ hash_to_scalar_init
           \/ hash_to_scalar_batch \/ hash_to_scalar \/ mlsag_prehash_finalize \/ mlsag_hash
           \/ \E a \in Amounts : tx_prefix_inputs(a)
           \/ \E a \in Amounts, to \in Payees \cup {Own} : tx_prefix_outputs(a, to)
           \/ \E to \in Payees \cup {Own} : tx_prefix_outputs_matches(to)
           \/ \E i \in Indexes, change \in BOOLEAN, to \in Payees :
                generate_txout_keys(i, change, to)
  BY <1>4, <1>9 DEF InTx, open_tx, end_tx, set_signature_mode, tx_prefix_start,
                    tx_prefix_outputs_size, tx_prefix_extra, hash_to_scalar_init,
                    hash_to_scalar_batch, hash_to_scalar, tx_prefix_inputs, tx_prefix_outputs,
                    tx_prefix_outputs_matches, generate_txout_keys, mlsag_prehash_finalize,
                    mlsag_hash
<1>10. CASE mlsag_prehash_init \/ mlsag_prehash_update
  BY <1>4, <1>10, PrehashShows DEF mlsag_prehash_init, mlsag_prehash_update, InTx
<1> QED BY <1>5, <1>6, <1>7, <1>8, <1>9, <1>10 DEF Next

\* What the user is asked about is all that leaves by the prefix being hashed, while the
\* question is on the screen, whatever INS_VALIDATE and INS_MLSAG hash and ask in between:
\* no amount is shown short, a loopback pays nobody, and the fee is the fee of this prefix,
\* for every width and any number of inputs and outputs, each as long as it fits its field.
THEOREM PaymentShown == Spec => []ShownIsPaid
<1>1. Init => ShownIsPaid /\ AskedWhileWaiting
  BY HoldsNone DEF Init, ShownIsPaid, AskedWhileWaiting
<1>2. /\ TypeOK /\ CountsWhatIsHashed /\ AskedWhileWaiting /\ ShownIsPaid /\ [Next]_prefixVars
      => ShownIsPaid' /\ AskedWhileWaiting'
  BY StepShows, StepAsked
<1> QED BY TypeCorrect, CountedIsHashed, <1>1, <1>2, PTL DEF Spec
=============================================================================
