------------------------ MODULE IoFields_proofs -----------------------------
(***************************************************************************)
(* Proofs about what the handlers read and what they show, for all         *)
(* commands, all amounts and all sizes of an extra field.                  *)
(*                                                                         *)
(* A host sends what the calls of a handler fetch, one field behind the    *)
(* other, so the marks in the buffer lie where the calls read; a call that *)
(* finds none of its bytes throws, and one that finds them leaves the      *)
(* marks behind them where they are.  So a command that ends too soon is   *)
(* refused, and the fields of one that does not are read where the host    *)
(* put them.                                                               *)
(*                                                                         *)
(* An amount is shown without the zeros in front of its digits and those   *)
(* behind the dot, and what is read from this are its digits again.        *)
(***************************************************************************)
EXTENDS IoBuffer_proofs

-----------------------------------------------------------------------------
(***************************************************************************)
(* What a host sends for a command, call by call                           *)
(***************************************************************************)
\* Calls for which a host sends data, and how many bytes.
Sends(c) == c.op \in SentOps \cup {"fetch_decrypt", "fetch_decrypt_key"}

SentSize(c, tx) ==
  CASE c.op \in SentOps -> c.size
    [] c.op \in {"fetch_decrypt", "fetch_decrypt_key"} -> SealedSize(tx)
    [] OTHER -> 0

LEMMA SentField ==
  ASSUME NEW c, c.what \in Names, c.op \in SentOps => c.size \in Octets, NEW tx \in BOOLEAN
  PROVE  /\ SentSize(c, tx) \in Octets /\ SentSize(c, tx) \in Nat
         /\ Sent(c, tx) \in Seq(Bytes) /\ Len(Sent(c, tx)) = SentSize(c, tx)
         /\ \A j \in 1 .. SentSize(c, tx) : Sent(c, tx)[j] = << c.what, j >>
         /\ ~Sends(c) => SentSize(c, tx) = 0
<1>0. \A n \in Octets : n \in Nat
  BY DEF Octets
<1>1. CASE c.op \in SentOps
  <2>1. Sent(c, tx) = Field(c.what, c.size) /\ SentSize(c, tx) = c.size /\ Sends(c)
    BY <1>1 DEF Sent, SentOps, SentSize, Sends
  <2> QED BY <1>0, <1>1, <2>1, FieldType
<1>2. CASE c.op \in {"fetch_decrypt", "fetch_decrypt_key"}
  <2> DEFINE size == SealedSize(tx)
  <2>1. size \in Octets
    BY DEF SealedSize, Octets
  <2>2. Sent(c, tx) = Field(c.what, size) /\ SentSize(c, tx) = size /\ Sends(c)
    BY <1>2 DEF Sent, SentOps, SentSize, Sends
  <2> HIDE DEF size
  <2> QED BY <1>0, <2>1, <2>2, FieldType
<1>3. CASE ~Sends(c)
  <2>1. Sent(c, tx) = << >> /\ SentSize(c, tx) = 0
    BY <1>3 DEF Sent, SentOps, SentSize, Sends
  <2>2. 0 \in Octets /\ << >> \in Seq(Bytes) /\ Len(<< >>) = 0
    BY DEF Octets
  <2> QED BY <1>0, <2>1, <2>2
<1> QED BY <1>1, <1>2, <1>3 DEF Sends

\* Where in the data of a command the bytes of each call end, and what is there.
IsLayout(p, calls, tx, data, k) ==
  /\ p[0] = 0 /\ \A n \in 0 .. k : p[n] \in Nat
  /\ p[k] = Len(data)
  /\ \A n \in 1 .. k : SentSize(calls[n], tx) \in Nat /\ p[n] = p[n - 1] + SentSize(calls[n], tx)
  /\ \A n \in 0 .. k : \A m \in 0 .. n : p[m] <= p[n]
  /\ \A n \in 1 .. k : \A j \in 1 .. SentSize(calls[n], tx) : data[p[n - 1] + j] = << calls[n].what, j >>
  /\ \A n \in 0 .. k : \A q \in 1 .. p[n] : \E i \in 1 .. n : Sends(calls[i]) /\ data[q][1] = calls[i].what

\* The data of one more call.
LEMMA OneMoreField ==
  ASSUME NEW calls, NEW k \in Nat, NEW tx \in BOOLEAN, NEW p, NEW data \in Seq(Bytes),
         IsLayout(p, calls, tx, data, k),
         calls[k + 1].what \in Names, calls[k + 1].op \in SentOps => calls[k + 1].size \in Octets
  PROVE  \E r : IsLayout(r, calls, tx, data \o Sent(calls[k + 1], tx), k + 1)
<1> DEFINE c == calls[k + 1]
           field == Sent(c, tx)
           size == SentSize(c, tx)
           more == data \o field
           r == [n \in 0 .. k + 1 |-> IF n = k + 1 THEN p[k] + size ELSE p[n]]
<1>1. /\ size \in Nat /\ field \in Seq(Bytes) /\ Len(field) = size
      /\ \A j \in 1 .. size : field[j] = << c.what, j >>
      /\ ~Sends(c) => size = 0
  BY SentField
<1>2. /\ p[0] = 0 /\ p[k] = Len(data) /\ p[k] \in Nat
      /\ \A n \in 0 .. k : p[n] \in Nat
      /\ \A n \in 1 .. k : SentSize(calls[n], tx) \in Nat /\ p[n] = p[n - 1] + SentSize(calls[n], tx)
      /\ \A n \in 0 .. k : \A m \in 0 .. n : p[m] <= p[n]
  BY DEF IsLayout
<1>3. \A n \in 1 .. k : \A j \in 1 .. SentSize(calls[n], tx) : data[p[n - 1] + j] = << calls[n].what, j >>
  BY DEF IsLayout
<1>4. \A n \in 0 .. k : \A q \in 1 .. p[n] : \E i \in 1 .. n : Sends(calls[i]) /\ data[q][1] = calls[i].what
  BY DEF IsLayout
<1>5. r[k + 1] = p[k] + size /\ \A n \in 0 .. k : r[n] = p[n]
  OBVIOUS
<1>6. /\ more \in Seq(Bytes) /\ Len(more) = Len(data) + Len(field)
      /\ \A q \in 1 .. Len(data) : more[q] = data[q]
      /\ \A j \in 1 .. Len(field) : more[Len(data) + j] = field[j]
  <2>1. field \in Seq(Bytes)
    BY <1>1
  <2> HIDE DEF field
  <2> QED BY <2>1
<1>7. c = calls[k + 1] /\ size = SentSize(c, tx)
  OBVIOUS
<1> HIDE DEF r, more, field, size, c
<1>8. \A n \in 0 .. k + 1 : n \in 0 .. k \/ n = k + 1
  OBVIOUS
<1>9. /\ r[0] = 0 /\ \A n \in 0 .. k + 1 : r[n] \in Nat
      /\ r[k + 1] = Len(more)
  <2>1. 0 \in 0 .. k /\ p[k] + size \in Nat
    BY <1>1, <1>2
  <2>2. \A n \in 0 .. k + 1 : r[n] \in Nat
    BY <1>2, <1>5, <1>8, <2>1
  <2>3. r[0] = 0
    BY <1>2, <1>5, <2>1
  <2>4. r[k + 1] = Len(more)
    BY <1>1, <1>2, <1>5, <1>6
  <2> QED BY <2>2, <2>3, <2>4
<1>10. \A n \in 1 .. k + 1 : SentSize(calls[n], tx) \in Nat /\ r[n] = r[n - 1] + SentSize(calls[n], tx)
  <2> SUFFICES ASSUME NEW n \in 1 .. k + 1
               PROVE  SentSize(calls[n], tx) \in Nat /\ r[n] = r[n - 1] + SentSize(calls[n], tx)
    OBVIOUS
  <2>1. n - 1 \in 0 .. k
    OBVIOUS
  <2>2. CASE n \in 1 .. k
    <3>1. n \in 0 .. k
      BY <2>2
    <3> QED BY <1>2, <1>5, <2>1, <2>2, <3>1
  <2>3. CASE n = k + 1
    <3>1. n - 1 = k
      BY <2>3
    <3> QED BY <1>1, <1>5, <1>7, <2>1, <2>3, <3>1
  <2>4. n \in 1 .. k \/ n = k + 1
    OBVIOUS
  <2> QED BY <2>2, <2>3, <2>4
<1>11. \A n \in 0 .. k + 1 : \A m \in 0 .. n : r[m] <= r[n]
  <2> SUFFICES ASSUME NEW n \in 0 .. k + 1, NEW m \in 0 .. n PROVE r[m] <= r[n]
    OBVIOUS
  <2>1. CASE n \in 0 .. k
    <3>1. m \in 0 .. k
      BY <2>1
    <3> QED BY <1>2, <1>5, <2>1, <3>1
  <2>2. CASE n = k + 1 /\ m \in 0 .. k
    <3>1. p[m] <= p[k] /\ p[m] \in Nat
      BY <1>2, <2>2
    <3> QED BY <1>1, <1>2, <1>5, <2>2, <3>1
  <2>3. CASE n = k + 1 /\ m = k + 1
    BY <1>9, <2>3
  <2> QED BY <1>8, <2>1, <2>2, <2>3
<1>12. \A n \in 1 .. k + 1 : \A j \in 1 .. SentSize(calls[n], tx) : more[r[n - 1] + j] = << calls[n].what, j >>
  <2> SUFFICES ASSUME NEW n \in 1 .. k + 1, NEW j \in 1 .. SentSize(calls[n], tx)
               PROVE  more[r[n - 1] + j] = << calls[n].what, j >>
    OBVIOUS
  <2>1. CASE n \in 1 .. k
    <3>1. n - 1 \in 0 .. k /\ n \in 0 .. k /\ k \in 0 .. k
      BY <2>1
    <3>2. p[n - 1] \in Nat /\ p[n] \in Nat /\ p[n] = p[n - 1] + SentSize(calls[n], tx) /\ p[n] <= p[k]
      BY <1>2, <2>1, <3>1
    <3>3. p[n - 1] + j \in 1 .. Len(data)
      <4> DEFINE z == SentSize(calls[n], tx)
      <4>1. z \in Nat /\ p[n] = p[n - 1] + z /\ j \in 1 .. z
        BY <1>2, <2>1
      <4> HIDE DEF z
      <4> QED BY <1>2, <3>2, <4>1
    <3>4. more[p[n - 1] + j] = data[p[n - 1] + j]
      BY <1>6, <3>3
    <3> QED BY <1>3, <1>5, <2>1, <3>1, <3>4
  <2>2. CASE n = k + 1
    <3>1. n - 1 = k /\ j \in 1 .. Len(field)
      BY <1>1, <1>7, <2>2
    <3>2. more[p[k] + j] = field[j] /\ r[n - 1] = p[k]
      BY <1>2, <1>5, <1>6, <3>1
    <3> QED BY <1>1, <1>7, <2>2, <3>1, <3>2
  <2> QED BY <2>1, <2>2
<1>13. \A n \in 0 .. k + 1 : \A q \in 1 .. r[n] : \E i \in 1 .. n : Sends(calls[i]) /\ more[q][1] = calls[i].what
  <2> SUFFICES ASSUME NEW n \in 0 .. k + 1, NEW q \in 1 .. r[n]
               PROVE  \E i \in 1 .. n : Sends(calls[i]) /\ more[q][1] = calls[i].what
    OBVIOUS
  <2>1. ASSUME NEW m \in 0 .. k, q \in 1 .. p[m]
        PROVE  \E i \in 1 .. m : Sends(calls[i]) /\ more[q][1] = calls[i].what
    <3>1. p[m] <= p[k] /\ p[m] \in Nat
      BY <1>2
    <3>2. q \in 1 .. Len(data)
      BY <1>2, <2>1, <3>1
    <3>3. more[q] = data[q]
      BY <1>6, <3>2
    <3> QED BY <1>4, <2>1, <3>3
  <2>2. CASE n \in 0 .. k
    BY <1>5, <2>1, <2>2
  <2>3. CASE n = k + 1 /\ q <= p[k]
    <3>1. k \in 0 .. k /\ q \in 1 .. p[k]
      BY <1>2, <2>3
    <3>2. PICK i \in 1 .. k : Sends(calls[i]) /\ more[q][1] = calls[i].what
      BY <2>1, <3>1
    <3>3. i \in 1 .. n
      BY <2>3
    <3> QED BY <3>2, <3>3
  <2>4. CASE n = k + 1 /\ ~(q <= p[k])
    <3>1. q - p[k] \in 1 .. size /\ Len(data) + (q - p[k]) = q
      BY <1>1, <1>2, <1>5, <2>4
    <3>2. more[q] = << c.what, q - p[k] >>
      <4>1. more[Len(data) + (q - p[k])] = field[q - p[k]]
        BY <1>1, <1>6, <3>1
      <4> QED BY <1>1, <3>1, <4>1
    <3>3. Sends(c) /\ more[q][1] = c.what
      BY <1>1, <3>1, <3>2
    <3>4. k + 1 \in 1 .. n
      BY <2>4
    <3> QED BY <1>7, <3>3, <3>4
  <2> QED BY <1>8, <2>2, <2>3, <2>4
<1>14. IsLayout(r, calls, tx, more, k + 1)
  BY <1>9, <1>10, <1>11, <1>12, <1>13 DEF IsLayout
<1> QED BY <1>14 DEF more, field, c

LEMMA NoFields ==
  ASSUME NEW calls, NEW tx
  PROVE  IsLayout([n \in 0 .. 0 |-> 0], calls, tx, << >>, 0)
<1> DEFINE p == [n \in 0 .. 0 |-> 0]
<1>1. p[0] = 0 /\ Len(<< >>) = 0 /\ \A n \in 0 .. 0 : n = 0 /\ p[n] = 0
  OBVIOUS
<1> HIDE DEF p
<1>2. \A n \in 1 .. 0 : FALSE
  OBVIOUS
<1>3. \A n \in 0 .. 0 : \A q \in 1 .. p[n] : FALSE
  BY <1>1
<1>4. \A n \in 0 .. 0 : p[n] \in Nat /\ \A m \in 0 .. n : p[m] <= p[n]
  BY <1>1
<1>5. IsLayout(p, calls, tx, << >>, 0)
  BY <1>1, <1>2, <1>3, <1>4 DEF IsLayout
<1> QED BY <1>5 DEF p

LEMMA LayoutExists ==
  ASSUME NEW c \in Commands, NEW tx \in BOOLEAN
  PROVE  \E p : IsLayout(p, c.calls, tx, Data(c.calls, tx), Len(c.calls))
<1> DEFINE calls == c.calls
           k == Len(calls)
<1>1. /\ k \in Nat \ {0} /\ DOMAIN calls = 1 .. k
      /\ \A i \in 1 .. k : calls[i].op \in SentOps => calls[i].size \in Octets
      /\ \A i \in 1 .. k : calls[i].what \in Names
  BY SentCalls, NamesOfCalls
<1>2. PICK f : /\ Data(calls, tx) = f[k] /\ f[1] = Sent(calls[1], tx)
               /\ \A i \in 2 .. k : f[i] = f[i - 1] \o Sent(calls[i], tx)
  BY <1>1, DataParts
<1> HIDE DEF k, calls
<1> DEFINE Laid(n) == f[n] \in Seq(Bytes) /\ \E p : IsLayout(p, calls, tx, f[n], n)
           S == {n \in Nat : Laid(n + 1)}
<1>3. \A i \in 1 .. k : Sent(calls[i], tx) \in Seq(Bytes)
  BY <1>1, SentField
<1>4. 0 \in S
  <2>1. 1 \in 1 .. k /\ 0 + 1 = 1
    BY <1>1
  <2>2. << >> \in Seq(Bytes) /\ \E p : IsLayout(p, calls, tx, << >>, 0)
    BY NoFields
  <2>3. \E r : IsLayout(r, calls, tx, << >> \o Sent(calls[0 + 1], tx), 0 + 1)
    <3>1. calls[0 + 1].what \in Names /\ (calls[0 + 1].op \in SentOps => calls[0 + 1].size \in Octets)
      BY <1>1, <2>1
    <3> QED BY <2>2, <3>1, OneMoreField
  <2>4. << >> \o Sent(calls[0 + 1], tx) = f[1] /\ f[1] \in Seq(Bytes)
    BY <1>2, <1>3, <2>1
  <2>5. Laid(0 + 1)
    BY <2>1, <2>3, <2>4
  <2> HIDE DEF Laid
  <2> QED BY <2>5
<1>5. \A n \in 0 .. (k - 1) - 1 : n \in S => n + 1 \in S
  <2> SUFFICES ASSUME NEW n \in 0 .. (k - 1) - 1, Laid(n + 1) PROVE Laid((n + 1) + 1)
    BY SMT
  <2> DEFINE m == n + 1
  <2>1. m \in Nat /\ m + 1 \in 1 .. k /\ m + 1 \in 2 .. k /\ (m + 1) - 1 = m /\ (n + 1) + 1 = m + 1
    BY <1>1
  <2> HIDE DEF m
  <2>2. f[m] \in Seq(Bytes) /\ \E p : IsLayout(p, calls, tx, f[m], m)
    BY DEF m
  <2>3. f[m + 1] = f[m] \o Sent(calls[m + 1], tx)
    BY <1>2, <2>1
  <2>4. f[m + 1] \in Seq(Bytes)
    BY <1>3, <2>1, <2>2, <2>3
  <2>5. \E r : IsLayout(r, calls, tx, f[m] \o Sent(calls[m + 1], tx), m + 1)
    <3>1. calls[m + 1].what \in Names /\ (calls[m + 1].op \in SentOps => calls[m + 1].size \in Octets)
      BY <1>1, <2>1
    <3> QED BY <2>1, <2>2, <3>1, OneMoreField
  <2> QED BY <2>1, <2>3, <2>4, <2>5
<1>6. k - 1 \in Nat /\ (k - 1) + 1 = k
  BY <1>1
<1> HIDE DEF S
<1>7. 0 .. k - 1 \subseteq S
  BY <1>4, <1>5, <1>6, InductionUpTo
<1>8. k - 1 \in S
  BY <1>6, <1>7
<1>9. Laid(k)
  BY <1>6, <1>8 DEF S
<1> QED BY <1>2, <1>9 DEF k, calls

-----------------------------------------------------------------------------
(***************************************************************************)
(* Commands that end too soon                                              *)
(***************************************************************************)
IsKey(c) == c.op = "fetch_decrypt_key"

\* Bytes that are there and are not fetched.
IsRest(c) == c.op \in {"peek", "rest"}

\* The calls before d read.
ReadsTo(calls, d) ==
  /\ Len(calls) \in Nat /\ DOMAIN calls = 1 .. Len(calls) /\ d \in 1 .. Len(calls) + 1
  /\ \A i \in 1 .. Len(calls) : i < d => Reader(calls[i])

\* Nothing that a handler finds is changed by them.
LEMMA ReadsToRun ==
  ASSUME NEW s, Typed(s), NEW calls, NEW d, ReadsTo(calls, d), NEW r, r = Runs(s, calls)
  PROVE  \A n \in 0 .. d - 1 : Typed(r[n]) /\ Kept(s, r[n])
<1> DEFINE k == Len(calls)
<1>1. k \in Nat /\ d \in 1 .. k + 1 /\ \A i \in 1 .. k : i < d => Reader(calls[i])
  BY DEF ReadsTo
<1>2. r[0] = s /\ \A n \in 1 .. k : r[n] = Do(r[n - 1], calls[n])
  BY <1>1, RunsDef
<1> HIDE DEF k
<1> DEFINE S == {n \in Nat : Typed(r[n]) /\ Kept(s, r[n])}
<1>3. 0 \in S
  <2>1. DOMAIN s = Fields
    BY DEF Typed
  <2> QED BY <1>2, <2>1 DEF Kept
<1>4. \A n \in 0 .. (d - 1) - 1 : n \in S => n + 1 \in S
  <2> SUFFICES ASSUME NEW n \in 0 .. (d - 1) - 1, n \in S PROVE n + 1 \in S
    OBVIOUS
  <2>1. n + 1 \in 1 .. k /\ n + 1 < d /\ n + 1 \in Nat /\ (n + 1) - 1 = n
    BY <1>1
  <2>2. r[n + 1] = Do(r[n], calls[n + 1]) /\ Reader(calls[n + 1])
    BY <1>1, <1>2, <2>1
  <2>3. Typed(r[n]) /\ Kept(s, r[n])
    OBVIOUS
  <2>4. Kept(r[n], r[n + 1]) /\ Typed(r[n + 1])
    BY <2>2, <2>3, ReaderDo
  <2>5. Kept(s, r[n + 1])
    BY <2>3, <2>4 DEF Kept
  <2> QED BY <2>1, <2>4, <2>5
<1> HIDE DEF S
<1>5. d - 1 \in Nat
  BY <1>1
<1>6. 0 .. d - 1 \subseteq S
  BY <1>3, <1>4, <1>5, InductionUpTo
<1> QED BY <1>6 DEF S

\* A handler that has failed goes on failing.
LEMMA ErrorRun ==
  ASSUME NEW s, NEW calls, Len(calls) \in Nat, NEW r, r = Runs(s, calls),
         NEW m \in 0 .. Len(calls), r[m].error # "none"
  PROVE  \A n \in m .. Len(calls) : r[n] = r[m]
<1> DEFINE k == Len(calls)
           S == {n \in Nat : r[m + n] = r[m]}
<1>1. r[0] = s /\ \A n \in 1 .. k : r[n] = Do(r[n - 1], calls[n])
  BY RunsDef
<1>2. k \in Nat /\ m \in 0 .. k
  OBVIOUS
<1> HIDE DEF k
<1>3. 0 \in S
  <2>1. m + 0 = m
    BY <1>2
  <2> QED BY <2>1
<1>4. \A n \in 0 .. (k - m) - 1 : n \in S => n + 1 \in S
  <2> SUFFICES ASSUME NEW n \in 0 .. (k - m) - 1, n \in S PROVE n + 1 \in S
    OBVIOUS
  <2>1. m + (n + 1) \in 1 .. k /\ (m + (n + 1)) - 1 = m + n /\ n + 1 \in Nat
    BY <1>2
  <2>2. r[m + (n + 1)] = Do(r[m + n], calls[m + (n + 1)]) /\ r[m + n] = r[m]
    BY <1>1, <2>1
  <2>3. r[m + (n + 1)] = r[m]
    BY <2>2, ErrorStays
  <2> QED BY <2>1, <2>3
<1> HIDE DEF S
<1>5. k - m \in Nat
  BY <1>2
<1>6. 0 .. k - m \subseteq S
  BY <1>3, <1>4, <1>5, InductionUpTo
<1>7. ASSUME NEW n \in m .. k PROVE r[n] = r[m]
  <2>1. n - m \in 0 .. k - m /\ m + (n - m) = n
    BY <1>2
  <2>2. n - m \in S
    BY <1>6, <2>1
  <2> QED BY <2>1, <2>2 DEF S
<1> QED BY <1>7 DEF k

\* A call that takes what is sent for it finds so many bytes.
LEMMA SendsDo ==
  ASSUME NEW s, Typed(s), s.error = "none", NEW c, Reader(c), NEW t, t = Do(s, c), t.error = "none"
  PROVE  /\ Sends(c) /\ ~IsRest(c) =>
              /\ s.offset + SentSize(c, s.tx) <= s.length
              /\ \/ t.offset = s.offset + SentSize(c, s.tx)
                 \/ s.tx /\ s.keys = "spend" /\ IsKey(c)
         /\ ~Sends(c) \/ IsRest(c) => t.offset = s.offset
<1>1. /\ DOMAIN s = Fields /\ s.offset \in Nat /\ s.length \in Nat /\ s.tx \in BOOLEAN
  BY DEF Typed
<1>2. c.op \in ReadOps /\ (c.op # "skip" => c.size \in Nat)
  BY DEF Reader, Octets
<1>3. SealedSize(s.tx) \in Nat /\ SealedSize(s.tx) \in 0 .. SealedSize(s.tx) /\ 32 \in 0 .. SealedSize(s.tx)
      /\ (~s.tx => SealedSize(s.tx) = 32)
  BY <1>1 DEF SealedSize
<1>4. ASSUME t = fetch_decrypt(s, c.what)
      PROVE  t.offset = s.offset + SealedSize(s.tx) /\ s.offset + SealedSize(s.tx) <= s.length
  <2>1. CASE s.tx /\ Available(s, 64) /\ ~Holds(s, s.offset, c.what, 64)
    <3>1. t = Fails(s, "SW_SECURITY_TRUSTED_INPUT")
      BY <1>4, <2>1 DEF fetch_decrypt
    <3>2. "SW_SECURITY_TRUSTED_INPUT" \in Errors
      BY DEF Errors
    <3> QED BY <3>1, <3>2, FailsState
  <2>2. CASE ~(s.tx /\ Available(s, 64) /\ ~Holds(s, s.offset, c.what, 64))
    <3>1. t = Take(s, c.what, 32, SealedSize(s.tx), SealedSize(s.tx))
      BY <1>4, <2>2, Zenon DEF fetch_decrypt
    <3> QED BY <1>3, <3>1, TakeState
  <2> QED BY <2>1, <2>2
<1>5. CASE c.op = "fetch"
  <2>1. t = Take(s, c.what, c.size, c.size, c.size) /\ c.size \in 0 .. c.size
    BY <1>2, <1>5 DEF Do, fetch
  <2>2. t.offset = s.offset + c.size /\ s.offset + c.size <= s.length
    BY <1>2, <2>1, TakeState
  <2>3. SentSize(c, s.tx) = c.size /\ Sends(c) /\ ~IsRest(c)
    BY <1>5 DEF SentSize, SentOps, Sends, IsRest
  <2> QED BY <2>2, <2>3
<1>6. CASE c.op = "point"
  <2>1. CASE Available(s, c.size)
    <3> DEFINE at == [x \in DOMAIN s.at \cup {c.what} |-> IF x = c.what THEN s.offset ELSE s.at[x]]
    <3>1. t = [[s EXCEPT !.at = at] EXCEPT !.offset = @ + c.size]
      BY <1>6, <2>1, SMT DEF Do, Points
    <3> HIDE DEF at
    <3>2. t.offset = s.offset + c.size
      BY <1>1, <3>1, SMT DEF Fields
    <3>3. s.offset + c.size <= s.length
      BY <1>1, <1>2, <1>6, <2>1 DEF Available
    <3>4. SentSize(c, s.tx) = c.size /\ Sends(c) /\ ~IsRest(c)
      BY <1>6 DEF SentSize, SentOps, Sends, IsRest
    <3> QED BY <3>2, <3>3, <3>4
  <2>2. CASE ~Available(s, c.size)
    <3>1. t = Fails(s, "SW_WRONG_LENGTH")
      BY <1>6, <2>2 DEF Do
    <3>2. "SW_WRONG_LENGTH" \in Errors
      BY DEF Errors
    <3> QED BY <3>1, <3>2, FailsState
  <2> QED BY <2>1, <2>2
<1>7. CASE c.op = "peek"
  <2> DEFINE at == [x \in DOMAIN s.at \cup {c.what} |-> IF x = c.what THEN s.offset ELSE s.at[x]]
  <2>1. t = [s EXCEPT !.at = at]
    BY <1>7, SMT DEF Do, Points
  <2> HIDE DEF at
  <2>2. t.offset = s.offset
    BY <1>1, <2>1, SMT DEF Fields
  <2> QED BY <1>7, <2>2 DEF IsRest
<1>8. CASE c.op = "use"
  <2>1. t = Read(s, s.at[c.what], c.what, c.size)
    BY <1>8 DEF Do
  <2>2. t.offset = s.offset
    BY <2>1, ReadState
  <2> QED BY <1>8, <2>2 DEF Sends, SentOps
<1>9. CASE c.op = "fetch_decrypt"
  <2>1. t = fetch_decrypt(s, c.what)
    BY <1>9 DEF Do
  <2>2. SentSize(c, s.tx) = SealedSize(s.tx) /\ Sends(c) /\ ~IsRest(c)
    BY <1>9 DEF SentSize, SentOps, Sends, IsRest
  <2> QED BY <1>4, <2>1, <2>2
<1>10. CASE c.op = "fetch_decrypt_key"
  <2>1. t = fetch_decrypt_key(s, c.what)
    BY <1>10 DEF Do
  <2>2. SentSize(c, s.tx) = SealedSize(s.tx) /\ Sends(c) /\ ~IsRest(c) /\ IsKey(c)
    BY <1>10 DEF SentSize, SentOps, Sends, IsRest, IsKey
  <2>3. CASE s.keys = "spend" /\ Holds(s, s.offset, c.what, 32)
    <3>1. t = Take(s, c.what, 32, SealedSize(s.tx), 32)
      BY <2>1, <2>3, Zenon DEF fetch_decrypt_key
    <3>2. t.offset = s.offset + 32 /\ s.offset + SealedSize(s.tx) <= s.length
      BY <1>3, <3>1, TakeState
    <3> QED BY <1>1, <1>3, <2>2, <2>3, <3>2
  <2>4. CASE ~(s.keys = "spend" /\ Holds(s, s.offset, c.what, 32))
    <3>1. t = fetch_decrypt(s, c.what)
      BY <2>1, <2>4, Zenon DEF fetch_decrypt_key
    <3> QED BY <1>4, <2>2, <3>1
  <2> QED BY <2>3, <2>4
<1>11. CASE c.op = "rest"
  <2>1. t = s
    BY <1>11 DEF Do
  <2> QED BY <1>11, <2>1 DEF IsRest
<1>12. CASE c.op = "exactly"
  <2>1. t = s \/ t = Fails(s, "SW_WRONG_LENGTH")
    BY <1>12 DEF Do
  <2>2. "SW_WRONG_LENGTH" \in Errors
    BY DEF Errors
  <2>3. t = s
    BY <2>1, <2>2, FailsState
  <2> QED BY <1>12, <2>3 DEF Sends, SentOps
<1>13. CASE c.op = "amount2str"
  <2> DEFINE text == amount2str(c.amount, c.size)
  <2>1. t = [s EXCEPT !.shown = @ \cup {<< c.amount, text >>}]
    BY <1>13, Zenon DEF Do
  <2> HIDE DEF text
  <2>2. t.offset = s.offset
    BY <1>1, <2>1, SMT DEF Fields
  <2> QED BY <1>13, <2>2 DEF Sends, SentOps
<1>14. CASE c.op = "skip"
  <2>1. t = s \/ t = Fails(s, "SW_WRONG_LENGTH")
    BY <1>14, Zenon DEF Do, skip
  <2>2. "SW_WRONG_LENGTH" \in Errors
    BY DEF Errors
  <2>3. t = s
    BY <2>1, <2>2, FailsState
  <2> QED BY <1>14, <2>3 DEF Sends, SentOps
<1> QED BY <1>2, <1>5, <1>6, <1>7, <1>8, <1>9, <1>10, <1>11, <1>12, <1>13, <1>14 DEF ReadOps

\* A command in which nothing is sent behind a key; and one whose bytes are all fetched.
KeyLast(calls) == \A i, j \in 1 .. Len(calls) : IsKey(calls[i]) /\ i < j => ~Sends(calls[j])
AllFetched(calls) == \A i \in 1 .. Len(calls) : ~IsRest(calls[i])

\* What is sent is sent before the call d.
SentBefore(calls, d) == \A i \in 1 .. Len(calls) : i >= d => ~Sends(calls[i])

\* A command that ends too soon is refused by one of the calls that read.
LEMMA CutRun ==
  ASSUME NEW s, Typed(s), s.offset = 0, NEW calls, NEW d, ReadsTo(calls, d), SentBefore(calls, d),
         AllFetched(calls), s.tx /\ s.keys = "spend" => KeyLast(calls),
         NEW p, NEW data, IsLayout(p, calls, s.tx, data, Len(calls)), s.length < Len(data),
         NEW r, r = Runs(s, calls)
  PROVE  r[Len(calls)].error # "none"
<1> DEFINE k == Len(calls)
<1>1. k \in Nat /\ d \in 1 .. k + 1 /\ \A i \in 1 .. k : i < d => Reader(calls[i])
  BY DEF ReadsTo
<1>2. r[0] = s /\ \A n \in 1 .. k : r[n] = Do(r[n - 1], calls[n])
  BY <1>1, RunsDef
<1>3. /\ p[0] = 0 /\ p[k] = Len(data)
      /\ \A n \in 0 .. k : p[n] \in Nat
      /\ \A n \in 1 .. k : SentSize(calls[n], s.tx) \in Nat /\ p[n] = p[n - 1] + SentSize(calls[n], s.tx)
  BY DEF IsLayout
<1>4. \A n \in 0 .. d - 1 : Typed(r[n]) /\ Kept(s, r[n])
  BY ReadsToRun
<1>5. \A i \in 1 .. k : i >= d => ~Sends(calls[i])
  BY DEF SentBefore
<1>6. \A i \in 1 .. k : ~IsRest(calls[i])
  BY DEF AllFetched
<1>7. s.tx /\ s.keys = "spend" => \A i, j \in 1 .. k : IsKey(calls[i]) /\ i < j => ~Sends(calls[j])
  BY DEF KeyLast
<1>8. \A i \in 1 .. k : ~Sends(calls[i]) => SentSize(calls[i], s.tx) = 0
  BY DEF Sends, SentSize, SentOps
<1>9. s.length \in Nat
  BY DEF Typed
<1> SUFFICES ASSUME r[k].error = "none" PROVE FALSE
  OBVIOUS
<1>10. s.length < p[k]
  BY <1>3
<1>11. \A n \in 0 .. k : r[n].error = "none"
  <2>1. ASSUME NEW n \in 0 .. k, r[n].error # "none" PROVE FALSE
    <3>1. k \in n .. k
      BY <1>1
    <3>2. \A m \in n .. k : r[m] = r[n]
      BY <1>1, <2>1, ErrorRun
    <3>3. r[k] = r[n]
      BY <3>1, <3>2
    <3> QED BY <2>1, <3>3
  <2> QED BY <2>1
<1> HIDE DEF k
<1> DEFINE Slipped(n) == s.tx /\ s.keys = "spend" /\ \E i \in 1 .. n : IsKey(calls[i])
           S == {n \in Nat : p[n] <= s.length /\ (r[n].offset = p[n] \/ Slipped(n))}
<1>12. 0 \in S
  <2>1. p[0] <= s.length /\ r[0].offset = p[0]
    BY <1>2, <1>3, <1>9
  <2> HIDE DEF Slipped
  <2> QED BY <2>1
<1>13. \A n \in 0 .. (d - 1) - 1 : n \in S => n + 1 \in S
  <2> HIDE DEF Slipped
  <2> SUFFICES ASSUME NEW n \in 0 .. (d - 1) - 1, n \in S PROVE n + 1 \in S
    OBVIOUS
  <2>0. p[n] <= s.length /\ (r[n].offset = p[n] \/ Slipped(n))
    OBVIOUS
  <2> HIDE DEF S
  <2> DEFINE m == n + 1
             c == calls[m]
  <2>1. m \in 1 .. k /\ m < d /\ m \in Nat /\ m - 1 = n /\ n \in 0 .. d - 1 /\ n \in 0 .. k /\ m \in 0 .. k
    BY <1>1
  <2>2. r[m] = Do(r[n], c) /\ Reader(c) /\ ~IsRest(c)
    BY <1>1, <1>2, <1>6, <2>1
  <2>3. Typed(r[n]) /\ r[n].tx = s.tx /\ r[n].keys = s.keys /\ r[n].length = s.length
    BY <1>4, <2>1 DEF Kept
  <2>4. r[n].error = "none" /\ r[m].error = "none"
    BY <1>11, <2>1
  <2>5. /\ Sends(c) => /\ r[n].offset + SentSize(c, s.tx) <= s.length
                       /\ \/ r[m].offset = r[n].offset + SentSize(c, s.tx)
                          \/ s.tx /\ s.keys = "spend" /\ IsKey(c)
        /\ ~Sends(c) => r[m].offset = r[n].offset
    <3> DEFINE u == r[n]
               v == r[m]
    <3> HIDE DEF c, m
    <3>1. Typed(u) /\ u.error = "none" /\ Reader(c) /\ v = Do(u, c) /\ v.error = "none"
      BY <2>2, <2>3, <2>4
    <3>2. u.tx = s.tx /\ u.keys = s.keys /\ u.length = s.length /\ ~IsRest(c)
      BY <2>2, <2>3
    <3> HIDE DEF u, v
    <3>3. /\ Sends(c) /\ ~IsRest(c) =>
                /\ u.offset + SentSize(c, u.tx) <= u.length
                /\ \/ v.offset = u.offset + SentSize(c, u.tx)
                   \/ u.tx /\ u.keys = "spend" /\ IsKey(c)
          /\ ~Sends(c) \/ IsRest(c) => v.offset = u.offset
      BY <3>1, SendsDo
    <3> QED BY <3>2, <3>3 DEF u, v
  <2>7. p[m] = p[n] + SentSize(c, s.tx) /\ p[n] \in Nat /\ SentSize(c, s.tx) \in Nat
    BY <1>3, <2>1
  <2>8. Slipped(n) => Slipped(m) /\ ~Sends(c)
    <3> SUFFICES ASSUME Slipped(n) PROVE Slipped(m) /\ ~Sends(c)
      OBVIOUS
    <3>0. s.tx /\ s.keys = "spend" /\ \E i \in 1 .. n : IsKey(calls[i])
      BY DEF Slipped
    <3>1. PICK i \in 1 .. n : IsKey(calls[i])
      BY <3>0
    <3>2. i \in 1 .. m /\ i \in 1 .. k /\ i < m
      BY <1>1, <2>1
    <3>3. Slipped(m)
      BY <3>0, <3>1, <3>2 DEF Slipped
    <3>4. ~Sends(calls[m])
      BY <1>7, <2>1, <3>0, <3>1, <3>2
    <3> QED BY <3>3, <3>4
  <2>9. s.tx /\ s.keys = "spend" /\ IsKey(c) => Slipped(m)
    <3>1. m \in 1 .. m
      BY <2>1
    <3> QED BY <3>1 DEF Slipped
  <2>10. ~Sends(c) => SentSize(c, s.tx) = 0
    BY <1>8, <2>1
  <2> HIDE DEF c, m
  <2>11. p[m] <= s.length /\ (r[m].offset = p[m] \/ Slipped(m))
    <3>1. CASE Sends(c)
      <4>1. r[n].offset = p[n]
        BY <2>0, <2>8, <3>1
      <4> QED BY <2>5, <2>7, <2>9, <3>1, <4>1
    <3>2. CASE ~Sends(c)
      <4>1. p[m] = p[n] /\ r[m].offset = r[n].offset
        BY <2>5, <2>7, <2>10, <3>2
      <4> QED BY <2>0, <2>8, <4>1
    <3> QED BY <3>1, <3>2
  <2> QED BY <2>1, <2>11 DEF m, S
<1> HIDE DEF S
<1>14. d - 1 \in Nat
  BY <1>1
<1>15. 0 .. d - 1 \subseteq S
  BY <1>12, <1>13, <1>14, InductionUpTo
<1>16. p[d - 1] <= s.length
  <2>1. d - 1 \in 0 .. d - 1
    BY <1>14
  <2> QED BY <1>15, <2>1 DEF S
<1> DEFINE T == {n \in Nat : p[(d - 1) + n] = p[d - 1]}
<1>17. 0 \in T
  <2>1. (d - 1) + 0 = d - 1
    BY <1>1
  <2> QED BY <2>1
<1>18. \A n \in 0 .. (k - (d - 1)) - 1 : n \in T => n + 1 \in T
  <2> SUFFICES ASSUME NEW n \in 0 .. (k - (d - 1)) - 1, n \in T PROVE n + 1 \in T
    OBVIOUS
  <2> DEFINE m == (d - 1) + (n + 1)
  <2>1. m \in 1 .. k /\ m >= d /\ m - 1 = (d - 1) + n /\ n + 1 \in Nat /\ (d - 1) + n \in 0 .. k
    BY <1>1
  <2>2. p[m] = p[m - 1] + SentSize(calls[m], s.tx) /\ SentSize(calls[m], s.tx) = 0
    BY <1>3, <1>5, <1>8, <2>1
  <2>3. p[m - 1] \in Nat
    BY <1>3, <2>1
  <2>4. p[m] = p[m - 1]
    BY <2>2, <2>3
  <2>5. p[m] = p[d - 1]
    BY <2>1, <2>4
  <2> QED BY <2>1, <2>5
<1> HIDE DEF T
<1>19. k - (d - 1) \in Nat /\ (d - 1) + (k - (d - 1)) = k
  BY <1>1
<1>20. 0 .. k - (d - 1) \subseteq T
  BY <1>17, <1>18, <1>19, InductionUpTo
<1>21. k - (d - 1) \in T
  BY <1>19, <1>20
<1>22. p[k] = p[d - 1]
  BY <1>19, <1>21 DEF T
<1>23. p[k] \in Nat
  BY <1>1, <1>3
<1> QED BY <1>9, <1>10, <1>16, <1>22, <1>23

-----------------------------------------------------------------------------
(***************************************************************************)
(* Handlers without keys and pointers                                      *)
(***************************************************************************)
PlainOps == {"fetch", "fetch_decrypt", "exactly", "discard", "clear", "insert", "insert_encrypt",
             "add_to_tx_prefix", "insert_address", "scribble", "amount2str", "open", "close", "ends"}

\* The amounts that are ever shown, in as many bytes as there is room for on the screen.
Amounts == ScreenAmounts \cup {<< 2, 0, 0 >>}

Showing(c) == c.op = "amount2str" => c.size = 15 /\ c.amount \in Amounts

IsPlain(c) == c.op \in PlainOps /\ Showing(c)

\* A command begins with its options.
IsOptions(c) == c.op = "fetch" /\ c.size = 1

Plain(calls) == IsOptions(calls[1]) /\ \A i \in 1 .. Len(calls) : IsPlain(calls[i])

LEMMA PlainSeq ==
  ASSUME NEW S, \A c \in S : IsPlain(c), NEW calls \in Seq(S), IsOptions(calls[1])
  PROVE  Plain(calls)
BY DEF Plain

LEMMA Plain1 ==
  ASSUME NEW name, NEW c1,
         IsPlain(c1)
  PROVE  Plain(Command(name, << c1 >>).calls)
<1> DEFINE o == Fetch("options", 1)
           calls == << o >> \o << c1 >>
<1>1. Command(name, << c1 >>).calls = calls /\ IsPlain(o) /\ IsOptions(o)
  BY CommandCalls DEF IsPlain, PlainOps, Showing, IsOptions, Fetch, Call
<1> HIDE DEF o
<1>2. calls \in Seq({o, c1}) /\ calls[1] = o
  OBVIOUS
<1>3. \A c \in {o, c1} : IsPlain(c)
  BY <1>1
<1> HIDE DEF calls
<1> QED BY <1>1, <1>2, <1>3, PlainSeq

LEMMA Plain2 ==
  ASSUME NEW name, NEW c1, NEW c2,
         IsPlain(c1), IsPlain(c2)
  PROVE  Plain(Command(name, << c1, c2 >>).calls)
<1> DEFINE o == Fetch("options", 1)
           calls == << o >> \o << c1, c2 >>
<1>1. Command(name, << c1, c2 >>).calls = calls /\ IsPlain(o) /\ IsOptions(o)
  BY CommandCalls DEF IsPlain, PlainOps, Showing, IsOptions, Fetch, Call
<1> HIDE DEF o
<1>2. calls \in Seq({o, c1, c2}) /\ calls[1] = o
  OBVIOUS
<1>3. \A c \in {o, c1, c2} : IsPlain(c)
  BY <1>1
<1> HIDE DEF calls
<1> QED BY <1>1, <1>2, <1>3, PlainSeq

LEMMA Plain3 ==
  ASSUME NEW name, NEW c1, NEW c2, NEW c3,
         IsPlain(c1), IsPlain(c2), IsPlain(c3)
  PROVE  Plain(Command(name, << c1, c2, c3 >>).calls)
<1> DEFINE o == Fetch("options", 1)
           calls == << o >> \o << c1, c2, c3 >>
<1>1. Command(name, << c1, c2, c3 >>).calls = calls /\ IsPlain(o) /\ IsOptions(o)
  BY CommandCalls DEF IsPlain, PlainOps, Showing, IsOptions, Fetch, Call
<1> HIDE DEF o
<1>2. calls \in Seq({o, c1, c2, c3}) /\ calls[1] = o
  OBVIOUS
<1>3. \A c \in {o, c1, c2, c3} : IsPlain(c)
  BY <1>1
<1> HIDE DEF calls
<1> QED BY <1>1, <1>2, <1>3, PlainSeq

LEMMA Plain4 ==
  ASSUME NEW name, NEW c1, NEW c2, NEW c3, NEW c4,
         IsPlain(c1), IsPlain(c2), IsPlain(c3), IsPlain(c4)
  PROVE  Plain(Command(name, << c1, c2, c3, c4 >>).calls)
<1> DEFINE o == Fetch("options", 1)
           calls == << o >> \o << c1, c2, c3, c4 >>
<1>1. Command(name, << c1, c2, c3, c4 >>).calls = calls /\ IsPlain(o) /\ IsOptions(o)
  BY CommandCalls DEF IsPlain, PlainOps, Showing, IsOptions, Fetch, Call
<1> HIDE DEF o
<1>2. calls \in Seq({o, c1, c2, c3, c4}) /\ calls[1] = o
  OBVIOUS
<1>3. \A c \in {o, c1, c2, c3, c4} : IsPlain(c)
  BY <1>1
<1> HIDE DEF calls
<1> QED BY <1>1, <1>2, <1>3, PlainSeq

LEMMA Plain5 ==
  ASSUME NEW name, NEW c1, NEW c2, NEW c3, NEW c4, NEW c5,
         IsPlain(c1), IsPlain(c2), IsPlain(c3), IsPlain(c4), IsPlain(c5)
  PROVE  Plain(Command(name, << c1, c2, c3, c4, c5 >>).calls)
<1> DEFINE o == Fetch("options", 1)
           calls == << o >> \o << c1, c2, c3, c4, c5 >>
<1>1. Command(name, << c1, c2, c3, c4, c5 >>).calls = calls /\ IsPlain(o) /\ IsOptions(o)
  BY CommandCalls DEF IsPlain, PlainOps, Showing, IsOptions, Fetch, Call
<1> HIDE DEF o
<1>2. calls \in Seq({o, c1, c2, c3, c4, c5}) /\ calls[1] = o
  OBVIOUS
<1>3. \A c \in {o, c1, c2, c3, c4, c5} : IsPlain(c)
  BY <1>1
<1> HIDE DEF calls
<1> QED BY <1>1, <1>2, <1>3, PlainSeq

LEMMA Plain6 ==
  ASSUME NEW name, NEW c1, NEW c2, NEW c3, NEW c4, NEW c5, NEW c6,
         IsPlain(c1), IsPlain(c2), IsPlain(c3), IsPlain(c4), IsPlain(c5), IsPlain(c6)
  PROVE  Plain(Command(name, << c1, c2, c3, c4, c5, c6 >>).calls)
<1> DEFINE o == Fetch("options", 1)
           calls == << o >> \o << c1, c2, c3, c4, c5, c6 >>
<1>1. Command(name, << c1, c2, c3, c4, c5, c6 >>).calls = calls /\ IsPlain(o) /\ IsOptions(o)
  BY CommandCalls DEF IsPlain, PlainOps, Showing, IsOptions, Fetch, Call
<1> HIDE DEF o
<1>2. calls \in Seq({o, c1, c2, c3, c4, c5, c6}) /\ calls[1] = o
  OBVIOUS
<1>3. \A c \in {o, c1, c2, c3, c4, c5, c6} : IsPlain(c)
  BY <1>1
<1> HIDE DEF calls
<1> QED BY <1>1, <1>2, <1>3, PlainSeq

LEMMA Plain7 ==
  ASSUME NEW name, NEW c1, NEW c2, NEW c3, NEW c4, NEW c5, NEW c6, NEW c7,
         IsPlain(c1), IsPlain(c2), IsPlain(c3), IsPlain(c4), IsPlain(c5), IsPlain(c6), IsPlain(c7)
  PROVE  Plain(Command(name, << c1, c2, c3, c4, c5, c6, c7 >>).calls)
<1> DEFINE o == Fetch("options", 1)
           calls == << o >> \o << c1, c2, c3, c4, c5, c6, c7 >>
<1>1. Command(name, << c1, c2, c3, c4, c5, c6, c7 >>).calls = calls /\ IsPlain(o) /\ IsOptions(o)
  BY CommandCalls DEF IsPlain, PlainOps, Showing, IsOptions, Fetch, Call
<1> HIDE DEF o
<1>2. calls \in Seq({o, c1, c2, c3, c4, c5, c6, c7}) /\ calls[1] = o
  OBVIOUS
<1>3. \A c \in {o, c1, c2, c3, c4, c5, c6, c7} : IsPlain(c)
  BY <1>1
<1> HIDE DEF calls
<1> QED BY <1>1, <1>2, <1>3, PlainSeq

LEMMA Plain9 ==
  ASSUME NEW name, NEW c1, NEW c2, NEW c3, NEW c4, NEW c5, NEW c6, NEW c7, NEW c8, NEW c9,
         IsPlain(c1), IsPlain(c2), IsPlain(c3), IsPlain(c4), IsPlain(c5), IsPlain(c6), IsPlain(c7), IsPlain(c8), IsPlain(c9)
  PROVE  Plain(Command(name, << c1, c2, c3, c4, c5, c6, c7, c8, c9 >>).calls)
<1> DEFINE o == Fetch("options", 1)
           calls == << o >> \o << c1, c2, c3, c4, c5, c6, c7, c8, c9 >>
<1>1. Command(name, << c1, c2, c3, c4, c5, c6, c7, c8, c9 >>).calls = calls /\ IsPlain(o) /\ IsOptions(o)
  BY CommandCalls DEF IsPlain, PlainOps, Showing, IsOptions, Fetch, Call
<1> HIDE DEF o
<1>2. calls \in Seq({o, c1, c2, c3, c4, c5, c6, c7, c8, c9}) /\ calls[1] = o
  OBVIOUS
<1>3. \A c \in {o, c1, c2, c3, c4, c5, c6, c7, c8, c9} : IsPlain(c)
  BY <1>1
<1> HIDE DEF calls
<1> QED BY <1>1, <1>2, <1>3, PlainSeq

LEMMA PlainCalls ==
  /\ \A what, size : IsPlain(Fetch(what, size)) /\ IsPlain(Insert(what, size))
  /\ \A what : IsPlain(Sealed(what)) /\ IsPlain(Seal(what))
  /\ \A n : IsPlain(Number(n)) /\ IsPlain(Exactly(n))
  /\ \A amount \in Amounts : IsPlain(Show(amount))
  /\ IsPlain(Discard(TRUE)) /\ IsPlain(Discard(FALSE)) /\ IsPlain(Address)
  /\ IsPlain(SetTx(TRUE)) /\ IsPlain(SetTx(FALSE)) /\ IsPlain(Ask) /\ IsPlain(Never)
<1>1. \A amount \in Amounts : IsPlain(Show(amount))
  BY DEF IsPlain, PlainOps, Showing, Call, Show
<1>2. /\ \A what, size : IsPlain(Fetch(what, size)) /\ IsPlain(Insert(what, size))
      /\ \A what : IsPlain(Sealed(what)) /\ IsPlain(Seal(what))
      /\ \A n : IsPlain(Number(n)) /\ IsPlain(Exactly(n))
  BY DEF IsPlain, PlainOps, Showing, Call, Fetch, Insert, Sealed, Seal, Number, Exactly
<1>3. /\ IsPlain(Discard(TRUE)) /\ IsPlain(Discard(FALSE)) /\ IsPlain(Address)
      /\ IsPlain(SetTx(TRUE)) /\ IsPlain(SetTx(FALSE)) /\ IsPlain(Ask) /\ IsPlain(Never)
  BY DEF IsPlain, PlainOps, Showing, Call, Discard, Address, SetTx, Ask, Never
<1> QED BY <1>1, <1>2, <1>3

LEMMA PlainHandlers ==
  /\ Plain(apdu_reset.calls)
  /\ Plain(get_public_key.calls)
  /\ Plain(get_view_key.calls)
  /\ Plain(get_view_key_again.calls)
  /\ Plain(display_address.calls)
  /\ Plain(manage_seedwords_clear.calls)
  /\ Plain(get_chacha8_prekey.calls)
  /\ Plain(sc_add.calls)
  /\ Plain(sc_sub.calls)
  /\ Plain(scalar_mulsub.calls)
  /\ Plain(scal_mul_base.calls)
  /\ Plain(generate_keypair.calls)
  /\ Plain(secret_key_to_public_key.calls)
  /\ Plain(derivation_to_scalar.calls)
  /\ Plain(derive_public_key.calls)
  /\ Plain(generate_key_image.calls)
  /\ Plain(derive_subaddress_public_key.calls)
  /\ Plain(get_subaddress.calls)
  /\ Plain(get_subaddress_spend_public_key.calls)
  /\ Plain(unblind.calls)
  /\ Plain(open_tx.calls)
  /\ Plain(close_tx.calls)
  /\ Plain(set_signature_mode.calls)
  /\ Plain(blind.calls)
  /\ Plain(gen_commitment_mask.calls)
  /\ Plain(mlsag_prehash_finalize_more.calls)
  /\ Plain(mlsag_prehash_finalize.calls)
  /\ Plain(tx_prompt_fake.calls)
  /\ Plain(hash_to_scalar_init.calls)
  /\ Plain(hash_to_scalar.calls)
  /\ Plain(hash_to_scalar_batch.calls)
  /\ Plain(tx_prefix_outputs_matches.calls)
  /\ \A n : Plain(tx_prefix_start(n).calls)
  /\ \A n : Plain(tx_prefix_inputs(n).calls)
  /\ \A n : Plain(tx_prefix_outputs(n).calls)
  /\ \A n : Plain(tx_prefix_outputs_size(n).calls)
  /\ \A amount \in Amounts : Plain(tx_prompt_fee(amount).calls)
  /\ \A amount \in Amounts : Plain(tx_prompt_amount(amount).calls)
  /\ \A amount \in Amounts : Plain(tx_prompt_loopback(amount).calls)
<1> USE PlainCalls
<1>1. Plain(apdu_reset.calls)
  BY Plain5, Zenon DEF apdu_reset
<1>2. Plain(get_public_key.calls)
  BY Plain4, Zenon DEF get_public_key
<1>3. Plain(get_view_key.calls)
  BY Plain2, Zenon DEF get_view_key
<1>4. Plain(get_view_key_again.calls)
  BY Plain2, Zenon DEF get_view_key_again
<1>5. Plain(display_address.calls)
  BY Plain4, Zenon DEF display_address
<1>6. Plain(manage_seedwords_clear.calls)
  BY Plain1, Zenon DEF manage_seedwords_clear
<1>7. Plain(get_chacha8_prekey.calls)
  BY Plain2, Zenon DEF get_chacha8_prekey
<1>8. Plain(sc_add.calls)
  BY Plain4, Zenon DEF sc_add
<1>9. Plain(sc_sub.calls)
  BY Plain4, Zenon DEF sc_sub
<1>10. Plain(scalar_mulsub.calls)
  BY Plain5, Zenon DEF scalar_mulsub
<1>11. Plain(scal_mul_base.calls)
  BY Plain3, Zenon DEF scal_mul_base
<1>12. Plain(generate_keypair.calls)
  BY Plain3, Zenon DEF generate_keypair
<1>13. Plain(secret_key_to_public_key.calls)
  BY Plain3, Zenon DEF secret_key_to_public_key
<1>14. Plain(derivation_to_scalar.calls)
  BY Plain4, Zenon DEF derivation_to_scalar
<1>15. Plain(derive_public_key.calls)
  BY Plain5, Zenon DEF derive_public_key
<1>16. Plain(generate_key_image.calls)
  BY Plain4, Zenon DEF generate_key_image
<1>17. Plain(derive_subaddress_public_key.calls)
  BY Plain5, Zenon DEF derive_subaddress_public_key
<1>18. Plain(get_subaddress.calls)
  BY Plain4, Zenon DEF get_subaddress
<1>19. Plain(get_subaddress_spend_public_key.calls)
  BY Plain3, Zenon DEF get_subaddress_spend_public_key
<1>20. Plain(unblind.calls)
  BY Plain6, Zenon DEF unblind
<1>21. Plain(open_tx.calls)
  BY Plain7, Zenon DEF open_tx
<1>22. Plain(close_tx.calls)
  BY Plain2, Zenon DEF close_tx
<1>23. Plain(set_signature_mode.calls)
  BY Plain3, Zenon DEF set_signature_mode
<1>24. Plain(blind.calls)
  BY Plain6, Zenon DEF blind
<1>25. Plain(gen_commitment_mask.calls)
  BY Plain3, Zenon DEF gen_commitment_mask
<1>26. Plain(mlsag_prehash_finalize_more.calls)
  BY Plain2, Zenon DEF mlsag_prehash_finalize_more
<1>27. Plain(mlsag_prehash_finalize.calls)
  BY Plain3, Zenon DEF mlsag_prehash_finalize
<1>28. Plain(tx_prompt_fake.calls)
  BY Plain1, Zenon DEF tx_prompt_fake
<1>29. Plain(hash_to_scalar_init.calls)
  BY Plain1, Zenon DEF hash_to_scalar_init
<1>30. Plain(hash_to_scalar.calls)
  BY Plain2, Zenon DEF hash_to_scalar
<1>31. Plain(hash_to_scalar_batch.calls)
  BY Plain3, Zenon DEF hash_to_scalar_batch
<1>32. Plain(tx_prefix_outputs_matches.calls)
  BY Plain5, Zenon DEF tx_prefix_outputs_matches
<1>33. \A n : Plain(tx_prefix_start(n).calls)
  BY Plain7, Zenon DEF tx_prefix_start
<1>34. \A n : Plain(tx_prefix_inputs(n).calls)
  BY Plain9, Zenon DEF tx_prefix_inputs
<1>35. \A n : Plain(tx_prefix_outputs(n).calls)
  BY Plain7, Zenon DEF tx_prefix_outputs
<1>36. \A n : Plain(tx_prefix_outputs_size(n).calls)
  BY Plain3, Zenon DEF tx_prefix_outputs_size
<1>37. \A amount \in Amounts : Plain(tx_prompt_fee(amount).calls)
  BY Plain3, Zenon DEF tx_prompt_fee
<1>38. \A amount \in Amounts : Plain(tx_prompt_amount(amount).calls)
  BY Plain3, Zenon DEF tx_prompt_amount
<1>39. \A amount \in Amounts : Plain(tx_prompt_loopback(amount).calls)
  <2>1. << 2, 0, 0 >> \in Amounts
    BY DEF Amounts
  <2> QED BY <2>1, Plain4, Zenon DEF tx_prompt_loopback
<1> QED BY <1>1, <1>2, <1>3, <1>4, <1>5, <1>6, <1>7, <1>8, <1>9, <1>10, <1>11, <1>12, <1>13,
           <1>14, <1>15, <1>16, <1>17, <1>18, <1>19, <1>20, <1>21, <1>22, <1>23, <1>24, <1>25,
           <1>26, <1>27, <1>28, <1>29, <1>30, <1>31, <1>32, <1>33, <1>34, <1>35, <1>36, <1>37,
           <1>38, <1>39

LEMMA InSeq ==
  ASSUME NEW S, NEW a \in Seq(S), NEW b \in Seq(S)
  PROVE  a \o b \in Seq(S)
OBVIOUS

LEMMA FirstOf ==
  ASSUME NEW S, NEW o \in S, NEW b \in Seq(S)
  PROVE  (<< o >> \o b)[1] = o
OBVIOUS

LEMMA PlainTxHandlers ==
  /\ \A first, last \in BOOLEAN : Plain(mlsag_hash(first, last).calls)
  /\ \A real \in BOOLEAN : Plain(mlsag_sign(real).calls)
  /\ Plain(mlsag_prepare(<< >>).calls)
  /\ Plain(mlsag_prepare(<< Fetch("Hi", 32), Fetch("xin", 32) >>).calls)
  /\ Plain(mlsag_prepare(<< Fetch("Hi", 32), Sealed("xin") >>).calls)
<1> DEFINE o == Fetch("options", 1)
           c == Discard(TRUE)
<1>1. IsPlain(o) /\ IsPlain(c) /\ IsOptions(o)
  BY PlainCalls DEF IsOptions, Fetch, Call
<1>2. ASSUME NEW first \in BOOLEAN, NEW last \in BOOLEAN
      PROVE  Plain(mlsag_hash(first, last).calls)
  <2> DEFINE a == Fetch("msg", 32)
             x == Insert("c", 32)
             calls == << o >> \o ((IF first THEN << >> ELSE << a >>) \o << c >> \o IF last THEN << x >> ELSE << >>)
  <2>1. mlsag_hash(first, last).calls = calls
    BY CommandCalls, Zenon DEF mlsag_hash
  <2>2. IsPlain(a) /\ IsPlain(x)
    BY PlainCalls
  <2> HIDE DEF o, a, c, x
  <2> DEFINE T == {o, a, c, x}
  <2>3. calls \in Seq(T) /\ calls[1] = o
    <3>1. o \in T /\ << >> \in Seq(T) /\ << o >> \in Seq(T) /\ << a >> \in Seq(T) /\ << c >> \in Seq(T) /\ << x >> \in Seq(T)
      OBVIOUS
    <3> HIDE DEF T
    <3>2. (IF first THEN << >> ELSE << a >>) \o << c >> \in Seq(T)
      <4>1. (IF first THEN << >> ELSE << a >>) \in Seq(T)
        BY <3>1, Zenon
      <4> QED BY <3>1, <4>1, InSeq, Zenon
    <3>3. (IF last THEN << x >> ELSE << >>) \in Seq(T)
      BY <3>1, Zenon
    <3>4. (IF first THEN << >> ELSE << a >>) \o << c >> \o (IF last THEN << x >> ELSE << >>) \in Seq(T)
      BY <3>2, <3>3, InSeq, Zenon
    <3> QED BY <3>1, <3>4, InSeq, FirstOf, Zenon
  <2>4. \A y \in T : IsPlain(y)
    BY <1>1, <2>2
  <2> HIDE DEF calls, T
  <2> QED BY <1>1, <2>1, <2>3, <2>4, PlainSeq
<1>3. ASSUME NEW real \in BOOLEAN
      PROVE  Plain(mlsag_sign(real).calls)
  <2> DEFINE a1 == Sealed("xin")
             a2 == Sealed("alpha")
             b1 == Fetch("xin", 32)
             b2 == Fetch("alpha", 32)
             x == Insert("ss2", 32)
             y == Insert("sig_mode", 4)
             calls == << o >> \o ((IF real THEN << a1, a2 >> ELSE << b1, b2 >>) \o << c, x, y >>)
  <2>1. mlsag_sign(real).calls = calls
    BY CommandCalls, Zenon DEF mlsag_sign
  <2>2. IsPlain(a1) /\ IsPlain(a2) /\ IsPlain(b1) /\ IsPlain(b2) /\ IsPlain(x) /\ IsPlain(y)
    BY PlainCalls
  <2> HIDE DEF o, c, a1, a2, b1, b2, x, y
  <2> DEFINE T == {o, c, a1, a2, b1, b2, x, y}
  <2>3. calls \in Seq(T) /\ calls[1] = o
    <3>1. /\ o \in T /\ << o >> \in Seq(T) /\ << a1, a2 >> \in Seq(T) /\ << b1, b2 >> \in Seq(T)
          /\ << c, x, y >> \in Seq(T)
      <4>1. o \in T /\ c \in T /\ a1 \in T /\ a2 \in T /\ b1 \in T /\ b2 \in T /\ x \in T /\ y \in T
        OBVIOUS
      <4> HIDE DEF T
      <4> QED BY <4>1
    <3> HIDE DEF T
    <3>2. (IF real THEN << a1, a2 >> ELSE << b1, b2 >>) \o << c, x, y >> \in Seq(T)
      <4>1. (IF real THEN << a1, a2 >> ELSE << b1, b2 >>) \in Seq(T)
        BY <3>1, Zenon
      <4> QED BY <3>1, <4>1, InSeq, Zenon
    <3> QED BY <3>1, <3>2, InSeq, FirstOf, Zenon
  <2>4. \A z \in T : IsPlain(z)
    BY <1>1, <2>2
  <2> HIDE DEF calls, T
  <2> QED BY <1>1, <2>1, <2>3, <2>4, PlainSeq
<1>4. ASSUME NEW S, \A x \in S : IsPlain(x), NEW keys \in Seq(S)
      PROVE  Plain(mlsag_prepare(keys).calls)
  <2> DEFINE x == Seal("alpha")
             y == Insert("alpha_G", 32)
             u == Insert("alpha_Hi", 32)
             v == Insert("II", 32)
             T == S \cup {o, c, x, y, u, v}
             calls == << o >> \o (keys \o << c, x, y >> \o IF keys = << >> THEN << >> ELSE << u, v >>)
  <2>1. mlsag_prepare(keys).calls = calls
    BY CommandCalls, Zenon DEF mlsag_prepare
  <2>2. IsPlain(x) /\ IsPlain(y) /\ IsPlain(u) /\ IsPlain(v)
    BY PlainCalls
  <2> HIDE DEF o, c, x, y, u, v
  <2>3. calls \in Seq(T) /\ calls[1] = o
    <3>1. o \in T /\ keys \in Seq(T) /\ << o >> \in Seq(T) /\ << c, x, y >> \in Seq(T) /\ << u, v >> \in Seq(T)
      OBVIOUS
    <3> HIDE DEF T
    <3>2. << c, x, y >> \o (IF keys = << >> THEN << >> ELSE << u, v >>) \in Seq(T)
      BY <3>1, InSeq
    <3> QED BY <3>1, <3>2, InSeq, FirstOf
  <2>4. \A z \in T : IsPlain(z)
    BY <1>1, <1>4, <2>2
  <2> HIDE DEF calls, T
  <2> QED BY <1>1, <2>1, <2>3, <2>4, PlainSeq
<1>5. ASSUME NEW a, NEW b, IsPlain(a), IsPlain(b)
      PROVE  Plain(mlsag_prepare(<< a, b >>).calls)
  <2>1. << a, b >> \in Seq({a, b})
    OBVIOUS
  <2> QED BY <1>4, <1>5, <2>1
<1>6. Plain(mlsag_prepare(<< >>).calls)
  <2>1. << >> \in Seq({}) /\ \A x \in {} : IsPlain(x)
    OBVIOUS
  <2> QED BY <1>4, <2>1, Zenon
<1>7. /\ Plain(mlsag_prepare(<< Fetch("Hi", 32), Fetch("xin", 32) >>).calls)
      /\ Plain(mlsag_prepare(<< Fetch("Hi", 32), Sealed("xin") >>).calls)
  BY <1>5, PlainCalls, Zenon
<1> QED BY <1>2, <1>3, <1>6, <1>7

-----------------------------------------------------------------------------
(***************************************************************************)
(* How the handlers read                                                   *)
(***************************************************************************)
IsPointer(c) == c.op \in {"point", "peek"}

Behind(calls, i) == \E k \in 1 .. i - 1 : IsKey(calls[k])

\* Calls that neither take anything nor read it by way of a pointer.
TailOps == {"discard", "clear", "insert", "insert_encrypt", "add_to_tx_prefix", "insert_address",
            "scribble", "amount2str", "open", "close", "ends", "fault"}

\* What is used was pointed to, and the pointer is not taken over again.
UsesPointers(calls, d) ==
  \A i \in 1 .. Len(calls) : calls[i].op = "use" =>
    \E j \in 1 .. i - 1 : /\ j < d /\ IsPointer(calls[j])
                          /\ calls[j].what = calls[i].what /\ calls[j].size = calls[i].size

PointersDiffer(calls) ==
  \A i, j \in 1 .. Len(calls) : IsPointer(calls[i]) /\ IsPointer(calls[j]) /\ calls[i].what = calls[j].what => i = j

\* What is sent behind a key has a name that nothing before it has.
LateDiffer(calls) ==
  \A i \in 1 .. Len(calls) : Sends(calls[i]) /\ Behind(calls, i) =>
    /\ ~IsRest(calls[i]) /\ calls[i].size >= 1
    /\ \A j \in 1 .. i - 1 : Sends(calls[j]) => calls[j].what # calls[i].what

RestLast(calls) == \A i, j \in 1 .. Len(calls) : IsRest(calls[i]) /\ i < j => ~Sends(calls[j])

\* A handler that takes a key answers, and does not open or close a transaction.
KeyEnds(calls) ==
  (\E i \in 1 .. Len(calls) : IsKey(calls[i])) =>
    \A i \in 1 .. Len(calls) : calls[i].op \notin {"open", "close", "ends"}

\* Amounts are shown as the screen has room for them.
ShowsAmounts(calls) == \A i \in 1 .. Len(calls) : Showing(calls[i])

TailCalls(calls, d, e) ==
  /\ \A i \in 1 .. Len(calls) : i >= d => calls[i].op \in TailOps \cup {"use"}
  /\ \A i \in 1 .. Len(calls) : i > e => calls[i].op # "use"
  /\ \A i \in 1 .. Len(calls) : i >= d /\ i <= e => calls[i].op = (IF i = d THEN "discard" ELSE "use")

\* A handler reads up to the call d, and uses pointers up to the call e: before the discard,
\* or behind one that does not clear the buffer.
Regular(calls, d, e) ==
  /\ IsOptions(calls[1])
  /\ ReadsTo(calls, d)
  /\ e \in Nat /\ d - 1 <= e /\ e <= Len(calls)
  /\ TailCalls(calls, d, e) /\ UsesPointers(calls, d) /\ PointersDiffer(calls) /\ LateDiffer(calls) /\ RestLast(calls) /\ KeyEnds(calls)
  /\ ShowsAmounts(calls)

LEMMA CallFacts ==
  /\ \A what, size : LET c == Fetch(what, size) IN c.op = "fetch" /\ c.what = what /\ c.size = size
  /\ \A what, size : LET c == Point(what, size) IN c.op = "point" /\ c.what = what /\ c.size = size
  /\ \A what, size : LET c == Peek(what, size) IN c.op = "peek" /\ c.what = what /\ c.size = size
  /\ \A what, size : LET c == Use(what, size) IN c.op = "use" /\ c.what = what /\ c.size = size
  /\ \A what, size : LET c == Rest(what, size) IN c.op = "rest" /\ c.what = what /\ c.size = size
  /\ \A what, size : LET c == Insert(what, size) IN c.op = "insert" /\ c.what = what /\ c.size = size
  /\ \A what : LET c == Sealed(what) IN c.op = "fetch_decrypt" /\ c.what = what /\ c.size = 32
  /\ \A what : LET c == Key(what) IN c.op = "fetch_decrypt_key" /\ c.what = what /\ c.size = 32
  /\ \A what : LET c == Seal(what) IN c.op = "insert_encrypt" /\ c.what = what /\ c.size = 32
  /\ \A size : LET c == Exactly(size) IN c.op = "exactly" /\ c.size = size
  /\ \A size : LET c == Scribble(size) IN c.op = "scribble" /\ c.size = size
  /\ \A size : LET c == Number(size) IN c.op = "add_to_tx_prefix" /\ c.what = "varint" /\ c.size = size
  /\ \A amount : LET c == Show(amount) IN c.op = "amount2str" /\ c.size = 15
  /\ Discard(TRUE).op = "clear"
  /\ Discard(FALSE).op = "discard"
  /\ Ask.op = "ends"
BY DEF Call, Fetch, Point, Peek, Use, Rest, Insert, Sealed, Key, Seal, Exactly, Scribble, Number, Show,
       Discard, Ask

LEMMA FetchBehind ==
  ASSUME NEW c, NEW i \in DOMAIN c.calls, c.calls[i].op = "fetch",
         NEW k \in 1 .. i - 1, c.calls[k].op = "fetch_decrypt_key"
  PROVE  BehindKey(c) # {}
<1>1. i \in {j \in DOMAIN c.calls : c.calls[j].op = "fetch" /\ \E m \in 1 .. j - 1 : c.calls[m].op = "fetch_decrypt_key"}
  OBVIOUS
<1>2. c.calls[i].what \in BehindKey(c)
  BY <1>1 DEF BehindKey
<1> QED BY <1>2

LEMMA PutKeyRegular ==
  /\ Regular(put_key.calls, 8, 7)
  /\ KeyLast(put_key.calls)
<1> DEFINE o == Fetch("options", 1)
           a1 == Exactly(226)
           a2 == Fetch("a", 32)
           a3 == Fetch("A", 32)
           a4 == Fetch("b", 32)
           a5 == Fetch("B", 32)
           a6 == Rest("address", 97)
           a7 == Discard(TRUE)
           calls == << o >> \o << a1, a2, a3, a4, a5, a6, a7 >>
<1>1. put_key.calls = calls
  BY CommandCalls, Zenon DEF put_key
<1>2. /\ o.op = "fetch" /\ o.what = "options" /\ o.size = 1
      /\ a1.op = "exactly" /\ a1.size = 226
      /\ a2.op = "fetch" /\ a2.what = "a" /\ a2.size = 32
      /\ a3.op = "fetch" /\ a3.what = "A" /\ a3.size = 32
      /\ a4.op = "fetch" /\ a4.what = "b" /\ a4.size = 32
      /\ a5.op = "fetch" /\ a5.what = "B" /\ a5.size = 32
      /\ a6.op = "rest" /\ a6.what = "address" /\ a6.size = 97
      /\ a7.op = "clear"
  BY DEF Call, Fetch, Exactly, Rest, Discard
<1> HIDE DEF o, a1, a2, a3, a4, a5, a6, a7
<1>3. /\ Len(calls) = 8 /\ DOMAIN calls = 1 .. 8 /\ calls[1] = o /\ calls[2] = a1 /\ calls[3] = a2
      /\ calls[4] = a3 /\ calls[5] = a4 /\ calls[6] = a5 /\ calls[7] = a6 /\ calls[8] = a7
  OBVIOUS
<1> HIDE DEF calls
<1>4. /\ calls[1].op = "fetch" /\ calls[1].what = "options" /\ calls[1].size = 1
      /\ calls[2].op = "exactly" /\ calls[2].size = 226
      /\ calls[3].op = "fetch" /\ calls[3].what = "a" /\ calls[3].size = 32
      /\ calls[4].op = "fetch" /\ calls[4].what = "A" /\ calls[4].size = 32
      /\ calls[5].op = "fetch" /\ calls[5].what = "b" /\ calls[5].size = 32
      /\ calls[6].op = "fetch" /\ calls[6].what = "B" /\ calls[6].size = 32
      /\ calls[7].op = "rest" /\ calls[7].what = "address" /\ calls[7].size = 97
      /\ calls[8].op = "clear"
  BY <1>2, <1>3
<1>5. ReadsTo(calls, 8)
  BY <1>3, <1>4 DEF ReadsTo, Reader, ReadOps, Octets
<1>6. \A i \in 1 .. 8 : IsKey(calls[i]) => i \in {}
  BY <1>4 DEF IsKey
<1>7. \A i \in 1 .. 8 : IsRest(calls[i]) => i \in {7}
  BY <1>4 DEF IsRest
<1>8. \A i \in 1 .. 8 : IsPointer(calls[i]) => i \in {}
  BY <1>4 DEF IsPointer
<1>9. \A i \in 1 .. 8 : Sends(calls[i]) => i \in {1, 3, 4, 5, 6, 7}
  BY <1>4 DEF Sends, SentOps
<1>10. TailCalls(calls, 8, 7)
  BY <1>3, <1>4 DEF TailOps, TailCalls
<1>11. 7 \in Nat /\ 8 - 1 <= 7 /\ 7 <= Len(calls)
  BY <1>3
<1>12. UsesPointers(calls, 8)
  BY <1>3, <1>4 DEF UsesPointers
<1>13. PointersDiffer(calls)
  BY <1>3, <1>8, Zenon DEF PointersDiffer
<1>14. \A i \in 1 .. 8 : ~Behind(calls, i)
  BY <1>6 DEF Behind
<1>15. LateDiffer(calls)
  BY <1>3, <1>14, Zenon DEF LateDiffer
<1>16. KeyEnds(calls)
  BY <1>3, <1>6, Zenon DEF KeyEnds
<1>17. RestLast(calls)
  BY <1>3, <1>7, <1>9 DEF RestLast
<1>18. IsOptions(calls[1])
  BY <1>4 DEF IsOptions
<1>19. ShowsAmounts(calls)
  BY <1>3, <1>4 DEF ShowsAmounts, Showing
<1>20. Regular(calls, 8, 7)
  BY <1>18, <1>5, <1>10, <1>11, <1>12, <1>13, <1>15, <1>17, <1>16, <1>19 DEF Regular
<1>21. KeyLast(calls)
  BY <1>3, <1>6, Zenon DEF KeyLast
<1> QED BY <1>1, <1>20, <1>21

LEMMA SeedwordsRegular ==
  /\ Regular(manage_seedwords.calls, 6, 5)
  /\ KeyLast(manage_seedwords.calls)
<1> DEFINE o == Fetch("options", 1)
           a1 == Fetch("w_start", 4)
           a2 == Fetch("w_count", 4)
           a3 == Peek("words", 230)
           a4 == Use("words", 230)
           a5 == Discard(TRUE)
           a6 == Scribble(96)
           calls == << o >> \o << a1, a2, a3, a4, a5, a6 >>
<1>1. manage_seedwords.calls = calls
  BY CommandCalls, Zenon DEF manage_seedwords
<1>2. /\ o.op = "fetch" /\ o.what = "options" /\ o.size = 1
      /\ a1.op = "fetch" /\ a1.what = "w_start" /\ a1.size = 4
      /\ a2.op = "fetch" /\ a2.what = "w_count" /\ a2.size = 4
      /\ a3.op = "peek" /\ a3.what = "words" /\ a3.size = 230
      /\ a4.op = "use" /\ a4.what = "words" /\ a4.size = 230
      /\ a5.op = "clear"
      /\ a6.op = "scribble"
  BY DEF Call, Fetch, Peek, Use, Discard, Scribble
<1> HIDE DEF o, a1, a2, a3, a4, a5, a6
<1>3. /\ Len(calls) = 7 /\ DOMAIN calls = 1 .. 7 /\ calls[1] = o /\ calls[2] = a1 /\ calls[3] = a2
      /\ calls[4] = a3 /\ calls[5] = a4 /\ calls[6] = a5 /\ calls[7] = a6
  OBVIOUS
<1> HIDE DEF calls
<1>4. /\ calls[1].op = "fetch" /\ calls[1].what = "options" /\ calls[1].size = 1
      /\ calls[2].op = "fetch" /\ calls[2].what = "w_start" /\ calls[2].size = 4
      /\ calls[3].op = "fetch" /\ calls[3].what = "w_count" /\ calls[3].size = 4
      /\ calls[4].op = "peek" /\ calls[4].what = "words" /\ calls[4].size = 230
      /\ calls[5].op = "use" /\ calls[5].what = "words" /\ calls[5].size = 230
      /\ calls[6].op = "clear"
      /\ calls[7].op = "scribble"
  BY <1>2, <1>3
<1>5. ReadsTo(calls, 6)
  BY <1>3, <1>4 DEF ReadsTo, Reader, ReadOps, Octets
<1>6. \A i \in 1 .. 7 : IsKey(calls[i]) => i \in {}
  BY <1>4 DEF IsKey
<1>7. \A i \in 1 .. 7 : IsRest(calls[i]) => i \in {4}
  BY <1>4 DEF IsRest
<1>8. \A i \in 1 .. 7 : IsPointer(calls[i]) => i \in {4}
  BY <1>4 DEF IsPointer
<1>9. \A i \in 1 .. 7 : Sends(calls[i]) => i \in {1, 2, 3, 4}
  BY <1>4 DEF Sends, SentOps
<1>10. TailCalls(calls, 6, 5)
  BY <1>3, <1>4 DEF TailOps, TailCalls
<1>11. 5 \in Nat /\ 6 - 1 <= 5 /\ 5 <= Len(calls)
  BY <1>3
<1>12. \A i \in 1 .. 7 : calls[i].op = "use" => i \in {5}
  BY <1>4
<1>13. /\ 4 \in 1 .. 5 - 1 /\ 4 < 6 /\ IsPointer(calls[4]) /\ calls[4].what = calls[5].what /\ calls[4].size = calls[5].size
  BY <1>4 DEF IsPointer
<1>14. UsesPointers(calls, 6)
  BY <1>3, <1>12, <1>13 DEF UsesPointers
<1>15. PointersDiffer(calls)
  BY <1>3, <1>4, <1>8 DEF PointersDiffer
<1>16. \A i \in 1 .. 7 : ~Behind(calls, i)
  BY <1>6 DEF Behind
<1>17. LateDiffer(calls)
  BY <1>3, <1>16, Zenon DEF LateDiffer
<1>18. KeyEnds(calls)
  BY <1>3, <1>6, Zenon DEF KeyEnds
<1>19. RestLast(calls)
  BY <1>3, <1>7, <1>9 DEF RestLast
<1>20. IsOptions(calls[1])
  BY <1>4 DEF IsOptions
<1>21. ShowsAmounts(calls)
  BY <1>3, <1>4 DEF ShowsAmounts, Showing
<1>22. Regular(calls, 6, 5)
  BY <1>20, <1>5, <1>10, <1>11, <1>14, <1>15, <1>17, <1>19, <1>18, <1>21 DEF Regular
<1>23. KeyLast(calls)
  BY <1>3, <1>6, Zenon DEF KeyLast
<1> QED BY <1>1, <1>22, <1>23

\* What is left out of an extra field that no command can hold.
LEMMA ClaimedShape ==
  ASSUME NEW size \in ClaimedSizes, NEW calls, calls = tx_prefix_extra_claimed(size).calls
  PROVE  /\ Len(calls) = 7 /\ DOMAIN calls = 1 .. 7
         /\ calls[1].op = "fetch" /\ calls[1].what = "options" /\ calls[1].size = 1
         /\ calls[2].op = "fetch" /\ calls[2].what = "extra_size" /\ calls[2].size = 4
         /\ calls[3].op = "rest" /\ calls[3].what = "extra" /\ calls[3].size = 251
         /\ calls[4].op = "skip" /\ calls[4].what = "extra" /\ calls[4].size = size
         /\ calls[5].op = "discard"
         /\ calls[6].op = "add_to_tx_prefix" /\ calls[6].size = size
         /\ calls[7].op = "fault"
<1> DEFINE o == Fetch("options", 1)
           a1 == Fetch("extra_size", 4)
           a2 == Rest("extra", 251)
           a3 == Skip("extra", size)
           a4 == Discard(FALSE)
           a5 == Number(size)
           a6 == Fault
<1>1. calls = << o >> \o << a1, a2, a3, a4, a5, a6 >>
  BY CommandCalls, Zenon DEF tx_prefix_extra_claimed
<1>2. /\ o.op = "fetch" /\ o.what = "options" /\ o.size = 1
      /\ a1.op = "fetch" /\ a1.what = "extra_size" /\ a1.size = 4
      /\ a2.op = "rest" /\ a2.what = "extra" /\ a2.size = 251
      /\ a3.op = "skip" /\ a3.what = "extra" /\ a3.size = size
      /\ a4.op = "discard"
      /\ a5.op = "add_to_tx_prefix" /\ a5.size = size
      /\ a6.op = "fault"
  BY DEF Call, Fetch, Rest, Skip, Discard, Number, Fault
<1> HIDE DEF o, a1, a2, a3, a4, a5, a6
<1>3. /\ Len(calls) = 7 /\ DOMAIN calls = 1 .. 7 /\ calls[1] = o /\ calls[2] = a1 /\ calls[3] = a2
      /\ calls[4] = a3 /\ calls[5] = a4 /\ calls[6] = a5 /\ calls[7] = a6
  BY <1>1
<1> QED BY <1>2, <1>3

LEMMA ClaimedRegular ==
  ASSUME NEW size \in ClaimedSizes
  PROVE  Regular(tx_prefix_extra_claimed(size).calls, 5, 4)
<1> DEFINE calls == tx_prefix_extra_claimed(size).calls
<1>1. PICK cs : cs = calls
  OBVIOUS
<1> HIDE DEF calls
<1>2. /\ Len(cs) = 7 /\ DOMAIN cs = 1 .. 7
      /\ cs[1].op = "fetch" /\ cs[1].what = "options" /\ cs[1].size = 1
      /\ cs[2].op = "fetch" /\ cs[2].what = "extra_size" /\ cs[2].size = 4
      /\ cs[3].op = "rest" /\ cs[3].what = "extra" /\ cs[3].size = 251
      /\ cs[4].op = "skip" /\ cs[5].op = "discard" /\ cs[6].op = "add_to_tx_prefix" /\ cs[7].op = "fault"
  BY <1>1, ClaimedShape DEF calls
<1>3. ReadsTo(cs, 5)
  <2>1. Reader(cs[1]) /\ Reader(cs[2]) /\ Reader(cs[3]) /\ Reader(cs[4])
    BY <1>2 DEF Reader, ReadOps, Octets
  <2> QED BY <1>2, <2>1 DEF ReadsTo
<1>4. \A i \in 1 .. 7 : ~IsKey(cs[i]) /\ ~IsPointer(cs[i]) /\ cs[i].op # "use"
  BY <1>2 DEF IsKey, IsPointer
<1>5. \A i \in 1 .. 7 : IsRest(cs[i]) => i = 3
  BY <1>2 DEF IsRest
<1>6. \A i \in 1 .. 7 : Sends(cs[i]) => i \in {1, 2, 3}
  BY <1>2 DEF Sends, SentOps
<1>7. TailCalls(cs, 5, 4)
  BY <1>2 DEF TailOps, TailCalls
<1>8. 4 \in Nat /\ 5 - 1 <= 4 /\ 4 <= Len(cs)
  BY <1>2
<1>9. UsesPointers(cs, 5) /\ PointersDiffer(cs)
  BY <1>2, <1>4 DEF UsesPointers, PointersDiffer
<1>10. LateDiffer(cs)
  <2>1. \A i \in 1 .. 7 : ~Behind(cs, i)
    BY <1>4 DEF Behind
  <2> QED BY <1>2, <2>1, Zenon DEF LateDiffer
<1>11. KeyEnds(cs)
  BY <1>2, <1>4, Zenon DEF KeyEnds
<1>12. RestLast(cs)
  BY <1>2, <1>5, <1>6 DEF RestLast
<1>13. IsOptions(cs[1])
  BY <1>2 DEF IsOptions
<1>14. ShowsAmounts(cs)
  BY <1>2 DEF ShowsAmounts, Showing
<1>15. Regular(cs, 5, 4)
  BY <1>3, <1>7, <1>8, <1>9, <1>10, <1>11, <1>12, <1>13, <1>14 DEF Regular
<1> QED BY <1>1, <1>15 DEF calls

LEMMA VerifyKeyRegular ==
  /\ Regular(verify_key.calls, 4, 3)
  /\ AllFetched(verify_key.calls)
  /\ BehindKey(verify_key) # {}
<1> DEFINE o == Fetch("options", 1)
           a1 == Key("priv")
           a2 == Fetch("pub", 32)
           a3 == Discard(TRUE)
           a4 == Insert("verified", 4)
           calls == << o >> \o << a1, a2, a3, a4 >>
<1>1. verify_key.calls = calls
  BY CommandCalls, Zenon DEF verify_key
<1>2. /\ o.op = "fetch" /\ o.what = "options" /\ o.size = 1
      /\ a1.op = "fetch_decrypt_key" /\ a1.what = "priv" /\ a1.size = 32
      /\ a2.op = "fetch" /\ a2.what = "pub" /\ a2.size = 32
      /\ a3.op = "clear"
      /\ a4.op = "insert"
  BY DEF Call, Fetch, Key, Discard, Insert
<1> HIDE DEF o, a1, a2, a3, a4
<1>3. /\ Len(calls) = 5 /\ DOMAIN calls = 1 .. 5 /\ calls[1] = o /\ calls[2] = a1 /\ calls[3] = a2
      /\ calls[4] = a3 /\ calls[5] = a4
  OBVIOUS
<1> HIDE DEF calls
<1>4. /\ calls[1].op = "fetch" /\ calls[1].what = "options" /\ calls[1].size = 1
      /\ calls[2].op = "fetch_decrypt_key" /\ calls[2].what = "priv" /\ calls[2].size = 32
      /\ calls[3].op = "fetch" /\ calls[3].what = "pub" /\ calls[3].size = 32
      /\ calls[4].op = "clear"
      /\ calls[5].op = "insert"
  BY <1>2, <1>3
<1>5. ReadsTo(calls, 4)
  BY <1>3, <1>4 DEF ReadsTo, Reader, ReadOps, Octets
<1>6. \A i \in 1 .. 5 : IsKey(calls[i]) => i \in {2}
  BY <1>4 DEF IsKey
<1>7. \A i \in 1 .. 5 : IsRest(calls[i]) => i \in {}
  BY <1>4 DEF IsRest
<1>8. \A i \in 1 .. 5 : IsPointer(calls[i]) => i \in {}
  BY <1>4 DEF IsPointer
<1>9. \A i \in 1 .. 5 : Sends(calls[i]) => i \in {1, 2, 3}
  BY <1>4 DEF Sends, SentOps
<1>10. TailCalls(calls, 4, 3)
  BY <1>3, <1>4 DEF TailOps, TailCalls
<1>11. 3 \in Nat /\ 4 - 1 <= 3 /\ 3 <= Len(calls)
  BY <1>3
<1>12. UsesPointers(calls, 4)
  BY <1>3, <1>4 DEF UsesPointers
<1>13. PointersDiffer(calls)
  BY <1>3, <1>8, Zenon DEF PointersDiffer
<1>14. \A i \in 1 .. 5 : Behind(calls, i) => i > 2
  BY <1>6 DEF Behind
<1>15. LateDiffer(calls)
  BY <1>3, <1>4, <1>9, <1>14 DEF LateDiffer, IsRest
<1>16. KeyEnds(calls)
  BY <1>3, <1>4 DEF KeyEnds
<1>17. RestLast(calls)
  BY <1>3, <1>7, Zenon DEF RestLast
<1>18. IsOptions(calls[1])
  BY <1>4 DEF IsOptions
<1>19. ShowsAmounts(calls)
  BY <1>3, <1>4 DEF ShowsAmounts, Showing
<1>20. Regular(calls, 4, 3)
  BY <1>18, <1>5, <1>10, <1>11, <1>12, <1>13, <1>15, <1>17, <1>16, <1>19 DEF Regular
<1>21. AllFetched(calls)
  BY <1>3, <1>7, Zenon DEF AllFetched
<1>22. BehindKey(verify_key) # {}
  <2>1. verify_key.calls[3].op = "fetch" /\ 3 \in DOMAIN verify_key.calls
    BY <1>1, <1>3, <1>4
  <2>2. verify_key.calls[2].op = "fetch_decrypt_key" /\ 2 \in 1 .. 3 - 1
    BY <1>1, <1>4
  <2> QED BY <2>1, <2>2, FetchBehind
<1> QED BY <1>1, <1>20, <1>21, <1>22

LEMMA ScalMulKeyRegular ==
  /\ Regular(scal_mul_key.calls, 4, 3)
  /\ AllFetched(scal_mul_key.calls)
  /\ KeyLast(scal_mul_key.calls)
<1> DEFINE o == Fetch("options", 1)
           a1 == Fetch("pub", 32)
           a2 == Key("sec")
           a3 == Discard(FALSE)
           a4 == Insert("r", 32)
           calls == << o >> \o << a1, a2, a3, a4 >>
<1>1. scal_mul_key.calls = calls
  BY CommandCalls, Zenon DEF scal_mul_key
<1>2. /\ o.op = "fetch" /\ o.what = "options" /\ o.size = 1
      /\ a1.op = "fetch" /\ a1.what = "pub" /\ a1.size = 32
      /\ a2.op = "fetch_decrypt_key" /\ a2.what = "sec" /\ a2.size = 32
      /\ a3.op = "discard"
      /\ a4.op = "insert"
  BY DEF Call, Fetch, Key, Discard, Insert
<1> HIDE DEF o, a1, a2, a3, a4
<1>3. /\ Len(calls) = 5 /\ DOMAIN calls = 1 .. 5 /\ calls[1] = o /\ calls[2] = a1 /\ calls[3] = a2
      /\ calls[4] = a3 /\ calls[5] = a4
  OBVIOUS
<1> HIDE DEF calls
<1>4. /\ calls[1].op = "fetch" /\ calls[1].what = "options" /\ calls[1].size = 1
      /\ calls[2].op = "fetch" /\ calls[2].what = "pub" /\ calls[2].size = 32
      /\ calls[3].op = "fetch_decrypt_key" /\ calls[3].what = "sec" /\ calls[3].size = 32
      /\ calls[4].op = "discard"
      /\ calls[5].op = "insert"
  BY <1>2, <1>3
<1>5. ReadsTo(calls, 4)
  BY <1>3, <1>4 DEF ReadsTo, Reader, ReadOps, Octets
<1>6. \A i \in 1 .. 5 : IsKey(calls[i]) => i \in {3}
  BY <1>4 DEF IsKey
<1>7. \A i \in 1 .. 5 : IsRest(calls[i]) => i \in {}
  BY <1>4 DEF IsRest
<1>8. \A i \in 1 .. 5 : IsPointer(calls[i]) => i \in {}
  BY <1>4 DEF IsPointer
<1>9. \A i \in 1 .. 5 : Sends(calls[i]) => i \in {1, 2, 3}
  BY <1>4 DEF Sends, SentOps
<1>10. TailCalls(calls, 4, 3)
  BY <1>3, <1>4 DEF TailOps, TailCalls
<1>11. 3 \in Nat /\ 4 - 1 <= 3 /\ 3 <= Len(calls)
  BY <1>3
<1>12. UsesPointers(calls, 4)
  BY <1>3, <1>4 DEF UsesPointers
<1>13. PointersDiffer(calls)
  BY <1>3, <1>8, Zenon DEF PointersDiffer
<1>14. \A i \in 1 .. 5 : Behind(calls, i) => i > 3
  BY <1>6 DEF Behind
<1>15. LateDiffer(calls)
  BY <1>3, <1>4, <1>9, <1>14 DEF LateDiffer, IsRest
<1>16. KeyEnds(calls)
  BY <1>3, <1>4 DEF KeyEnds
<1>17. RestLast(calls)
  BY <1>3, <1>7, Zenon DEF RestLast
<1>18. IsOptions(calls[1])
  BY <1>4 DEF IsOptions
<1>19. ShowsAmounts(calls)
  BY <1>3, <1>4 DEF ShowsAmounts, Showing
<1>20. Regular(calls, 4, 3)
  BY <1>18, <1>5, <1>10, <1>11, <1>12, <1>13, <1>15, <1>17, <1>16, <1>19 DEF Regular
<1>21. AllFetched(calls)
  BY <1>3, <1>7, Zenon DEF AllFetched
<1>22. KeyLast(calls)
  BY <1>3, <1>6, <1>9 DEF KeyLast
<1> QED BY <1>1, <1>20, <1>21, <1>22

LEMMA DerivationRegular ==
  /\ Regular(generate_key_derivation.calls, 4, 3)
  /\ AllFetched(generate_key_derivation.calls)
  /\ KeyLast(generate_key_derivation.calls)
<1> DEFINE o == Fetch("options", 1)
           a1 == Fetch("pub", 32)
           a2 == Key("sec")
           a3 == Discard(FALSE)
           a4 == Seal("drv")
           calls == << o >> \o << a1, a2, a3, a4 >>
<1>1. generate_key_derivation.calls = calls
  BY CommandCalls, Zenon DEF generate_key_derivation
<1>2. /\ o.op = "fetch" /\ o.what = "options" /\ o.size = 1
      /\ a1.op = "fetch" /\ a1.what = "pub" /\ a1.size = 32
      /\ a2.op = "fetch_decrypt_key" /\ a2.what = "sec" /\ a2.size = 32
      /\ a3.op = "discard"
      /\ a4.op = "insert_encrypt"
  BY DEF Call, Fetch, Key, Discard, Seal
<1> HIDE DEF o, a1, a2, a3, a4
<1>3. /\ Len(calls) = 5 /\ DOMAIN calls = 1 .. 5 /\ calls[1] = o /\ calls[2] = a1 /\ calls[3] = a2
      /\ calls[4] = a3 /\ calls[5] = a4
  OBVIOUS
<1> HIDE DEF calls
<1>4. /\ calls[1].op = "fetch" /\ calls[1].what = "options" /\ calls[1].size = 1
      /\ calls[2].op = "fetch" /\ calls[2].what = "pub" /\ calls[2].size = 32
      /\ calls[3].op = "fetch_decrypt_key" /\ calls[3].what = "sec" /\ calls[3].size = 32
      /\ calls[4].op = "discard"
      /\ calls[5].op = "insert_encrypt"
  BY <1>2, <1>3
<1>5. ReadsTo(calls, 4)
  BY <1>3, <1>4 DEF ReadsTo, Reader, ReadOps, Octets
<1>6. \A i \in 1 .. 5 : IsKey(calls[i]) => i \in {3}
  BY <1>4 DEF IsKey
<1>7. \A i \in 1 .. 5 : IsRest(calls[i]) => i \in {}
  BY <1>4 DEF IsRest
<1>8. \A i \in 1 .. 5 : IsPointer(calls[i]) => i \in {}
  BY <1>4 DEF IsPointer
<1>9. \A i \in 1 .. 5 : Sends(calls[i]) => i \in {1, 2, 3}
  BY <1>4 DEF Sends, SentOps
<1>10. TailCalls(calls, 4, 3)
  BY <1>3, <1>4 DEF TailOps, TailCalls
<1>11. 3 \in Nat /\ 4 - 1 <= 3 /\ 3 <= Len(calls)
  BY <1>3
<1>12. UsesPointers(calls, 4)
  BY <1>3, <1>4 DEF UsesPointers
<1>13. PointersDiffer(calls)
  BY <1>3, <1>8, Zenon DEF PointersDiffer
<1>14. \A i \in 1 .. 5 : Behind(calls, i) => i > 3
  BY <1>6 DEF Behind
<1>15. LateDiffer(calls)
  BY <1>3, <1>4, <1>9, <1>14 DEF LateDiffer, IsRest
<1>16. KeyEnds(calls)
  BY <1>3, <1>4 DEF KeyEnds
<1>17. RestLast(calls)
  BY <1>3, <1>7, Zenon DEF RestLast
<1>18. IsOptions(calls[1])
  BY <1>4 DEF IsOptions
<1>19. ShowsAmounts(calls)
  BY <1>3, <1>4 DEF ShowsAmounts, Showing
<1>20. Regular(calls, 4, 3)
  BY <1>18, <1>5, <1>10, <1>11, <1>12, <1>13, <1>15, <1>17, <1>16, <1>19 DEF Regular
<1>21. AllFetched(calls)
  BY <1>3, <1>7, Zenon DEF AllFetched
<1>22. KeyLast(calls)
  BY <1>3, <1>6, <1>9 DEF KeyLast
<1> QED BY <1>1, <1>20, <1>21, <1>22

LEMMA SecretKeyRegular ==
  /\ Regular(derive_secret_key.calls, 5, 4)
  /\ AllFetched(derive_secret_key.calls)
  /\ KeyLast(derive_secret_key.calls)
<1> DEFINE o == Fetch("options", 1)
           a1 == Sealed("derivation")
           a2 == Fetch("output_index", 4)
           a3 == Key("sec")
           a4 == Discard(FALSE)
           a5 == Seal("drvsec")
           calls == << o >> \o << a1, a2, a3, a4, a5 >>
<1>1. derive_secret_key.calls = calls
  BY CommandCalls, Zenon DEF derive_secret_key
<1>2. /\ o.op = "fetch" /\ o.what = "options" /\ o.size = 1
      /\ a1.op = "fetch_decrypt" /\ a1.what = "derivation" /\ a1.size = 32
      /\ a2.op = "fetch" /\ a2.what = "output_index" /\ a2.size = 4
      /\ a3.op = "fetch_decrypt_key" /\ a3.what = "sec" /\ a3.size = 32
      /\ a4.op = "discard"
      /\ a5.op = "insert_encrypt"
  BY DEF Call, Fetch, Sealed, Key, Discard, Seal
<1> HIDE DEF o, a1, a2, a3, a4, a5
<1>3. /\ Len(calls) = 6 /\ DOMAIN calls = 1 .. 6 /\ calls[1] = o /\ calls[2] = a1 /\ calls[3] = a2
      /\ calls[4] = a3 /\ calls[5] = a4 /\ calls[6] = a5
  OBVIOUS
<1> HIDE DEF calls
<1>4. /\ calls[1].op = "fetch" /\ calls[1].what = "options" /\ calls[1].size = 1
      /\ calls[2].op = "fetch_decrypt" /\ calls[2].what = "derivation" /\ calls[2].size = 32
      /\ calls[3].op = "fetch" /\ calls[3].what = "output_index" /\ calls[3].size = 4
      /\ calls[4].op = "fetch_decrypt_key" /\ calls[4].what = "sec" /\ calls[4].size = 32
      /\ calls[5].op = "discard"
      /\ calls[6].op = "insert_encrypt"
  BY <1>2, <1>3
<1>5. ReadsTo(calls, 5)
  BY <1>3, <1>4 DEF ReadsTo, Reader, ReadOps, Octets
<1>6. \A i \in 1 .. 6 : IsKey(calls[i]) => i \in {4}
  BY <1>4 DEF IsKey
<1>7. \A i \in 1 .. 6 : IsRest(calls[i]) => i \in {}
  BY <1>4 DEF IsRest
<1>8. \A i \in 1 .. 6 : IsPointer(calls[i]) => i \in {}
  BY <1>4 DEF IsPointer
<1>9. \A i \in 1 .. 6 : Sends(calls[i]) => i \in {1, 2, 3, 4}
  BY <1>4 DEF Sends, SentOps
<1>10. TailCalls(calls, 5, 4)
  BY <1>3, <1>4 DEF TailOps, TailCalls
<1>11. 4 \in Nat /\ 5 - 1 <= 4 /\ 4 <= Len(calls)
  BY <1>3
<1>12. UsesPointers(calls, 5)
  BY <1>3, <1>4 DEF UsesPointers
<1>13. PointersDiffer(calls)
  BY <1>3, <1>8, Zenon DEF PointersDiffer
<1>14. \A i \in 1 .. 6 : Behind(calls, i) => i > 4
  BY <1>6 DEF Behind
<1>15. LateDiffer(calls)
  BY <1>3, <1>4, <1>9, <1>14 DEF LateDiffer, IsRest
<1>16. KeyEnds(calls)
  BY <1>3, <1>4 DEF KeyEnds
<1>17. RestLast(calls)
  BY <1>3, <1>7, Zenon DEF RestLast
<1>18. IsOptions(calls[1])
  BY <1>4 DEF IsOptions
<1>19. ShowsAmounts(calls)
  BY <1>3, <1>4 DEF ShowsAmounts, Showing
<1>20. Regular(calls, 5, 4)
  BY <1>18, <1>5, <1>10, <1>11, <1>12, <1>13, <1>15, <1>17, <1>16, <1>19 DEF Regular
<1>21. AllFetched(calls)
  BY <1>3, <1>7, Zenon DEF AllFetched
<1>22. KeyLast(calls)
  BY <1>3, <1>6, <1>9 DEF KeyLast
<1> QED BY <1>1, <1>20, <1>21, <1>22

LEMMA SubaddressRegular ==
  /\ Regular(get_subaddress_secret_key.calls, 4, 3)
  /\ AllFetched(get_subaddress_secret_key.calls)
  /\ BehindKey(get_subaddress_secret_key) # {}
<1> DEFINE o == Fetch("options", 1)
           a1 == Key("sec")
           a2 == Fetch("index", 8)
           a3 == Discard(FALSE)
           a4 == Seal("sub_sec")
           calls == << o >> \o << a1, a2, a3, a4 >>
<1>1. get_subaddress_secret_key.calls = calls
  BY CommandCalls, Zenon DEF get_subaddress_secret_key
<1>2. /\ o.op = "fetch" /\ o.what = "options" /\ o.size = 1
      /\ a1.op = "fetch_decrypt_key" /\ a1.what = "sec" /\ a1.size = 32
      /\ a2.op = "fetch" /\ a2.what = "index" /\ a2.size = 8
      /\ a3.op = "discard"
      /\ a4.op = "insert_encrypt"
  BY DEF Call, Fetch, Key, Discard, Seal
<1> HIDE DEF o, a1, a2, a3, a4
<1>3. /\ Len(calls) = 5 /\ DOMAIN calls = 1 .. 5 /\ calls[1] = o /\ calls[2] = a1 /\ calls[3] = a2
      /\ calls[4] = a3 /\ calls[5] = a4
  OBVIOUS
<1> HIDE DEF calls
<1>4. /\ calls[1].op = "fetch" /\ calls[1].what = "options" /\ calls[1].size = 1
      /\ calls[2].op = "fetch_decrypt_key" /\ calls[2].what = "sec" /\ calls[2].size = 32
      /\ calls[3].op = "fetch" /\ calls[3].what = "index" /\ calls[3].size = 8
      /\ calls[4].op = "discard"
      /\ calls[5].op = "insert_encrypt"
  BY <1>2, <1>3
<1>5. ReadsTo(calls, 4)
  BY <1>3, <1>4 DEF ReadsTo, Reader, ReadOps, Octets
<1>6. \A i \in 1 .. 5 : IsKey(calls[i]) => i \in {2}
  BY <1>4 DEF IsKey
<1>7. \A i \in 1 .. 5 : IsRest(calls[i]) => i \in {}
  BY <1>4 DEF IsRest
<1>8. \A i \in 1 .. 5 : IsPointer(calls[i]) => i \in {}
  BY <1>4 DEF IsPointer
<1>9. \A i \in 1 .. 5 : Sends(calls[i]) => i \in {1, 2, 3}
  BY <1>4 DEF Sends, SentOps
<1>10. TailCalls(calls, 4, 3)
  BY <1>3, <1>4 DEF TailOps, TailCalls
<1>11. 3 \in Nat /\ 4 - 1 <= 3 /\ 3 <= Len(calls)
  BY <1>3
<1>12. UsesPointers(calls, 4)
  BY <1>3, <1>4 DEF UsesPointers
<1>13. PointersDiffer(calls)
  BY <1>3, <1>8, Zenon DEF PointersDiffer
<1>14. \A i \in 1 .. 5 : Behind(calls, i) => i > 2
  BY <1>6 DEF Behind
<1>15. LateDiffer(calls)
  BY <1>3, <1>4, <1>9, <1>14 DEF LateDiffer, IsRest
<1>16. KeyEnds(calls)
  BY <1>3, <1>4 DEF KeyEnds
<1>17. RestLast(calls)
  BY <1>3, <1>7, Zenon DEF RestLast
<1>18. IsOptions(calls[1])
  BY <1>4 DEF IsOptions
<1>19. ShowsAmounts(calls)
  BY <1>3, <1>4 DEF ShowsAmounts, Showing
<1>20. Regular(calls, 4, 3)
  BY <1>18, <1>5, <1>10, <1>11, <1>12, <1>13, <1>15, <1>17, <1>16, <1>19 DEF Regular
<1>21. AllFetched(calls)
  BY <1>3, <1>7, Zenon DEF AllFetched
<1>22. BehindKey(get_subaddress_secret_key) # {}
  <2>1. get_subaddress_secret_key.calls[3].op = "fetch" /\ 3 \in DOMAIN get_subaddress_secret_key.calls
    BY <1>1, <1>3, <1>4
  <2>2. get_subaddress_secret_key.calls[2].op = "fetch_decrypt_key" /\ 2 \in 1 .. 3 - 1
    BY <1>1, <1>4
  <2> QED BY <2>1, <2>2, FetchBehind
<1> QED BY <1>1, <1>20, <1>21, <1>22

LEMMA StealthRegular ==
  /\ Regular(stealth.calls, 5, 4)
  /\ AllFetched(stealth.calls)
  /\ BehindKey(stealth) # {}
<1> DEFINE o == Fetch("options", 1)
           a1 == Fetch("pub", 32)
           a2 == Key("sec")
           a3 == Fetch("payID", 8)
           a4 == Discard(FALSE)
           a5 == Insert("payID", 8)
           calls == << o >> \o << a1, a2, a3, a4, a5 >>
<1>1. stealth.calls = calls
  BY CommandCalls, Zenon DEF stealth
<1>2. /\ o.op = "fetch" /\ o.what = "options" /\ o.size = 1
      /\ a1.op = "fetch" /\ a1.what = "pub" /\ a1.size = 32
      /\ a2.op = "fetch_decrypt_key" /\ a2.what = "sec" /\ a2.size = 32
      /\ a3.op = "fetch" /\ a3.what = "payID" /\ a3.size = 8
      /\ a4.op = "discard"
      /\ a5.op = "insert"
  BY DEF Call, Fetch, Key, Discard, Insert
<1> HIDE DEF o, a1, a2, a3, a4, a5
<1>3. /\ Len(calls) = 6 /\ DOMAIN calls = 1 .. 6 /\ calls[1] = o /\ calls[2] = a1 /\ calls[3] = a2
      /\ calls[4] = a3 /\ calls[5] = a4 /\ calls[6] = a5
  OBVIOUS
<1> HIDE DEF calls
<1>4. /\ calls[1].op = "fetch" /\ calls[1].what = "options" /\ calls[1].size = 1
      /\ calls[2].op = "fetch" /\ calls[2].what = "pub" /\ calls[2].size = 32
      /\ calls[3].op = "fetch_decrypt_key" /\ calls[3].what = "sec" /\ calls[3].size = 32
      /\ calls[4].op = "fetch" /\ calls[4].what = "payID" /\ calls[4].size = 8
      /\ calls[5].op = "discard"
      /\ calls[6].op = "insert"
  BY <1>2, <1>3
<1>5. ReadsTo(calls, 5)
  BY <1>3, <1>4 DEF ReadsTo, Reader, ReadOps, Octets
<1>6. \A i \in 1 .. 6 : IsKey(calls[i]) => i \in {3}
  BY <1>4 DEF IsKey
<1>7. \A i \in 1 .. 6 : IsRest(calls[i]) => i \in {}
  BY <1>4 DEF IsRest
<1>8. \A i \in 1 .. 6 : IsPointer(calls[i]) => i \in {}
  BY <1>4 DEF IsPointer
<1>9. \A i \in 1 .. 6 : Sends(calls[i]) => i \in {1, 2, 3, 4}
  BY <1>4 DEF Sends, SentOps
<1>10. TailCalls(calls, 5, 4)
  BY <1>3, <1>4 DEF TailOps, TailCalls
<1>11. 4 \in Nat /\ 5 - 1 <= 4 /\ 4 <= Len(calls)
  BY <1>3
<1>12. UsesPointers(calls, 5)
  BY <1>3, <1>4 DEF UsesPointers
<1>13. PointersDiffer(calls)
  BY <1>3, <1>8, Zenon DEF PointersDiffer
<1>14. \A i \in 1 .. 6 : Behind(calls, i) => i > 3
  BY <1>6 DEF Behind
<1>15. LateDiffer(calls)
  BY <1>3, <1>4, <1>9, <1>14 DEF LateDiffer, IsRest
<1>16. KeyEnds(calls)
  BY <1>3, <1>4 DEF KeyEnds
<1>17. RestLast(calls)
  BY <1>3, <1>7, Zenon DEF RestLast
<1>18. IsOptions(calls[1])
  BY <1>4 DEF IsOptions
<1>19. ShowsAmounts(calls)
  BY <1>3, <1>4 DEF ShowsAmounts, Showing
<1>20. Regular(calls, 5, 4)
  BY <1>18, <1>5, <1>10, <1>11, <1>12, <1>13, <1>15, <1>17, <1>16, <1>19 DEF Regular
<1>21. AllFetched(calls)
  BY <1>3, <1>7, Zenon DEF AllFetched
<1>22. BehindKey(stealth) # {}
  <2>1. stealth.calls[4].op = "fetch" /\ 4 \in DOMAIN stealth.calls
    BY <1>1, <1>3, <1>4
  <2>2. stealth.calls[3].op = "fetch_decrypt_key" /\ 3 \in 1 .. 4 - 1
    BY <1>1, <1>4
  <2> QED BY <2>1, <2>2, FetchBehind
<1> QED BY <1>1, <1>20, <1>21, <1>22

LEMMA TxProofRegular ==
  /\ Regular(get_tx_proof.calls, 8, 12)
  /\ AllFetched(get_tx_proof.calls)
  /\ KeyLast(get_tx_proof.calls)
<1> DEFINE o == Fetch("options", 1)
           a1 == Point("msg", 32)
           a2 == Point("R", 32)
           a3 == Point("A", 32)
           a4 == Point("B", 32)
           a5 == Point("D", 32)
           a6 == Key("r")
           a7 == Discard(FALSE)
           a8 == Use("msg", 32)
           a9 == Use("D", 32)
           a10 == Use("B", 32)
           a11 == Use("A", 32)
           a12 == Insert("sig_c", 32)
           a13 == Insert("sig_r", 32)
           calls == << o >> \o << a1, a2, a3, a4, a5, a6, a7, a8, a9, a10, a11, a12, a13 >>
<1>1. get_tx_proof.calls = calls
  BY CommandCalls, Zenon DEF get_tx_proof
<1>2. /\ o.op = "fetch" /\ o.what = "options" /\ o.size = 1
      /\ a1.op = "point" /\ a1.what = "msg" /\ a1.size = 32
      /\ a2.op = "point" /\ a2.what = "R" /\ a2.size = 32
      /\ a3.op = "point" /\ a3.what = "A" /\ a3.size = 32
      /\ a4.op = "point" /\ a4.what = "B" /\ a4.size = 32
      /\ a5.op = "point" /\ a5.what = "D" /\ a5.size = 32
      /\ a6.op = "fetch_decrypt_key" /\ a6.what = "r" /\ a6.size = 32
      /\ a7.op = "discard"
      /\ a8.op = "use" /\ a8.what = "msg" /\ a8.size = 32
      /\ a9.op = "use" /\ a9.what = "D" /\ a9.size = 32
      /\ a10.op = "use" /\ a10.what = "B" /\ a10.size = 32
      /\ a11.op = "use" /\ a11.what = "A" /\ a11.size = 32
      /\ a12.op = "insert"
      /\ a13.op = "insert"
  BY DEF Call, Fetch, Point, Key, Discard, Use, Insert
<1> HIDE DEF o, a1, a2, a3, a4, a5, a6, a7, a8, a9, a10, a11, a12, a13
<1>3. /\ Len(calls) = 14 /\ DOMAIN calls = 1 .. 14 /\ calls[1] = o /\ calls[2] = a1 /\ calls[3] = a2
      /\ calls[4] = a3 /\ calls[5] = a4 /\ calls[6] = a5 /\ calls[7] = a6 /\ calls[8] = a7
      /\ calls[9] = a8 /\ calls[10] = a9 /\ calls[11] = a10 /\ calls[12] = a11 /\ calls[13] = a12
      /\ calls[14] = a13
  OBVIOUS
<1> HIDE DEF calls
<1>4. /\ calls[1].op = "fetch" /\ calls[1].what = "options" /\ calls[1].size = 1
      /\ calls[2].op = "point" /\ calls[2].what = "msg" /\ calls[2].size = 32
      /\ calls[3].op = "point" /\ calls[3].what = "R" /\ calls[3].size = 32
      /\ calls[4].op = "point" /\ calls[4].what = "A" /\ calls[4].size = 32
      /\ calls[5].op = "point" /\ calls[5].what = "B" /\ calls[5].size = 32
      /\ calls[6].op = "point" /\ calls[6].what = "D" /\ calls[6].size = 32
      /\ calls[7].op = "fetch_decrypt_key" /\ calls[7].what = "r" /\ calls[7].size = 32
      /\ calls[8].op = "discard"
      /\ calls[9].op = "use" /\ calls[9].what = "msg" /\ calls[9].size = 32
      /\ calls[10].op = "use" /\ calls[10].what = "D" /\ calls[10].size = 32
      /\ calls[11].op = "use" /\ calls[11].what = "B" /\ calls[11].size = 32
      /\ calls[12].op = "use" /\ calls[12].what = "A" /\ calls[12].size = 32
      /\ calls[13].op = "insert"
      /\ calls[14].op = "insert"
  BY <1>2, <1>3
<1>5. ReadsTo(calls, 8)
  BY <1>3, <1>4 DEF ReadsTo, Reader, ReadOps, Octets
<1>6. \A i \in 1 .. 14 : IsKey(calls[i]) => i \in {7}
  BY <1>4 DEF IsKey
<1>7. \A i \in 1 .. 14 : IsRest(calls[i]) => i \in {}
  BY <1>4 DEF IsRest
<1>8. \A i \in 1 .. 14 : IsPointer(calls[i]) => i \in {2, 3, 4, 5, 6}
  BY <1>4 DEF IsPointer
<1>9. \A i \in 1 .. 14 : Sends(calls[i]) => i \in {1, 2, 3, 4, 5, 6, 7}
  BY <1>4 DEF Sends, SentOps
<1>10. TailCalls(calls, 8, 12)
  BY <1>3, <1>4 DEF TailOps, TailCalls
<1>11. 12 \in Nat /\ 8 - 1 <= 12 /\ 12 <= Len(calls)
  BY <1>3
<1>12. \A i \in 1 .. 14 : calls[i].op = "use" => i \in {9, 10, 11, 12}
  BY <1>4
<1>13. /\ 2 \in 1 .. 9 - 1 /\ 2 < 8 /\ IsPointer(calls[2]) /\ calls[2].what = calls[9].what /\ calls[2].size = calls[9].size
      /\ 6 \in 1 .. 10 - 1 /\ 6 < 8 /\ IsPointer(calls[6]) /\ calls[6].what = calls[10].what /\ calls[6].size = calls[10].size
      /\ 5 \in 1 .. 11 - 1 /\ 5 < 8 /\ IsPointer(calls[5]) /\ calls[5].what = calls[11].what /\ calls[5].size = calls[11].size
      /\ 4 \in 1 .. 12 - 1 /\ 4 < 8 /\ IsPointer(calls[4]) /\ calls[4].what = calls[12].what /\ calls[4].size = calls[12].size
  BY <1>4 DEF IsPointer
<1>14. UsesPointers(calls, 8)
  BY <1>3, <1>12, <1>13 DEF UsesPointers
<1>15. PointersDiffer(calls)
  BY <1>3, <1>4, <1>8 DEF PointersDiffer
<1>16. \A i \in 1 .. 14 : Behind(calls, i) => i > 7
  BY <1>6 DEF Behind
<1>17. LateDiffer(calls)
  BY <1>3, <1>4, <1>9, <1>16 DEF LateDiffer, IsRest
<1>18. KeyEnds(calls)
  BY <1>3, <1>4 DEF KeyEnds
<1>19. RestLast(calls)
  BY <1>3, <1>7, Zenon DEF RestLast
<1>20. IsOptions(calls[1])
  BY <1>4 DEF IsOptions
<1>21. ShowsAmounts(calls)
  BY <1>3, <1>4 DEF ShowsAmounts, Showing
<1>22. Regular(calls, 8, 12)
  BY <1>20, <1>5, <1>10, <1>11, <1>14, <1>15, <1>17, <1>19, <1>18, <1>21 DEF Regular
<1>23. AllFetched(calls)
  BY <1>3, <1>7, Zenon DEF AllFetched
<1>24. KeyLast(calls)
  BY <1>3, <1>6, <1>9 DEF KeyLast
<1> QED BY <1>1, <1>22, <1>23, <1>24

LEMMA InitMoreRegular ==
  /\ Regular(mlsag_prehash_init_more.calls, 3, 2)
  /\ KeyLast(mlsag_prehash_init_more.calls)
<1> DEFINE o == Fetch("options", 1)
           a1 == Rest("part", 32)
           a2 == Discard(TRUE)
           calls == << o >> \o << a1, a2 >>
<1>1. mlsag_prehash_init_more.calls = calls
  BY CommandCalls, Zenon DEF mlsag_prehash_init_more
<1>2. /\ o.op = "fetch" /\ o.what = "options" /\ o.size = 1
      /\ a1.op = "rest" /\ a1.what = "part" /\ a1.size = 32
      /\ a2.op = "clear"
  BY DEF Call, Fetch, Rest, Discard
<1> HIDE DEF o, a1, a2
<1>3. /\ Len(calls) = 3 /\ DOMAIN calls = 1 .. 3 /\ calls[1] = o /\ calls[2] = a1 /\ calls[3] = a2
  OBVIOUS
<1> HIDE DEF calls
<1>4. /\ calls[1].op = "fetch" /\ calls[1].what = "options" /\ calls[1].size = 1
      /\ calls[2].op = "rest" /\ calls[2].what = "part" /\ calls[2].size = 32
      /\ calls[3].op = "clear"
  BY <1>2, <1>3
<1>5. ReadsTo(calls, 3)
  BY <1>3, <1>4 DEF ReadsTo, Reader, ReadOps, Octets
<1>6. \A i \in 1 .. 3 : IsKey(calls[i]) => i \in {}
  BY <1>4 DEF IsKey
<1>7. \A i \in 1 .. 3 : IsRest(calls[i]) => i \in {2}
  BY <1>4 DEF IsRest
<1>8. \A i \in 1 .. 3 : IsPointer(calls[i]) => i \in {}
  BY <1>4 DEF IsPointer
<1>9. \A i \in 1 .. 3 : Sends(calls[i]) => i \in {1, 2}
  BY <1>4 DEF Sends, SentOps
<1>10. TailCalls(calls, 3, 2)
  BY <1>3, <1>4 DEF TailOps, TailCalls
<1>11. 2 \in Nat /\ 3 - 1 <= 2 /\ 2 <= Len(calls)
  BY <1>3
<1>12. UsesPointers(calls, 3)
  BY <1>3, <1>4 DEF UsesPointers
<1>13. PointersDiffer(calls)
  BY <1>3, <1>8, Zenon DEF PointersDiffer
<1>14. \A i \in 1 .. 3 : ~Behind(calls, i)
  BY <1>6 DEF Behind
<1>15. LateDiffer(calls)
  BY <1>3, <1>14, Zenon DEF LateDiffer
<1>16. KeyEnds(calls)
  BY <1>3, <1>6, Zenon DEF KeyEnds
<1>17. RestLast(calls)
  BY <1>3, <1>7, <1>9 DEF RestLast
<1>18. IsOptions(calls[1])
  BY <1>4 DEF IsOptions
<1>19. ShowsAmounts(calls)
  BY <1>3, <1>4 DEF ShowsAmounts, Showing
<1>20. Regular(calls, 3, 2)
  BY <1>18, <1>5, <1>10, <1>11, <1>12, <1>13, <1>15, <1>17, <1>16, <1>19 DEF Regular
<1>21. KeyLast(calls)
  BY <1>3, <1>6, Zenon DEF KeyLast
<1> QED BY <1>1, <1>20, <1>21

LEMMA OtherRegular ==
  /\ Regular(manage_seedwords_other.calls, 3, 2)
  /\ KeyLast(manage_seedwords_other.calls)
<1> DEFINE o == Fetch("options", 1)
           a1 == Rest("words", 8)
           calls == << o >> \o << a1 >>
<1>1. manage_seedwords_other.calls = calls
  BY CommandCalls, Zenon DEF manage_seedwords_other
<1>2. /\ o.op = "fetch" /\ o.what = "options" /\ o.size = 1
      /\ a1.op = "rest" /\ a1.what = "words" /\ a1.size = 8
  BY DEF Call, Fetch, Rest
<1> HIDE DEF o, a1
<1>3. /\ Len(calls) = 2 /\ DOMAIN calls = 1 .. 2 /\ calls[1] = o /\ calls[2] = a1
  OBVIOUS
<1> HIDE DEF calls
<1>4. /\ calls[1].op = "fetch" /\ calls[1].what = "options" /\ calls[1].size = 1
      /\ calls[2].op = "rest" /\ calls[2].what = "words" /\ calls[2].size = 8
  BY <1>2, <1>3
<1>5. ReadsTo(calls, 3)
  BY <1>3, <1>4 DEF ReadsTo, Reader, ReadOps, Octets
<1>6. \A i \in 1 .. 2 : IsKey(calls[i]) => i \in {}
  BY <1>4 DEF IsKey
<1>7. \A i \in 1 .. 2 : IsRest(calls[i]) => i \in {2}
  BY <1>4 DEF IsRest
<1>8. \A i \in 1 .. 2 : IsPointer(calls[i]) => i \in {}
  BY <1>4 DEF IsPointer
<1>9. \A i \in 1 .. 2 : Sends(calls[i]) => i \in {1, 2}
  BY <1>4 DEF Sends, SentOps
<1>10. TailCalls(calls, 3, 2)
  BY <1>3, <1>4 DEF TailOps, TailCalls
<1>11. 2 \in Nat /\ 3 - 1 <= 2 /\ 2 <= Len(calls)
  BY <1>3
<1>12. UsesPointers(calls, 3)
  BY <1>3, <1>4 DEF UsesPointers
<1>13. PointersDiffer(calls)
  BY <1>3, <1>8, Zenon DEF PointersDiffer
<1>14. \A i \in 1 .. 2 : ~Behind(calls, i)
  BY <1>6 DEF Behind
<1>15. LateDiffer(calls)
  BY <1>3, <1>14, Zenon DEF LateDiffer
<1>16. KeyEnds(calls)
  BY <1>3, <1>6, Zenon DEF KeyEnds
<1>17. RestLast(calls)
  BY <1>3, <1>7, <1>9 DEF RestLast
<1>18. IsOptions(calls[1])
  BY <1>4 DEF IsOptions
<1>19. ShowsAmounts(calls)
  BY <1>3, <1>4 DEF ShowsAmounts, Showing
<1>20. Regular(calls, 3, 2)
  BY <1>18, <1>5, <1>10, <1>11, <1>12, <1>13, <1>15, <1>17, <1>16, <1>19 DEF Regular
<1>21. KeyLast(calls)
  BY <1>3, <1>6, Zenon DEF KeyLast
<1> QED BY <1>1, <1>20, <1>21

LEMMA InitRegular ==
  ASSUME NEW amount \in Amounts
  PROVE  /\ Regular(mlsag_prehash_init(amount).calls, 6, 5)
         /\ KeyLast(mlsag_prehash_init(amount).calls)
<1> DEFINE o == Fetch("options", 1)
           a1 == Fetch("type", 1)
           a2 == Peek("fee", 5)
           a3 == Use("fee", 5)
           a4 == Show(amount)
           a5 == Discard(TRUE)
           a6 == Ask
           calls == << o >> \o << a1, a2, a3, a4, a5, a6 >>
<1>1. mlsag_prehash_init(amount).calls = calls
  BY CommandCalls, Zenon DEF mlsag_prehash_init
<1>2. /\ o.op = "fetch" /\ o.what = "options" /\ o.size = 1
      /\ a1.op = "fetch" /\ a1.what = "type" /\ a1.size = 1
      /\ a2.op = "peek" /\ a2.what = "fee" /\ a2.size = 5
      /\ a3.op = "use" /\ a3.what = "fee" /\ a3.size = 5
      /\ a4.op = "amount2str" /\ a4.size = 15 /\ a4.amount = amount
      /\ a5.op = "clear"
      /\ a6.op = "ends"
  BY DEF Call, Fetch, Peek, Use, Show, Discard, Ask
<1> HIDE DEF o, a1, a2, a3, a4, a5, a6
<1>3. /\ Len(calls) = 7 /\ DOMAIN calls = 1 .. 7 /\ calls[1] = o /\ calls[2] = a1 /\ calls[3] = a2
      /\ calls[4] = a3 /\ calls[5] = a4 /\ calls[6] = a5 /\ calls[7] = a6
  OBVIOUS
<1> HIDE DEF calls
<1>4. /\ calls[1].op = "fetch" /\ calls[1].what = "options" /\ calls[1].size = 1
      /\ calls[2].op = "fetch" /\ calls[2].what = "type" /\ calls[2].size = 1
      /\ calls[3].op = "peek" /\ calls[3].what = "fee" /\ calls[3].size = 5
      /\ calls[4].op = "use" /\ calls[4].what = "fee" /\ calls[4].size = 5
      /\ calls[5].op = "amount2str" /\ calls[5].size = 15 /\ calls[5].amount = amount
      /\ calls[6].op = "clear"
      /\ calls[7].op = "ends"
  BY <1>2, <1>3
<1>5. ReadsTo(calls, 6)
  BY <1>3, <1>4 DEF ReadsTo, Reader, ReadOps, Octets
<1>6. \A i \in 1 .. 7 : IsKey(calls[i]) => i \in {}
  BY <1>4 DEF IsKey
<1>7. \A i \in 1 .. 7 : IsRest(calls[i]) => i \in {3}
  BY <1>4 DEF IsRest
<1>8. \A i \in 1 .. 7 : IsPointer(calls[i]) => i \in {3}
  BY <1>4 DEF IsPointer
<1>9. \A i \in 1 .. 7 : Sends(calls[i]) => i \in {1, 2, 3}
  BY <1>4 DEF Sends, SentOps
<1>10. TailCalls(calls, 6, 5)
  BY <1>3, <1>4 DEF TailOps, TailCalls
<1>11. 5 \in Nat /\ 6 - 1 <= 5 /\ 5 <= Len(calls)
  BY <1>3
<1>12. \A i \in 1 .. 7 : calls[i].op = "use" => i \in {4}
  BY <1>4
<1>13. /\ 3 \in 1 .. 4 - 1 /\ 3 < 6 /\ IsPointer(calls[3]) /\ calls[3].what = calls[4].what /\ calls[3].size = calls[4].size
  BY <1>4 DEF IsPointer
<1>14. UsesPointers(calls, 6)
  BY <1>3, <1>12, <1>13 DEF UsesPointers
<1>15. PointersDiffer(calls)
  BY <1>3, <1>4, <1>8 DEF PointersDiffer
<1>16. \A i \in 1 .. 7 : ~Behind(calls, i)
  BY <1>6 DEF Behind
<1>17. LateDiffer(calls)
  BY <1>3, <1>16, Zenon DEF LateDiffer
<1>18. KeyEnds(calls)
  BY <1>3, <1>6, Zenon DEF KeyEnds
<1>19. RestLast(calls)
  BY <1>3, <1>7, <1>9 DEF RestLast
<1>20. IsOptions(calls[1])
  BY <1>4 DEF IsOptions
<1>21. ShowsAmounts(calls)
  BY <1>3, <1>4 DEF ShowsAmounts, Showing
<1>22. Regular(calls, 6, 5)
  BY <1>20, <1>5, <1>10, <1>11, <1>14, <1>15, <1>17, <1>19, <1>18, <1>21 DEF Regular
<1>23. KeyLast(calls)
  BY <1>3, <1>6, Zenon DEF KeyLast
<1> QED BY <1>1, <1>22, <1>23

LEMMA ZeroIsNotTwo == 0 # 2
OBVIOUS

LEMMA ChangeUpdateRegular ==
  ASSUME NEW amount \in Amounts
  PROVE  /\ Regular(mlsag_prehash_update(2, amount, TRUE).calls, 10, 12)
         /\ AllFetched(mlsag_prehash_update(2, amount, TRUE).calls)
         /\ KeyLast(mlsag_prehash_update(2, amount, TRUE).calls)
<1> DEFINE o == Fetch("options", 1)
           a1 == Fetch("is_subaddress", 1)
           a2 == Fetch("is_change", 1)
           a3 == Point("Aout", 32)
           a4 == Point("Bout", 32)
           a5 == Sealed("AKout")
           a6 == Fetch("C", 32)
           a7 == Fetch("k", 32)
           a8 == Fetch("v", 32)
           a9 == Discard(FALSE)
           a10 == Use("Aout", 32)
           a11 == Use("Bout", 32)
           a12 == Show(amount)
           a13 == Ask
           calls == << o >> \o (<< a1 >> \o << a2 >> \o << a3, a4, a5, a6, a7, a8 >>
                           \o << a9, a10, a11 >> \o << a12, a13 >>)
<1>1. mlsag_prehash_update(2, amount, TRUE).calls = calls
  BY CommandCalls, Zenon DEF mlsag_prehash_update, OutputFields
<1>2. /\ o.op = "fetch" /\ o.what = "options" /\ o.size = 1
      /\ a1.op = "fetch" /\ a1.what = "is_subaddress" /\ a1.size = 1
      /\ a2.op = "fetch" /\ a2.what = "is_change" /\ a2.size = 1
      /\ a3.op = "point" /\ a3.what = "Aout" /\ a3.size = 32
      /\ a4.op = "point" /\ a4.what = "Bout" /\ a4.size = 32
      /\ a5.op = "fetch_decrypt" /\ a5.what = "AKout" /\ a5.size = 32
      /\ a6.op = "fetch" /\ a6.what = "C" /\ a6.size = 32
      /\ a7.op = "fetch" /\ a7.what = "k" /\ a7.size = 32
      /\ a8.op = "fetch" /\ a8.what = "v" /\ a8.size = 32
      /\ a9.op = "discard"
      /\ a10.op = "use" /\ a10.what = "Aout" /\ a10.size = 32
      /\ a11.op = "use" /\ a11.what = "Bout" /\ a11.size = 32
      /\ a12.op = "amount2str" /\ a12.size = 15 /\ a12.amount = amount
      /\ a13.op = "ends"
  BY DEF Call, Fetch, Point, Sealed, Discard, Use, Show, Ask
<1> HIDE DEF o, a1, a2, a3, a4, a5, a6, a7, a8, a9, a10, a11, a12, a13
<1>3. /\ Len(calls) = 14 /\ DOMAIN calls = 1 .. 14 /\ calls[1] = o /\ calls[2] = a1 /\ calls[3] = a2
      /\ calls[4] = a3 /\ calls[5] = a4 /\ calls[6] = a5 /\ calls[7] = a6 /\ calls[8] = a7
      /\ calls[9] = a8 /\ calls[10] = a9 /\ calls[11] = a10 /\ calls[12] = a11 /\ calls[13] = a12
      /\ calls[14] = a13
  OBVIOUS
<1> HIDE DEF calls
<1>4. /\ calls[1].op = "fetch" /\ calls[1].what = "options" /\ calls[1].size = 1
      /\ calls[2].op = "fetch" /\ calls[2].what = "is_subaddress" /\ calls[2].size = 1
      /\ calls[3].op = "fetch" /\ calls[3].what = "is_change" /\ calls[3].size = 1
      /\ calls[4].op = "point" /\ calls[4].what = "Aout" /\ calls[4].size = 32
      /\ calls[5].op = "point" /\ calls[5].what = "Bout" /\ calls[5].size = 32
      /\ calls[6].op = "fetch_decrypt" /\ calls[6].what = "AKout" /\ calls[6].size = 32
      /\ calls[7].op = "fetch" /\ calls[7].what = "C" /\ calls[7].size = 32
      /\ calls[8].op = "fetch" /\ calls[8].what = "k" /\ calls[8].size = 32
      /\ calls[9].op = "fetch" /\ calls[9].what = "v" /\ calls[9].size = 32
      /\ calls[10].op = "discard"
      /\ calls[11].op = "use" /\ calls[11].what = "Aout" /\ calls[11].size = 32
      /\ calls[12].op = "use" /\ calls[12].what = "Bout" /\ calls[12].size = 32
      /\ calls[13].op = "amount2str" /\ calls[13].size = 15 /\ calls[13].amount = amount
      /\ calls[14].op = "ends"
  BY <1>2, <1>3
<1>5. ReadsTo(calls, 10)
  BY <1>3, <1>4 DEF ReadsTo, Reader, ReadOps, Octets
<1>6. \A i \in 1 .. 14 : IsKey(calls[i]) => i \in {}
  BY <1>4 DEF IsKey
<1>7. \A i \in 1 .. 14 : IsRest(calls[i]) => i \in {}
  BY <1>4 DEF IsRest
<1>8. \A i \in 1 .. 14 : IsPointer(calls[i]) => i \in {4, 5}
  BY <1>4 DEF IsPointer
<1>9. \A i \in 1 .. 14 : Sends(calls[i]) => i \in {1, 2, 3, 4, 5, 6, 7, 8, 9}
  BY <1>4 DEF Sends, SentOps
<1>10. TailCalls(calls, 10, 12)
  BY <1>3, <1>4 DEF TailOps, TailCalls
<1>11. 12 \in Nat /\ 10 - 1 <= 12 /\ 12 <= Len(calls)
  BY <1>3
<1>12. \A i \in 1 .. 14 : calls[i].op = "use" => i \in {11, 12}
  BY <1>4
<1>13. /\ 4 \in 1 .. 11 - 1 /\ 4 < 10 /\ IsPointer(calls[4]) /\ calls[4].what = calls[11].what /\ calls[4].size = calls[11].size
      /\ 5 \in 1 .. 12 - 1 /\ 5 < 10 /\ IsPointer(calls[5]) /\ calls[5].what = calls[12].what /\ calls[5].size = calls[12].size
  BY <1>4 DEF IsPointer
<1>14. UsesPointers(calls, 10)
  BY <1>3, <1>12, <1>13 DEF UsesPointers
<1>15. PointersDiffer(calls)
  BY <1>3, <1>4, <1>8 DEF PointersDiffer
<1>16. \A i \in 1 .. 14 : ~Behind(calls, i)
  BY <1>6 DEF Behind
<1>17. LateDiffer(calls)
  BY <1>3, <1>16, Zenon DEF LateDiffer
<1>18. KeyEnds(calls)
  BY <1>3, <1>6, Zenon DEF KeyEnds
<1>19. RestLast(calls)
  BY <1>3, <1>7, Zenon DEF RestLast
<1>20. IsOptions(calls[1])
  BY <1>4 DEF IsOptions
<1>21. ShowsAmounts(calls)
  BY <1>3, <1>4 DEF ShowsAmounts, Showing
<1>22. Regular(calls, 10, 12)
  BY <1>20, <1>5, <1>10, <1>11, <1>14, <1>15, <1>17, <1>19, <1>18, <1>21 DEF Regular
<1>23. AllFetched(calls)
  BY <1>3, <1>7, Zenon DEF AllFetched
<1>24. KeyLast(calls)
  BY <1>3, <1>6, Zenon DEF KeyLast
<1> QED BY <1>1, <1>22, <1>23, <1>24

LEMMA UpdateRegular ==
  ASSUME NEW amount \in Amounts
  PROVE  /\ Regular(mlsag_prehash_update(0, amount, TRUE).calls, 9, 11)
         /\ AllFetched(mlsag_prehash_update(0, amount, TRUE).calls)
         /\ KeyLast(mlsag_prehash_update(0, amount, TRUE).calls)
<1> DEFINE o == Fetch("options", 1)
           a1 == Fetch("is_subaddress", 1)
           a2 == Point("Aout", 32)
           a3 == Point("Bout", 32)
           a4 == Sealed("AKout")
           a5 == Fetch("C", 32)
           a6 == Fetch("k", 32)
           a7 == Fetch("v", 32)
           a8 == Discard(FALSE)
           a9 == Use("Aout", 32)
           a10 == Use("Bout", 32)
           a11 == Show(amount)
           a12 == Ask
           calls == << o >> \o (<< a1 >> \o << >> \o << a2, a3, a4, a5, a6, a7 >>
                           \o << a8, a9, a10 >> \o << a11, a12 >>)
<1>1. mlsag_prehash_update(0, amount, TRUE).calls = calls
  BY ZeroIsNotTwo, CommandCalls, Zenon DEF mlsag_prehash_update, OutputFields
<1>2. /\ o.op = "fetch" /\ o.what = "options" /\ o.size = 1
      /\ a1.op = "fetch" /\ a1.what = "is_subaddress" /\ a1.size = 1
      /\ a2.op = "point" /\ a2.what = "Aout" /\ a2.size = 32
      /\ a3.op = "point" /\ a3.what = "Bout" /\ a3.size = 32
      /\ a4.op = "fetch_decrypt" /\ a4.what = "AKout" /\ a4.size = 32
      /\ a5.op = "fetch" /\ a5.what = "C" /\ a5.size = 32
      /\ a6.op = "fetch" /\ a6.what = "k" /\ a6.size = 32
      /\ a7.op = "fetch" /\ a7.what = "v" /\ a7.size = 32
      /\ a8.op = "discard"
      /\ a9.op = "use" /\ a9.what = "Aout" /\ a9.size = 32
      /\ a10.op = "use" /\ a10.what = "Bout" /\ a10.size = 32
      /\ a11.op = "amount2str" /\ a11.size = 15 /\ a11.amount = amount
      /\ a12.op = "ends"
  BY DEF Call, Fetch, Point, Sealed, Discard, Use, Show, Ask
<1> HIDE DEF o, a1, a2, a3, a4, a5, a6, a7, a8, a9, a10, a11, a12
<1>3. /\ Len(calls) = 13 /\ DOMAIN calls = 1 .. 13 /\ calls[1] = o /\ calls[2] = a1 /\ calls[3] = a2
      /\ calls[4] = a3 /\ calls[5] = a4 /\ calls[6] = a5 /\ calls[7] = a6 /\ calls[8] = a7
      /\ calls[9] = a8 /\ calls[10] = a9 /\ calls[11] = a10 /\ calls[12] = a11 /\ calls[13] = a12
  OBVIOUS
<1> HIDE DEF calls
<1>4. /\ calls[1].op = "fetch" /\ calls[1].what = "options" /\ calls[1].size = 1
      /\ calls[2].op = "fetch" /\ calls[2].what = "is_subaddress" /\ calls[2].size = 1
      /\ calls[3].op = "point" /\ calls[3].what = "Aout" /\ calls[3].size = 32
      /\ calls[4].op = "point" /\ calls[4].what = "Bout" /\ calls[4].size = 32
      /\ calls[5].op = "fetch_decrypt" /\ calls[5].what = "AKout" /\ calls[5].size = 32
      /\ calls[6].op = "fetch" /\ calls[6].what = "C" /\ calls[6].size = 32
      /\ calls[7].op = "fetch" /\ calls[7].what = "k" /\ calls[7].size = 32
      /\ calls[8].op = "fetch" /\ calls[8].what = "v" /\ calls[8].size = 32
      /\ calls[9].op = "discard"
      /\ calls[10].op = "use" /\ calls[10].what = "Aout" /\ calls[10].size = 32
      /\ calls[11].op = "use" /\ calls[11].what = "Bout" /\ calls[11].size = 32
      /\ calls[12].op = "amount2str" /\ calls[12].size = 15 /\ calls[12].amount = amount
      /\ calls[13].op = "ends"
  BY <1>2, <1>3
<1>5. ReadsTo(calls, 9)
  BY <1>3, <1>4 DEF ReadsTo, Reader, ReadOps, Octets
<1>6. \A i \in 1 .. 13 : IsKey(calls[i]) => i \in {}
  BY <1>4 DEF IsKey
<1>7. \A i \in 1 .. 13 : IsRest(calls[i]) => i \in {}
  BY <1>4 DEF IsRest
<1>8. \A i \in 1 .. 13 : IsPointer(calls[i]) => i \in {3, 4}
  BY <1>4 DEF IsPointer
<1>9. \A i \in 1 .. 13 : Sends(calls[i]) => i \in {1, 2, 3, 4, 5, 6, 7, 8}
  BY <1>4 DEF Sends, SentOps
<1>10. TailCalls(calls, 9, 11)
  BY <1>3, <1>4 DEF TailOps, TailCalls
<1>11. 11 \in Nat /\ 9 - 1 <= 11 /\ 11 <= Len(calls)
  BY <1>3
<1>12. \A i \in 1 .. 13 : calls[i].op = "use" => i \in {10, 11}
  BY <1>4
<1>13. /\ 3 \in 1 .. 10 - 1 /\ 3 < 9 /\ IsPointer(calls[3]) /\ calls[3].what = calls[10].what /\ calls[3].size = calls[10].size
      /\ 4 \in 1 .. 11 - 1 /\ 4 < 9 /\ IsPointer(calls[4]) /\ calls[4].what = calls[11].what /\ calls[4].size = calls[11].size
  BY <1>4 DEF IsPointer
<1>14. UsesPointers(calls, 9)
  BY <1>3, <1>12, <1>13 DEF UsesPointers
<1>15. PointersDiffer(calls)
  BY <1>3, <1>4, <1>8 DEF PointersDiffer
<1>16. \A i \in 1 .. 13 : ~Behind(calls, i)
  BY <1>6 DEF Behind
<1>17. LateDiffer(calls)
  BY <1>3, <1>16, Zenon DEF LateDiffer
<1>18. KeyEnds(calls)
  BY <1>3, <1>6, Zenon DEF KeyEnds
<1>19. RestLast(calls)
  BY <1>3, <1>7, Zenon DEF RestLast
<1>20. IsOptions(calls[1])
  BY <1>4 DEF IsOptions
<1>21. ShowsAmounts(calls)
  BY <1>3, <1>4 DEF ShowsAmounts, Showing
<1>22. Regular(calls, 9, 11)
  BY <1>20, <1>5, <1>10, <1>11, <1>14, <1>15, <1>17, <1>19, <1>18, <1>21 DEF Regular
<1>23. AllFetched(calls)
  BY <1>3, <1>7, Zenon DEF AllFetched
<1>24. KeyLast(calls)
  BY <1>3, <1>6, Zenon DEF KeyLast
<1> QED BY <1>1, <1>22, <1>23, <1>24

LEMMA QuietUpdateRegular ==
  ASSUME NEW amount
  PROVE  /\ Regular(mlsag_prehash_update(2, amount, FALSE).calls, 10, 12)
         /\ AllFetched(mlsag_prehash_update(2, amount, FALSE).calls)
         /\ KeyLast(mlsag_prehash_update(2, amount, FALSE).calls)
<1> DEFINE o == Fetch("options", 1)
           a1 == Fetch("is_subaddress", 1)
           a2 == Fetch("is_change", 1)
           a3 == Point("Aout", 32)
           a4 == Point("Bout", 32)
           a5 == Sealed("AKout")
           a6 == Fetch("C", 32)
           a7 == Fetch("k", 32)
           a8 == Fetch("v", 32)
           a9 == Discard(FALSE)
           a10 == Use("Aout", 32)
           a11 == Use("Bout", 32)
           calls == << o >> \o (<< a1 >> \o << a2 >> \o << a3, a4, a5, a6, a7, a8 >>
                           \o << a9, a10, a11 >> \o << >>)
<1>1. mlsag_prehash_update(2, amount, FALSE).calls = calls
  BY CommandCalls, Zenon DEF mlsag_prehash_update, OutputFields
<1>2. /\ o.op = "fetch" /\ o.what = "options" /\ o.size = 1
      /\ a1.op = "fetch" /\ a1.what = "is_subaddress" /\ a1.size = 1
      /\ a2.op = "fetch" /\ a2.what = "is_change" /\ a2.size = 1
      /\ a3.op = "point" /\ a3.what = "Aout" /\ a3.size = 32
      /\ a4.op = "point" /\ a4.what = "Bout" /\ a4.size = 32
      /\ a5.op = "fetch_decrypt" /\ a5.what = "AKout" /\ a5.size = 32
      /\ a6.op = "fetch" /\ a6.what = "C" /\ a6.size = 32
      /\ a7.op = "fetch" /\ a7.what = "k" /\ a7.size = 32
      /\ a8.op = "fetch" /\ a8.what = "v" /\ a8.size = 32
      /\ a9.op = "discard"
      /\ a10.op = "use" /\ a10.what = "Aout" /\ a10.size = 32
      /\ a11.op = "use" /\ a11.what = "Bout" /\ a11.size = 32
  BY DEF Call, Fetch, Point, Sealed, Discard, Use
<1> HIDE DEF o, a1, a2, a3, a4, a5, a6, a7, a8, a9, a10, a11
<1>3. /\ Len(calls) = 12 /\ DOMAIN calls = 1 .. 12 /\ calls[1] = o /\ calls[2] = a1 /\ calls[3] = a2
      /\ calls[4] = a3 /\ calls[5] = a4 /\ calls[6] = a5 /\ calls[7] = a6 /\ calls[8] = a7
      /\ calls[9] = a8 /\ calls[10] = a9 /\ calls[11] = a10 /\ calls[12] = a11
  OBVIOUS
<1> HIDE DEF calls
<1>4. /\ calls[1].op = "fetch" /\ calls[1].what = "options" /\ calls[1].size = 1
      /\ calls[2].op = "fetch" /\ calls[2].what = "is_subaddress" /\ calls[2].size = 1
      /\ calls[3].op = "fetch" /\ calls[3].what = "is_change" /\ calls[3].size = 1
      /\ calls[4].op = "point" /\ calls[4].what = "Aout" /\ calls[4].size = 32
      /\ calls[5].op = "point" /\ calls[5].what = "Bout" /\ calls[5].size = 32
      /\ calls[6].op = "fetch_decrypt" /\ calls[6].what = "AKout" /\ calls[6].size = 32
      /\ calls[7].op = "fetch" /\ calls[7].what = "C" /\ calls[7].size = 32
      /\ calls[8].op = "fetch" /\ calls[8].what = "k" /\ calls[8].size = 32
      /\ calls[9].op = "fetch" /\ calls[9].what = "v" /\ calls[9].size = 32
      /\ calls[10].op = "discard"
      /\ calls[11].op = "use" /\ calls[11].what = "Aout" /\ calls[11].size = 32
      /\ calls[12].op = "use" /\ calls[12].what = "Bout" /\ calls[12].size = 32
  BY <1>2, <1>3
<1>5. ReadsTo(calls, 10)
  BY <1>3, <1>4 DEF ReadsTo, Reader, ReadOps, Octets
<1>6. \A i \in 1 .. 12 : IsKey(calls[i]) => i \in {}
  BY <1>4 DEF IsKey
<1>7. \A i \in 1 .. 12 : IsRest(calls[i]) => i \in {}
  BY <1>4 DEF IsRest
<1>8. \A i \in 1 .. 12 : IsPointer(calls[i]) => i \in {4, 5}
  BY <1>4 DEF IsPointer
<1>9. \A i \in 1 .. 12 : Sends(calls[i]) => i \in {1, 2, 3, 4, 5, 6, 7, 8, 9}
  BY <1>4 DEF Sends, SentOps
<1>10. TailCalls(calls, 10, 12)
  BY <1>3, <1>4 DEF TailOps, TailCalls
<1>11. 12 \in Nat /\ 10 - 1 <= 12 /\ 12 <= Len(calls)
  BY <1>3
<1>12. \A i \in 1 .. 12 : calls[i].op = "use" => i \in {11, 12}
  BY <1>4
<1>13. /\ 4 \in 1 .. 11 - 1 /\ 4 < 10 /\ IsPointer(calls[4]) /\ calls[4].what = calls[11].what /\ calls[4].size = calls[11].size
      /\ 5 \in 1 .. 12 - 1 /\ 5 < 10 /\ IsPointer(calls[5]) /\ calls[5].what = calls[12].what /\ calls[5].size = calls[12].size
  BY <1>4 DEF IsPointer
<1>14. UsesPointers(calls, 10)
  BY <1>3, <1>12, <1>13 DEF UsesPointers
<1>15. PointersDiffer(calls)
  BY <1>3, <1>4, <1>8 DEF PointersDiffer
<1>16. \A i \in 1 .. 12 : ~Behind(calls, i)
  BY <1>6 DEF Behind
<1>17. LateDiffer(calls)
  BY <1>3, <1>16, Zenon DEF LateDiffer
<1>18. KeyEnds(calls)
  BY <1>3, <1>6, Zenon DEF KeyEnds
<1>19. RestLast(calls)
  BY <1>3, <1>7, Zenon DEF RestLast
<1>20. IsOptions(calls[1])
  BY <1>4 DEF IsOptions
<1>21. ShowsAmounts(calls)
  BY <1>3, <1>4 DEF ShowsAmounts, Showing
<1>22. Regular(calls, 10, 12)
  BY <1>20, <1>5, <1>10, <1>11, <1>14, <1>15, <1>17, <1>19, <1>18, <1>21 DEF Regular
<1>23. AllFetched(calls)
  BY <1>3, <1>7, Zenon DEF AllFetched
<1>24. KeyLast(calls)
  BY <1>3, <1>6, Zenon DEF KeyLast
<1> QED BY <1>1, <1>22, <1>23, <1>24

LEMMA OutputHead ==
  ASSUME NEW calls, NEW n \in {16, 17, 18}, Len(calls) = n, DOMAIN calls = 1 .. n,
         calls[1].op = "fetch" /\ calls[1].what = "options" /\ calls[1].size = 1,
         calls[2].op = "fetch" /\ calls[2].what = "tx_version" /\ calls[2].size = 4,
         calls[3].op = "fetch_decrypt_key" /\ calls[3].what = "tx_key" /\ calls[3].size = 32,
         calls[4].op = "point" /\ calls[4].what = "txkey_pub" /\ calls[4].size = 32,
         calls[5].op = "point" /\ calls[5].what = "Aout" /\ calls[5].size = 32,
         calls[6].op = "point" /\ calls[6].what = "Bout" /\ calls[6].size = 32,
         calls[7].op = "fetch" /\ calls[7].what = "output_index" /\ calls[7].size = 4,
         calls[8].op = "fetch" /\ calls[8].what = "is_change" /\ calls[8].size = 1,
         calls[9].op = "fetch" /\ calls[9].what = "is_subaddress" /\ calls[9].size = 1,
         calls[10].op = "fetch" /\ calls[10].what = "need_additional_txkeys" /\ calls[10].size = 1,
         calls[11].op \in {"fetch_decrypt_key", "point"} /\ calls[11].what = "additional_txkey" /\ calls[11].size = 32,
         calls[12].op = "use" /\ calls[12].what = "Aout" /\ calls[12].size = 32,
         calls[13].op = "use" /\ calls[13].what = "Bout" /\ calls[13].size = 32,
         calls[14].op = "use" /\ calls[14].what = "txkey_pub" /\ calls[14].size = 32,
         calls[15].op = "discard",
         \A i \in 16 .. n : calls[i].op \in {"insert", "insert_encrypt"}
  PROVE  Regular(calls, 15, 14) /\ AllFetched(calls)
<1>1. n \in Nat /\ n >= 16 /\ \A i \in 1 .. n : \/ i = 1 \/ i = 2 \/ i = 3 \/ i = 4 \/ i = 5 \/ i = 6 \/ i = 7 \/ i = 8
                                                \/ i = 9 \/ i = 10 \/ i = 11 \/ i = 12 \/ i = 13 \/ i = 14 \/ i = 15 \/ i \in 16 .. n
  OBVIOUS
<1>2. ReadsTo(calls, 15)
  <2>1. /\ Reader(calls[1]) /\ Reader(calls[2]) /\ Reader(calls[3]) /\ Reader(calls[4]) /\ Reader(calls[5])
        /\ Reader(calls[6]) /\ Reader(calls[7]) /\ Reader(calls[8]) /\ Reader(calls[9]) /\ Reader(calls[10])
    BY DEF Reader, ReadOps, Octets
  <2>2. Reader(calls[11])
    BY DEF Reader, ReadOps, Octets
  <2>3. Reader(calls[12]) /\ Reader(calls[13]) /\ Reader(calls[14])
    BY DEF Reader, ReadOps, Octets
  <2>4. \A i \in 1 .. n : i < 15 => \/ i = 1 \/ i = 2 \/ i = 3 \/ i = 4 \/ i = 5 \/ i = 6 \/ i = 7 \/ i = 8
                                    \/ i = 9 \/ i = 10 \/ i = 11 \/ i = 12 \/ i = 13 \/ i = 14
    BY <1>1
  <2>5. \A i \in 1 .. n : i < 15 => Reader(calls[i])
    BY <2>1, <2>2, <2>3, <2>4
  <2> QED BY <1>1, <2>5 DEF ReadsTo
<1>3. \A i \in 1 .. n : IsKey(calls[i]) => i \in {3, 11}
  BY <1>1 DEF IsKey
<1>4. \A i \in 1 .. n : ~IsRest(calls[i])
  BY <1>1 DEF IsRest
<1>5. \A i \in 1 .. n : IsPointer(calls[i]) => i \in {4, 5, 6, 11}
  <2>1. \A i \in 16 .. n : ~IsPointer(calls[i])
    BY DEF IsPointer
  <2>2. /\ ~IsPointer(calls[1]) /\ ~IsPointer(calls[2]) /\ ~IsPointer(calls[3]) /\ ~IsPointer(calls[7]) /\ ~IsPointer(calls[8])
        /\ ~IsPointer(calls[9]) /\ ~IsPointer(calls[10]) /\ ~IsPointer(calls[12]) /\ ~IsPointer(calls[13])
        /\ ~IsPointer(calls[14]) /\ ~IsPointer(calls[15])
    BY DEF IsPointer
  <2> QED BY <1>1, <2>1, <2>2
<1>6. \A i \in 1 .. n : Sends(calls[i]) => i \in 1 .. 11
  <2>1. \A i \in 16 .. n : ~Sends(calls[i])
    BY DEF Sends, SentOps
  <2>2. ~Sends(calls[12]) /\ ~Sends(calls[13]) /\ ~Sends(calls[14]) /\ ~Sends(calls[15])
    BY DEF Sends, SentOps
  <2> QED BY <1>1, <2>1, <2>2
<1>7. TailCalls(calls, 15, 14)
  <2>1. \A i \in 1 .. n : i >= 15 => i = 15 \/ i \in 16 .. n
    BY <1>1
  <2>2. \A i \in 1 .. n : i >= 15 => calls[i].op \in TailOps /\ calls[i].op # "use"
    BY <2>1 DEF TailOps
  <2>3. \A i \in 1 .. n : i > 14 => i >= 15
    BY <1>1
  <2>4. \A i \in 1 .. n : ~(i >= 15 /\ i <= 14)
    BY <1>1
  <2> QED BY <2>2, <2>3, <2>4 DEF TailCalls
<1>8. 14 \in Nat /\ 15 - 1 <= 14 /\ 14 <= Len(calls)
  BY <1>1
<1>9. \A i \in 1 .. n : calls[i].op = "use" => i \in {12, 13, 14}
  BY <1>1
<1>10. /\ 5 \in 1 .. 12 - 1 /\ 5 < 15 /\ IsPointer(calls[5]) /\ calls[5].what = calls[12].what /\ calls[5].size = calls[12].size
       /\ 6 \in 1 .. 13 - 1 /\ 6 < 15 /\ IsPointer(calls[6]) /\ calls[6].what = calls[13].what /\ calls[6].size = calls[13].size
       /\ 4 \in 1 .. 14 - 1 /\ 4 < 15 /\ IsPointer(calls[4]) /\ calls[4].what = calls[14].what /\ calls[4].size = calls[14].size
  BY DEF IsPointer
<1>11. UsesPointers(calls, 15)
  <2> SUFFICES ASSUME NEW i \in 1 .. n, calls[i].op = "use"
               PROVE  \E j \in 1 .. i - 1 : /\ j < 15 /\ IsPointer(calls[j])
                                            /\ calls[j].what = calls[i].what /\ calls[j].size = calls[i].size
    BY DEF UsesPointers
  <2>1. i = 12 \/ i = 13 \/ i = 14
    BY <1>9
  <2>2. CASE i = 12
    <3> WITNESS 5 \in 1 .. i - 1
    <3> QED BY <1>10, <2>2
  <2>3. CASE i = 13
    <3> WITNESS 6 \in 1 .. i - 1
    <3> QED BY <1>10, <2>3
  <2>4. CASE i = 14
    <3> WITNESS 4 \in 1 .. i - 1
    <3> QED BY <1>10, <2>4
  <2> QED BY <2>1, <2>2, <2>3, <2>4
<1>12. PointersDiffer(calls)
  BY <1>5 DEF PointersDiffer
<1>13. \A i \in 1 .. n : Behind(calls, i) => i > 3
  BY <1>3 DEF Behind
<1>14. LateDiffer(calls)
  <2>4. \A j \in 1 .. 3 : calls[j].what # calls[4].what
    <3>1. \A j \in 1 .. 3 : j = 1 \/ j = 2 \/ j = 3
      OBVIOUS
    <3> QED BY <3>1
  <2>5. \A j \in 1 .. 4 : calls[j].what # calls[5].what
    <3>1. \A j \in 1 .. 4 : j = 1 \/ j = 2 \/ j = 3 \/ j = 4
      OBVIOUS
    <3> QED BY <3>1
  <2>6. \A j \in 1 .. 5 : calls[j].what # calls[6].what
    <3>1. \A j \in 1 .. 5 : j = 1 \/ j = 2 \/ j = 3 \/ j = 4 \/ j = 5
      OBVIOUS
    <3> QED BY <3>1
  <2>7. \A j \in 1 .. 6 : calls[j].what # calls[7].what
    <3>1. \A j \in 1 .. 6 : j = 1 \/ j = 2 \/ j = 3 \/ j = 4 \/ j = 5 \/ j = 6
      OBVIOUS
    <3> QED BY <3>1
  <2>8. \A j \in 1 .. 7 : calls[j].what # calls[8].what
    <3>1. \A j \in 1 .. 7 : j = 1 \/ j = 2 \/ j = 3 \/ j = 4 \/ j = 5 \/ j = 6 \/ j = 7
      OBVIOUS
    <3> QED BY <3>1
  <2>9. \A j \in 1 .. 8 : calls[j].what # calls[9].what
    <3>1. \A j \in 1 .. 8 : j = 1 \/ j = 2 \/ j = 3 \/ j = 4 \/ j = 5 \/ j = 6 \/ j = 7 \/ j = 8
      OBVIOUS
    <3> QED BY <3>1
  <2>10. \A j \in 1 .. 9 : calls[j].what # calls[10].what
    <3>1. \A j \in 1 .. 9 : j = 1 \/ j = 2 \/ j = 3 \/ j = 4 \/ j = 5 \/ j = 6 \/ j = 7 \/ j = 8 \/ j = 9
      OBVIOUS
    <3> QED BY <3>1
  <2>11. \A j \in 1 .. 10 : calls[j].what # calls[11].what
    <3>1. \A j \in 1 .. 10 : j = 1 \/ j = 2 \/ j = 3 \/ j = 4 \/ j = 5 \/ j = 6 \/ j = 7 \/ j = 8 \/ j = 9 \/ j = 10
      OBVIOUS
    <3> QED BY <3>1
  <2>12. \A i \in 1 .. n : Sends(calls[i]) /\ i > 3 => \/ i = 4 \/ i = 5 \/ i = 6 \/ i = 7 \/ i = 8 \/ i = 9 \/ i = 10 \/ i = 11
    BY <1>6
  <2>13. \A i \in 1 .. n : Sends(calls[i]) /\ Behind(calls, i) =>
           calls[i].size >= 1 /\ \A j \in 1 .. i - 1 : calls[j].what # calls[i].what
    <3> SUFFICES ASSUME NEW i \in 1 .. n, Sends(calls[i]), Behind(calls, i)
                 PROVE  calls[i].size >= 1 /\ \A j \in 1 .. i - 1 : calls[j].what # calls[i].what
      OBVIOUS
    <3>1. \/ i = 4 \/ i = 5 \/ i = 6 \/ i = 7 \/ i = 8 \/ i = 9 \/ i = 10 \/ i = 11
      BY <1>13, <2>12
    <3>4. CASE i = 4
      BY <2>4, <3>4
    <3>5. CASE i = 5
      BY <2>5, <3>5
    <3>6. CASE i = 6
      BY <2>6, <3>6
    <3>7. CASE i = 7
      BY <2>7, <3>7
    <3>8. CASE i = 8
      BY <2>8, <3>8
    <3>9. CASE i = 9
      BY <2>9, <3>9
    <3>10. CASE i = 10
      BY <2>10, <3>10
    <3>11. CASE i = 11
      BY <2>11, <3>11
    <3> QED BY <3>1, <3>4, <3>5, <3>6, <3>7, <3>8, <3>9, <3>10, <3>11
  <2> QED BY <1>4, <2>13 DEF LateDiffer
<1>15. KeyEnds(calls)
  BY <1>1 DEF KeyEnds
<1>16. RestLast(calls)
  BY <1>4 DEF RestLast
<1>17. Regular(calls, 15, 14)
  <2>1. IsOptions(calls[1])
    BY DEF IsOptions
  <2>2. ShowsAmounts(calls)
    BY <1>1 DEF ShowsAmounts, Showing
  <2> QED BY <2>1, <2>2, <1>2, <1>7, <1>8, <1>11, <1>12, <1>14, <1>15, <1>16 DEF Regular
<1>18. AllFetched(calls)
  BY <1>4 DEF AllFetched
<1> QED BY <1>17, <1>18

LEMMA OutputKeysRegular ==
  ASSUME NEW v \in Int, NEW additional \in BOOLEAN
  PROVE  /\ Regular(generate_txout_keys(v, additional).calls, 15, 14)
         /\ AllFetched(generate_txout_keys(v, additional).calls)
         /\ BehindKey(generate_txout_keys(v, additional)) # {}
<1> DEFINE o == Fetch("options", 1)
           a1 == Fetch("tx_version", 4)
           a2 == Key("tx_key")
           a3 == Point("txkey_pub", 32)
           a4 == Point("Aout", 32)
           a5 == Point("Bout", 32)
           a6 == Fetch("output_index", 4)
           a7 == Fetch("is_change", 1)
           a8 == Fetch("is_subaddress", 1)
           a9 == Fetch("need_additional_txkeys", 1)
           a10 == IF additional THEN Key("additional_txkey") ELSE Point("additional_txkey", 32)
           a11 == Use("Aout", 32)
           a12 == Use("Bout", 32)
           a13 == Use("txkey_pub", 32)
           c == Discard(FALSE)
           x == Seal("amount_key")
           y == Insert("out_eph_public_key", 32)
           z == Insert("additional_txkey_pub", 32)
           reads == << a1, a2, a3, a4, a5, a6, a7, a8, a9, a10, a11, a12, a13, c >>
           key == IF v > 1 THEN << x >> ELSE << >>
           pub == IF additional THEN << z >> ELSE << >>
           calls == << o >> \o (reads \o key \o << y >> \o pub)
           First15(q) == /\ q[1] = o /\ q[2] = a1 /\ q[3] = a2 /\ q[4] = a3 /\ q[5] = a4
                      /\ q[6] = a5 /\ q[7] = a6 /\ q[8] = a7 /\ q[9] = a8 /\ q[10] = a9
                      /\ q[11] = a10 /\ q[12] = a11 /\ q[13] = a12 /\ q[14] = a13 /\ q[15] = c
<1>1. generate_txout_keys(v, additional).calls = calls
  <2>1. CASE v > 1 /\ additional
    BY <2>1, CommandCalls, Zenon DEF generate_txout_keys
  <2>2. CASE v > 1 /\ ~additional
    BY <2>2, CommandCalls, Zenon DEF generate_txout_keys
  <2>3. CASE ~(v > 1) /\ additional
    BY <2>3, CommandCalls, Zenon DEF generate_txout_keys
  <2>4. CASE ~(v > 1) /\ ~additional
    BY <2>4, CommandCalls, Zenon DEF generate_txout_keys
  <2> QED BY <2>1, <2>2, <2>3, <2>4
<1>2. /\ o.op = "fetch" /\ o.what = "options" /\ o.size = 1
      /\ a1.op = "fetch" /\ a1.what = "tx_version" /\ a1.size = 4
      /\ a2.op = "fetch_decrypt_key" /\ a2.what = "tx_key" /\ a2.size = 32
      /\ a3.op = "point" /\ a3.what = "txkey_pub" /\ a3.size = 32
      /\ a4.op = "point" /\ a4.what = "Aout" /\ a4.size = 32
      /\ a5.op = "point" /\ a5.what = "Bout" /\ a5.size = 32
      /\ a6.op = "fetch" /\ a6.what = "output_index" /\ a6.size = 4
      /\ a7.op = "fetch" /\ a7.what = "is_change" /\ a7.size = 1
      /\ a8.op = "fetch" /\ a8.what = "is_subaddress" /\ a8.size = 1
      /\ a9.op = "fetch" /\ a9.what = "need_additional_txkeys" /\ a9.size = 1
      /\ a11.op = "use" /\ a11.what = "Aout" /\ a11.size = 32
      /\ a12.op = "use" /\ a12.what = "Bout" /\ a12.size = 32
      /\ a13.op = "use" /\ a13.what = "txkey_pub" /\ a13.size = 32
      /\ c.op = "discard" /\ x.op = "insert_encrypt" /\ y.op = "insert" /\ z.op = "insert"
  BY DEF Call, Fetch, Key, Point, Use, Discard, Seal, Insert
<1>3. a10.op \in {"fetch_decrypt_key", "point"} /\ a10.what = "additional_txkey" /\ a10.size = 32
  BY DEF Call, Key, Point
<1> HIDE DEF o, a1, a2, a3, a4, a5, a6, a7, a8, a9, a10, a11, a12, a13, c, x, y, z
<1>4. \E n \in {16, 17, 18} : /\ Len(calls) = n /\ DOMAIN calls = 1 .. n /\ First15(calls)
                              /\ \A i \in 16 .. n : calls[i] \in {x, y, z}
  <2>1. CASE v > 1 /\ additional
    <3>1. calls = << o >> \o (reads \o << x >> \o << y >> \o << z >>)
      BY <2>1, Zenon
    <3> HIDE DEF key, pub, calls
    <3>2. /\ Len(calls) = 18 /\ DOMAIN calls = 1 .. 18 /\ First15(calls)
          /\ calls[16] = x /\ calls[17] = y /\ calls[18] = z
      BY <3>1
    <3> HIDE DEF First15
    <3> QED BY <3>2
  <2>2. CASE v > 1 /\ ~additional
    <3>1. calls = << o >> \o (reads \o << x >> \o << y >> \o << >>)
      BY <2>2, Zenon
    <3> HIDE DEF key, pub, calls
    <3>2. /\ Len(calls) = 17 /\ DOMAIN calls = 1 .. 17 /\ First15(calls)
          /\ calls[16] = x /\ calls[17] = y
      BY <3>1
    <3> HIDE DEF First15
    <3> QED BY <3>2
  <2>3. CASE ~(v > 1) /\ additional
    <3>1. calls = << o >> \o (reads \o << >> \o << y >> \o << z >>)
      BY <2>3, Zenon
    <3> HIDE DEF key, pub, calls
    <3>2. /\ Len(calls) = 17 /\ DOMAIN calls = 1 .. 17 /\ First15(calls)
          /\ calls[16] = y /\ calls[17] = z
      BY <3>1
    <3> HIDE DEF First15
    <3> QED BY <3>2
  <2>4. CASE ~(v > 1) /\ ~additional
    <3>1. calls = << o >> \o (reads \o << >> \o << y >> \o << >>)
      BY <2>4, Zenon
    <3> HIDE DEF key, pub, calls
    <3>2. /\ Len(calls) = 16 /\ DOMAIN calls = 1 .. 16 /\ First15(calls)
          /\ calls[16] = y
      BY <3>1
    <3> HIDE DEF First15
    <3> QED BY <3>2
  <2> QED BY <2>1, <2>2, <2>3, <2>4
<1> HIDE DEF calls
<1>5. PICK n \in {16, 17, 18} : /\ Len(calls) = n /\ DOMAIN calls = 1 .. n /\ First15(calls)
                                /\ \A i \in 16 .. n : calls[i] \in {x, y, z}
  BY <1>4
<1>6. \A i \in 16 .. n : calls[i].op \in {"insert", "insert_encrypt"}
  BY <1>2, <1>5
<1>7. Regular(calls, 15, 14) /\ AllFetched(calls)
  BY <1>2, <1>3, <1>5, <1>6, OutputHead
<1>8. BehindKey(generate_txout_keys(v, additional)) # {}
  <2> DEFINE command_ == generate_txout_keys(v, additional)
  <2>1. command_.calls[7].op = "fetch" /\ 7 \in DOMAIN command_.calls
    BY <1>1, <1>2, <1>5
  <2>2. command_.calls[3].op = "fetch_decrypt_key" /\ 3 \in 1 .. 7 - 1
    BY <1>1, <1>2, <1>5
  <2> HIDE DEF command_
  <2>3. BehindKey(command_) # {}
    BY <2>1, <2>2, FetchBehind
  <2> QED BY <2>3 DEF command_
<1> QED BY <1>1, <1>7, <1>8

\* A handler without keys and pointers is regular.
LEMMA PlainRegular ==
  ASSUME NEW calls, Plain(calls), Orderly(calls)
  PROVE  \E d, e : Regular(calls, d, e) /\ AllFetched(calls) /\ KeyLast(calls)
<1> DEFINE k == Len(calls)
<1>1. PICK d : Asks(calls, d) \/ \E sizes : Answers(calls, d, sizes)
  BY DEF Orderly
<1>2. Reads(calls, d)
  BY <1>1 DEF Asks, Answers
<1>3. /\ k \in Nat /\ DOMAIN calls = 1 .. k /\ d \in 1 .. k
      /\ \A i \in 1 .. k : i < d => Reader(calls[i])
      /\ Discards(calls[d])
  BY <1>2 DEF Reads
<1>4. /\ IsOptions(calls[1]) /\ \A i \in 1 .. k : calls[i].op \in PlainOps
      /\ ShowsAmounts(calls)
  BY DEF Plain, IsPlain, ShowsAmounts
<1>5. \A i \in 1 .. k : i > d => calls[i].op \in TailOps \cup {"use"}
  <2>1. CASE Asks(calls, d)
    <3>1. \A c : Quiet(c) => c.op \in TailOps \cup {"use"}
      BY DEF Quiet, TailOps
    <3> QED BY <2>1, <3>1 DEF Asks
  <2>2. CASE \E sizes : Answers(calls, d, sizes)
    <3>1. \A c, n : PutsAtMost(c, n) => c.op \in TailOps \cup {"use"}
      BY DEF PutsAtMost, TailOps
    <3> QED BY <2>2, <3>1 DEF Answers
  <2> QED BY <1>1, <2>1, <2>2
<1>6. calls[d].op \in TailOps \cup {"use"}
  BY <1>3 DEF Discards, TailOps
<1> HIDE DEF k
<1>7. \A i \in 1 .. k : i >= d => calls[i].op \in TailOps \cup {"use"}
  BY <1>3, <1>5, <1>6
<1>8. \A i \in 1 .. k : calls[i].op # "use" /\ ~IsPointer(calls[i]) /\ ~IsRest(calls[i]) /\ ~IsKey(calls[i])
  BY <1>4 DEF PlainOps, IsPointer, IsRest, IsKey
<1>9. d - 1 \in Nat /\ d - 1 <= d - 1 /\ d - 1 <= k /\ d \in 1 .. k + 1
  BY <1>3
<1>10. ReadsTo(calls, d)
  BY <1>3, <1>9 DEF ReadsTo, k
<1>11. TailCalls(calls, d, d - 1)
  <2>1. \A i \in 1 .. k : ~(i >= d /\ i <= d - 1)
    BY <1>3
  <2> QED BY <1>7, <1>8, <2>1 DEF TailCalls, k
<1>12. UsesPointers(calls, d)
  BY <1>8 DEF UsesPointers, k
<1>13. PointersDiffer(calls)
  BY <1>8 DEF PointersDiffer, k
<1>14. LateDiffer(calls)
  <2>1. \A i \in 1 .. k : ~Behind(calls, i)
    <3>1. \A i \in 1 .. k : \A j \in 1 .. i - 1 : j \in 1 .. k
      BY <1>3
    <3> QED BY <1>8, <3>1 DEF Behind
  <2> QED BY <2>1 DEF LateDiffer, k
<1>15. RestLast(calls)
  BY <1>8 DEF RestLast, k
<1>16. KeyEnds(calls)
  BY <1>8 DEF KeyEnds, k
<1>17. AllFetched(calls)
  BY <1>8 DEF AllFetched, k
<1>18. KeyLast(calls)
  BY <1>8 DEF KeyLast, k
<1>19. Regular(calls, d, d - 1)
  BY <1>4, <1>9, <1>10, <1>11, <1>12, <1>13, <1>14, <1>15, <1>16 DEF Regular, k
<1> QED BY <1>17, <1>18, <1>19

\* The commands that take what is left, however much it is.
TakesWhatIsLeft(c) ==
  c.name \in {"mlsag_prehash_init", "mlsag_prehash_init_more", "manage_seedwords", "manage_seedwords_other"}

\* How a handler reads: all of it by fetches, and nothing behind a key that has to be there.
InOrder(c) ==
  \E d, e : /\ Regular(c.calls, d, e)
            /\ \/ TakesWhatIsLeft(c) \/ c = put_key \/ c \in ClaimedCommands
               \/ AllFetched(c.calls) /\ (KeyLast(c.calls) \/ BehindKey(c) # {})

LEMMA PlainInOrder ==
  ASSUME NEW c, Plain(c.calls), Orderly(c.calls)
  PROVE  InOrder(c)
BY PlainRegular DEF InOrder

LEMMA RegularInOrder ==
  ASSUME NEW c, NEW d, NEW e, Regular(c.calls, d, e), AllFetched(c.calls),
         KeyLast(c.calls) \/ BehindKey(c) # {}
  PROVE  InOrder(c)
BY DEF InOrder

LEMMA KeysInOrder ==
  /\ InOrder(verify_key) /\ InOrder(scal_mul_key) /\ InOrder(generate_key_derivation)
  /\ InOrder(derive_secret_key) /\ InOrder(get_subaddress_secret_key) /\ InOrder(stealth) /\ InOrder(get_tx_proof)
BY VerifyKeyRegular, ScalMulKeyRegular, DerivationRegular, SecretKeyRegular, SubaddressRegular,
   StealthRegular, TxProofRegular, RegularInOrder

LEMMA RestsInOrder ==
  /\ InOrder(put_key) /\ InOrder(manage_seedwords) /\ InOrder(manage_seedwords_other)
  /\ InOrder(mlsag_prehash_init_more)
  /\ \A amount \in Amounts : InOrder(mlsag_prehash_init(amount))
<1>1. \A name, calls : Command(name, calls).name = name
  BY DEF Command
<1>2. /\ TakesWhatIsLeft(manage_seedwords) /\ TakesWhatIsLeft(manage_seedwords_other)
      /\ TakesWhatIsLeft(mlsag_prehash_init_more)
      /\ \A amount : TakesWhatIsLeft(mlsag_prehash_init(amount))
  <2>1. manage_seedwords.name = "manage_seedwords" /\ manage_seedwords_other.name = "manage_seedwords_other"
    BY <1>1, Zenon DEF manage_seedwords, manage_seedwords_other
  <2>2. mlsag_prehash_init_more.name = "mlsag_prehash_init_more"
    BY <1>1, Zenon DEF mlsag_prehash_init_more
  <2>3. \A amount : mlsag_prehash_init(amount).name = "mlsag_prehash_init"
    BY <1>1, Zenon DEF mlsag_prehash_init
  <2> QED BY <2>1, <2>2, <2>3 DEF TakesWhatIsLeft
<1>3. InOrder(put_key)
  BY PutKeyRegular DEF InOrder
<1>4. InOrder(manage_seedwords) /\ InOrder(manage_seedwords_other) /\ InOrder(mlsag_prehash_init_more)
  BY <1>2, SeedwordsRegular, OtherRegular, InitMoreRegular DEF InOrder
<1>5. \A amount \in Amounts : InOrder(mlsag_prehash_init(amount))
  BY <1>2, InitRegular DEF InOrder
<1> QED BY <1>3, <1>4, <1>5

LEMMA ClaimedInOrder == \A c \in ClaimedCommands : InOrder(c)
<1> SUFFICES ASSUME NEW c \in ClaimedCommands PROVE InOrder(c)
  OBVIOUS
<1>1. PICK size \in ClaimedSizes : c = tx_prefix_extra_claimed(size)
  BY DEF ClaimedCommands
<1>2. Regular(c.calls, 5, 4)
  BY <1>1, ClaimedRegular
<1> QED BY <1>2 DEF InOrder

LEMMA OutputsInOrder ==
  /\ \A v \in Int, additional \in BOOLEAN : InOrder(generate_txout_keys(v, additional))
  /\ \A amount \in Amounts :
       InOrder(mlsag_prehash_update(2, amount, TRUE)) /\ InOrder(mlsag_prehash_update(0, amount, TRUE))
  /\ \A amount : InOrder(mlsag_prehash_update(2, amount, FALSE))
BY OutputKeysRegular, ChangeUpdateRegular, UpdateRegular, QuietUpdateRegular, RegularInOrder

\* Every handler but the one of the extra field reads in order.
LEMMA CommandShapes ==
  ASSUME NEW c \in Commands
  PROVE  InOrder(c) \/ \E size \in ExtraSizes : c = tx_prefix_extra(size)
<1> DEFINE Shaped == InOrder(c) \/ \E size \in ExtraSizes : c = tx_prefix_extra(size)
<1>0. ASSUME Plain(c.calls)
      PROVE  Shaped
  BY <1>0, HandlerShapes, PlainInOrder, RestsInOrder
<1>2. CASE c \in FreeCommands
  BY <1>0, <1>2, PlainHandlers, KeysInOrder, RestsInOrder DEF FreeCommands
<1>3. CASE c \in PrefixCommands
  <2>1. CASE c \in NumberCommands
    <3>1. Plain(c.calls)
      BY <2>1, PlainHandlers DEF NumberCommands
    <3> QED BY <1>0, <3>1
  <2>2. CASE c \in ExtraCommands
    BY <2>2 DEF ExtraCommands
  <2>3. CASE c = tx_prefix_outputs_matches
    BY <1>0, <2>3, PlainHandlers
  <2>4. CASE c \in ClaimedCommands
    BY <2>4, ClaimedInOrder
  <2> QED BY <1>3, <2>1, <2>2, <2>3, <2>4 DEF PrefixCommands
<1>4. CASE c \in AmountCommands
  <2>1. PICK a \in Amounts :
                 \/ c \in {mlsag_prehash_init(a), mlsag_prehash_update(2, a, TRUE), mlsag_prehash_update(0, a, TRUE)}
                 \/ c \in {tx_prompt_fee(a), tx_prompt_amount(a), tx_prompt_loopback(a)}
    BY <1>4 DEF AmountCommands, Amounts
  <2>2. CASE c \in {mlsag_prehash_init(a), mlsag_prehash_update(2, a, TRUE), mlsag_prehash_update(0, a, TRUE)}
    BY <2>2, RestsInOrder, OutputsInOrder
  <2>3. CASE c \in {tx_prompt_fee(a), tx_prompt_amount(a), tx_prompt_loopback(a)}
    <3>1. Plain(c.calls)
      BY <2>3, PlainHandlers
    <3> QED BY <1>0, <3>1
  <2> QED BY <2>1, <2>2, <2>3
<1>5. CASE \E v \in 1 .. 2, additional \in BOOLEAN : c = generate_txout_keys(v, additional)
  BY <1>5, OutputsInOrder
<1>6. CASE c \in {mlsag_prepare(<< >>), mlsag_prepare(<< Fetch("Hi", 32), Fetch("xin", 32) >>),
                 mlsag_prepare(<< Fetch("Hi", 32), Sealed("xin") >>)}
  <2>1. Plain(c.calls)
    BY <1>6, PlainTxHandlers, Zenon
  <2> QED BY <1>0, <2>1
<1>7. CASE (\E first, last \in BOOLEAN : c = mlsag_hash(first, last)) \/ \E real \in BOOLEAN : c = mlsag_sign(real)
  <2>1. Plain(c.calls)
    BY <1>7, PlainTxHandlers
  <2> QED BY <1>0, <2>1
<1>8. CASE c \in {blind, gen_commitment_mask, mlsag_prehash_init_more, mlsag_prehash_update(2, << >>, FALSE),
                 mlsag_prehash_finalize_more, mlsag_prehash_finalize, tx_prompt_fake,
                 hash_to_scalar_init, hash_to_scalar, hash_to_scalar_batch}
  <2>1. CASE c \in {mlsag_prehash_init_more, mlsag_prehash_update(2, << >>, FALSE)}
    BY <2>1, RestsInOrder, OutputsInOrder, Zenon
  <2>2. CASE c \in {blind, gen_commitment_mask, mlsag_prehash_finalize_more, mlsag_prehash_finalize, tx_prompt_fake,
                    hash_to_scalar_init, hash_to_scalar, hash_to_scalar_batch}
    <3>1. Plain(c.calls)
      BY <2>2, PlainHandlers
    <3> QED BY <1>0, <3>1
  <2> QED BY <1>8, <2>1, <2>2
<1> HIDE DEF Shaped
<1>9. \/ c \in FreeCommands \/ c \in PrefixCommands \/ c \in AmountCommands
      \/ \E v \in 1 .. 2, additional \in BOOLEAN : c = generate_txout_keys(v, additional)
      \/ c \in {mlsag_prepare(<< >>), mlsag_prepare(<< Fetch("Hi", 32), Fetch("xin", 32) >>),
                mlsag_prepare(<< Fetch("Hi", 32), Sealed("xin") >>)}
      \/ \E first, last \in BOOLEAN : c = mlsag_hash(first, last)
      \/ \E real \in BOOLEAN : c = mlsag_sign(real)
      \/ c \in {blind, gen_commitment_mask, mlsag_prehash_init_more, mlsag_prehash_update(2, << >>, FALSE),
                mlsag_prehash_finalize_more, mlsag_prehash_finalize, tx_prompt_fake,
                hash_to_scalar_init, hash_to_scalar, hash_to_scalar_batch}
  BY CommandKinds
<1> QED BY <1>2, <1>3, <1>4, <1>5, <1>6, <1>7, <1>8, <1>9 DEF Shaped

\* Nothing is sent for what a handler does when it has read.
LEMMA TailSends ==
  ASSUME NEW calls, NEW d, NEW e, Regular(calls, d, e)
  PROVE  SentBefore(calls, d)
<1>1. \A i \in 1 .. Len(calls) : i >= d => calls[i].op \in TailOps \cup {"use"}
  BY DEF Regular, TailCalls
<1>2. \A c : c.op \in TailOps \cup {"use"} => ~Sends(c)
  BY DEF TailOps, Sends, SentOps
<1> QED BY <1>1, <1>2 DEF SentBefore

\* PUT_KEY has 226 bytes.
LEMMA PutKeySize ==
  ASSUME NEW tx, NEW p, NEW data, IsLayout(p, put_key.calls, tx, data, Len(put_key.calls))
  PROVE  /\ Len(put_key.calls) = 8 /\ Len(data) = 226
         /\ put_key.calls[2].op = "exactly" /\ put_key.calls[2].size = 226
<1> DEFINE o == Fetch("options", 1)
           a1 == Exactly(226)
           a2 == Fetch("a", 32)
           a3 == Fetch("A", 32)
           a4 == Fetch("b", 32)
           a5 == Fetch("B", 32)
           a6 == Rest("address", 97)
           a7 == Discard(TRUE)
           calls == << o >> \o << a1, a2, a3, a4, a5, a6, a7 >>
<1>1. put_key.calls = calls
  BY CommandCalls, Zenon DEF put_key
<1>2. /\ SentSize(o, tx) = 1 /\ SentSize(a1, tx) = 0 /\ SentSize(a2, tx) = 32 /\ SentSize(a3, tx) = 32
      /\ SentSize(a4, tx) = 32 /\ SentSize(a5, tx) = 32 /\ SentSize(a6, tx) = 97 /\ SentSize(a7, tx) = 0
      /\ a1.op = "exactly" /\ a1.size = 226
  BY DEF SentSize, SentOps, Call, Fetch, Exactly, Rest, Discard
<1> HIDE DEF o, a1, a2, a3, a4, a5, a6, a7
<1>3. /\ Len(calls) = 8 /\ calls[1] = o /\ calls[2] = a1 /\ calls[3] = a2 /\ calls[4] = a3 /\ calls[5] = a4
      /\ calls[6] = a5 /\ calls[7] = a6 /\ calls[8] = a7
  OBVIOUS
<1> HIDE DEF calls
<1>4. /\ p[0] = 0 /\ p[8] = Len(data)
      /\ \A n \in 1 .. 8 : p[n] = p[n - 1] + SentSize(calls[n], tx)
  BY <1>1, <1>3 DEF IsLayout
<1>5. /\ p[1] = p[0] + 1 /\ p[2] = p[1] + 0 /\ p[3] = p[2] + 32 /\ p[4] = p[3] + 32 /\ p[5] = p[4] + 32
      /\ p[6] = p[5] + 32 /\ p[7] = p[6] + 97 /\ p[8] = p[7] + 0
  <2>1. /\ p[1] = p[1 - 1] + SentSize(calls[1], tx) /\ p[2] = p[2 - 1] + SentSize(calls[2], tx)
        /\ p[3] = p[3 - 1] + SentSize(calls[3], tx) /\ p[4] = p[4 - 1] + SentSize(calls[4], tx)
        /\ p[5] = p[5 - 1] + SentSize(calls[5], tx) /\ p[6] = p[6 - 1] + SentSize(calls[6], tx)
        /\ p[7] = p[7 - 1] + SentSize(calls[7], tx) /\ p[8] = p[8 - 1] + SentSize(calls[8], tx)
    BY <1>4
  <2> QED BY <1>2, <1>3, <2>1
<1>6. Len(data) = 226
  BY <1>4, <1>5
<1> QED BY <1>1, <1>2, <1>3, <1>6

LEMMA PutKeyCut ==
  ASSUME NEW s, Typed(s), NEW p, NEW data, IsLayout(p, put_key.calls, s.tx, data, Len(put_key.calls)),
         s.length < Len(data), NEW r, r = Runs(s, put_key.calls)
  PROVE  r[Len(put_key.calls)].error # "none"
<1> DEFINE calls == put_key.calls
<1>1. Len(calls) = 8 /\ Len(data) = 226 /\ calls[2].op = "exactly" /\ calls[2].size = 226
  BY PutKeySize
<1>2. ReadsTo(calls, 8)
  BY PutKeyRegular DEF Regular
<1>3. \A n \in 0 .. 7 : Typed(r[n]) /\ Kept(s, r[n])
  <2>1. \A n \in 0 .. 8 - 1 : Typed(r[n]) /\ Kept(s, r[n])
    BY <1>2, ReadsToRun
  <2> QED BY <2>1
<1>4. r[0] = s /\ \A n \in 1 .. 8 : r[n] = Do(r[n - 1], calls[n])
  <2>1. Len(calls) \in Nat
    BY <1>1
  <2>2. r[0] = s /\ \A n \in 1 .. Len(calls) : r[n] = Do(r[n - 1], calls[n])
    BY <2>1, RunsDef
  <2> HIDE DEF calls
  <2> QED BY <1>1, <2>2
<1> HIDE DEF calls
<1>5. r[2] = Do(r[1], calls[2]) /\ r[1].length = s.length /\ Typed(r[1])
  <2>1. r[2] = Do(r[2 - 1], calls[2])
    BY <1>4
  <2> QED BY <1>3, <2>1 DEF Kept
<1>6. r[2].error # "none"
  <2>1. CASE r[1].error # "none"
    BY <1>5, <2>1, ErrorStays
  <2>2. CASE r[1].error = "none"
    <3>1. r[1].length # 226
      BY <1>1, <1>5 DEF Typed
    <3>2. r[2] = Fails(r[1], "SW_WRONG_LENGTH")
      BY <1>1, <1>5, <2>2, <3>1 DEF Do
    <3>3. "SW_WRONG_LENGTH" \in Errors
      BY DEF Errors
    <3>4. r[2].error = "SW_WRONG_LENGTH"
      BY <1>5, <3>2, <3>3, FailsState
    <3> QED BY <3>4
  <2> QED BY <2>1, <2>2
<1>7. r[8] = r[2]
  <2>1. Len(calls) \in Nat /\ 2 \in 0 .. Len(calls) /\ 8 \in 2 .. Len(calls)
    BY <1>1
  <2>2. \A n \in 2 .. Len(calls) : r[n] = r[2]
    BY <1>6, <2>1, ErrorRun DEF calls
  <2> QED BY <2>1, <2>2
<1> QED BY <1>1, <1>6, <1>7 DEF calls

\* How the handler of the extra field reads.
LEMMA ExtraReads ==
  ASSUME NEW size \in ExtraSizes, NEW calls, calls = tx_prefix_extra(size).calls
  PROVE  ReadsTo(calls, 4) /\ SentBefore(calls, 4) /\ AllFetched(calls) /\ KeyLast(calls)
<1>1. /\ Len(calls) = 7 /\ DOMAIN calls = 1 .. 7
      /\ calls[1] = Fetch("options", 1) /\ calls[2] = Fetch("extra_size", 4)
      /\ calls[3] = Point("extra", size) /\ calls[4] = Discard(FALSE) /\ calls[5] = Number(size)
      /\ calls[6] = Use("extra", size) /\ calls[7] = Extra(size)
  BY ExtraCalls
<1>2. size \in Octets
  BY ExtraAssumption DEF Octets
<1>3. Reader(Fetch("options", 1)) /\ Reader(Fetch("extra_size", 4)) /\ Reader(Point("extra", size))
  BY <1>2 DEF Reader, ReadOps, Octets, Call, Fetch, Point
<1>4. /\ Discard(FALSE).op = "discard" /\ Number(size).op = "add_to_tx_prefix"
      /\ Use("extra", size).op = "use" /\ Extra(size).op = "insert_extra"
      /\ Fetch("options", 1).op = "fetch" /\ Fetch("extra_size", 4).op = "fetch" /\ Point("extra", size).op = "point"
  BY DEF Discard, Number, Use, Extra, Fetch, Point, Call
<1>5. \A i \in 1 .. 7 : i = 1 \/ i = 2 \/ i = 3 \/ i = 4 \/ i = 5 \/ i = 6 \/ i = 7
  OBVIOUS
<1>6. ReadsTo(calls, 4)
  <2>1. \A i \in 1 .. 7 : i < 4 => Reader(calls[i])
    BY <1>1, <1>3, <1>5
  <2> QED BY <1>1, <2>1 DEF ReadsTo
<1>7. SentBefore(calls, 4)
  <2>1. ~Sends(calls[4]) /\ ~Sends(calls[5]) /\ ~Sends(calls[6]) /\ ~Sends(calls[7])
    BY <1>1, <1>4 DEF Sends, SentOps
  <2>2. \A i \in 1 .. 7 : i >= 4 => i = 4 \/ i = 5 \/ i = 6 \/ i = 7
    OBVIOUS
  <2>3. \A i \in 1 .. 7 : i >= 4 => ~Sends(calls[i])
    BY <2>1, <2>2
  <2> QED BY <1>1, <2>3 DEF SentBefore
<1>8. \A i \in 1 .. 7 : ~IsRest(calls[i]) /\ ~IsKey(calls[i])
  BY <1>1, <1>4, <1>5 DEF IsRest, IsKey
<1>9. AllFetched(calls) /\ KeyLast(calls)
  BY <1>1, <1>8 DEF AllFetched, KeyLast
<1> QED BY <1>6, <1>7, <1>9

\* Of an extra field that no command can hold there are 250 bytes at most.
LEMMA ClaimedCut ==
  ASSUME NEW size \in ClaimedSizes, size < INT_LIMIT, NEW calls, calls = tx_prefix_extra_claimed(size).calls,
         NEW s, Typed(s), s.offset = 0, NEW p, NEW data, IsLayout(p, calls, s.tx, data, Len(calls)),
         s.length < Len(data), NEW r, r = Runs(s, calls)
  PROVE  r[Len(calls)].error # "none"
<1>1. /\ Len(calls) = 7
      /\ calls[1].op = "fetch" /\ calls[1].size = 1 /\ calls[2].op = "fetch" /\ calls[2].size = 4
      /\ calls[3].op = "rest" /\ calls[3].size = 251 /\ calls[4].op = "skip" /\ calls[4].size = size
      /\ calls[5].op = "discard" /\ calls[6].op = "add_to_tx_prefix" /\ calls[7].op = "fault"
  BY ClaimedShape
<1>2. \A n \in 0 .. 4 : Typed(r[n]) /\ Kept(s, r[n])
  <2>1. ReadsTo(calls, 5)
    BY ClaimedRegular DEF Regular
  <2>2. \A n \in 0 .. 5 - 1 : Typed(r[n]) /\ Kept(s, r[n])
    BY <2>1, ReadsToRun
  <2> QED BY <2>2
<1>3. r[0] = s /\ \A n \in 1 .. 7 : r[n] = Do(r[n - 1], calls[n])
  <2>1. Len(calls) \in Nat
    BY <1>1
  <2>2. r[0] = s /\ \A n \in 1 .. Len(calls) : r[n] = Do(r[n - 1], calls[n])
    BY <2>1, RunsDef
  <2> QED BY <1>1, <2>2
<1>4. Len(data) = 256
  <2>1. /\ SentSize(calls[1], s.tx) = 1 /\ SentSize(calls[2], s.tx) = 4 /\ SentSize(calls[3], s.tx) = 251
        /\ SentSize(calls[4], s.tx) = 0 /\ SentSize(calls[5], s.tx) = 0 /\ SentSize(calls[6], s.tx) = 0
        /\ SentSize(calls[7], s.tx) = 0
    BY <1>1 DEF SentSize, SentOps
  <2>2. /\ p[0] = 0 /\ p[7] = Len(data)
        /\ \A n \in 1 .. 7 : p[n] = p[n - 1] + SentSize(calls[n], s.tx)
    BY <1>1 DEF IsLayout
  <2>3. /\ p[1] = p[1 - 1] + SentSize(calls[1], s.tx) /\ p[2] = p[2 - 1] + SentSize(calls[2], s.tx)
        /\ p[3] = p[3 - 1] + SentSize(calls[3], s.tx) /\ p[4] = p[4 - 1] + SentSize(calls[4], s.tx)
        /\ p[5] = p[5 - 1] + SentSize(calls[5], s.tx) /\ p[6] = p[6 - 1] + SentSize(calls[6], s.tx)
        /\ p[7] = p[7 - 1] + SentSize(calls[7], s.tx)
    BY <2>2
  <2>4. /\ p[1] = p[0] + 1 /\ p[2] = p[1] + 4 /\ p[3] = p[2] + 251 /\ p[4] = p[3] + 0
        /\ p[5] = p[4] + 0 /\ p[6] = p[5] + 0 /\ p[7] = p[6] + 0
    BY <2>1, <2>3
  <2> QED BY <2>2, <2>4
<1>5. ASSUME NEW n \in 1 .. 7, r[7].error = "none"
      PROVE  r[n - 1].error = "none" /\ r[n].error = "none"
  <2>1. \A m \in 0 .. 7 : r[m].error = "none"
    <3> SUFFICES ASSUME NEW m \in 0 .. 7, r[m].error # "none" PROVE FALSE
      OBVIOUS
    <3>1. Len(calls) \in Nat /\ m \in 0 .. Len(calls) /\ 7 \in m .. Len(calls)
      BY <1>1
    <3>2. r[7] = r[m]
      BY <3>1, ErrorRun
    <3> QED BY <1>5, <3>2
  <2> QED BY <2>1
<1> SUFFICES ASSUME r[7].error = "none" PROVE FALSE
  BY <1>1
<1>6. ASSUME NEW u, Typed(u), u.error = "none", NEW c, c.op = "fetch", c.size \in Octets,
             NEW t, t = Do(u, c), t.error = "none"
      PROVE  t.offset = u.offset + c.size
  <2>1. t = Take(u, c.what, c.size, c.size, c.size)
    BY <1>6 DEF Do, fetch
  <2>2. c.size \in Nat /\ c.size \in 0 .. c.size
    <3>1. \A n \in Octets : n \in Nat /\ n \in 0 .. n
      BY DEF Octets
    <3>2. c.size \in Octets
      BY <1>6
    <3> QED BY <3>1, <3>2
  <2>3. u.offset \in Nat
    BY <1>6 DEF Typed
  <2> QED BY <1>6, <2>1, <2>2, <2>3, TakeState
<1>7. r[1].offset = 1
  <2>1. r[1] = Do(r[1 - 1], calls[1]) /\ r[1 - 1].error = "none" /\ r[1].error = "none"
    BY <1>3, <1>5
  <2>2. calls[1].size \in Octets /\ r[1 - 1] = s /\ r[1 - 1].offset = 0
    BY <1>1, <1>3 DEF Octets
  <2>3. r[1].offset = r[1 - 1].offset + calls[1].size
    BY <1>1, <1>6, <2>1, <2>2
  <2> QED BY <1>1, <2>2, <2>3
<1>8. r[2].offset = 5
  <2>1. r[2] = Do(r[2 - 1], calls[2]) /\ r[2 - 1].error = "none" /\ r[2].error = "none"
    BY <1>3, <1>5
  <2>2. calls[2].size \in Octets /\ Typed(r[2 - 1]) /\ r[2 - 1].offset = 1
    BY <1>1, <1>2, <1>7 DEF Octets
  <2>3. r[2].offset = r[2 - 1].offset + calls[2].size
    BY <1>1, <1>6, <2>1, <2>2
  <2> QED BY <1>1, <2>2, <2>3
<1>9. r[3] = r[2]
  <2>1. r[3] = Do(r[3 - 1], calls[3])
    BY <1>3
  <2>2. r[3] = Do(r[2], calls[3])
    BY <2>1
  <2> QED BY <1>1, <2>2 DEF Do
<1>10. ~Available(r[3], Signed(size))
  <2>1. r[3].length = s.length /\ s.length \in Nat
    BY <1>2 DEF Kept, Typed
  <2>2. Signed(size) = size /\ size >= 251
    BY ClaimAssumption DEF Signed
  <2>3. r[3].offset = 5 /\ s.length < 256
    BY <1>4, <1>8, <1>9
  <2>4. size \in Int
    BY ClaimAssumption
  <2> QED BY <2>1, <2>2, <2>3, <2>4 DEF Available
<1>11. r[4].error # "none"
  <2>1. r[4] = Do(r[4 - 1], calls[4]) /\ r[4 - 1].error = "none"
    BY <1>3, <1>5
  <2>2. r[4] = Do(r[3], calls[4]) /\ r[3].error = "none"
    BY <2>1
  <2>3. r[4] = Fails(r[3], "SW_WRONG_LENGTH")
    BY <1>1, <1>10, <2>2 DEF Do, skip
  <2>4. "SW_WRONG_LENGTH" \in Errors
    BY DEF Errors
  <2>5. r[4].error = "SW_WRONG_LENGTH"
    BY <1>2, <2>3, <2>4, FailsState
  <2> QED BY <2>5
<1> QED BY <1>5, <1>11

\* The host says that an extra field has 2^31 bytes or more.
Negative(c) == c \in {tx_prefix_extra_claimed(size) : size \in {n \in ClaimedSizes : n >= INT_LIMIT}}

\* A handler that finds less than was to be sent for it fails.
LEMMA CutCommand ==
  ASSUME NEW c \in Commands, ~TakesWhatIsLeft(c), ~Negative(c), NEW s, Typed(s), s.offset = 0,
         s.length < Len(Data(c.calls, s.tx)), s.keys = "spend" => BehindKey(c) = {}
  PROVE  Run(s, c.calls).error # "none"
<1> DEFINE calls == c.calls
           data == Data(calls, s.tx)
           r == Runs(s, calls)
<1>1. s.tx \in BOOLEAN
  BY DEF Typed
<1>2. PICK p : IsLayout(p, calls, s.tx, data, Len(calls))
  BY <1>1, LayoutExists
<1>3. s.length < Len(data)
  OBVIOUS
<1> HIDE DEF data, r
<1>4. Run(s, calls) = r[Len(calls)]
  BY Zenon DEF Run, r
<1>5. CASE \E size \in ExtraSizes : c = tx_prefix_extra(size)
  <2>1. ReadsTo(calls, 4) /\ SentBefore(calls, 4) /\ AllFetched(calls) /\ KeyLast(calls)
    BY <1>5, ExtraReads
  <2>2. r[Len(calls)].error # "none"
    BY <1>2, <1>3, <2>1, CutRun DEF r
  <2> QED BY <1>4, <2>2
<1>6. CASE c = put_key
  <2>1. r[Len(calls)].error # "none"
    BY <1>2, <1>3, <1>6, PutKeyCut DEF r
  <2> QED BY <1>4, <2>1
<1>7. CASE c \in ClaimedCommands
  <2>1. PICK size \in ClaimedSizes : c = tx_prefix_extra_claimed(size)
    BY <1>7 DEF ClaimedCommands
  <2>2. size < INT_LIMIT
    BY <2>1, ClaimAssumption DEF Negative
  <2>3. r[Len(calls)].error # "none"
    BY <1>2, <1>3, <2>1, <2>2, ClaimedCut DEF r
  <2> QED BY <1>4, <2>3
<1>8. CASE InOrder(c) /\ c # put_key /\ c \notin ClaimedCommands
  <2>1. PICK d, e : Regular(calls, d, e) /\ AllFetched(calls) /\ (KeyLast(calls) \/ BehindKey(c) # {})
    BY <1>8 DEF InOrder
  <2>2. ReadsTo(calls, d) /\ SentBefore(calls, d) /\ (s.tx /\ s.keys = "spend" => KeyLast(calls))
    BY <2>1, TailSends DEF Regular
  <2>3. r[Len(calls)].error # "none"
    BY <1>2, <1>3, <2>1, <2>2, CutRun DEF r
  <2> QED BY <1>4, <2>3
<1> QED BY <1>5, <1>6, <1>7, <1>8, CommandShapes

\* There is a byte of options at least.
LEMMA SomeData ==
  ASSUME NEW c \in Commands, NEW tx \in BOOLEAN
  PROVE  Len(Data(c.calls, tx)) >= 1
<1> DEFINE calls == c.calls
<1>1. PICK p : IsLayout(p, calls, tx, Data(calls, tx), Len(calls))
  BY LayoutExists
<1>2. Len(calls) \in Nat /\ Len(calls) >= 1
  <2>1. Len(calls) \in Nat \ {0}
    BY SentCalls
  <2> QED BY <2>1
<1>3. IsOptions(calls[1])
  <2>1. CASE InOrder(c)
    BY <2>1 DEF InOrder, Regular
  <2>2. CASE \E size \in ExtraSizes : c = tx_prefix_extra(size)
    <3>1. calls[1] = Fetch("options", 1)
      BY <2>2, ExtraCalls
    <3> QED BY <3>1 DEF IsOptions, Fetch, Call
  <2> QED BY <2>1, <2>2, CommandShapes
<1>4. SentSize(calls[1], tx) = 1
  BY <1>3 DEF IsOptions, SentSize, SentOps
<1> DEFINE data == Data(calls, tx)
           k == Len(calls)
<1>5. /\ p[0] = 0 /\ p[k] = Len(data) /\ p[k] \in Nat /\ p[1] = p[1 - 1] + SentSize(calls[1], tx)
      /\ p[1] <= p[k]
  <2>1. IsLayout(p, calls, tx, data, k)
    BY <1>1
  <2> HIDE DEF data, calls
  <2>2. 1 \in 1 .. k /\ 1 \in 0 .. k /\ k \in 0 .. k
    BY <1>2
  <2> HIDE DEF k
  <2> QED BY <2>1, <2>2 DEF IsLayout
<1> HIDE DEF data, calls, k
<1>6. p[1] = 1
  BY <1>4, <1>5
<1>7. Len(data) >= 1
  BY <1>5, <1>6
<1> QED BY <1>7 DEF data, calls

-----------------------------------------------------------------------------
(***************************************************************************)
(* What a handler leaves as it is                                          *)
(***************************************************************************)
\* The texts of the amounts, as they are shown.
TextOfAmount(amount) == << amount, amount2str(amount, 15) >>

Texts == {TextOfAmount(amount) : amount \in Amounts}

\* What a command is, and what was read of it, is not changed; and what is shown are amounts.
Marks(s, t) ==
  /\ DOMAIN t = Fields
  /\ t.keys = s.keys /\ t.whole = s.whole /\ t.misread = s.misread
  /\ t.shown \subseteq s.shown \cup Texts

\* Nor is there a transaction opened or closed, or a question asked.
Same(s, t) == t.tx = s.tx /\ t.ends = s.ends

\* What has failed stays so.
Worse(s, t) == s.error # "none" => t.error # "none"

LEMMA InsertMarks ==
  ASSUME NEW s, DOMAIN s = Fields, NEW bytes
  PROVE  /\ Marks(s, insert(s, bytes)) /\ Same(s, insert(s, bytes)) /\ Worse(s, insert(s, bytes))
         /\ Marks(s, Put(s, bytes)) /\ Same(s, Put(s, bytes)) /\ Worse(s, Put(s, bytes))
<1> DEFINE t == insert(s, bytes)
           u == Put(s, bytes)
           put == s.put \o bytes
           length == s.length + Len(bytes)
           offset == s.offset + Len(bytes)
           buffer == Over(s.buffer, s.offset, bytes \o SubSeq(s.buffer, s.offset + 1, s.length))
<1>1. \/ t = [s EXCEPT !.error = "ERROR_IO_FULL"]
      \/ t = [s EXCEPT !.buffer = buffer, !.offset = offset, !.length = length]
  BY Zenon DEF insert, Fails
<1> HIDE DEF length, offset, buffer
<1>2. Marks(s, t) /\ Same(s, t) /\ Worse(s, t) /\ t.put = s.put
  <2> HIDE DEF t
  <2>1. CASE t = [s EXCEPT !.error = "ERROR_IO_FULL"]
    BY <2>1, SMT DEF Marks, Same, Worse, Fields
  <2>2. CASE t = [s EXCEPT !.buffer = buffer, !.offset = offset, !.length = length]
    BY <2>2, SMT DEF Marks, Same, Worse, Fields
  <2> QED BY <1>1, <2>1, <2>2
<1> HIDE DEF t
<1>3. u = [t EXCEPT !.put = put]
  BY <1>2, Zenon DEF Put, t
<1> HIDE DEF put, u
<1>4. Marks(s, u) /\ Same(s, u) /\ Worse(s, u)
  BY <1>2, <1>3, SMT DEF Marks, Same, Worse, Fields
<1> QED BY <1>2, <1>4 DEF t, u

LEMMA DiscardMarks ==
  ASSUME NEW s, DOMAIN s = Fields, NEW clear
  PROVE  Marks(s, discard(s, clear)) /\ Same(s, discard(s, clear)) /\ Worse(s, discard(s, clear))
<1> DEFINE t == discard(s, clear)
           buffer == IF clear THEN [i \in DOMAIN s.buffer |-> Zero] ELSE s.buffer
<1>1. t = [s EXCEPT !.offset = 0, !.length = 0, !.buffer = buffer]
  BY Zenon DEF discard
<1> HIDE DEF t, buffer
<1>2. Marks(s, t) /\ Same(s, t) /\ Worse(s, t)
  BY <1>1, SMT DEF Marks, Same, Worse, Fields
<1> QED BY <1>2 DEF t

LEMMA FailsMarks ==
  ASSUME NEW s, DOMAIN s = Fields, NEW error
  PROVE  Marks(s, Fails(s, error)) /\ Same(s, Fails(s, error))
BY SMT DEF Fails, Marks, Same, Fields

\* Calls that handlers make.
Known(c) == c.op \in ReadOps \cup TailOps \cup {"insert_extra"} /\ Showing(c)

Stays(s, t) ==
  /\ DOMAIN t = Fields
  /\ t.keys = s.keys /\ t.whole = s.whole
  /\ t.shown \subseteq s.shown \cup Texts

LEMMA TailDo ==
  ASSUME NEW s, DOMAIN s = Fields, NEW c, c.op \in TailOps \cup {"insert_extra"}, Showing(c), NEW t, t = Do(s, c)
  PROVE  Marks(s, t) /\ (c.op \notin {"open", "close", "ends"} => Same(s, t))
<1>1. CASE s.error # "none"
  BY <1>1 DEF Do, Marks, Same
<1> SUFFICES ASSUME s.error = "none" PROVE Marks(s, t) /\ (c.op \notin {"open", "close", "ends"} => Same(s, t))
  BY <1>1
<1>2. CASE c.op \in {"discard", "clear"}
  <2>1. t = discard(s, c.op = "clear")
    BY <1>2 DEF Do
  <2> QED BY <2>1, DiscardMarks
<1>3. CASE c.op \in {"insert", "insert_encrypt", "add_to_tx_prefix"}
  <2>1. \E bytes : t = Put(s, bytes)
    BY <1>3 DEF Do
  <2> QED BY <2>1, InsertMarks
<1>4. CASE c.op = "insert_extra"
  <2> DEFINE r == insert(s, SubSeq(s.buffer, s.at[c.what] + 1, s.at[c.what] + c.size))
             put == r.put \o Field(c.what, c.size)
  <2>1. t = [r EXCEPT !.put = @ \o Field(c.what, c.size)]
    BY <1>4, Zenon DEF Do, insert_from_buffer
  <2>2. Marks(s, r) /\ Same(s, r)
    BY InsertMarks
  <2> HIDE DEF r
  <2>3. t = [r EXCEPT !.put = put]
    BY <2>1, <2>2, SMT DEF Marks, Same, Fields
  <2> HIDE DEF put
  <2> QED BY <2>2, <2>3, SMT DEF Marks, Same, Fields
<1>5. CASE c.op = "insert_address"
  <2> DEFINE buffer == Over(s.buffer, s.offset, Field("address", 98))
             put == s.put \o Field("address", 98)
             offset == s.offset + 98
             length == s.length + 98
  <2>1. t = insert_address(s)
    BY <1>5 DEF Do
  <2>2. t = [s EXCEPT !.buffer = buffer, !.offset = offset, !.length = length, !.put = put]
    BY <2>1, Zenon DEF insert_address
  <2> HIDE DEF buffer, put, offset, length
  <2> QED BY <2>2, SMT DEF Marks, Same, Fields
<1>6. CASE c.op = "scribble"
  <2> DEFINE buffer == Over(s.buffer, 0, [i \in 1 .. c.size |-> Old])
  <2>1. t = [s EXCEPT !.buffer = buffer]
    BY <1>6, Zenon DEF Do
  <2> HIDE DEF buffer
  <2> QED BY <2>1, SMT DEF Marks, Same, Fields
<1>7. CASE c.op = "amount2str"
  <2> DEFINE text == TextOfAmount(c.amount)
             shown == s.shown \cup {text}
  <2>1. c.size = 15 /\ text \in Texts
    BY <1>7 DEF Showing, Texts
  <2>2. t = [s EXCEPT !.shown = shown]
    BY <1>7, <2>1, Zenon DEF Do, TextOfAmount
  <2> HIDE DEF text
  <2>3. shown \subseteq s.shown \cup Texts
    BY <2>1
  <2> HIDE DEF shown
  <2> QED BY <2>2, <2>3, SMT DEF Marks, Same, Fields
<1>8. CASE c.op \in {"open", "close"}
  <2> DEFINE tx == c.op = "open"
  <2>1. t = [s EXCEPT !.tx = tx]
    BY <1>8 DEF Do
  <2> HIDE DEF tx
  <2> QED BY <1>8, <2>1, SMT DEF Marks, Same, Fields
<1>9. CASE c.op = "ends"
  <2>1. t = [s EXCEPT !.ends = c.what]
    BY <1>9 DEF Do
  <2> QED BY <1>9, <2>1, SMT DEF Marks, Same, Fields
<1>10. CASE c.op = "fault"
  <2>1. t = Fails(s, "exception")
    BY <1>10 DEF Do
  <2> QED BY <2>1, FailsMarks
<1> QED BY <1>2, <1>3, <1>4, <1>5, <1>6, <1>7, <1>8, <1>9, <1>10 DEF TailOps

LEMMA TakeStays ==
  ASSUME NEW s, DOMAIN s = Fields, NEW what, NEW size, NEW needs, NEW step,
         NEW t, t = Take(s, what, size, needs, step)
  PROVE  Stays(s, t) /\ Same(s, t)
<1> DEFINE r == Read(s, s.offset, what, size)
           offset == r.offset + step
           misread == s.misread \cup {what}
<1>1. r = s \/ r = [s EXCEPT !.misread = misread]
  BY Zenon DEF Read
<1>2. t = [r EXCEPT !.offset = @ + step] \/ t = Fails(s, "SW_WRONG_LENGTH")
  BY Zenon DEF Take
<1> HIDE DEF misread, r
<1>3. Stays(s, r) /\ Same(s, r)
  BY <1>1, SMT DEF Stays, Same, Fields
<1>4. CASE t = [r EXCEPT !.offset = @ + step]
  <2>1. t = [r EXCEPT !.offset = offset]
    BY <1>3, <1>4, Zenon
  <2> HIDE DEF offset
  <2> QED BY <1>3, <2>1, SMT DEF Stays, Same, Fields
<1>5. CASE t = Fails(s, "SW_WRONG_LENGTH")
  BY <1>5, FailsMarks DEF Marks, Same, Stays
<1> QED BY <1>2, <1>4, <1>5

LEMMA DecryptStays ==
  ASSUME NEW s, DOMAIN s = Fields, NEW what
  PROVE  /\ Stays(s, fetch_decrypt(s, what)) /\ Same(s, fetch_decrypt(s, what))
         /\ Stays(s, fetch_decrypt_key(s, what)) /\ Same(s, fetch_decrypt_key(s, what))
<1>1. /\ Stays(s, fetch_decrypt(s, what)) /\ Same(s, fetch_decrypt(s, what))
  <2>1. \/ fetch_decrypt(s, what) = Fails(s, "SW_SECURITY_TRUSTED_INPUT")
        \/ fetch_decrypt(s, what) = Take(s, what, 32, SealedSize(s.tx), SealedSize(s.tx))
    BY Zenon DEF fetch_decrypt
  <2>2. Stays(s, Fails(s, "SW_SECURITY_TRUSTED_INPUT")) /\ Same(s, Fails(s, "SW_SECURITY_TRUSTED_INPUT"))
    BY FailsMarks DEF Marks, Same, Stays
  <2> QED BY <2>1, <2>2, TakeStays
<1>2. \/ fetch_decrypt_key(s, what) = Take(s, what, 32, SealedSize(s.tx), 32)
      \/ fetch_decrypt_key(s, what) = fetch_decrypt(s, what)
  BY Zenon DEF fetch_decrypt_key
<1> QED BY <1>1, <1>2, TakeStays

LEMMA PointsStays ==
  ASSUME NEW s, DOMAIN s = Fields, NEW what
  PROVE  Stays(s, Points(s, what)) /\ Same(s, Points(s, what))
<1> DEFINE at == [x \in DOMAIN s.at \cup {what} |-> IF x = what THEN s.offset ELSE s.at[x]]
           t == Points(s, what)
<1>1. t = [s EXCEPT !.at = at]
  BY Zenon DEF Points
<1> HIDE DEF at, t
<1>2. Stays(s, t) /\ Same(s, t)
  BY <1>1, SMT DEF Stays, Same, Fields
<1> QED BY <1>2 DEF t

LEMMA DoStays ==
  ASSUME NEW s, DOMAIN s = Fields, NEW c, Known(c), NEW t, t = Do(s, c)
  PROVE  Stays(s, t) /\ (c.op \notin {"open", "close", "ends"} => Same(s, t))
<1>1. CASE s.error # "none"
  BY <1>1 DEF Do, Stays, Same
<1> SUFFICES ASSUME s.error = "none" PROVE Stays(s, t) /\ (c.op \notin {"open", "close", "ends"} => Same(s, t))
  BY <1>1
<1>2. CASE c.op \in TailOps \cup {"insert_extra"}
  BY <1>2, TailDo DEF Known, Marks, Same, Stays
<1>3. CASE c.op = "fetch"
  <2>1. t = Take(s, c.what, c.size, c.size, c.size)
    BY <1>3 DEF Do, fetch
  <2> QED BY <2>1, TakeStays
<1>4. CASE c.op = "point"
  <2> DEFINE r == Points(s, c.what)
             offset == r.offset + c.size
  <2>1. Stays(s, r) /\ Same(s, r)
    BY PointsStays
  <2>2. t = [r EXCEPT !.offset = @ + c.size] \/ t = Fails(s, "SW_WRONG_LENGTH")
    BY <1>4, Zenon DEF Do
  <2> HIDE DEF r
  <2>3. CASE t = [r EXCEPT !.offset = @ + c.size]
    <3>1. t = [r EXCEPT !.offset = offset]
      BY <2>1, <2>3, Zenon
    <3> HIDE DEF offset
    <3> QED BY <2>1, <3>1, SMT DEF Stays, Same, Fields
  <2>4. CASE t = Fails(s, "SW_WRONG_LENGTH")
    BY <2>4, FailsMarks DEF Marks, Same, Stays
  <2> QED BY <2>2, <2>3, <2>4
<1>5. CASE c.op = "peek"
  <2>1. t = Points(s, c.what)
    BY <1>5 DEF Do
  <2> QED BY <2>1, PointsStays
<1>6. CASE c.op = "use"
  <2> DEFINE misread == s.misread \cup {c.what}
  <2>1. t = s \/ t = [s EXCEPT !.misread = misread]
    BY <1>6, Zenon DEF Do, Read
  <2> HIDE DEF misread
  <2> QED BY <2>1, SMT DEF Stays, Same, Fields
<1>7. CASE c.op = "fetch_decrypt"
  <2>1. t = fetch_decrypt(s, c.what)
    BY <1>7 DEF Do
  <2> QED BY <2>1, DecryptStays
<1>8. CASE c.op = "fetch_decrypt_key"
  <2>1. t = fetch_decrypt_key(s, c.what)
    BY <1>8 DEF Do
  <2> QED BY <2>1, DecryptStays
<1>9. CASE c.op = "rest"
  BY <1>9 DEF Do, Stays, Same
<1>10. CASE c.op = "exactly"
  <2>1. t = s \/ t = Fails(s, "SW_WRONG_LENGTH")
    BY <1>10 DEF Do
  <2> QED BY <2>1, FailsMarks DEF Marks, Same, Stays
<1>11. CASE c.op = "skip"
  <2>1. t = s \/ t = Fails(s, "SW_WRONG_LENGTH")
    BY <1>11, Zenon DEF Do, skip
  <2> QED BY <2>1, FailsMarks DEF Marks, Same, Stays
<1> QED BY <1>2, <1>3, <1>4, <1>5, <1>6, <1>7, <1>8, <1>9, <1>10, <1>11 DEF Known, ReadOps, TailOps

LEMMA KnownCalls ==
  ASSUME NEW c \in Commands
  PROVE  /\ Len(c.calls) \in Nat /\ \A i \in 1 .. Len(c.calls) : Known(c.calls[i])
         /\ KeyEnds(c.calls)
<1> DEFINE calls == c.calls
           k == Len(calls)
<1>1. CASE InOrder(c)
  <2>1. PICK d, e : Regular(calls, d, e)
    BY <1>1 DEF InOrder
  <2>2. /\ k \in Nat /\ d \in 1 .. k + 1 /\ KeyEnds(calls)
        /\ \A i \in 1 .. k : i < d => Reader(calls[i])
        /\ \A i \in 1 .. k : i >= d => calls[i].op \in TailOps \cup {"use"}
        /\ \A i \in 1 .. k : Showing(calls[i])
    BY <2>1 DEF Regular, ReadsTo, TailCalls, ShowsAmounts
  <2>3. \A x : Reader(x) /\ Showing(x) => Known(x)
    BY DEF Reader, Known
  <2>4. \A x : x.op \in TailOps \cup {"use"} /\ Showing(x) => Known(x)
    BY DEF Known, ReadOps
  <2> HIDE DEF k
  <2>5. \A i \in 1 .. k : Known(calls[i])
    BY <2>2, <2>3, <2>4
  <2> QED BY <2>2, <2>5 DEF k
<1>2. CASE \E size \in ExtraSizes : c = tx_prefix_extra(size)
  <2>1. PICK size \in ExtraSizes : c = tx_prefix_extra(size)
    BY <1>2
  <2>2. /\ Len(calls) = 7 /\ DOMAIN calls = 1 .. 7
        /\ calls[1] = Fetch("options", 1) /\ calls[2] = Fetch("extra_size", 4)
        /\ calls[3] = Point("extra", size) /\ calls[4] = Discard(FALSE) /\ calls[5] = Number(size)
        /\ calls[6] = Use("extra", size) /\ calls[7] = Extra(size)
    BY <2>1, ExtraCalls
  <2>3. /\ Discard(FALSE).op = "discard" /\ Number(size).op = "add_to_tx_prefix"
        /\ Use("extra", size).op = "use" /\ Extra(size).op = "insert_extra"
        /\ Fetch("options", 1).op = "fetch" /\ Fetch("extra_size", 4).op = "fetch" /\ Point("extra", size).op = "point"
    BY DEF Discard, Number, Use, Extra, Fetch, Point, Call
  <2> HIDE DEF calls
  <2>4. \A i \in 1 .. 7 : i = 1 \/ i = 2 \/ i = 3 \/ i = 4 \/ i = 5 \/ i = 6 \/ i = 7
    OBVIOUS
  <2>5. \A i \in 1 .. 7 : Known(calls[i])
    BY <2>2, <2>3, <2>4 DEF Known, Showing, ReadOps, TailOps
  <2>6. \A i \in 1 .. 7 : ~IsKey(calls[i])
    BY <2>2, <2>3, <2>4 DEF IsKey
  <2>7. KeyEnds(calls)
    BY <2>2, <2>6 DEF KeyEnds
  <2> QED BY <2>2, <2>5, <2>7 DEF calls
<1> QED BY <1>1, <1>2, CommandShapes

\* From its first call to its last a handler has the same command before it.
LEMMA RunStays ==
  ASSUME NEW c \in Commands, NEW s, DOMAIN s = Fields, NEW r, r = Runs(s, c.calls)
  PROVE  \A n \in 0 .. Len(c.calls) :
           Stays(s, r[n]) /\ ((\E i \in 1 .. Len(c.calls) : IsKey(c.calls[i])) => Same(s, r[n]))
<1> DEFINE calls == c.calls
           k == Len(calls)
           keyed == \E i \in 1 .. k : IsKey(calls[i])
           S == {n \in Nat : Stays(s, r[n]) /\ (keyed => Same(s, r[n]))}
<1>1. /\ k \in Nat /\ \A i \in 1 .. k : Known(calls[i])
      /\ keyed => \A i \in 1 .. k : calls[i].op \notin {"open", "close", "ends"}
  BY KnownCalls DEF KeyEnds
<1>2. r[0] = s /\ \A n \in 1 .. k : r[n] = Do(r[n - 1], calls[n])
  BY <1>1, RunsDef
<1> HIDE DEF keyed, k
<1>3. 0 \in S
  BY <1>2 DEF Stays, Same
<1>4. \A n \in 0 .. k - 1 : n \in S => n + 1 \in S
  <2> SUFFICES ASSUME NEW n \in 0 .. k - 1, n \in S PROVE n + 1 \in S
    OBVIOUS
  <2>1. n + 1 \in 1 .. k /\ n + 1 \in Nat /\ (n + 1) - 1 = n
    BY <1>1
  <2>2. r[n + 1] = Do(r[n], calls[n + 1]) /\ Known(calls[n + 1])
    BY <1>1, <1>2, <2>1
  <2>3. Stays(s, r[n]) /\ (keyed => Same(s, r[n]))
    OBVIOUS
  <2>4. /\ Stays(r[n], r[n + 1])
        /\ calls[n + 1].op \notin {"open", "close", "ends"} => Same(r[n], r[n + 1])
    BY <2>2, <2>3, DoStays DEF Stays
  <2>5. Stays(s, r[n + 1])
    BY <2>3, <2>4 DEF Stays
  <2>6. keyed => Same(s, r[n + 1])
    BY <1>1, <2>1, <2>3, <2>4 DEF Same
  <2> QED BY <2>1, <2>5, <2>6
<1> HIDE DEF S
<1>5. 0 .. k \subseteq S
  BY <1>1, <1>3, <1>4, InductionUpTo
<1> QED BY <1>5 DEF S, keyed, k

\* What a handler finds at first.
Fresh(c, s) ==
  /\ s.error = "none" /\ s.offset = 0 /\ s.misread = {}
  /\ ~s.whole => s.length < Len(Data(c.calls, s.tx))
  /\ s.whole => /\ s.length = Len(Data(c.calls, s.tx))
                /\ \A i \in 1 .. s.length : s.buffer[i] = Data(c.calls, s.tx)[i]

LEMMA ReceivedMarks ==
  ASSUME NEW data, NEW keys, NEW tx, NEW whole, NEW t, t = Received(data, keys, tx, whole)
  PROVE  t.keys = keys /\ t.whole = whole /\ t.misread = {} /\ t.shown = {} /\ t.tx = tx
<1> DEFINE buffer == data \o [i \in 1 .. ELECTRONEUM_IO_BUFFER_LENGTH - Len(data) |-> Old]
           n == Len(data)
<1>1. t = [buffer |-> buffer, offset |-> 0, length |-> n, tx |-> tx, keys |-> keys, whole |-> whole,
           at |-> << >>, error |-> "none", misread |-> {}, put |-> << >>, shown |-> {}, ends |-> "answering"]
  BY Zenon DEF Received
<1> HIDE DEF buffer, n
<1> QED BY <1>1

LEMMA FreshReceive ==
  ASSUME IoInv, NEW c \in Commands, NEW keys, Receive(c, keys)
  PROVE  phase' = "received" /\ command' = c /\ Fresh(c, io')
<1> DEFINE data == Data(c.calls, io.tx)
<1>1. io.tx \in BOOLEAN
  BY DEF IoInv, Typed
<1>2. data \in Seq(Bytes) /\ Len(data) >= 1
  BY <1>1, DataType, SomeData
<1> HIDE DEF data
<1>3. /\ phase' = "received" /\ command' = c
      /\ \E cut \in Cuts :
           /\ Len(data) - cut \in 0 .. 255
           /\ io' = Received(SubSeq(data, 1, Len(data) - cut), keys, io.tx, cut = 0)
  BY Zenon DEF Receive, data
<1>4. PICK cut \in Cuts :
        /\ Len(data) - cut \in 0 .. 255
        /\ io' = Received(SubSeq(data, 1, Len(data) - cut), keys, io.tx, cut = 0)
  BY <1>3
<1> DEFINE m == Len(data) - cut
           part == SubSeq(data, 1, m)
           whole == cut = 0
           n == Len(data)
<1>0. m \in Nat /\ m <= 255 /\ m <= n /\ n \in Nat /\ (whole => m = n) /\ (~whole => m < n)
  <2>1. n \in Nat /\ cut \in Nat /\ n - cut \in 0 .. 255
    BY <1>2, <1>4, CutAssumption
  <2>2. m = n - cut
    OBVIOUS
  <2> HIDE DEF n, m
  <2> QED BY <2>1, <2>2
<1>5. /\ part \in Seq(Bytes) /\ Len(part) = m /\ m \in Nat /\ n \in Nat /\ m <= n
      /\ \A i \in 1 .. m : part[i] = data[i]
  <2> HIDE DEF m
  <2> QED BY <1>0, <1>2
<1>6. io' = Received(part, keys, io.tx, whole)
  BY <1>4
<1>7. whole => m = n
  BY <1>0
<1>8. ~whole => m < n
  BY <1>0
<1> HIDE DEF part, whole, n, m
<1>9. m <= ELECTRONEUM_IO_BUFFER_LENGTH
  BY <1>0 DEF ELECTRONEUM_IO_BUFFER_LENGTH
<1>10. /\ io'.offset = 0 /\ io'.length = m /\ io'.error = "none"
       /\ \A i \in 1 .. m : io'.buffer[i] = part[i]
  <2>1. part \in Seq(Bytes) /\ Len(part) = m /\ Len(part) <= ELECTRONEUM_IO_BUFFER_LENGTH
    BY <1>5, <1>9
  <2>2. io.tx \in BOOLEAN
    BY <1>1
  <2>3. /\ io'.offset = 0 /\ io'.length = Len(part) /\ io'.error = "none"
        /\ \A i \in 1 .. Len(part) : io'.buffer[i] = part[i]
    BY <1>6, <2>1, <2>2, ReceivedState
  <2> QED BY <2>1, <2>3
<1>11. io'.whole = whole /\ io'.misread = {} /\ io'.tx = io.tx
  BY <1>6, ReceivedMarks
<1>12. Data(c.calls, io'.tx) = data
  BY <1>11 DEF data
<1>13. Fresh(c, io')
  BY <1>5, <1>7, <1>8, <1>10, <1>11, <1>12 DEF Fresh, n
<1> QED BY <1>3, <1>13

LEMMA AllowedSame ==
  ASSUME NEW c \in Commands, NEW s, Typed(s), Run(Allowed(s), c.calls).error = "none"
  PROVE  Allowed(s) = s
<1> SUFFICES ASSUME Allowed(s) # s PROVE FALSE
  OBVIOUS
<1> DEFINE t == Fails(s, "SW_CONDITIONS_NOT_SATISFIED")
           r == Runs(t, c.calls)
<1>1. Allowed(s) = t
  BY DEF Allowed
<1>2. t.error # "none"
  <2>1. "SW_CONDITIONS_NOT_SATISFIED" \in Errors
    BY DEF Errors
  <2>2. t.error = "SW_CONDITIONS_NOT_SATISFIED"
    BY <2>1, FailsState
  <2> QED BY <2>2
<1>3. Len(c.calls) \in Nat
  BY KnownCalls
<1> HIDE DEF t
<1>4. r[0] = t
  BY <1>3, RunsDef
<1>5. Run(t, c.calls) = r[Len(c.calls)]
  BY Zenon DEF Run
<1>6. r[Len(c.calls)] = r[0]
  <2>1. 0 \in 0 .. Len(c.calls) /\ Len(c.calls) \in 0 .. Len(c.calls)
    BY <1>3
  <2> HIDE DEF r
  <2>2. \A n \in 0 .. Len(c.calls) : r[n] = r[0]
    BY <1>2, <1>3, <1>4, <2>1, ErrorRun DEF r
  <2> QED BY <2>1, <2>2
<1> QED BY <1>1, <1>2, <1>4, <1>5, <1>6

\* A handler that returns found the command as it came in.
LEMMA ReturnsMarks ==
  ASSUME IoInv, Returns, NEW s, s = Run(Allowed(io), command.calls)
  PROVE  /\ phase = "received" /\ s.error = "none" /\ s = Run(io, command.calls)
         /\ Stays(io, s) /\ Marks(s, io') /\ Same(s, io') /\ phase' = s.ends /\ command' = command
         /\ (\E i \in 1 .. Len(command.calls) : IsKey(command.calls[i])) => Same(io, s)
<1> DEFINE calls == command.calls
           r == Runs(io, calls)
<1>1. /\ phase = "received" /\ s.error = "none" /\ phase' = s.ends
      /\ io' = IF s.ends = "answering" THEN insert(s, Status) ELSE s
      /\ command' = command
  BY Zenon DEF Returns
<1>2. command \in Commands /\ Typed(io)
  BY DEF IoInv
<1>3. Allowed(io) = io
  BY <1>1, <1>2, AllowedSame
<1>4. s = r[Len(calls)]
  BY <1>3, Zenon DEF Run
<1>5. DOMAIN io = Fields
  BY <1>2 DEF Typed
<1>6. Len(calls) \in 0 .. Len(calls)
  <2>1. Len(calls) \in Nat
    BY <1>2, KnownCalls
  <2> QED BY <2>1
<1>7. Stays(io, s) /\ ((\E i \in 1 .. Len(calls) : IsKey(calls[i])) => Same(io, s))
  BY <1>2, <1>4, <1>5, <1>6, RunStays
<1> HIDE DEF r
<1>8. Marks(s, io') /\ Same(s, io')
  <2>1. DOMAIN s = Fields
    BY <1>7 DEF Stays
  <2>2. Marks(s, s) /\ Same(s, s)
    BY <2>1 DEF Marks, Same
  <2>3. Marks(s, insert(s, Status)) /\ Same(s, insert(s, Status))
    BY <2>1, InsertMarks
  <2> QED BY <1>1, <2>2, <2>3
<1> QED BY <1>1, <1>3, <1>7, <1>8

LEMMA ReturnsLeaves ==
  ASSUME IoInv, Returns
  PROVE  phase' # "received"
<1> DEFINE calls == command.calls
           r == Runs(Allowed(io), calls)
           s == r[Len(calls)]
<1>1. phase = "received" /\ phase' = s.ends
  BY Zenon DEF Returns, Run
<1>2. command \in Commands /\ Holding(command, Allowed(io))
  BY <1>1, AllowedHolds DEF IoInv
<1>3. /\ command # manage_seedwords_other => Left(s)
      /\ command = manage_seedwords_other => Start(s)
  BY <1>2, HandlerRun
<1> HIDE DEF s
<1> QED BY <1>1, <1>3 DEF Left, Start, Ends

LEMMA CaughtMarks ==
  ASSUME NEW s, DOMAIN s = Fields, NEW t, t = Caught(s)
  PROVE  Marks(s, t) /\ ~t.tx
<1> DEFINE d == discard(s, TRUE)
           cleared == [d EXCEPT !.tx = FALSE, !.put = << >>]
           told == Put(cleared, Field("e", 4))
<1>1. Marks(s, d)
  BY DiscardMarks
<1>2. t = insert(cleared, Status) \/ t = insert(told, Status)
  BY Zenon DEF Caught
<1> HIDE DEF d
<1>3. Marks(s, cleared) /\ ~cleared.tx
  BY <1>1, SMT DEF Marks, Fields
<1> HIDE DEF cleared
<1>4. Marks(cleared, told) /\ Same(cleared, told)
  BY <1>3, InsertMarks DEF Marks
<1> HIDE DEF told
<1>5. DOMAIN cleared = Fields /\ DOMAIN told = Fields
  BY <1>3, <1>4 DEF Marks
<1>6. /\ Marks(cleared, insert(cleared, Status)) /\ Same(cleared, insert(cleared, Status))
      /\ Marks(told, insert(told, Status)) /\ Same(told, insert(told, Status))
  BY <1>5, InsertMarks
<1> QED BY <1>2, <1>3, <1>4, <1>6 DEF Marks, Same

\* Whatever fails ends the transaction.
LEMMA ThrowsMarks ==
  ASSUME IoInv, Throws
  PROVE  phase' = "answering" /\ io'.error # "none" /\ ~io'.tx
<1> DEFINE r == Runs(Allowed(io), command.calls)
           Failed(n, error) == IF r[n].error = "none" THEN Fails(r[n], error) ELSE r[n]
<1>1. /\ phase = "received" /\ phase' = "answering"
      /\ \E n \in 0 .. Len(command.calls), error \in {"none", "SW_WRONG_DATA", "exception"} :
           Failed(n, error).error # "none" /\ io' = Caught(Failed(n, error))
  BY Zenon DEF Throws
<1>2. PICK n \in 0 .. Len(command.calls), error \in {"none", "SW_WRONG_DATA", "exception"} :
        Failed(n, error).error # "none" /\ io' = Caught(Failed(n, error))
  BY <1>1, Zenon
<1>3. command \in Commands /\ Holding(command, Allowed(io))
  BY <1>1, AllowedHolds DEF IoInv
<1>4. Typed(r[n])
  BY <1>3, HandlerRun
<1> DEFINE s == r[n]
           t == IF s.error = "none" THEN Fails(s, error) ELSE s
<1>5. Typed(s) /\ io' = Caught(t) /\ t.error # "none"
  BY <1>2, <1>4, Zenon
<1> HIDE DEF s
<1>6. error \in Errors
  BY DEF Errors
<1>7. Typed(t)
  BY <1>5, <1>6, FailsState
<1> HIDE DEF t
<1>8. io'.error # "none"
  BY <1>5, <1>7, CaughtState
<1>9. ~io'.tx
  <2>1. DOMAIN t = Fields
    BY <1>7 DEF Typed
  <2> QED BY <1>5, <2>1, CaughtMarks
<1> QED BY <1>1, <1>8, <1>9

LEMMA SendMarks ==
  ASSUME NEW s, DOMAIN s = Fields, s.length <= MAX_OUT, s.length \in Nat, SendNow(s)
  PROVE  phase' = "waiting" /\ Marks(s, io') /\ Same(s, io') /\ Worse(s, io') /\ (s.error = "none" => io'.error = "none")
<1>1. io' = [s EXCEPT !.offset = 0] /\ phase' = "waiting"
  <2>1. ~(s.length > MAX_OUT)
    BY DEF MAX_OUT
  <2> QED BY <2>1, Zenon DEF SendNow
<1>2. Marks(s, io') /\ Same(s, io') /\ Worse(s, io') /\ (s.error = "none" => io'.error = "none")
  BY <1>1, SMT DEF Marks, Same, Worse, Fields
<1> QED BY <1>1, <1>2

\* What is sent, or answered by a callback, is as it was left; but for a transaction that ends.
LEMMA WaitMarks ==
  ASSUME IoInv, \/ Send
                \/ \E accept \in BOOLEAN : export_viewkey_action(accept) \/ validation_action(accept)
  PROVE  /\ phase \in {"answering", "asking"} /\ command' = command /\ phase' = "waiting"
         /\ Marks(io, io') /\ Worse(io, io') /\ (io'.tx => io.tx)
         /\ phase = "answering" => Same(io, io')
         /\ io'.error = "none" => io.error = "none"
<1>1. Typed(io) /\ DOMAIN io = Fields
  BY DEF IoInv, Typed
<1>2. CASE Send
  <2>1. phase = "answering" /\ SendNow(io) /\ command' = command /\ io.length <= MAX_OUT /\ io.length \in Nat
    BY <1>1, <1>2 DEF Send, IoInv, Typed
  <2> QED BY <1>1, <2>1, SendMarks DEF Same, Worse
<1>3. ASSUME NEW s, Typed(s), Built(s), Len(s.put) <= MaxPut, SendNow(insert(s, Status)),
             Marks(io, s), Worse(io, s), s.tx => io.tx, s.error = "none" => io.error = "none"
      PROVE  /\ phase' = "waiting"
             /\ Marks(io, io') /\ Worse(io, io') /\ (io'.tx => io.tx)
             /\ io'.error = "none" => io.error = "none"
  <2> DEFINE t == insert(s, Status)
  <2>1. Typed(t) /\ Ready(t) /\ t.error = s.error
    BY <1>3, StatusState
  <2>2. Marks(s, t) /\ Same(s, t)
    BY <1>3, InsertMarks DEF Marks
  <2>3. SendNow(t)
    BY <1>3
  <2> HIDE DEF t
  <2>4. DOMAIN t = Fields /\ t.length <= MAX_OUT /\ t.length \in Nat
    BY <2>1 DEF Ready, Typed
  <2>5. phase' = "waiting" /\ Marks(t, io') /\ Same(t, io') /\ Worse(t, io') /\ (t.error = "none" => io'.error = "none")
    BY <2>3, <2>4, SendMarks
  <2> QED BY <1>3, <2>1, <2>2, <2>5 DEF Marks, Same, Worse
<1>4. ASSUME NEW accept \in BOOLEAN, export_viewkey_action(accept)
      PROVE  /\ phase = "asking" /\ command' = command /\ phase' = "waiting"
             /\ Marks(io, io') /\ Worse(io, io') /\ (io'.tx => io.tx)
             /\ io'.error = "none" => io.error = "none"
  <2> DEFINE d == discard(io, FALSE)
             what == IF accept THEN "a" ELSE "zeros"
             field == Field(what, 32)
             s == Put(d, field)
  <2>1. /\ phase = "asking" /\ SendNow(insert(s, Status)) /\ command' = command
        /\ io.put = << >>
    BY <1>4 DEF export_viewkey_action, IoInv
  <2>2. /\ Typed(d) /\ Changes(io, d, {"buffer", "offset", "length"}) /\ d.offset = 0 /\ d.length = 0
        /\ Marks(io, d) /\ Same(io, d) /\ Worse(io, d)
    BY <1>1, <2>1, DiscardState, DiscardMarks
  <2> HIDE DEF d
  <2>3. d.put = << >> /\ d.error = io.error
    BY <2>1, <2>2, SMT DEF Changes, Fields
  <2>4. Len(d.put) = 0
    BY <2>3
  <2>5. Built(d)
    BY <2>2, <2>4 DEF Built
  <2>6. what \in Names /\ 32 \in Octets
    BY DEF Names, Octets
  <2> HIDE DEF what
  <2>7. field \in Seq(Bytes) /\ Len(field) = 32
    BY <2>6, FieldType
  <2> HIDE DEF field
  <2>8. Len(d.put) + Len(field) <= ELECTRONEUM_IO_BUFFER_LENGTH
    BY <2>4, <2>7 DEF ELECTRONEUM_IO_BUFFER_LENGTH
  <2>9. Typed(s) /\ Built(s) /\ Len(s.put) = Len(d.put) + Len(field) /\ s.error = d.error
    BY <2>2, <2>5, <2>7, <2>8, PutStateOf
  <2>10. Marks(d, s) /\ Same(d, s) /\ Worse(d, s)
    BY <2>2, InsertMarks DEF Marks
  <2> HIDE DEF s
  <2>11. Len(s.put) <= MaxPut
    BY <2>4, <2>7, <2>9 DEF MaxPut
  <2>12. Marks(io, s) /\ Worse(io, s) /\ (s.tx => io.tx) /\ (s.error = "none" => io.error = "none")
    BY <2>2, <2>3, <2>9, <2>10 DEF Marks, Same, Worse
  <2> QED BY <1>3, <2>1, <2>9, <2>11, <2>12
<1>5. ASSUME NEW accept \in BOOLEAN, validation_action(accept)
      PROVE  /\ phase = "asking" /\ command' = command /\ phase' = "waiting"
             /\ Marks(io, io') /\ Worse(io, io') /\ (io'.tx => io.tx)
             /\ io'.error = "none" => io.error = "none"
  <2> DEFINE tx == io.tx /\ (accept \/ command = display_address)
             s == [io EXCEPT !.tx = tx]
  <2>1. /\ phase = "asking" /\ SendNow(insert(s, Status)) /\ command' = command
        /\ Typed(io) /\ Built(io) /\ io.put = << >>
    BY <1>5, Zenon DEF validation_action, IoInv
  <2>2. tx \in BOOLEAN /\ (tx => io.tx)
    BY <2>1 DEF Typed
  <2> HIDE DEF tx
  <2>3. /\ DOMAIN s = Fields /\ s.tx = tx /\ s.buffer = io.buffer /\ s.offset = io.offset
        /\ s.length = io.length /\ s.put = io.put /\ s.error = io.error
        /\ s.keys = io.keys /\ s.whole = io.whole /\ s.misread = io.misread /\ s.shown = io.shown
    BY <2>1, SMT DEF Typed, Fields
  <2> HIDE DEF s
  <2>4. Typed(s)
    BY <2>1, <2>2, <2>3 DEF Typed
  <2>5. Built(s)
    BY <2>1, <2>3 DEF Built
  <2>6. Len(s.put) <= MaxPut
    BY <2>1, <2>3 DEF MaxPut
  <2>7. Marks(io, s) /\ Worse(io, s) /\ (s.tx => io.tx) /\ (s.error = "none" => io.error = "none")
    BY <2>2, <2>3 DEF Marks, Worse
  <2> QED BY <1>3, <2>1, <2>4, <2>5, <2>6, <2>7
<1> QED BY <1>2, <1>4, <1>5

LEMMA IdleMarks ==
  ASSUME NEW t, t = discard(Received(<< >>, "sealed", FALSE, TRUE), TRUE)
  PROVE  t.keys = "sealed" /\ t.whole /\ t.misread = {} /\ t.shown \subseteq Texts
<1>1. << >> \in Seq(Bytes) /\ Len(<< >>) <= ELECTRONEUM_IO_BUFFER_LENGTH
  BY BufferLength DEF ELECTRONEUM_IO_BUFFER_LENGTH
<1>2. DOMAIN Received(<< >>, "sealed", FALSE, TRUE) = Fields
  BY <1>1, ReceivedState DEF Start, Typed
<1>3. PICK data, keys, tx, whole : data = << >> /\ keys = "sealed" /\ tx = FALSE /\ whole = TRUE
  OBVIOUS
<1>4. t = discard(Received(data, keys, tx, whole), TRUE) /\ DOMAIN Received(data, keys, tx, whole) = Fields
  BY <1>2, <1>3, Zenon
<1> DEFINE r == Received(data, keys, tx, whole)
<1>5. r.keys = keys /\ r.whole = whole /\ r.misread = {} /\ r.shown = {}
  BY ReceivedMarks
<1>6. PICK clear : clear = TRUE
  OBVIOUS
<1>7. t = discard(r, clear) /\ DOMAIN r = Fields
  BY <1>4, <1>6, Zenon
<1> HIDE DEF r
<1>8. Marks(r, t)
  BY <1>7, DiscardMarks
<1> QED BY <1>3, <1>5, <1>8 DEF Marks

-----------------------------------------------------------------------------
\* A command that was received is whole, or too short.
FreshInv == phase = "received" => Fresh(command, io)

LEMMA FreshStep == IoInv /\ FreshInv /\ [Next]_ioVars => FreshInv'
<1> SUFFICES ASSUME IoInv, FreshInv, [Next]_ioVars PROVE FreshInv'
  OBVIOUS
<1>1. CASE \E c \in Commands : \E keys \in KeysOf(c) : Receive(c, keys)
  <2>1. PICK c \in Commands : \E keys \in KeysOf(c) : Receive(c, keys)
    BY <1>1
  <2>2. command' = c /\ Fresh(c, io')
    BY <2>1, FreshReceive
  <2> QED BY <2>2, SMT DEF FreshInv, Fresh
<1>2. CASE Dispatch
  <2>1. CASE Returns
    <3>1. phase' # "received"
      BY <2>1, ReturnsLeaves
    <3> QED BY <3>1 DEF FreshInv
  <2>2. CASE Throws
    <3>1. phase' = "answering"
      BY <2>2, ThrowsMarks
    <3> QED BY <3>1 DEF FreshInv
  <2> QED BY <1>2, <2>1, <2>2 DEF Dispatch
<1>3. CASE \/ Send
           \/ \E accept \in BOOLEAN : export_viewkey_action(accept) \/ validation_action(accept)
  <2>1. phase' = "waiting"
    BY <1>3, WaitMarks
  <2> QED BY <2>1 DEF FreshInv
<1>4. CASE IoReset
  <2>1. phase' = "waiting"
    BY <1>4 DEF IoReset
  <2> QED BY <2>1 DEF FreshInv
<1>5. CASE UNCHANGED ioVars
  <2>1. io' = io /\ phase' = phase /\ command' = command
    BY <1>5 DEF ioVars
  <2> QED BY <2>1, SMT DEF FreshInv, Fresh
<1> QED BY <1>1, <1>2, <1>3, <1>4, <1>5 DEF Next

LEMMA CutReturns ==
  ASSUME IoInv, FreshInv, Returns
  PROVE  CutIsRefused'
<1> DEFINE s == Run(Allowed(io), command.calls)
<1>1. /\ phase = "received" /\ s.error = "none" /\ s = Run(io, command.calls)
      /\ Stays(io, s) /\ Marks(s, io') /\ command' = command
  BY ReturnsMarks
<1> HIDE DEF s
<1>2. io'.keys = io.keys /\ io'.whole = io.whole
  BY <1>1 DEF Stays, Marks
<1>3. command \in Commands /\ Typed(io) /\ Fresh(command, io)
  BY <1>1 DEF IoInv, FreshInv
<1>4. ASSUME ~io.whole, ~TakesWhatIsLeft(command), ~Negative(command), io.keys = "spend" => BehindKey(command) = {}
      PROVE  FALSE
  <2>1. io.offset = 0 /\ io.length < Len(Data(command.calls, io.tx))
    BY <1>3, <1>4 DEF Fresh
  <2>2. Run(io, command.calls).error # "none"
    BY <1>3, <1>4, <2>1, CutCommand
  <2> QED BY <1>1, <2>2
<1>5. (io.whole \/ TakesWhatIsLeft(command) \/ Negative(command) \/ ~(io.keys = "spend" => BehindKey(command) = {}))'
  BY <1>1, <1>2, <1>4
<1> QED BY <1>5 DEF CutIsRefused, TakesWhatIsLeft, Negative

LEMMA CutStep == IoInv /\ FreshInv /\ CutIsRefused /\ [Next]_ioVars => CutIsRefused'
<1> SUFFICES ASSUME IoInv, FreshInv, CutIsRefused, [Next]_ioVars PROVE CutIsRefused'
  OBVIOUS
<1>1. CASE \E c \in Commands : \E keys \in KeysOf(c) : Receive(c, keys)
  <2>1. phase' = "received"
    BY <1>1 DEF Receive
  <2> QED BY <2>1 DEF CutIsRefused
<1>2. CASE Dispatch
  <2>1. CASE Throws
    <3>1. (io.error # "none" /\ ~io.tx)'
      BY <2>1, ThrowsMarks
    <3> QED BY <3>1 DEF CutIsRefused
  <2> QED BY <1>2, <2>1, CutReturns DEF Dispatch
<1>3. CASE \/ Send
           \/ \E accept \in BOOLEAN : export_viewkey_action(accept) \/ validation_action(accept)
  <2>1. /\ phase \in {"answering", "asking"} /\ command' = command
        /\ Marks(io, io') /\ Worse(io, io') /\ (io'.tx => io.tx)
    BY <1>3, WaitMarks
  <2>2. io'.whole = io.whole /\ io'.keys = io.keys
    BY <2>1 DEF Marks
  <2> QED BY <2>1, <2>2 DEF CutIsRefused, Worse
<1>4. CASE IoReset
  <2>1. io.whole'
    BY <1>4, IdleMarks DEF IoReset
  <2> QED BY <2>1 DEF CutIsRefused
<1>5. CASE UNCHANGED ioVars
  BY <1>5 DEF ioVars, CutIsRefused
<1> QED BY <1>1, <1>2, <1>3, <1>4, <1>5 DEF Next

\* A command that ends too soon is refused and ends the transaction (electroneum_io.c:194-198).
THEOREM CutsAreRefused == Spec => []CutIsRefused
<1>1. Init => IoInv /\ FreshInv /\ CutIsRefused
  <2> SUFFICES ASSUME Init PROVE IoInv /\ FreshInv /\ CutIsRefused
    OBVIOUS
  <2>1. phase = "waiting" /\ io.whole
    BY IdleMarks DEF Init
  <2> QED BY <2>1, IoInit DEF FreshInv, CutIsRefused
<1>2. IoInv /\ FreshInv /\ CutIsRefused /\ [Next]_ioVars => (IoInv /\ FreshInv /\ CutIsRefused)'
  BY IoStep, FreshStep, CutStep
<1> QED BY <1>1, <1>2, PTL DEF Spec

-----------------------------------------------------------------------------
(***************************************************************************)
(* What the handlers read is what was sent                                 *)
(***************************************************************************)
\* Bytes at a place are a field if each of them is.
LEMMA HoldsIff ==
  ASSUME NEW s, s.buffer \in Buffers, NEW place \in Nat, NEW what, NEW size \in Nat,
         place + size <= ELECTRONEUM_IO_BUFFER_LENGTH
  PROVE  Holds(s, place, what, size) <=> \A i \in 1 .. size : s.buffer[place + i] = << what, i >>
<1> DEFINE part == SubSeq(s.buffer, place + 1, place + size)
           field == Field(what, size)
<1>1. s.buffer \in Seq(Bytes) /\ Len(s.buffer) = ELECTRONEUM_IO_BUFFER_LENGTH
  BY DEF Buffers
<1>2. part \in Seq(Bytes) /\ Len(part) = size /\ \A i \in 1 .. size : part[i] = s.buffer[place + i]
  BY <1>1, BufferLength
<1>3. field = [i \in 1 .. size |-> << what, i >>]
  BY DEF Field
<1>4. part = [i \in 1 .. size |-> part[i]]
  <2> HIDE DEF part
  <2> QED BY <1>2
<1>5. Holds(s, place, what, size) <=> part = field
  BY Zenon DEF Holds
<1> HIDE DEF part, field
<1>6. ASSUME part = field
      PROVE  \A i \in 1 .. size : s.buffer[place + i] = << what, i >>
  BY <1>2, <1>3, <1>6
<1>7. ASSUME \A i \in 1 .. size : s.buffer[place + i] = << what, i >>
      PROVE  part = field
  <2>1. \A i \in 1 .. size : part[i] = << what, i >>
    BY <1>2, <1>7
  <2> QED BY <1>3, <1>4, <2>1
<1> QED BY <1>5, <1>6, <1>7

LEMMA FirstByte ==
  ASSUME NEW s, s.buffer \in Buffers, NEW place \in Nat, NEW what, NEW size \in Nat, size >= 1,
         place + size <= ELECTRONEUM_IO_BUFFER_LENGTH, Holds(s, place, what, size)
  PROVE  s.buffer[place + 1] = << what, 1 >>
<1> DEFINE holds == Holds(s, place, what, size)
           each == \A i \in 1 .. size : s.buffer[place + i] = << what, i >>
<1>1. holds <=> each
  BY HoldsIff
<1>2. holds
  OBVIOUS
<1> HIDE DEF holds
<1>3. each
  BY <1>1, <1>2
<1>4. 1 \in 1 .. size
  OBVIOUS
<1> QED BY <1>3, <1>4

\* Behind the placeholder of the spend key a transaction is read 32 bytes early.
Late(s, calls, i) == s.tx /\ s.keys = "spend" /\ Behind(calls, i)

\* Where the call i looks for what is sent for it.
Found(s, calls, p, i) == IF Late(s, calls, i) THEN p[i - 1] - 32 ELSE p[i - 1]

Readable(calls, d) ==
  ReadsTo(calls, d) /\ UsesPointers(calls, d) /\ PointersDiffer(calls) /\ LateDiffer(calls) /\ RestLast(calls)

\* A whole command, as a handler finds it.
Arrived(s, calls, p, data, d) ==
  /\ Typed(s) /\ s.offset = 0 /\ s.length = Len(data)
  /\ \A q \in 1 .. s.length : s.buffer[q] = data[q]
  /\ IsLayout(p, calls, s.tx, data, Len(calls))
  /\ Readable(calls, d)

\* What is at the places of a call in the buffer.
Placed(s, calls, p, i) ==
  /\ p[i - 1] \in Nat /\ p[i] \in Nat /\ SentSize(calls[i], s.tx) \in Nat
  /\ p[i] = p[i - 1] + SentSize(calls[i], s.tx)
  /\ p[i] <= s.length /\ s.length <= ELECTRONEUM_IO_BUFFER_LENGTH /\ s.length \in Nat
  /\ \A k \in 0 .. i - 1 : p[k] \in Nat /\ p[k] <= p[i - 1]
  /\ \A j \in 1 .. SentSize(calls[i], s.tx) : s.buffer[p[i - 1] + j] = << calls[i].what, j >>
  /\ \A q \in 1 .. p[i - 1] : \E j \in 1 .. i - 1 : Sends(calls[j]) /\ s.buffer[q][1] = calls[j].what

LEMMA Places ==
  ASSUME NEW s, NEW calls, NEW p, NEW data, NEW d, Arrived(s, calls, p, data, d), NEW i \in 1 .. Len(calls)
  PROVE  Placed(s, calls, p, i) /\ Len(calls) \in Nat /\ s.tx \in BOOLEAN
<1> DEFINE n == Len(calls)
           size == SentSize(calls[i], s.tx)
<1>1. /\ n \in Nat /\ s.tx \in BOOLEAN /\ s.length = Len(data) /\ s.length \in Nat
      /\ s.length <= ELECTRONEUM_IO_BUFFER_LENGTH /\ \A q \in 1 .. s.length : s.buffer[q] = data[q]
      /\ IsLayout(p, calls, s.tx, data, n)
  BY DEF Arrived, Readable, ReadsTo, Typed
<1> HIDE DEF n
<1>2. i \in 1 .. n /\ i - 1 \in 0 .. n /\ i \in 0 .. n /\ n \in 0 .. n /\ i - 1 \in 0 .. i
  BY <1>1 DEF n
<1>3. /\ \A m \in 0 .. n : p[m] \in Nat
      /\ p[n] = s.length
      /\ \A m \in 1 .. n : SentSize(calls[m], s.tx) \in Nat /\ p[m] = p[m - 1] + SentSize(calls[m], s.tx)
      /\ \A m \in 0 .. n : \A k \in 0 .. m : p[k] <= p[m]
  BY <1>1 DEF IsLayout
<1>4. /\ \A m \in 1 .. n : \A j \in 1 .. SentSize(calls[m], s.tx) : data[p[m - 1] + j] = << calls[m].what, j >>
      /\ \A m \in 0 .. n : \A q \in 1 .. p[m] : \E j \in 1 .. m : Sends(calls[j]) /\ data[q][1] = calls[j].what
  BY <1>1 DEF IsLayout
<1>5. /\ p[i - 1] \in Nat /\ p[i] \in Nat /\ size \in Nat /\ p[i] = p[i - 1] + size
      /\ p[i] <= s.length /\ p[i - 1] <= p[i]
  BY <1>2, <1>3
<1>6. \A k \in 0 .. i - 1 : p[k] \in Nat /\ p[k] <= p[i - 1]
  <2>1. \A k \in 0 .. i - 1 : k \in 0 .. n
    BY <1>2
  <2> QED BY <1>2, <1>3, <2>1
<1>7. \A j \in 1 .. size : data[p[i - 1] + j] = << calls[i].what, j >>
  BY <1>2, <1>4
<1>8. \A q \in 1 .. p[i - 1] : \E j \in 1 .. i - 1 : Sends(calls[j]) /\ data[q][1] = calls[j].what
  BY <1>2, <1>4
<1> HIDE DEF size
<1>9. \A j \in 1 .. size : s.buffer[p[i - 1] + j] = << calls[i].what, j >>
  <2> SUFFICES ASSUME NEW j \in 1 .. size PROVE s.buffer[p[i - 1] + j] = << calls[i].what, j >>
    OBVIOUS
  <2>1. p[i - 1] + j \in 1 .. s.length
    BY <1>1, <1>5
  <2> QED BY <1>1, <1>7, <2>1
<1>10. \A q \in 1 .. p[i - 1] : q \in 1 .. s.length
  BY <1>1, <1>5
<1>11. \A q \in 1 .. p[i - 1] : \E j \in 1 .. i - 1 : Sends(calls[j]) /\ s.buffer[q][1] = calls[j].what
  BY <1>1, <1>8, <1>10
<1> QED BY <1>1, <1>5, <1>6, <1>9, <1>11 DEF n, size, Placed

\* What a call looks for is there, unless it comes too late: then the first byte is another's.
LEMMA FoundSent ==
  ASSUME NEW s, NEW calls, NEW p, NEW data, NEW d, Arrived(s, calls, p, data, d),
         NEW i \in 1 .. Len(calls), Sends(calls[i]), NEW t, t.buffer = s.buffer,
         NEW n \in 0 .. SentSize(calls[i], s.tx)
  PROVE  /\ Found(s, calls, p, i) \in Nat
         /\ Found(s, calls, p, i) + SentSize(calls[i], s.tx) <= ELECTRONEUM_IO_BUFFER_LENGTH
         /\ ~Late(s, calls, i) => Holds(t, Found(s, calls, p, i), calls[i].what, n)
         /\ Late(s, calls, i) /\ n >= 1 => ~Holds(t, Found(s, calls, p, i), calls[i].what, n)
<1> DEFINE q == Found(s, calls, p, i)
           size == SentSize(calls[i], s.tx)
           what == calls[i].what
<1>1. Placed(s, calls, p, i) /\ Len(calls) \in Nat
  BY Places
<1>0. /\ p[i - 1] \in Nat /\ p[i] \in Nat /\ size \in Nat /\ p[i] = p[i - 1] + size
      /\ p[i] <= s.length /\ s.length <= ELECTRONEUM_IO_BUFFER_LENGTH /\ s.length \in Nat
      /\ \A j \in 1 .. size : s.buffer[p[i - 1] + j] = << what, j >>
  BY <1>1 DEF Placed
<1>2. t.buffer \in Buffers
  BY DEF Arrived, Typed
<1>3. n \in 0 .. size /\ n \in Nat /\ n <= size
  BY <1>0
<1> HIDE DEF size, what
<1>4. CASE ~Late(s, calls, i)
  <2>1. q = p[i - 1]
    BY <1>4 DEF Found
  <2> HIDE DEF q
  <2>2. q \in Nat /\ q + size <= ELECTRONEUM_IO_BUFFER_LENGTH /\ q + n <= ELECTRONEUM_IO_BUFFER_LENGTH
    <3>1. /\ p[i - 1] \in Nat /\ p[i] \in Nat /\ size \in Nat /\ p[i] = p[i - 1] + size
          /\ p[i] <= s.length /\ s.length <= ELECTRONEUM_IO_BUFFER_LENGTH /\ s.length \in Nat
      BY <1>0
    <3> QED BY <1>3, <2>1, <3>1, BufferLength
  <2>3. \A j \in 1 .. n : t.buffer[q + j] = << what, j >>
    <3>1. \A j \in 1 .. n : j \in 1 .. size
      BY <1>0, <1>3
    <3>2. \A j \in 1 .. size : t.buffer[q + j] = << what, j >>
      BY <1>0, <2>1
    <3> QED BY <3>1, <3>2
  <2>4. Holds(t, q, what, n)
    BY <1>2, <1>3, <2>2, <2>3, HoldsIff
  <2> QED BY <1>4, <2>2, <2>4 DEF q, size, what
<1>5. CASE Late(s, calls, i)
  <2>1. q = p[i - 1] - 32
    BY <1>5 DEF Found
  <2> HIDE DEF q
  <2>2. PICK k \in 1 .. i - 1 : IsKey(calls[k])
    BY <1>5 DEF Late, Behind
  <2>3. p[i - 1] >= 64
    <3>1. k \in 1 .. Len(calls) /\ k \in 0 .. i - 1 /\ k - 1 \in 0 .. i - 1
      BY <1>1
    <3>2. p[k] = p[k - 1] + SentSize(calls[k], s.tx) /\ p[k - 1] \in Nat
      BY <3>1, Places DEF Placed
    <3>3. SentSize(calls[k], s.tx) = 64
      BY <1>5, <2>2 DEF SentSize, SentOps, SealedSize, IsKey, Late
    <3>4. p[k] <= p[i - 1] /\ p[k] \in Nat
      BY <1>1, <3>1 DEF Placed
    <3> DEFINE a == p[i - 1]
               b == p[k]
               c == p[k - 1]
    <3>5. a \in Nat /\ b \in Nat /\ c \in Nat /\ b = c + 64 /\ b <= a
      BY <1>0, <3>2, <3>3, <3>4
    <3> HIDE DEF a, b, c
    <3>6. a >= 64
      BY <3>5
    <3> QED BY <3>6 DEF a
  <2>4. q \in Nat /\ q + size <= ELECTRONEUM_IO_BUFFER_LENGTH /\ q + n <= ELECTRONEUM_IO_BUFFER_LENGTH
        /\ q + 1 \in 1 .. p[i - 1]
    <3> DEFINE a == p[i - 1]
               b == p[i]
               m == s.length
               max == ELECTRONEUM_IO_BUFFER_LENGTH
    <3>1. /\ a \in Nat /\ b \in Nat /\ m \in Nat /\ max \in Nat /\ size \in Nat /\ n \in Nat /\ n <= size
          /\ a >= 64 /\ b = a + size /\ b <= m /\ m <= max /\ q = a - 32
      BY <1>0, <1>3, <2>1, <2>3, BufferLength
    <3> HIDE DEF a, b, m, max
    <3>2. q \in Nat /\ q + size <= max /\ q + n <= max /\ q + 1 \in 1 .. a
      BY <3>1
    <3> QED BY <3>2 DEF a, max
  <2>5. PICK j \in 1 .. i - 1 : Sends(calls[j]) /\ s.buffer[q + 1][1] = calls[j].what
    BY <1>1, <2>4 DEF Placed
  <2>6. calls[j].what # what
    <3>1. LateDiffer(calls) /\ Behind(calls, i)
      BY <1>5 DEF Arrived, Readable, Late
    <3> QED BY <2>5, <3>1 DEF LateDiffer, what
  <2>7. t.buffer[q + 1] # << what, 1 >>
    BY <2>5, <2>6
  <2>8. n >= 1 => ~Holds(t, q, what, n)
    <3> SUFFICES ASSUME n >= 1, Holds(t, q, what, n) PROVE FALSE
      OBVIOUS
    <3>1. n \in Nat /\ q \in Nat /\ q + n <= ELECTRONEUM_IO_BUFFER_LENGTH
      BY <1>3, <2>4
    <3> QED BY <1>2, <2>7, <3>1, FirstByte
  <2> QED BY <1>5, <2>4, <2>8 DEF q, size, what
<1> QED BY <1>4, <1>5

\* A read notes a field that is not there.
Noted(u, place, what, size) == u.misread \cup (IF Holds(u, place, what, size) THEN {} ELSE {what})

LEMMA ReadNotes ==
  ASSUME NEW u, DOMAIN u = Fields, NEW place, NEW what, NEW size, NEW t, t = Read(u, place, what, size)
  PROVE  /\ t.misread = Noted(u, place, what, size)
         /\ DOMAIN t = Fields /\ t.at = u.at /\ t.offset = u.offset /\ t.buffer = u.buffer /\ t.error = u.error
<1> DEFINE misread == u.misread \cup {what}
<1>1. CASE Holds(u, place, what, size)
  <2>1. t = u
    BY <1>1 DEF Read
  <2> QED BY <1>1, <2>1 DEF Noted
<1>2. CASE ~Holds(u, place, what, size)
  <2>1. t = [u EXCEPT !.misread = misread]
    BY <1>2, Zenon DEF Read
  <2> HIDE DEF misread
  <2>2. /\ t.misread = misread
        /\ DOMAIN t = Fields /\ t.at = u.at /\ t.offset = u.offset /\ t.buffer = u.buffer /\ t.error = u.error
    BY <2>1, SMT DEF Fields
  <2> QED BY <1>2, <2>2 DEF misread, Noted
<1> QED BY <1>1, <1>2

LEMMA TakeNotes ==
  ASSUME NEW u, Typed(u), NEW what, NEW size, NEW needs \in Nat, NEW step \in Nat,
         NEW t, t = Take(u, what, size, needs, step), t.error = "none"
  PROVE  /\ t.misread = Noted(u, u.offset, what, size)
         /\ t.at = u.at /\ t.offset = u.offset + step
         /\ u.offset + needs <= u.length
<1>1. DOMAIN u = Fields /\ u.offset \in Nat /\ u.length \in Nat
  BY DEF Typed
<1>2. CASE Available(u, needs)
  <2> DEFINE r == Read(u, u.offset, what, size)
             offset == r.offset + step
             noted == Noted(u, u.offset, what, size)
  <2>1. t = [r EXCEPT !.offset = @ + step]
    BY <1>2, Zenon DEF Take
  <2>2. r.misread = noted /\ DOMAIN r = Fields /\ r.at = u.at /\ r.offset = u.offset
    BY <1>1, ReadNotes
  <2> HIDE DEF r, noted
  <2>3. t.misread = noted /\ t.at = u.at /\ t.offset = u.offset + step
    BY <2>1, <2>2, SMT DEF Fields
  <2>4. u.offset + needs <= u.length
    BY <1>1, <1>2 DEF Available
  <2> QED BY <2>3, <2>4 DEF noted
<1>3. CASE ~Available(u, needs)
  <2>1. t = Fails(u, "SW_WRONG_LENGTH") /\ "SW_WRONG_LENGTH" \in Errors
    BY <1>3 DEF Take, Errors
  <2> QED BY <2>1, FailsState
<1> QED BY <1>2, <1>3

\* A sealed secret that is taken in a transaction has its HMAC behind it.
LEMMA SealedNotes ==
  ASSUME NEW u, Typed(u), NEW what, NEW t, t = fetch_decrypt(u, what), t.error = "none"
  PROVE  /\ u.tx => Holds(u, u.offset, what, 64)
         /\ t.misread = Noted(u, u.offset, what, 32)
         /\ t.at = u.at /\ t.offset = u.offset + SealedSize(u.tx)
<1>1. u.offset \in Nat /\ u.length \in Nat /\ u.tx \in BOOLEAN
  BY DEF Typed
<1>2. SealedSize(u.tx) \in Nat /\ (u.tx => SealedSize(u.tx) = 64)
  BY <1>1 DEF SealedSize
<1>3. ~(u.tx /\ Available(u, 64) /\ ~Holds(u, u.offset, what, 64))
  <2> SUFFICES ASSUME u.tx /\ Available(u, 64) /\ ~Holds(u, u.offset, what, 64) PROVE FALSE
    OBVIOUS
  <2>1. t = Fails(u, "SW_SECURITY_TRUSTED_INPUT") /\ "SW_SECURITY_TRUSTED_INPUT" \in Errors
    BY DEF fetch_decrypt, Errors
  <2> QED BY <2>1, FailsState
<1>4. t = Take(u, what, 32, SealedSize(u.tx), SealedSize(u.tx))
  BY <1>3, Zenon DEF fetch_decrypt
<1>5. /\ t.misread = Noted(u, u.offset, what, 32)
      /\ t.at = u.at /\ t.offset = u.offset + SealedSize(u.tx)
      /\ u.offset + SealedSize(u.tx) <= u.length
  <2> DEFINE needs == SealedSize(u.tx)
  <2>1. needs \in Nat /\ t = Take(u, what, 32, needs, needs)
    BY <1>2, <1>4
  <2> HIDE DEF needs
  <2>2. /\ t.misread = Noted(u, u.offset, what, 32)
        /\ t.at = u.at /\ t.offset = u.offset + needs
        /\ u.offset + needs <= u.length
    BY <2>1, TakeNotes
  <2> QED BY <2>2 DEF needs
<1>6. u.tx => Available(u, 64)
  <2> SUFFICES ASSUME u.tx PROVE Available(u, 64)
    OBVIOUS
  <2>1. u.offset + 64 <= u.length
    BY <1>2, <1>5
  <2> QED BY <1>1, <2>1 DEF Available
<1> QED BY <1>3, <1>5, <1>6

LEMMA PointsNotes ==
  ASSUME NEW u, DOMAIN u = Fields, NEW what, NEW t, t = Points(u, what)
  PROVE  /\ DOMAIN t = Fields /\ t.misread = u.misread /\ t.offset = u.offset
         /\ t.at[what] = u.offset /\ \A x \in DOMAIN u.at : x # what => t.at[x] = u.at[x]
         /\ DOMAIN t.at = DOMAIN u.at \cup {what}
<1> DEFINE at == [x \in DOMAIN u.at \cup {what} |-> IF x = what THEN u.offset ELSE u.at[x]]
<1>1. t = [u EXCEPT !.at = at]
  BY Zenon DEF Points
<1>2. /\ at[what] = u.offset /\ \A x \in DOMAIN u.at : x # what => at[x] = u.at[x]
      /\ DOMAIN at = DOMAIN u.at \cup {what}
  OBVIOUS
<1> HIDE DEF at
<1>3. DOMAIN t = Fields /\ t.misread = u.misread /\ t.offset = u.offset /\ t.at = at
  BY <1>1, SMT DEF Fields
<1> QED BY <1>2, <1>3

\* Where a handler was told to look.
Pointers(s, calls, p, t, n) ==
  \A j \in 1 .. n : IsPointer(calls[j]) =>
    calls[j].what \in DOMAIN t.at /\ t.at[calls[j].what] = Found(s, calls, p, j)

\* A call that takes other bytes for its field.
Misses(s, calls, i) ==
  \/ calls[i].op = "fetch" /\ Late(s, calls, i)
  \/ calls[i].op = "use" /\ \E j \in 1 .. i - 1 :
                              IsPointer(calls[j]) /\ calls[j].what = calls[i].what /\ Late(s, calls, j)

Missed(s, calls, i) == IF Misses(s, calls, i) THEN {calls[i].what} ELSE {}

\* Nothing before a call is left where it is.
Fetched(calls, n) == \A j \in 1 .. n : ~IsRest(calls[j])

\* What a handler knows after n calls.
Tracks(s, calls, p, t, n) ==
  /\ Pointers(s, calls, p, t, n)
  /\ Fetched(calls, n) => t.offset = Found(s, calls, p, n + 1)

LEMMA PointersStay ==
  ASSUME NEW s, NEW calls, NEW p, NEW i \in Nat \ {0}, NEW u, Pointers(s, calls, p, u, i - 1),
         NEW t, t.at = u.at, ~IsPointer(calls[i])
  PROVE  Pointers(s, calls, p, t, i)
<1>1. \A j \in 1 .. i : j \in 1 .. i - 1 \/ j = i
  OBVIOUS
<1> QED BY <1>1 DEF Pointers

LEMMA PointersGrow ==
  ASSUME NEW s, NEW calls, PointersDiffer(calls), Len(calls) \in Nat, NEW p, NEW i \in 1 .. Len(calls),
         NEW u, Pointers(s, calls, p, u, i - 1), IsPointer(calls[i]),
         NEW t, t.at[calls[i].what] = Found(s, calls, p, i),
         \A x \in DOMAIN u.at : x # calls[i].what => t.at[x] = u.at[x],
         DOMAIN t.at = DOMAIN u.at \cup {calls[i].what}
  PROVE  Pointers(s, calls, p, t, i)
<1> SUFFICES ASSUME NEW j \in 1 .. i, IsPointer(calls[j])
             PROVE  calls[j].what \in DOMAIN t.at /\ t.at[calls[j].what] = Found(s, calls, p, j)
  BY DEF Pointers
<1>1. CASE j = i
  BY <1>1
<1>2. CASE j # i
  <2>1. j \in 1 .. i - 1 /\ j \in 1 .. Len(calls)
    BY <1>2
  <2>2. calls[j].what # calls[i].what
    BY <1>2, <2>1 DEF PointersDiffer
  <2> QED BY <2>1, <2>2 DEF Pointers
<1> QED BY <1>1, <1>2

\* The field is read by way of a pointer.
LEMMA UseCall ==
  ASSUME NEW s, NEW calls, NEW p, NEW data, NEW d, Arrived(s, calls, p, data, d),
         NEW i \in 1 .. Len(calls), calls[i].op = "use",
         NEW u, DOMAIN u = Fields, u.buffer = s.buffer, u.error = "none", Pointers(s, calls, p, u, i - 1),
         NEW t, t = Do(u, calls[i])
  PROVE  /\ t.misread = u.misread \cup Missed(s, calls, i) /\ t.at = u.at /\ t.offset = u.offset
         /\ DOMAIN t = Fields /\ t.buffer = u.buffer /\ t.error = u.error
<1> DEFINE what == calls[i].what
           size == calls[i].size
<1>1. t = Read(u, u.at[what], what, size)
  BY DEF Do
<1>2. Len(calls) \in Nat /\ UsesPointers(calls, d) /\ PointersDiffer(calls) /\ ReadsTo(calls, d)
  BY DEF Arrived, Readable, ReadsTo
<1>3. PICK j \in 1 .. i - 1 : j < d /\ IsPointer(calls[j]) /\ calls[j].what = what /\ calls[j].size = size
  BY <1>2 DEF UsesPointers
<1>4. j \in 1 .. Len(calls)
  BY <1>2
<1>5. u.at[what] = Found(s, calls, p, j)
  BY <1>3 DEF Pointers
<1>6. Sends(calls[j]) /\ SentSize(calls[j], s.tx) = size /\ size \in Nat
  <2>1. \A x : Reader(x) /\ x.op # "skip" => x.size \in Nat
    <3>1. \A n \in Octets : n \in Nat
      BY DEF Octets
    <3> QED BY <3>1, Zenon DEF Reader
  <2>2. \A x : IsPointer(x) => Sends(x) /\ \A tx : SentSize(x, tx) = x.size
    <3> SUFFICES ASSUME NEW x, IsPointer(x), NEW tx PROVE Sends(x) /\ SentSize(x, tx) = x.size
      BY Zenon
    <3>1. x.op \in SentOps
      BY DEF IsPointer, SentOps
    <3>2. Sends(x)
      BY <3>1 DEF Sends
    <3>3. SentSize(x, tx) = x.size
      BY <3>1 DEF SentSize, SentOps
    <3> QED BY <3>2, <3>3
  <2>3. Reader(calls[j])
    <3>1. \A x \in 1 .. Len(calls) : x < d => Reader(calls[x])
      BY <1>2 DEF ReadsTo
    <3> QED BY <1>3, <1>4, <3>1
  <2>4. calls[j].op # "skip"
    BY <1>3 DEF IsPointer
  <2> QED BY <1>3, <2>1, <2>2, <2>3, <2>4, Zenon
<1>7. Misses(s, calls, i) <=> Late(s, calls, j)
  <2>1. ASSUME NEW k \in 1 .. i - 1, IsPointer(calls[k]), calls[k].what = what
        PROVE  k = j
    <3>1. k \in 1 .. Len(calls)
      BY <1>2
    <3>2. IsPointer(calls[j]) /\ calls[k].what = calls[j].what
      BY <1>3, <2>1
    <3>3. \A x, y \in 1 .. Len(calls) : IsPointer(calls[x]) /\ IsPointer(calls[y]) /\ calls[x].what = calls[y].what => x = y
      BY <1>2 DEF PointersDiffer
    <3> QED BY <1>4, <2>1, <3>1, <3>2, <3>3, Zenon
  <2> QED BY <1>3, <2>1 DEF Misses
<1>8. Holds(u, u.at[what], what, size) <=> ~Late(s, calls, j)
  <2>1. size \in 0 .. SentSize(calls[j], s.tx)
    BY <1>6
  <2>2. ~Late(s, calls, j) => Holds(u, Found(s, calls, p, j), what, size)
    BY <1>3, <1>4, <1>6, <2>1, FoundSent
  <2>3. Late(s, calls, j) => size >= 1
    BY <1>3, <1>4, <1>6 DEF Arrived, Readable, LateDiffer, Late
  <2>4. Late(s, calls, j) => ~Holds(u, Found(s, calls, p, j), what, size)
    BY <1>3, <1>4, <1>6, <2>1, <2>3, FoundSent
  <2> QED BY <1>5, <2>2, <2>4
<1>9. Noted(u, u.at[what], what, size) = u.misread \cup Missed(s, calls, i)
  BY <1>7, <1>8 DEF Missed, Noted
<1> QED BY <1>1, <1>9, ReadNotes

\* A handler before its call i, and after it.
Looks(s, calls, p, u, i) ==
  Typed(u) /\ Kept(s, u) /\ u.error = "none" /\ Tracks(s, calls, p, u, i - 1)

Looked(s, calls, p, u, t, i) ==
  t.misread = u.misread \cup Missed(s, calls, i) /\ Tracks(s, calls, p, t, i)

LEMMA NextPlace ==
  ASSUME NEW s, NEW calls, NEW p, NEW data, NEW d, Arrived(s, calls, p, data, d), NEW i \in 1 .. Len(calls)
  PROVE  /\ ~IsKey(calls[i]) => Found(s, calls, p, i + 1) = Found(s, calls, p, i) + SentSize(calls[i], s.tx)
         /\ IsKey(calls[i]) /\ ~Late(s, calls, i) =>
              Found(s, calls, p, i + 1) = Found(s, calls, p, i)
                + (IF s.tx /\ s.keys = "spend" THEN SentSize(calls[i], s.tx) - 32 ELSE SentSize(calls[i], s.tx))
<1> DEFINE a == p[i - 1]
           b == p[i]
           size == SentSize(calls[i], s.tx)
<1>1. a \in Nat /\ b \in Nat /\ size \in Nat /\ b = a + size /\ Len(calls) \in Nat
  BY Places DEF Placed
<1>2. (i + 1) - 1 = i
  BY <1>1
<1>3. Behind(calls, i + 1) <=> Behind(calls, i) \/ IsKey(calls[i])
  <2>1. \A k \in 1 .. (i + 1) - 1 : k \in 1 .. i - 1 \/ k = i
    BY <1>1
  <2>2. i \in 1 .. (i + 1) - 1 /\ \A k \in 1 .. i - 1 : k \in 1 .. (i + 1) - 1
    BY <1>1
  <2> QED BY <2>1, <2>2 DEF Behind
<1>4. Found(s, calls, p, i) = (IF Late(s, calls, i) THEN a - 32 ELSE a)
  BY Zenon DEF Found
<1>5. Found(s, calls, p, i + 1) = (IF Late(s, calls, i + 1) THEN b - 32 ELSE b)
  BY <1>2, Zenon DEF Found
<1>6. ~IsKey(calls[i]) => (Late(s, calls, i + 1) <=> Late(s, calls, i))
  BY <1>3 DEF Late
<1>7. IsKey(calls[i]) => (Late(s, calls, i + 1) <=> s.tx /\ s.keys = "spend")
  BY <1>3 DEF Late
<1> HIDE DEF a, b, size
<1>8. ~IsKey(calls[i]) => Found(s, calls, p, i + 1) = Found(s, calls, p, i) + size
  BY <1>1, <1>4, <1>5, <1>6
<1>9. IsKey(calls[i]) /\ ~Late(s, calls, i) =>
        Found(s, calls, p, i + 1) = Found(s, calls, p, i) + (IF s.tx /\ s.keys = "spend" THEN size - 32 ELSE size)
  BY <1>1, <1>4, <1>5, <1>7
<1> QED BY <1>8, <1>9 DEF size

\* Where something is sent for a call, the calls before it have fetched all that was sent for them.
LEMMA SendsFound ==
  ASSUME NEW s, NEW calls, NEW p, NEW data, NEW d, Arrived(s, calls, p, data, d),
         NEW i \in 1 .. Len(calls), Sends(calls[i]), NEW u, Looks(s, calls, p, u, i)
  PROVE  u.offset = Found(s, calls, p, i)
<1>1. Len(calls) \in Nat /\ RestLast(calls)
  BY DEF Arrived, Readable, ReadsTo
<1>2. \A j \in 1 .. i - 1 : j \in 1 .. Len(calls) /\ j < i
  BY <1>1
<1>3. Fetched(calls, i - 1)
  BY <1>1, <1>2 DEF Fetched, RestLast
<1>4. (i - 1) + 1 = i
  BY <1>1
<1> QED BY <1>3, <1>4, Zenon DEF Looks, Tracks

LEMMA FetchCall ==
  ASSUME NEW s, NEW calls, NEW p, NEW data, NEW d, Arrived(s, calls, p, data, d),
         NEW i \in 1 .. Len(calls), calls[i].op = "fetch", Reader(calls[i]), NEW u, Looks(s, calls, p, u, i),
         NEW t, t = Do(u, calls[i]), t.error = "none"
  PROVE  Looked(s, calls, p, u, t, i)
<1> DEFINE what == calls[i].what
           size == calls[i].size
<1>1. size \in Nat /\ Len(calls) \in Nat
  <2>1. \A n \in Octets : n \in Nat
    BY DEF Octets
  <2> QED BY <2>1 DEF Reader, Arrived, Readable, ReadsTo
<1>2. Sends(calls[i]) /\ SentSize(calls[i], s.tx) = size /\ ~IsRest(calls[i]) /\ ~IsKey(calls[i]) /\ ~IsPointer(calls[i])
  BY DEF Sends, SentOps, SentSize, IsRest, IsKey, IsPointer
<1>3. u.offset = Found(s, calls, p, i)
  BY <1>2, SendsFound
<1>4. t = Take(u, what, size, size, size)
  BY DEF Do, fetch, Looks
<1>5. Typed(u) /\ u.buffer = s.buffer /\ Pointers(s, calls, p, u, i - 1)
  BY DEF Looks, Kept, Tracks
<1>6. t.misread = Noted(u, u.offset, what, size) /\ t.at = u.at /\ t.offset = u.offset + size
  BY <1>1, <1>4, <1>5, TakeNotes
<1>7. Holds(u, u.offset, what, size) <=> ~Late(s, calls, i)
  <2>1. size \in 0 .. SentSize(calls[i], s.tx)
    BY <1>1, <1>2
  <2>2. ~Late(s, calls, i) => Holds(u, Found(s, calls, p, i), what, size)
    BY <1>2, <1>5, <2>1, FoundSent
  <2>3. Late(s, calls, i) => size >= 1
    BY <1>2 DEF Arrived, Readable, LateDiffer, Late
  <2>4. Late(s, calls, i) => ~Holds(u, Found(s, calls, p, i), what, size)
    BY <1>2, <1>5, <2>1, <2>3, FoundSent
  <2> QED BY <1>3, <2>2, <2>4
<1>8. Misses(s, calls, i) <=> Late(s, calls, i)
  BY DEF Misses
<1>9. t.misread = u.misread \cup Missed(s, calls, i)
  BY <1>6, <1>7, <1>8 DEF Noted, Missed
<1>10. Pointers(s, calls, p, t, i)
  BY <1>1, <1>2, <1>5, <1>6, PointersStay
<1>11. t.offset = Found(s, calls, p, i + 1)
  BY <1>2, <1>3, <1>6, NextPlace
<1> QED BY <1>9, <1>10, <1>11 DEF Looked, Tracks

\* What is sealed is not taken from a wrong place.
LEMMA SealedCall ==
  ASSUME NEW s, NEW calls, NEW p, NEW data, NEW d, Arrived(s, calls, p, data, d),
         NEW i \in 1 .. Len(calls), calls[i].op \in {"fetch_decrypt", "fetch_decrypt_key"},
         NEW u, Looks(s, calls, p, u, i),
         NEW t, t = fetch_decrypt(u, calls[i].what), t.error = "none"
  PROVE  /\ ~Late(s, calls, i)
         /\ t.misread = u.misread /\ t.at = u.at
         /\ t.offset = Found(s, calls, p, i) + SentSize(calls[i], s.tx)
<1> DEFINE what == calls[i].what
<1>1. Typed(u) /\ u.buffer = s.buffer /\ u.tx = s.tx /\ s.tx \in BOOLEAN
  BY DEF Looks, Kept, Arrived, Typed
<1>2. Sends(calls[i]) /\ SentSize(calls[i], s.tx) = SealedSize(s.tx)
  BY DEF Sends, SentOps, SentSize
<1>3. SealedSize(s.tx) \in Nat /\ 32 \in 0 .. SealedSize(s.tx) /\ (s.tx => SealedSize(s.tx) = 64)
  BY <1>1 DEF SealedSize
<1>4. u.offset = Found(s, calls, p, i)
  BY <1>2, SendsFound
<1>5. /\ u.tx => Holds(u, u.offset, what, 64)
      /\ t.misread = Noted(u, u.offset, what, 32)
      /\ t.at = u.at /\ t.offset = u.offset + SealedSize(u.tx)
  BY <1>1, SealedNotes
<1>6. ASSUME Late(s, calls, i) PROVE FALSE
  <2>1. s.tx
    BY <1>6 DEF Late
  <2>2. PICK n \in 0 .. SentSize(calls[i], s.tx) : n = 64
    <3>1. SentSize(calls[i], s.tx) = 64
      BY <1>2, <1>3, <2>1, Zenon
    <3>2. 64 \in 0 .. 64
      OBVIOUS
    <3>3. 64 \in 0 .. SentSize(calls[i], s.tx)
      BY <3>1, <3>2
    <3> QED BY <3>3
  <2>3. n >= 1
    BY <2>2
  <2>4. Late(s, calls, i) /\ n >= 1 => ~Holds(u, Found(s, calls, p, i), what, n)
    BY <1>1, <1>2, FoundSent
  <2>5. ~Holds(u, Found(s, calls, p, i), what, n)
    BY <1>6, <2>3, <2>4
  <2> QED BY <1>1, <1>4, <1>5, <2>1, <2>2, <2>5
<1>7. Holds(u, u.offset, what, 32)
  <2>1. 32 \in 0 .. SentSize(calls[i], s.tx)
    BY <1>2, <1>3
  <2>2. Holds(u, Found(s, calls, p, i), what, 32)
    BY <1>1, <1>2, <1>6, <2>1, FoundSent
  <2> QED BY <1>4, <2>2
<1>8. t.misread = u.misread
  BY <1>5, <1>7 DEF Noted
<1> QED BY <1>1, <1>2, <1>4, <1>5, <1>6, <1>8

LEMMA DecryptCall ==
  ASSUME NEW s, NEW calls, NEW p, NEW data, NEW d, Arrived(s, calls, p, data, d),
         NEW i \in 1 .. Len(calls), calls[i].op = "fetch_decrypt", NEW u, Looks(s, calls, p, u, i),
         NEW t, t = Do(u, calls[i]), t.error = "none"
  PROVE  Looked(s, calls, p, u, t, i)
<1>1. t = fetch_decrypt(u, calls[i].what)
  BY DEF Do, Looks
<1>2. /\ t.misread = u.misread /\ t.at = u.at
      /\ t.offset = Found(s, calls, p, i) + SentSize(calls[i], s.tx)
  BY <1>1, SealedCall
<1>3. ~IsKey(calls[i]) /\ ~IsPointer(calls[i]) /\ ~Misses(s, calls, i)
  BY DEF IsKey, IsPointer, Misses
<1>4. t.offset = Found(s, calls, p, i + 1)
  BY <1>2, <1>3, NextPlace
<1>5. Pointers(s, calls, p, t, i)
  <2>1. Pointers(s, calls, p, u, i - 1) /\ i \in Nat \ {0}
    BY DEF Looks, Tracks, Arrived, Readable, ReadsTo
  <2> QED BY <1>2, <1>3, <2>1, PointersStay
<1>6. t.misread = u.misread \cup Missed(s, calls, i)
  BY <1>2, <1>3 DEF Missed
<1> QED BY <1>4, <1>5, <1>6 DEF Looked, Tracks

\* The placeholder of the spend key leaves the offset at its HMAC.
LEMMA KeyCall ==
  ASSUME NEW s, NEW calls, NEW p, NEW data, NEW d, Arrived(s, calls, p, data, d),
         NEW i \in 1 .. Len(calls), IsKey(calls[i]), NEW u, Looks(s, calls, p, u, i),
         NEW t, t = Do(u, calls[i]), t.error = "none"
  PROVE  Looked(s, calls, p, u, t, i)
<1> DEFINE what == calls[i].what
           size == SentSize(calls[i], s.tx)
<1>1. t = fetch_decrypt_key(u, what)
  BY DEF Do, Looks, IsKey
<1>2. /\ Typed(u) /\ u.buffer = s.buffer /\ u.tx = s.tx /\ u.keys = s.keys /\ s.tx \in BOOLEAN
      /\ Pointers(s, calls, p, u, i - 1) /\ i \in Nat \ {0}
  BY DEF Looks, Kept, Arrived, Typed, Tracks, Readable, ReadsTo
<1>3. Sends(calls[i]) /\ size = SealedSize(s.tx) /\ ~IsPointer(calls[i]) /\ ~Misses(s, calls, i)
  BY DEF Sends, SentOps, SentSize, IsKey, IsPointer, Misses
<1>4. size \in Nat /\ 32 \in 0 .. size /\ (s.tx => size = 64) /\ (~s.tx => size = 32)
  BY <1>2, <1>3 DEF SealedSize
<1>5. u.offset = Found(s, calls, p, i)
  BY <1>3, SendsFound
<1>6. /\ ~Late(s, calls, i) => Holds(u, Found(s, calls, p, i), what, 32)
      /\ Late(s, calls, i) => ~Holds(u, Found(s, calls, p, i), what, 32)
  <2>1. 32 \in 0 .. SentSize(calls[i], s.tx) /\ 32 >= 1
    BY <1>4
  <2> QED BY <1>2, <1>3, <2>1, FoundSent
<1>7. ~Late(s, calls, i) /\ t.misread = u.misread /\ t.at = u.at /\ t.offset = Found(s, calls, p, i + 1)
  <2>1. CASE u.keys = "spend" /\ Holds(u, u.offset, what, 32)
    <3>1. t = Take(u, what, 32, size, 32)
      BY <1>1, <1>2, <1>3, <2>1, Zenon DEF fetch_decrypt_key
    <3> HIDE DEF size
    <3>2. t.misread = Noted(u, u.offset, what, 32) /\ t.at = u.at /\ t.offset = u.offset + 32
      BY <1>2, <1>4, <3>1, TakeNotes
    <3>3. t.misread = u.misread
      BY <2>1, <3>2 DEF Noted
    <3>4. ~Late(s, calls, i)
      BY <1>5, <1>6, <2>1
    <3>5. Found(s, calls, p, i + 1) = Found(s, calls, p, i) + (IF s.tx /\ s.keys = "spend" THEN size - 32 ELSE size)
      BY <3>4, NextPlace DEF size
    <3>6. Found(s, calls, p, i + 1) = Found(s, calls, p, i) + 32
      BY <1>2, <1>4, <2>1, <3>5
    <3> QED BY <1>5, <3>2, <3>3, <3>4, <3>6
  <2>2. CASE ~(u.keys = "spend" /\ Holds(u, u.offset, what, 32))
    <3>1. t = fetch_decrypt(u, what)
      BY <1>1, <2>2, Zenon DEF fetch_decrypt_key
    <3>2. /\ ~Late(s, calls, i) /\ t.misread = u.misread /\ t.at = u.at
          /\ t.offset = Found(s, calls, p, i) + size
      BY <3>1, SealedCall DEF IsKey
    <3>3. s.keys # "spend"
      BY <1>2, <1>5, <1>6, <2>2, <3>2
    <3> HIDE DEF size
    <3>4. Found(s, calls, p, i + 1) = Found(s, calls, p, i) + (IF s.tx /\ s.keys = "spend" THEN size - 32 ELSE size)
      BY <3>2, NextPlace DEF size
    <3> QED BY <3>2, <3>3, <3>4
  <2> QED BY <2>1, <2>2
<1>8. Pointers(s, calls, p, t, i)
  BY <1>2, <1>3, <1>7, PointersStay
<1>9. t.misread = u.misread \cup Missed(s, calls, i)
  BY <1>3, <1>7 DEF Missed
<1> QED BY <1>7, <1>8, <1>9 DEF Looked, Tracks

LEMMA PointCall ==
  ASSUME NEW s, NEW calls, NEW p, NEW data, NEW d, Arrived(s, calls, p, data, d),
         NEW i \in 1 .. Len(calls), calls[i].op = "point", Reader(calls[i]), NEW u, Looks(s, calls, p, u, i),
         NEW t, t = Do(u, calls[i]), t.error = "none"
  PROVE  Looked(s, calls, p, u, t, i)
<1> DEFINE what == calls[i].what
           size == calls[i].size
           r == Points(u, what)
<1>1. Sends(calls[i]) /\ SentSize(calls[i], s.tx) = size /\ ~IsKey(calls[i]) /\ IsPointer(calls[i]) /\ ~Misses(s, calls, i)
  BY DEF Sends, SentOps, SentSize, IsKey, IsPointer, Misses
<1>2. /\ u.offset = Found(s, calls, p, i) /\ Pointers(s, calls, p, u, i - 1)
      /\ PointersDiffer(calls) /\ Len(calls) \in Nat /\ DOMAIN u = Fields /\ u.error = "none" /\ Typed(u)
  <2>1. u.offset = Found(s, calls, p, i)
    BY <1>1, SendsFound
  <2> QED BY <2>1 DEF Looks, Tracks, Arrived, Readable, ReadsTo, Typed
<1>3. /\ DOMAIN r = Fields /\ r.misread = u.misread /\ r.offset = u.offset
      /\ r.at[what] = u.offset /\ \A x \in DOMAIN u.at : x # what => r.at[x] = u.at[x]
      /\ DOMAIN r.at = DOMAIN u.at \cup {what}
  BY <1>2, PointsNotes
<1>4. CASE ~Available(u, size)
  <2>1. t = Fails(u, "SW_WRONG_LENGTH") /\ "SW_WRONG_LENGTH" \in Errors
    BY <1>2, <1>4 DEF Do, Errors
  <2> QED BY <1>2, <2>1, FailsState
<1>5. CASE Available(u, size)
  <2>1. t = [r EXCEPT !.offset = @ + size]
    BY <1>2, <1>5, Zenon DEF Do
  <2> HIDE DEF r
  <2>2. t.misread = r.misread /\ t.at = r.at /\ t.offset = r.offset + size
    BY <1>3, <2>1, SMT DEF Fields
  <2>3. Pointers(s, calls, p, t, i)
    BY <1>1, <1>2, <1>3, <2>2, PointersGrow
  <2>4. t.offset = Found(s, calls, p, i + 1)
    BY <1>1, <1>2, <1>3, <2>2, NextPlace
  <2>5. t.misread = u.misread \cup Missed(s, calls, i)
    BY <1>1, <1>3, <2>2 DEF Missed
  <2> QED BY <2>3, <2>4, <2>5 DEF Looked, Tracks
<1> QED BY <1>4, <1>5

LEMMA RestHere ==
  ASSUME NEW calls, NEW i \in Nat \ {0}, IsRest(calls[i])
  PROVE  ~Fetched(calls, i)
<1>1. i \in 1 .. i
  OBVIOUS
<1> QED BY <1>1 DEF Fetched

LEMMA PeekCall ==
  ASSUME NEW s, NEW calls, NEW p, NEW data, NEW d, Arrived(s, calls, p, data, d),
         NEW i \in 1 .. Len(calls), calls[i].op = "peek", NEW u, Looks(s, calls, p, u, i),
         NEW t, t = Do(u, calls[i]), t.error = "none"
  PROVE  Looked(s, calls, p, u, t, i)
<1> DEFINE what == calls[i].what
<1>1. Sends(calls[i]) /\ IsRest(calls[i]) /\ IsPointer(calls[i]) /\ ~Misses(s, calls, i)
  BY DEF Sends, SentOps, IsRest, IsPointer, Misses
<1>2. /\ u.offset = Found(s, calls, p, i) /\ Pointers(s, calls, p, u, i - 1)
      /\ PointersDiffer(calls) /\ Len(calls) \in Nat /\ DOMAIN u = Fields /\ u.error = "none"
  <2>1. u.offset = Found(s, calls, p, i)
    BY <1>1, SendsFound
  <2> QED BY <2>1 DEF Looks, Tracks, Arrived, Readable, ReadsTo, Typed
<1>3. t = Points(u, what)
  BY <1>2, Zenon DEF Do
<1>4. /\ DOMAIN t = Fields /\ t.misread = u.misread /\ t.offset = u.offset
      /\ t.at[what] = u.offset /\ \A x \in DOMAIN u.at : x # what => t.at[x] = u.at[x]
      /\ DOMAIN t.at = DOMAIN u.at \cup {what}
  BY <1>2, <1>3, PointsNotes
<1>5. Pointers(s, calls, p, t, i)
  BY <1>1, <1>2, <1>4, PointersGrow
<1>6. ~Fetched(calls, i)
  BY <1>1, <1>2, RestHere
<1>7. t.misread = u.misread \cup Missed(s, calls, i)
  BY <1>1, <1>4 DEF Missed
<1> QED BY <1>5, <1>6, <1>7 DEF Looked, Tracks

LEMMA OtherCall ==
  ASSUME NEW s, NEW calls, NEW p, NEW data, NEW d, Arrived(s, calls, p, data, d),
         NEW i \in 1 .. Len(calls), calls[i].op \in {"use", "rest", "skip", "exactly", "amount2str"}, NEW u, Looks(s, calls, p, u, i),
         NEW t, t = Do(u, calls[i]), t.error = "none"
  PROVE  Looked(s, calls, p, u, t, i)
<1>1. /\ Pointers(s, calls, p, u, i - 1) /\ i \in Nat \ {0} /\ (i - 1) + 1 = i
      /\ Len(calls) \in Nat /\ DOMAIN u = Fields /\ u.error = "none" /\ Typed(u) /\ u.buffer = s.buffer
  BY DEF Looks, Tracks, Arrived, Readable, ReadsTo, Typed, Kept
<1>2. Fetched(calls, i - 1) => u.offset = Found(s, calls, p, i)
  BY <1>1, Zenon DEF Looks, Tracks
<1>3. ~IsPointer(calls[i]) /\ ~IsKey(calls[i])
  BY DEF IsPointer, IsKey
<1>4. Fetched(calls, i) => Fetched(calls, i - 1)
  <2>1. \A j \in 1 .. i - 1 : j \in 1 .. i
    BY <1>1
  <2> QED BY <2>1 DEF Fetched
<1>5. ASSUME calls[i].op # "rest"
      PROVE  Found(s, calls, p, i + 1) = Found(s, calls, p, i)
  <2>1. SentSize(calls[i], s.tx) = 0
    BY <1>5 DEF SentSize, SentOps
  <2>2. Found(s, calls, p, i) \in Int
    <3>1. p[i - 1] \in Nat
      BY Places DEF Placed
    <3> QED BY <3>1 DEF Found
  <2> QED BY <1>3, <2>1, <2>2, NextPlace
<1>6. ASSUME t.at = u.at, t.offset = u.offset
      PROVE  Tracks(s, calls, p, t, i)
  <2>1. Pointers(s, calls, p, t, i)
    BY <1>1, <1>3, <1>6, PointersStay
  <2>2. Fetched(calls, i) => calls[i].op # "rest"
    <3>1. i \in 1 .. i
      BY <1>1
    <3> QED BY <3>1 DEF Fetched, IsRest
  <2>3. Fetched(calls, i) => t.offset = Found(s, calls, p, i + 1)
    BY <1>2, <1>4, <1>5, <1>6, <2>2
  <2> QED BY <2>1, <2>3 DEF Tracks
<1>7. CASE calls[i].op = "use"
  <2>1. t.misread = u.misread \cup Missed(s, calls, i) /\ t.at = u.at /\ t.offset = u.offset
    BY <1>1, <1>7, UseCall
  <2> QED BY <1>6, <2>1 DEF Looked
<1>8. ASSUME t.misread = u.misread, t.at = u.at, t.offset = u.offset, calls[i].op # "use"
      PROVE  Looked(s, calls, p, u, t, i)
  <2>1. Missed(s, calls, i) = {}
    <3>1. ~Misses(s, calls, i)
      BY <1>8 DEF Misses
    <3> QED BY <3>1 DEF Missed
  <2> QED BY <1>6, <1>8, <2>1 DEF Looked
<1>9. CASE calls[i].op = "rest"
  <2>1. t = u
    BY <1>1, <1>9 DEF Do
  <2> QED BY <1>8, <1>9, <2>1
<1>10. CASE calls[i].op = "exactly"
  <2>1. t = u \/ t = Fails(u, "SW_WRONG_LENGTH")
    BY <1>1, <1>10 DEF Do
  <2>2. "SW_WRONG_LENGTH" \in Errors
    BY DEF Errors
  <2>3. t = u
    BY <1>1, <2>1, <2>2, FailsState
  <2> QED BY <1>8, <1>10, <2>3
<1>11. CASE calls[i].op = "amount2str"
  <2> DEFINE shown == u.shown \cup {<< calls[i].amount, amount2str(calls[i].amount, calls[i].size) >>}
  <2>1. t = [u EXCEPT !.shown = shown]
    BY <1>1, <1>11, Zenon DEF Do
  <2> HIDE DEF shown
  <2>2. t.misread = u.misread /\ t.at = u.at /\ t.offset = u.offset
    BY <1>1, <2>1, SMT DEF Fields
  <2> QED BY <1>8, <1>11, <2>2
<1>12. CASE calls[i].op = "skip"
  <2>1. t = u \/ t = Fails(u, "SW_WRONG_LENGTH")
    BY <1>1, <1>12, Zenon DEF Do, skip
  <2>2. "SW_WRONG_LENGTH" \in Errors
    BY DEF Errors
  <2>3. t = u
    BY <1>1, <2>1, <2>2, FailsState
  <2> QED BY <1>8, <1>12, <2>3
<1> QED BY <1>7, <1>9, <1>10, <1>11, <1>12

\* Each call that reads finds its field, or misses it where it is behind a key.
LEMMA ReadCall ==
  ASSUME NEW s, NEW calls, NEW p, NEW data, NEW d, Arrived(s, calls, p, data, d),
         NEW i \in 1 .. Len(calls), i < d, NEW u, Looks(s, calls, p, u, i),
         NEW t, t = Do(u, calls[i]), t.error = "none"
  PROVE  Looked(s, calls, p, u, t, i)
<1>1. Reader(calls[i])
  <2>1. \A j \in 1 .. Len(calls) : j < d => Reader(calls[j])
    BY DEF Arrived, Readable, ReadsTo
  <2> QED BY <2>1
<1>2. calls[i].op \in ReadOps
  BY <1>1 DEF Reader
<1> QED BY <1>1, <1>2, FetchCall, DecryptCall, KeyCall, PointCall, PeekCall, OtherCall DEF ReadOps, IsKey

\* The fields for which other bytes were taken in the first n calls.
Wrong(s, calls, n) == {calls[i].what : i \in {j \in 1 .. n : Misses(s, calls, j)}}

LEMMA WrongIff ==
  ASSUME NEW s, NEW calls, NEW n, NEW x
  PROVE  x \in Wrong(s, calls, n) <=> \E i \in 1 .. n : Misses(s, calls, i) /\ x = calls[i].what
BY Zenon DEF Wrong

LEMMA WrongGrows ==
  ASSUME NEW s, NEW calls, NEW n \in Nat
  PROVE  /\ Wrong(s, calls, 0) = {}
         /\ Wrong(s, calls, n + 1) = Wrong(s, calls, n) \cup Missed(s, calls, n + 1)
<1>1. Wrong(s, calls, 0) = {}
  <2>1. \A i \in 1 .. 0 : FALSE
    OBVIOUS
  <2>2. \A x : x \notin Wrong(s, calls, 0)
    BY <2>1, WrongIff, Zenon
  <2> QED BY <2>2
<1>2. \A i : i \in 1 .. n + 1 <=> i \in 1 .. n \/ i = n + 1
  OBVIOUS
<1>3. \A x : x \in Wrong(s, calls, n + 1) <=> x \in Wrong(s, calls, n) \/ (Misses(s, calls, n + 1) /\ x = calls[n + 1].what)
  <2> SUFFICES ASSUME NEW x
               PROVE  x \in Wrong(s, calls, n + 1) <=> x \in Wrong(s, calls, n) \/ (Misses(s, calls, n + 1) /\ x = calls[n + 1].what)
    OBVIOUS
  <2> DEFINE Is(i) == Misses(s, calls, i) /\ x = calls[i].what
  <2>1. x \in Wrong(s, calls, n + 1) <=> \E i \in 1 .. n + 1 : Is(i)
    BY WrongIff
  <2>2. x \in Wrong(s, calls, n) <=> \E i \in 1 .. n : Is(i)
    BY WrongIff
  <2> HIDE DEF Is
  <2>3. (\E i \in 1 .. n + 1 : Is(i)) <=> (\E i \in 1 .. n : Is(i)) \/ Is(n + 1)
    BY <1>2
  <2> QED BY <2>1, <2>2, <2>3 DEF Is
<1>4. \A x : x \in Missed(s, calls, n + 1) <=> Misses(s, calls, n + 1) /\ x = calls[n + 1].what
  BY Zenon DEF Missed
<1>5. \A x : x \in Wrong(s, calls, n + 1) <=> x \in Wrong(s, calls, n) \cup Missed(s, calls, n + 1)
  BY <1>3, <1>4, Zenon
<1>6. Wrong(s, calls, n + 1) = Wrong(s, calls, n) \cup Missed(s, calls, n + 1)
  BY <1>5, Zenon
<1> QED BY <1>1, <1>6

\* No call of a handler that succeeds has failed.
LEMMA NoneRun ==
  ASSUME NEW s, NEW calls, Len(calls) \in Nat, NEW r, r = Runs(s, calls), r[Len(calls)].error = "none"
  PROVE  \A n \in 0 .. Len(calls) : r[n].error = "none"
<1> SUFFICES ASSUME NEW m \in 0 .. Len(calls), r[m].error # "none" PROVE FALSE
  OBVIOUS
<1>1. Len(calls) \in m .. Len(calls)
  OBVIOUS
<1>2. r[Len(calls)] = r[m]
  BY <1>1, ErrorRun
<1> QED BY <1>2

\* As long as it reads, a handler finds all but what is behind the placeholder of the spend key.
LEMMA FoundRun ==
  ASSUME NEW s, NEW calls, NEW p, NEW data, NEW d, Arrived(s, calls, p, data, d), s.misread = {},
         NEW r, r = Runs(s, calls), \A n \in 0 .. Len(calls) : r[n].error = "none"
  PROVE  \A n \in 0 .. d - 1 :
           /\ Typed(r[n]) /\ Kept(s, r[n]) /\ Pointers(s, calls, p, r[n], n)
           /\ r[n].misread = Wrong(s, calls, n)
<1> DEFINE k == Len(calls)
           S == {n \in Nat : Tracks(s, calls, p, r[n], n) /\ r[n].misread = Wrong(s, calls, n)}
<1>1. /\ Typed(s) /\ s.offset = 0 /\ ReadsTo(calls, d) /\ k \in Nat /\ d \in 1 .. k + 1 /\ p[0] = 0
  BY DEF Arrived, Readable, ReadsTo, IsLayout
<1>2. r[0] = s /\ \A n \in 1 .. k : r[n] = Do(r[n - 1], calls[n])
  BY <1>1, RunsDef
<1>3. \A n \in 0 .. d - 1 : Typed(r[n]) /\ Kept(s, r[n])
  BY <1>1, ReadsToRun
<1>4. \A n \in 0 .. k : r[n].error = "none"
  OBVIOUS
<1> HIDE DEF k
<1>5. 0 \in S
  <2>1. Pointers(s, calls, p, r[0], 0)
    BY DEF Pointers
  <2>2. Found(s, calls, p, 1) = 0
    <3>1. ~Late(s, calls, 1)
      BY DEF Late, Behind
    <3> QED BY <1>1, <3>1 DEF Found
  <2>3. r[0].offset = Found(s, calls, p, 0 + 1)
    BY <1>1, <1>2, <2>2
  <2>4. r[0].misread = Wrong(s, calls, 0)
    BY <1>2, WrongGrows
  <2> QED BY <2>1, <2>3, <2>4 DEF Tracks
<1>6. \A n \in 0 .. (d - 1) - 1 : n \in S => n + 1 \in S
  <2> SUFFICES ASSUME NEW n \in 0 .. (d - 1) - 1, n \in S PROVE n + 1 \in S
    OBVIOUS
  <2>1. /\ n \in Nat /\ n + 1 \in Nat /\ n + 1 \in 1 .. k /\ n + 1 < d /\ n \in 0 .. d - 1 /\ (n + 1) - 1 = n
        /\ n \in 0 .. k /\ n + 1 \in 0 .. k
    BY <1>1
  <2>2. r[n + 1] = Do(r[n], calls[n + 1])
    BY <1>2, <2>1
  <2>3. Looks(s, calls, p, r[n], n + 1)
    BY <1>3, <1>4, <2>1 DEF Looks
  <2>4. r[n + 1].error = "none"
    BY <1>4, <2>1
  <2>5. Looked(s, calls, p, r[n], r[n + 1], n + 1)
    BY <2>1, <2>2, <2>3, <2>4, ReadCall DEF k
  <2>6. r[n + 1].misread = Wrong(s, calls, n + 1)
    <3>1. Wrong(s, calls, n + 1) = Wrong(s, calls, n) \cup Missed(s, calls, n + 1)
      BY <2>1, WrongGrows
    <3> QED BY <2>5, <3>1 DEF Looked
  <2> QED BY <2>1, <2>5, <2>6 DEF Looked
<1>7. d - 1 \in Nat
  BY <1>1
<1> HIDE DEF S
<1>8. 0 .. d - 1 \subseteq S
  BY <1>5, <1>6, <1>7, InductionUpTo
<1>9. ASSUME NEW n \in 0 .. d - 1
      PROVE  Pointers(s, calls, p, r[n], n) /\ r[n].misread = Wrong(s, calls, n)
  <2>1. n \in S
    BY <1>8
  <2> QED BY <2>1 DEF S, Tracks
<1> QED BY <1>3, <1>9

\* A field that is taken by such a call behind a key.
TakenLate(calls, op, x) ==
  \E i \in DOMAIN calls : calls[i].op = op /\ Behind(calls, i) /\ x = calls[i].what

LEMMA BehindKeyIff ==
  ASSUME NEW c, NEW x
  PROVE  x \in BehindKey(c) <=>
           \/ TakenLate(c.calls, "fetch", x)
           \/ TakenLate(c.calls, "point", x) /\ TakenLate(c.calls, "use", x)
<1> DEFINE late(op) == {c.calls[i].what : i \in {j \in DOMAIN c.calls :
                          c.calls[j].op = op /\ \E k \in 1 .. j - 1 : c.calls[k].op = "fetch_decrypt_key"}}
<1>1. BehindKey(c) = late("fetch") \cup (late("point") \cap late("use"))
  BY Zenon DEF BehindKey
<1>2. ASSUME NEW op PROVE x \in late(op) <=> TakenLate(c.calls, op, x)
  BY Zenon DEF TakenLate, Behind, IsKey
<1>3. /\ x \in late("fetch") <=> TakenLate(c.calls, "fetch", x)
      /\ x \in late("point") <=> TakenLate(c.calls, "point", x)
      /\ x \in late("use") <=> TakenLate(c.calls, "use", x)
  BY <1>2
<1> HIDE DEF late
<1> QED BY <1>1, <1>3, Zenon

\* What is taken for another field is what is read behind the placeholder of the spend key.
LEMMA WrongFields ==
  ASSUME NEW s, NEW c, NEW d, Readable(c.calls, d)
  PROVE  Wrong(s, c.calls, Len(c.calls)) = IF s.tx /\ s.keys = "spend" THEN BehindKey(c) ELSE {}
<1> DEFINE calls == c.calls
           k == Len(calls)
           wrong == Wrong(s, calls, k)
<1>1. k \in Nat /\ DOMAIN calls = 1 .. k
      /\ UsesPointers(calls, d) /\ PointersDiffer(calls) /\ LateDiffer(calls)
  BY DEF Readable, ReadsTo
<1>2. CASE ~(s.tx /\ s.keys = "spend")
  <2>1. \A i \in 1 .. k : ~Misses(s, calls, i)
    BY <1>2 DEF Misses, Late
  <2>2. \A x : x \notin wrong
    BY <2>1, WrongIff, Zenon
  <2> HIDE DEF wrong
  <2>3. wrong = {}
    BY <2>2
  <2> QED BY <1>2, <2>3 DEF wrong
<1>3. CASE s.tx /\ s.keys = "spend"
  <2>1. \A i \in 1 .. k : Late(s, calls, i) <=> Behind(calls, i)
    BY <1>3, Zenon DEF Late
  <2>2. ASSUME NEW x, x \in wrong PROVE x \in BehindKey(c)
    <3>1. PICK i \in 1 .. k : Misses(s, calls, i) /\ x = calls[i].what
      BY <2>2, WrongIff
    <3>2. CASE calls[i].op = "fetch" /\ Late(s, calls, i)
      <4>1. TakenLate(calls, "fetch", x)
        BY <1>1, <2>1, <3>1, <3>2 DEF TakenLate
      <4> QED BY <4>1, BehindKeyIff
    <3>3. CASE calls[i].op = "use" /\ \E j \in 1 .. i - 1 :
                 IsPointer(calls[j]) /\ calls[j].what = calls[i].what /\ Late(s, calls, j)
      <4>1. PICK j \in 1 .. i - 1 : IsPointer(calls[j]) /\ calls[j].what = calls[i].what /\ Late(s, calls, j)
        BY <3>3
      <4>2. j \in 1 .. k /\ \A m \in 1 .. j - 1 : m \in 1 .. i - 1
        BY <1>1
      <4>3. Behind(calls, j) /\ Behind(calls, i)
        BY <2>1, <4>1, <4>2 DEF Behind
      <4>4. Sends(calls[j])
        BY <4>1 DEF Sends, SentOps, IsPointer
      <4>5. calls[j].op = "point"
        BY <1>1, <4>1, <4>2, <4>3, <4>4 DEF LateDiffer, IsRest, IsPointer
      <4>6. TakenLate(calls, "point", x)
        BY <1>1, <3>1, <4>1, <4>2, <4>3, <4>5 DEF TakenLate
      <4>7. TakenLate(calls, "use", x)
        BY <1>1, <3>1, <3>3, <4>3 DEF TakenLate
      <4> QED BY <4>6, <4>7, BehindKeyIff
    <3> QED BY <3>1, <3>2, <3>3 DEF Misses
  <2>3. ASSUME NEW x, x \in BehindKey(c) PROVE x \in wrong
    <3>1. \/ TakenLate(calls, "fetch", x)
          \/ TakenLate(calls, "point", x) /\ TakenLate(calls, "use", x)
      BY <2>3, BehindKeyIff
    <3>2. CASE TakenLate(calls, "fetch", x)
      <4>1. PICK i \in 1 .. k : calls[i].op = "fetch" /\ Behind(calls, i) /\ x = calls[i].what
        BY <1>1, <3>2 DEF TakenLate
      <4>2. Misses(s, calls, i)
        BY <2>1, <4>1 DEF Misses
      <4> QED BY <4>1, <4>2, WrongIff
    <3>3. CASE TakenLate(calls, "point", x) /\ TakenLate(calls, "use", x)
      <4>1. PICK j \in 1 .. k : calls[j].op = "point" /\ Behind(calls, j) /\ x = calls[j].what
        BY <1>1, <3>3 DEF TakenLate
      <4>2. PICK i \in 1 .. k : calls[i].op = "use" /\ x = calls[i].what
        BY <1>1, <3>3 DEF TakenLate
      <4>3. PICK m \in 1 .. i - 1 : IsPointer(calls[m]) /\ calls[m].what = calls[i].what
        BY <1>1, <4>2 DEF UsesPointers
      <4>4. m \in 1 .. k /\ IsPointer(calls[j])
        BY <1>1, <4>1 DEF IsPointer
      <4>5. m = j
        BY <1>1, <4>1, <4>2, <4>3, <4>4 DEF PointersDiffer
      <4>6. Misses(s, calls, i)
        BY <2>1, <4>1, <4>2, <4>3, <4>5 DEF Misses
      <4> QED BY <4>2, <4>6, WrongIff
    <3> QED BY <3>1, <3>2, <3>3
  <2> HIDE DEF wrong
  <2>4. wrong = BehindKey(c)
    BY <2>2, <2>3
  <2> QED BY <1>3, <2>4 DEF wrong
<1> QED BY <1>2, <1>3

LEMMA RegularReadable ==
  ASSUME NEW calls, NEW d, NEW e, Regular(calls, d, e)
  PROVE  Readable(calls, d)
BY DEF Regular, Readable

\* A discard that does not clear leaves what pointers point to.
LEMMA DiscardKeeps ==
  ASSUME NEW u, DOMAIN u = Fields, u.error = "none", NEW c, c.op = "discard", NEW t, t = Do(u, c)
  PROVE  /\ DOMAIN t = Fields /\ t.buffer = u.buffer /\ t.at = u.at /\ t.misread = u.misread
<1>1. t = discard(u, FALSE)
  BY DEF Do
<1>2. t = [u EXCEPT !.offset = 0, !.length = 0, !.buffer = u.buffer]
  BY <1>1 DEF discard
<1> QED BY <1>2, SMT DEF Fields

\* Nothing else is taken for another field in the rest of a handler.
LEMMA RegularRun ==
  ASSUME NEW s, NEW calls, NEW p, NEW data, NEW d, NEW e, Regular(calls, d, e),
         Arrived(s, calls, p, data, d), s.misread = {},
         NEW r, r = Runs(s, calls), r[Len(calls)].error = "none"
  PROVE  r[Len(calls)].misread = Wrong(s, calls, Len(calls))
<1> DEFINE k == Len(calls)
           b == d - 1
           Good(n) == /\ DOMAIN r[n] = Fields /\ r[n].misread = Wrong(s, calls, n)
                      /\ n <= e => r[n].buffer = s.buffer /\ Pointers(s, calls, p, r[n], n)
           S == {m \in Nat : Good(b + m)}
<1>1. /\ k \in Nat /\ d \in 1 .. k + 1 /\ e \in Nat /\ d - 1 <= e /\ e <= k
      /\ \A i \in 1 .. k : i >= d => calls[i].op \in TailOps \cup {"use"}
      /\ \A i \in 1 .. k : i > e => calls[i].op # "use"
      /\ \A i \in 1 .. k : i >= d /\ i <= e => calls[i].op = (IF i = d THEN "discard" ELSE "use")
      /\ \A i \in 1 .. k : Showing(calls[i])
  BY DEF Regular, TailCalls, ReadsTo, ShowsAmounts
<1>2. \A n \in 1 .. k : r[n] = Do(r[n - 1], calls[n])
  BY <1>1, RunsDef
<1>3. \A n \in 0 .. k : r[n].error = "none"
  BY <1>1, NoneRun
<1>4. \A n \in 0 .. d - 1 :
        /\ Typed(r[n]) /\ Kept(s, r[n]) /\ Pointers(s, calls, p, r[n], n)
        /\ r[n].misread = Wrong(s, calls, n)
  BY <1>3, FoundRun
<1> HIDE DEF k
<1>5. b \in Nat /\ k - b \in Nat /\ d = b + 1 /\ b <= e /\ b \in 0 .. d - 1 /\ b + 0 = b /\ b + (k - b) = k
  BY <1>1
<1>6. 0 \in S
  <2>1. Typed(r[b]) /\ Kept(s, r[b]) /\ Pointers(s, calls, p, r[b], b) /\ r[b].misread = Wrong(s, calls, b)
    BY <1>4, <1>5
  <2>2. Good(b)
    BY <2>1 DEF Typed, Kept
  <2> HIDE DEF Good
  <2> QED BY <1>5, <2>2
<1>7. ASSUME NEW n \in b .. k - 1, Good(n)
      PROVE  Good(n + 1)
  <2> DEFINE i == n + 1
             u == r[n]
             t == r[i]
  <2>1. /\ i \in 1 .. k /\ i \in Nat \ {0} /\ i - 1 = n /\ i >= d /\ n \in Nat /\ n \in 0 .. k
        /\ i <= e => n <= e
    <3>1. k \in Nat /\ d \in 1 .. k + 1 /\ e \in Nat
      BY <1>1
    <3>2. b \in Nat /\ d = b + 1 /\ n \in b .. k - 1
      BY <1>5
    <3> HIDE DEF b
    <3>3. n \in Nat /\ n >= b /\ n <= k - 1
      BY <3>1, <3>2
    <3>4. n \in 0 .. k /\ n + 1 \in 1 .. k /\ n + 1 \in Nat \ {0} /\ (n + 1) - 1 = n /\ n + 1 >= d
      BY <3>1, <3>2, <3>3
    <3>5. ASSUME n + 1 <= e PROVE n <= e
      BY <3>1, <3>3, <3>5
    <3> QED BY <3>3, <3>4, <3>5
  <2>2. t = Do(u, calls[i]) /\ u.error = "none"
    BY <1>2, <1>3, <2>1
  <2>3. /\ DOMAIN u = Fields /\ u.misread = Wrong(s, calls, n)
        /\ i <= e => u.buffer = s.buffer /\ Pointers(s, calls, p, u, i - 1)
    BY <1>7, <2>1
  <2>4. Wrong(s, calls, i) = Wrong(s, calls, n) \cup Missed(s, calls, i)
    BY <2>1, WrongGrows
  <2> HIDE DEF i, u, t
  <2>5. ASSUME calls[i].op # "use", calls[i].op # "fetch", t.misread = u.misread
        PROVE  t.misread = Wrong(s, calls, i)
    <3>1. Missed(s, calls, i) = {}
      BY <2>5 DEF Missed, Misses
    <3> QED BY <2>3, <2>4, <2>5, <3>1
  <2>6. CASE i > e
    <3>1. calls[i].op \in TailOps /\ calls[i].op # "use" /\ calls[i].op # "fetch"
      BY <1>1, <2>1, <2>6 DEF TailOps
    <3>2. Marks(u, t)
      <4>1. Showing(calls[i])
        BY <1>1, <2>1
      <4> QED BY <2>2, <2>3, <3>1, <4>1, TailDo
    <3>3. t.misread = Wrong(s, calls, i) /\ DOMAIN t = Fields
      BY <2>5, <3>1, <3>2 DEF Marks
    <3>4. ~(i <= e)
      BY <1>1, <2>1, <2>6
    <3> QED BY <3>3, <3>4 DEF i, t
  <2>7. CASE i <= e /\ i = d
    <3>1. calls[i].op = "discard"
      BY <1>1, <2>1, <2>7
    <3>2. DOMAIN t = Fields /\ t.buffer = u.buffer /\ t.at = u.at /\ t.misread = u.misread
      BY <2>2, <2>3, <3>1, DiscardKeeps
    <3>3. ~IsPointer(calls[i])
      BY <3>1 DEF IsPointer
    <3>4. Pointers(s, calls, p, t, i)
      BY <2>1, <2>3, <2>7, <3>2, <3>3, PointersStay
    <3>5. t.misread = Wrong(s, calls, i)
      BY <2>5, <3>1, <3>2
    <3> QED BY <2>3, <2>7, <3>2, <3>4, <3>5 DEF i, t
  <2>8. CASE i <= e /\ i # d
    <3>1. calls[i].op = "use"
      BY <1>1, <2>1, <2>8
    <3>2. /\ t.misread = u.misread \cup Missed(s, calls, i) /\ t.at = u.at
          /\ DOMAIN t = Fields /\ t.buffer = u.buffer
      BY <2>1, <2>2, <2>3, <2>8, <3>1, UseCall DEF k
    <3>3. ~IsPointer(calls[i])
      BY <3>1 DEF IsPointer
    <3>4. Pointers(s, calls, p, t, i)
      BY <2>1, <2>3, <2>8, <3>2, <3>3, PointersStay
    <3> QED BY <2>3, <2>4, <2>8, <3>2, <3>4 DEF i, t
  <2>9. i > e \/ i <= e
    BY <1>1, <2>1
  <2> QED BY <2>6, <2>7, <2>8, <2>9
<1> HIDE DEF Good
<1>8. \A m \in 0 .. (k - b) - 1 : m \in S => m + 1 \in S
  <2> SUFFICES ASSUME NEW m \in 0 .. (k - b) - 1, m \in S PROVE m + 1 \in S
    OBVIOUS
  <2>1. b + m \in b .. k - 1 /\ (b + m) + 1 = b + (m + 1) /\ m + 1 \in Nat
    BY <1>1, <1>5
  <2> HIDE DEF b
  <2>2. Good((b + m) + 1)
    BY <1>7, <2>1
  <2> QED BY <2>1, <2>2
<1> HIDE DEF S
<1>9. 0 .. k - b \subseteq S
  BY <1>5, <1>6, <1>8, InductionUpTo
<1>10. k - b \in S
  BY <1>5, <1>9
<1>11. Good(k)
  BY <1>5, <1>10 DEF S
<1> QED BY <1>11 DEF Good, k

\* The calls for the extra field.
LEMMA ExtraOps ==
  ASSUME NEW size \in ExtraSizes, NEW calls, calls = tx_prefix_extra(size).calls
  PROVE  /\ Len(calls) = 7 /\ DOMAIN calls = 1 .. 7
         /\ calls[1].op = "fetch" /\ calls[2].op = "fetch" /\ calls[3].op = "point"
         /\ calls[4].op = "discard" /\ calls[5].op = "add_to_tx_prefix" /\ calls[6].op = "use"
         /\ calls[7].op = "insert_extra"
         /\ calls[3].what = calls[6].what /\ calls[3].size = calls[6].size
<1>1. /\ Len(calls) = 7 /\ DOMAIN calls = 1 .. 7
      /\ calls[1] = Fetch("options", 1) /\ calls[2] = Fetch("extra_size", 4)
      /\ calls[3] = Point("extra", size) /\ calls[4] = Discard(FALSE) /\ calls[5] = Number(size)
      /\ calls[6] = Use("extra", size) /\ calls[7] = Extra(size)
  BY ExtraCalls
<1>2. /\ Fetch("options", 1).op = "fetch" /\ Fetch("extra_size", 4).op = "fetch" /\ Point("extra", size).op = "point"
      /\ Use("extra", size).op = "use" /\ Number(size).op = "add_to_tx_prefix" /\ Discard(FALSE).op = "discard"
      /\ Extra(size).op = "insert_extra"
  BY DEF Discard, Number, Use, Extra, Fetch, Point, Call
<1>3. Point("extra", size).what = Use("extra", size).what /\ Point("extra", size).size = Use("extra", size).size
  BY DEF Use, Point, Call
<1> QED BY <1>1, <1>2, <1>3

LEMMA ExtraReadable ==
  ASSUME NEW size \in ExtraSizes, NEW calls, calls = tx_prefix_extra(size).calls
  PROVE  /\ Readable(calls, 4) /\ \A i \in 1 .. 7 : ~IsKey(calls[i])
<1>1. /\ Len(calls) = 7 /\ DOMAIN calls = 1 .. 7
      /\ calls[1].op = "fetch" /\ calls[2].op = "fetch" /\ calls[3].op = "point"
      /\ calls[4].op = "discard" /\ calls[5].op = "add_to_tx_prefix" /\ calls[6].op = "use"
      /\ calls[7].op = "insert_extra"
      /\ calls[3].what = calls[6].what /\ calls[3].size = calls[6].size
  BY ExtraOps
<1>2. \A i \in 1 .. 7 : i = 1 \/ i = 2 \/ i = 3 \/ i = 4 \/ i = 5 \/ i = 6 \/ i = 7
  OBVIOUS
<1>3. \A i \in 1 .. 7 : ~IsKey(calls[i]) /\ ~IsRest(calls[i])
  BY <1>1, <1>2 DEF IsKey, IsRest
<1>4. \A i \in 1 .. 7 : IsPointer(calls[i]) <=> i = 3
  BY <1>1, <1>2 DEF IsPointer
<1>5. UsesPointers(calls, 4)
  <2> SUFFICES ASSUME NEW i \in 1 .. Len(calls), calls[i].op = "use"
               PROVE  \E j \in 1 .. i - 1 : /\ j < 4 /\ IsPointer(calls[j])
                                            /\ calls[j].what = calls[i].what /\ calls[j].size = calls[i].size
    BY DEF UsesPointers
  <2>1. i = 6
    BY <1>1, <1>2
  <2>2. 3 \in 1 .. i - 1 /\ 3 < 4 /\ IsPointer(calls[3])
    BY <1>4, <2>1
  <2> QED BY <1>1, <2>1, <2>2
<1>6. PointersDiffer(calls)
  BY <1>1, <1>4 DEF PointersDiffer
<1>7. LateDiffer(calls)
  <2>1. \A i \in 1 .. 7 : ~Behind(calls, i)
    <3> SUFFICES ASSUME NEW i \in 1 .. 7, NEW k \in 1 .. i - 1, IsKey(calls[k]) PROVE FALSE
      BY DEF Behind
    <3>1. k \in 1 .. 7
      OBVIOUS
    <3> QED BY <1>3, <3>1
  <2> QED BY <1>1, <2>1 DEF LateDiffer
<1>8. RestLast(calls)
  BY <1>1, <1>3 DEF RestLast
<1>9. ReadsTo(calls, 4)
  BY ExtraReads
<1> QED BY <1>3, <1>5, <1>6, <1>7, <1>8, <1>9 DEF Readable

\* A handler without keys takes every field for itself.
LEMMA NoKeyNoMiss ==
  ASSUME NEW s, NEW calls, Len(calls) \in Nat, \A i \in 1 .. Len(calls) : ~IsKey(calls[i]), NEW n \in 0 .. Len(calls)
  PROVE  Wrong(s, calls, n) = {}
<1>1. ASSUME NEW i \in 1 .. Len(calls), Behind(calls, i) PROVE FALSE
  <2>1. PICK k \in 1 .. i - 1 : IsKey(calls[k])
    BY <1>1 DEF Behind
  <2>2. k \in 1 .. Len(calls)
    OBVIOUS
  <2> QED BY <2>1, <2>2
<1>2. ASSUME NEW i \in 1 .. Len(calls), Misses(s, calls, i) PROVE FALSE
  <2>1. \A j \in 1 .. i - 1 : j \in 1 .. Len(calls)
    OBVIOUS
  <2> QED BY <1>1, <1>2, <2>1 DEF Misses, Late
<1>3. \A i \in 1 .. n : i \in 1 .. Len(calls)
  OBVIOUS
<1>4. \A x : x \notin Wrong(s, calls, n)
  BY <1>2, <1>3, WrongIff
<1> QED BY <1>4

\* The extra field is read from where it was received, although a number was put in front.
LEMMA ExtraFound ==
  ASSUME NEW size \in ExtraSizes, NEW c, c = tx_prefix_extra(size), NEW s, Holding(c, s), s.misread = {},
         NEW p, NEW data, Arrived(s, c.calls, p, data, 4),
         NEW r, r = Runs(s, c.calls), r[7].error = "none"
  PROVE  r[7].misread = Wrong(s, c.calls, 7)
<1> DEFINE calls == c.calls
<1>1. /\ Len(calls) = 7
      /\ calls[4].op = "discard" /\ calls[5].op = "add_to_tx_prefix" /\ calls[7].op = "insert_extra"
      /\ \A i \in 1 .. 7 : ~IsKey(calls[i])
  BY ExtraOps, ExtraReadable
<1>2. (\A n \in 0 .. 7 : Typed(r[n])) /\ r[6].misread = r[5].misread
  <2>1. Start(s) /\ s.offset = 0
    BY DEF Holding
  <2>2. /\ s.error = "none" => s.length <= 5 + size
        /\ s.error = "none" /\ s.length = 5 + size =>
             \A i \in 1 .. size : s.buffer[5 + i] = << "extra", i >>
    BY Zenon DEF Holding
  <2> QED BY <2>1, <2>2, ExtraRun
<1> HIDE DEF calls
<1>3. /\ r[4] = Do(r[3], calls[4]) /\ r[5] = Do(r[4], calls[5]) /\ r[7] = Do(r[6], calls[7])
  <2>3. Len(c.calls) \in Nat
    BY <1>1 DEF calls
  <2>4. \A n \in 1 .. Len(c.calls) : r[n] = Do(r[n - 1], c.calls[n])
    BY <2>3, RunsDef
  <2>1. \A n \in 1 .. 7 : r[n] = Do(r[n - 1], calls[n])
    BY <1>1, <2>4 DEF calls
  <2>2. r[4] = Do(r[4 - 1], calls[4]) /\ r[5] = Do(r[5 - 1], calls[5]) /\ r[7] = Do(r[7 - 1], calls[7])
    BY <2>1
  <2> QED BY <2>2
<1>4. r[3].misread = Wrong(s, calls, 3)
  <2>1. Len(c.calls) \in Nat /\ r[Len(c.calls)].error = "none"
    BY <1>1 DEF calls
  <2>2. \A n \in 0 .. Len(c.calls) : r[n].error = "none"
    BY <2>1, NoneRun
  <2>3. 3 \in 0 .. 4 - 1
    OBVIOUS
  <2>4. \A n \in 0 .. 4 - 1 : r[n].misread = Wrong(s, c.calls, n)
    BY <2>2, FoundRun
  <2> QED BY <2>3, <2>4 DEF calls
<1>5. Wrong(s, calls, 3) = {} /\ Wrong(s, calls, 7) = {}
  <2>1. Len(calls) \in Nat /\ 3 \in 0 .. Len(calls) /\ 7 \in 0 .. Len(calls)
        /\ \A i \in 1 .. Len(calls) : ~IsKey(calls[i])
    BY <1>1
  <2> QED BY <2>1, NoKeyNoMiss
<1>6. DOMAIN r[3] = Fields /\ DOMAIN r[4] = Fields /\ DOMAIN r[6] = Fields
  BY <1>2 DEF Typed
<1>7. Marks(r[3], r[4]) /\ Marks(r[4], r[5]) /\ Marks(r[6], r[7])
  <2>1. /\ calls[4].op \in TailOps \cup {"insert_extra"} /\ calls[5].op \in TailOps \cup {"insert_extra"}
        /\ calls[7].op \in TailOps \cup {"insert_extra"}
    BY <1>1 DEF TailOps, calls
  <2>2. Showing(calls[4]) /\ Showing(calls[5]) /\ Showing(calls[7])
    BY <1>1 DEF Showing, calls
  <2> QED BY <1>3, <1>6, <2>1, <2>2, TailDo
<1> QED BY <1>2, <1>4, <1>5, <1>7 DEF Marks, calls

\* What a handler takes for its fields when a whole command has come in.
LEMMA CommandFound ==
  ASSUME NEW c \in Commands, NEW s, Holding(c, s), Fresh(c, s), s.whole,
         NEW t, t = Run(s, c.calls), t.error = "none"
  PROVE  t.misread = IF s.tx /\ s.keys = "spend" THEN BehindKey(c) ELSE {}
<1> DEFINE calls == c.calls
           r == Runs(s, calls)
           data == Data(calls, s.tx)
<1>1. /\ Typed(s) /\ s.offset = 0 /\ s.misread = {} /\ s.length = Len(data)
      /\ \A q \in 1 .. s.length : s.buffer[q] = data[q]
  BY DEF Holding, Start, Fresh
<1>2. PICK p : IsLayout(p, calls, s.tx, data, Len(calls))
  BY <1>1, LayoutExists DEF Typed
<1>3. t = r[Len(calls)]
  BY Zenon DEF Run
<1> HIDE DEF data, r
<1>4. ASSUME NEW d, Readable(calls, d)
      PROVE  Arrived(s, calls, p, data, d)
  BY <1>1, <1>2, <1>4 DEF Arrived
<1>5. ASSUME NEW d, Readable(calls, d), t.misread = Wrong(s, calls, Len(calls))
      PROVE  t.misread = IF s.tx /\ s.keys = "spend" THEN BehindKey(c) ELSE {}
  BY <1>5, WrongFields
<1>6. CASE InOrder(c)
  <2>1. PICK d, e : Regular(calls, d, e)
    BY <1>6 DEF InOrder
  <2>2. Readable(calls, d)
    BY <2>1, RegularReadable
  <2>3. Arrived(s, calls, p, data, d)
    BY <1>4, <2>2
  <2>4. t.misread = Wrong(s, calls, Len(calls))
    BY <1>1, <1>3, <2>1, <2>3, RegularRun DEF r
  <2> QED BY <1>5, <2>2, <2>4
<1>7. CASE \E size \in ExtraSizes : c = tx_prefix_extra(size)
  <2>1. PICK size \in ExtraSizes : c = tx_prefix_extra(size)
    BY <1>7
  <2>2. Readable(calls, 4) /\ Len(calls) = 7
    BY <2>1, ExtraReadable, ExtraOps
  <2>3. Arrived(s, calls, p, data, 4)
    BY <1>4, <2>2
  <2>4. r[7].error = "none" /\ t = r[7]
    BY <1>3, <2>2
  <2>5. t.misread = Wrong(s, calls, 7)
    BY <1>1, <2>1, <2>3, <2>4, ExtraFound DEF r
  <2> QED BY <1>5, <2>2, <2>5
<1> QED BY <1>6, <1>7, CommandShapes

LEMMA NothingBehind ==
  ASSUME NEW c \in Commands, ~\E i \in 1 .. Len(c.calls) : IsKey(c.calls[i])
  PROVE  BehindKey(c) = {}
<1>1. Len(c.calls) \in Nat
  BY KnownCalls
<1>2. DOMAIN c.calls = 1 .. Len(c.calls)
  <2>1. InOrder(c) => DOMAIN c.calls = 1 .. Len(c.calls)
    BY DEF InOrder, Regular, ReadsTo
  <2>2. ASSUME NEW size \in ExtraSizes, c = tx_prefix_extra(size)
        PROVE  DOMAIN c.calls = 1 .. Len(c.calls)
    BY <2>2, ExtraOps
  <2> QED BY <2>1, <2>2, CommandShapes
<1>3. ASSUME NEW op, NEW x, TakenLate(c.calls, op, x) PROVE FALSE
  <2>1. PICK i \in DOMAIN c.calls : Behind(c.calls, i)
    BY <1>3 DEF TakenLate
  <2>2. PICK k \in 1 .. i - 1 : IsKey(c.calls[k])
    BY <2>1 DEF Behind
  <2>3. k \in 1 .. Len(c.calls)
    BY <1>1, <1>2
  <2> QED BY <2>2, <2>3
<1>4. \A x : x \notin BehindKey(c)
  <2> SUFFICES ASSUME NEW x, x \in BehindKey(c) PROVE FALSE
    OBVIOUS
  <2>1. \/ TakenLate(c.calls, "fetch", x)
        \/ TakenLate(c.calls, "point", x) /\ TakenLate(c.calls, "use", x)
    BY BehindKeyIff
  <2> QED BY <1>3, <2>1
<1> QED BY <1>4

\* Who asks has taken no key.
QuietKeys == phase \in {"asking", "silent"} => BehindKey(command) = {}

LEMMA ReadReturns ==
  ASSUME IoInv, FreshInv, Returns
  PROVE  ReadAsSent' /\ QuietKeys'
<1> DEFINE s == Run(Allowed(io), command.calls)
           keyed == \E i \in 1 .. Len(command.calls) : IsKey(command.calls[i])
<1>1. /\ phase = "received" /\ s.error = "none" /\ s = Run(io, command.calls)
      /\ Stays(io, s) /\ Marks(s, io') /\ Same(s, io') /\ phase' = s.ends /\ command' = command
      /\ keyed => Same(io, s)
  BY ReturnsMarks
<1> HIDE DEF s
<1>2. command \in Commands /\ Holding(command, io) /\ Fresh(command, io)
  BY <1>1 DEF IoInv, FreshInv
<1>3. ~keyed => BehindKey(command) = {}
  BY <1>2, NothingBehind
<1> HIDE DEF keyed
<1>4. io'.keys = io.keys /\ io'.whole = io.whole /\ io'.misread = s.misread
  BY <1>1 DEF Stays, Marks
<1>5. ASSUME io.whole
      PROVE  io'.misread = IF io'.tx /\ io'.keys = "spend" THEN BehindKey(command) ELSE {}
  <2>1. s.misread = IF io.tx /\ io.keys = "spend" THEN BehindKey(command) ELSE {}
    BY <1>1, <1>2, <1>5, CommandFound
  <2>2. CASE keyed
    <3>1. io'.tx = io.tx
      BY <1>1, <2>2 DEF Same
    <3> QED BY <1>4, <2>1, <3>1
  <2>3. CASE ~keyed
    BY <1>3, <1>4, <2>1, <2>3
  <2> QED BY <2>2, <2>3
<1>6. ReadAsSent'
  BY <1>1, <1>4, <1>5 DEF ReadAsSent
<1>7. QuietKeys'
  <2>1. io.ends = "answering"
    BY <1>2 DEF Holding, Start
  <2>2. keyed => phase' = "answering"
    BY <1>1, <2>1 DEF Same
  <2> QED BY <1>1, <1>3, <2>2 DEF QuietKeys
<1> QED BY <1>6, <1>7

LEMMA ReadStep == IoInv /\ FreshInv /\ ReadAsSent /\ QuietKeys /\ [Next]_ioVars => (ReadAsSent /\ QuietKeys)'
<1> SUFFICES ASSUME IoInv, FreshInv, ReadAsSent, QuietKeys, [Next]_ioVars PROVE (ReadAsSent /\ QuietKeys)'
  OBVIOUS
<1>1. CASE \E c \in Commands : \E keys \in KeysOf(c) : Receive(c, keys)
  <2>1. phase' = "received"
    BY <1>1 DEF Receive
  <2> QED BY <2>1 DEF ReadAsSent, QuietKeys
<1>2. CASE Dispatch
  <2>1. CASE Throws
    <3>1. phase' = "answering" /\ io'.error # "none"
      BY <2>1, ThrowsMarks
    <3> QED BY <3>1 DEF ReadAsSent, QuietKeys
  <2> QED BY <1>2, <2>1, ReadReturns DEF Dispatch
<1>3. CASE \/ Send
           \/ \E accept \in BOOLEAN : export_viewkey_action(accept) \/ validation_action(accept)
  <2>1. /\ phase \in {"answering", "asking"} /\ command' = command /\ phase' = "waiting"
        /\ Marks(io, io') /\ (phase = "answering" => Same(io, io'))
        /\ io'.error = "none" => io.error = "none"
    BY <1>3, WaitMarks
  <2>2. io'.whole = io.whole /\ io'.keys = io.keys /\ io'.misread = io.misread
    BY <2>1 DEF Marks
  <2>3. io'.tx = io.tx \/ BehindKey(command) = {}
    BY <2>1 DEF Same, QuietKeys
  <2>4. ASSUME io'.whole, io'.error = "none"
        PROVE  io'.misread = IF io'.tx /\ io'.keys = "spend" THEN BehindKey(command) ELSE {}
    <3>1. io.misread = IF io.tx /\ io.keys = "spend" THEN BehindKey(command) ELSE {}
      BY <2>1, <2>2, <2>4 DEF ReadAsSent
    <3> QED BY <2>2, <2>3, <3>1
  <2> QED BY <2>1, <2>4 DEF ReadAsSent, QuietKeys
<1>4. CASE IoReset
  <2>1. phase' = "waiting" /\ io'.keys = "sealed" /\ io'.misread = {}
    BY <1>4, IdleMarks DEF IoReset
  <2> QED BY <2>1 DEF ReadAsSent, QuietKeys
<1>5. CASE UNCHANGED ioVars
  <2>1. io' = io /\ phase' = phase /\ command' = command
    BY <1>5 DEF ioVars
  <2> QED BY <2>1 DEF ReadAsSent, QuietKeys
<1> QED BY <1>1, <1>2, <1>3, <1>4, <1>5 DEF Next

\* What a handler takes for a field of a whole command is this field, also where it uses it
\* after the discard; but for those behind the placeholder of the spend key, which are read
\* 32 bytes early in a transaction (electroneum_io.c:276-284).
THEOREM FieldsAreRead == Spec => []ReadAsSent
<1>1. Init => IoInv /\ FreshInv /\ ReadAsSent /\ QuietKeys
  <2> SUFFICES ASSUME Init PROVE IoInv /\ FreshInv /\ ReadAsSent /\ QuietKeys
    OBVIOUS
  <2>1. phase = "waiting" /\ io.keys = "sealed" /\ io.misread = {}
    BY IdleMarks DEF Init
  <2> QED BY <2>1, IoInit DEF FreshInv, ReadAsSent, QuietKeys
<1>2. IoInv /\ FreshInv /\ ReadAsSent /\ QuietKeys /\ [Next]_ioVars => (IoInv /\ FreshInv /\ ReadAsSent /\ QuietKeys)'
  BY IoStep, FreshStep, ReadStep
<1> QED BY <1>1, <1>2, PTL DEF Spec

-----------------------------------------------------------------------------
(***************************************************************************)
(* What the screen shows of an amount                                      *)
(***************************************************************************)
\* An amount with n digits, and the 21 characters it is taken apart to.
IsAmount(a, n) == a \in Seq(0 .. 9) /\ n = Len(a) /\ n <= 20 /\ (n >= 1 => a[1] # 0)
IsText(t, a) == t = stramount(a)

\* The digits of an amount as the code takes it apart: 20 of them, with zeros in front.
DigitAt(a, n, i) == IF i > 20 - n THEN a[i - 20 + n] ELSE 0

LEMMA MinOf ==
  ASSUME NEW S \in SUBSET Int, NEW m \in S, \A x \in S : m <= x
  PROVE  Min(S) = m
<1>1. \E y \in S : \A x \in S : y <= x
  OBVIOUS
<1>2. Min(S) \in S /\ \A x \in S : Min(S) <= x
  BY <1>1 DEF Min
<1>3. Min(S) <= m /\ m <= Min(S) /\ Min(S) \in Int /\ m \in Int
  BY <1>2
<1> QED BY <1>3

LEMMA MaxOf ==
  ASSUME NEW S \in SUBSET Int, NEW m \in S, \A x \in S : x <= m
  PROVE  Max(S) = m
<1>1. \E y \in S : \A x \in S : y >= x
  OBVIOUS
<1>2. Max(S) \in S /\ \A x \in S : Max(S) >= x
  BY <1>1 DEF Max
<1>3. Max(S) <= m /\ m <= Max(S) /\ Max(S) \in Int /\ m \in Int
  BY <1>2
<1> QED BY <1>3

LEMMA ElementsOf ==
  ASSUME NEW S, NEW s \in Seq(S)
  PROVE  Len(s) \in Nat /\ \A k \in 1 .. Len(s) : s[k] \in S
OBVIOUS

LEMMA DigitsOf ==
  ASSUME NEW a, NEW n, IsAmount(a, n)
  PROVE  /\ n \in 0 .. 20
         /\ \A i \in 1 .. 20 : DigitAt(a, n, i) \in 0 .. 9
         /\ \A i \in 1 .. 20 : i <= 20 - n => DigitAt(a, n, i) = 0
         /\ \A k \in 1 .. n : DigitAt(a, n, 20 - n + k) = a[k]
         /\ n >= 1 => DigitAt(a, n, 21 - n) # 0
<1>1. n \in Nat /\ \A k \in 1 .. n : a[k] \in 0 .. 9
  BY ElementsOf, Zenon DEF IsAmount
<1>2. n \in 0 .. 20
  <2>1. n <= 20
    BY DEF IsAmount
  <2>2. n \in Nat
    BY <1>1
  <2> QED BY <2>1, <2>2
<1>3. ASSUME NEW i \in 1 .. 20, i <= 20 - n
      PROVE  DigitAt(a, n, i) = 0
  <2>1. ~(i > 20 - n)
    BY <1>2, <1>3
  <2> QED BY <2>1, Zenon DEF DigitAt
<1>4. ASSUME NEW k \in 1 .. n
      PROVE  DigitAt(a, n, 20 - n + k) = a[k]
  <2> DEFINE i == 20 - n + k
  <2>1. i > 20 - n /\ i - 20 + n = k
    BY <1>2
  <2> HIDE DEF i
  <2>2. DigitAt(a, n, i) = a[i - 20 + n]
    BY <2>1, Zenon DEF DigitAt
  <2>3. DigitAt(a, n, i) = a[k]
    BY <2>1, <2>2
  <2> QED BY <2>3 DEF i
<1>5. ASSUME NEW i \in 1 .. 20
      PROVE  DigitAt(a, n, i) \in 0 .. 9
  <2>1. CASE i <= 20 - n
    <3>1. DigitAt(a, n, i) = 0
      BY <1>3, <2>1
    <3> QED BY <3>1
  <2>2. CASE i > 20 - n
    <3>1. i - 20 + n \in 1 .. n
      BY <1>2, <2>2
    <3> QED BY <1>1, <2>2, <3>1, Zenon DEF DigitAt
  <2> QED BY <1>2, <2>1, <2>2
<1>6. ASSUME n >= 1
      PROVE  DigitAt(a, n, 21 - n) # 0
  <2>1. 1 \in 1 .. n /\ 20 - n + 1 = 21 - n
    BY <1>2, <1>6
  <2>2. DigitAt(a, n, 20 - n + 1) = a[1]
    BY <1>4, <2>1
  <2>3. a[1] # 0
    BY <1>6, Zenon DEF IsAmount
  <2> QED BY <2>1, <2>2, <2>3
<1> QED BY <1>2, <1>3, <1>4, <1>5, <1>6

LEMMA TextOf ==
  ASSUME NEW a, NEW n, IsAmount(a, n), NEW t, IsText(t, a)
  PROVE  /\ DOMAIN t = 1 .. 21
         /\ \A i \in 1 .. 18 : t[i] = DigitAt(a, n, i)
         /\ t[19] = Dot /\ t[20] = DigitAt(a, n, 19) /\ t[21] = DigitAt(a, n, 20)
<1> DEFINE digit(i) == DigitAt(a, n, i)
<1>1. t = [i \in 1 .. 21 |-> CASE i <= 18 -> digit(i) [] i = 19 -> Dot [] OTHER -> digit(i - 1)]
  <2>1. n = Len(a)
    BY Zenon DEF IsAmount
  <2>2. t = [i \in 1 .. 21 |-> CASE i <= 18 -> DigitAt(a, Len(a), i) [] i = 19 -> Dot [] OTHER -> DigitAt(a, Len(a), i - 1)]
    BY Zenon DEF IsText, stramount, DigitAt
  <2> QED BY <2>1, <2>2
<1>2. \A i : digit(i) = DigitAt(a, n, i)
  OBVIOUS
<1> HIDE DEF digit
<1>3. \A i \in 1 .. 21 : t[i] = CASE i <= 18 -> digit(i) [] i = 19 -> Dot [] OTHER -> digit(i - 1)
  BY <1>1
<1>4. \A i \in 1 .. 18 : t[i] = digit(i)
  BY <1>3
<1>5. t[19] = Dot
  BY <1>3
<1>6. t[20] = digit(19) /\ t[21] = digit(20)
  BY <1>3
<1>7. DOMAIN t = 1 .. 21
  BY <1>1
<1> QED BY <1>2, <1>4, <1>5, <1>6, <1>7

\* Where the text of an amount begins and ends.
Shows(t, n, first, last) ==
  /\ first = IF n >= 3 THEN 21 - n ELSE 18
  /\ last \in {18, 20, 21}
  /\ last < 21 => t[21] = 0
  /\ last < 20 => t[20] = 0

IsPart(text, t, first, last) == text = SubSeq(t, first, last)

LEMMA TrimmedText ==
  ASSUME NEW a, NEW n, IsAmount(a, n), n >= 1, NEW t, IsText(t, a)
  PROVE  \E first, last \in Int : Shows(t, n, first, last) /\ Trimmed(t) = SubSeq(t, first, last)
<1> DEFINE shown == {i \in DOMAIN t : t[i] # 0}
           first == IF t[Min(shown)] = Dot THEN Min(shown) - 1 ELSE Min(shown)
           last == IF t[Max(shown)] = Dot THEN Max(shown) - 1 ELSE Max(shown)
<1>1. Trimmed(t) = SubSeq(t, first, last)
  BY Zenon DEF Trimmed
<1>2. /\ n \in 1 .. 20
      /\ \A i \in 1 .. 20 : DigitAt(a, n, i) \in 0 .. 9
      /\ \A i \in 1 .. 20 : i <= 20 - n => DigitAt(a, n, i) = 0
      /\ DigitAt(a, n, 21 - n) # 0
  BY DigitsOf
<1>3. /\ DOMAIN t = 1 .. 21
      /\ \A i \in 1 .. 18 : t[i] = DigitAt(a, n, i)
      /\ t[19] = Dot /\ t[20] = DigitAt(a, n, 19) /\ t[21] = DigitAt(a, n, 20)
  BY TextOf
<1>4. Dot = 10
  BY DEF Dot
<1>5. shown \in SUBSET Int /\ 19 \in shown /\ \A i \in shown : i \in 1 .. 21
  BY <1>3, <1>4
<1>6. first = (IF n >= 3 THEN 21 - n ELSE 18)
  <2>1. CASE n >= 3
    <3>1. 21 - n \in 1 .. 18 /\ 21 - n \in 1 .. 20
      <4>1. n \in 1 .. 20
        BY <1>2
      <4> QED BY <2>1, <4>1
    <3>2. t[21 - n] # 0 /\ t[21 - n] # Dot
      <4> DEFINE m == 21 - n
      <4>1. m \in 1 .. 18 /\ m \in 1 .. 20 /\ DigitAt(a, n, m) # 0
        BY <1>2, <3>1
      <4> HIDE DEF m
      <4>2. t[m] = DigitAt(a, n, m) /\ DigitAt(a, n, m) \in 0 .. 9
        BY <1>2, <1>3, <4>1
      <4>3. t[m] # 0 /\ t[m] # Dot
        BY <1>4, <4>1, <4>2
      <4> QED BY <4>3 DEF m
    <3>3. 21 - n \in shown
      BY <1>3, <3>1, <3>2
    <3>4. \A i \in shown : 21 - n <= i
      <4> SUFFICES ASSUME NEW i \in shown, i < 21 - n PROVE FALSE
        BY <1>2, <1>5
      <4>1. i \in 1 .. 18 /\ i \in 1 .. 20 /\ i <= 20 - n
        <5>1. n \in 1 .. 20 /\ i \in 1 .. 21
          BY <1>2, <1>5
        <5> HIDE DEF shown
        <5> QED BY <2>1, <5>1
      <4>2. t[i] = 0
        BY <1>2, <1>3, <4>1
      <4> QED BY <4>2
    <3> HIDE DEF shown
    <3>5. Min(shown) = 21 - n
      BY <1>5, <3>3, <3>4, MinOf
    <3> QED BY <2>1, <3>2, <3>5
  <2>2. CASE n < 3
    <3>1. \A i \in shown : 19 <= i
      <4> SUFFICES ASSUME NEW i \in shown, i < 19 PROVE FALSE
        BY <1>5
      <4>1. i \in 1 .. 18 /\ i \in 1 .. 20 /\ i <= 20 - n
        <5>1. n \in 1 .. 20 /\ i \in 1 .. 21
          BY <1>2, <1>5
        <5> HIDE DEF shown
        <5> QED BY <2>2, <5>1
      <4>2. t[i] = 0
        BY <1>2, <1>3, <4>1
      <4> QED BY <4>2
    <3> HIDE DEF shown
    <3>2. Min(shown) = 19
      BY <1>5, <3>1, MinOf
    <3> QED BY <1>2, <1>3, <2>2, <3>2
  <2> QED BY <1>2, <2>1, <2>2
<1>7. last \in {18, 20, 21} /\ (last < 21 => t[21] = 0) /\ (last < 20 => t[20] = 0)
  <2>1. t[20] \in 0 .. 9 /\ t[21] \in 0 .. 9
    BY <1>2, <1>3
  <2>2. CASE t[21] # 0
    <3>1. 21 \in shown /\ \A i \in shown : i <= 21
      BY <1>3, <2>2
    <3> HIDE DEF shown
    <3>2. Max(shown) = 21
      BY <1>5, <3>1, MaxOf
    <3>3. last = 21
      BY <1>4, <2>1, <3>2
    <3> HIDE DEF last
    <3> QED BY <3>3
  <2>3. CASE t[21] = 0 /\ t[20] # 0
    <3>1. 20 \in shown /\ \A i \in shown : i <= 20
      <4>1. \A i \in shown : i # 21
        BY <2>3
      <4>2. 20 \in shown
        BY <1>3, <2>3
      <4> QED BY <1>5, <4>1, <4>2
    <3> HIDE DEF shown
    <3>2. Max(shown) = 20
      BY <1>5, <3>1, MaxOf
    <3>3. last = 20
      BY <1>4, <2>1, <3>2
    <3> HIDE DEF last
    <3> QED BY <2>3, <3>3
  <2>4. CASE t[21] = 0 /\ t[20] = 0
    <3>1. \A i \in shown : i <= 19
      <4>1. \A i \in shown : i # 21 /\ i # 20
        BY <2>4
      <4> QED BY <1>5, <4>1
    <3> HIDE DEF shown
    <3>2. Max(shown) = 19
      BY <1>5, <3>1, MaxOf
    <3>3. last = 18
      BY <1>3, <3>2
    <3> HIDE DEF last
    <3> QED BY <2>4, <3>3
  <2> QED BY <2>2, <2>3, <2>4
<1> HIDE DEF first, last
<1>8. first \in Int /\ last \in Int
  BY <1>2, <1>6, <1>7
<1> QED BY <1>1, <1>6, <1>7, <1>8 DEF Shows

LEMMA FirstDot ==
  ASSUME NEW s, Len(s) \in Nat, NEW m \in 1 .. Len(s), s[m] = Dot, \A i \in 1 .. m - 1 : s[i] # Dot
  PROVE  SelectInSeq(s, LAMBDA x : x = Dot) = m
<1> DEFINE I == {i \in 1 .. Len(s) : s[i] = Dot}
<1>1. SelectInSeq(s, LAMBDA x : x = Dot) = IF I # {} THEN Min(I) ELSE 0
  BY Zenon DEF SelectInSeq
<1>2. I \in SUBSET Int /\ m \in I /\ \A i \in I : m <= i
  <2>1. \A i \in 1 .. Len(s) : ~(m <= i) => i \in 1 .. m - 1
    OBVIOUS
  <2> QED BY <2>1
<1> HIDE DEF I
<1>3. Min(I) = m
  BY <1>2, MinOf
<1> QED BY <1>1, <1>2, <1>3

LEMMA FirstDigit ==
  ASSUME NEW s, Len(s) \in Nat, NEW m \in 1 .. Len(s), s[m] # 0, \A i \in 1 .. m - 1 : s[i] = 0
  PROVE  SelectInSeq(s, LAMBDA x : x # 0) = m
<1> DEFINE I == {i \in 1 .. Len(s) : s[i] # 0}
<1>1. SelectInSeq(s, LAMBDA x : x # 0) = IF I # {} THEN Min(I) ELSE 0
  BY Zenon DEF SelectInSeq
<1>2. I \in SUBSET Int /\ m \in I /\ \A i \in I : m <= i
  <2>1. \A i \in 1 .. Len(s) : ~(m <= i) => i \in 1 .. m - 1
    OBVIOUS
  <2> QED BY <2>1
<1> HIDE DEF I
<1>3. Min(I) = m
  BY <1>2, MinOf
<1> QED BY <1>1, <1>2, <1>3

LEMMA CutText ==
  ASSUME NEW S, NEW s \in Seq(S), NEW k \in Nat
  PROVE  Len(Cut(s, k)) <= k /\ (Len(s) <= k => Cut(s, k) = s)
<1>1. Len(s) \in Nat /\ {Len(s), k} \in SUBSET Int
  OBVIOUS
<1>2. CASE Len(s) <= k
  <2>1. Min({Len(s), k}) = Len(s)
    <3>1. Len(s) \in {Len(s), k} /\ \A x \in {Len(s), k} : Len(s) <= x
      BY <1>1, <1>2
    <3> QED BY <1>1, <3>1, MinOf
  <2>2. SubSeq(s, 1, Len(s)) = s
    OBVIOUS
  <2> QED BY <1>2, <2>1, <2>2 DEF Cut
<1>3. CASE k < Len(s)
  <2>1. Min({Len(s), k}) = k
    <3>1. k \in {Len(s), k} /\ \A x \in {Len(s), k} : k <= x
      BY <1>1, <1>3
    <3> QED BY <1>1, <3>1, MinOf
  <2>2. Len(SubSeq(s, 1, k)) = k
    BY <1>3
  <2> QED BY <1>1, <1>3, <2>1, <2>2 DEF Cut
<1> QED BY <1>1, <1>2, <1>3

\* What is known of a part of a sequence, and of two that are joined.
Part(S, s, first, last, part) ==
  /\ part \in Seq(S) /\ Len(part) = last - first + 1
  /\ \A j \in 1 .. last - first + 1 : part[j] = s[first + j - 1]

Joins(S, s, t, both) ==
  /\ both \in Seq(S) /\ Len(both) = Len(s) + Len(t)
  /\ \A j \in 1 .. Len(s) : both[j] = s[j]
  /\ \A j \in 1 .. Len(t) : both[Len(s) + j] = t[j]

LEMMA PartOf ==
  ASSUME NEW S, NEW s \in Seq(S), NEW first \in Int, NEW last \in Int, 1 <= first, first <= last + 1, last <= Len(s)
  PROVE  Part(S, s, first, last, SubSeq(s, first, last))
BY DEF Part

LEMMA JoinOf ==
  ASSUME NEW S, NEW s \in Seq(S), NEW t \in Seq(S)
  PROVE  Joins(S, s, t, s \o t)
BY DEF Joins

LEMMA ZerosOf ==
  ASSUME NEW n \in Nat, NEW z, z = [i \in 1 .. n |-> 0]
  PROVE  z \in Seq(0 .. 10) /\ Len(z) = n /\ \A i \in 1 .. n : z[i] = 0
OBVIOUS

LEMMA SubText ==
  ASSUME NEW a, NEW n, IsAmount(a, n), n \in 1 .. 20, NEW t, IsText(t, a),
         NEW first \in Int, NEW last \in Int, Shows(t, n, first, last),
         NEW text, IsPart(text, t, first, last)
  PROVE  Part(0 .. 10, t, first, last, text)
<1>1. /\ DOMAIN t = 1 .. 21
      /\ \A i \in 1 .. 18 : t[i] = DigitAt(a, n, i)
      /\ t[19] = Dot /\ t[20] = DigitAt(a, n, 19) /\ t[21] = DigitAt(a, n, 20)
  BY TextOf
<1>2. \A i \in 1 .. 20 : DigitAt(a, n, i) \in 0 .. 9
  BY DigitsOf
<1>3. \A i \in 1 .. 21 : t[i] \in 0 .. 10
  <2>1. \A i \in 1 .. 21 : i \in 1 .. 18 \/ i = 19 \/ i = 20 \/ i = 21
    OBVIOUS
  <2>2. \A x \in 0 .. 9 : x \in 0 .. 10
    OBVIOUS
  <2>3. \A i \in 1 .. 18 : i \in 1 .. 20
    OBVIOUS
  <2>4. \A i \in 1 .. 18 : t[i] \in 0 .. 10
    BY <1>1, <1>2, <2>2, <2>3, Zenon
  <2>5. t[19] \in 0 .. 10
    BY <1>1 DEF Dot
  <2>6. 19 \in 1 .. 20 /\ 20 \in 1 .. 20
    OBVIOUS
  <2>7. t[20] \in 0 .. 10 /\ t[21] \in 0 .. 10
    BY <1>1, <1>2, <2>2, <2>6, Zenon
  <2> QED BY <2>1, <2>4, <2>5, <2>7
<1>4. t = [i \in 1 .. 21 |-> t[i]]
  BY <1>1, Zenon DEF IsText, stramount
<1>5. t \in Seq(0 .. 10) /\ Len(t) = 21
  BY <1>3, <1>4
<1>6. first \in 1 .. 18 /\ last \in 18 .. 21
  <2>1. first = (IF n >= 3 THEN 21 - n ELSE 18) /\ last \in {18, 20, 21}
    BY DEF Shows
  <2> QED BY <2>1
<1>7. 1 <= first /\ first <= last + 1 /\ last <= Len(t)
  <2>1. Len(t) = 21
    BY <1>5
  <2> QED BY <1>6, <2>1
<1>8. Part(0 .. 10, t, first, last, SubSeq(t, first, last))
  BY <1>5, <1>7, PartOf
<1> QED BY <1>8, Zenon DEF IsPart

LEMMA EmptyOf ==
  ASSUME NEW z, z = << >>
  PROVE  z \in Seq(0 .. 10) /\ Len(z) = 0
OBVIOUS

LEMMA ReadText ==
  ASSUME NEW a, NEW n, IsAmount(a, n), n \in 1 .. 20, NEW t, IsText(t, a),
         NEW first \in Int, NEW last \in Int, Shows(t, n, first, last),
         NEW text, IsPart(text, t, first, last)
  PROVE  InUnits(text) = a
<1>a. PICK l : l = Len(text)
  OBVIOUS
<1>b. PICK w : w = 19 - first
  OBVIOUS
<1>c. PICK whole : whole = SubSeq(text, 1, w)
  OBVIOUS
<1>d. PICK cents : cents = SubSeq(text, w + 2, l)
  OBVIOUS
<1>e. PICK c : c = Len(cents)
  OBVIOUS
<1>f. PICK zeros : zeros = [i \in 1 .. 2 - c |-> 0]
  OBVIOUS
<1>g. PICK head : head = whole \o cents
  OBVIOUS
<1>h. PICK digits : digits = head \o zeros
  OBVIOUS
<1>i. PICK dotted : dotted = text \o << Dot >>
  OBVIOUS
<1>j. PICK b : b = 22 - n - first
  OBVIOUS
<1>1. /\ text \in Seq(0 .. 10) /\ l = last - first + 1
      /\ \A j \in 1 .. l : text[j] = t[first + j - 1]
  <2>1. Part(0 .. 10, t, first, last, text)
    BY SubText
  <2> QED BY <1>a, <2>1 DEF Part
<1>2. /\ \A i \in 1 .. 18 : t[i] = DigitAt(a, n, i)
      /\ t[19] = Dot /\ t[20] = DigitAt(a, n, 19) /\ t[21] = DigitAt(a, n, 20)
  BY TextOf
<1>3. /\ \A i \in 1 .. 20 : DigitAt(a, n, i) \in 0 .. 9
      /\ \A i \in 1 .. 20 : i <= 20 - n => DigitAt(a, n, i) = 0
      /\ \A k \in 1 .. n : DigitAt(a, n, 20 - n + k) = a[k]
      /\ DigitAt(a, n, 21 - n) # 0
  <2>1. n >= 1
    OBVIOUS
  <2> QED BY <2>1, DigitsOf, Zenon
<1>4. /\ first \in 1 .. 18 /\ last \in {18, 20, 21}
      /\ n >= 3 => first = 21 - n
      /\ n < 3 => first = 18
  <2>1. first = (IF n >= 3 THEN 21 - n ELSE 18) /\ last \in {18, 20, 21}
    BY DEF Shows
  <2> QED BY <2>1
<1>5. w \in 1 .. 18 /\ l \in Nat /\ w <= l /\ w \in Nat /\ (last = 18 => l = w) /\ (last # 18 => l = w + (last - 18))
  <2>1. l = last - first + 1
    BY <1>1
  <2> QED BY <1>4, <1>b, <2>1
<1>6. SelectInSeq(dotted, LAMBDA x : x = Dot) = w + 1
  <2>1. Len(dotted) = l + 1 /\ dotted[l + 1] = Dot /\ \A j \in 1 .. l : dotted[j] = text[j]
    BY <1>1, <1>a, <1>i
  <2>2. \A j \in 1 .. w : dotted[j] # Dot
    <3> SUFFICES ASSUME NEW j \in 1 .. w PROVE dotted[j] # Dot
      OBVIOUS
    <3>1. j \in 1 .. l /\ first + j - 1 \in 1 .. 18 /\ first + j - 1 \in 1 .. 20
      BY <1>4, <1>5, <1>b
    <3>2. dotted[j] = DigitAt(a, n, first + j - 1)
      BY <1>1, <1>2, <2>1, <3>1
    <3>3. dotted[j] \in 0 .. 9
      BY <1>3, <3>1, <3>2
    <3>4. \A x \in 0 .. 9 : x # Dot
      BY DEF Dot
    <3> QED BY <3>3, <3>4, Zenon
  <2>3. dotted[w + 1] = Dot
    <3>1. CASE last = 18
      BY <1>5, <2>1, <3>1
    <3>2. CASE last # 18
      <4>1. w + 1 \in 1 .. l /\ first + (w + 1) - 1 = 19
        BY <1>4, <1>5, <1>b, <3>2
      <4> QED BY <1>1, <1>2, <2>1, <4>1
    <3> QED BY <3>1, <3>2
  <2>4. w + 1 \in 1 .. Len(dotted) /\ Len(dotted) \in Nat /\ (w + 1) - 1 = w
    BY <1>5, <2>1
  <2> QED BY <2>2, <2>3, <2>4, FirstDot
<1>7. /\ cents \in Seq(0 .. 10) /\ c = (IF last = 18 THEN 0 ELSE last - 19)
      /\ \A k \in 1 .. c : cents[k] = t[19 + k]
  <2>1. CASE last = 18
    <3>1. cents = << >>
      BY <1>1, <1>5, <1>a, <1>d, <2>1
    <3>2. c = 0 /\ cents \in Seq(0 .. 10)
      BY <1>e, <3>1, EmptyOf
    <3> QED BY <2>1, <3>2
  <2>2. CASE last # 18
    <3>1. /\ w + 2 \in Int /\ l \in Int /\ 1 <= w + 2 /\ w + 2 <= l + 1 /\ l <= Len(text)
          /\ l - (w + 2) + 1 = last - 19
      BY <1>4, <1>5, <1>a, <2>2
    <3>2. cents \in Seq(0 .. 10) /\ c = last - 19 /\ \A k \in 1 .. last - 19 : cents[k] = text[w + 2 + k - 1]
      <4>1. text \in Seq(0 .. 10)
        BY <1>1
      <4>2. Part(0 .. 10, text, w + 2, l, cents)
        BY <1>d, <3>1, <4>1, PartOf
      <4>3. /\ cents \in Seq(0 .. 10) /\ Len(cents) = l - (w + 2) + 1
            /\ \A k \in 1 .. l - (w + 2) + 1 : cents[k] = text[w + 2 + k - 1]
        BY <4>2, Zenon DEF Part
      <4> QED BY <1>e, <3>1, <4>3
    <3>3. \A k \in 1 .. last - 19 : w + 2 + k - 1 \in 1 .. l /\ first + (w + 2 + k - 1) - 1 = 19 + k
      BY <1>4, <1>5, <1>b, <3>1
    <3>4. \A k \in 1 .. last - 19 : cents[k] = t[19 + k]
      BY <1>1, <3>2, <3>3
    <3> QED BY <2>2, <3>2, <3>4
  <2> QED BY <2>1, <2>2
<1>8. /\ digits \in Seq(0 .. 10) /\ Len(digits) = w + 2
      /\ \A j \in 1 .. w : digits[j] = t[first + j - 1]
      /\ digits[w + 1] = t[20] /\ digits[w + 2] = t[21]
  <2>1. whole \in Seq(0 .. 10) /\ Len(whole) = w /\ \A j \in 1 .. w : whole[j] = text[j]
    <3>1. w \in Int /\ 1 \in Int /\ 1 <= w + 1 /\ 1 <= 1 /\ w <= Len(text) /\ w - 1 + 1 = w
      BY <1>5, <1>a
    <3>2. text \in Seq(0 .. 10)
      BY <1>1
    <3>3. Part(0 .. 10, text, 1, w, whole)
      BY <1>c, <3>1, <3>2, PartOf
    <3> QED BY <3>1, <3>3 DEF Part
  <2>2. c \in 0 .. 2 /\ (last = 18 => c = 0) /\ (last = 20 => c = 1) /\ (last = 21 => c = 2)
    BY <1>4, <1>7
  <2>3. zeros \in Seq(0 .. 10) /\ Len(zeros) = 2 - c /\ \A i \in 1 .. 2 - c : zeros[i] = 0
    <3>1. 2 - c \in Nat
      BY <2>2
    <3> QED BY <1>f, <3>1, ZerosOf
  <2>4. \A j \in 1 .. w : whole[j] = t[first + j - 1]
    <3>1. \A j \in 1 .. w : j \in 1 .. l
      BY <1>5
    <3> QED BY <1>1, <2>1, <3>1
  <2>5. /\ digits \in Seq(0 .. 10) /\ Len(digits) = w + 2
        /\ \A j \in 1 .. w : digits[j] = whole[j]
        /\ \A k \in 1 .. c : digits[w + k] = cents[k]
        /\ \A k \in 1 .. 2 - c : digits[w + c + k] = 0
    <3>1. cents \in Seq(0 .. 10) /\ c = Len(cents)
      BY <1>7, <1>e
    <3>2. /\ head \in Seq(0 .. 10) /\ Len(head) = w + c
          /\ \A j \in 1 .. w : head[j] = whole[j]
          /\ \A j \in 1 .. c : head[w + j] = cents[j]
      <4>1. whole \in Seq(0 .. 10) /\ w = Len(whole)
        BY <2>1
      <4>2. Joins(0 .. 10, whole, cents, head)
        BY <1>g, <3>1, <4>1, JoinOf
      <4> QED BY <3>1, <4>1, <4>2 DEF Joins
    <3>3. PICK m, z : m = w + c /\ z = 2 - c
      OBVIOUS
    <3>4. /\ digits \in Seq(0 .. 10) /\ Len(digits) = m + z
          /\ \A j \in 1 .. m : digits[j] = head[j]
          /\ \A j \in 1 .. z : digits[m + j] = zeros[j]
      <4>1. head \in Seq(0 .. 10) /\ m = Len(head) /\ zeros \in Seq(0 .. 10) /\ z = Len(zeros)
        BY <2>3, <3>2, <3>3
      <4>2. Joins(0 .. 10, head, zeros, digits)
        BY <1>h, <4>1, JoinOf
      <4> QED BY <4>1, <4>2 DEF Joins
    <3>5. w \in Nat /\ c \in Nat /\ m + z = w + 2
      BY <1>5, <2>2, <3>3
    <3>6. \A j \in 1 .. w : j \in 1 .. m
      BY <3>3, <3>5
    <3>7. \A k \in 1 .. c : w + k \in 1 .. m
      BY <3>3, <3>5
    <3> QED BY <2>3, <3>2, <3>3, <3>4, <3>5, <3>6, <3>7
  <2>6. digits[w + 1] = t[20] /\ digits[w + 2] = t[21]
    <3>1. CASE last = 21
      <4>1. c = 2 /\ 1 \in 1 .. c /\ 2 \in 1 .. c
        BY <2>2, <3>1
      <4> QED BY <1>7, <2>5, <4>1
    <3>2. CASE last = 20
      <4>1. c = 1 /\ 1 \in 1 .. c /\ 1 \in 1 .. 2 - c /\ w + c + 1 = w + 2
        BY <1>5, <2>2, <3>2
      <4>2. t[21] = 0
        BY <3>2 DEF Shows
      <4>3. digits[w + 2] = 0
        BY <2>5, <4>1
      <4>4. digits[w + 1] = t[20]
        BY <1>7, <2>5, <4>1
      <4> QED BY <4>2, <4>3, <4>4
    <3>3. CASE last = 18
      <4>1. c = 0 /\ 1 \in 1 .. 2 - c /\ 2 \in 1 .. 2 - c /\ w + c + 1 = w + 1 /\ w + c + 2 = w + 2
        BY <1>5, <2>2, <3>3
      <4>2. t[21] = 0 /\ t[20] = 0
        BY <3>3 DEF Shows
      <4>3. digits[w + 1] = 0 /\ digits[w + 2] = 0
        BY <2>5, <4>1
      <4> QED BY <4>2, <4>3
    <3> QED BY <1>4, <3>1, <3>2, <3>3
  <2> QED BY <2>4, <2>5, <2>6
<1>9. \A j \in 1 .. w + 2 : digits[j] = DigitAt(a, n, first + j - 1)
  <2> SUFFICES ASSUME NEW j \in 1 .. w + 2 PROVE digits[j] = DigitAt(a, n, first + j - 1)
    OBVIOUS
  <2>1. CASE j \in 1 .. w
    <3>1. first + j - 1 \in 1 .. 18
      BY <1>4, <1>b, <2>1
    <3> QED BY <1>2, <1>8, <2>1, <3>1
  <2>2. CASE j = w + 1
    <3>1. first + j - 1 = 19
      BY <1>4, <1>b, <2>2
    <3>2. digits[j] = DigitAt(a, n, 19)
      BY <1>2, <1>8, <2>2
    <3> QED BY <3>1, <3>2
  <2>3. CASE j = w + 2
    <3>1. first + j - 1 = 20
      BY <1>4, <1>b, <2>3
    <3>2. digits[j] = DigitAt(a, n, 20)
      BY <1>2, <1>8, <2>3
    <3> QED BY <3>1, <3>2
  <2> QED BY <1>5, <2>1, <2>2, <2>3
<1>10. /\ b \in 1 .. w + 2 /\ first + b - 1 = 21 - n /\ w + 2 - b + 1 = n /\ b \in Int /\ b # 0
       /\ \A j \in 1 .. b - 1 : first + j - 1 \in 1 .. 20 /\ first + j - 1 <= 20 - n /\ j \in 1 .. w + 2
       /\ \A k \in 1 .. n : b + k - 1 \in 1 .. w + 2 /\ first + (b + k - 1) - 1 = 20 - n + k
  BY <1>4, <1>b, <1>j
<1>11. SelectInSeq(digits, LAMBDA x : x # 0) = b
  <2>1. digits[b] # 0
    BY <1>3, <1>9, <1>10
  <2>2. \A j \in 1 .. b - 1 : digits[j] = 0
    BY <1>3, <1>9, <1>10
  <2>3. Len(digits) \in Nat /\ b \in 1 .. Len(digits)
    BY <1>5, <1>8, <1>10
  <2> QED BY <2>1, <2>2, <2>3, FirstDigit
<1>12. SubSeq(digits, b, Len(digits)) = a
  <2>1. PICK v, s : v = Len(digits) /\ s = SubSeq(digits, b, v)
    OBVIOUS
  <2>2. v \in Int /\ 1 <= b /\ b <= v + 1 /\ v <= Len(digits) /\ v - b + 1 = n /\ digits \in Seq(0 .. 10) /\ b \in Int
    BY <1>5, <1>8, <1>10, <2>1
  <2>3. /\ s \in Seq(0 .. 10) /\ Len(s) = v - b + 1
        /\ \A k \in 1 .. v - b + 1 : s[k] = digits[b + k - 1]
    <3>1. Part(0 .. 10, digits, b, v, s)
      BY <2>1, <2>2, PartOf
    <3> QED BY <3>1, Zenon DEF Part
  <2>4. \A k \in 1 .. n : digits[b + k - 1] = a[k]
    BY <1>3, <1>9, <1>10
  <2>5. Len(s) = n /\ \A k \in 1 .. n : s[k] = a[k]
    BY <2>2, <2>3, <2>4
  <2>6. a \in Seq(0 .. 9) /\ Len(a) = n
    BY DEF IsAmount
  <2>7. s = a
    BY <2>3, <2>5, <2>6
  <2> QED BY <2>1, <2>7
<1>13. (w + 1) - 1 = w
  BY <1>5
<1>14. InUnits(text) = IF b = 0 THEN << >> ELSE SubSeq(digits, b, Len(digits))
  <2>1. SelectInSeq(text \o << Dot >>, LAMBDA x : x = Dot) - 1 = w
    BY <1>6, <1>13, <1>i
  <2> DEFINE whole_ == SelectInSeq(text \o << Dot >>, LAMBDA x : x = Dot) - 1
             cents_ == SubSeq(text, whole_ + 2, Len(text))
             digits_ == SubSeq(text, 1, whole_) \o cents_ \o [i \in 1 .. 2 - Len(cents_) |-> 0]
  <2>2. cents_ = cents
    BY <1>a, <1>d, <2>1
  <2>3. SubSeq(text, 1, whole_) = whole
    BY <1>c, <2>1
  <2>4. [i \in 1 .. 2 - Len(cents_) |-> 0] = zeros
    BY <1>e, <1>f, <2>2
  <2>5. digits_ = digits
    BY <1>g, <1>h, <2>2, <2>3, <2>4
  <2>6. InUnits(text) = IF SelectInSeq(digits_, LAMBDA x : x # 0) = 0 THEN << >>
                        ELSE SubSeq(digits_, SelectInSeq(digits_, LAMBDA x : x # 0), Len(digits_))
    BY Zenon DEF InUnits
  <2> HIDE DEF digits_
  <2> QED BY <1>11, <2>5, <2>6
<1> QED BY <1>10, <1>12, <1>14

IsNothing(s) == s = << >>

LEMMA NothingOf ==
  ASSUME NEW S, NEW s \in Seq(S), Len(s) = 0
  PROVE  IsNothing(s)
BY DEF IsNothing

LEMMA WholeOf ==
  ASSUME NEW S, NEW s \in Seq(S), NEW k, k = Len(s)
  PROVE  SubSeq(s, 1, k) = s
OBVIOUS

LEMMA ThreeZeros ==
  ASSUME NEW z, z = << 0 >> \o << >> \o << 0, 0 >>
  PROVE  Len(z) = 3 /\ z[1] = 0 /\ z[2] = 0 /\ z[3] = 0
OBVIOUS

LEMMA NoDigit ==
  ASSUME NEW s, Len(s) \in Nat, \A i \in 1 .. Len(s) : s[i] = 0
  PROVE  SelectInSeq(s, LAMBDA x : x # 0) = 0
<1> DEFINE I == {i \in 1 .. Len(s) : s[i] # 0}
<1>1. SelectInSeq(s, LAMBDA x : x # 0) = IF I # {} THEN Min(I) ELSE 0
  BY Zenon DEF SelectInSeq
<1>2. I = {}
  OBVIOUS
<1> QED BY <1>1, <1>2

\* Nothing is shown as a single 0.
LEMMA ReadNothing == InUnits(<< 0 >>) = << >>
<1>a. PICK text : text = << 0 >>
  OBVIOUS
<1>1. SelectInSeq(text \o << Dot >>, LAMBDA x : x = Dot) = 2
  <2>a. PICK s : s = text \o << Dot >>
    OBVIOUS
  <2>1. Len(s) = 2 /\ s[1] = 0 /\ s[2] = Dot
    BY <1>a, <2>a
  <2>2. Len(s) \in Nat /\ 2 \in 1 .. Len(s) /\ \A i \in 1 .. 2 - 1 : i = 1
    BY <2>1
  <2>3. \A i \in 1 .. 2 - 1 : s[i] # Dot
    BY <2>1, <2>2 DEF Dot
  <2>4. SelectInSeq(s, LAMBDA x : x = Dot) = 2
    BY <2>1, <2>2, <2>3, FirstDot
  <2> QED BY <2>a, <2>4
<1> DEFINE whole == SelectInSeq(text \o << Dot >>, LAMBDA x : x = Dot) - 1
           cents == SubSeq(text, whole + 2, Len(text))
           zeros == [i \in 1 .. 2 - Len(cents) |-> 0]
           digits == SubSeq(text, 1, whole) \o cents \o zeros
<1>2. whole = 1
  BY <1>1
<1> HIDE DEF whole
<1>3. SubSeq(text, 1, whole) = << 0 >>
  <2>1. text \in Seq(0 .. 10) /\ Len(text) = 1
    BY <1>a
  <2> QED BY <1>2, <1>a, <2>1, WholeOf
<1>4. cents = << >>
  BY <1>2, <1>a
<1>5. Len(cents) = 0
  BY <1>4, EmptyOf
<1> HIDE DEF cents
<1>6. zeros = << 0, 0 >>
  BY <1>5
<1> HIDE DEF zeros
<1>7. Len(digits) = 3 /\ digits[1] = 0 /\ digits[2] = 0 /\ digits[3] = 0
  BY <1>3, <1>4, <1>6, ThreeZeros
<1>8. InUnits(text) = IF SelectInSeq(digits, LAMBDA x : x # 0) = 0 THEN << >>
                      ELSE SubSeq(digits, SelectInSeq(digits, LAMBDA x : x # 0), Len(digits))
  BY Zenon DEF InUnits, whole, cents, zeros
<1> HIDE DEF digits
<1>9. SelectInSeq(digits, LAMBDA x : x # 0) = 0
  <2>1. Len(digits) \in Nat /\ \A i \in 1 .. Len(digits) : i = 1 \/ i = 2 \/ i = 3
    BY <1>7
  <2>2. \A i \in 1 .. Len(digits) : digits[i] = 0
    BY <1>7, <2>1
  <2> QED BY <2>1, <2>2, NoDigit
<1> QED BY <1>8, <1>9, <1>a

\* What a user reads from the screen is the amount, as far as it fits.
LEMMA AmountText ==
  ASSUME NEW a, NEW n, IsAmount(a, n), NEW text, text = amount2str(a, 15)
  PROVE  Len(text) <= 14 /\ (n <= 13 => InUnits(text) = a)
<1>1. n \in 0 .. 20
  BY DigitsOf
<1>2. CASE n = 0
  <2>1. a = << >>
    <3>1. a \in Seq(0 .. 9) /\ n = Len(a)
      BY DEF IsAmount
    <3>2. a \in Seq(0 .. 9) /\ Len(a) = 0
      BY <1>2, <3>1, Zenon
    <3>3. IsNothing(a)
      BY <3>2, NothingOf
    <3> QED BY <3>3, Zenon DEF IsNothing
  <2>2. text = << 0 >>
    BY <2>1, Zenon DEF amount2str
  <2>3. Len(text) = 1
    BY <2>2
  <2>4. Len(text) <= 14
    <3>1. \A m : m = 1 => m <= 14
      OBVIOUS
    <3> QED BY <2>3, <3>1, Zenon
  <2>5. InUnits(text) = a
    BY <2>1, <2>2, ReadNothing, Zenon
  <2> QED BY <2>4, <2>5, Zenon
<1>3. CASE n # 0
  <2>1. n \in 1 .. 20 /\ n >= 1
    BY <1>1, <1>3
  <2>2. a # << >>
    <3>1. n = Len(a)
      BY DEF IsAmount
    <3> QED BY <1>3, <3>1
  <2>3. PICK t : t = stramount(a)
    OBVIOUS
  <2>4. IsText(t, a)
    BY <2>3 DEF IsText
  <2>5. PICK first \in Int, last \in Int : Shows(t, n, first, last) /\ Trimmed(t) = SubSeq(t, first, last)
    BY <2>1, <2>4, TrimmedText
  <2>6. PICK s : s = Trimmed(t)
    OBVIOUS
  <2>7. IsPart(s, t, first, last)
    BY <2>5, <2>6, Zenon DEF IsPart
  <2>8. Part(0 .. 10, t, first, last, s)
    BY <2>1, <2>4, <2>5, <2>7, SubText
  <2>9. InUnits(s) = a
    BY <2>1, <2>4, <2>5, <2>7, ReadText
  <2>10. s \in Seq(0 .. 10) /\ Len(s) = last - first + 1
    BY <2>8, Zenon DEF Part
  <2>11. 14 \in Nat /\ 15 - 1 = 14
    OBVIOUS
  <2>12. text = Cut(s, 14)
    <3>1. text = Cut(s, 15 - 1)
      BY <2>2, <2>3, <2>6, Zenon DEF amount2str
    <3> QED BY <2>11, <3>1
  <2>13. Len(text) <= 14 /\ (Len(s) <= 14 => text = s)
    BY <2>10, <2>11, <2>12, CutText
  <2>14. ASSUME n <= 13 PROVE Len(s) <= 14
    <3>1. first = (IF n >= 3 THEN 21 - n ELSE 18) /\ last \in {18, 20, 21}
      BY <2>5 DEF Shows
    <3> QED BY <2>1, <2>10, <2>14, <3>1
  <2> QED BY <2>9, <2>13, <2>14
<1> QED BY <1>2, <1>3

-----------------------------------------------------------------------------
(***************************************************************************)
(* The amounts that are shown                                              *)
(***************************************************************************)
\* Whatever is shown are amounts, as the screen has room for them.
ShownInv == io.shown \subseteq Texts

LEMMA ReceiveShown ==
  ASSUME NEW c, NEW keys, Receive(c, keys)
  PROVE  ShownInv'
<1> DEFINE data == Data(c.calls, io.tx)
<1>1. \E cut \in Cuts : io' = Received(SubSeq(data, 1, Len(data) - cut), keys, io.tx, cut = 0)
  BY Zenon DEF Receive
<1>2. PICK cut \in Cuts : io' = Received(SubSeq(data, 1, Len(data) - cut), keys, io.tx, cut = 0)
  BY <1>1
<1> DEFINE part == SubSeq(data, 1, Len(data) - cut)
           whole == cut = 0
<1> HIDE DEF data
<1>3. io' = Received(part, keys, io.tx, whole)
  BY <1>2
<1> HIDE DEF part, whole
<1>4. io'.shown = {}
  BY <1>3, ReceivedMarks
<1> QED BY <1>4 DEF ShownInv

\* What a handler has shown until it fails are amounts too.
LEMMA ThrowsShown ==
  ASSUME IoInv, ShownInv, Throws
  PROVE  ShownInv'
<1> DEFINE a == Allowed(io)
           r == Runs(a, command.calls)
           Failed(n, error) == IF r[n].error = "none" THEN Fails(r[n], error) ELSE r[n]
<1>1. \E n \in 0 .. Len(command.calls), error \in {"none", "SW_WRONG_DATA", "exception"} :
        io' = Caught(Failed(n, error))
  BY Zenon DEF Throws
<1>2. PICK n \in 0 .. Len(command.calls), error \in {"none", "SW_WRONG_DATA", "exception"} :
        io' = Caught(Failed(n, error))
  BY <1>1, Zenon
<1>3. command \in Commands /\ DOMAIN io = Fields
  BY DEF IoInv, Typed
<1>4. DOMAIN a = Fields /\ a.shown \subseteq Texts
  <2>1. CASE a = io
    BY <1>3, <2>1 DEF ShownInv
  <2>2. CASE a = Fails(io, "SW_CONDITIONS_NOT_SATISFIED")
    <3>1. Marks(io, a)
      BY <1>3, <2>2, FailsMarks
    <3> QED BY <3>1 DEF Marks, ShownInv
  <2>3. a = io \/ a = Fails(io, "SW_CONDITIONS_NOT_SATISFIED")
    BY Zenon DEF Allowed
  <2> QED BY <2>1, <2>2, <2>3
<1> HIDE DEF a
<1>5. Stays(a, r[n])
  BY <1>2, <1>3, <1>4, RunStays
<1> DEFINE s == r[n]
           t == IF s.error = "none" THEN Fails(s, error) ELSE s
<1>6. io' = Caught(t) /\ Stays(a, s)
  BY <1>2, <1>5, Zenon
<1> HIDE DEF s
<1>7. DOMAIN s = Fields /\ s.shown \subseteq Texts
  BY <1>4, <1>6 DEF Stays
<1>8. DOMAIN t = Fields /\ t.shown \subseteq Texts
  <2>1. Marks(s, Fails(s, error))
    BY <1>7, FailsMarks
  <2>2. t = s \/ t = Fails(s, error)
    BY Zenon
  <2> QED BY <1>7, <2>1, <2>2 DEF Marks
<1> HIDE DEF t
<1>9. Marks(t, io')
  BY <1>6, <1>8, CaughtMarks
<1> QED BY <1>8, <1>9 DEF Marks, ShownInv

LEMMA ShownStep == IoInv /\ ShownInv /\ [Next]_ioVars => ShownInv'
<1> SUFFICES ASSUME IoInv, ShownInv, [Next]_ioVars PROVE ShownInv'
  OBVIOUS
<1>1. CASE \E c \in Commands : \E keys \in KeysOf(c) : Receive(c, keys)
  BY <1>1, ReceiveShown
<1>2. CASE Returns
  <2> DEFINE s == Run(Allowed(io), command.calls)
  <2>1. Stays(io, s) /\ Marks(s, io')
    BY <1>2, ReturnsMarks
  <2> HIDE DEF s
  <2> QED BY <2>1 DEF Stays, Marks, ShownInv
<1>3. CASE Throws
  BY <1>3, ThrowsShown
<1>4. CASE \/ Send
           \/ \E accept \in BOOLEAN : export_viewkey_action(accept) \/ validation_action(accept)
  <2>1. Marks(io, io')
    BY <1>4, WaitMarks
  <2> QED BY <2>1 DEF Marks, ShownInv
<1>5. CASE IoReset
  BY <1>5, IdleMarks DEF IoReset, ShownInv
<1>6. CASE UNCHANGED ioVars
  BY <1>6 DEF ioVars, ShownInv
<1> QED BY <1>1, <1>2, <1>3, <1>4, <1>5, <1>6 DEF Next, Dispatch

LEMMA AmountType ==
  ASSUME NEW a \in Amounts
  PROVE  IsAmount(a, Len(a))
<1>1. CASE a \in ScreenAmounts
  <2>1. a \in Seq(0 .. 9) /\ Len(a) <= 20 /\ (a # << >> => a[1] # 0)
    BY <1>1, AmountAssumption
  <2>2. Len(a) >= 1 => a # << >>
    OBVIOUS
  <2> QED BY <2>1, <2>2 DEF IsAmount
<1>2. CASE a = << 2, 0, 0 >>
  <2>1. a \in Seq(0 .. 9) /\ Len(a) = 3 /\ a[1] = 2
    BY <1>2
  <2> QED BY <2>1 DEF IsAmount
<1> QED BY <1>1, <1>2 DEF Amounts

LEMMA ShownAmounts == ShownInv => AmountIsShown
<1> SUFFICES ASSUME ShownInv, NEW shown \in io.shown
             PROVE  Len(shown[2]) <= 14 /\ (Len(shown[1]) <= 13 => InUnits(shown[2]) = shown[1])
  BY Zenon DEF AmountIsShown
<1>1. PICK a \in Amounts : shown = TextOfAmount(a)
  BY Zenon DEF ShownInv, Texts
<1>2. PICK n : n = Len(a)
  OBVIOUS
<1>3. PICK text : text = amount2str(a, 15)
  OBVIOUS
<1>4. shown[1] = a /\ shown[2] = text
  <2>1. shown = << a, text >>
    BY <1>1, <1>3, Zenon DEF TextOfAmount
  <2> QED BY <2>1
<1>5. IsAmount(a, n)
  BY <1>2, AmountType
<1>6. Len(text) <= 14 /\ (n <= 13 => InUnits(text) = a)
  BY <1>3, <1>5, AmountText
<1> QED BY <1>2, <1>4, <1>6

\* For every amount of 13 digits or less the user reads it from the screen as it is, and no
\* text is longer than there is room for (electroneum_crypto.c:839-892).
THEOREM AmountsAreShown == Spec => []AmountIsShown
<1>1. Init => IoInv /\ ShownInv
  <2> SUFFICES ASSUME Init PROVE IoInv /\ ShownInv
    OBVIOUS
  <2>1. io.shown \subseteq Texts
    BY IdleMarks DEF Init
  <2> QED BY <2>1, IoInit DEF ShownInv
<1>2. IoInv /\ ShownInv /\ [Next]_ioVars => (IoInv /\ ShownInv)'
  BY IoStep, ShownStep
<1> QED BY <1>1, <1>2, ShownAmounts, PTL DEF Spec
=============================================================================
