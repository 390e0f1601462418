-------------------------- MODULE IoBuffer_proofs --------------------------
(***************************************************************************)
(* Proofs about the IO buffer, for all numbers of a prefix, all amounts    *)
(* and all sizes of an extra field.                                        *)
(*                                                                         *)
(* First what each call does to the buffer: calls that read leave what is  *)
(* answered, a discard leaves nothing, and calls that put make the answer  *)
(* longer by as much as they say.  Then the handlers: each reads up to a   *)
(* discard and then either makes an answer or none, but for two that are   *)
(* looked at by themselves.  So each leaves an answer that fits, and the   *)
(* loop keeps the invariant IoInv.  Where numbers are put the answer       *)
(* begins with one, and its bytes are read back as this number.            *)
(***************************************************************************)
EXTENDS IoBuffer, WellFoundedInduction, TLAPS

-----------------------------------------------------------------------------
(***************************************************************************)
(* Induction                                                               *)
(***************************************************************************)
\* Induction up to a bound, for a set instead of a predicate, which the provers can instantiate.
LEMMA InductionUpTo ==
  ASSUME NEW k \in Nat, NEW S, 0 \in S, \A n \in 0 .. k - 1 : n \in S => n + 1 \in S
  PROVE  0 .. k \subseteq S
<1> DEFINE T == (0 .. k) \ S
           R == OpToRel(<, Nat)
<1>1. SUFFICES ASSUME T # {} PROVE FALSE
  OBVIOUS
<1>2. IsWellFoundedOn(R, Nat)
  BY NatLessThanWellFounded
<1>3. \A m, n \in Nat : m < n => <<m, n>> \in R
  BY DEF OpToRel
<1>4. PICK n \in T : \A m \in T : ~(<<m, n>> \in R)
  <2>1. T \subseteq Nat
    OBVIOUS
  <2> HIDE DEF R, T
  <2> QED BY <1>1, <1>2, <2>1, WFMin
<1> HIDE DEF R
<1>5. n # 0 /\ n - 1 \in 0 .. k - 1 /\ n - 1 \in Nat /\ n \in Nat /\ n - 1 < n
  BY <1>4
<1>6. n - 1 \notin T
  BY <1>3, <1>4, <1>5
<1>7. n - 1 \in S /\ (n - 1) + 1 = n
  BY <1>5, <1>6
<1> QED BY <1>4, <1>5, <1>7

\* Induction over all numbers.
LEMMA Induction ==
  ASSUME NEW S, 0 \in S, \A n \in Nat : n \in S => n + 1 \in S
  PROVE  Nat \subseteq S
<1> SUFFICES ASSUME NEW k \in Nat PROVE k \in S
  OBVIOUS
<1>1. 0 .. k \subseteq S
  BY InductionUpTo
<1> QED BY <1>1

\* The least of some natural numbers, of which a least counterexample is one.
LEMMA LeastNumber ==
  ASSUME NEW T, T \subseteq Nat, T # {}
  PROVE  \E n \in T : \A m \in T : n <= m
<1> DEFINE R == OpToRel(<, Nat)
<1>1. IsWellFoundedOn(R, Nat)
  BY NatLessThanWellFounded
<1>2. \A m, n \in Nat : m < n => <<m, n>> \in R
  BY DEF OpToRel
<1> HIDE DEF R
<1>3. PICK n \in T : \A m \in T : ~(<<m, n>> \in R)
  BY <1>1, WFMin
<1>4. ASSUME NEW m \in T
      PROVE  n <= m
  <2>1. m \in Nat /\ n \in Nat /\ ~(m < n)
    BY <1>2, <1>3
  <2> QED BY <2>1
<1> QED BY <1>4

-----------------------------------------------------------------------------
(***************************************************************************)
(* Handlers, call by call                                                  *)
(***************************************************************************)
\* The states of a handler, up to that after k calls.
IsRun(f, s, calls, k) ==
  DOMAIN f = 0 .. k /\ f[0] = s /\ \A n \in 1 .. k : f[n] = Do(f[n - 1], calls[n])

LEMMA OneMoreCall ==
  ASSUME NEW s, NEW calls, NEW k \in Nat, NEW f, IsRun(f, s, calls, k)
  PROVE  \E g : IsRun(g, s, calls, k + 1)
<1> DEFINE g == [n \in 0 .. k + 1 |-> IF n = k + 1 THEN Do(f[k], calls[k + 1]) ELSE f[n]]
<1>1. DOMAIN g = 0 .. k + 1 /\ g[0] = s
  BY DEF IsRun
<1>2. \A n \in 1 .. k + 1 : g[n] = Do(g[n - 1], calls[n])
  <2> SUFFICES ASSUME NEW n \in 1 .. k + 1 PROVE g[n] = Do(g[n - 1], calls[n])
    OBVIOUS
  <2>1. CASE n = k + 1
    <3>1. g[n] = Do(f[k], calls[n]) /\ g[n - 1] = f[k]
      BY <2>1
    <3> HIDE DEF g
    <3> QED BY <3>1
  <2>2. CASE n # k + 1
    <3>1. n \in 1 .. k /\ g[n] = f[n] /\ g[n - 1] = f[n - 1]
      BY <2>2
    <3>2. f[n] = Do(f[n - 1], calls[n])
      BY <3>1 DEF IsRun
    <3> HIDE DEF g
    <3> QED BY <3>1, <3>2
  <2> QED BY <2>1, <2>2
<1>3. IsRun(g, s, calls, k + 1)
  <2> HIDE DEF g
  <2> QED BY <1>1, <1>2 DEF IsRun
<1> QED BY <1>3

LEMMA RunExists ==
  ASSUME NEW s, NEW calls, NEW k \in Nat
  PROVE  \E f : IsRun(f, s, calls, k)
<1> DEFINE S == {n \in Nat : \E f : IsRun(f, s, calls, n)}
<1>1. 0 \in S
  <2> DEFINE f == [n \in 0 .. 0 |-> s]
  <2>1. IsRun(f, s, calls, 0)
    BY DEF IsRun
  <2> HIDE DEF f
  <2> QED BY <2>1
<1>2. ASSUME NEW n \in Nat, n \in S
      PROVE  n + 1 \in S
  <2>1. PICK f : IsRun(f, s, calls, n)
    BY <1>2
  <2> QED BY <2>1, OneMoreCall
<1>3. \A n \in Nat : n \in S => n + 1 \in S
  BY <1>2
<1> HIDE DEF S
<1>4. Nat \subseteq S
  BY <1>1, <1>3, Induction
<1>5. k \in S
  BY <1>4
<1> QED BY <1>5 DEF S

\* A handler goes from call to call.
LEMMA RunsDef ==
  ASSUME NEW s, NEW calls, Len(calls) \in Nat
  PROVE  /\ Runs(s, calls)[0] = s
         /\ \A n \in 1 .. Len(calls) : Runs(s, calls)[n] = Do(Runs(s, calls)[n - 1], calls[n])
<1> DEFINE Eq(f) == f = [n \in 0 .. Len(calls) |-> IF n = 0 THEN s ELSE Do(f[n - 1], calls[n])]
<1>1. PICK f : Eq(f)
  <2>1. PICK f : IsRun(f, s, calls, Len(calls))
    BY RunExists
  <2> DEFINE g == [n \in 0 .. Len(calls) |-> f[n]]
             body(n) == IF n = 0 THEN s ELSE Do(g[n - 1], calls[n])
  <2>2. \A n \in 0 .. Len(calls) : g[n] = f[n]
    OBVIOUS
  <2>3. g[0] = s /\ \A n \in 1 .. Len(calls) : n - 1 \in 0 .. Len(calls) /\ g[n] = Do(g[n - 1], calls[n])
    <3> HIDE DEF g
    <3> QED BY <2>1, <2>2 DEF IsRun
  <2>4. \A n \in 0 .. Len(calls) : f[n] = body(n)
    <3> SUFFICES ASSUME NEW n \in 0 .. Len(calls) PROVE f[n] = body(n)
      OBVIOUS
    <3>1. CASE n = 0
      BY <2>2, <2>3, <3>1
    <3>2. CASE n # 0
      <4>1. n \in 1 .. Len(calls)
        BY <3>2
      <4> HIDE DEF g
      <4> QED BY <2>2, <2>3, <3>2, <4>1
    <3> QED BY <3>1, <3>2
  <2> HIDE DEF body
  <2>5. g = [n \in 0 .. Len(calls) |-> body(n)]
    BY <2>4
  <2>6. Eq(g)
    <3> HIDE DEF g
    <3> QED BY <2>5 DEF body
  <2> HIDE DEF g
  <2> QED BY <2>6
<1>2. Eq(Runs(s, calls))
  BY <1>1, Zenon DEF Runs
<1> DEFINE r == Runs(s, calls)
<1> HIDE DEF r
<1>3. Eq(r)
  BY <1>2 DEF r
<1>4. r[0] = s
  BY <1>3
<1>5. \A n \in 1 .. Len(calls) : r[n] = Do(r[n - 1], calls[n])
  BY <1>3
<1> QED BY <1>4, <1>5 DEF r

-----------------------------------------------------------------------------
(***************************************************************************)
(* Bytes, and states of the buffer                                         *)
(***************************************************************************)
\* Names of fields: those that no handler names, and those in the calls of the handlers.
Names ==
  {"zero", "old", "varint", "address", "sw", "e", "a", "zeros"}
  \cup UNION {{c.calls[i].what : i \in DOMAIN c.calls} : c \in Commands}

\* What a byte of memory can be.
Octets == 0 .. 255

Bytes == Names \X Octets

Fields == {"buffer", "offset", "length", "tx", "keys", "whole", "at", "error", "misread", "put",
           "shown", "ends"}

\* All errors of the calls but those for what does not fit.
Errors == {"none", "SW_WRONG_LENGTH", "SW_WRONG_DATA", "SW_CONDITIONS_NOT_SATISFIED",
           "SW_SECURITY_TRUSTED_INPUT", "exception"}

Buffers == {b \in Seq(Bytes) : Len(b) = ELECTRONEUM_IO_BUFFER_LENGTH}

Typed(s) ==
  /\ DOMAIN s = Fields
  /\ s.buffer \in Buffers
  /\ s.offset \in Nat /\ s.length \in Nat /\ s.offset <= s.length /\ s.length <= ELECTRONEUM_IO_BUFFER_LENGTH
  /\ s.tx \in BOOLEAN
  /\ s.error \in Errors
  /\ s.put \in Seq(Bytes)

\* All of t is as in s but for these fields.
Changes(s, t, fields) == DOMAIN t = Fields /\ \A f \in Fields \ fields : t[f] = s[f]

\* The buffer holds what was put there, and nothing else.
Built(s) ==
  /\ s.offset = s.length
  /\ s.length = Len(s.put)
  /\ \A i \in 1 .. Len(s.put) : s.buffer[i] = s.put[i]

\* The provers take a length better by its name.
LEMMA BufferLength == ELECTRONEUM_IO_BUFFER_LENGTH \in Nat
BY DEF ELECTRONEUM_IO_BUFFER_LENGTH

LEMMA ByteType == \A what \in Names : \A n \in Octets : << what, n >> \in Bytes
BY DEF Bytes

LEMMA NamesOfCalls == \A c \in Commands : \A i \in DOMAIN c.calls : c.calls[i].what \in Names
BY DEF Names

LEMMA FieldType ==
  ASSUME NEW what \in Names, NEW size \in Octets
  PROVE  /\ Field(what, size) \in Seq(Bytes) /\ Len(Field(what, size)) = size
         /\ \A i \in 1 .. size : Field(what, size)[i] = << what, i >>
<1> DEFINE byte(i) == << what, i >>
           f == [i \in 1 .. size |-> byte(i)]
<1>1. \A i \in 1 .. size : byte(i) \in Bytes
  <2> SUFFICES ASSUME NEW i \in 1 .. size PROVE << what, i >> \in Bytes
    OBVIOUS
  <2>1. i \in Octets
    BY DEF Octets
  <2> QED BY <2>1, ByteType
<1>0. size \in Nat
  BY DEF Octets
<1>2. f = Field(what, size) /\ \A i \in 1 .. size : byte(i) = << what, i >>
  BY DEF Field
<1> HIDE DEF byte
<1>3. f \in Seq(Bytes) /\ Len(f) = size /\ \A i \in 1 .. size : f[i] = byte(i)
  BY <1>0, <1>1
<1> HIDE DEF f
<1> QED BY <1>2, <1>3

LEMMA OverType ==
  ASSUME NEW b \in Buffers, NEW o \in Nat, NEW bytes \in Seq(Bytes)
  PROVE  /\ Over(b, o, bytes) \in Buffers
         /\ \A i \in 1 .. ELECTRONEUM_IO_BUFFER_LENGTH : i <= o => Over(b, o, bytes)[i] = b[i]
         /\ \A i \in 1 .. ELECTRONEUM_IO_BUFFER_LENGTH : i > o + Len(bytes) => Over(b, o, bytes)[i] = b[i]
         /\ \A i \in 1 .. Len(bytes) : o + i <= ELECTRONEUM_IO_BUFFER_LENGTH => Over(b, o, bytes)[o + i] = bytes[i]
<1> DEFINE c == Over(b, o, bytes)
           n == Len(bytes)
<1>0. b \in Seq(Bytes) /\ Len(b) = ELECTRONEUM_IO_BUFFER_LENGTH /\ n \in Nat
  BY DEF Buffers
<1>1. c = [i \in 1 .. ELECTRONEUM_IO_BUFFER_LENGTH |-> IF i \in o + 1 .. o + n THEN bytes[i - o] ELSE b[i]]
  <2>1. DOMAIN b = 1 .. ELECTRONEUM_IO_BUFFER_LENGTH
    BY <1>0
  <2> QED BY <2>1, Zenon DEF Over
<1>2. \A i \in 1 .. n : bytes[i] \in Bytes
  OBVIOUS
<1>3. \A i \in 1 .. ELECTRONEUM_IO_BUFFER_LENGTH : b[i] \in Bytes
  BY <1>0
<1> HIDE DEF n
<1>4. \A i \in 1 .. ELECTRONEUM_IO_BUFFER_LENGTH : c[i] = IF i \in o + 1 .. o + n THEN bytes[i - o] ELSE b[i]
  BY <1>1
<1>5. DOMAIN c = 1 .. ELECTRONEUM_IO_BUFFER_LENGTH /\ c = [i \in 1 .. ELECTRONEUM_IO_BUFFER_LENGTH |-> c[i]]
  BY <1>1
<1> HIDE DEF c
<1> USE BufferLength
<1>6. ASSUME NEW i \in 1 .. ELECTRONEUM_IO_BUFFER_LENGTH
      PROVE  c[i] \in Bytes /\ (i <= o => c[i] = b[i]) /\ (i > o + n => c[i] = b[i])
  <2>1. CASE i \in o + 1 .. o + n
    <3>1. i - o \in 1 .. n /\ ~(i <= o) /\ ~(i > o + n)
      BY <1>0, <2>1
    <3> QED BY <1>2, <1>4, <2>1, <3>1
  <2>2. CASE i \notin o + 1 .. o + n
    BY <1>3, <1>4, <2>2
  <2> QED BY <2>1, <2>2
<1>7. c \in Seq(Bytes) /\ Len(c) = ELECTRONEUM_IO_BUFFER_LENGTH
  BY <1>5, <1>6
<1>8. ASSUME NEW i \in 1 .. n, o + i <= ELECTRONEUM_IO_BUFFER_LENGTH
      PROVE  c[o + i] = bytes[i]
  <2>1. o + i \in 1 .. ELECTRONEUM_IO_BUFFER_LENGTH /\ o + i \in o + 1 .. o + n /\ (o + i) - o = i
    BY <1>0, <1>8
  <2> QED BY <1>4, <2>1
<1> QED BY <1>6, <1>7, <1>8 DEF c, n, Buffers

LEMMA FailsState ==
  ASSUME NEW s, Typed(s), NEW error \in Errors, NEW t, t = Fails(s, error)
  PROVE  Typed(t) /\ t.error = error /\ Changes(s, t, {"error"})
<1>1. DOMAIN s = Fields
  BY DEF Typed
<1>2. DOMAIN t = Fields /\ t.error = error /\ \A f \in Fields \ {"error"} : t[f] = s[f]
  BY <1>1, SMT DEF Fields, Fails
<1>3. \A f \in Fields \ {"error"} : t[f] = s[f]
  BY <1>2
<1>4. Typed(t)
  BY <1>2, SMT DEF Typed, Fields
<1> QED BY <1>2, <1>4 DEF Changes

Others(s, t) ==
  /\ t.error = s.error /\ t.tx = s.tx /\ t.keys = s.keys /\ t.whole = s.whole /\ t.at = s.at
  /\ t.misread = s.misread /\ t.put = s.put /\ t.shown = s.shown /\ t.ends = s.ends

LEMMA OthersChange ==
  ASSUME NEW s, NEW t, DOMAIN t = Fields, Others(s, t)
  PROVE  Changes(s, t, {"buffer", "offset", "length"})
BY SMT DEF Changes, Others, Fields

LEMMA DiscardState ==
  ASSUME NEW s, Typed(s), NEW clear \in BOOLEAN, NEW t, t = discard(s, clear)
  PROVE  /\ Typed(t) /\ Changes(s, t, {"buffer", "offset", "length"})
         /\ t.offset = 0 /\ t.length = 0
         /\ ~clear => t.buffer = s.buffer
<1> DEFINE zeros == [i \in DOMAIN s.buffer |-> Zero]
<1>1. DOMAIN s = Fields
  BY DEF Typed
<1>2. /\ DOMAIN t = Fields /\ t.offset = 0 /\ t.length = 0
      /\ t.buffer = IF clear THEN zeros ELSE s.buffer
      /\ Others(s, t)
  BY <1>1, SMT DEF Fields, discard, Others
<1>3. zeros \in Buffers
  <2>1. s.buffer \in Seq(Bytes) /\ Len(s.buffer) = ELECTRONEUM_IO_BUFFER_LENGTH
    BY DEF Typed, Buffers
  <2>2. zeros = [i \in 1 .. ELECTRONEUM_IO_BUFFER_LENGTH |-> Zero]
    BY <2>1
  <2>3. Zero \in Bytes
    <3>1. "zero" \in Names /\ 0 \in Octets
      BY DEF Names, Octets
    <3> QED BY <3>1, ByteType DEF Zero
  <2> HIDE DEF zeros
  <2>4. zeros \in Seq(Bytes) /\ Len(zeros) = ELECTRONEUM_IO_BUFFER_LENGTH
    BY <2>2, <2>3, BufferLength
  <2> QED BY <2>4 DEF Buffers
<1> HIDE DEF zeros
<1>4. t.buffer \in Buffers
  BY <1>2, <1>3 DEF Typed
<1>5. Typed(t)
  BY <1>2, <1>4, BufferLength, SMT DEF Typed, Others
<1> QED BY <1>2, <1>5, OthersChange

\* What is put in moves the rest, and leaves what is before it.
LEMMA InsertState ==
  ASSUME NEW s, Typed(s), NEW bytes \in Seq(Bytes),
         s.length + Len(bytes) <= ELECTRONEUM_IO_BUFFER_LENGTH,
         NEW t, t = insert(s, bytes)
  PROVE  /\ Typed(t) /\ Changes(s, t, {"buffer", "offset", "length"})
         /\ t.offset = s.offset + Len(bytes) /\ t.length = s.length + Len(bytes)
         /\ \A i \in 1 .. s.offset : t.buffer[i] = s.buffer[i]
         /\ \A i \in 1 .. Len(bytes) : t.buffer[s.offset + i] = bytes[i]
         /\ \A i \in 1 .. ELECTRONEUM_IO_BUFFER_LENGTH :
              i > s.length + Len(bytes) => t.buffer[i] = s.buffer[i]
<1> DEFINE moved == SubSeq(s.buffer, s.offset + 1, s.length)
           inside == bytes \o moved
           n == Len(bytes)
<1>1. /\ DOMAIN s = Fields /\ s.buffer \in Buffers /\ s.offset \in Nat /\ s.length \in Nat
      /\ s.offset <= s.length /\ s.length <= ELECTRONEUM_IO_BUFFER_LENGTH /\ n \in Nat
  BY DEF Typed
<1>2. moved \in Seq(Bytes) /\ Len(moved) = s.length - s.offset
  <2>1. s.buffer \in Seq(Bytes) /\ Len(s.buffer) = ELECTRONEUM_IO_BUFFER_LENGTH
    BY <1>1 DEF Buffers
  <2> QED BY <1>1, <2>1, BufferLength
<1> HIDE DEF moved
<1>3. /\ inside \in Seq(Bytes) /\ Len(inside) = n + (s.length - s.offset)
      /\ \A i \in 1 .. n : inside[i] = bytes[i]
  BY <1>1, <1>2
<1>4. /\ DOMAIN t = Fields /\ t.offset = s.offset + n /\ t.length = s.length + n
      /\ t.buffer = Over(s.buffer, s.offset, inside)
      /\ Others(s, t)
  <2>1. ~(s.length + n > ELECTRONEUM_IO_BUFFER_LENGTH)
    BY <1>1, BufferLength
  <2>2. t = [s EXCEPT !.buffer = Over(@, s.offset, inside), !.offset = @ + n, !.length = @ + n]
    BY <2>1, Zenon DEF insert, moved
  <2> HIDE DEF inside, n
  <2> QED BY <1>1, <2>2, SMT DEF Fields, Others
<1> HIDE DEF inside, n
<1>5. /\ Over(s.buffer, s.offset, inside) \in Buffers
      /\ \A i \in 1 .. ELECTRONEUM_IO_BUFFER_LENGTH :
           i <= s.offset => Over(s.buffer, s.offset, inside)[i] = s.buffer[i]
      /\ \A i \in 1 .. ELECTRONEUM_IO_BUFFER_LENGTH :
           i > s.offset + Len(inside) => Over(s.buffer, s.offset, inside)[i] = s.buffer[i]
      /\ \A i \in 1 .. Len(inside) : s.offset + i <= ELECTRONEUM_IO_BUFFER_LENGTH =>
           Over(s.buffer, s.offset, inside)[s.offset + i] = inside[i]
  BY <1>1, <1>3, OverType
<1>6. t.buffer \in Buffers
  BY <1>4, <1>5
<1>7. \A i \in 1 .. s.offset : t.buffer[i] = s.buffer[i]
  BY <1>1, <1>4, <1>5, BufferLength
<1>8. s.length + n <= ELECTRONEUM_IO_BUFFER_LENGTH
  BY DEF n
<1>9. \A i \in 1 .. n : t.buffer[s.offset + i] = bytes[i]
  <2> SUFFICES ASSUME NEW i \in 1 .. n PROVE t.buffer[s.offset + i] = bytes[i]
    OBVIOUS
  <2>1. i \in 1 .. Len(inside) /\ s.offset + i <= ELECTRONEUM_IO_BUFFER_LENGTH
    BY <1>1, <1>3, <1>8, BufferLength
  <2> QED BY <1>3, <1>4, <1>5, <2>1
<1>10. \A i \in 1 .. ELECTRONEUM_IO_BUFFER_LENGTH : i > s.length + n => t.buffer[i] = s.buffer[i]
  BY <1>1, <1>3, <1>4, <1>5, BufferLength
<1>11. s.put \in Seq(Bytes) /\ s.tx \in BOOLEAN /\ s.error \in Errors
  BY DEF Typed
<1>12. Typed(t)
  <2>1. t.put = s.put /\ t.tx = s.tx /\ t.error = s.error
    BY <1>4 DEF Others
  <2> QED BY <1>1, <1>4, <1>6, <1>8, <1>11, <2>1, BufferLength DEF Typed
<1> QED BY <1>4, <1>7, <1>9, <1>10, <1>12, OthersChange DEF n

-----------------------------------------------------------------------------
(***************************************************************************)
(* What a call does                                                        *)
(***************************************************************************)
\* Calls that read: they may move the offset, and leave all that is answered.
ReadOps == {"fetch", "point", "peek", "use", "fetch_decrypt", "fetch_decrypt_key", "rest", "skip",
            "exactly", "amount2str"}

Reader(c) == c.op \in ReadOps /\ (c.op # "skip" => c.size \in Octets)

Discards(c) == c.op \in {"discard", "clear"}

\* The characters of an address.
AddressSize == 98

\* Calls that put no more than so many bytes.
PutsAtMost(c, n) ==
  \/ c.op = "insert" /\ c.size \in 0 .. n
  \/ c.op = "insert_encrypt" /\ 64 <= n
  \/ c.op = "add_to_tx_prefix" /\ c.size \in Nat /\ Len(encode_varint(c.size)) <= 9 /\ 9 <= n
  \/ c.op = "insert_address" /\ 98 <= n
  \/ c.op \in {"use", "amount2str", "open", "close", "fault"} /\ 0 <= n

IsNumber(c) == c.op = "add_to_tx_prefix"

\* What is answered goes on from what was there, by a number perhaps; and it begins with one.
Extends(s, t) == \E b \in Seq(Bytes) : t.put = s.put \o b
Adds(s, t, n) == t.put = s.put \o Varint(n)
Begins(put, n) == n \in Nat /\ \E b \in Seq(Bytes) : put = Varint(n) \o b

\* Calls of which no answer is made.
Quiet(c) ==
  \/ c.op \in {"use", "amount2str", "open", "close"}
  \/ c.op = "scribble" /\ c.size \in Nat
  \/ c.op = "ends" /\ c.what \in {"asking", "silent"}

\* What a read leaves.
Kept(s, t) ==
  /\ DOMAIN t = Fields
  /\ t.buffer = s.buffer /\ t.length = s.length /\ t.put = s.put /\ t.tx = s.tx
  /\ t.keys = s.keys /\ t.whole = s.whole /\ t.ends = s.ends

LEMMA KeptTyped ==
  ASSUME NEW s, Typed(s), NEW t, Kept(s, t), t.offset \in Nat, t.offset <= s.length, t.error \in Errors
  PROVE  Typed(t)
BY SMT DEF Typed, Kept

LEMMA ReadState ==
  ASSUME NEW s, Typed(s), NEW place, NEW what, NEW size, NEW t, t = Read(s, place, what, size)
  PROVE  Kept(s, t) /\ t.offset = s.offset /\ t.error = s.error /\ t.at = s.at
<1>1. DOMAIN s = Fields
  BY DEF Typed
<1>2. CASE Holds(s, place, what, size)
  BY <1>1, <1>2 DEF Read, Kept
<1>3. CASE ~Holds(s, place, what, size)
  <2>1. t = [s EXCEPT !.misread = @ \cup {what}]
    BY <1>3 DEF Read
  <2> QED BY <1>1, <2>1, SMT DEF Kept, Fields
<1> QED BY <1>2, <1>3

LEMMA TakeState ==
  ASSUME NEW s, Typed(s), NEW what, NEW size, NEW needs \in Nat, NEW step \in 0 .. needs,
         NEW t, t = Take(s, what, size, needs, step)
  PROVE  /\ Kept(s, t) /\ Typed(t)
         /\ s.error = "none" /\ t.error = "none" =>
              t.offset = s.offset + step /\ s.offset + needs <= s.length
<1>1. /\ DOMAIN s = Fields /\ s.offset \in Nat /\ s.length \in Nat /\ s.offset <= s.length
      /\ s.error \in Errors
  BY DEF Typed
<1>2. CASE Available(s, needs)
  <2> DEFINE r == Read(s, s.offset, what, size)
  <2>1. Kept(s, r) /\ r.offset = s.offset /\ r.error = s.error
    BY ReadState
  <2>2. t = [r EXCEPT !.offset = @ + step]
    BY <1>2, Zenon DEF Take
  <2> HIDE DEF r
  <2>3. Kept(r, t) /\ t.offset = r.offset + step /\ t.error = r.error
    <3>1. DOMAIN r = Fields
      BY <2>1 DEF Kept
    <3> QED BY <2>2, <3>1, SMT DEF Kept, Fields
  <2>4. Kept(s, t) /\ t.offset = s.offset + step /\ t.error = s.error
    BY <2>1, <2>3 DEF Kept
  <2>5. s.offset + needs <= s.length
    BY <1>1, <1>2 DEF Available
  <2>6. t.offset \in Nat /\ t.offset <= s.length
    BY <1>1, <2>4, <2>5
  <2> QED BY <1>1, <2>4, <2>5, <2>6, KeptTyped
<1>3. CASE ~Available(s, needs)
  <2>1. t = Fails(s, "SW_WRONG_LENGTH")
    BY <1>3 DEF Take
  <2>2. Typed(t) /\ t.error = "SW_WRONG_LENGTH" /\ Changes(s, t, {"error"})
    <3>1. "SW_WRONG_LENGTH" \in Errors
      BY DEF Errors
    <3> QED BY <2>1, <3>1, FailsState
  <2>3. Kept(s, t)
    BY <2>2, SMT DEF Changes, Kept, Fields
  <2> QED BY <2>2, <2>3
<1> QED BY <1>2, <1>3

\* A call that reads leaves the buffer, and what is to be answered, as they are.
LEMMA ReaderDo ==
  ASSUME NEW s, Typed(s), NEW c, Reader(c), NEW t, t = Do(s, c)
  PROVE  Kept(s, t) /\ Typed(t)
<1>1. /\ DOMAIN s = Fields /\ s.offset \in Nat /\ s.length \in Nat /\ s.offset <= s.length
      /\ s.error \in Errors /\ s.tx \in BOOLEAN
  BY DEF Typed
<1>2. c.op \in ReadOps /\ (c.op # "skip" => c.size \in Nat)
  BY DEF Reader, Octets
<1>3. CASE s.error # "none"
  <2>1. t = s
    BY <1>3 DEF Do
  <2> QED BY <1>1, <2>1 DEF Kept
<1>4. ASSUME t = Fails(s, "SW_WRONG_LENGTH") \/ t = Fails(s, "SW_SECURITY_TRUSTED_INPUT")
      PROVE  Kept(s, t) /\ Typed(t)
  <2>1. "SW_WRONG_LENGTH" \in Errors /\ "SW_SECURITY_TRUSTED_INPUT" \in Errors
    BY DEF Errors
  <2>2. Typed(t) /\ Changes(s, t, {"error"})
    BY <1>4, <2>1, FailsState
  <2>3. Kept(s, t)
    BY <2>2, SMT DEF Changes, Kept, Fields
  <2> QED BY <2>2, <2>3
<1>5. SealedSize(s.tx) \in {32, 64} /\ SealedSize(s.tx) \in Nat /\ SealedSize(s.tx) \in 0 .. SealedSize(s.tx)
      /\ 32 \in 0 .. SealedSize(s.tx)
  BY DEF SealedSize
<1>6. ASSUME t = fetch_decrypt(s, c.what)
      PROVE  Kept(s, t) /\ Typed(t)
  <2>1. CASE s.tx /\ Available(s, 64) /\ ~Holds(s, s.offset, c.what, 64)
    <3>1. t = Fails(s, "SW_SECURITY_TRUSTED_INPUT")
      BY <1>6, <2>1 DEF fetch_decrypt
    <3> QED BY <1>4, <3>1
  <2>2. CASE ~(s.tx /\ Available(s, 64) /\ ~Holds(s, s.offset, c.what, 64))
    <3>1. t = Take(s, c.what, 32, SealedSize(s.tx), SealedSize(s.tx))
      BY <1>6, <2>2, Zenon DEF fetch_decrypt
    <3> QED BY <1>5, <3>1, TakeState
  <2> QED BY <2>1, <2>2
<1>7. CASE s.error = "none" /\ c.op = "fetch"
  <2>1. t = Take(s, c.what, c.size, c.size, c.size)
    BY <1>7 DEF Do, fetch
  <2>2. c.size \in Nat /\ c.size \in 0 .. c.size
    BY <1>2, <1>7
  <2> QED BY <2>1, <2>2, TakeState
<1>8. CASE s.error = "none" /\ c.op = "point"
  <2>1. CASE Available(s, c.size)
    <3> DEFINE at == [x \in DOMAIN s.at \cup {c.what} |-> IF x = c.what THEN s.offset ELSE s.at[x]]
    <3>1. t = [[s EXCEPT !.at = at] EXCEPT !.offset = @ + c.size]
      BY <1>8, <2>1, SMT DEF Do, Points
    <3> HIDE DEF at
    <3>2. Kept(s, t) /\ t.offset = s.offset + c.size /\ t.error = s.error
      BY <1>1, <3>1, SMT DEF Kept, Fields
    <3>3. t.offset \in Nat /\ t.offset <= s.length
      BY <1>1, <1>2, <1>8, <2>1, <3>2 DEF Available
    <3> QED BY <1>1, <3>2, <3>3, KeptTyped
  <2>2. CASE ~Available(s, c.size)
    <3>1. t = Fails(s, "SW_WRONG_LENGTH")
      BY <1>8, <2>2 DEF Do
    <3> QED BY <1>4, <3>1
  <2> QED BY <2>1, <2>2
<1>9. CASE s.error = "none" /\ c.op = "peek"
  <2> DEFINE at == [x \in DOMAIN s.at \cup {c.what} |-> IF x = c.what THEN s.offset ELSE s.at[x]]
  <2>1. t = [s EXCEPT !.at = at]
    BY <1>9, SMT DEF Do, Points
  <2> HIDE DEF at
  <2>2. Kept(s, t) /\ t.offset = s.offset /\ t.error = s.error
    BY <1>1, <2>1, SMT DEF Kept, Fields
  <2> QED BY <1>1, <2>2, KeptTyped
<1>10. CASE s.error = "none" /\ c.op = "use"
  <2>1. t = Read(s, s.at[c.what], c.what, c.size)
    BY <1>10 DEF Do
  <2>2. Kept(s, t) /\ t.offset = s.offset /\ t.error = s.error
    BY <2>1, ReadState
  <2> QED BY <1>1, <2>2, KeptTyped
<1>11. CASE s.error = "none" /\ c.op = "fetch_decrypt"
  <2>1. t = fetch_decrypt(s, c.what)
    BY <1>11 DEF Do
  <2> QED BY <1>6, <2>1
<1>12. CASE s.error = "none" /\ c.op = "fetch_decrypt_key"
  <2>1. t = fetch_decrypt_key(s, c.what)
    BY <1>12 DEF Do
  <2>2. CASE s.keys = "spend" /\ Holds(s, s.offset, c.what, 32)
    <3>1. t = Take(s, c.what, 32, SealedSize(s.tx), 32)
      BY <2>1, <2>2, Zenon DEF fetch_decrypt_key
    <3> QED BY <1>5, <3>1, TakeState
  <2>3. CASE ~(s.keys = "spend" /\ Holds(s, s.offset, c.what, 32))
    <3>1. t = fetch_decrypt(s, c.what)
      BY <2>1, <2>3, Zenon DEF fetch_decrypt_key
    <3> QED BY <1>6, <3>1
  <2> QED BY <2>2, <2>3
<1>13. CASE s.error = "none" /\ c.op = "rest"
  <2>1. t = s
    BY <1>13 DEF Do
  <2> QED BY <1>1, <2>1 DEF Kept
<1>14. CASE s.error = "none" /\ c.op = "exactly"
  <2>1. t = s \/ t = Fails(s, "SW_WRONG_LENGTH")
    BY <1>14 DEF Do
  <2>2. CASE t = s
    BY <1>1, <2>2 DEF Kept
  <2> QED BY <1>4, <2>1, <2>2
<1>15. CASE s.error = "none" /\ c.op = "amount2str"
  <2> DEFINE text == amount2str(c.amount, c.size)
  <2>1. t = [s EXCEPT !.shown = @ \cup {<< c.amount, text >>}]
    BY <1>15, Zenon DEF Do
  <2> HIDE DEF text
  <2>2. Kept(s, t) /\ t.offset = s.offset /\ t.error = s.error
    BY <1>1, <2>1, SMT DEF Kept, Fields
  <2> QED BY <1>1, <2>2, KeptTyped
<1>16. CASE s.error = "none" /\ c.op = "skip"
  <2>1. t = skip(s, c.size)
    BY <1>16, Zenon DEF Do
  <2>2. t = s \/ t = Fails(s, "SW_WRONG_LENGTH")
    BY <2>1, Zenon DEF skip
  <2>3. CASE t = s
    BY <1>1, <2>3 DEF Kept
  <2> QED BY <1>4, <2>2, <2>3
<1> QED BY <1>2, <1>3, <1>7, <1>8, <1>9, <1>10, <1>11, <1>12, <1>13, <1>14, <1>15, <1>16 DEF ReadOps

\* Building an answer begins with nothing.
LEMMA DiscardDo ==
  ASSUME NEW s, Typed(s), s.put = << >>, NEW c, Discards(c), NEW t, t = Do(s, c)
  PROVE  /\ Typed(t) /\ t.ends = s.ends /\ t.put = << >> /\ t.error = s.error
         /\ t.error = "none" => Built(t) /\ t.length = 0
<1>1. CASE s.error # "none"
  BY <1>1 DEF Do
<1>2. CASE s.error = "none"
  <2>1. PICK clear \in BOOLEAN : t = discard(s, clear)
    BY <1>2 DEF Do, Discards
  <2>2. /\ Typed(t) /\ Changes(s, t, {"buffer", "offset", "length"})
        /\ t.offset = 0 /\ t.length = 0
    BY <2>1, DiscardState
  <2>3. t.ends = s.ends /\ t.put = << >> /\ t.error = s.error
    BY <2>2, SMT DEF Changes, Fields
  <2>4. Built(t)
    <3>1. Len(t.put) = 0
      BY <2>3
    <3> QED BY <2>2, <3>1 DEF Built
  <2> QED BY <2>2, <2>3, <2>4
<1> QED BY <1>1, <1>2

\* What is put behind an answer makes it longer.
LEMMA PutState ==
  ASSUME NEW s, Typed(s), Built(s), NEW bytes \in Seq(Bytes),
         Len(s.put) + Len(bytes) <= ELECTRONEUM_IO_BUFFER_LENGTH,
         NEW t, DOMAIN t = Fields, t.ends = s.ends, t.error = s.error, t.tx = s.tx,
         t.put = s.put \o bytes, t.offset = s.offset + Len(bytes), t.length = s.length + Len(bytes),
         t.buffer \in Buffers,
         \A i \in 1 .. s.offset : t.buffer[i] = s.buffer[i],
         \A i \in 1 .. Len(bytes) : t.buffer[s.offset + i] = bytes[i]
  PROVE  Typed(t) /\ Built(t) /\ Len(t.put) = Len(s.put) + Len(bytes)
<1> DEFINE n == Len(bytes)
           m == Len(s.put)
<1>1. /\ s.put \in Seq(Bytes) /\ s.offset = m /\ s.length = m /\ m \in Nat /\ n \in Nat
      /\ \A i \in 1 .. m : s.buffer[i] = s.put[i]
      /\ s.error \in Errors /\ s.tx \in BOOLEAN
  BY DEF Built, Typed
<1>2. /\ t.put \in Seq(Bytes) /\ Len(t.put) = m + n
      /\ \A i \in 1 .. m : t.put[i] = s.put[i]
      /\ \A i \in 1 .. n : t.put[m + i] = bytes[i]
  BY <1>1
<1>3. m + n <= ELECTRONEUM_IO_BUFFER_LENGTH
  OBVIOUS
<1> HIDE DEF n, m
<1>4. \A i \in 1 .. m + n : t.buffer[i] = t.put[i]
  <2> SUFFICES ASSUME NEW i \in 1 .. m + n PROVE t.buffer[i] = t.put[i]
    OBVIOUS
  <2>1. CASE i <= m
    <3>1. i \in 1 .. m
      BY <1>1, <2>1
    <3> QED BY <1>1, <1>2, <3>1
  <2>2. CASE i > m
    <3>1. i - m \in 1 .. n /\ m + (i - m) = i
      BY <1>1, <2>2
    <3>2. t.buffer[m + (i - m)] = bytes[i - m] /\ t.put[m + (i - m)] = bytes[i - m]
      BY <1>1, <1>2, <3>1 DEF n
    <3> QED BY <3>1, <3>2
  <2>3. i <= m \/ i > m
    BY <1>1
  <2> QED BY <2>1, <2>2, <2>3
<1>5. t.offset = m + n /\ t.length = m + n
  BY <1>1 DEF n
<1>6. Built(t)
  BY <1>2, <1>4, <1>5 DEF Built
<1>7. Typed(t)
  BY <1>1, <1>2, <1>3, <1>5 DEF Typed
<1> QED BY <1>2, <1>6, <1>7 DEF n, m

LEMMA PutStateOf ==
  ASSUME NEW s, Typed(s), Built(s), NEW bytes \in Seq(Bytes),
         Len(s.put) + Len(bytes) <= ELECTRONEUM_IO_BUFFER_LENGTH,
         NEW t, t = Put(s, bytes)
  PROVE  /\ Typed(t) /\ Built(t) /\ Len(t.put) = Len(s.put) + Len(bytes)
         /\ t.ends = s.ends /\ t.error = s.error /\ t.put = s.put \o bytes /\ t.tx = s.tx
<1> DEFINE r == insert(s, bytes)
           put == s.put \o bytes
<1>1. s.length = Len(s.put)
  BY DEF Built
<1>2. /\ Typed(r) /\ Changes(s, r, {"buffer", "offset", "length"})
      /\ r.offset = s.offset + Len(bytes) /\ r.length = s.length + Len(bytes)
      /\ \A i \in 1 .. s.offset : r.buffer[i] = s.buffer[i]
      /\ \A i \in 1 .. Len(bytes) : r.buffer[s.offset + i] = bytes[i]
  BY <1>1, InsertState
<1> HIDE DEF r
<1>3. DOMAIN r = Fields /\ r.put = s.put /\ r.ends = s.ends /\ r.error = s.error /\ r.tx = s.tx
  BY <1>2, SMT DEF Changes, Fields
<1>4. t = [r EXCEPT !.put = put]
  BY <1>3, Zenon DEF Put, r
<1> HIDE DEF put
<1>5. /\ DOMAIN t = Fields /\ t.put = put /\ t.ends = s.ends /\ t.error = s.error /\ t.tx = s.tx
      /\ t.buffer = r.buffer /\ t.offset = r.offset /\ t.length = r.length
  BY <1>3, <1>4, SMT DEF Fields
<1>6. t.buffer \in Buffers
  BY <1>2, <1>5 DEF Typed
<1>7. /\ t.offset = s.offset + Len(bytes) /\ t.length = s.length + Len(bytes)
      /\ \A i \in 1 .. s.offset : t.buffer[i] = s.buffer[i]
      /\ \A i \in 1 .. Len(bytes) : t.buffer[s.offset + i] = bytes[i]
  BY <1>2, <1>5
<1>8. t.put = s.put \o bytes /\ DOMAIN t = Fields /\ t.ends = s.ends /\ t.error = s.error /\ t.tx = s.tx
  BY <1>5 DEF put
<1>9. Typed(t) /\ Built(t) /\ Len(t.put) = Len(s.put) + Len(bytes)
  BY <1>6, <1>7, <1>8, PutState
<1> QED BY <1>8, <1>9

-----------------------------------------------------------------------------
(***************************************************************************)
(* Varints                                                                 *)
(***************************************************************************)
\* The bytes of a number, from those of its seventh bit on.
Bits(f, n) == IF n >= 128 THEN << (n % 128) + 128 >> \o f[n \div 128] ELSE << n >>

\* The bytes of the numbers up to k.
IsVarint(f, k) == DOMAIN f = 0 .. k /\ \A n \in 0 .. k : f[n] = Bits(f, n)

LEMMA Seventh == \A n \in Nat : n >= 128 => n \div 128 \in 0 .. n - 1
OBVIOUS

LEMMA OneMoreVarint ==
  ASSUME NEW k \in Nat, NEW f, IsVarint(f, k)
  PROVE  \E g : IsVarint(g, k + 1)
<1> DEFINE new == Bits(f, k + 1)
           g == [n \in 0 .. k + 1 |-> IF n = k + 1 THEN new ELSE f[n]]
<1>1. DOMAIN g = 0 .. k + 1 /\ g[k + 1] = new /\ \A n \in 0 .. k : g[n] = f[n]
  <2> HIDE DEF new
  <2> QED OBVIOUS
<1> HIDE DEF g
<1>2. ASSUME NEW n \in 0 .. k + 1 PROVE Bits(g, n) = Bits(f, n)
  <2>1. CASE n >= 128
    <3>1. n \div 128 \in 0 .. k
      BY <2>1, Seventh
    <3>2. g[n \div 128] = f[n \div 128]
      BY <1>1, <3>1
    <3> QED BY <3>2, Zenon DEF Bits
  <2>2. CASE ~(n >= 128)
    BY <2>2, Zenon DEF Bits
  <2> QED BY <2>1, <2>2
<1>3. ASSUME NEW n \in 0 .. k + 1 PROVE g[n] = Bits(g, n)
  <2>1. CASE n = k + 1
    <3>1. g[n] = Bits(f, n)
      BY <1>1, <2>1 DEF new
    <3> QED BY <1>2, <3>1
  <2>2. CASE n # k + 1
    <3>1. n \in 0 .. k
      BY <2>2
    <3>2. g[n] = f[n] /\ f[n] = Bits(f, n)
      BY <1>1, <3>1 DEF IsVarint
    <3> QED BY <1>2, <3>2
  <2> QED BY <2>1, <2>2
<1>4. IsVarint(g, k + 1)
  BY <1>1, <1>3 DEF IsVarint
<1> QED BY <1>4

LEMMA VarintExists ==
  ASSUME NEW k \in Nat
  PROVE  \E f : IsVarint(f, k)
<1> DEFINE S == {n \in Nat : \E f : IsVarint(f, n)}
<1>1. 0 \in S
  <2> DEFINE f == [n \in 0 .. 0 |-> << 0 >>]
  <2>1. DOMAIN f = 0 .. 0 /\ f[0] = << 0 >>
    OBVIOUS
  <2> HIDE DEF f
  <2>2. Bits(f, 0) = << 0 >>
    <3>1. ~(0 >= 128)
      OBVIOUS
    <3> QED BY <3>1, Zenon DEF Bits
  <2>3. IsVarint(f, 0)
    BY <2>1, <2>2 DEF IsVarint
  <2> QED BY <2>3
<1>2. ASSUME NEW n \in Nat, n \in S
      PROVE  n + 1 \in S
  <2>1. PICK f : IsVarint(f, n)
    BY <1>2
  <2> QED BY <2>1, OneMoreVarint
<1>3. \A n \in Nat : n \in S => n + 1 \in S
  BY <1>2
<1> HIDE DEF S
<1>4. Nat \subseteq S
  BY <1>1, <1>3, Induction
<1>5. k \in S
  BY <1>4
<1> QED BY <1>5 DEF S

LEMMA VarintDef ==
  ASSUME NEW num \in Nat
  PROVE  \E f : IsVarint(f, num) /\ encode_varint(num) = f[num]
<1> DEFINE Eq(f) == f = [n \in 0 .. num |->
                           IF n >= 128 THEN << (n % 128) + 128 >> \o f[n \div 128] ELSE << n >>]
<1>1. PICK f : IsVarint(f, num)
  BY VarintExists
<1> DEFINE g == [n \in 0 .. num |-> Bits(f, n)]
<1>2. \A n \in 0 .. num : g[n] = f[n]
  BY <1>1 DEF IsVarint
<1> HIDE DEF g
<1>3. ASSUME NEW n \in 0 .. num PROVE Bits(f, n) = Bits(g, n)
  <2>1. CASE n >= 128
    <3>1. n \div 128 \in 0 .. num
      BY <2>1, Seventh
    <3>2. g[n \div 128] = f[n \div 128]
      BY <1>2, <3>1
    <3> QED BY <3>2, Zenon DEF Bits
  <2>2. CASE ~(n >= 128)
    BY <2>2, Zenon DEF Bits
  <2> QED BY <2>1, <2>2
<1>4. g = [n \in 0 .. num |-> Bits(g, n)]
  BY <1>3, Zenon DEF g
<1>5. Eq(g)
  BY <1>4, Zenon DEF Bits
<1> DEFINE h == CHOOSE f2 : Eq(f2)
<1>6. Eq(h)
  BY <1>5, Zenon
<1>7. encode_varint(num) = h[num]
  BY Zenon DEF encode_varint
<1> HIDE DEF h
<1>8. h = [n \in 0 .. num |-> Bits(h, n)]
  BY <1>6, Zenon DEF Bits
<1>9. IsVarint(h, num)
  BY <1>8 DEF IsVarint
<1> QED BY <1>7, <1>9

\* However far the bytes of numbers are computed, they are the same.
LEMMA SameVarint ==
  ASSUME NEW k \in Nat, NEW m \in Nat, NEW f, NEW g, IsVarint(f, k), IsVarint(g, m)
  PROVE  \A n \in Nat : n <= k /\ n <= m => f[n] = g[n]
<1> DEFINE T == {n \in Nat : n <= k /\ n <= m /\ f[n] # g[n]}
<1>1. SUFFICES ASSUME T # {} PROVE FALSE
  OBVIOUS
<1>2. PICK n \in T : \A i \in T : n <= i
  <2>1. T \subseteq Nat
    OBVIOUS
  <2> HIDE DEF T
  <2> QED BY <1>1, <2>1, LeastNumber
<1>3. n \in Nat /\ n <= k /\ n <= m /\ f[n] # g[n]
  OBVIOUS
<1>4. f[n] = Bits(f, n) /\ g[n] = Bits(g, n)
  BY <1>3 DEF IsVarint
<1>5. CASE n >= 128
  <2>1. n \div 128 \in 0 .. n - 1
    BY <1>3, <1>5, Seventh
  <2>2. n \div 128 \in Nat /\ n \div 128 <= k /\ n \div 128 <= m /\ ~(n <= n \div 128)
    BY <1>3, <2>1
  <2>3. f[n \div 128] = g[n \div 128]
    BY <1>2, <2>2
  <2>4. Bits(f, n) = Bits(g, n)
    BY <2>3, Zenon DEF Bits
  <2> QED BY <1>3, <1>4, <2>4
<1>6. CASE ~(n >= 128)
  <2>1. Bits(f, n) = Bits(g, n)
    BY <1>6, Zenon DEF Bits
  <2> QED BY <1>3, <1>4, <2>1
<1> QED BY <1>5, <1>6

\* The bytes of a number: its last one, or its lowest seven bits and the bytes of the rest.
LEMMA VarintUnfold ==
  ASSUME NEW n \in Nat
  PROVE  /\ n >= 128 => encode_varint(n) = << (n % 128) + 128 >> \o encode_varint(n \div 128)
         /\ n < 128 => encode_varint(n) = << n >>
<1>1. PICK f : IsVarint(f, n) /\ encode_varint(n) = f[n]
  BY VarintDef
<1>2. f[n] = Bits(f, n)
  BY <1>1 DEF IsVarint
<1>3. CASE n >= 128
  <2> DEFINE m == n \div 128
  <2>1. m \in 0 .. n - 1
    BY <1>3, Seventh
  <2>2. m \in Nat /\ m <= n /\ m <= m
    BY <2>1
  <2> HIDE DEF m
  <2>3. PICK g : IsVarint(g, m) /\ encode_varint(m) = g[m]
    BY <2>2, VarintDef
  <2>4. f[m] = g[m]
    BY <1>1, <2>2, <2>3, SameVarint
  <2>5. Bits(f, n) = << (n % 128) + 128 >> \o f[m]
    BY <1>3, Zenon DEF Bits, m
  <2>6. encode_varint(n) = << (n % 128) + 128 >> \o encode_varint(m)
    BY <1>1, <1>2, <2>3, <2>4, <2>5
  <2>7. ~(n < 128)
    BY <1>3
  <2> QED BY <2>6, <2>7 DEF m
<1>4. CASE n < 128
  <2>1. ~(n >= 128)
    BY <1>4
  <2>2. Bits(f, n) = << n >>
    BY <2>1, Zenon DEF Bits
  <2> QED BY <1>1, <1>2, <2>1, <2>2
<1>5. n >= 128 \/ n < 128
  OBVIOUS
<1> QED BY <1>3, <1>4, <1>5

\* Numbers below 2^7 take one byte, those below 2^14 no more than two.
LEMMA VarintType ==
  /\ \A n \in Nat : encode_varint(n) \in Seq(Octets) /\ Len(encode_varint(n)) >= 1
  /\ \A n \in Nat : n < 128 => Len(encode_varint(n)) = 1
  /\ \A n \in Nat : n < 16384 => Len(encode_varint(n)) <= 2
<1> DEFINE Good(n) == encode_varint(n) \in Seq(Octets) /\ Len(encode_varint(n)) >= 1
           T == {n \in Nat : ~Good(n)}
<1>1. \A n \in Nat : n < 128 => encode_varint(n) \in Seq(Octets) /\ Len(encode_varint(n)) = 1
  <2> SUFFICES ASSUME NEW n \in Nat, n < 128
               PROVE  encode_varint(n) \in Seq(Octets) /\ Len(encode_varint(n)) = 1
    OBVIOUS
  <2>1. encode_varint(n) = << n >>
    BY VarintUnfold
  <2>2. n \in Octets
    BY DEF Octets
  <2> QED BY <2>1, <2>2
<1>2. ASSUME NEW n \in Nat, n >= 128, Good(n \div 128)
      PROVE  Good(n) /\ Len(encode_varint(n)) = 1 + Len(encode_varint(n \div 128))
  <2>1. encode_varint(n) = << (n % 128) + 128 >> \o encode_varint(n \div 128)
    BY <1>2, VarintUnfold
  <2> DEFINE b == (n % 128) + 128
             rest == encode_varint(n \div 128)
  <2>2. b \in Octets
    BY DEF Octets
  <2>3. rest \in Seq(Octets) /\ encode_varint(n) = << b >> \o rest /\ Len(rest) >= 1
    BY <1>2, <2>1
  <2> HIDE DEF b, rest
  <2>4. << b >> \o rest \in Seq(Octets) /\ Len(<< b >> \o rest) = 1 + Len(rest)
    BY <2>2, <2>3
  <2>5. Len(rest) \in Nat
    BY <2>3
  <2> QED BY <2>3, <2>4, <2>5 DEF rest
<1>3. \A n \in Nat : Good(n)
  <2>1. SUFFICES ASSUME T # {} PROVE FALSE
    BY Zenon
  <2>2. PICK n \in T : \A i \in T : n <= i
    <3>1. T \subseteq Nat
      OBVIOUS
    <3> HIDE DEF T
    <3> QED BY <2>1, <3>1, LeastNumber
  <2> HIDE DEF Good
  <2>3. n \in Nat /\ ~Good(n)
    OBVIOUS
  <2>4. CASE n >= 128
    <3>1. n \div 128 \in Nat /\ ~(n <= n \div 128)
      BY <2>3, <2>4, Seventh
    <3>2. Good(n \div 128)
      BY <2>2, <3>1
    <3> QED BY <1>2, <2>3, <2>4, <3>2
  <2>5. CASE n < 128
    <3>1. encode_varint(n) \in Seq(Octets) /\ Len(encode_varint(n)) = 1
      BY <1>1, <2>3, <2>5
    <3>2. Good(n)
      BY <3>1 DEF Good
    <3> QED BY <2>3, <3>2
  <2>6. n >= 128 \/ n < 128
    BY <2>3
  <2> QED BY <2>4, <2>5, <2>6
<1>4. \A n \in Nat : n < 16384 => Len(encode_varint(n)) <= 2
  <2> SUFFICES ASSUME NEW n \in Nat, n < 16384 PROVE Len(encode_varint(n)) <= 2
    OBVIOUS
  <2> DEFINE d(i) == Len(encode_varint(i))
  <2>1. CASE n < 128
    <3>1. d(n) = 1
      BY <1>1, <2>1
    <3> HIDE DEF d
    <3>2. d(n) <= 2
      BY <3>1
    <3> QED BY <3>2 DEF d
  <2>2. CASE n >= 128
    <3>1. n \div 128 \in Nat /\ n \div 128 < 128
      BY <2>2
    <3>2. Len(encode_varint(n \div 128)) = 1 /\ Good(n \div 128)
      BY <1>1, <1>3, <3>1
    <3>3. Len(encode_varint(n)) = 1 + Len(encode_varint(n \div 128))
      BY <1>2, <2>2, <3>2
    <3>4. d(n \div 128) = 1 /\ d(n) = 1 + d(n \div 128)
      BY <3>2, <3>3
    <3> HIDE DEF d
    <3>5. d(n) <= 2
      BY <3>4
    <3> QED BY <3>5 DEF d
  <2> QED BY <2>1, <2>2
<1> QED BY <1>1, <1>3, <1>4

\* What a host reads of bytes, given what it reads of shorter ones.
Decoded(f, b) ==
  IF b = << >> THEN 0 ELSE (Head(b) % 128) + IF Head(b) >= 128 THEN 128 * f[Tail(b)] ELSE 0

\* What it reads of no more than k bytes.
IsDecoder(f, k) == \A b \in Seq(Octets) : Len(b) <= k => f[b] = Decoded(f, b)

LEMMA SameDecoded ==
  ASSUME NEW b \in Seq(Octets), NEW f, NEW g, b # << >> => f[Tail(b)] = g[Tail(b)]
  PROVE  Decoded(f, b) = Decoded(g, b)
<1>1. CASE b = << >>
  BY <1>1, Zenon DEF Decoded
<1>2. CASE b # << >>
  <2>1. f[Tail(b)] = g[Tail(b)]
    BY <1>2
  <2> QED BY <2>1, Zenon DEF Decoded
<1> QED BY <1>1, <1>2

LEMMA Shorter ==
  \A b \in Seq(Octets) : /\ Len(b) \in Nat
                         /\ b # << >> => Tail(b) \in Seq(Octets) /\ Len(Tail(b)) = Len(b) - 1 /\ Len(b) # 0
<1> SUFFICES ASSUME NEW b \in Seq(Octets)
             PROVE  /\ Len(b) \in Nat
                    /\ b # << >> => Tail(b) \in Seq(Octets) /\ Len(Tail(b)) = Len(b) - 1 /\ Len(b) # 0
  OBVIOUS
<1>1. Len(b) \in Nat
  OBVIOUS
<1>2. b # << >> => Tail(b) \in Seq(Octets)
  OBVIOUS
<1>3. b # << >> => Len(Tail(b)) = Len(b) - 1
  OBVIOUS
<1>4. b # << >> => Len(b) # 0
  OBVIOUS
<1> QED BY <1>1, <1>2, <1>3, <1>4

LEMMA OneMoreDecoder ==
  ASSUME NEW k \in Nat, NEW f, IsDecoder(f, k)
  PROVE  \E g : IsDecoder(g, k + 1)
<1> DEFINE g == [b \in Seq(Octets) |-> IF Len(b) <= k THEN f[b] ELSE Decoded(f, b)]
<1>1. \A b \in Seq(Octets) : /\ Len(b) <= k => g[b] = f[b]
                             /\ ~(Len(b) <= k) => g[b] = Decoded(f, b)
  BY Zenon
<1> HIDE DEF g
<1>2. ASSUME NEW b \in Seq(Octets), Len(b) <= k + 1
      PROVE  g[b] = Decoded(g, b)
  <2>1. b # << >> => g[Tail(b)] = f[Tail(b)]
    <3> SUFFICES ASSUME b # << >> PROVE g[Tail(b)] = f[Tail(b)]
      OBVIOUS
    <3>1. Tail(b) \in Seq(Octets) /\ Len(Tail(b)) = Len(b) - 1 /\ Len(b) \in Nat
      BY Shorter
    <3>2. Len(Tail(b)) <= k
      BY <1>2, <3>1
    <3> QED BY <1>1, <3>1, <3>2
  <2>2. Decoded(g, b) = Decoded(f, b)
    BY <2>1, SameDecoded
  <2>3. g[b] = Decoded(f, b)
    BY <1>1 DEF IsDecoder
  <2> QED BY <2>2, <2>3
<1>3. IsDecoder(g, k + 1)
  BY <1>2 DEF IsDecoder
<1> QED BY <1>3

LEMMA DecoderExists ==
  ASSUME NEW k \in Nat
  PROVE  \E f : IsDecoder(f, k)
<1> DEFINE S == {n \in Nat : \E f : IsDecoder(f, n)}
<1>1. 0 \in S
  <2> DEFINE f == [b \in Seq(Octets) |-> 0]
  <2>1. \A b \in Seq(Octets) : f[b] = 0
    OBVIOUS
  <2> HIDE DEF f
  <2>2. ASSUME NEW b \in Seq(Octets), Len(b) <= 0 PROVE f[b] = Decoded(f, b)
    <3>1. b = << >>
      BY <2>2
    <3> QED BY <2>1, <3>1 DEF Decoded
  <2>3. IsDecoder(f, 0)
    BY <2>2 DEF IsDecoder
  <2> QED BY <2>3
<1>2. ASSUME NEW n \in Nat, n \in S
      PROVE  n + 1 \in S
  <2>1. PICK f : IsDecoder(f, n)
    BY <1>2
  <2> QED BY <2>1, OneMoreDecoder
<1>3. \A n \in Nat : n \in S => n + 1 \in S
  BY <1>2
<1> HIDE DEF S
<1>4. Nat \subseteq S
  BY <1>1, <1>3, Induction
<1>5. k \in S
  BY <1>4
<1> QED BY <1>5 DEF S

\* However many bytes are looked at, the same is read.
LEMMA SameDecoder ==
  ASSUME NEW k \in Nat, NEW m \in Nat, NEW f, NEW g, IsDecoder(f, k), IsDecoder(g, m)
  PROVE  \A b \in Seq(Octets) : Len(b) <= k /\ Len(b) <= m => f[b] = g[b]
<1> DEFINE S == {n \in Nat : \A b \in Seq(Octets) :
                   Len(b) <= n /\ Len(b) <= k /\ Len(b) <= m => f[b] = g[b]}
<1>1. ASSUME NEW n \in Nat, NEW b \in Seq(Octets), Len(b) <= n, Len(b) <= k, Len(b) <= m,
             n = 0 \/ n - 1 \in S
      PROVE  f[b] = g[b]
  <2>1. f[b] = Decoded(f, b) /\ g[b] = Decoded(g, b)
    BY <1>1 DEF IsDecoder
  <2>2. b # << >> => f[Tail(b)] = g[Tail(b)]
    <3> SUFFICES ASSUME b # << >> PROVE f[Tail(b)] = g[Tail(b)]
      OBVIOUS
    <3>1. Tail(b) \in Seq(Octets) /\ Len(Tail(b)) = Len(b) - 1 /\ Len(b) \in Nat /\ Len(b) # 0
      BY Shorter
    <3>2. n # 0 /\ Len(Tail(b)) <= n - 1 /\ Len(Tail(b)) <= k /\ Len(Tail(b)) <= m
      BY <1>1, <3>1
    <3> QED BY <1>1, <3>1, <3>2
  <2> QED BY <2>1, <2>2, SameDecoded
<1>2. 0 \in S
  BY <1>1
<1>3. \A n \in Nat : n \in S => n + 1 \in S
  <2> SUFFICES ASSUME NEW n \in Nat, n \in S PROVE n + 1 \in S
    OBVIOUS
  <2>1. (n + 1) - 1 = n /\ n + 1 \in Nat
    OBVIOUS
  <2>2. (n + 1) - 1 \in S
    BY <2>1
  <2> QED BY <1>1, <2>1, <2>2
<1> HIDE DEF S
<1>4. Nat \subseteq S
  BY <1>2, <1>3, Induction
<1>5. k \in S
  BY <1>4
<1> QED BY <1>5 DEF S

LEMMA DecoderDef ==
  ASSUME NEW b \in Seq(Octets)
  PROVE  vamount2uint64[b] = Decoded(vamount2uint64, b)
<1> DEFINE Eq(f) == f = [bytes \in Seq(0 .. 255) |->
                           IF bytes = << >> THEN 0
                           ELSE (Head(bytes) % 128)
                                + IF Head(bytes) >= 128 THEN 128 * f[Tail(bytes)] ELSE 0]
           d(k) == CHOOSE f : IsDecoder(f, k)
           g == [c \in Seq(Octets) |-> d(Len(c))[c]]
<1>1. \A k \in Nat : IsDecoder(d(k), k)
  BY DecoderExists, Zenon
<1> HIDE DEF d
<1>2. \A c \in Seq(Octets) : g[c] = d(Len(c))[c]
  OBVIOUS
<1> DEFINE h == [c \in Seq(Octets) |-> Decoded(g, c)]
<1>3. \A c \in Seq(Octets) : h[c] = Decoded(g, c)
  BY Zenon
<1>4. DOMAIN g = Seq(Octets) /\ g = [c \in Seq(Octets) |-> g[c]]
  BY Zenon
<1> HIDE DEF g
<1>5. ASSUME NEW c \in Seq(Octets)
      PROVE  g[c] = Decoded(g, c)
  <2> DEFINE k == Len(c)
  <2>1. k \in Nat /\ IsDecoder(d(k), k) /\ k <= k
    BY <1>1, Shorter
  <2>2. d(k)[c] = Decoded(d(k), c)
    BY <2>1 DEF IsDecoder
  <2>3. c # << >> => d(k)[Tail(c)] = g[Tail(c)]
    <3> SUFFICES ASSUME c # << >> PROVE d(k)[Tail(c)] = g[Tail(c)]
      OBVIOUS
    <3> DEFINE x == Tail(c)
               m == Len(x)
    <3>1. x \in Seq(Octets) /\ m = k - 1 /\ m \in Nat /\ m <= m /\ m <= k
      BY <2>1, Shorter
    <3>2. IsDecoder(d(m), m)
      BY <1>1, <3>1
    <3>3. g[x] = d(m)[x]
      BY <1>2, <3>1
    <3> HIDE DEF k, m, x
    <3>4. d(k)[x] = d(m)[x]
      <4> DEFINE f1 == d(k)
                 f2 == d(m)
      <4>1. IsDecoder(f1, k) /\ IsDecoder(f2, m)
        BY <2>1, <3>2
      <4> HIDE DEF f1, f2
      <4>2. \A y \in Seq(Octets) : Len(y) <= k /\ Len(y) <= m => f1[y] = f2[y]
        BY <2>1, <3>1, <4>1, SameDecoder
      <4>3. Len(x) <= k /\ Len(x) <= m
        BY <3>1 DEF m
      <4>4. f1[x] = f2[x]
        BY <3>1, <4>2, <4>3
      <4> QED BY <4>4 DEF f1, f2
    <3> QED BY <3>3, <3>4 DEF x
  <2>4. Decoded(d(k), c) = Decoded(g, c)
    BY <2>3, SameDecoded
  <2> QED BY <1>2, <2>2, <2>4
<1>6. g = h
  BY <1>3, <1>4, <1>5
<1>7. g = [bytes \in Seq(0 .. 255) |-> Decoded(g, bytes)]
  BY <1>6, Zenon DEF h, Octets
<1>8. Eq(g)
  BY <1>7, Zenon DEF Decoded
<1>9. Eq(vamount2uint64)
  BY <1>8, Zenon DEF vamount2uint64
<1>10. vamount2uint64 = [bytes \in Seq(0 .. 255) |-> Decoded(vamount2uint64, bytes)]
  BY <1>9, Zenon DEF Decoded
<1>11. b \in Seq(0 .. 255)
  BY DEF Octets
<1> QED BY <1>10, <1>11, Zenon

LEMMA OneByte ==
  ASSUME NEW x \in Octets, NEW a \in Seq(Octets), NEW c, c = << x >> \o a
  PROVE  c \in Seq(Octets) /\ c # << >> /\ Head(c) = x /\ Tail(c) = a
OBVIOUS

\* Whatever follows the bytes of a number, the number is read.
LEMMA VarintDecoded ==
  \A n \in Nat : \A rest \in Seq(Octets) : vamount2uint64[encode_varint(n) \o rest] = n
<1> DEFINE T == {n \in Nat : \E rest \in Seq(Octets) : vamount2uint64[encode_varint(n) \o rest] # n}
<1>1. SUFFICES ASSUME T # {} PROVE FALSE
  OBVIOUS
<1>2. PICK n \in T : \A i \in T : n <= i
  <2>1. T \subseteq Nat
    OBVIOUS
  <2> HIDE DEF T
  <2> QED BY <1>1, <2>1, LeastNumber
<1>3. PICK rest \in Seq(Octets) : vamount2uint64[encode_varint(n) \o rest] # n
  OBVIOUS
<1>4. n \in Nat
  OBVIOUS
<1> HIDE DEF T
<1>5. ASSUME NEW c \in Seq(Octets), c # << >>
      PROVE  vamount2uint64[c] = (Head(c) % 128) + IF Head(c) >= 128 THEN 128 * vamount2uint64[Tail(c)] ELSE 0
  BY <1>5, DecoderDef, Zenon DEF Decoded
<1>6. CASE n < 128
  <2> DEFINE c == << n >> \o rest
  <2>1. encode_varint(n) = << n >>
    BY <1>4, <1>6, VarintUnfold
  <2>2. n \in Octets /\ n % 128 = n /\ ~(n >= 128)
    <3>1. n \in 0 .. 127
      BY <1>4, <1>6
    <3>2. \A i \in 0 .. 127 : i \in 0 .. 255 /\ i % 128 = i /\ ~(i >= 128)
      OBVIOUS
    <3> QED BY <3>1, <3>2, Zenon DEF Octets
  <2>3. c \in Seq(Octets) /\ c # << >> /\ Head(c) = n
    BY <2>2, OneByte
  <2> HIDE DEF c
  <2>4. vamount2uint64[c] = (n % 128) + 0
    BY <1>5, <2>2, <2>3
  <2>5. vamount2uint64[c] = n
    BY <1>4, <2>2, <2>4
  <2> QED BY <1>3, <2>1, <2>5, Zenon DEF c
<1>7. CASE ~(n < 128)
  <2> DEFINE m == n \div 128
             x == (n % 128) + 128
             v == encode_varint(m)
             a == v \o rest
             c == << x >> \o a
  <2>1. encode_varint(n) = << x >> \o v
    <3>1. n >= 128
      BY <1>4, <1>7
    <3> QED BY <1>4, <3>1, VarintUnfold, Zenon
  <2>2. m \in 0 .. n - 1
    BY <1>4, <1>7, Seventh
  <2>3. x \in Octets /\ x >= 128 /\ x % 128 = n % 128 /\ n = (n % 128) + 128 * m
    BY <1>4 DEF Octets
  <2>4. m \in Nat /\ m \notin T
    BY <1>2, <1>4, <2>2
  <2> HIDE DEF m, x
  <2>5. vamount2uint64[a] = m
    BY <2>4 DEF T
  <2>6. v \in Seq(Octets)
    BY <2>4, VarintType
  <2> HIDE DEF v
  <2>7. a \in Seq(Octets) /\ (<< x >> \o v) \o rest = c
    BY <2>3, <2>6
  <2> HIDE DEF a
  <2>8. c \in Seq(Octets) /\ c # << >> /\ Head(c) = x /\ Tail(c) = a
    BY <2>3, <2>7, OneByte
  <2> HIDE DEF c
  <2>9. vamount2uint64[c] = (x % 128) + 128 * m
    BY <1>5, <2>3, <2>5, <2>8
  <2>10. vamount2uint64[c] = n
    BY <2>3, <2>9
  <2> QED BY <1>3, <2>1, <2>7, <2>10, Zenon
<1> QED BY <1>6, <1>7

\* The bytes of a number in the buffer.
LEMMA VarintBytes ==
  ASSUME NEW n \in Nat
  PROVE  Varint(n) \in Seq(Bytes) /\ Len(Varint(n)) = Len(encode_varint(n)) /\ Len(Varint(n)) \in Nat
<1> DEFINE v == encode_varint(n)
           byte(i) == << "varint", v[i] >>
           k == Len(v)
<1>1. v \in Seq(Octets)
  BY VarintType
<1> HIDE DEF v
<1>2. k \in Nat /\ DOMAIN v = 1 .. k /\ \A i \in 1 .. k : v[i] \in Octets
  BY <1>1
<1> HIDE DEF k
<1>3. "varint" \in Names
  BY DEF Names
<1>4. ASSUME NEW i \in 1 .. k PROVE byte(i) \in Bytes
  <2>1. v[i] \in Octets
    BY <1>2
  <2> QED BY <1>3, <2>1, ByteType
<1>5. Varint(n) = [i \in 1 .. k |-> byte(i)]
  BY <1>2, Zenon DEF Varint, v
<1> HIDE DEF byte
<1>6. [i \in 1 .. k |-> byte(i)] \in Seq(Bytes) /\ Len([i \in 1 .. k |-> byte(i)]) = k
  BY <1>2, <1>4
<1> QED BY <1>2, <1>5, <1>6 DEF k, v

-----------------------------------------------------------------------------
(***************************************************************************)
(* What a call puts                                                        *)
(***************************************************************************)
\* After an error no call does anything.
LEMMA ErrorStays == \A s, c : s.error # "none" => Do(s, c) = s
BY DEF Do

\* A call that puts makes the answer longer by as many bytes as it says.
LEMMA PutsDo ==
  ASSUME NEW s, Typed(s), NEW m \in Nat, NEW n \in Nat, m + n <= 252,
         s.error = "none" => Built(s) /\ Len(s.put) <= m,
         NEW c, PutsAtMost(c, n), c.what \in Names, NEW t, t = Do(s, c)
  PROVE  /\ Typed(t) /\ t.ends = s.ends
         /\ t.error = "none" => Built(t) /\ Len(t.put) <= m + n /\ Extends(s, t)
         /\ t.error = "none" /\ IsNumber(c) => Adds(s, t, c.size)
<1> DEFINE len == Len(s.put)
<1>0. \A k \in 0 .. n : k \in Octets
  BY DEF Octets
<1>1. CASE s.error # "none"
  BY <1>1, ErrorStays
<1> USE DEF IsNumber, Extends, Adds
<1>2. /\ DOMAIN s = Fields /\ s.offset \in Nat /\ s.length \in Nat /\ s.offset <= s.length
      /\ s.put \in Seq(Bytes) /\ s.tx \in BOOLEAN /\ s.error \in Errors
  BY DEF Typed
<1>3. len \in Nat
  BY <1>2
<1> HIDE DEF len
<1>4. ASSUME s.error = "none", NEW bytes \in Seq(Bytes), Len(bytes) <= n, t = Put(s, bytes)
      PROVE  /\ Typed(t) /\ t.ends = s.ends /\ t.put = s.put \o bytes
             /\ t.error = "none" => Built(t) /\ Len(t.put) <= m + n
  <2> DEFINE k == Len(bytes)
  <2>1. k \in Nat /\ k <= n /\ Built(s) /\ len <= m
    BY <1>4 DEF len
  <2> HIDE DEF k
  <2>2. len + k <= m + n /\ len + k <= ELECTRONEUM_IO_BUFFER_LENGTH
    BY <1>3, <2>1 DEF ELECTRONEUM_IO_BUFFER_LENGTH
  <2>3. Typed(t) /\ Built(t) /\ Len(t.put) = len + k /\ t.ends = s.ends
        /\ t.put = s.put \o bytes
    <3>1. Len(s.put) + Len(bytes) <= ELECTRONEUM_IO_BUFFER_LENGTH
      BY <2>2 DEF len, k
    <3> QED BY <1>4, <2>1, <3>1, PutStateOf DEF len, k
  <2> QED BY <2>2, <2>3
<1>5. CASE s.error = "none" /\ c.op = "insert"
  <2>1. t = Put(s, Field(c.what, c.size))
    BY <1>5 DEF Do
  <2>2. c.size \in Octets /\ c.size <= n
    <3>1. c.size \in 0 .. n
      BY <1>5 DEF PutsAtMost
    <3> QED BY <1>0, <3>1
  <2>3. Field(c.what, c.size) \in Seq(Bytes) /\ Len(Field(c.what, c.size)) = c.size
    BY <2>2, FieldType
  <2> QED BY <1>4, <1>5, <2>1, <2>2, <2>3
<1>6. CASE s.error = "none" /\ c.op = "insert_encrypt"
  <2> DEFINE size == SealedSize(s.tx)
  <2>1. t = Put(s, Field(c.what, size))
    BY <1>6 DEF Do
  <2>2. size \in Octets /\ size \in Nat /\ size <= 64 /\ 64 <= n
    BY <1>6 DEF PutsAtMost, SealedSize, Octets
  <2> HIDE DEF size
  <2>3. Field(c.what, size) \in Seq(Bytes) /\ Len(Field(c.what, size)) = size
    BY <2>2, FieldType
  <2>4. size <= n
    BY <2>2
  <2> QED BY <1>4, <1>6, <2>1, <2>3, <2>4
<1>7. CASE s.error = "none" /\ c.op = "add_to_tx_prefix"
  <2>1. t = Put(s, Varint(c.size))
    BY <1>7 DEF Do
  <2>2. c.size \in Nat /\ Len(encode_varint(c.size)) <= 9 /\ 9 <= n
    BY <1>7 DEF PutsAtMost
  <2> DEFINE k == Len(Varint(c.size))
  <2>3. Varint(c.size) \in Seq(Bytes) /\ k <= 9 /\ k \in Nat
    BY <2>2, VarintBytes
  <2> HIDE DEF k
  <2>4. k <= n
    BY <2>2, <2>3
  <2> QED BY <1>4, <1>7, <2>1, <2>3, <2>4 DEF k
<1>8. CASE s.error = "none" /\ c.op = "insert_address"
  <2> DEFINE size == AddressSize
             field == Field("address", size)
             put == s.put \o field
             buffer == Over(s.buffer, s.offset, field)
  <2>1. t = [s EXCEPT !.buffer = buffer, !.offset = @ + size, !.length = @ + size, !.put = put]
    BY <1>8, Zenon DEF Do, insert_address, AddressSize
  <2>2. size \in Octets /\ size \in Nat
    BY DEF AddressSize, Octets
  <2>3. "address" \in Names
    BY DEF Names
  <2>4. size <= n /\ Built(s) /\ len <= m
    BY <1>8 DEF PutsAtMost, AddressSize, len
  <2> HIDE DEF size
  <2>5. field \in Seq(Bytes) /\ Len(field) = size
    BY <2>2, <2>3, FieldType
  <2> HIDE DEF field, put, buffer
  <2>6. /\ DOMAIN t = Fields /\ t.put = put /\ t.ends = s.ends /\ t.error = s.error /\ t.tx = s.tx
        /\ t.buffer = buffer /\ t.offset = s.offset + size /\ t.length = s.length + size
    BY <1>2, <2>1, SMT DEF Fields
  <2>7. s.offset = len
    BY <2>4 DEF len, Built
  <2>8. len + size <= m + n /\ len + size <= ELECTRONEUM_IO_BUFFER_LENGTH
    BY <1>3, <2>2, <2>4 DEF ELECTRONEUM_IO_BUFFER_LENGTH
  <2>9. s.buffer \in Buffers
    BY DEF Typed
  <2>10. /\ buffer \in Buffers
         /\ \A i \in 1 .. ELECTRONEUM_IO_BUFFER_LENGTH : i <= s.offset => buffer[i] = s.buffer[i]
         /\ \A i \in 1 .. Len(field) :
              s.offset + i <= ELECTRONEUM_IO_BUFFER_LENGTH => buffer[s.offset + i] = field[i]
    BY <1>2, <2>5, <2>9, OverType DEF buffer
  <2>11. \A i \in 1 .. s.offset : t.buffer[i] = s.buffer[i]
    BY <1>3, <2>2, <2>6, <2>7, <2>8, <2>10, BufferLength
  <2>12. \A i \in 1 .. Len(field) : t.buffer[s.offset + i] = field[i]
    <3> SUFFICES ASSUME NEW i \in 1 .. Len(field) PROVE t.buffer[s.offset + i] = field[i]
      OBVIOUS
    <3>1. s.offset + i <= ELECTRONEUM_IO_BUFFER_LENGTH
      BY <1>3, <2>2, <2>5, <2>7, <2>8, BufferLength
    <3> QED BY <2>6, <2>10, <3>1
  <2>13. /\ Len(s.put) + Len(field) <= ELECTRONEUM_IO_BUFFER_LENGTH
         /\ t.put = s.put \o field /\ t.offset = s.offset + Len(field)
         /\ t.length = s.length + Len(field) /\ t.buffer \in Buffers
    BY <2>5, <2>6, <2>8, <2>10 DEF len, put
  <2>14. Typed(t) /\ Built(t) /\ Len(t.put) = Len(s.put) + Len(field)
    BY <2>4, <2>5, <2>6, <2>11, <2>12, <2>13, PutState
  <2>15. Len(t.put) = len + size
    BY <2>5, <2>14 DEF len
  <2>16. Extends(s, t)
    BY <2>5, <2>13
  <2> QED BY <1>8, <2>6, <2>8, <2>14, <2>15, <2>16
<1>11. s.put = s.put \o << >> /\ << >> \in Seq(Bytes)
  BY <1>2
<1>9. CASE s.error = "none" /\ c.op \in {"use", "amount2str"}
  <2>1. Kept(s, t) /\ t.offset = s.offset /\ t.error = s.error
    <3>1. CASE c.op = "use"
      <4>1. t = Read(s, s.at[c.what], c.what, c.size)
        BY <1>9, <3>1 DEF Do
      <4> QED BY <4>1, ReadState
    <3>2. CASE c.op = "amount2str"
      <4> DEFINE text == amount2str(c.amount, c.size)
      <4>1. t = [s EXCEPT !.shown = @ \cup {<< c.amount, text >>}]
        BY <1>9, <3>2, Zenon DEF Do
      <4> HIDE DEF text
      <4> QED BY <1>2, <4>1, SMT DEF Kept, Fields
    <3> QED BY <1>9, <3>1, <3>2
  <2>2. Typed(t)
    BY <1>2, <2>1, KeptTyped
  <2>3. Built(s) /\ len <= m
    BY <1>9 DEF len
  <2>4. Built(t) /\ t.put = s.put
    BY <2>1, <2>3 DEF Built, Kept
  <2>5. len <= m + n
    BY <1>3, <2>3
  <2>6. Extends(s, t)
    BY <1>11, <2>4
  <2> QED BY <1>9, <2>1, <2>2, <2>4, <2>5, <2>6 DEF Kept, len
<1>10. CASE s.error = "none" /\ c.op \in {"open", "close"}
  <2> DEFINE b == c.op = "open"
  <2>1. t = [s EXCEPT !.tx = b]
    BY <1>10, Zenon DEF Do
  <2> HIDE DEF b
  <2>2. b \in BOOLEAN
    BY DEF b
  <2>3. /\ DOMAIN t = Fields /\ t.tx = b /\ t.buffer = s.buffer /\ t.offset = s.offset
        /\ t.length = s.length /\ t.put = s.put /\ t.error = s.error /\ t.ends = s.ends
    BY <1>2, <2>1, SMT DEF Fields
  <2>4. Typed(t)
    BY <2>2, <2>3 DEF Typed
  <2>5. Built(s) /\ len <= m
    BY <1>10 DEF len
  <2>6. Built(t)
    BY <2>3, <2>5 DEF Built
  <2>7. len <= m + n
    BY <1>3, <2>5
  <2>8. Extends(s, t)
    BY <1>11, <2>3
  <2> QED BY <1>10, <2>3, <2>4, <2>6, <2>7, <2>8 DEF len
<1>12. CASE s.error = "none" /\ c.op = "fault"
  <2>1. t = Fails(s, "exception")
    BY <1>12 DEF Do
  <2>2. Typed(t) /\ t.error = "exception" /\ Changes(s, t, {"error"})
    <3>1. "exception" \in Errors
      BY DEF Errors
    <3> QED BY <2>1, <3>1, FailsState
  <2>3. t.ends = s.ends
    BY <2>2, SMT DEF Changes, Fields
  <2> QED BY <2>2, <2>3
<1> QED BY <1>1, <1>5, <1>6, <1>7, <1>8, <1>9, <1>10, <1>12 DEF PutsAtMost

Ends == {"answering", "asking", "silent"}

\* A call of which no answer is made leaves nothing that is to be answered.
LEMMA QuietDo ==
  ASSUME NEW s, Typed(s), s.put = << >>, s.ends \in Ends, s.error = "none" => Built(s),
         NEW c, Quiet(c), NEW t, t = Do(s, c)
  PROVE  Typed(t) /\ t.put = << >> /\ t.ends \in Ends /\ (t.error = "none" => Built(t))
<1>1. CASE s.error # "none"
  BY <1>1, ErrorStays
<1>2. DOMAIN s = Fields /\ s.buffer \in Buffers
  BY DEF Typed
<1>3. ASSUME s.error = "none", DOMAIN t = Fields, t.buffer \in Buffers, t.offset = s.offset,
             t.length = s.length, t.tx \in BOOLEAN, t.put = s.put, t.error = s.error, t.ends \in Ends
      PROVE  Typed(t) /\ t.put = << >> /\ t.ends \in Ends /\ (t.error = "none" => Built(t))
  <2>1. Typed(t)
    BY <1>3 DEF Typed
  <2>2. Built(t)
    BY <1>3 DEF Built
  <2> QED BY <1>3, <2>1, <2>2
<1>4. CASE s.error = "none" /\ c.op = "use"
  <2>1. t = Read(s, s.at[c.what], c.what, c.size)
    BY <1>4 DEF Do
  <2>2. Kept(s, t) /\ t.offset = s.offset /\ t.error = s.error
    BY <2>1, ReadState
  <2> QED BY <1>2, <1>3, <1>4, <2>2 DEF Kept, Typed
<1>5. CASE s.error = "none" /\ c.op = "amount2str"
  <2> DEFINE text == amount2str(c.amount, c.size)
  <2>1. t = [s EXCEPT !.shown = @ \cup {<< c.amount, text >>}]
    BY <1>5, Zenon DEF Do
  <2> HIDE DEF text
  <2>2. Kept(s, t) /\ t.offset = s.offset /\ t.error = s.error
    BY <1>2, <2>1, SMT DEF Kept, Fields
  <2> QED BY <1>2, <1>3, <1>5, <2>2 DEF Kept, Typed
<1>6. CASE s.error = "none" /\ c.op \in {"open", "close"}
  <2> DEFINE b == c.op = "open"
  <2>1. t = [s EXCEPT !.tx = b]
    BY <1>6, Zenon DEF Do
  <2>2. b \in BOOLEAN
    OBVIOUS
  <2> HIDE DEF b
  <2>3. /\ DOMAIN t = Fields /\ t.tx = b /\ t.buffer = s.buffer /\ t.offset = s.offset
        /\ t.length = s.length /\ t.put = s.put /\ t.error = s.error /\ t.ends = s.ends
    BY <1>2, <2>1, SMT DEF Fields
  <2> QED BY <1>2, <1>3, <1>6, <2>2, <2>3
<1>7. CASE s.error = "none" /\ c.op = "scribble" /\ c.size \in Nat
  <2> DEFINE field == [i \in 1 .. c.size |-> Old]
             buffer == Over(s.buffer, 0, field)
  <2>1. t = [s EXCEPT !.buffer = buffer]
    BY <1>7, Zenon DEF Do
  <2>2. field \in Seq(Bytes)
    <3>1. "old" \in Names /\ 0 \in Octets
      BY DEF Names, Octets
    <3>2. Old \in Bytes
      BY <3>1, ByteType DEF Old
    <3> QED BY <1>7, <3>2
  <2> HIDE DEF field
  <2>3. buffer \in Buffers
    BY <1>2, <2>2, OverType
  <2> HIDE DEF buffer
  <2>4. /\ DOMAIN t = Fields /\ t.tx = s.tx /\ t.buffer = buffer /\ t.offset = s.offset
        /\ t.length = s.length /\ t.put = s.put /\ t.error = s.error /\ t.ends = s.ends
    BY <1>2, <2>1, SMT DEF Fields
  <2> QED BY <1>2, <1>3, <1>7, <2>3, <2>4 DEF Typed
<1>8. CASE s.error = "none" /\ c.op = "ends" /\ c.what \in {"asking", "silent"}
  <2>1. t = [s EXCEPT !.ends = c.what]
    BY <1>8, SMT DEF Do
  <2>2. /\ DOMAIN t = Fields /\ t.tx = s.tx /\ t.buffer = s.buffer /\ t.offset = s.offset
        /\ t.length = s.length /\ t.put = s.put /\ t.error = s.error /\ t.ends = c.what
    BY <1>2, <2>1, SMT DEF Fields
  <2>3. t.ends \in Ends /\ t.tx \in BOOLEAN
    BY <1>8, <2>2 DEF Ends, Typed
  <2> QED BY <1>2, <1>3, <1>8, <2>2, <2>3
<1> QED BY <1>1, <1>4, <1>5, <1>6, <1>7, <1>8 DEF Quiet

-----------------------------------------------------------------------------
(***************************************************************************)
(* What a handler leaves                                                   *)
(***************************************************************************)
\* The most bytes of an answer in front of its status.
MaxPut == 252

\* A handler finds nothing that is to be answered.
Start(s) == Typed(s) /\ s.put = << >> /\ s.ends = "answering"

\* If nothing fails it leaves what it has put, which is nothing when it does not answer.
Left(s) ==
  /\ Typed(s) /\ s.ends \in Ends
  /\ s.error = "none" => /\ Built(s) /\ Len(s.put) <= MaxPut
                         /\ s.ends # "answering" => s.put = << >>

\* It reads up to the call d, which discards the command ...
Reads(calls, d) ==
  /\ Len(calls) \in Nat /\ DOMAIN calls = 1 .. Len(calls) /\ d \in 1 .. Len(calls)
  /\ \A i \in 1 .. Len(calls) : i < d => Reader(calls[i])
  /\ Discards(calls[d])

\* ... and then makes an answer, of which there are no more than sizes[i] bytes after call i ...
Answers(calls, d, sizes) ==
  /\ Reads(calls, d)
  /\ \A i \in d .. Len(calls) : sizes[i] \in Nat /\ sizes[i] <= MaxPut
  /\ \A i \in 1 .. Len(calls) : i > d =>
       /\ sizes[i - 1] <= sizes[i]
       /\ PutsAtMost(calls[i], sizes[i] - sizes[i - 1]) /\ calls[i].what \in Names

\* ... or none.
Asks(calls, d) ==
  /\ Reads(calls, d)
  /\ \A i \in 1 .. Len(calls) : i > d => Quiet(calls[i])

\* Up to that call nothing is to be answered.
LEMMA ReadsRun ==
  ASSUME NEW s, Start(s), NEW calls, NEW d, Reads(calls, d), NEW r, r = Runs(s, calls)
  PROVE  /\ \A n \in 0 .. d - 1 : Start(r[n])
         /\ Start(r[d]) /\ (r[d].error = "none" => Built(r[d]) /\ r[d].length = 0)
<1> DEFINE k == Len(calls)
<1>1. k \in Nat /\ d \in 1 .. k /\ Discards(calls[d]) /\ \A i \in 1 .. k : i < d => Reader(calls[i])
  BY DEF Reads
<1>2. r[0] = s /\ \A n \in 1 .. k : r[n] = Do(r[n - 1], calls[n])
  BY <1>1, RunsDef
<1> HIDE DEF k
<1> DEFINE S == {n \in Nat : Start(r[n])}
<1>3. 0 \in S
  BY <1>2
<1>4. \A n \in 0 .. (d - 1) - 1 : n \in S => n + 1 \in S
  <2> SUFFICES ASSUME NEW n \in 0 .. (d - 1) - 1, n \in S PROVE n + 1 \in S
    OBVIOUS
  <2>1. n + 1 \in 1 .. k /\ n + 1 < d /\ n + 1 \in Nat /\ (n + 1) - 1 = n
    BY <1>1
  <2>2. r[n + 1] = Do(r[n], calls[n + 1]) /\ Reader(calls[n + 1])
    BY <1>1, <1>2, <2>1
  <2>3. Start(r[n])
    OBVIOUS
  <2>4. Kept(r[n], r[n + 1]) /\ Typed(r[n + 1])
    BY <2>2, <2>3, ReaderDo DEF Start
  <2>5. Start(r[n + 1])
    BY <2>3, <2>4 DEF Start, Kept
  <2> QED BY <2>1, <2>5
<1> HIDE DEF S
<1>5. d - 1 \in Nat
  BY <1>1
<1>6. 0 .. d - 1 \subseteq S
  BY <1>3, <1>4, <1>5, InductionUpTo
<1>7. \A n \in 0 .. d - 1 : Start(r[n])
  BY <1>6 DEF S
<1>8. Start(r[d - 1]) /\ r[d] = Do(r[d - 1], calls[d])
  BY <1>1, <1>2, <1>5, <1>7
<1>9. /\ Typed(r[d]) /\ r[d].ends = r[d - 1].ends /\ r[d].put = << >>
      /\ r[d].error = "none" => Built(r[d]) /\ r[d].length = 0
  BY <1>1, <1>8, DiscardDo DEF Start
<1> QED BY <1>7, <1>8, <1>9 DEF Start

LEMMA AnswersRun ==
  ASSUME NEW s, Start(s), NEW calls, NEW d, NEW sizes, Answers(calls, d, sizes), NEW r, r = Runs(s, calls)
  PROVE  /\ Left(r[Len(calls)]) /\ \A n \in 0 .. Len(calls) : Typed(r[n])
         /\ r[Len(calls)].ends = "answering"
         /\ r[Len(calls)].error = "none" /\ d + 1 \in 1 .. Len(calls) /\ IsNumber(calls[d + 1])
            => Begins(r[Len(calls)].put, calls[d + 1].size)
<1> DEFINE k == Len(calls)
           Begun(n) == n > d /\ IsNumber(calls[d + 1]) => Begins(r[n].put, calls[d + 1].size)
           Sized(n) == /\ Typed(r[n]) /\ r[n].ends = "answering"
                       /\ r[n].error = "none" => Built(r[n]) /\ Len(r[n].put) <= sizes[n] /\ Begun(n)
           S == {n \in Nat : Sized(d + n)}
<1>1. /\ k \in Nat /\ d \in 1 .. k /\ Reads(calls, d)
      /\ \A i \in d .. k : sizes[i] \in Nat /\ sizes[i] <= MaxPut
      /\ \A i \in 1 .. k : i > d =>
           /\ sizes[i - 1] <= sizes[i]
           /\ PutsAtMost(calls[i], sizes[i] - sizes[i - 1]) /\ calls[i].what \in Names
  BY DEF Answers, Reads
<1>2. \A n \in 1 .. k : r[n] = Do(r[n - 1], calls[n])
  BY <1>1, RunsDef
<1>3. /\ \A n \in 0 .. d - 1 : Typed(r[n])
      /\ Start(r[d]) /\ (r[d].error = "none" => Built(r[d]))
  BY <1>1, ReadsRun DEF Start
<1> HIDE DEF k
<1>4. 0 \in S
  <2>1. Typed(r[d]) /\ r[d].ends = "answering" /\ Len(r[d].put) = 0
    BY <1>3 DEF Start
  <2>2. sizes[d] \in Nat /\ d + 0 = d /\ ~(d > d)
    BY <1>1
  <2>3. Begun(d)
    BY <2>2
  <2> HIDE DEF Begun
  <2>4. Sized(d)
    BY <1>3, <2>1, <2>2, <2>3
  <2> HIDE DEF Sized
  <2> QED BY <2>2, <2>4
<1>5. \A n \in 0 .. (k - d) - 1 : n \in S => n + 1 \in S
  <2> HIDE DEF Sized
  <2> SUFFICES ASSUME NEW n \in 0 .. (k - d) - 1, Sized(d + n) PROVE Sized(d + n + 1)
    <3>1. \A n \in Nat : d + (n + 1) = d + n + 1
      BY <1>1
    <3> QED BY <3>1
  <2> USE DEF Sized
  <2> DEFINE i == d + n + 1
             m == sizes[d + n]
             size == sizes[i] - m
  <2>1. i \in 1 .. k /\ i > d /\ i \in d .. k /\ d + n \in d .. k /\ i - 1 = d + n
    BY <1>1
  <2>2. m \in Nat /\ sizes[i] \in Nat /\ sizes[i] <= MaxPut /\ m <= sizes[i]
        /\ PutsAtMost(calls[i], size) /\ calls[i].what \in Names /\ r[i] = Do(r[d + n], calls[i])
    <3> HIDE DEF i
    <3> QED BY <1>1, <1>2, <2>1
  <2>3. Typed(r[d + n]) /\ r[d + n].ends = "answering"
        /\ (r[d + n].error = "none" => Built(r[d + n]) /\ Len(r[d + n].put) <= m /\ Begun(d + n))
    OBVIOUS
  <2> HIDE DEF i, m, Sized, Begun
  <2>4. size \in Nat /\ m + size = sizes[i] /\ m + size <= 252
    BY <2>2 DEF MaxPut
  <2> HIDE DEF size
  <2>5. /\ Typed(r[i]) /\ r[i].ends = r[d + n].ends
        /\ r[i].error = "none" => /\ Built(r[i]) /\ Len(r[i].put) <= m + size
                                  /\ Extends(r[d + n], r[i])
        /\ r[i].error = "none" /\ IsNumber(calls[i]) =>
              Adds(r[d + n], r[i], calls[i].size)
    <3> DEFINE u == r[d + n]
               c == calls[i]
               t == r[i]
    <3>1. /\ Typed(u) /\ m \in Nat /\ size \in Nat /\ m + size <= 252
          /\ u.error = "none" => Built(u) /\ Len(u.put) <= m
          /\ PutsAtMost(c, size) /\ c.what \in Names /\ t = Do(u, c)
      BY <2>2, <2>3, <2>4
    <3> HIDE DEF u, c, t
    <3>2. /\ Typed(t) /\ t.ends = u.ends
          /\ t.error = "none" => Built(t) /\ Len(t.put) <= m + size /\ Extends(u, t)
          /\ t.error = "none" /\ IsNumber(c) => Adds(u, t, c.size)
      BY <3>1, PutsDo
    <3> QED BY <3>2, Zenon DEF u, c, t
  <2>7. r[i].error = "none" => Begun(i)
    <3> SUFFICES ASSUME r[i].error = "none", IsNumber(calls[d + 1])
                 PROVE  Begins(r[i].put, calls[d + 1].size)
      BY DEF Begun
    <3>1. CASE n = 0
      <4>1. i = d + 1 /\ r[d + n].put = << >> /\ IsNumber(calls[i])
        BY <1>1, <1>3, <3>1 DEF i, Start
      <4>2. PutsAtMost(calls[i], size)
        BY <2>2 DEF size
      <4>3. calls[i].size \in Nat
        BY <4>1, <4>2 DEF PutsAtMost, IsNumber
      <4> DEFINE v == Varint(calls[i].size)
      <4>4. v \in Seq(Bytes)
        BY <4>3, VarintBytes
      <4>5. r[i].put = << >> \o v
        BY <2>5, <4>1 DEF Adds
      <4> HIDE DEF v
      <4>6. << >> \o v = v \o << >> /\ << >> \in Seq(Bytes)
        BY <4>4
      <4> QED BY <4>1, <4>3, <4>5, <4>6, Zenon DEF Begins, v
    <3>2. CASE n # 0
      <4>1. d + n > d
        BY <1>1, <3>2
      <4>2. r[d + n].error = "none"
        BY <2>2, ErrorStays
      <4>3. PICK b \in Seq(Bytes) : r[d + n].put = Varint(calls[d + 1].size) \o b
        BY <2>3, <4>1, <4>2 DEF Begun, Begins
      <4>4. PICK a \in Seq(Bytes) : r[i].put = r[d + n].put \o a
        BY <2>5 DEF Extends
      <4> DEFINE v == Varint(calls[d + 1].size)
      <4>5. calls[d + 1].size \in Nat /\ v \in Seq(Bytes)
        <5>1. d + 1 \in 1 .. k /\ d + 1 > d
          BY <1>1
        <5>2. calls[d + 1].size \in Nat
          BY <1>1, <5>1 DEF PutsAtMost, IsNumber
        <5> QED BY <5>2, VarintBytes
      <4> HIDE DEF v
      <4>6. (v \o b) \o a = v \o (b \o a) /\ b \o a \in Seq(Bytes)
        BY <4>5
      <4> QED BY <4>3, <4>4, <4>5, <4>6, Zenon DEF Begins, v
    <3> QED BY <3>1, <3>2
  <2>6. Sized(i)
    BY <2>3, <2>4, <2>5, <2>7 DEF Sized
  <2> QED BY <2>6 DEF i
<1>6. k - d \in Nat
  BY <1>1
<1> HIDE DEF S
<1>7. 0 .. k - d \subseteq S
  BY <1>4, <1>5, <1>6, InductionUpTo
<1>8. \A n \in d .. k : Sized(n)
  <2> SUFFICES ASSUME NEW n \in d .. k PROVE Sized(n)
    OBVIOUS
  <2>1. n - d \in 0 .. k - d /\ d + (n - d) = n
    BY <1>1
  <2>2. Sized(d + (n - d))
    BY <1>7, <2>1 DEF S
  <2> QED BY <2>1, <2>2
<1>9. Sized(k) /\ k \in d .. k
  BY <1>1, <1>8
<1>10. Left(r[k])
  <2>1. sizes[k] \in Nat /\ sizes[k] <= MaxPut
    BY <1>1, <1>9
  <2>2. Typed(r[k]) /\ r[k].put \in Seq(Bytes) /\ Len(r[k].put) \in Nat
    BY <1>9 DEF Typed
  <2>3. r[k].error = "none" => Len(r[k].put) <= MaxPut
    <3> DEFINE len == Len(r[k].put)
    <3>1. len \in Nat /\ (r[k].error = "none" => len <= sizes[k])
      BY <1>9, <2>2
    <3> HIDE DEF len
    <3>2. MaxPut \in Nat
      BY DEF MaxPut
    <3>3. r[k].error = "none" => len <= MaxPut
      BY <2>1, <3>1, <3>2
    <3> QED BY <3>3 DEF len
  <2> QED BY <1>9, <2>3 DEF Left, Ends
<1>11. \A n \in 0 .. k : Typed(r[n])
  <2> SUFFICES ASSUME NEW n \in 0 .. k PROVE Typed(r[n])
    OBVIOUS
  <2>1. n \in 0 .. d - 1 \/ n \in d .. k
    BY <1>1
  <2> QED BY <1>3, <1>8, <2>1
<1>12. r[k].error = "none" /\ d + 1 \in 1 .. k /\ IsNumber(calls[d + 1])
       => Begins(r[k].put, calls[d + 1].size)
  BY <1>1, <1>9
<1> QED BY <1>9, <1>10, <1>11, <1>12 DEF k

LEMMA AsksRun ==
  ASSUME NEW s, Start(s), NEW calls, NEW d, Asks(calls, d), NEW r, r = Runs(s, calls)
  PROVE  Left(r[Len(calls)]) /\ \A n \in 0 .. Len(calls) : Typed(r[n])
<1> DEFINE k == Len(calls)
           Silent(n) == /\ Typed(r[n]) /\ r[n].ends \in Ends /\ r[n].put = << >>
                        /\ r[n].error = "none" => Built(r[n])
           S == {n \in Nat : Silent(d + n)}
<1>1. /\ k \in Nat /\ d \in 1 .. k /\ Reads(calls, d)
      /\ \A i \in 1 .. k : i > d => Quiet(calls[i])
  BY DEF Asks, Reads
<1>2. \A n \in 1 .. k : r[n] = Do(r[n - 1], calls[n])
  BY <1>1, RunsDef
<1>3. /\ \A n \in 0 .. d - 1 : Typed(r[n])
      /\ Start(r[d]) /\ (r[d].error = "none" => Built(r[d]))
  BY <1>1, ReadsRun DEF Start
<1> HIDE DEF k
<1>4. 0 \in S
  <2>1. d + 0 = d
    BY <1>1
  <2> QED BY <1>3, <2>1 DEF Start, Ends
<1>5. \A n \in 0 .. (k - d) - 1 : n \in S => n + 1 \in S
  <2> SUFFICES ASSUME NEW n \in 0 .. (k - d) - 1, Silent(d + n) PROVE Silent(d + n + 1)
    BY <1>1
  <2> DEFINE i == d + n + 1
  <2>1. i \in 1 .. k /\ i > d /\ i - 1 = d + n
    BY <1>1
  <2> HIDE DEF i
  <2>2. Quiet(calls[i]) /\ r[i] = Do(r[d + n], calls[i])
    BY <1>1, <1>2, <2>1
  <2>3. Silent(i)
    BY <2>2, QuietDo
  <2> QED BY <2>3 DEF i
<1>6. k - d \in Nat
  BY <1>1
<1> HIDE DEF S
<1>7. 0 .. k - d \subseteq S
  BY <1>4, <1>5, <1>6, InductionUpTo
<1>8. \A n \in d .. k : Silent(n)
  <2> SUFFICES ASSUME NEW n \in d .. k PROVE Silent(n)
    OBVIOUS
  <2>1. n - d \in 0 .. k - d /\ d + (n - d) = n
    BY <1>1
  <2>2. Silent(d + (n - d))
    BY <1>7, <2>1 DEF S
  <2> QED BY <2>1, <2>2
<1>9. Left(r[k])
  <2>1. Silent(k)
    BY <1>1, <1>8
  <2>2. Len(r[k].put) <= MaxPut
    BY <2>1 DEF MaxPut
  <2> QED BY <2>1, <2>2 DEF Left
<1>10. \A n \in 0 .. k : Typed(r[n])
  <2> SUFFICES ASSUME NEW n \in 0 .. k PROVE Typed(r[n])
    OBVIOUS
  <2>1. n \in 0 .. d - 1 \/ n \in d .. k
    BY <1>1
  <2> QED BY <1>3, <1>8, <2>1
<1> QED BY <1>9, <1>10 DEF k

-----------------------------------------------------------------------------
(***************************************************************************)
(* The shapes of the handlers                                              *)
(***************************************************************************)
\* Calls that put no more than so many bytes, and no numbers.
PutsField(c, n) == PutsAtMost(c, n) /\ ~IsNumber(c)

\* Of k calls those behind the call d put no more than w bytes each.
Fits(calls, d, k, w) ==
  /\ Reads(calls, d) /\ Len(calls) = k
  /\ \A i \in 1 .. k : i > d => PutsField(calls[i], w)

\* An answer is made by a few calls, each of which puts no more than a sealed secret ...
AnswersShort(calls) == \E d, k \in Nat : k - d <= 3 /\ Fits(calls, d, k, 64)

\* ... or by more of them that put less ...
AnswersLong(calls) == \E d, k \in Nat : k - d <= 6 /\ Fits(calls, d, k, 40)

\* ... or it begins with a number.
AnswersNumbers(calls) ==
  \E d, k \in Nat :
    /\ k - d <= 6 /\ d < k /\ Reads(calls, d) /\ Len(calls) = k /\ IsNumber(calls[d + 1])
    /\ \A i \in 1 .. k : i > d => PutsAtMost(calls[i], 40)

OnlyAsks(calls) == \E d : Asks(calls, d)

\* Where numbers are put, the answer begins with one.
NumberFirst(calls, d) ==
  (\E i \in 1 .. Len(calls) : IsNumber(calls[i])) => d + 1 \in 1 .. Len(calls) /\ IsNumber(calls[d + 1])

\* What all but two handlers are.
Orderly(calls) ==
  \E d : (Asks(calls, d) \/ \E sizes : Answers(calls, d, sizes)) /\ NumberFirst(calls, d)

\* What reads or discards puts no number.
LEMMA NoNumberRead ==
  ASSUME NEW calls, NEW d, Reads(calls, d)
  PROVE  \A i \in 1 .. Len(calls) : IsNumber(calls[i]) => i > d
<1>1. \A c : Reader(c) \/ Discards(c) => ~IsNumber(c)
  BY DEF Reader, ReadOps, Discards, IsNumber
<1>2. /\ Len(calls) \in Nat /\ d \in 1 .. Len(calls) /\ Discards(calls[d])
      /\ \A i \in 1 .. Len(calls) : i < d => Reader(calls[i])
  BY DEF Reads
<1> QED BY <1>1, <1>2

LEMMA NoNumbers ==
  ASSUME NEW calls, NEW d, Reads(calls, d), \A i \in 1 .. Len(calls) : i > d => ~IsNumber(calls[i])
  PROVE  NumberFirst(calls, d)
BY NoNumberRead DEF NumberFirst

LEMMA AsksIsOrderly ==
  ASSUME NEW calls, OnlyAsks(calls)
  PROVE  Orderly(calls)
<1>1. PICK d : Asks(calls, d)
  BY DEF OnlyAsks
<1>2. Reads(calls, d) /\ \A i \in 1 .. Len(calls) : i > d => Quiet(calls[i])
  BY <1>1 DEF Asks
<1>3. \A c : Quiet(c) => ~IsNumber(c)
  BY DEF Quiet, IsNumber
<1>4. NumberFirst(calls, d)
  BY <1>2, <1>3, NoNumbers
<1> QED BY <1>1, <1>4 DEF Orderly

LEMMA OptionsRead == Reader(Fetch("options", 1))
BY DEF Reader, ReadOps, Octets, Call, Fetch

LEMMA CommandCalls ==
  \A name, calls : Command(name, calls).calls = << Fetch("options", 1) >> \o calls
BY DEF Command

LEMMA ShortIsOrderly ==
  ASSUME NEW c \in Commands, AnswersShort(c.calls)
  PROVE  Orderly(c.calls)
<1> DEFINE calls == c.calls
<1>1. PICK d \in Nat, k \in Nat : k - d <= 3 /\ Fits(calls, d, k, 64)
  BY DEF AnswersShort
<1> DEFINE sizes == [i \in d .. k |-> 64 * (i - d)]
<1>2. /\ Len(calls) = k /\ DOMAIN calls = 1 .. k /\ d \in 1 .. k /\ Reads(calls, d)
      /\ \A i \in 1 .. k : i > d => PutsAtMost(calls[i], 64) /\ ~IsNumber(calls[i])
  BY <1>1 DEF Fits, Reads, PutsField
<1>3. \A i \in 1 .. k : calls[i].what \in Names
  BY <1>2, NamesOfCalls
<1> HIDE DEF calls
<1>4. \A i \in d .. k : sizes[i] \in Nat /\ sizes[i] <= MaxPut
  BY <1>1 DEF MaxPut
<1>5. \A i \in 1 .. k : i > d => sizes[i - 1] <= sizes[i] /\ sizes[i] - sizes[i - 1] = 64
  BY <1>2
<1> HIDE DEF sizes
<1>6. Answers(calls, d, sizes)
  BY <1>2, <1>3, <1>4, <1>5 DEF Answers
<1>7. NumberFirst(calls, d)
  BY <1>2, NoNumbers
<1> QED BY <1>6, <1>7 DEF Orderly, calls

LEMMA LongIsOrderly ==
  ASSUME NEW c \in Commands, AnswersLong(c.calls)
  PROVE  Orderly(c.calls)
<1> DEFINE calls == c.calls
<1>1. PICK d \in Nat, k \in Nat : k - d <= 6 /\ Fits(calls, d, k, 40)
  BY DEF AnswersLong
<1> DEFINE sizes == [i \in d .. k |-> 40 * (i - d)]
<1>2. /\ Len(calls) = k /\ DOMAIN calls = 1 .. k /\ d \in 1 .. k /\ Reads(calls, d)
      /\ \A i \in 1 .. k : i > d => PutsAtMost(calls[i], 40) /\ ~IsNumber(calls[i])
  BY <1>1 DEF Fits, Reads, PutsField
<1>3. \A i \in 1 .. k : calls[i].what \in Names
  BY <1>2, NamesOfCalls
<1> HIDE DEF calls
<1>4. \A i \in d .. k : sizes[i] \in Nat /\ sizes[i] <= MaxPut
  BY <1>1 DEF MaxPut
<1>5. \A i \in 1 .. k : i > d => sizes[i - 1] <= sizes[i] /\ sizes[i] - sizes[i - 1] = 40
  BY <1>2
<1> HIDE DEF sizes
<1>6. Answers(calls, d, sizes)
  BY <1>2, <1>3, <1>4, <1>5 DEF Answers
<1>7. NumberFirst(calls, d)
  BY <1>2, NoNumbers
<1> QED BY <1>6, <1>7 DEF Orderly, calls

LEMMA NumbersIsOrderly ==
  ASSUME NEW c \in Commands, AnswersNumbers(c.calls)
  PROVE  Orderly(c.calls)
<1> DEFINE calls == c.calls
<1>1. PICK d \in Nat, k \in Nat :
        /\ k - d <= 6 /\ d < k /\ Reads(calls, d) /\ Len(calls) = k /\ IsNumber(calls[d + 1])
        /\ \A i \in 1 .. k : i > d => PutsAtMost(calls[i], 40)
  BY DEF AnswersNumbers
<1> DEFINE sizes == [i \in d .. k |-> 40 * (i - d)]
<1>2. /\ Len(calls) = k /\ DOMAIN calls = 1 .. k /\ d \in 1 .. k /\ Reads(calls, d)
      /\ \A i \in 1 .. k : i > d => PutsAtMost(calls[i], 40)
      /\ d + 1 \in 1 .. k /\ IsNumber(calls[d + 1])
  BY <1>1 DEF Reads
<1>3. \A i \in 1 .. k : calls[i].what \in Names
  BY <1>2, NamesOfCalls
<1> HIDE DEF calls
<1>4. \A i \in d .. k : sizes[i] \in Nat /\ sizes[i] <= MaxPut
  BY <1>1 DEF MaxPut
<1>5. \A i \in 1 .. k : i > d => sizes[i - 1] <= sizes[i] /\ sizes[i] - sizes[i - 1] = 40
  BY <1>2
<1> HIDE DEF sizes
<1>6. Answers(calls, d, sizes)
  BY <1>2, <1>3, <1>4, <1>5 DEF Answers
<1>7. NumberFirst(calls, d)
  BY <1>2 DEF NumberFirst
<1> QED BY <1>6, <1>7 DEF Orderly, calls

\* Handlers by how many calls read behind the options, and how many put an answer.
LEMMA Reads0Puts0 ==
  ASSUME NEW name, NEW c,
         Discards(c)
  PROVE  AnswersShort(Command(name, << c >>).calls)
<1> DEFINE o == Fetch("options", 1)
           calls == << o >> \o << c >>
<1>1. Command(name, << c >>).calls = calls /\ Reader(o)
  BY OptionsRead, CommandCalls
<1> HIDE DEF o
<1>2. Len(calls) = 2 /\ DOMAIN calls = 1 .. 2 /\ calls[1] = o /\ calls[2] = c
  OBVIOUS
<1> HIDE DEF calls
<1>3. Fits(calls, 2, 2, 64)
  BY <1>1, <1>2 DEF Fits, Reads
<1> QED BY <1>1, <1>3 DEF AnswersShort

LEMMA Reads0Puts1 ==
  ASSUME NEW name, NEW c, NEW b1,
         Discards(c), PutsField(b1, 64)
  PROVE  AnswersShort(Command(name, << c, b1 >>).calls)
<1> DEFINE o == Fetch("options", 1)
           calls == << o >> \o << c, b1 >>
<1>1. Command(name, << c, b1 >>).calls = calls /\ Reader(o)
  BY OptionsRead, CommandCalls
<1> HIDE DEF o
<1>2. Len(calls) = 3 /\ DOMAIN calls = 1 .. 3 /\ calls[1] = o /\ calls[2] = c /\ calls[3] = b1
  OBVIOUS
<1> HIDE DEF calls
<1>3. Fits(calls, 2, 3, 64)
  BY <1>1, <1>2 DEF Fits, Reads
<1> QED BY <1>1, <1>3 DEF AnswersShort

LEMMA Reads0Puts2 ==
  ASSUME NEW name, NEW c, NEW b1, NEW b2,
         Discards(c), PutsField(b1, 64), PutsField(b2, 64)
  PROVE  AnswersShort(Command(name, << c, b1, b2 >>).calls)
<1> DEFINE o == Fetch("options", 1)
           calls == << o >> \o << c, b1, b2 >>
<1>1. Command(name, << c, b1, b2 >>).calls = calls /\ Reader(o)
  BY OptionsRead, CommandCalls
<1> HIDE DEF o
<1>2. Len(calls) = 4 /\ DOMAIN calls = 1 .. 4 /\ calls[1] = o /\ calls[2] = c /\ calls[3] = b1 /\ calls[4] = b2
  OBVIOUS
<1> HIDE DEF calls
<1>3. Fits(calls, 2, 4, 64)
  BY <1>1, <1>2 DEF Fits, Reads
<1> QED BY <1>1, <1>3 DEF AnswersShort

LEMMA Reads1Puts0 ==
  ASSUME NEW name, NEW a1, NEW c,
         Reader(a1), Discards(c)
  PROVE  AnswersShort(Command(name, << a1, c >>).calls)
<1> DEFINE o == Fetch("options", 1)
           calls == << o >> \o << a1, c >>
<1>1. Command(name, << a1, c >>).calls = calls /\ Reader(o)
  BY OptionsRead, CommandCalls
<1> HIDE DEF o
<1>2. Len(calls) = 3 /\ DOMAIN calls = 1 .. 3 /\ calls[1] = o /\ calls[2] = a1 /\ calls[3] = c
  OBVIOUS
<1> HIDE DEF calls
<1>3. Fits(calls, 3, 3, 64)
  BY <1>1, <1>2 DEF Fits, Reads
<1> QED BY <1>1, <1>3 DEF AnswersShort

LEMMA Reads1Puts1 ==
  ASSUME NEW name, NEW a1, NEW c, NEW b1,
         Reader(a1), Discards(c), PutsField(b1, 64)
  PROVE  AnswersShort(Command(name, << a1, c, b1 >>).calls)
<1> DEFINE o == Fetch("options", 1)
           calls == << o >> \o << a1, c, b1 >>
<1>1. Command(name, << a1, c, b1 >>).calls = calls /\ Reader(o)
  BY OptionsRead, CommandCalls
<1> HIDE DEF o
<1>2. Len(calls) = 4 /\ DOMAIN calls = 1 .. 4 /\ calls[1] = o /\ calls[2] = a1 /\ calls[3] = c /\ calls[4] = b1
  OBVIOUS
<1> HIDE DEF calls
<1>3. Fits(calls, 3, 4, 64)
  BY <1>1, <1>2 DEF Fits, Reads
<1> QED BY <1>1, <1>3 DEF AnswersShort

LEMMA Reads1Puts2 ==
  ASSUME NEW name, NEW a1, NEW c, NEW b1, NEW b2,
         Reader(a1), Discards(c), PutsField(b1, 64), PutsField(b2, 64)
  PROVE  AnswersShort(Command(name, << a1, c, b1, b2 >>).calls)
<1> DEFINE o == Fetch("options", 1)
           calls == << o >> \o << a1, c, b1, b2 >>
<1>1. Command(name, << a1, c, b1, b2 >>).calls = calls /\ Reader(o)
  BY OptionsRead, CommandCalls
<1> HIDE DEF o
<1>2. Len(calls) = 5 /\ DOMAIN calls = 1 .. 5 /\ calls[1] = o /\ calls[2] = a1 /\ calls[3] = c /\ calls[4] = b1 /\ calls[5] = b2
  OBVIOUS
<1> HIDE DEF calls
<1>3. Fits(calls, 3, 5, 64)
  BY <1>1, <1>2 DEF Fits, Reads
<1> QED BY <1>1, <1>3 DEF AnswersShort

LEMMA Reads2Puts0 ==
  ASSUME NEW name, NEW a1, NEW a2, NEW c,
         Reader(a1), Reader(a2), Discards(c)
  PROVE  AnswersShort(Command(name, << a1, a2, c >>).calls)
<1> DEFINE o == Fetch("options", 1)
           calls == << o >> \o << a1, a2, c >>
<1>1. Command(name, << a1, a2, c >>).calls = calls /\ Reader(o)
  BY OptionsRead, CommandCalls
<1> HIDE DEF o
<1>2. Len(calls) = 4 /\ DOMAIN calls = 1 .. 4 /\ calls[1] = o /\ calls[2] = a1 /\ calls[3] = a2 /\ calls[4] = c
  OBVIOUS
<1> HIDE DEF calls
<1>3. Fits(calls, 4, 4, 64)
  BY <1>1, <1>2 DEF Fits, Reads
<1> QED BY <1>1, <1>3 DEF AnswersShort

LEMMA Reads2Puts1 ==
  ASSUME NEW name, NEW a1, NEW a2, NEW c, NEW b1,
         Reader(a1), Reader(a2), Discards(c), PutsField(b1, 64)
  PROVE  AnswersShort(Command(name, << a1, a2, c, b1 >>).calls)
<1> DEFINE o == Fetch("options", 1)
           calls == << o >> \o << a1, a2, c, b1 >>
<1>1. Command(name, << a1, a2, c, b1 >>).calls = calls /\ Reader(o)
  BY OptionsRead, CommandCalls
<1> HIDE DEF o
<1>2. Len(calls) = 5 /\ DOMAIN calls = 1 .. 5 /\ calls[1] = o /\ calls[2] = a1 /\ calls[3] = a2 /\ calls[4] = c /\ calls[5] = b1
  OBVIOUS
<1> HIDE DEF calls
<1>3. Fits(calls, 4, 5, 64)
  BY <1>1, <1>2 DEF Fits, Reads
<1> QED BY <1>1, <1>3 DEF AnswersShort

LEMMA Reads2Puts2 ==
  ASSUME NEW name, NEW a1, NEW a2, NEW c, NEW b1, NEW b2,
         Reader(a1), Reader(a2), Discards(c), PutsField(b1, 64), PutsField(b2, 64)
  PROVE  AnswersShort(Command(name, << a1, a2, c, b1, b2 >>).calls)
<1> DEFINE o == Fetch("options", 1)
           calls == << o >> \o << a1, a2, c, b1, b2 >>
<1>1. Command(name, << a1, a2, c, b1, b2 >>).calls = calls /\ Reader(o)
  BY OptionsRead, CommandCalls
<1> HIDE DEF o
<1>2. Len(calls) = 6 /\ DOMAIN calls = 1 .. 6 /\ calls[1] = o /\ calls[2] = a1 /\ calls[3] = a2 /\ calls[4] = c /\ calls[5] = b1 /\ calls[6] = b2
  OBVIOUS
<1> HIDE DEF calls
<1>3. Fits(calls, 4, 6, 64)
  BY <1>1, <1>2 DEF Fits, Reads
<1> QED BY <1>1, <1>3 DEF AnswersShort

LEMMA Reads3Puts1 ==
  ASSUME NEW name, NEW a1, NEW a2, NEW a3, NEW c, NEW b1,
         Reader(a1), Reader(a2), Reader(a3), Discards(c), PutsField(b1, 64)
  PROVE  AnswersShort(Command(name, << a1, a2, a3, c, b1 >>).calls)
<1> DEFINE o == Fetch("options", 1)
           calls == << o >> \o << a1, a2, a3, c, b1 >>
<1>1. Command(name, << a1, a2, a3, c, b1 >>).calls = calls /\ Reader(o)
  BY OptionsRead, CommandCalls
<1> HIDE DEF o
<1>2. Len(calls) = 6 /\ DOMAIN calls = 1 .. 6 /\ calls[1] = o /\ calls[2] = a1 /\ calls[3] = a2 /\ calls[4] = a3 /\ calls[5] = c /\ calls[6] = b1
  OBVIOUS
<1> HIDE DEF calls
<1>3. Fits(calls, 5, 6, 64)
  BY <1>1, <1>2 DEF Fits, Reads
<1> QED BY <1>1, <1>3 DEF AnswersShort

LEMMA Reads3Puts2 ==
  ASSUME NEW name, NEW a1, NEW a2, NEW a3, NEW c, NEW b1, NEW b2,
         Reader(a1), Reader(a2), Reader(a3), Discards(c), PutsField(b1, 64), PutsField(b2, 64)
  PROVE  AnswersShort(Command(name, << a1, a2, a3, c, b1, b2 >>).calls)
<1> DEFINE o == Fetch("options", 1)
           calls == << o >> \o << a1, a2, a3, c, b1, b2 >>
<1>1. Command(name, << a1, a2, a3, c, b1, b2 >>).calls = calls /\ Reader(o)
  BY OptionsRead, CommandCalls
<1> HIDE DEF o
<1>2. Len(calls) = 7 /\ DOMAIN calls = 1 .. 7 /\ calls[1] = o /\ calls[2] = a1 /\ calls[3] = a2 /\ calls[4] = a3 /\ calls[5] = c /\ calls[6] = b1 /\ calls[7] = b2
  OBVIOUS
<1> HIDE DEF calls
<1>3. Fits(calls, 5, 7, 64)
  BY <1>1, <1>2 DEF Fits, Reads
<1> QED BY <1>1, <1>3 DEF AnswersShort

LEMMA Reads1Numbers1 ==
  ASSUME NEW name, NEW a1, NEW c, NEW b1,
         Reader(a1), Discards(c), IsNumber(b1), PutsAtMost(b1, 40)
  PROVE  AnswersNumbers(Command(name, << a1, c, b1 >>).calls)
<1> DEFINE o == Fetch("options", 1)
           calls == << o >> \o << a1, c, b1 >>
<1>1. Command(name, << a1, c, b1 >>).calls = calls /\ Reader(o)
  BY OptionsRead, CommandCalls
<1> HIDE DEF o
<1>2. Len(calls) = 4 /\ DOMAIN calls = 1 .. 4 /\ calls[1] = o /\ calls[2] = a1 /\ calls[3] = c /\ calls[4] = b1
  OBVIOUS
<1> HIDE DEF calls
<1>3. /\ Reads(calls, 3) /\ IsNumber(calls[3 + 1])
      /\ \A i \in 1 .. 4 : i > 3 => PutsAtMost(calls[i], 40)
  BY <1>1, <1>2 DEF Reads
<1>4. AnswersNumbers(calls)
  BY <1>2, <1>3 DEF AnswersNumbers
<1> QED BY <1>1, <1>4

LEMMA Reads3Numbers2 ==
  ASSUME NEW name, NEW a1, NEW a2, NEW a3, NEW c, NEW b1, NEW b2,
         Reader(a1), Reader(a2), Reader(a3), Discards(c), IsNumber(b1), PutsAtMost(b1, 40), PutsAtMost(b2, 40)
  PROVE  AnswersNumbers(Command(name, << a1, a2, a3, c, b1, b2 >>).calls)
<1> DEFINE o == Fetch("options", 1)
           calls == << o >> \o << a1, a2, a3, c, b1, b2 >>
<1>1. Command(name, << a1, a2, a3, c, b1, b2 >>).calls = calls /\ Reader(o)
  BY OptionsRead, CommandCalls
<1> HIDE DEF o
<1>2. Len(calls) = 7 /\ DOMAIN calls = 1 .. 7 /\ calls[1] = o /\ calls[2] = a1 /\ calls[3] = a2 /\ calls[4] = a3 /\ calls[5] = c /\ calls[6] = b1 /\ calls[7] = b2
  OBVIOUS
<1> HIDE DEF calls
<1>3. /\ Reads(calls, 5) /\ IsNumber(calls[5 + 1])
      /\ \A i \in 1 .. 7 : i > 5 => PutsAtMost(calls[i], 40)
  BY <1>1, <1>2 DEF Reads
<1>4. AnswersNumbers(calls)
  BY <1>2, <1>3 DEF AnswersNumbers
<1> QED BY <1>1, <1>4

LEMMA Reads3Numbers3 ==
  ASSUME NEW name, NEW a1, NEW a2, NEW a3, NEW c, NEW b1, NEW b2, NEW b3,
         Reader(a1), Reader(a2), Reader(a3), Discards(c), IsNumber(b1), PutsAtMost(b1, 40), PutsAtMost(b2, 40), PutsAtMost(b3, 40)
  PROVE  AnswersNumbers(Command(name, << a1, a2, a3, c, b1, b2, b3 >>).calls)
<1> DEFINE o == Fetch("options", 1)
           calls == << o >> \o << a1, a2, a3, c, b1, b2, b3 >>
<1>1. Command(name, << a1, a2, a3, c, b1, b2, b3 >>).calls = calls /\ Reader(o)
  BY OptionsRead, CommandCalls
<1> HIDE DEF o
<1>2. Len(calls) = 8 /\ DOMAIN calls = 1 .. 8 /\ calls[1] = o /\ calls[2] = a1 /\ calls[3] = a2 /\ calls[4] = a3 /\ calls[5] = c /\ calls[6] = b1 /\ calls[7] = b2 /\ calls[8] = b3
  OBVIOUS
<1> HIDE DEF calls
<1>3. /\ Reads(calls, 5) /\ IsNumber(calls[5 + 1])
      /\ \A i \in 1 .. 8 : i > 5 => PutsAtMost(calls[i], 40)
  BY <1>1, <1>2 DEF Reads
<1>4. AnswersNumbers(calls)
  BY <1>2, <1>3 DEF AnswersNumbers
<1> QED BY <1>1, <1>4

LEMMA Reads6Puts0 ==
  ASSUME NEW name, NEW a1, NEW a2, NEW a3, NEW a4, NEW a5, NEW a6, NEW c,
         Reader(a1), Reader(a2), Reader(a3), Reader(a4), Reader(a5), Reader(a6), Discards(c)
  PROVE  AnswersShort(Command(name, << a1, a2, a3, a4, a5, a6, c >>).calls)
<1> DEFINE o == Fetch("options", 1)
           calls == << o >> \o << a1, a2, a3, a4, a5, a6, c >>
<1>1. Command(name, << a1, a2, a3, a4, a5, a6, c >>).calls = calls /\ Reader(o)
  BY OptionsRead, CommandCalls
<1> HIDE DEF o
<1>2. Len(calls) = 8 /\ DOMAIN calls = 1 .. 8 /\ calls[1] = o /\ calls[2] = a1 /\ calls[3] = a2 /\ calls[4] = a3 /\ calls[5] = a4 /\ calls[6] = a5 /\ calls[7] = a6 /\ calls[8] = c
  OBVIOUS
<1> HIDE DEF calls
<1>3. Fits(calls, 8, 8, 64)
  BY <1>1, <1>2 DEF Fits, Reads
<1> QED BY <1>1, <1>3 DEF AnswersShort

LEMMA Reads3Numbers5 ==
  ASSUME NEW name, NEW a1, NEW a2, NEW a3, NEW c, NEW b1, NEW b2, NEW b3, NEW b4, NEW b5,
         Reader(a1), Reader(a2), Reader(a3), Discards(c), IsNumber(b1), PutsAtMost(b1, 40), PutsAtMost(b2, 40), PutsAtMost(b3, 40), PutsAtMost(b4, 40), PutsAtMost(b5, 40)
  PROVE  AnswersNumbers(Command(name, << a1, a2, a3, c, b1, b2, b3, b4, b5 >>).calls)
<1> DEFINE o == Fetch("options", 1)
           calls == << o >> \o << a1, a2, a3, c, b1, b2, b3, b4, b5 >>
<1>1. Command(name, << a1, a2, a3, c, b1, b2, b3, b4, b5 >>).calls = calls /\ Reader(o)
  BY OptionsRead, CommandCalls
<1> HIDE DEF o
<1>2. Len(calls) = 10 /\ DOMAIN calls = 1 .. 10 /\ calls[1] = o /\ calls[2] = a1 /\ calls[3] = a2 /\ calls[4] = a3 /\ calls[5] = c /\ calls[6] = b1 /\ calls[7] = b2 /\ calls[8] = b3 /\ calls[9] = b4 /\ calls[10] = b5
  OBVIOUS
<1> HIDE DEF calls
<1>3. /\ Reads(calls, 5) /\ IsNumber(calls[5 + 1])
      /\ \A i \in 1 .. 10 : i > 5 => PutsAtMost(calls[i], 40)
  BY <1>1, <1>2 DEF Reads
<1>4. AnswersNumbers(calls)
  BY <1>2, <1>3 DEF AnswersNumbers
<1> QED BY <1>1, <1>4

LEMMA Reads0Asks ==
  ASSUME NEW name, NEW c, NEW b1,
         Discards(c), Quiet(b1)
  PROVE  OnlyAsks(Command(name, << c, b1 >>).calls)
<1> DEFINE o == Fetch("options", 1)
           calls == << o >> \o << c, b1 >>
<1>1. Command(name, << c, b1 >>).calls = calls /\ Reader(o)
  BY OptionsRead, CommandCalls
<1> HIDE DEF o
<1>2. Len(calls) = 3 /\ DOMAIN calls = 1 .. 3 /\ calls[1] = o /\ calls[2] = c /\ calls[3] = b1
  OBVIOUS
<1> HIDE DEF calls
<1>3. Asks(calls, 2)
  BY <1>1, <1>2 DEF Asks, Reads
<1> QED BY <1>1, <1>3 DEF OnlyAsks

LEMMA Reads1Asks ==
  ASSUME NEW name, NEW a1, NEW c, NEW b1,
         Reader(a1), Discards(c), Quiet(b1)
  PROVE  OnlyAsks(Command(name, << a1, c, b1 >>).calls)
<1> DEFINE o == Fetch("options", 1)
           calls == << o >> \o << a1, c, b1 >>
<1>1. Command(name, << a1, c, b1 >>).calls = calls /\ Reader(o)
  BY OptionsRead, CommandCalls
<1> HIDE DEF o
<1>2. Len(calls) = 4 /\ DOMAIN calls = 1 .. 4 /\ calls[1] = o /\ calls[2] = a1 /\ calls[3] = c /\ calls[4] = b1
  OBVIOUS
<1> HIDE DEF calls
<1>3. Asks(calls, 3)
  BY <1>1, <1>2 DEF Asks, Reads
<1> QED BY <1>1, <1>3 DEF OnlyAsks

LEMMA Reads2Asks ==
  ASSUME NEW name, NEW a1, NEW a2, NEW c, NEW b1,
         Reader(a1), Reader(a2), Discards(c), Quiet(b1)
  PROVE  OnlyAsks(Command(name, << a1, a2, c, b1 >>).calls)
<1> DEFINE o == Fetch("options", 1)
           calls == << o >> \o << a1, a2, c, b1 >>
<1>1. Command(name, << a1, a2, c, b1 >>).calls = calls /\ Reader(o)
  BY OptionsRead, CommandCalls
<1> HIDE DEF o
<1>2. Len(calls) = 5 /\ DOMAIN calls = 1 .. 5 /\ calls[1] = o /\ calls[2] = a1 /\ calls[3] = a2 /\ calls[4] = c /\ calls[5] = b1
  OBVIOUS
<1> HIDE DEF calls
<1>3. Asks(calls, 4)
  BY <1>1, <1>2 DEF Asks, Reads
<1> QED BY <1>1, <1>3 DEF OnlyAsks

LEMMA Reads3Asks ==
  ASSUME NEW name, NEW a1, NEW a2, NEW a3, NEW c, NEW b1,
         Reader(a1), Reader(a2), Reader(a3), Discards(c), Quiet(b1)
  PROVE  OnlyAsks(Command(name, << a1, a2, a3, c, b1 >>).calls)
<1> DEFINE o == Fetch("options", 1)
           calls == << o >> \o << a1, a2, a3, c, b1 >>
<1>1. Command(name, << a1, a2, a3, c, b1 >>).calls = calls /\ Reader(o)
  BY OptionsRead, CommandCalls
<1> HIDE DEF o
<1>2. Len(calls) = 6 /\ DOMAIN calls = 1 .. 6 /\ calls[1] = o /\ calls[2] = a1 /\ calls[3] = a2 /\ calls[4] = a3 /\ calls[5] = c /\ calls[6] = b1
  OBVIOUS
<1> HIDE DEF calls
<1>3. Asks(calls, 5)
  BY <1>1, <1>2 DEF Asks, Reads
<1> QED BY <1>1, <1>3 DEF OnlyAsks

LEMMA Reads4Asks ==
  ASSUME NEW name, NEW a1, NEW a2, NEW a3, NEW a4, NEW c, NEW b1,
         Reader(a1), Reader(a2), Reader(a3), Reader(a4), Discards(c), Quiet(b1)
  PROVE  OnlyAsks(Command(name, << a1, a2, a3, a4, c, b1 >>).calls)
<1> DEFINE o == Fetch("options", 1)
           calls == << o >> \o << a1, a2, a3, a4, c, b1 >>
<1>1. Command(name, << a1, a2, a3, a4, c, b1 >>).calls = calls /\ Reader(o)
  BY OptionsRead, CommandCalls
<1> HIDE DEF o
<1>2. Len(calls) = 7 /\ DOMAIN calls = 1 .. 7 /\ calls[1] = o /\ calls[2] = a1 /\ calls[3] = a2 /\ calls[4] = a3 /\ calls[5] = a4 /\ calls[6] = c /\ calls[7] = b1
  OBVIOUS
<1> HIDE DEF calls
<1>3. Asks(calls, 6)
  BY <1>1, <1>2 DEF Asks, Reads
<1> QED BY <1>1, <1>3 DEF OnlyAsks

\* What the calls in them are.
LEMMA ReadCalls ==
  /\ \A what : /\ Reader(Fetch(what, 1)) /\ Reader(Fetch(what, 4)) /\ Reader(Fetch(what, 7))
               /\ Reader(Fetch(what, 8)) /\ Reader(Fetch(what, 32)) /\ Reader(Point(what, 32))
               /\ Reader(Peek(what, 5)) /\ Reader(Use(what, 5)) /\ Reader(Use(what, 32))
               /\ Reader(Peek(what, 230)) /\ Reader(Use(what, 230)) /\ Reader(Sealed(what))
               /\ Reader(Key(what)) /\ Reader(Rest(what, 32)) /\ Reader(Rest(what, 97))
  /\ \A amount : Reader(Show(amount))
  /\ Reader(Exactly(8)) /\ Reader(Exactly(226))
  /\ Discards(Discard(TRUE)) /\ Discards(Discard(FALSE))
BY DEF Reader, ReadOps, Octets, Discards, Call, Fetch, Point, Peek, Use, Sealed, Key, Rest, Show, Exactly, Discard

LEMMA PutCalls ==
  \A what : /\ PutsField(Insert(what, 3), 64) /\ PutsField(Insert(what, 4), 64)
            /\ PutsField(Insert(what, 8), 64) /\ PutsField(Insert(what, 32), 64)
            /\ PutsField(Seal(what), 64) /\ PutsField(SetTx(TRUE), 64) /\ PutsField(SetTx(FALSE), 64)
            /\ PutsField(Insert(what, 32), 40) /\ PutsField(Use(what, 32), 40)
BY DEF PutsField, PutsAtMost, IsNumber, Call, Insert, Seal, Use, SetTx

LEMMA QuietCalls ==
  /\ Quiet(Ask) /\ Quiet(Never) /\ Quiet(Scribble(96))
  /\ \A what : Quiet(Use(what, 32))
  /\ \A amount : Quiet(Show(amount))
BY DEF Quiet, Call, Ask, Never, Scribble, Use, Show

LEMMA NumberCalls ==
  /\ \A n \in PrefixNumbers : PutsAtMost(Number(n), 40)
  /\ PutsAtMost(Number(1), 40) /\ PutsAtMost(Number(2), 40)
  /\ \A n : IsNumber(Number(n))
  /\ \A what : PutsAtMost(Insert(what, 32), 40)
<1>1. \A n \in PrefixNumbers : n \in Nat /\ Len(encode_varint(n)) <= 9
  BY PrefixAssumption
<1>2. Len(encode_varint(1)) <= 9 /\ Len(encode_varint(2)) <= 9
  BY VarintType
<1> QED BY <1>1, <1>2 DEF PutsAtMost, IsNumber, Call, Number, Insert

LEMMA ShortHandlers ==
  /\ AnswersShort(apdu_reset.calls)
  /\ AnswersShort(get_view_key_again.calls)
  /\ AnswersShort(manage_seedwords_clear.calls)
  /\ AnswersShort(verify_key.calls)
  /\ AnswersShort(sc_add.calls)
  /\ AnswersShort(sc_sub.calls)
  /\ AnswersShort(scalar_mulsub.calls)
  /\ AnswersShort(scal_mul_key.calls)
  /\ AnswersShort(scal_mul_base.calls)
  /\ AnswersShort(generate_keypair.calls)
  /\ AnswersShort(secret_key_to_public_key.calls)
  /\ AnswersShort(generate_key_derivation.calls)
  /\ AnswersShort(derivation_to_scalar.calls)
  /\ AnswersShort(derive_public_key.calls)
  /\ AnswersShort(derive_secret_key.calls)
  /\ AnswersShort(generate_key_image.calls)
  /\ AnswersShort(derive_subaddress_public_key.calls)
  /\ AnswersShort(get_subaddress.calls)
  /\ AnswersShort(get_subaddress_spend_public_key.calls)
  /\ AnswersShort(get_subaddress_secret_key.calls)
  /\ AnswersShort(unblind.calls)
  /\ AnswersShort(stealth.calls)
  /\ AnswersShort(close_tx.calls)
  /\ AnswersShort(set_signature_mode.calls)
  /\ AnswersShort(blind.calls)
  /\ AnswersShort(gen_commitment_mask.calls)
  /\ AnswersShort(mlsag_prehash_init_more.calls)
  /\ AnswersShort(mlsag_prehash_finalize_more.calls)
  /\ AnswersShort(mlsag_prehash_finalize.calls)
  /\ AnswersShort(tx_prompt_fake.calls)
  /\ AnswersShort(hash_to_scalar_init.calls)
  /\ AnswersShort(hash_to_scalar.calls)
  /\ AnswersShort(hash_to_scalar_batch.calls)
<1> USE ReadCalls, PutCalls
<1>1. AnswersShort(apdu_reset.calls)
  BY Reads2Puts2, Zenon DEF apdu_reset
<1>2. AnswersShort(get_view_key_again.calls)
  BY Reads0Puts1, Zenon DEF get_view_key_again
<1>3. AnswersShort(manage_seedwords_clear.calls)
  BY Reads0Puts0, Zenon DEF manage_seedwords_clear
<1>4. AnswersShort(verify_key.calls)
  BY Reads2Puts1, Zenon DEF verify_key
<1>5. AnswersShort(sc_add.calls)
  BY Reads2Puts1, Zenon DEF sc_add
<1>6. AnswersShort(sc_sub.calls)
  BY Reads2Puts1, Zenon DEF sc_sub
<1>7. AnswersShort(scalar_mulsub.calls)
  BY Reads3Puts1, Zenon DEF scalar_mulsub
<1>8. AnswersShort(scal_mul_key.calls)
  BY Reads2Puts1, Zenon DEF scal_mul_key
<1>9. AnswersShort(scal_mul_base.calls)
  BY Reads1Puts1, Zenon DEF scal_mul_base
<1>10. AnswersShort(generate_keypair.calls)
  BY Reads0Puts2, Zenon DEF generate_keypair
<1>11. AnswersShort(secret_key_to_public_key.calls)
  BY Reads1Puts1, Zenon DEF secret_key_to_public_key
<1>12. AnswersShort(generate_key_derivation.calls)
  BY Reads2Puts1, Zenon DEF generate_key_derivation
<1>13. AnswersShort(derivation_to_scalar.calls)
  BY Reads2Puts1, Zenon DEF derivation_to_scalar
<1>14. AnswersShort(derive_public_key.calls)
  BY Reads3Puts1, Zenon DEF derive_public_key
<1>15. AnswersShort(derive_secret_key.calls)
  BY Reads3Puts1, Zenon DEF derive_secret_key
<1>16. AnswersShort(generate_key_image.calls)
  BY Reads2Puts1, Zenon DEF generate_key_image
<1>17. AnswersShort(derive_subaddress_public_key.calls)
  BY Reads3Puts1, Zenon DEF derive_subaddress_public_key
<1>18. AnswersShort(get_subaddress.calls)
  BY Reads1Puts2, Zenon DEF get_subaddress
<1>19. AnswersShort(get_subaddress_spend_public_key.calls)
  BY Reads1Puts1, Zenon DEF get_subaddress_spend_public_key
<1>20. AnswersShort(get_subaddress_secret_key.calls)
  BY Reads2Puts1, Zenon DEF get_subaddress_secret_key
<1>21. AnswersShort(unblind.calls)
  BY Reads3Puts2, Zenon DEF unblind
<1>22. AnswersShort(stealth.calls)
  BY Reads3Puts1, Zenon DEF stealth
<1>23. AnswersShort(close_tx.calls)
  BY Reads0Puts1, Zenon DEF close_tx
<1>24. AnswersShort(set_signature_mode.calls)
  BY Reads1Puts1, Zenon DEF set_signature_mode
<1>25. AnswersShort(blind.calls)
  BY Reads3Puts2, Zenon DEF blind
<1>26. AnswersShort(gen_commitment_mask.calls)
  BY Reads1Puts1, Zenon DEF gen_commitment_mask
<1>27. AnswersShort(mlsag_prehash_init_more.calls)
  BY Reads1Puts0, Zenon DEF mlsag_prehash_init_more
<1>28. AnswersShort(mlsag_prehash_finalize_more.calls)
  BY Reads1Puts0, Zenon DEF mlsag_prehash_finalize_more
<1>29. AnswersShort(mlsag_prehash_finalize.calls)
  BY Reads2Puts0, Zenon DEF mlsag_prehash_finalize
<1>30. AnswersShort(tx_prompt_fake.calls)
  BY Reads0Puts0, Zenon DEF tx_prompt_fake
<1>31. AnswersShort(hash_to_scalar_init.calls)
  BY Reads0Puts0, Zenon DEF hash_to_scalar_init
<1>32. AnswersShort(hash_to_scalar.calls)
  BY Reads0Puts1, Zenon DEF hash_to_scalar
<1>33. AnswersShort(hash_to_scalar_batch.calls)
  BY Reads2Puts0, Zenon DEF hash_to_scalar_batch
<1> QED BY <1>1, <1>2, <1>3, <1>4, <1>5, <1>6, <1>7, <1>8, <1>9, <1>10, <1>11, <1>12, <1>13, <1>14,
            <1>15, <1>16, <1>17, <1>18, <1>19, <1>20, <1>21, <1>22, <1>23, <1>24, <1>25, <1>26,
            <1>27, <1>28, <1>29, <1>30, <1>31, <1>32, <1>33

LEMMA AskingHandlers ==
  /\ OnlyAsks(get_view_key.calls)
  /\ OnlyAsks(display_address.calls)
  /\ OnlyAsks(tx_prefix_outputs_matches.calls)
  /\ \A a : OnlyAsks(mlsag_prehash_init(a).calls)
  /\ \A a : OnlyAsks(tx_prompt_fee(a).calls)
  /\ \A a : OnlyAsks(tx_prompt_amount(a).calls)
  /\ \A a : OnlyAsks(tx_prompt_loopback(a).calls)
<1> USE ReadCalls, QuietCalls
<1>1. OnlyAsks(get_view_key.calls)
  BY Reads0Asks, Zenon DEF get_view_key
<1>2. OnlyAsks(display_address.calls)
  BY Reads2Asks, Zenon DEF display_address
<1>3. OnlyAsks(tx_prefix_outputs_matches.calls)
  BY Reads3Asks, Zenon DEF tx_prefix_outputs_matches
<1>4. \A a : OnlyAsks(mlsag_prehash_init(a).calls)
  BY Reads4Asks, Zenon DEF mlsag_prehash_init
<1>5. \A a : OnlyAsks(tx_prompt_fee(a).calls)
  BY Reads1Asks, Zenon DEF tx_prompt_fee
<1>6. \A a : OnlyAsks(tx_prompt_amount(a).calls)
  BY Reads1Asks, Zenon DEF tx_prompt_amount
<1>7. \A a : OnlyAsks(tx_prompt_loopback(a).calls)
  BY Reads2Asks, Zenon DEF tx_prompt_loopback
<1> QED BY <1>1, <1>2, <1>3, <1>4, <1>5, <1>6, <1>7

LEMMA PrefixHandlers ==
  /\ \A n \in PrefixNumbers : AnswersNumbers(tx_prefix_start(n).calls)
  /\ \A n \in PrefixNumbers : AnswersNumbers(tx_prefix_inputs(n).calls)
  /\ \A n \in PrefixNumbers : AnswersNumbers(tx_prefix_outputs(n).calls)
  /\ \A n \in PrefixNumbers : AnswersNumbers(tx_prefix_outputs_size(n).calls)
<1> USE ReadCalls, NumberCalls
<1>1. \A n \in PrefixNumbers : AnswersNumbers(tx_prefix_start(n).calls)
  BY Reads3Numbers3, Zenon DEF tx_prefix_start
<1>2. \A n \in PrefixNumbers : AnswersNumbers(tx_prefix_inputs(n).calls)
  BY Reads3Numbers5, Zenon DEF tx_prefix_inputs
<1>3. \A n \in PrefixNumbers : AnswersNumbers(tx_prefix_outputs(n).calls)
  BY Reads3Numbers3, Zenon DEF tx_prefix_outputs
<1>4. \A n \in PrefixNumbers : AnswersNumbers(tx_prefix_outputs_size(n).calls)
  BY Reads1Numbers1, Zenon DEF tx_prefix_outputs_size
<1> QED BY <1>1, <1>2, <1>3, <1>4

LEMMA ClaimedHandler ==
  ASSUME NEW size \in ClaimedSizes
  PROVE  AnswersNumbers(tx_prefix_extra_claimed(size).calls)
<1> DEFINE field == Rest("extra", 251)
           over == Skip("extra", size)
           fault == Fault
<1>1. Reader(field) /\ Reader(over) /\ PutsAtMost(fault, 40)
  BY DEF Reader, ReadOps, Octets, PutsAtMost, Call, Rest, Skip, Fault
<1>2. IsNumber(Number(size)) /\ PutsAtMost(Number(size), 40)
  <2>1. size \in Nat /\ Len(encode_varint(size)) <= 9
    BY ClaimAssumption
  <2> QED BY <2>1 DEF PutsAtMost, IsNumber, Call, Number
<1>3. tx_prefix_extra_claimed(size) =
        Command("tx_prefix_extra", << Fetch("extra_size", 4), field, over, Discard(FALSE), Number(size), fault >>)
  BY SMT DEF tx_prefix_extra_claimed
<1> HIDE DEF field, over, fault
<1> QED BY <1>1, <1>2, <1>3, ReadCalls, Reads3Numbers2, Zenon

LEMMA ProofHandler == AnswersLong(get_tx_proof.calls)
<1> DEFINE o == Fetch("options", 1)
           a1 == Point("msg", 32)
           a2 == Point("R", 32)
           a3 == Point("A", 32)
           a4 == Point("B", 32)
           a5 == Point("D", 32)
           a6 == Key("r")
           c == Discard(FALSE)
           x1 == Use("msg", 32)
           x2 == Use("D", 32)
           x3 == Use("B", 32)
           x4 == Use("A", 32)
           y1 == Insert("sig_c", 32)
           y2 == Insert("sig_r", 32)
           calls == << o >> \o << a1, a2, a3, a4, a5, a6, c, x1, x2, x3, x4, y1, y2 >>
<1>1. get_tx_proof.calls = calls
  BY CommandCalls, Zenon DEF get_tx_proof
<1>2. /\ Reader(o) /\ Reader(a1) /\ Reader(a2) /\ Reader(a3) /\ Reader(a4) /\ Reader(a5)
      /\ Reader(a6) /\ Discards(c) /\ PutsField(x1, 40) /\ PutsField(x2, 40)
      /\ PutsField(x3, 40) /\ PutsField(x4, 40) /\ PutsField(y1, 40) /\ PutsField(y2, 40)
  BY OptionsRead, ReadCalls, PutCalls, ZenonT(60)
<1> HIDE DEF o, a1, a2, a3, a4, a5, a6, c, x1, x2, x3, x4, y1, y2
<1>3. /\ Len(calls) = 14 /\ DOMAIN calls = 1 .. 14 /\ calls[1] = o /\ calls[2] = a1
      /\ calls[3] = a2 /\ calls[4] = a3 /\ calls[5] = a4 /\ calls[6] = a5 /\ calls[7] = a6
      /\ calls[8] = c /\ calls[9] = x1 /\ calls[10] = x2 /\ calls[11] = x3 /\ calls[12] = x4
      /\ calls[13] = y1 /\ calls[14] = y2
  OBVIOUS
<1> HIDE DEF calls
<1>4. Fits(calls, 8, 14, 40)
  BY <1>2, <1>3 DEF Fits, Reads
<1> QED BY <1>1, <1>4 DEF AnswersLong

LEMMA PutKeyHandler == AnswersShort(put_key.calls)
<1> DEFINE size == Exactly(226)
           address == Rest("address", 97)
<1>1. /\ Reader(size) /\ \A what : Reader(Fetch(what, 32))
      /\ Reader(address) /\ Discards(Discard(TRUE))
  BY ReadCalls
<1>2. put_key = Command("put_key", << size, Fetch("a", 32), Fetch("A", 32), Fetch("b", 32), Fetch("B", 32),
                                      address, Discard(TRUE) >>)
  BY SMT DEF put_key
<1> HIDE DEF size, address
<1> QED BY <1>1, <1>2, Reads6Puts0, Zenon

LEMMA SeedwordsHandler == OnlyAsks(manage_seedwords.calls)
<1> DEFINE words == Peek("words", 230)
           letters == Use("words", 230)
           scribble == Scribble(96)
<1>1. /\ \A what : Reader(Fetch(what, 4))
      /\ Reader(words) /\ Reader(letters) /\ Discards(Discard(TRUE)) /\ Quiet(scribble)
  BY ReadCalls, QuietCalls
<1>2. manage_seedwords = Command("manage_seedwords", << Fetch("w_start", 4), Fetch("w_count", 4), words, letters,
                                                        Discard(TRUE), scribble >>)
  BY SMT DEF manage_seedwords
<1> HIDE DEF words, letters, scribble
<1> QED BY <1>1, <1>2, Reads4Asks, Zenon

LEMMA SignHandler ==
  ASSUME NEW real \in BOOLEAN
  PROVE  AnswersShort(mlsag_sign(real).calls)
<1>1. CASE real
  <2> DEFINE o == Fetch("options", 1)
             a == Sealed("xin")
             b == Sealed("alpha")
             c == Discard(TRUE)
             x == Insert("ss2", 32)
             y == Insert("sig_mode", 4)
             calls == << o >> \o (<< a, b >> \o << c, x, y >>)
  <2>1. mlsag_sign(real).calls = calls
    BY <1>1, CommandCalls, Zenon DEF mlsag_sign
  <2>2. /\ Reader(o) /\ Reader(a) /\ Reader(b) /\ Discards(c) /\ PutsField(x, 64)
        /\ PutsField(y, 64)
    BY OptionsRead, ReadCalls, PutCalls, ZenonT(60)
  <2> HIDE DEF o, a, b, c, x, y
  <2>3. /\ Len(calls) = 6 /\ DOMAIN calls = 1 .. 6 /\ calls[1] = o /\ calls[2] = a
        /\ calls[3] = b /\ calls[4] = c /\ calls[5] = x /\ calls[6] = y
    OBVIOUS
  <2> HIDE DEF calls
  <2>4. Fits(calls, 4, 6, 64)
    BY <2>2, <2>3 DEF Fits, Reads
  <2> QED BY <2>1, <2>4 DEF AnswersShort
<1>2. CASE ~real
  <2> DEFINE o == Fetch("options", 1)
             a == Fetch("xin", 32)
             b == Fetch("alpha", 32)
             c == Discard(TRUE)
             x == Insert("ss2", 32)
             y == Insert("sig_mode", 4)
             calls == << o >> \o (<< a, b >> \o << c, x, y >>)
  <2>1. mlsag_sign(real).calls = calls
    BY <1>2, CommandCalls, Zenon DEF mlsag_sign
  <2>2. /\ Reader(o) /\ Reader(a) /\ Reader(b) /\ Discards(c) /\ PutsField(x, 64)
        /\ PutsField(y, 64)
    BY OptionsRead, ReadCalls, PutCalls, ZenonT(60)
  <2> HIDE DEF o, a, b, c, x, y
  <2>3. /\ Len(calls) = 6 /\ DOMAIN calls = 1 .. 6 /\ calls[1] = o /\ calls[2] = a
        /\ calls[3] = b /\ calls[4] = c /\ calls[5] = x /\ calls[6] = y
    OBVIOUS
  <2> HIDE DEF calls
  <2>4. Fits(calls, 4, 6, 64)
    BY <2>2, <2>3 DEF Fits, Reads
  <2> QED BY <2>1, <2>4 DEF AnswersShort
<1> QED BY <1>1, <1>2

LEMMA HashHandler ==
  ASSUME NEW first \in BOOLEAN, NEW last \in BOOLEAN
  PROVE  AnswersShort(mlsag_hash(first, last).calls)
<1>1. CASE first /\ last
  <2> DEFINE o == Fetch("options", 1)
             c == Discard(TRUE)
             x == Insert("c", 32)
             calls == << o >> \o (<< >> \o << c >> \o << x >>)
  <2>1. mlsag_hash(first, last).calls = calls
    BY <1>1, CommandCalls, Zenon DEF mlsag_hash
  <2>2. Reader(o) /\ Discards(c) /\ PutsField(x, 64)
    BY OptionsRead, ReadCalls, PutCalls, ZenonT(60)
  <2> HIDE DEF o, c, x
  <2>3. /\ Len(calls) = 3 /\ DOMAIN calls = 1 .. 3 /\ calls[1] = o /\ calls[2] = c
        /\ calls[3] = x
    OBVIOUS
  <2> HIDE DEF calls
  <2>4. Fits(calls, 2, 3, 64)
    BY <2>2, <2>3 DEF Fits, Reads
  <2> QED BY <2>1, <2>4 DEF AnswersShort
<1>2. CASE first /\ ~last
  <2> DEFINE o == Fetch("options", 1)
             c == Discard(TRUE)
             calls == << o >> \o (<< >> \o << c >> \o << >>)
  <2>1. mlsag_hash(first, last).calls = calls
    BY <1>2, CommandCalls, Zenon DEF mlsag_hash
  <2>2. Reader(o) /\ Discards(c)
    BY OptionsRead, ReadCalls, PutCalls, ZenonT(60)
  <2> HIDE DEF o, c
  <2>3. Len(calls) = 2 /\ DOMAIN calls = 1 .. 2 /\ calls[1] = o /\ calls[2] = c
    OBVIOUS
  <2> HIDE DEF calls
  <2>4. Fits(calls, 2, 2, 64)
    BY <2>2, <2>3 DEF Fits, Reads
  <2> QED BY <2>1, <2>4 DEF AnswersShort
<1>3. CASE ~first /\ last
  <2> DEFINE o == Fetch("options", 1)
             a == Fetch("msg", 32)
             c == Discard(TRUE)
             x == Insert("c", 32)
             calls == << o >> \o (<< a >> \o << c >> \o << x >>)
  <2>1. mlsag_hash(first, last).calls = calls
    BY <1>3, CommandCalls, Zenon DEF mlsag_hash
  <2>2. Reader(o) /\ Reader(a) /\ Discards(c) /\ PutsField(x, 64)
    BY OptionsRead, ReadCalls, PutCalls, ZenonT(60)
  <2> HIDE DEF o, a, c, x
  <2>3. /\ Len(calls) = 4 /\ DOMAIN calls = 1 .. 4 /\ calls[1] = o /\ calls[2] = a
        /\ calls[3] = c /\ calls[4] = x
    OBVIOUS
  <2> HIDE DEF calls
  <2>4. Fits(calls, 3, 4, 64)
    BY <2>2, <2>3 DEF Fits, Reads
  <2> QED BY <2>1, <2>4 DEF AnswersShort
<1>4. CASE ~first /\ ~last
  <2> DEFINE o == Fetch("options", 1)
             a == Fetch("msg", 32)
             c == Discard(TRUE)
             calls == << o >> \o (<< a >> \o << c >> \o << >>)
  <2>1. mlsag_hash(first, last).calls = calls
    BY <1>4, CommandCalls, Zenon DEF mlsag_hash
  <2>2. Reader(o) /\ Reader(a) /\ Discards(c)
    BY OptionsRead, ReadCalls, PutCalls, ZenonT(60)
  <2> HIDE DEF o, a, c
  <2>3. /\ Len(calls) = 3 /\ DOMAIN calls = 1 .. 3 /\ calls[1] = o /\ calls[2] = a
        /\ calls[3] = c
    OBVIOUS
  <2> HIDE DEF calls
  <2>4. Fits(calls, 3, 3, 64)
    BY <2>2, <2>3 DEF Fits, Reads
  <2> QED BY <2>1, <2>4 DEF AnswersShort
<1> QED BY <1>1, <1>2, <1>3, <1>4

LEMMA UpdateHandler ==
  ASSUME NEW amount
  PROVE  /\ OnlyAsks(mlsag_prehash_update(2, amount, TRUE).calls)
         /\ OnlyAsks(mlsag_prehash_update(0, amount, TRUE).calls)
         /\ OnlyAsks(mlsag_prehash_update(2, amount, FALSE).calls)
<1>0. 0 # 2
  OBVIOUS
<1>1. OnlyAsks(mlsag_prehash_update(2, amount, TRUE).calls)
  <2> DEFINE o == Fetch("options", 1)
             a == Fetch("is_subaddress", 1)
             i == Fetch("is_change", 1)
             b1 == Point("Aout", 32)
             b2 == Point("Bout", 32)
             b3 == Sealed("AKout")
             b4 == Fetch("C", 32)
             b5 == Fetch("k", 32)
             b6 == Fetch("v", 32)
             c == Discard(FALSE)
             x == Use("Aout", 32)
             y == Use("Bout", 32)
             p == Show(amount)
             q == Ask
             calls == << o >> \o (<< a >> \o << i >> \o << b1, b2, b3, b4, b5, b6 >> \o << c, x, y >> \o << p, q >>)
  <2>1. mlsag_prehash_update(2, amount, TRUE).calls = calls
    BY CommandCalls, Zenon DEF mlsag_prehash_update, OutputFields
  <2>2. /\ Reader(o) /\ Reader(a) /\ Reader(i) /\ Reader(b1) /\ Reader(b2) /\ Reader(b3)
        /\ Reader(b4) /\ Reader(b5) /\ Reader(b6) /\ Discards(c) /\ Quiet(x) /\ Quiet(y)
        /\ Quiet(p) /\ Quiet(q)
    BY OptionsRead, ReadCalls, QuietCalls, ZenonT(60)
  <2> HIDE DEF o, a, i, b1, b2, b3, b4, b5, b6, c, x, y, p, q
  <2>3. /\ Len(calls) = 14 /\ DOMAIN calls = 1 .. 14 /\ calls[1] = o /\ calls[2] = a
        /\ calls[3] = i /\ calls[4] = b1 /\ calls[5] = b2 /\ calls[6] = b3 /\ calls[7] = b4
        /\ calls[8] = b5 /\ calls[9] = b6 /\ calls[10] = c /\ calls[11] = x /\ calls[12] = y
        /\ calls[13] = p /\ calls[14] = q
    OBVIOUS
  <2> HIDE DEF calls
  <2>4. Asks(calls, 10)
    BY <2>2, <2>3 DEF Asks, Reads
  <2> QED BY <2>1, <2>4 DEF OnlyAsks
<1>2. OnlyAsks(mlsag_prehash_update(0, amount, TRUE).calls)
  <2> DEFINE o == Fetch("options", 1)
             a == Fetch("is_subaddress", 1)
             b1 == Point("Aout", 32)
             b2 == Point("Bout", 32)
             b3 == Sealed("AKout")
             b4 == Fetch("C", 32)
             b5 == Fetch("k", 32)
             b6 == Fetch("v", 32)
             c == Discard(FALSE)
             x == Use("Aout", 32)
             y == Use("Bout", 32)
             p == Show(amount)
             q == Ask
             calls == << o >> \o (<< a >> \o << >> \o << b1, b2, b3, b4, b5, b6 >> \o << c, x, y >> \o << p, q >>)
  <2>1. mlsag_prehash_update(0, amount, TRUE).calls = calls
    BY <1>0, CommandCalls, Zenon DEF mlsag_prehash_update, OutputFields
  <2>2. /\ Reader(o) /\ Reader(a) /\ Reader(b1) /\ Reader(b2) /\ Reader(b3) /\ Reader(b4)
        /\ Reader(b5) /\ Reader(b6) /\ Discards(c) /\ Quiet(x) /\ Quiet(y) /\ Quiet(p)
        /\ Quiet(q)
    BY OptionsRead, ReadCalls, QuietCalls, ZenonT(60)
  <2> HIDE DEF o, a, b1, b2, b3, b4, b5, b6, c, x, y, p, q
  <2>3. /\ Len(calls) = 13 /\ DOMAIN calls = 1 .. 13 /\ calls[1] = o /\ calls[2] = a
        /\ calls[3] = b1 /\ calls[4] = b2 /\ calls[5] = b3 /\ calls[6] = b4 /\ calls[7] = b5
        /\ calls[8] = b6 /\ calls[9] = c /\ calls[10] = x /\ calls[11] = y /\ calls[12] = p
        /\ calls[13] = q
    OBVIOUS
  <2> HIDE DEF calls
  <2>4. Asks(calls, 9)
    BY <2>2, <2>3 DEF Asks, Reads
  <2> QED BY <2>1, <2>4 DEF OnlyAsks
<1>3. OnlyAsks(mlsag_prehash_update(2, amount, FALSE).calls)
  <2> DEFINE o == Fetch("options", 1)
             a == Fetch("is_subaddress", 1)
             i == Fetch("is_change", 1)
             b1 == Point("Aout", 32)
             b2 == Point("Bout", 32)
             b3 == Sealed("AKout")
             b4 == Fetch("C", 32)
             b5 == Fetch("k", 32)
             b6 == Fetch("v", 32)
             c == Discard(FALSE)
             x == Use("Aout", 32)
             y == Use("Bout", 32)
             calls == << o >> \o (<< a >> \o << i >> \o << b1, b2, b3, b4, b5, b6 >> \o << c, x, y >> \o << >>)
  <2>1. mlsag_prehash_update(2, amount, FALSE).calls = calls
    BY CommandCalls, Zenon DEF mlsag_prehash_update, OutputFields
  <2>2. /\ Reader(o) /\ Reader(a) /\ Reader(i) /\ Reader(b1) /\ Reader(b2) /\ Reader(b3)
        /\ Reader(b4) /\ Reader(b5) /\ Reader(b6) /\ Discards(c) /\ Quiet(x) /\ Quiet(y)
    BY OptionsRead, ReadCalls, QuietCalls, ZenonT(60)
  <2> HIDE DEF o, a, i, b1, b2, b3, b4, b5, b6, c, x, y
  <2>3. /\ Len(calls) = 12 /\ DOMAIN calls = 1 .. 12 /\ calls[1] = o /\ calls[2] = a
        /\ calls[3] = i /\ calls[4] = b1 /\ calls[5] = b2 /\ calls[6] = b3 /\ calls[7] = b4
        /\ calls[8] = b5 /\ calls[9] = b6 /\ calls[10] = c /\ calls[11] = x /\ calls[12] = y
    OBVIOUS
  <2> HIDE DEF calls
  <2>4. Asks(calls, 10)
    BY <2>2, <2>3 DEF Asks, Reads
  <2> QED BY <2>1, <2>4 DEF OnlyAsks
<1> QED BY <1>1, <1>2, <1>3

LEMMA OutputKeysHandler ==
  ASSUME NEW v \in Int, NEW additional \in BOOLEAN
  PROVE  AnswersShort(generate_txout_keys(v, additional).calls)
<1> DEFINE o == Fetch("options", 1)
           a1 == Fetch("tx_version", 4)
           a2 == Key("tx_key")
           a3 == Point("txkey_pub", 32)
           a4 == Point("Aout", 32)
           a5 == Point("Bout", 32)
           a6 == Fetch("output_index", 4)
           a7 == Fetch("is_change", 1)
           a8 == Fetch("is_subaddress", 1)
           a9 == Fetch("need_additional_txkeys", 1)
           a10 == IF additional THEN Key("additional_txkey") ELSE Point("additional_txkey", 32)
           a11 == Use("Aout", 32)
           a12 == Use("Bout", 32)
           a13 == Use("txkey_pub", 32)
           c == Discard(FALSE)
           x == Seal("amount_key")
           y == Insert("out_eph_public_key", 32)
           z == Insert("additional_txkey_pub", 32)
           reads == << a1, a2, a3, a4, a5, a6, a7, a8, a9, a10, a11, a12, a13, c >>
           key == IF v > 1 THEN << x >> ELSE << >>
           pub == IF additional THEN << z >> ELSE << >>
           calls == << o >> \o (reads \o key \o << y >> \o pub)
<1>1. generate_txout_keys(v, additional).calls = calls
  <2>1. CASE v > 1 /\ additional
    BY <2>1, CommandCalls, Zenon DEF generate_txout_keys
  <2>2. CASE v > 1 /\ ~additional
    BY <2>2, CommandCalls, Zenon DEF generate_txout_keys
  <2>3. CASE ~(v > 1) /\ additional
    BY <2>3, CommandCalls, Zenon DEF generate_txout_keys
  <2>4. CASE ~(v > 1) /\ ~additional
    BY <2>4, CommandCalls, Zenon DEF generate_txout_keys
  <2> QED BY <2>1, <2>2, <2>3, <2>4
<1>2. /\ Reader(o) /\ Reader(a1) /\ Reader(a2) /\ Reader(a3) /\ Reader(a4) /\ Reader(a5)
      /\ Reader(a6) /\ Reader(a7) /\ Reader(a8) /\ Reader(a9)
  BY DEF Reader, ReadOps, Octets, Call, Fetch, Point, Key
<1>3. Reader(a10) /\ Reader(a11) /\ Reader(a12) /\ Reader(a13) /\ Discards(c)
  BY DEF Reader, ReadOps, Octets, Discards, Discard, Call, Use, Point, Key
<1>4. PutsField(x, 64) /\ PutsField(y, 64) /\ PutsField(z, 64)
  BY PutCalls, Zenon
<1> HIDE DEF o, a1, a2, a3, a4, a5, a6, a7, a8, a9, a10, a11, a12, a13, c, x, y, z
<1>5. CASE v > 1 /\ additional
  <2>1. calls = << o >> \o (reads \o << x >> \o << y >> \o << z >>)
    BY <1>5, Zenon
  <2> HIDE DEF key, pub, calls
  <2>2. /\ Len(calls) = 18 /\ DOMAIN calls = 1 .. 18
        /\ calls[1] = o /\ calls[2] = a1 /\ calls[3] = a2 /\ calls[4] = a3 /\ calls[5] = a4
        /\ calls[6] = a5 /\ calls[7] = a6 /\ calls[8] = a7 /\ calls[9] = a8 /\ calls[10] = a9
        /\ calls[11] = a10 /\ calls[12] = a11 /\ calls[13] = a12 /\ calls[14] = a13 /\ calls[15] = c
        /\ calls[16] = x /\ calls[17] = y /\ calls[18] = z
    BY <2>1
  <2>3. Fits(calls, 15, 18, 64)
    BY <1>2, <1>3, <1>4, <2>2 DEF Fits, Reads
  <2> QED BY <1>1, <2>3 DEF AnswersShort
<1>6. CASE v > 1 /\ ~additional
  <2>1. calls = << o >> \o (reads \o << x >> \o << y >> \o << >>)
    BY <1>6, Zenon
  <2> HIDE DEF key, pub, calls
  <2>2. /\ Len(calls) = 17 /\ DOMAIN calls = 1 .. 17
        /\ calls[1] = o /\ calls[2] = a1 /\ calls[3] = a2 /\ calls[4] = a3 /\ calls[5] = a4
        /\ calls[6] = a5 /\ calls[7] = a6 /\ calls[8] = a7 /\ calls[9] = a8 /\ calls[10] = a9
        /\ calls[11] = a10 /\ calls[12] = a11 /\ calls[13] = a12 /\ calls[14] = a13 /\ calls[15] = c
        /\ calls[16] = x /\ calls[17] = y
    BY <2>1
  <2>3. Fits(calls, 15, 17, 64)
    BY <1>2, <1>3, <1>4, <2>2 DEF Fits, Reads
  <2> QED BY <1>1, <2>3 DEF AnswersShort
<1>7. CASE ~(v > 1) /\ additional
  <2>1. calls = << o >> \o (reads \o << >> \o << y >> \o << z >>)
    BY <1>7, Zenon
  <2> HIDE DEF key, pub, calls
  <2>2. /\ Len(calls) = 17 /\ DOMAIN calls = 1 .. 17
        /\ calls[1] = o /\ calls[2] = a1 /\ calls[3] = a2 /\ calls[4] = a3 /\ calls[5] = a4
        /\ calls[6] = a5 /\ calls[7] = a6 /\ calls[8] = a7 /\ calls[9] = a8 /\ calls[10] = a9
        /\ calls[11] = a10 /\ calls[12] = a11 /\ calls[13] = a12 /\ calls[14] = a13 /\ calls[15] = c
        /\ calls[16] = y /\ calls[17] = z
    BY <2>1
  <2>3. Fits(calls, 15, 17, 64)
    BY <1>2, <1>3, <1>4, <2>2 DEF Fits, Reads
  <2> QED BY <1>1, <2>3 DEF AnswersShort
<1>8. CASE ~(v > 1) /\ ~additional
  <2>1. calls = << o >> \o (reads \o << >> \o << y >> \o << >>)
    BY <1>8, Zenon
  <2> HIDE DEF key, pub, calls
  <2>2. /\ Len(calls) = 16 /\ DOMAIN calls = 1 .. 16
        /\ calls[1] = o /\ calls[2] = a1 /\ calls[3] = a2 /\ calls[4] = a3 /\ calls[5] = a4
        /\ calls[6] = a5 /\ calls[7] = a6 /\ calls[8] = a7 /\ calls[9] = a8 /\ calls[10] = a9
        /\ calls[11] = a10 /\ calls[12] = a11 /\ calls[13] = a12 /\ calls[14] = a13 /\ calls[15] = c
        /\ calls[16] = y
    BY <2>1
  <2>3. Fits(calls, 15, 16, 64)
    BY <1>2, <1>3, <1>4, <2>2 DEF Fits, Reads
  <2> QED BY <1>1, <2>3 DEF AnswersShort
<1> QED BY <1>5, <1>6, <1>7, <1>8

\* Three handlers that put more, and by calls of different sizes.
LEMMA PublicKeyHandler ==
  Orderly(get_public_key.calls)
<1> DEFINE o == Fetch("options", 1)
           c == Discard(TRUE)
           x == Insert("A", 32)
           y == Insert("B", 32)
           z == Address
           calls == << o >> \o << c, x, y, z >>
           sizes == << 0, 0, 32, 64, 162 >>
<1>0. get_public_key = Command("get_public_key", << c, x, y, z >>)
  BY SMT DEF get_public_key
<1>2. get_public_key \in Commands
  BY DEF Commands, FreeCommands
<1>3. /\ Reader(o) /\ Discards(c) /\ PutsField(x, 32) /\ PutsField(y, 32)
      /\ PutsField(z, 98)
  BY DEF Reader, ReadOps, Octets, Discards, PutsField, PutsAtMost, IsNumber, AddressSize, Call, Fetch,
         Sealed, Discard, Insert, Seal, SetTx, Address
<1> HIDE DEF c, x, y, z
<1>1. get_public_key.calls = calls
  BY <1>0, CommandCalls, Zenon
<1> HIDE DEF o
<1>4. /\ Len(calls) = 5 /\ DOMAIN calls = 1 .. 5
      /\ calls[1] = o /\ calls[2] = c /\ calls[3] = x /\ calls[4] = y /\ calls[5] = z
  OBVIOUS
<1> HIDE DEF calls
<1>5. \A i \in 1 .. 5 : calls[i].what \in Names
  BY <1>1, <1>2, <1>4, NamesOfCalls
<1>6. Reads(calls, 2)
  BY <1>3, <1>4 DEF Reads
<1>7. sizes[2] = 0 /\ sizes[3] = 32 /\ sizes[4] = 64 /\ sizes[5] = 162
  OBVIOUS
<1> HIDE DEF sizes
<1>8. \A i \in 2 .. 5 : sizes[i] \in Nat /\ sizes[i] <= MaxPut
  BY <1>7 DEF MaxPut
<1>9. \A i \in 1 .. 5 : i > 2 => sizes[i - 1] <= sizes[i] /\ PutsField(calls[i], sizes[i] - sizes[i - 1])
  BY <1>3, <1>4, <1>7
<1>10. Answers(calls, 2, sizes)
  BY <1>4, <1>5, <1>6, <1>8, <1>9 DEF Answers, PutsField
<1>12. NumberFirst(calls, 2)
  BY <1>4, <1>6, <1>9, NoNumbers DEF PutsField
<1> QED BY <1>1, <1>10, <1>12 DEF Orderly

LEMMA PrekeyHandler ==
  Orderly(get_chacha8_prekey.calls)
<1> DEFINE o == Fetch("options", 1)
           c == Discard(FALSE)
           x == Insert("prekey", 200)
           calls == << o >> \o << c, x >>
           sizes == << 0, 0, 200 >>
<1>0. get_chacha8_prekey = Command("get_chacha8_prekey", << c, x >>)
  BY SMT DEF get_chacha8_prekey
<1>2. get_chacha8_prekey \in Commands
  BY DEF Commands, FreeCommands
<1>3. /\ Reader(o) /\ Discards(c) /\ PutsField(x, 200)
  BY DEF Reader, ReadOps, Octets, Discards, PutsField, PutsAtMost, IsNumber, AddressSize, Call, Fetch,
         Sealed, Discard, Insert, Seal, SetTx, Address
<1> HIDE DEF c, x
<1>1. get_chacha8_prekey.calls = calls
  BY <1>0, CommandCalls, Zenon
<1> HIDE DEF o
<1>4. /\ Len(calls) = 3 /\ DOMAIN calls = 1 .. 3
      /\ calls[1] = o /\ calls[2] = c /\ calls[3] = x
  OBVIOUS
<1> HIDE DEF calls
<1>5. \A i \in 1 .. 3 : calls[i].what \in Names
  BY <1>1, <1>2, <1>4, NamesOfCalls
<1>6. Reads(calls, 2)
  BY <1>3, <1>4 DEF Reads
<1>7. sizes[2] = 0 /\ sizes[3] = 200
  OBVIOUS
<1> HIDE DEF sizes
<1>8. \A i \in 2 .. 3 : sizes[i] \in Nat /\ sizes[i] <= MaxPut
  BY <1>7 DEF MaxPut
<1>9. \A i \in 1 .. 3 : i > 2 => sizes[i - 1] <= sizes[i] /\ PutsField(calls[i], sizes[i] - sizes[i - 1])
  BY <1>3, <1>4, <1>7
<1>10. Answers(calls, 2, sizes)
  BY <1>4, <1>5, <1>6, <1>8, <1>9 DEF Answers, PutsField
<1>12. NumberFirst(calls, 2)
  BY <1>4, <1>6, <1>9, NoNumbers DEF PutsField
<1> QED BY <1>1, <1>10, <1>12 DEF Orderly

LEMMA OpenHandler ==
  Orderly(open_tx.calls)
<1> DEFINE o == Fetch("options", 1)
           a == Fetch("account", 4)
           c == Discard(TRUE)
           x == SetTx(TRUE)
           y == Insert("R", 32)
           z == Seal("r")
           u == Insert("view", 64)
           v == Insert("spend", 64)
           calls == << o >> \o << a, c, x, y, z, u, v >>
           sizes == << 0, 0, 0, 0, 32, 96, 160, 224 >>
<1>0. open_tx = Command("open_tx", << a, c, x, y, z, u, v >>)
  BY SMT DEF open_tx
<1>2. open_tx \in Commands
  BY DEF Commands, FreeCommands
<1>3. /\ Reader(o) /\ Reader(a) /\ Discards(c) /\ PutsField(x, 0)
      /\ PutsField(y, 32) /\ PutsField(z, 64) /\ PutsField(u, 64) /\ PutsField(v, 64)
  BY DEF Reader, ReadOps, Octets, Discards, PutsField, PutsAtMost, IsNumber, AddressSize, Call, Fetch,
         Sealed, Discard, Insert, Seal, SetTx, Address
<1> HIDE DEF a, c, x, y, z, u, v
<1>1. open_tx.calls = calls
  BY <1>0, CommandCalls, Zenon
<1> HIDE DEF o
<1>4. /\ Len(calls) = 8 /\ DOMAIN calls = 1 .. 8
      /\ calls[1] = o /\ calls[2] = a /\ calls[3] = c /\ calls[4] = x /\ calls[5] = y
      /\ calls[6] = z /\ calls[7] = u /\ calls[8] = v
  OBVIOUS
<1> HIDE DEF calls
<1>5. \A i \in 1 .. 8 : calls[i].what \in Names
  BY <1>1, <1>2, <1>4, NamesOfCalls
<1>6. Reads(calls, 3)
  BY <1>3, <1>4 DEF Reads
<1>7. sizes[3] = 0 /\ sizes[4] = 0 /\ sizes[5] = 32 /\ sizes[6] = 96 /\ sizes[7] = 160 /\ sizes[8] = 224
  OBVIOUS
<1> HIDE DEF sizes
<1>8. \A i \in 3 .. 8 : sizes[i] \in Nat /\ sizes[i] <= MaxPut
  BY <1>7 DEF MaxPut
<1>9. \A i \in 1 .. 8 : i > 3 => sizes[i - 1] <= sizes[i] /\ PutsField(calls[i], sizes[i] - sizes[i - 1])
  BY <1>3, <1>4, <1>7
<1>10. Answers(calls, 3, sizes)
  BY <1>4, <1>5, <1>6, <1>8, <1>9 DEF Answers, PutsField
<1>12. NumberFirst(calls, 3)
  BY <1>4, <1>6, <1>9, NoNumbers DEF PutsField
<1> QED BY <1>1, <1>10, <1>12 DEF Orderly

LEMMA PrepareHandler ==
  ASSUME NEW xin, Reader(xin), mlsag_prepare(<< Fetch("Hi", 32), xin >>) \in Commands
  PROVE  Orderly(mlsag_prepare(<< Fetch("Hi", 32), xin >>).calls)
<1> DEFINE o == Fetch("options", 1)
           a == Fetch("Hi", 32)
           c == Discard(TRUE)
           w == Seal("alpha")
           x == Insert("alpha_G", 32)
           y == Insert("alpha_Hi", 32)
           z == Insert("II", 32)
           calls == << o >> \o (<< a, xin >> \o << c, w, x >> \o << y, z >>)
           sizes == << 0, 0, 0, 0, 64, 96, 128, 160 >>
<1>11. << Fetch("Hi", 32), xin >> # << >>
  OBVIOUS
<1>0. mlsag_prepare(<< Fetch("Hi", 32), xin >>) = Command("mlsag_prepare", (<< a, xin >> \o << c, w, x >> \o << y, z >>))
  BY <1>11, Zenon DEF mlsag_prepare
<1>2. mlsag_prepare(<< Fetch("Hi", 32), xin >>) \in Commands
  OBVIOUS
<1>3. /\ Reader(o) /\ Reader(a) /\ Reader(xin) /\ Discards(c)
      /\ PutsField(w, 64) /\ PutsField(x, 32) /\ PutsField(y, 32) /\ PutsField(z, 32)
  BY DEF Reader, ReadOps, Octets, Discards, PutsField, PutsAtMost, IsNumber, AddressSize, Call, Fetch,
         Sealed, Discard, Insert, Seal, SetTx, Address
<1> HIDE DEF a, c, w, x, y, z
<1>1. mlsag_prepare(<< Fetch("Hi", 32), xin >>).calls = calls
  BY <1>0, CommandCalls, Zenon
<1> HIDE DEF o
<1>4. /\ Len(calls) = 8 /\ DOMAIN calls = 1 .. 8
      /\ calls[1] = o /\ calls[2] = a /\ calls[3] = xin /\ calls[4] = c /\ calls[5] = w
      /\ calls[6] = x /\ calls[7] = y /\ calls[8] = z
  OBVIOUS
<1> HIDE DEF calls
<1>5. \A i \in 1 .. 8 : calls[i].what \in Names
  BY <1>1, <1>2, <1>4, NamesOfCalls
<1>6. Reads(calls, 4)
  BY <1>3, <1>4 DEF Reads
<1>7. sizes[4] = 0 /\ sizes[5] = 64 /\ sizes[6] = 96 /\ sizes[7] = 128 /\ sizes[8] = 160
  OBVIOUS
<1> HIDE DEF sizes
<1>8. \A i \in 4 .. 8 : sizes[i] \in Nat /\ sizes[i] <= MaxPut
  BY <1>7 DEF MaxPut
<1>9. \A i \in 1 .. 8 : i > 4 => sizes[i - 1] <= sizes[i] /\ PutsField(calls[i], sizes[i] - sizes[i - 1])
  BY <1>3, <1>4, <1>7
<1>10. Answers(calls, 4, sizes)
  BY <1>4, <1>5, <1>6, <1>8, <1>9 DEF Answers, PutsField
<1>12. NumberFirst(calls, 4)
  BY <1>4, <1>6, <1>9, NoNumbers DEF PutsField
<1> QED BY <1>1, <1>10, <1>12 DEF Orderly

LEMMA PrepareShort == AnswersShort(mlsag_prepare(<< >>).calls)
<1> DEFINE o == Fetch("options", 1)
           c == Discard(TRUE)
           w == Seal("alpha")
           x == Insert("alpha_G", 32)
           calls == << o >> \o (<< >> \o << c, w, x >> \o << >>)
<1>1. mlsag_prepare(<< >>).calls = calls
  BY CommandCalls, Zenon DEF mlsag_prepare
<1>2. Reader(o) /\ Discards(c) /\ PutsField(w, 64) /\ PutsField(x, 64)
  BY OptionsRead, ReadCalls, PutCalls, ZenonT(60)
<1> HIDE DEF o, c, w, x
<1>3. /\ Len(calls) = 4 /\ DOMAIN calls = 1 .. 4 /\ calls[1] = o /\ calls[2] = c
      /\ calls[3] = w /\ calls[4] = x
  OBVIOUS
<1> HIDE DEF calls
<1>4. Fits(calls, 2, 4, 64)
  BY <1>2, <1>3 DEF Fits, Reads
<1> QED BY <1>1, <1>4 DEF AnswersShort

-----------------------------------------------------------------------------
(***************************************************************************)
(* The data of a command                                                   *)
(***************************************************************************)
\* The data of the first k calls.
IsFlat(f, seqs, k) ==
  DOMAIN f = 1 .. k /\ f[1] = seqs[1] /\ \A i \in 2 .. k : f[i] = f[i - 1] \o seqs[i]

LEMMA OneMoreFlat ==
  ASSUME NEW seqs, NEW k \in Nat \ {0}, NEW f, IsFlat(f, seqs, k)
  PROVE  \E g : IsFlat(g, seqs, k + 1)
<1> DEFINE last == f[k] \o seqs[k + 1]
           g == [n \in 1 .. k + 1 |-> IF n = k + 1 THEN last ELSE f[n]]
<1>1. last = f[k] \o seqs[k + 1]
  OBVIOUS
<1> HIDE DEF last
<1>2. DOMAIN g = 1 .. k + 1 /\ g[k + 1] = last /\ \A n \in 1 .. k : g[n] = f[n]
  OBVIOUS
<1> HIDE DEF g
<1>3. g[1] = seqs[1]
  BY <1>2 DEF IsFlat
<1>4. \A n \in 2 .. k + 1 : g[n] = g[n - 1] \o seqs[n]
  <2> SUFFICES ASSUME NEW n \in 2 .. k + 1 PROVE g[n] = g[n - 1] \o seqs[n]
    OBVIOUS
  <2>1. CASE n = k + 1
    <3>1. n - 1 = k /\ k \in 1 .. k
      BY <2>1
    <3>2. g[n - 1] = f[k] /\ seqs[n] = seqs[k + 1] /\ g[n] = last
      BY <1>2, <2>1, <3>1
    <3> QED BY <1>1, <3>2, Zenon
  <2>2. CASE n # k + 1
    <3>1. n \in 2 .. k /\ n \in 1 .. k /\ n - 1 \in 1 .. k
      BY <2>2
    <3>2. f[n] = f[n - 1] \o seqs[n]
      BY <3>1 DEF IsFlat
    <3>3. g[n] = f[n] /\ g[n - 1] = f[n - 1]
      BY <1>2, <3>1
    <3> QED BY <3>2, <3>3, Zenon
  <2> QED BY <2>1, <2>2
<1>5. IsFlat(g, seqs, k + 1)
  BY <1>2, <1>3, <1>4 DEF IsFlat
<1> QED BY <1>5

LEMMA FlatExists ==
  ASSUME NEW seqs, NEW k \in Nat \ {0}
  PROVE  \E f : IsFlat(f, seqs, k)
<1> DEFINE S == {n \in Nat : \E f : IsFlat(f, seqs, n + 1)}
<1>1. 0 \in S
  <2> DEFINE f == [n \in 1 .. 1 |-> seqs[1]]
  <2>1. IsFlat(f, seqs, 1)
    BY DEF IsFlat
  <2> HIDE DEF f
  <2>2. \E g : IsFlat(g, seqs, 0 + 1)
    BY <2>1
  <2> QED BY <2>2
<1>2. \A n \in Nat : n \in S => n + 1 \in S
  <2> SUFFICES ASSUME NEW n \in Nat, n \in S PROVE n + 1 \in S
    OBVIOUS
  <2>1. PICK f : IsFlat(f, seqs, n + 1)
    OBVIOUS
  <2>2. n + 1 \in Nat \ {0} /\ n + 1 \in Nat
    OBVIOUS
  <2>3. \E g : IsFlat(g, seqs, (n + 1) + 1)
    BY <2>1, <2>2, OneMoreFlat
  <2> QED BY <2>2, <2>3
<1> HIDE DEF S
<1>3. Nat \subseteq S
  BY <1>1, <1>2, Induction
<1>4. k - 1 \in S /\ (k - 1) + 1 = k
  BY <1>3
<1> QED BY <1>4 DEF S

LEMMA FlattenDef ==
  ASSUME NEW seqs, Len(seqs) \in Nat \ {0}
  PROVE  \E f : IsFlat(f, seqs, Len(seqs)) /\ FlattenSeq(seqs) = f[Len(seqs)]
<1> DEFINE k == Len(seqs)
           joined(x, y) == x \o y
           Eq(f) == f = [i \in 1 .. Len(seqs) |-> IF i = 1 THEN seqs[i] ELSE joined(f[i - 1], seqs[i])]
           c == CHOOSE f : Eq(f)
<1>1. PICK f : Eq(f)
  <2>1. PICK f : IsFlat(f, seqs, k)
    BY FlatExists
  <2> DEFINE g == [n \in 1 .. k |-> f[n]]
             body(n) == IF n = 1 THEN seqs[n] ELSE g[n - 1] \o seqs[n]
  <2>2. \A n \in 1 .. k : g[n] = f[n]
    OBVIOUS
  <2>3. \A n \in 1 .. k : f[n] = body(n)
    <3> SUFFICES ASSUME NEW n \in 1 .. k PROVE f[n] = body(n)
      OBVIOUS
    <3>1. CASE n = 1
      BY <2>1, <3>1 DEF IsFlat
    <3>2. CASE n # 1
      <4>1. n \in 2 .. k /\ n - 1 \in 1 .. k
        BY <3>2
      <4>2. f[n] = f[n - 1] \o seqs[n] /\ g[n - 1] = f[n - 1]
        BY <2>1, <2>2, <4>1 DEF IsFlat
      <4> HIDE DEF g
      <4> QED BY <3>2, <4>2
    <3> QED BY <3>1, <3>2
  <2> HIDE DEF body
  <2>4. g = [n \in 1 .. k |-> body(n)]
    BY <2>3
  <2>5. Eq(g)
    <3> HIDE DEF g
    <3> QED BY <2>4 DEF body
  <2> HIDE DEF g
  <2> QED BY <2>5
<1>2. Eq(c)
  BY <1>1, Zenon
<1>3. Len(seqs) # 0
  OBVIOUS
<1>4. FlattenSeq(seqs) = c[k]
  BY <1>3, Zenon DEF FlattenSeq
<1> HIDE DEF c
<1>5. IsFlat(c, seqs, k)
  <2>1. DOMAIN c = 1 .. k
    BY <1>2
  <2>2. c[1] = seqs[1]
    BY <1>2
  <2> HIDE DEF joined
  <2>3. \A i \in 2 .. k : c[i] = joined(c[i - 1], seqs[i])
    BY <1>2
  <2> QED BY <2>1, <2>2, <2>3 DEF IsFlat, joined
<1> QED BY <1>4, <1>5

LEMMA FlattenType ==
  ASSUME NEW S, NEW seqs, Len(seqs) \in Nat \ {0}, \A i \in 1 .. Len(seqs) : seqs[i] \in Seq(S)
  PROVE  FlattenSeq(seqs) \in Seq(S)
<1> DEFINE k == Len(seqs)
<1>1. PICK f : IsFlat(f, seqs, k) /\ FlattenSeq(seqs) = f[k]
  BY FlattenDef
<1> DEFINE T == {n \in Nat : f[n + 1] \in Seq(S)}
<1>2. k \in Nat /\ k >= 1 /\ \A i \in 1 .. k : seqs[i] \in Seq(S)
  OBVIOUS
<1> HIDE DEF k
<1>3. 0 \in T
  <2>1. f[1] = seqs[1] /\ 1 \in 1 .. k /\ 0 + 1 = 1
    BY <1>1, <1>2 DEF IsFlat
  <2>2. f[1] \in Seq(S)
    BY <1>2, <2>1
  <2> QED BY <2>1, <2>2
<1>4. \A n \in 0 .. (k - 1) - 1 : n \in T => n + 1 \in T
  <2> SUFFICES ASSUME NEW n \in 0 .. (k - 1) - 1, f[n + 1] \in Seq(S) PROVE n + 1 \in T
    OBVIOUS
  <2> DEFINE i == n + 2
  <2>1. i \in 2 .. k /\ i \in 1 .. k /\ i - 1 = n + 1 /\ i = (n + 1) + 1 /\ n + 1 \in Nat
    BY <1>2
  <2> HIDE DEF i
  <2>2. f[i] = f[n + 1] \o seqs[i] /\ seqs[i] \in Seq(S)
    BY <1>1, <1>2, <2>1 DEF IsFlat
  <2>3. f[i] \in Seq(S)
    BY <2>2
  <2> QED BY <2>1, <2>3
<1>5. k - 1 \in Nat
  BY <1>2
<1> HIDE DEF T
<1>6. 0 .. k - 1 \subseteq T
  BY <1>3, <1>4, <1>5, InductionUpTo
<1>7. k - 1 \in T /\ (k - 1) + 1 = k
  BY <1>2, <1>6
<1> QED BY <1>1, <1>7 DEF T

\* The handlers of which each has to be looked at by itself.
LEMMA OtherCalls ==
  /\ Len(manage_seedwords_other.calls) = 2 /\ DOMAIN manage_seedwords_other.calls = 1 .. 2
  /\ manage_seedwords_other.calls[1] = Fetch("options", 1)
  /\ manage_seedwords_other.calls[2] = Rest("words", 8)
<1> DEFINE o == Fetch("options", 1)
           rest == Rest("words", 8)
           calls == << o >> \o << rest >>
<1>1. manage_seedwords_other.calls = calls
  BY CommandCalls, Zenon DEF manage_seedwords_other
<1> HIDE DEF o, rest
<1>2. Len(calls) = 2 /\ DOMAIN calls = 1 .. 2 /\ calls[1] = o /\ calls[2] = rest
  OBVIOUS
<1> HIDE DEF calls
<1> QED BY <1>1, <1>2 DEF o, rest

LEMMA ExtraCalls ==
  ASSUME NEW size, NEW calls, calls = tx_prefix_extra(size).calls
  PROVE  /\ Len(calls) = 7 /\ DOMAIN calls = 1 .. 7
         /\ calls[1] = Fetch("options", 1) /\ calls[2] = Fetch("extra_size", 4)
         /\ calls[3] = Point("extra", size) /\ calls[4] = Discard(FALSE) /\ calls[5] = Number(size)
         /\ calls[6] = Use("extra", size) /\ calls[7] = Extra(size)
<1> DEFINE o == Fetch("options", 1)
           a == Fetch("extra_size", 4)
           b == Point("extra", size)
           c == Discard(FALSE)
           x == Number(size)
           y == Use("extra", size)
           z == Extra(size)
           all == << o >> \o << a, b, c, x, y, z >>
<1>1. calls = all
  BY CommandCalls, Zenon DEF tx_prefix_extra
<1> HIDE DEF o, a, b, c, x, y, z
<1>2. /\ Len(all) = 7 /\ DOMAIN all = 1 .. 7 /\ all[1] = o /\ all[2] = a /\ all[3] = b
      /\ all[4] = c /\ all[5] = x /\ all[6] = y /\ all[7] = z
  OBVIOUS
<1> HIDE DEF all
<1> QED BY <1>1, <1>2 DEF o, a, b, c, x, y, z

\* Calls for which a host sends data in the clear.
SentOps == {"fetch", "point", "peek", "rest"}

LEMMA SentType ==
  ASSUME NEW c, c.what \in Names, c.op \in SentOps => c.size \in Octets, NEW tx \in BOOLEAN
  PROVE  Sent(c, tx) \in Seq(Bytes)
<1>1. CASE c.op \in SentOps
  <2>1. Sent(c, tx) = Field(c.what, c.size)
    BY <1>1 DEF Sent, SentOps
  <2> QED BY <1>1, <2>1, FieldType
<1>2. CASE c.op \in {"fetch_decrypt", "fetch_decrypt_key"}
  <2> DEFINE size == SealedSize(tx)
  <2>1. size \in Octets
    BY DEF SealedSize, Octets
  <2>2. Sent(c, tx) = Field(c.what, size)
    BY <1>2 DEF Sent
  <2> HIDE DEF size
  <2> QED BY <2>1, <2>2, FieldType
<1>3. CASE c.op \notin SentOps /\ c.op \notin {"fetch_decrypt", "fetch_decrypt_key"}
  <2>1. Sent(c, tx) = << >>
    BY <1>3 DEF Sent, SentOps
  <2> QED BY <2>1
<1> QED BY <1>1, <1>2, <1>3

LEMMA DataTypeOf ==
  ASSUME NEW c \in Commands, NEW tx \in BOOLEAN,
         Len(c.calls) \in Nat \ {0}, DOMAIN c.calls = 1 .. Len(c.calls),
         \A i \in 1 .. Len(c.calls) : c.calls[i].op \in SentOps => c.calls[i].size \in Octets
  PROVE  Data(c.calls, tx) \in Seq(Bytes)
<1> DEFINE calls == c.calls
           k == Len(calls)
           seqs == [i \in 1 .. k |-> Sent(calls[i], tx)]
<1>1. \A i \in 1 .. k : calls[i].what \in Names
  BY NamesOfCalls
<1>2. \A i \in 1 .. k : Sent(calls[i], tx) \in Seq(Bytes)
  BY <1>1, SentType
<1>3. k \in Nat \ {0} /\ DOMAIN calls = 1 .. k
  OBVIOUS
<1>4. Data(calls, tx) = FlattenSeq(seqs)
  BY <1>3, Zenon DEF Data
<1> HIDE DEF k, calls
<1>5. Len(seqs) = k /\ \A i \in 1 .. k : seqs[i] \in Seq(Bytes)
  BY <1>2, <1>3
<1> HIDE DEF seqs
<1> QED BY <1>3, <1>4, <1>5, FlattenType DEF calls

\* What commands there are.
LEMMA CommandKinds ==
  ASSUME NEW c \in Commands
  PROVE  \/ c \in FreeCommands \/ c \in PrefixCommands \/ c \in AmountCommands
         \/ \E v \in 1 .. 2, additional \in BOOLEAN : c = generate_txout_keys(v, additional)
         \/ c \in {mlsag_prepare(<< >>), mlsag_prepare(<< Fetch("Hi", 32), Fetch("xin", 32) >>),
                   mlsag_prepare(<< Fetch("Hi", 32), Sealed("xin") >>)}
         \/ \E first, last \in BOOLEAN : c = mlsag_hash(first, last)
         \/ \E real \in BOOLEAN : c = mlsag_sign(real)
         \/ c \in {blind, gen_commitment_mask, mlsag_prehash_init_more, mlsag_prehash_update(2, << >>, FALSE),
                   mlsag_prehash_finalize_more, mlsag_prehash_finalize, tx_prompt_fake,
                   hash_to_scalar_init, hash_to_scalar, hash_to_scalar_batch}
<1> DEFINE keys == {generate_txout_keys(v, a) : v \in 1 .. 2, a \in BOOLEAN}
           hashes == {mlsag_hash(first, last) : first, last \in BOOLEAN}
<1>1. c \in keys => \E v \in 1 .. 2, additional \in BOOLEAN : c = generate_txout_keys(v, additional)
  OBVIOUS
<1>2. c \in hashes => \E first, last \in BOOLEAN : c = mlsag_hash(first, last)
  OBVIOUS
<1>3. Commands = FreeCommands \cup TxCommands
  BY DEF Commands
<1>4. TxCommands =
        keys
        \cup {mlsag_prepare(kk) : kk \in {<< >>, << Fetch("Hi", 32), Fetch("xin", 32) >>, << Fetch("Hi", 32), Sealed("xin") >>}}
        \cup hashes \cup {mlsag_sign(real) : real \in BOOLEAN}
        \cup {blind, gen_commitment_mask, mlsag_prehash_init_more, mlsag_prehash_update(2, << >>, FALSE),
              mlsag_prehash_finalize_more, mlsag_prehash_finalize, tx_prompt_fake,
              hash_to_scalar_init, hash_to_scalar, hash_to_scalar_batch}
        \cup PrefixCommands \cup AmountCommands
  BY DEF TxCommands
<1> HIDE DEF keys, hashes
<1> QED BY <1>1, <1>2, <1>3, <1>4, Zenon

\* Each handler has one of three shapes.
LEMMA HandlerShapes ==
  ASSUME NEW c \in Commands
  PROVE  \/ c = manage_seedwords_other
         \/ \E size \in ExtraSizes : c = tx_prefix_extra(size)
         \/ Orderly(c.calls)
<1> DEFINE Short == \/ AnswersShort(c.calls) \/ AnswersLong(c.calls) \/ AnswersNumbers(c.calls)
                    \/ OnlyAsks(c.calls) \/ Orderly(c.calls)
<1>1. Short => Orderly(c.calls)
  BY AsksIsOrderly, ShortIsOrderly, LongIsOrderly, NumbersIsOrderly
<1>2. CASE c \in FreeCommands
  <2>1. c = manage_seedwords_other \/ Short
    BY <1>2, ShortHandlers, AskingHandlers, ProofHandler, PutKeyHandler, SeedwordsHandler,
       PublicKeyHandler, PrekeyHandler, OpenHandler DEF FreeCommands
  <2> QED BY <1>1, <2>1
<1>3. CASE c \in PrefixCommands
  <2>1. CASE c \in NumberCommands
    <3>1. AnswersNumbers(c.calls)
      BY <2>1, PrefixHandlers DEF NumberCommands
    <3> QED BY <1>1, <3>1
  <2>2. CASE c \in ExtraCommands
    BY <2>2 DEF ExtraCommands
  <2>3. CASE c = tx_prefix_outputs_matches
    BY <1>1, <2>3, AskingHandlers
  <2>4. CASE c \in ClaimedCommands
    <3>1. AnswersNumbers(c.calls)
      BY <2>4, ClaimedHandler DEF ClaimedCommands
    <3> QED BY <1>1, <3>1
  <2> QED BY <1>3, <2>1, <2>2, <2>3, <2>4 DEF PrefixCommands
<1>4. CASE c \in AmountCommands
  <2>1. OnlyAsks(c.calls)
    BY <1>4, AskingHandlers, UpdateHandler DEF AmountCommands
  <2> QED BY <1>1, <2>1
<1>5. CASE \E v \in 1 .. 2, additional \in BOOLEAN : c = generate_txout_keys(v, additional)
  <2>1. PICK v \in 1 .. 2, additional \in BOOLEAN : c = generate_txout_keys(v, additional)
    BY <1>5
  <2>2. v \in Int
    OBVIOUS
  <2>3. AnswersShort(c.calls)
    BY <2>1, <2>2, OutputKeysHandler
  <2> QED BY <1>1, <2>3
<1>6. CASE c \in {mlsag_prepare(<< >>), mlsag_prepare(<< Fetch("Hi", 32), Fetch("xin", 32) >>),
                 mlsag_prepare(<< Fetch("Hi", 32), Sealed("xin") >>)}
  <2>1. Reader(Fetch("xin", 32)) /\ Reader(Sealed("xin"))
    BY ReadCalls
  <2>2. CASE c = mlsag_prepare(<< >>)
    BY <1>1, <2>2, PrepareShort
  <2>3. CASE c = mlsag_prepare(<< Fetch("Hi", 32), Fetch("xin", 32) >>)
    BY <2>1, <2>3, PrepareHandler, Zenon
  <2>4. CASE c = mlsag_prepare(<< Fetch("Hi", 32), Sealed("xin") >>)
    BY <2>1, <2>4, PrepareHandler, Zenon
  <2> QED BY <1>6, <2>2, <2>3, <2>4
<1>7. CASE (\E first, last \in BOOLEAN : c = mlsag_hash(first, last)) \/ \E real \in BOOLEAN : c = mlsag_sign(real)
  <2>1. AnswersShort(c.calls)
    BY <1>7, HashHandler, SignHandler
  <2> QED BY <1>1, <2>1
<1>8. CASE c \in {blind, gen_commitment_mask, mlsag_prehash_init_more, mlsag_prehash_update(2, << >>, FALSE),
                 mlsag_prehash_finalize_more, mlsag_prehash_finalize, tx_prompt_fake,
                 hash_to_scalar_init, hash_to_scalar, hash_to_scalar_batch}
  <2>1. Short
    BY <1>8, ShortHandlers, UpdateHandler
  <2> QED BY <1>1, <2>1
<1> HIDE DEF Short
<1>9. \/ c \in FreeCommands \/ c \in PrefixCommands \/ c \in AmountCommands
      \/ \E v \in 1 .. 2, additional \in BOOLEAN : c = generate_txout_keys(v, additional)
      \/ c \in {mlsag_prepare(<< >>), mlsag_prepare(<< Fetch("Hi", 32), Fetch("xin", 32) >>),
                mlsag_prepare(<< Fetch("Hi", 32), Sealed("xin") >>)}
      \/ \E first, last \in BOOLEAN : c = mlsag_hash(first, last)
      \/ \E real \in BOOLEAN : c = mlsag_sign(real)
      \/ c \in {blind, gen_commitment_mask, mlsag_prehash_init_more, mlsag_prehash_update(2, << >>, FALSE),
                mlsag_prehash_finalize_more, mlsag_prehash_finalize, tx_prompt_fake,
                hash_to_scalar_init, hash_to_scalar, hash_to_scalar_batch}
  BY CommandKinds
<1> QED BY <1>2, <1>3, <1>4, <1>5, <1>6, <1>7, <1>8, <1>9

\* What a host sends for a call is no longer than a command.
LEMMA SentCalls ==
  ASSUME NEW c \in Commands
  PROVE  /\ Len(c.calls) \in Nat \ {0} /\ DOMAIN c.calls = 1 .. Len(c.calls)
         /\ \A i \in 1 .. Len(c.calls) : c.calls[i].op \in SentOps => c.calls[i].size \in Octets
<1> DEFINE calls == c.calls
<1>1. \A call : Reader(call) => (call.op \in SentOps => call.size \in Octets)
  BY DEF Reader, SentOps
<1>2. \A call : Discards(call) => call.op \notin SentOps
  BY DEF Discards, SentOps
<1>3. \A call : Quiet(call) => call.op \notin SentOps
  BY DEF Quiet, SentOps
<1>4. \A call, n : PutsAtMost(call, n) => call.op \notin SentOps
  BY DEF PutsAtMost, SentOps
<1>5. /\ Len(calls) \in Nat \ {0} /\ DOMAIN calls = 1 .. Len(calls)
      /\ \A i \in 1 .. Len(calls) : calls[i].op \in SentOps => calls[i].size \in Octets
  <2>1. CASE c = manage_seedwords_other
    <3>1. Reader(Fetch("options", 1)) /\ Reader(Rest("words", 8))
      BY DEF Reader, ReadOps, Octets, Call, Fetch, Rest
    <3> QED BY <1>1, <2>1, <3>1, OtherCalls
  <2>2. CASE \E size \in ExtraSizes : c = tx_prefix_extra(size)
    <3>1. PICK size \in ExtraSizes : c = tx_prefix_extra(size)
      BY <2>2
    <3>2. size \in Octets
      BY ExtraAssumption DEF Octets
    <3>3. Reader(Fetch("options", 1)) /\ Reader(Fetch("extra_size", 4)) /\ Reader(Point("extra", size))
      BY <3>2 DEF Reader, ReadOps, Octets, Call, Fetch, Point
    <3>4. /\ Discard(FALSE).op \notin SentOps /\ Number(size).op \notin SentOps
          /\ Use("extra", size).op \notin SentOps /\ Extra(size).op \notin SentOps
      BY DEF SentOps, Discard, Number, Use, Extra, Call
    <3>5. /\ Len(calls) = 7 /\ DOMAIN calls = 1 .. 7
          /\ calls[1] = Fetch("options", 1) /\ calls[2] = Fetch("extra_size", 4)
          /\ calls[3] = Point("extra", size) /\ calls[4] = Discard(FALSE) /\ calls[5] = Number(size)
          /\ calls[6] = Use("extra", size) /\ calls[7] = Extra(size)
      BY <3>1, ExtraCalls
    <3> HIDE DEF calls
    <3>6. ASSUME NEW i \in 1 .. 7 PROVE calls[i].op \in SentOps => calls[i].size \in Octets
      <4>1. i = 1 \/ i = 2 \/ i = 3 \/ i = 4 \/ i = 5 \/ i = 6 \/ i = 7
        OBVIOUS
      <4> QED BY <1>1, <3>3, <3>4, <3>5, <4>1
    <3> QED BY <3>5, <3>6
  <2>3. CASE Orderly(c.calls)
    <3>1. PICK d : Asks(calls, d) \/ \E sizes : Answers(calls, d, sizes)
      BY <2>3 DEF Orderly
    <3>2. Reads(calls, d)
      BY <3>1 DEF Asks, Answers
    <3>3. /\ Len(calls) \in Nat /\ DOMAIN calls = 1 .. Len(calls) /\ d \in 1 .. Len(calls)
          /\ \A i \in 1 .. Len(calls) : i < d => Reader(calls[i])
          /\ Discards(calls[d])
      BY <3>2 DEF Reads
    <3>4. \A i \in 1 .. Len(calls) : i > d => calls[i].op \notin SentOps
      <4>1. CASE Asks(calls, d)
        BY <1>3, <4>1 DEF Asks
      <4>2. CASE \E sizes : Answers(calls, d, sizes)
        BY <1>4, <4>2 DEF Answers
      <4> QED BY <3>1, <4>1, <4>2
    <3> HIDE DEF calls
    <3>5. ASSUME NEW i \in 1 .. Len(calls) PROVE calls[i].op \in SentOps => calls[i].size \in Octets
      <4>1. i < d \/ i = d \/ i > d
        BY <3>3
      <4> QED BY <1>1, <1>2, <3>3, <3>4, <4>1
    <3> QED BY <3>3, <3>5
  <2> QED BY <2>1, <2>2, <2>3, HandlerShapes
<1> QED BY <1>5

\* The data of a command are bytes.
LEMMA DataType ==
  ASSUME NEW c \in Commands, NEW tx \in BOOLEAN
  PROVE  Data(c.calls, tx) \in Seq(Bytes)
BY SentCalls, DataTypeOf

\* What a put leaves where it does not put anything.
LEMMA PutKeeps ==
  ASSUME NEW s, Typed(s), Built(s), NEW bytes \in Seq(Bytes),
         Len(s.put) + Len(bytes) <= ELECTRONEUM_IO_BUFFER_LENGTH, NEW t, t = Put(s, bytes)
  PROVE  /\ t.at = s.at
         /\ \A i \in 1 .. ELECTRONEUM_IO_BUFFER_LENGTH :
              i > s.length + Len(bytes) => t.buffer[i] = s.buffer[i]
<1> DEFINE r == insert(s, bytes)
           put == s.put \o bytes
<1>1. s.length = Len(s.put)
  BY DEF Built
<1>2. /\ Typed(r) /\ Changes(s, r, {"buffer", "offset", "length"})
      /\ \A i \in 1 .. ELECTRONEUM_IO_BUFFER_LENGTH :
           i > s.length + Len(bytes) => r.buffer[i] = s.buffer[i]
  BY <1>1, InsertState
<1> HIDE DEF r
<1>3. DOMAIN r = Fields /\ r.put = s.put /\ r.at = s.at
  BY <1>2, SMT DEF Changes, Fields
<1>4. t = [r EXCEPT !.put = put]
  BY <1>3, Zenon DEF Put, r
<1> HIDE DEF put
<1>5. t.at = s.at /\ t.buffer = r.buffer
  BY <1>3, <1>4, SMT DEF Fields
<1> QED BY <1>2, <1>5

\* A pointer is where the offset was.
LEMMA PointDo ==
  ASSUME NEW s, Typed(s), s.error = "none", NEW what, NEW size \in Nat, NEW t,
         t = Do(s, Point(what, size))
  PROVE  t.error = "none" => t.at[what] = s.offset /\ s.offset + size <= s.length
<1>1. DOMAIN s = Fields /\ s.offset \in Nat /\ s.length \in Nat
  BY DEF Typed
<1>2. Point(what, size).op = "point" /\ Point(what, size).what = what /\ Point(what, size).size = size
  BY DEF Point, Call
<1>3. CASE Available(s, size)
  <2> DEFINE at == [x \in DOMAIN s.at \cup {what} |-> IF x = what THEN s.offset ELSE s.at[x]]
  <2>1. t = [[s EXCEPT !.at = at] EXCEPT !.offset = @ + size]
    BY <1>2, <1>3, SMT DEF Do, Points
  <2>2. at[what] = s.offset
    OBVIOUS
  <2> HIDE DEF at
  <2>3. t.at = at
    BY <1>1, <2>1, SMT DEF Fields
  <2>4. s.offset + size <= s.length
    BY <1>1, <1>3 DEF Available
  <2> QED BY <2>2, <2>3, <2>4
<1>4. CASE ~Available(s, size)
  <2>1. t = Fails(s, "SW_WRONG_LENGTH")
    BY <1>2, <1>4 DEF Do
  <2>2. "SW_WRONG_LENGTH" \in Errors
    BY DEF Errors
  <2> QED BY <2>1, <2>2, FailsState
<1> QED BY <1>3, <1>4

\* The extra field is still where it was received when it is copied into the answer.
LEMMA ExtraRun ==
  ASSUME NEW size \in ExtraSizes, NEW s, Start(s), s.offset = 0,
         s.error = "none" => s.length <= 5 + size,
         s.error = "none" /\ s.length = 5 + size =>
           \A i \in 1 .. size : s.buffer[5 + i] = << "extra", i >>,
         NEW calls, calls = tx_prefix_extra(size).calls, NEW r, r = Runs(s, calls)
  PROVE  /\ Left(r[7]) /\ \A n \in 0 .. 7 : Typed(r[n])
         /\ r[7].error = "none" => Begins(r[7].put, size) /\ r[6].misread = r[5].misread
<1>1. /\ Len(calls) = 7 /\ DOMAIN calls = 1 .. 7
      /\ calls[1] = Fetch("options", 1) /\ calls[2] = Fetch("extra_size", 4)
      /\ calls[3] = Point("extra", size) /\ calls[4] = Discard(FALSE) /\ calls[5] = Number(size)
      /\ calls[6] = Use("extra", size) /\ calls[7] = Extra(size)
  BY ExtraCalls
<1>2. size \in Octets /\ size \in Nat /\ size <= 250
  BY ExtraAssumption DEF Octets
<1>3. Reader(Fetch("options", 1)) /\ Reader(Fetch("extra_size", 4)) /\ Reader(Point("extra", size))
  BY <1>2 DEF Reader, ReadOps, Octets, Call, Fetch, Point
<1>4. Reads(calls, 4)
  <2>1. Discards(calls[4])
    <3>1. Discards(Discard(FALSE))
      BY DEF Discards, Discard, Call
    <3> QED BY <1>1, <3>1
  <2>2. \A i \in 1 .. 7 : i < 4 => Reader(calls[i])
    <3> SUFFICES ASSUME NEW i \in 1 .. 7, i < 4 PROVE Reader(calls[i])
      OBVIOUS
    <3>1. i = 1 \/ i = 2 \/ i = 3
      OBVIOUS
    <3> QED BY <1>1, <1>3, <3>1
  <2>3. Len(calls) = 7 /\ DOMAIN calls = 1 .. Len(calls) /\ 4 \in 1 .. Len(calls)
    BY <1>1
  <2> QED BY <2>1, <2>2, <2>3 DEF Reads
<1>5. /\ r[0] = s /\ r[1] = Do(r[0], calls[1]) /\ r[2] = Do(r[1], calls[2]) /\ r[3] = Do(r[2], calls[3])
      /\ r[4] = Do(r[3], calls[4]) /\ r[5] = Do(r[4], calls[5]) /\ r[6] = Do(r[5], calls[6])
      /\ r[7] = Do(r[6], calls[7])
  <2>1. r[0] = s /\ \A n \in 1 .. 7 : r[n] = Do(r[n - 1], calls[n])
    BY <1>1, RunsDef
  <2>2. /\ r[1] = Do(r[1 - 1], calls[1]) /\ r[2] = Do(r[2 - 1], calls[2]) /\ r[3] = Do(r[3 - 1], calls[3])
        /\ r[4] = Do(r[4 - 1], calls[4]) /\ r[5] = Do(r[5 - 1], calls[5]) /\ r[6] = Do(r[6 - 1], calls[6])
        /\ r[7] = Do(r[7 - 1], calls[7])
    BY <2>1
  <2> QED BY <2>1, <2>2
<1>6. /\ Start(r[0]) /\ Start(r[1]) /\ Start(r[2]) /\ Start(r[3]) /\ Start(r[4])
      /\ r[4].error = "none" => Built(r[4]) /\ r[4].length = 0
  <2>1. \A n \in 0 .. 4 - 1 : Start(r[n])
    BY <1>4, ReadsRun
  <2>2. Start(r[4]) /\ (r[4].error = "none" => Built(r[4]) /\ r[4].length = 0)
    BY <1>4, ReadsRun
  <2> QED BY <2>1, <2>2
<1>7. /\ \A i \in 1 .. 7 : r[i - 1].error # "none" => r[i] = r[i - 1]
      /\ r[4].error = "none" => r[3].error = "none" /\ r[2].error = "none" /\ r[1].error = "none"
                                /\ s.error = "none"
  <2>1. /\ r[0].error # "none" => r[1] = r[0]
        /\ r[1].error # "none" => r[2] = r[1]
        /\ r[2].error # "none" => r[3] = r[2]
        /\ r[3].error # "none" => r[4] = r[3]
        /\ r[4].error # "none" => r[5] = r[4]
        /\ r[5].error # "none" => r[6] = r[5]
        /\ r[6].error # "none" => r[7] = r[6]
    BY <1>5, ErrorStays
  <2>2. ASSUME NEW i \in 1 .. 7, r[i - 1].error # "none" PROVE r[i] = r[i - 1]
    <3>1. i = 1 \/ i = 2 \/ i = 3 \/ i = 4 \/ i = 5 \/ i = 6 \/ i = 7
      OBVIOUS
    <3> QED BY <2>1, <2>2, <3>1
  <2> QED BY <1>5, <2>1, <2>2
<1>8. \A n \in 0 .. 4 : Typed(r[n])
  <2> SUFFICES ASSUME NEW n \in 0 .. 4 PROVE Typed(r[n])
    OBVIOUS
  <2>1. n = 0 \/ n = 1 \/ n = 2 \/ n = 3 \/ n = 4
    OBVIOUS
  <2> QED BY <1>6, <2>1 DEF Start
<1>9. CASE r[4].error # "none"
  <2>1. r[5] = r[4] /\ r[6] = r[5] /\ r[7] = r[6]
    <3>1. 5 \in 1 .. 7 /\ 6 \in 1 .. 7 /\ 7 \in 1 .. 7 /\ 5 - 1 = 4 /\ 6 - 1 = 5 /\ 7 - 1 = 6
      OBVIOUS
    <3> QED BY <1>5, <1>9, ErrorStays
  <2>2. ASSUME NEW n \in 0 .. 7 PROVE Typed(r[n])
    <3>1. n \in 0 .. 4 \/ n = 5 \/ n = 6 \/ n = 7
      OBVIOUS
    <3> QED BY <1>6, <1>8, <2>1, <3>1 DEF Start
  <2>3. Left(r[7])
    BY <1>6, <1>9, <2>1 DEF Left, Start, Ends
  <2>4. r[7].error # "none"
    BY <1>9, <2>1
  <2> QED BY <2>2, <2>3, <2>4
<1>10. CASE r[4].error = "none"
  <2>1. s.error = "none" /\ r[1].error = "none" /\ r[2].error = "none" /\ r[3].error = "none"
    BY <1>7, <1>10
  <2>2. r[3].at["extra"] = 5 /\ s.length = 5 + size /\ r[3].buffer = s.buffer
    <3>1. Fetch("options", 1).op = "fetch" /\ Fetch("options", 1).what = "options" /\ Fetch("options", 1).size = 1
          /\ Fetch("extra_size", 4).op = "fetch" /\ Fetch("extra_size", 4).what = "extra_size"
          /\ Fetch("extra_size", 4).size = 4
      BY DEF Fetch, Call
    <3>2. r[1] = Take(s, "options", 1, 1, 1) /\ r[2] = Take(r[1], "extra_size", 4, 4, 4)
      <4>1. ASSUME NEW u, u.error = "none", NEW c, c.op = "fetch"
            PROVE  Do(u, c) = Take(u, c.what, c.size, c.size, c.size)
        BY <4>1 DEF Do, fetch
      <4>2. r[1] = Do(s, Fetch("options", 1)) /\ r[2] = Do(r[1], Fetch("extra_size", 4))
        BY <1>1, <1>5
      <4> QED BY <2>1, <3>1, <4>1, <4>2
    <3>3. 1 \in 0 .. 1 /\ 4 \in 0 .. 4
      OBVIOUS
    <3>4. Kept(s, r[1]) /\ r[1].offset = s.offset + 1
      BY <2>1, <3>2, <3>3, TakeState DEF Start
    <3>5. Kept(r[1], r[2]) /\ r[2].offset = r[1].offset + 4
      BY <1>6, <2>1, <3>2, <3>3, TakeState DEF Start
    <3>6. r[3].at["extra"] = r[2].offset /\ r[2].offset + size <= r[2].length
      BY <1>1, <1>2, <1>5, <1>6, <2>1, PointDo DEF Start
    <3>7. Kept(r[2], r[3])
      BY <1>1, <1>3, <1>5, <1>6, ReaderDo DEF Start
    <3>8. r[2].offset = 5 /\ r[2].length = s.length /\ r[3].buffer = s.buffer
      BY <3>4, <3>5, <3>7 DEF Kept
    <3>9. s.length = 5 + size
      BY <1>2, <2>1, <3>6, <3>8 DEF Start, Typed
    <3> QED BY <3>6, <3>8, <3>9
  <2>3. /\ r[4].at["extra"] = 5 /\ r[4].buffer = s.buffer /\ r[4].put = << >> /\ Len(r[4].put) = 0
    <3>1. Discard(FALSE).op = "discard"
      BY SMTT(30) DEF Discard, Call
    <3>2. r[4] = discard(r[3], FALSE)
      <4>1. ASSUME NEW u, u.error = "none", NEW c, c.op = "discard"
            PROVE  Do(u, c) = discard(u, FALSE)
        BY <4>1 DEF Do
      <4>2. r[4] = Do(r[3], Discard(FALSE))
        BY <1>1, <1>5
      <4> QED BY <2>1, <3>1, <4>1, <4>2
    <3>3. Changes(r[3], r[4], {"buffer", "offset", "length"}) /\ r[4].buffer = r[3].buffer
      <4>1. Typed(r[3])
        BY <1>6 DEF Start
      <4> QED BY <3>2, <4>1, DiscardState
    <3>4. r[4].at = r[3].at
      BY <3>3, SMT DEF Changes, Fields
    <3>5. r[4].put = << >>
      BY <1>6 DEF Start
    <3> QED BY <2>2, <3>3, <3>4, <3>5
  <2> DEFINE v == Varint(size)
             k == Len(v)
             n == Len(r[5].put)
  <2>4. v \in Seq(Bytes) /\ k \in Nat /\ k <= 2
    <3>1. size < 16384
      BY <1>2
    <3> QED BY <1>2, <3>1, VarintBytes, VarintType
  <2> HIDE DEF v
  <2>5. /\ Typed(r[5]) /\ Built(r[5]) /\ n = k /\ r[5].ends = "answering" /\ r[5].error = "none"
        /\ r[5].at["extra"] = 5 /\ r[5].put = v
        /\ \A i \in 1 .. ELECTRONEUM_IO_BUFFER_LENGTH : i > k => r[5].buffer[i] = s.buffer[i]
    <3>1. Number(size).op = "add_to_tx_prefix" /\ Number(size).size = size
      BY SMTT(30) DEF Number, Call
    <3>2. r[5] = Put(r[4], v)
      <4>1. ASSUME NEW u, u.error = "none", NEW c, c.op = "add_to_tx_prefix"
            PROVE  Do(u, c) = Put(u, Varint(c.size))
        BY <4>1 DEF Do
      <4>2. r[5] = Do(r[4], Number(size))
        BY <1>1, <1>5
      <4> QED BY <1>10, <3>1, <4>1, <4>2 DEF v
    <3>3. Typed(r[4]) /\ Built(r[4]) /\ r[4].length = 0 /\ r[4].ends = "answering"
      BY <1>6, <1>10 DEF Start
    <3>4. Len(r[4].put) + Len(v) <= ELECTRONEUM_IO_BUFFER_LENGTH
      BY <2>3, <2>4 DEF ELECTRONEUM_IO_BUFFER_LENGTH
    <3>5. /\ Typed(r[5]) /\ Built(r[5]) /\ Len(r[5].put) = Len(r[4].put) + Len(v)
          /\ r[5].ends = r[4].ends /\ r[5].error = r[4].error /\ r[5].put = r[4].put \o v
      <4> DEFINE u == r[4]
                 w == r[5]
      <4>1. Typed(u) /\ Built(u) /\ v \in Seq(Bytes) /\ w = Put(u, v)
            /\ Len(u.put) + Len(v) <= ELECTRONEUM_IO_BUFFER_LENGTH
        BY <2>4, <3>2, <3>3, <3>4
      <4> HIDE DEF u, w
      <4>2. /\ Typed(w) /\ Built(w) /\ Len(w.put) = Len(u.put) + Len(v)
            /\ w.ends = u.ends /\ w.error = u.error /\ w.put = u.put \o v
        BY <4>1, PutStateOf
      <4> QED BY <4>2 DEF u, w
    <3>6. /\ r[5].at = r[4].at
          /\ \A i \in 1 .. ELECTRONEUM_IO_BUFFER_LENGTH :
               i > r[4].length + Len(v) => r[5].buffer[i] = r[4].buffer[i]
      BY <2>4, <3>2, <3>3, <3>4, PutKeeps
    <3>7. n = k
      BY <2>3, <2>4, <3>5
    <3>8. \A i \in 1 .. ELECTRONEUM_IO_BUFFER_LENGTH : i > k => r[5].buffer[i] = s.buffer[i]
      BY <2>3, <2>4, <3>3, <3>6
    <3>9. r[5].put = v
      <4>1. << >> \o v = v
        BY <2>4
      <4>2. r[5].put = r[4].put \o v /\ r[4].put = << >>
        BY <2>3, <3>5
      <4> QED BY <4>1, <4>2, Zenon
    <3> QED BY <1>10, <2>3, <3>3, <3>5, <3>6, <3>7, <3>8, <3>9
  <2> HIDE DEF k
  <2>6. /\ Typed(r[6]) /\ Kept(r[5], r[6]) /\ r[6].offset = r[5].offset /\ r[6].error = "none"
        /\ r[6].at["extra"] = 5 /\ r[6] = Read(r[5], 5, "extra", size)
    <3>1. Use("extra", size).op = "use" /\ Use("extra", size).what = "extra" /\ Use("extra", size).size = size
      BY DEF Use, Call
    <3>2. r[6] = Read(r[5], r[5].at["extra"], "extra", size)
      <4>1. ASSUME NEW u, u.error = "none", NEW c, c.op = "use"
            PROVE  Do(u, c) = Read(u, u.at[c.what], c.what, c.size)
        BY <4>1 DEF Do
      <4>2. r[6] = Do(r[5], Use("extra", size))
        BY <1>1, <1>5
      <4> QED BY <2>5, <3>1, <4>1, <4>2
    <3>3. Kept(r[5], r[6]) /\ r[6].offset = r[5].offset /\ r[6].error = r[5].error /\ r[6].at = r[5].at
      BY <2>5, <3>2, ReadState
    <3>4. Typed(r[6])
      BY <2>5, <3>3, KeptTyped DEF Typed
    <3>5. r[6] = Read(r[5], 5, "extra", size)
      BY <2>5, <3>2, Zenon
    <3> QED BY <2>5, <3>3, <3>4, <3>5
  <2>7. /\ Built(r[6]) /\ Len(r[6].put) = n /\ r[6].ends = "answering" /\ r[6].put = v
        /\ \A i \in 1 .. ELECTRONEUM_IO_BUFFER_LENGTH : i > k => r[6].buffer[i] = s.buffer[i]
    BY <2>5, <2>6 DEF Kept, Built
  <2> DEFINE field == Field("extra", size)
  <2>8. "extra" \in Names
    <3>1. tx_prefix_extra(size) \in Commands
      <4>1. tx_prefix_extra(size) \in PrefixCommands
        <5>1. tx_prefix_extra(size) \in ExtraCommands
          BY Zenon DEF ExtraCommands
        <5> QED BY <5>1, Zenon DEF PrefixCommands
      <4> DEFINE others ==
            {generate_txout_keys(w, a) : w \in 1 .. 2, a \in BOOLEAN}
            \cup {mlsag_prepare(kk) : kk \in {<< >>, << Fetch("Hi", 32), Fetch("xin", 32) >>, << Fetch("Hi", 32), Sealed("xin") >>}}
            \cup {mlsag_hash(first, last) : first, last \in BOOLEAN} \cup {mlsag_sign(real) : real \in BOOLEAN}
            \cup {blind, gen_commitment_mask, mlsag_prehash_init_more, mlsag_prehash_update(2, << >>, FALSE),
                  mlsag_prehash_finalize_more, mlsag_prehash_finalize, tx_prompt_fake,
                  hash_to_scalar_init, hash_to_scalar, hash_to_scalar_batch}
      <4>2. TxCommands = others \cup PrefixCommands \cup AmountCommands
        BY DEF TxCommands
      <4> HIDE DEF others
      <4> QED BY <4>1, <4>2, Zenon DEF Commands
    <3>2. 7 \in DOMAIN tx_prefix_extra(size).calls /\ tx_prefix_extra(size).calls[7] = Extra(size)
      BY <1>1
    <3>3. Extra(size).what = "extra"
      BY DEF Extra, Call
    <3> QED BY <3>1, <3>2, <3>3, NamesOfCalls
  <2>9. field \in Seq(Bytes) /\ Len(field) = size /\ \A i \in 1 .. size : field[i] = << "extra", i >>
    BY <1>2, <2>8, FieldType
  <2> HIDE DEF field
  <2>10. SubSeq(r[6].buffer, 5 + 1, 5 + size) = field
    <3> DEFINE part == SubSeq(r[6].buffer, 5 + 1, 5 + size)
    <3>1. r[6].buffer \in Seq(Bytes) /\ Len(r[6].buffer) = ELECTRONEUM_IO_BUFFER_LENGTH
      BY <2>6 DEF Typed, Buffers
    <3>2. 5 + size <= ELECTRONEUM_IO_BUFFER_LENGTH
      BY <1>2 DEF ELECTRONEUM_IO_BUFFER_LENGTH
    <3>3. part \in Seq(Bytes) /\ Len(part) = size /\ \A i \in 1 .. size : part[i] = r[6].buffer[5 + i]
      BY <1>2, <3>1, <3>2, BufferLength
    <3> HIDE DEF part
    <3>4. \A i \in 1 .. size : s.buffer[5 + i] = << "extra", i >>
      BY <2>1, <2>2
    <3>5. ASSUME NEW i \in 1 .. size PROVE part[i] = field[i]
      <4>1. 5 + i \in 1 .. ELECTRONEUM_IO_BUFFER_LENGTH /\ 5 + i > k
        BY <1>2, <2>4, <3>2, BufferLength DEF k
      <4>2. r[6].buffer[5 + i] = s.buffer[5 + i]
        BY <2>7, <4>1
      <4> QED BY <2>9, <3>3, <3>4, <4>2
    <3>6. part = [i \in 1 .. size |-> part[i]] /\ field = [i \in 1 .. size |-> field[i]]
      BY <2>9, <3>3
    <3>7. part = field
      BY <3>5, <3>6
    <3> QED BY <3>7 DEF part
  <2>11. r[7] = Put(r[6], field)
    <3>1. Extra(size).op = "insert_extra" /\ Extra(size).what = "extra" /\ Extra(size).size = size
      BY DEF Extra, Call
    <3>2. r[7] = insert_from_buffer(r[6], "extra", size)
      <4>1. ASSUME NEW u, u.error = "none", NEW c, c.op = "insert_extra"
            PROVE  Do(u, c) = insert_from_buffer(u, c.what, c.size)
        BY <4>1 DEF Do
      <4>2. r[7] = Do(r[6], Extra(size))
        BY <1>1, <1>5
      <4> QED BY <2>6, <3>1, <4>1, <4>2
    <3>3. insert_from_buffer(r[6], "extra", size) = [insert(r[6], SubSeq(r[6].buffer, 5 + 1, 5 + size)) EXCEPT !.put = @ \o field]
      BY <2>6, Zenon DEF insert_from_buffer, field
    <3> QED BY <2>10, <3>2, <3>3, Zenon DEF Put
  <2>12. n + size <= MaxPut /\ n + size <= ELECTRONEUM_IO_BUFFER_LENGTH
    <3>1. k \in Nat /\ k <= 2 /\ n = k
      BY <2>4, <2>5 DEF k
    <3> HIDE DEF n
    <3> QED BY <1>2, <3>1 DEF MaxPut, ELECTRONEUM_IO_BUFFER_LENGTH
  <2>13. /\ Typed(r[7]) /\ Built(r[7]) /\ Len(r[7].put) = n + size
         /\ r[7].ends = "answering" /\ r[7].put = v \o field
    <3>1. Len(r[6].put) + Len(field) <= ELECTRONEUM_IO_BUFFER_LENGTH
      <4> HIDE DEF n
      <4> QED BY <2>7, <2>9, <2>12
    <3>2. /\ Typed(r[7]) /\ Built(r[7]) /\ Len(r[7].put) = Len(r[6].put) + Len(field)
          /\ r[7].ends = r[6].ends /\ r[7].put = r[6].put \o field
      <4>1. Typed(r[6]) /\ Built(r[6]) /\ field \in Seq(Bytes)
        BY <2>6, <2>7, <2>9
      <4> DEFINE u == r[6]
                 w == r[7]
      <4>2. Typed(u) /\ Built(u) /\ field \in Seq(Bytes) /\ w = Put(u, field)
            /\ Len(u.put) + Len(field) <= ELECTRONEUM_IO_BUFFER_LENGTH
        BY <2>11, <3>1, <4>1
      <4> HIDE DEF u, w
      <4>3. /\ Typed(w) /\ Built(w) /\ Len(w.put) = Len(u.put) + Len(field)
            /\ w.ends = u.ends /\ w.put = u.put \o field
        BY <4>2, PutStateOf
      <4> QED BY <4>3 DEF u, w
    <3> HIDE DEF n
    <3>3. Len(r[6].put) = n /\ Len(field) = size /\ r[6].ends = "answering" /\ r[6].put = v
      BY <2>7, <2>9
    <3>4. Len(r[7].put) = n + size
      BY <3>2, <3>3
    <3>5. r[7].put = v \o field
      BY <3>2, <3>3, Zenon
    <3> QED BY <3>2, <3>3, <3>4, <3>5
  <2>14. Left(r[7])
    BY <2>12, <2>13 DEF Left, Ends
  <2>15. ASSUME NEW i \in 0 .. 7 PROVE Typed(r[i])
    <3>1. i \in 0 .. 4 \/ i = 5 \/ i = 6 \/ i = 7
      OBVIOUS
    <3> QED BY <1>8, <2>5, <2>6, <2>13, <3>1
  <2>16. Begins(r[7].put, size)
    BY <1>2, <2>9, <2>13 DEF Begins, v
  <2>17. r[6].misread = r[5].misread
    <3>1. SubSeq(r[5].buffer, 5 + 1, 5 + size) = Field("extra", size)
      BY <2>6, <2>10, Zenon DEF Kept, field
    <3>2. r[6] = r[5]
      BY <2>6, <3>1, Zenon DEF Read, Holds
    <3> QED BY <3>2
  <2> QED BY <2>14, <2>15, <2>16, <2>17
<1> QED BY <1>9, <1>10

\* The data of a command as its calls make them up, one after another.
LEMMA DataParts ==
  ASSUME NEW calls, Len(calls) \in Nat \ {0}, DOMAIN calls = 1 .. Len(calls), NEW tx
  PROVE  \E f : /\ Data(calls, tx) = f[Len(calls)] /\ f[1] = Sent(calls[1], tx)
                /\ \A i \in 2 .. Len(calls) : f[i] = f[i - 1] \o Sent(calls[i], tx)
<1> DEFINE k == Len(calls)
           seqs == [i \in 1 .. k |-> Sent(calls[i], tx)]
<1>1. Data(calls, tx) = FlattenSeq(seqs)
  BY Zenon DEF Data
<1>2. k \in Nat \ {0}
  OBVIOUS
<1> HIDE DEF k
<1>3. Len(seqs) = k /\ \A i \in 1 .. k : seqs[i] = Sent(calls[i], tx)
  BY <1>2
<1> HIDE DEF seqs
<1>4. PICK f : IsFlat(f, seqs, k) /\ FlattenSeq(seqs) = f[k]
  BY <1>2, <1>3, FlattenDef
<1>5. f[1] = Sent(calls[1], tx)
  BY <1>2, <1>3, <1>4 DEF IsFlat
<1>6. \A i \in 2 .. k : f[i] = f[i - 1] \o Sent(calls[i], tx)
  <2> SUFFICES ASSUME NEW i \in 2 .. k PROVE f[i] = f[i - 1] \o Sent(calls[i], tx)
    OBVIOUS
  <2>1. i \in 1 .. k
    BY <1>2
  <2>2. f[i] = f[i - 1] \o seqs[i] /\ seqs[i] = Sent(calls[i], tx)
    BY <1>3, <1>4, <2>1 DEF IsFlat
  <2> QED BY <2>2, Zenon
<1> QED BY <1>1, <1>4, <1>5, <1>6 DEF k

LEMMA Joined ==
  ASSUME NEW S, NEW a \in Seq(S), NEW b \in Seq(S)
  PROVE  /\ a \o b \in Seq(S) /\ Len(a \o b) = Len(a) + Len(b)
         /\ \A i \in 1 .. Len(b) : (a \o b)[Len(a) + i] = b[i]
OBVIOUS

LEMMA CallsDomain ==
  ASSUME NEW c \in Commands
  PROVE  Len(c.calls) \in Nat /\ DOMAIN c.calls = 1 .. Len(c.calls)
<1>1. CASE c = manage_seedwords_other
  BY <1>1, OtherCalls
<1>2. CASE \E size \in ExtraSizes : c = tx_prefix_extra(size)
  <2>1. PICK size \in ExtraSizes : c = tx_prefix_extra(size)
    BY <1>2
  <2>2. Len(tx_prefix_extra(size).calls) = 7 /\ DOMAIN tx_prefix_extra(size).calls = 1 .. 7
    BY ExtraCalls, Zenon
  <2>3. Len(c.calls) = 7 /\ DOMAIN c.calls = 1 .. 7 /\ 7 \in Nat
    BY <2>1, <2>2
  <2> QED BY <2>3, Zenon
<1>3. CASE Orderly(c.calls)
  BY <1>3, Zenon DEF Orderly, Asks, Answers, Reads
<1> QED BY <1>1, <1>2, <1>3, HandlerShapes

\* Options and eight bytes.
LEMMA OtherData ==
  ASSUME NEW tx \in BOOLEAN, manage_seedwords_other \in Commands
  PROVE  Len(Data(manage_seedwords_other.calls, tx)) = 9
<1> DEFINE calls == manage_seedwords_other.calls
           a == Field("options", 1)
           b == Field("words", 8)
<1>1. /\ Len(calls) = 2 /\ DOMAIN calls = 1 .. 2
      /\ calls[1] = Fetch("options", 1) /\ calls[2] = Rest("words", 8)
  BY OtherCalls
<1>2. Sent(calls[1], tx) = a /\ Sent(calls[2], tx) = b
  BY <1>1 DEF Sent, Fetch, Rest, Call
<1>3. calls[1].what = "options" /\ calls[2].what = "words" /\ 1 \in DOMAIN calls /\ 2 \in DOMAIN calls
  BY <1>1 DEF Fetch, Rest, Call
<1>4. "options" \in Names /\ "words" \in Names
  BY <1>3, NamesOfCalls
<1>5. 1 \in Octets /\ 8 \in Octets
  BY DEF Octets
<1>6. a \in Seq(Bytes) /\ Len(a) = 1 /\ b \in Seq(Bytes) /\ Len(b) = 8
  BY <1>4, <1>5, FieldType
<1> HIDE DEF calls, a, b
<1>7. PICK f : /\ Data(calls, tx) = f[Len(calls)] /\ f[1] = Sent(calls[1], tx)
               /\ \A i \in 2 .. Len(calls) : f[i] = f[i - 1] \o Sent(calls[i], tx)
  <2>1. Len(calls) \in Nat \ {0} /\ DOMAIN calls = 1 .. Len(calls)
    BY <1>1
  <2> QED BY <2>1, DataParts
<1>8. Data(calls, tx) = a \o b
  <2>1. 2 \in 2 .. 2 /\ 2 - 1 = 1
    OBVIOUS
  <2>2. f[2] = f[2 - 1] \o Sent(calls[2], tx)
    BY <1>1, <1>7, <2>1, Zenon
  <2> QED BY <1>1, <1>2, <1>7, <2>1, <2>2, Zenon
<1>9. Len(a \o b) = 1 + 8
  <2>1. Len(a \o b) = Len(a) + Len(b)
    BY <1>6, Joined, Zenon
  <2> QED BY <1>6, <2>1, Zenon
<1> QED BY <1>8, <1>9 DEF calls

\* Options, the size, and the extra field.
LEMMA ExtraData ==
  ASSUME NEW size \in ExtraSizes, tx_prefix_extra(size) \in Commands, NEW tx \in BOOLEAN,
         NEW data, data = Data(tx_prefix_extra(size).calls, tx)
  PROVE  Len(data) = 5 + size /\ \A i \in 1 .. size : data[5 + i] = << "extra", i >>
<1> DEFINE calls == tx_prefix_extra(size).calls
           a == Field("options", 1)
           b == Field("extra_size", 4)
           c == Field("extra", size)
<1>1. /\ Len(calls) = 7 /\ DOMAIN calls = 1 .. 7
      /\ calls[1] = Fetch("options", 1) /\ calls[2] = Fetch("extra_size", 4)
      /\ calls[3] = Point("extra", size) /\ calls[4] = Discard(FALSE) /\ calls[5] = Number(size)
      /\ calls[6] = Use("extra", size) /\ calls[7] = Extra(size)
  BY ExtraCalls
<1>2. /\ Sent(Fetch("options", 1), tx) = a /\ Sent(Fetch("extra_size", 4), tx) = b
      /\ Sent(Point("extra", size), tx) = c /\ Sent(Discard(FALSE), tx) = << >>
      /\ Sent(Number(size), tx) = << >> /\ Sent(Use("extra", size), tx) = << >>
      /\ Sent(Extra(size), tx) = << >>
  BY DEF Sent, Fetch, Point, Discard, Number, Use, Extra, Call
<1>3. calls[1].what = "options" /\ calls[2].what = "extra_size" /\ calls[3].what = "extra"
      /\ 1 \in DOMAIN calls /\ 2 \in DOMAIN calls /\ 3 \in DOMAIN calls
  <2>1. Fetch("options", 1).what = "options" /\ Fetch("extra_size", 4).what = "extra_size"
        /\ Point("extra", size).what = "extra"
    BY DEF Fetch, Point, Call
  <2> QED BY <1>1, <2>1
<1>4. "options" \in Names /\ "extra_size" \in Names /\ "extra" \in Names
  BY <1>3, NamesOfCalls
<1>5. 1 \in Octets /\ 4 \in Octets /\ size \in Octets /\ size \in Nat
  BY ExtraAssumption DEF Octets
<1>6. /\ a \in Seq(Bytes) /\ Len(a) = 1 /\ b \in Seq(Bytes) /\ Len(b) = 4
      /\ c \in Seq(Bytes) /\ Len(c) = size /\ \A i \in 1 .. size : c[i] = << "extra", i >>
  BY <1>4, <1>5, FieldType
<1> HIDE DEF calls, a, b, c
<1>7. PICK f : /\ Data(calls, tx) = f[Len(calls)] /\ f[1] = Sent(calls[1], tx)
               /\ \A i \in 2 .. Len(calls) : f[i] = f[i - 1] \o Sent(calls[i], tx)
  <2>1. Len(calls) \in Nat \ {0} /\ DOMAIN calls = 1 .. Len(calls)
    BY <1>1
  <2> QED BY <2>1, DataParts
<1>8. \A i \in 2 .. 7 : f[i] = f[i - 1] \o Sent(calls[i], tx)
  BY <1>1, <1>7
<1>9. /\ f[2] = f[2 - 1] \o Sent(calls[2], tx) /\ f[3] = f[3 - 1] \o Sent(calls[3], tx)
      /\ f[4] = f[4 - 1] \o Sent(calls[4], tx) /\ f[5] = f[5 - 1] \o Sent(calls[5], tx)
      /\ f[6] = f[6 - 1] \o Sent(calls[6], tx) /\ f[7] = f[7 - 1] \o Sent(calls[7], tx)
  <2>1. 2 \in 2 .. 7 /\ 3 \in 2 .. 7 /\ 4 \in 2 .. 7 /\ 5 \in 2 .. 7 /\ 6 \in 2 .. 7 /\ 7 \in 2 .. 7
    OBVIOUS
  <2> QED BY <1>8, <2>1, Zenon
<1>10. /\ f[1] = a /\ f[2] = f[1] \o b /\ f[3] = f[2] \o c /\ f[4] = f[3] \o << >>
       /\ f[5] = f[4] \o << >> /\ f[6] = f[5] \o << >> /\ f[7] = f[6] \o << >>
  <2>1. 2 - 1 = 1 /\ 3 - 1 = 2 /\ 4 - 1 = 3 /\ 5 - 1 = 4 /\ 6 - 1 = 5 /\ 7 - 1 = 6
    OBVIOUS
  <2>2. f[1] = a
    BY <1>1, <1>2, <1>7
  <2> QED BY <1>1, <1>2, <1>9, <2>1, <2>2, Zenon
<1> DEFINE x == a \o b
           y == x \o c
<1>11. x \in Seq(Bytes) /\ Len(x) = 5
  <2>1. x \in Seq(Bytes) /\ Len(x) = Len(a) + Len(b)
    BY <1>6, Joined, Zenon
  <2>2. Len(x) = 1 + 4
    BY <1>6, <2>1, Zenon
  <2>3. 1 + 4 = 5
    OBVIOUS
  <2> QED BY <2>1, <2>2, <2>3, Zenon
<1> HIDE DEF x
<1>12. y \in Seq(Bytes) /\ Len(y) = 5 + size /\ \A i \in 1 .. size : y[5 + i] = c[i]
  <2>1. /\ y \in Seq(Bytes) /\ Len(y) = Len(x) + Len(c)
        /\ \A i \in 1 .. Len(c) : y[Len(x) + i] = c[i]
    <3>1. x \in Seq(Bytes) /\ c \in Seq(Bytes)
      BY <1>6, <1>11
    <3> QED BY <3>1, Joined, Zenon
  <2>2. Len(x) = 5 /\ Len(c) = size
    BY <1>6, <1>11
  <2>3. Len(y) = 5 + size
    BY <2>1, <2>2, Zenon
  <2>4. \A i \in 1 .. size : y[5 + i] = c[i]
    BY <2>1, <2>2, Zenon
  <2> QED BY <2>1, <2>3, <2>4
<1> HIDE DEF y
<1>13. y \o << >> = y
  BY <1>12
<1>14. f[7] = y
  <2>1. f[3] = y
    BY <1>10, Zenon DEF x, y
  <2> QED BY <1>10, <1>13, <2>1, Zenon
<1>15. data = f[7]
  BY <1>1, <1>7, Zenon DEF calls
<1> QED BY <1>6, <1>12, <1>14, <1>15

-----------------------------------------------------------------------------
(***************************************************************************)
(* The loop                                                                *)
(***************************************************************************)
\* What a handler starts with: the data of its command, or a part of them.
Holding(c, s) ==
  /\ Start(s) /\ s.offset = 0
  /\ s.error = "none" /\ c = manage_seedwords_other => s.length <= 9
  /\ \A size \in ExtraSizes : s.error = "none" /\ c = tx_prefix_extra(size) =>
       /\ s.length <= 5 + size
       /\ s.length = 5 + size => \A i \in 1 .. size : s.buffer[5 + i] = << "extra", i >>

\* What is answered begins with the first number the handler puts, if it puts one.
Echoes(calls, put) ==
  \A i \in 1 .. Len(calls) :
    IsNumber(calls[i]) /\ (\A j \in 1 .. i - 1 : ~IsNumber(calls[j])) => Begins(put, calls[i].size)

LEMMA AsksEchoes ==
  ASSUME NEW calls, NEW d, Asks(calls, d), NEW put
  PROVE  Echoes(calls, put)
<1>1. Reads(calls, d) /\ \A i \in 1 .. Len(calls) : i > d => Quiet(calls[i])
  BY DEF Asks
<1>2. \A c : Quiet(c) => ~IsNumber(c)
  BY DEF Quiet, IsNumber
<1>3. \A i \in 1 .. Len(calls) : ~IsNumber(calls[i])
  BY <1>1, <1>2, NoNumberRead
<1> QED BY <1>3 DEF Echoes

LEMMA AnswersEchoes ==
  ASSUME NEW calls, NEW d, Reads(calls, d), NumberFirst(calls, d), NEW put,
         d + 1 \in 1 .. Len(calls) /\ IsNumber(calls[d + 1]) => Begins(put, calls[d + 1].size)
  PROVE  Echoes(calls, put)
<1> SUFFICES ASSUME NEW i \in 1 .. Len(calls), IsNumber(calls[i]), \A j \in 1 .. i - 1 : ~IsNumber(calls[j])
             PROVE  Begins(put, calls[i].size)
  BY DEF Echoes
<1>1. Len(calls) \in Nat /\ d \in 1 .. Len(calls) /\ i > d
  BY NoNumberRead DEF Reads
<1>2. d + 1 \in 1 .. Len(calls) /\ IsNumber(calls[d + 1]) /\ Begins(put, calls[d + 1].size)
  BY DEF NumberFirst
<1>3. ~(d + 1 \in 1 .. i - 1)
  BY <1>2
<1>4. i = d + 1
  BY <1>1, <1>3
<1> QED BY <1>2, <1>4

LEMMA OtherEchoes ==
  ASSUME NEW put
  PROVE  Echoes(manage_seedwords_other.calls, put)
<1> DEFINE calls == manage_seedwords_other.calls
<1>1. Len(calls) = 2 /\ calls[1] = Fetch("options", 1) /\ calls[2] = Rest("words", 8)
  BY OtherCalls
<1>2. ~IsNumber(calls[1]) /\ ~IsNumber(calls[2])
  BY <1>1 DEF IsNumber, Fetch, Rest, Call
<1> HIDE DEF calls
<1>3. \A i \in 1 .. Len(calls) : ~IsNumber(calls[i])
  <2> SUFFICES ASSUME NEW i \in 1 .. 2 PROVE ~IsNumber(calls[i])
    BY <1>1
  <2>1. i = 1 \/ i = 2
    OBVIOUS
  <2> QED BY <1>2, <2>1
<1> QED BY <1>3 DEF Echoes, calls

LEMMA ExtraEchoes ==
  ASSUME NEW size, NEW put, Begins(put, size)
  PROVE  Echoes(tx_prefix_extra(size).calls, put)
<1> DEFINE calls == tx_prefix_extra(size).calls
<1>1. /\ Len(calls) = 7
      /\ calls[1] = Fetch("options", 1) /\ calls[2] = Fetch("extra_size", 4)
      /\ calls[3] = Point("extra", size) /\ calls[4] = Discard(FALSE) /\ calls[5] = Number(size)
      /\ calls[6] = Use("extra", size) /\ calls[7] = Extra(size)
  BY ExtraCalls
<1>2. /\ ~IsNumber(Fetch("options", 1)) /\ ~IsNumber(Fetch("extra_size", 4))
      /\ ~IsNumber(Point("extra", size)) /\ ~IsNumber(Discard(FALSE))
      /\ ~IsNumber(Use("extra", size)) /\ ~IsNumber(Extra(size)) /\ Number(size).size = size
  BY DEF IsNumber, Fetch, Point, Discard, Use, Extra, Number, Call
<1> HIDE DEF calls
<1>3. ASSUME NEW i \in 1 .. 7, IsNumber(calls[i])
      PROVE  calls[i].size = size
  <2>1. i = 1 \/ i = 2 \/ i = 3 \/ i = 4 \/ i = 5 \/ i = 6 \/ i = 7
    OBVIOUS
  <2> QED BY <1>1, <1>2, <1>3, <2>1
<1> QED BY <1>1, <1>3 DEF Echoes, calls

\* Whatever the command, the buffer is in order after each call, what is left is an answer, and
\* it begins with the first number.
LEMMA HandlerRun ==
  ASSUME NEW c \in Commands, NEW s, Holding(c, s), NEW r, r = Runs(s, c.calls)
  PROVE  /\ Len(c.calls) \in Nat /\ \A n \in 0 .. Len(c.calls) : Typed(r[n])
         /\ c # manage_seedwords_other => Left(r[Len(c.calls)])
         /\ c = manage_seedwords_other =>
              /\ Start(r[Len(c.calls)])
              /\ r[Len(c.calls)].error = "none" => r[Len(c.calls)].length <= 9
         /\ r[Len(c.calls)].error = "none" => Echoes(c.calls, r[Len(c.calls)].put)
<1>0. Start(s) /\ s.offset = 0
  BY DEF Holding
<1>1. CASE c = manage_seedwords_other
  <2> DEFINE calls == c.calls
  <2>1. /\ Len(calls) = 2 /\ DOMAIN calls = 1 .. 2
        /\ calls[1] = Fetch("options", 1) /\ calls[2] = Rest("words", 8)
    BY <1>1, OtherCalls
  <2>2. Reader(calls[1]) /\ Reader(calls[2])
    <3>1. Reader(Fetch("options", 1)) /\ Reader(Rest("words", 8))
      BY DEF Reader, ReadOps, Octets, Call, Fetch, Rest
    <3> QED BY <2>1, <3>1
  <2> HIDE DEF calls
  <2>3. r[0] = s /\ r[1] = Do(r[0], calls[1]) /\ r[2] = Do(r[1], calls[2])
    <3>1. r[0] = s /\ \A n \in 1 .. Len(calls) : r[n] = Do(r[n - 1], calls[n])
      <4>1. r = Runs(s, calls) /\ Len(calls) \in Nat
        BY <2>1 DEF calls
      <4> QED BY <4>1, RunsDef
    <3>2. 1 \in 1 .. Len(calls) /\ 2 \in 1 .. Len(calls) /\ 1 - 1 = 0 /\ 2 - 1 = 1
      BY <2>1
    <3> QED BY <3>1, <3>2, Zenon
  <2>4. Kept(r[0], r[1]) /\ Typed(r[1])
    BY <1>0, <2>2, <2>3, ReaderDo DEF Start
  <2>5. Kept(r[1], r[2]) /\ Typed(r[2])
    BY <2>2, <2>3, <2>4, ReaderDo
  <2>6. Start(r[2]) /\ r[2].length = s.length
    BY <1>0, <2>3, <2>4, <2>5 DEF Start, Kept
  <2>7. r[2].error = "none" => s.error = "none"
    BY <2>3, ErrorStays
  <2>8. r[2].error = "none" => r[2].length <= 9
    BY <1>1, <2>6, <2>7 DEF Holding
  <2>9. ASSUME NEW n \in 0 .. 2 PROVE Typed(r[n])
    <3>1. n = 0 \/ n = 1 \/ n = 2
      OBVIOUS
    <3> QED BY <1>0, <2>3, <2>4, <2>5, <3>1 DEF Start
  <2>10. Len(calls) = 2 /\ Len(calls) \in Nat
    BY <2>1
  <2>11. Echoes(calls, r[2].put)
    BY <1>1, OtherEchoes, Zenon DEF calls
  <2> QED BY <1>1, <2>6, <2>8, <2>9, <2>10, <2>11 DEF calls
<1>2. CASE c # manage_seedwords_other /\ \E size \in ExtraSizes : c = tx_prefix_extra(size)
  <2>1. PICK size \in ExtraSizes : c = tx_prefix_extra(size)
    BY <1>2
  <2>2. Len(c.calls) = 7 /\ Len(c.calls) \in Nat
    <3>1. Len(tx_prefix_extra(size).calls) = 7
      BY ExtraCalls, Zenon
    <3>2. 7 \in Nat
      OBVIOUS
    <3> QED BY <2>1, <3>1, <3>2, Zenon
  <2>3. Left(r[7]) /\ (\A n \in 0 .. 7 : Typed(r[n])) /\ (r[7].error = "none" => Begins(r[7].put, size))
    <3>1. /\ s.error = "none" => s.length <= 5 + size
          /\ s.error = "none" /\ s.length = 5 + size =>
               \A i \in 1 .. size : s.buffer[5 + i] = << "extra", i >>
      BY <2>1, Zenon DEF Holding
    <3> QED BY <1>0, <2>1, <3>1, ExtraRun
  <2>4. r[7].error = "none" => Echoes(c.calls, r[7].put)
    BY <2>1, <2>3, ExtraEchoes, Zenon
  <2> QED BY <1>2, <2>2, <2>3, <2>4
<1>3. CASE c # manage_seedwords_other /\ Orderly(c.calls)
  <2>1. PICK d : (Asks(c.calls, d) \/ \E sizes : Answers(c.calls, d, sizes)) /\ NumberFirst(c.calls, d)
    BY <1>3 DEF Orderly
  <2>2. Reads(c.calls, d)
    BY <2>1 DEF Asks, Answers
  <2>3. Len(c.calls) \in Nat
    BY <2>2 DEF Reads
  <2>4. /\ Left(r[Len(c.calls)]) /\ \A n \in 0 .. Len(c.calls) : Typed(r[n])
        /\ r[Len(c.calls)].error = "none" => Echoes(c.calls, r[Len(c.calls)].put)
    <3>1. CASE Asks(c.calls, d)
      <4>1. Echoes(c.calls, r[Len(c.calls)].put)
        BY <3>1, AsksEchoes, Zenon
      <4> QED BY <1>0, <3>1, <4>1, AsksRun
    <3>2. CASE \E sizes : Answers(c.calls, d, sizes)
      <4>1. PICK sizes : Answers(c.calls, d, sizes)
        BY <3>2
      <4>2. /\ Left(r[Len(c.calls)]) /\ \A n \in 0 .. Len(c.calls) : Typed(r[n])
            /\ r[Len(c.calls)].error = "none" /\ d + 1 \in 1 .. Len(c.calls) /\ IsNumber(c.calls[d + 1])
               => Begins(r[Len(c.calls)].put, c.calls[d + 1].size)
        BY <1>0, <4>1, AnswersRun
      <4>3. r[Len(c.calls)].error = "none" => Echoes(c.calls, r[Len(c.calls)].put)
        BY <2>1, <2>2, <4>2, AnswersEchoes
      <4> QED BY <4>2, <4>3
    <3> QED BY <2>1, <3>1, <3>2
  <2> QED BY <1>3, <2>3, <2>4
<1> QED BY <1>1, <1>2, <1>3, HandlerShapes

LEMMA StatusType == Status \in Seq(Bytes) /\ Len(Status) = 2
<1>1. "sw" \in Names /\ 2 \in Octets
  BY DEF Names, Octets
<1> QED BY <1>1, FieldType DEF Status

\* What is sent is what was put, and then the status.
Ready(s) ==
  /\ s.length = Len(s.put) + 2 /\ s.length <= MAX_OUT
  /\ \A i \in 1 .. Len(s.put) : s.buffer[i] = s.put[i]
  /\ \A i \in 1 .. 2 : s.buffer[Len(s.put) + i] = Status[i]

LEMMA StatusState ==
  ASSUME NEW s, Typed(s), Built(s), Len(s.put) <= MaxPut, NEW t, t = insert(s, Status)
  PROVE  Typed(t) /\ Ready(t) /\ t.error = s.error /\ t.put = s.put
<1> DEFINE n == Len(s.put)
           m == Len(Status)
<1>1. s.put \in Seq(Bytes) /\ s.length = n /\ s.offset = n /\ \A i \in 1 .. n : s.buffer[i] = s.put[i]
  BY DEF Typed, Built
<1>2. n \in Nat /\ n <= MaxPut /\ Status \in Seq(Bytes) /\ m = 2
  BY <1>1, StatusType
<1> HIDE DEF n, m
<1>3. n + m <= ELECTRONEUM_IO_BUFFER_LENGTH /\ n + 2 <= MAX_OUT
  BY <1>2 DEF ELECTRONEUM_IO_BUFFER_LENGTH, MaxPut, MAX_OUT
<1>4. s.length + Len(Status) <= ELECTRONEUM_IO_BUFFER_LENGTH
  BY <1>1, <1>3 DEF m
<1>5. /\ Typed(t) /\ Changes(s, t, {"buffer", "offset", "length"})
      /\ t.length = s.length + Len(Status)
      /\ \A i \in 1 .. s.offset : t.buffer[i] = s.buffer[i]
      /\ \A i \in 1 .. Len(Status) : t.buffer[s.offset + i] = Status[i]
  BY <1>2, <1>4, InsertState
<1>6. t.put = s.put /\ t.error = s.error
  BY <1>5, SMT DEF Changes, Fields
<1>7. Len(t.put) = n
  BY <1>6 DEF n
<1>8. t.length = n + 2
  BY <1>1, <1>2, <1>5 DEF m
<1>9. \A i \in 1 .. n : t.buffer[i] = t.put[i]
  BY <1>1, <1>5, <1>6
<1>10. \A i \in 1 .. 2 : t.buffer[n + i] = Status[i]
  BY <1>1, <1>2, <1>5 DEF m
<1>11. Ready(t)
  BY <1>3, <1>7, <1>8, <1>9, <1>10 DEF Ready
<1> QED BY <1>5, <1>6, <1>11

\* After an error a short answer is made, and nothing else is in the buffer.
LEMMA CaughtState ==
  ASSUME NEW s, Typed(s), NEW t, t = Caught(s)
  PROVE  Typed(t) /\ Ready(t) /\ t.error = s.error
<1> DEFINE d == discard(s, TRUE)
           cleared == [d EXCEPT !.tx = FALSE, !.put = << >>]
           told == Put(cleared, Field("e", 4))
<1>1. /\ Typed(d) /\ Changes(s, d, {"buffer", "offset", "length"})
      /\ d.offset = 0 /\ d.length = 0
  BY DiscardState
<1>2. t = insert(cleared, Status) \/ t = insert(told, Status)
  BY Zenon DEF Caught
<1> HIDE DEF d
<1>3. DOMAIN d = Fields /\ d.error = s.error
  BY <1>1, SMT DEF Typed, Changes, Fields
<1>4. /\ DOMAIN cleared = Fields /\ cleared.tx = FALSE /\ cleared.put = << >>
      /\ cleared.buffer = d.buffer /\ cleared.offset = 0 /\ cleared.length = 0 /\ cleared.error = d.error
  BY <1>1, <1>3, SMT DEF Fields
<1> HIDE DEF cleared
<1>5. Len(cleared.put) = 0 /\ cleared.put \in Seq(Bytes)
  BY <1>4
<1>6. Typed(cleared)
  BY <1>1, <1>4, <1>5, BufferLength DEF Typed
<1>7. Built(cleared)
  BY <1>4, <1>5 DEF Built
<1>8. Typed(told) /\ Built(told) /\ Len(told.put) = 4 /\ told.error = cleared.error
  <2>1. "e" \in Names /\ 4 \in Octets
    BY DEF Names, Octets
  <2> DEFINE field == Field("e", 4)
  <2>2. field \in Seq(Bytes) /\ Len(field) = 4
    BY <2>1, FieldType
  <2>3. told = Put(cleared, field)
    OBVIOUS
  <2> HIDE DEF field, told
  <2>4. Len(cleared.put) + Len(field) <= ELECTRONEUM_IO_BUFFER_LENGTH
    BY <1>5, <2>2 DEF ELECTRONEUM_IO_BUFFER_LENGTH
  <2>5. /\ Typed(told) /\ Built(told) /\ Len(told.put) = Len(cleared.put) + Len(field)
        /\ told.error = cleared.error
    BY <1>6, <1>7, <2>2, <2>3, <2>4, PutStateOf
  <2> QED BY <1>5, <2>2, <2>5
<1> HIDE DEF told
<1>9. Len(cleared.put) <= MaxPut /\ Len(told.put) <= MaxPut
  BY <1>5, <1>8 DEF MaxPut
<1> QED BY <1>2, <1>3, <1>4, <1>6, <1>7, <1>8, <1>9, StatusState

\* A command that comes in is at the beginning of the buffer.
LEMMA ReceivedState ==
  ASSUME NEW data \in Seq(Bytes), Len(data) <= ELECTRONEUM_IO_BUFFER_LENGTH,
         NEW keys, NEW tx \in BOOLEAN, NEW whole, NEW t, t = Received(data, keys, tx, whole)
  PROVE  /\ Start(t) /\ t.offset = 0 /\ t.length = Len(data) /\ t.error = "none"
         /\ \A i \in 1 .. Len(data) : t.buffer[i] = data[i]
<1> DEFINE n == Len(data)
           rest == [i \in 1 .. ELECTRONEUM_IO_BUFFER_LENGTH - n |-> Old]
           buffer == data \o rest
<1>1. n \in Nat /\ n <= ELECTRONEUM_IO_BUFFER_LENGTH
  OBVIOUS
<1>2. Old \in Bytes
  <2>1. "old" \in Names /\ 0 \in Octets
    BY DEF Names, Octets
  <2> QED BY <2>1, ByteType DEF Old
<1>3. /\ DOMAIN t = Fields /\ t.buffer = buffer /\ t.offset = 0 /\ t.length = n /\ t.tx = tx
      /\ t.error = "none" /\ t.put = << >> /\ t.ends = "answering"
  <2>1. t = [buffer |-> buffer, offset |-> 0, length |-> n, tx |-> tx, keys |-> keys, whole |-> whole,
             at |-> << >>, error |-> "none", misread |-> {}, put |-> << >>, shown |-> {}, ends |-> "answering"]
    BY Zenon DEF Received
  <2> HIDE DEF buffer, n
  <2>2. /\ t.buffer = buffer /\ t.offset = 0 /\ t.length = n /\ t.tx = tx
        /\ t.error = "none" /\ t.put = << >> /\ t.ends = "answering"
    BY <2>1
  <2>3. DOMAIN t = Fields
    BY <2>1, SMT DEF Fields
  <2> QED BY <2>2, <2>3
<1> HIDE DEF n
<1>4. ELECTRONEUM_IO_BUFFER_LENGTH - n \in Nat
  BY <1>1, BufferLength
<1>5. rest \in Seq(Bytes) /\ Len(rest) = ELECTRONEUM_IO_BUFFER_LENGTH - n
  BY <1>2, <1>4
<1> HIDE DEF rest
<1>6. buffer \in Seq(Bytes) /\ Len(buffer) = n + Len(rest) /\ \A i \in 1 .. n : buffer[i] = data[i]
  BY <1>5 DEF n
<1> HIDE DEF buffer
<1>7. Len(buffer) = ELECTRONEUM_IO_BUFFER_LENGTH
  BY <1>1, <1>5, <1>6, BufferLength
<1>8. t.buffer \in Buffers
  BY <1>3, <1>6, <1>7 DEF Buffers
<1>9. t.put \in Seq(Bytes) /\ t.error \in Errors
  BY <1>3 DEF Errors
<1>10. Typed(t)
  BY <1>1, <1>3, <1>8, <1>9, BufferLength DEF Typed
<1> QED BY <1>3, <1>6, <1>10 DEF Start, n

\* So does the first part of a command.
LEMMA PartType ==
  ASSUME NEW data \in Seq(Bytes), NEW m \in Nat, m <= Len(data)
  PROVE  /\ SubSeq(data, 1, m) \in Seq(Bytes) /\ Len(SubSeq(data, 1, m)) <= Len(data)
         /\ Len(SubSeq(data, 1, m)) = Len(data) =>
              \A i \in 1 .. Len(data) : SubSeq(data, 1, m)[i] = data[i]
<1> DEFINE n == Len(data)
           part == SubSeq(data, 1, m)
<1>1. n \in Nat /\ m <= n
  OBVIOUS
<1>2. part \in Seq(Bytes) /\ Len(part) = m /\ \A i \in 1 .. m : part[i] = data[i]
  BY <1>1
<1> HIDE DEF part, n
<1> QED BY <1>1, <1>2 DEF part, n

-----------------------------------------------------------------------------
(***************************************************************************)
(* The inductive invariant                                                 *)
(***************************************************************************)
\* A command that was received is at the beginning of the buffer; an answer is built there, and
\* complete before it is sent; while the user is asked the buffer is empty.
IoInv ==
  /\ Typed(io) /\ command \in Commands
  /\ phase \in {"waiting", "received", "answering", "asking", "silent"}
  /\ phase = "received" => Holding(command, io)
  /\ phase = "answering" => io.length <= MAX_OUT /\ (command # manage_seedwords_other => Ready(io))
  /\ phase \in {"asking", "silent"} => Built(io) /\ io.put = << >> /\ command # manage_seedwords_other
  /\ phase = "waiting" /\ answer # << >> /\ command # manage_seedwords_other => answer = io.put \o Status

LEMMA IdleState ==
  ASSUME NEW t, t = discard(Received(<< >>, "sealed", FALSE, TRUE), TRUE)
  PROVE  Typed(t)
<1> DEFINE r == Received(<< >>, "sealed", FALSE, TRUE)
<1>1. << >> \in Seq(Bytes) /\ Len(<< >>) <= ELECTRONEUM_IO_BUFFER_LENGTH
  BY BufferLength DEF ELECTRONEUM_IO_BUFFER_LENGTH
<1>2. Typed(r)
  BY <1>1, ReceivedState DEF Start
<1> HIDE DEF r
<1>3. t = discard(r, TRUE)
  BY DEF r
<1> QED BY <1>2, <1>3, DiscardState

LEMMA IoInit == Init => IoInv
<1> SUFFICES ASSUME Init PROVE IoInv
  OBVIOUS
<1>1. Typed(io)
  BY IdleState DEF Init
<1>2. phase = "waiting" /\ answer = << >> /\ command \in Commands
  <2>1. command \in FreeCommands
    BY DEF Init, FreeCommands
  <2> QED BY <2>1 DEF Init, Commands
<1> QED BY <1>1, <1>2 DEF IoInv

LEMMA AllowedHolds ==
  ASSUME NEW s, Holding(command, s)
  PROVE  Holding(command, Allowed(s))
<1>1. CASE Allowed(s) = s
  BY <1>1
<1>2. CASE Allowed(s) = Fails(s, "SW_CONDITIONS_NOT_SATISFIED")
  <2> DEFINE t == Allowed(s)
  <2>1. "SW_CONDITIONS_NOT_SATISFIED" \in Errors /\ Typed(s)
    BY DEF Errors, Holding, Start
  <2>2. Typed(t) /\ t.error = "SW_CONDITIONS_NOT_SATISFIED" /\ Changes(s, t, {"error"})
    BY <1>2, <2>1, FailsState
  <2> HIDE DEF t
  <2>3. t.put = s.put /\ t.ends = s.ends /\ t.offset = s.offset
    BY <2>2, SMT DEF Changes, Fields
  <2>4. Start(t) /\ t.offset = 0
    BY <2>2, <2>3 DEF Holding, Start
  <2>5. Holding(command, t)
    BY <2>2, <2>4 DEF Holding
  <2> QED BY <2>5 DEF t
<1>3. Allowed(s) = s \/ Allowed(s) = Fails(s, "SW_CONDITIONS_NOT_SATISFIED")
  BY DEF Allowed
<1> QED BY <1>1, <1>2, <1>3

LEMMA SendNowState ==
  ASSUME NEW s, Typed(s), s.length <= MAX_OUT, SendNow(s)
  PROVE  /\ Typed(io') /\ phase' = "waiting" /\ io'.put = s.put /\ io'.error = s.error
         /\ Ready(s) => answer' = io'.put \o Status
<1>1. /\ DOMAIN s = Fields /\ s.buffer \in Buffers /\ s.length \in Nat /\ s.put \in Seq(Bytes)
      /\ s.length <= ELECTRONEUM_IO_BUFFER_LENGTH
  BY DEF Typed
<1>2. io' = [s EXCEPT !.offset = 0] /\ phase' = "waiting" /\ answer' = SubSeq(s.buffer, 1, s.length)
  <2>1. ~(s.length > MAX_OUT)
    BY <1>1 DEF MAX_OUT
  <2> QED BY <2>1, Zenon DEF SendNow
<1>3. /\ DOMAIN io' = Fields /\ io'.buffer = s.buffer /\ io'.offset = 0 /\ io'.length = s.length
      /\ io'.tx = s.tx /\ io'.error = s.error /\ io'.put = s.put
  BY <1>1, <1>2, SMT DEF Fields
<1>4. Typed(io')
  BY <1>3, BufferLength DEF Typed
<1>5. ASSUME Ready(s) PROVE answer' = s.put \o Status
  <2> DEFINE n == Len(s.put)
             sent == SubSeq(s.buffer, 1, s.length)
             whole == s.put \o Status
  <2>1. s.buffer \in Seq(Bytes) /\ Len(s.buffer) = ELECTRONEUM_IO_BUFFER_LENGTH
    BY <1>1 DEF Buffers
  <2>2. sent \in Seq(Bytes) /\ Len(sent) = s.length /\ \A i \in 1 .. s.length : sent[i] = s.buffer[i]
    BY <1>1, <2>1, BufferLength
  <2> HIDE DEF sent
  <2>3. n \in Nat /\ s.length = n + 2 /\ (\A i \in 1 .. n : s.buffer[i] = s.put[i])
        /\ \A i \in 1 .. 2 : s.buffer[n + i] = Status[i]
    BY <1>1, <1>5 DEF Ready
  <2>4. /\ whole \in Seq(Bytes) /\ Len(whole) = n + 2 /\ (\A i \in 1 .. n : whole[i] = s.put[i])
        /\ \A i \in 1 .. 2 : whole[n + i] = Status[i]
    <3>1. \A a, b \in Seq(Bytes) : \A i \in 1 .. Len(a) : (a \o b)[i] = a[i]
      OBVIOUS
    <3>2. /\ whole \in Seq(Bytes) /\ Len(whole) = Len(s.put) + Len(Status)
          /\ \A i \in 1 .. Len(Status) : whole[Len(s.put) + i] = Status[i]
      <4>1. s.put \in Seq(Bytes) /\ Status \in Seq(Bytes)
        BY <1>1, StatusType
      <4> QED BY <4>1, Joined, Zenon
    <3>3. \A i \in 1 .. n : whole[i] = s.put[i]
      BY <1>1, StatusType, <3>1, Zenon
    <3> HIDE DEF whole
    <3>4. Len(whole) = n + 2 /\ \A i \in 1 .. 2 : whole[n + i] = Status[i]
      BY <3>2, StatusType, Zenon
    <3> QED BY <3>2, <3>3, <3>4
  <2> HIDE DEF whole, n
  <2>5. ASSUME NEW i \in 1 .. n + 2 PROVE sent[i] = whole[i]
    <3>1. CASE i <= n
      <4>1. i \in 1 .. n /\ i \in 1 .. s.length
        BY <2>3, <3>1
      <4> QED BY <2>2, <2>3, <2>4, <4>1
    <3>2. CASE ~(i <= n)
      <4>1. i - n \in 1 .. 2 /\ n + (i - n) = i /\ i \in 1 .. s.length
        BY <2>3, <3>2
      <4>2. s.buffer[n + (i - n)] = Status[i - n] /\ whole[n + (i - n)] = Status[i - n]
        BY <2>3, <2>4, <4>1
      <4>3. sent[i] = s.buffer[i]
        BY <2>2, <4>1
      <4> QED BY <4>1, <4>2, <4>3
    <3> QED BY <3>1, <3>2
  <2>6. sent = [i \in 1 .. n + 2 |-> sent[i]] /\ whole = [i \in 1 .. n + 2 |-> whole[i]]
    BY <2>2, <2>3, <2>4
  <2>7. sent = whole
    BY <2>5, <2>6
  <2> QED BY <1>2, <2>7 DEF sent, whole
<1> QED BY <1>2, <1>3, <1>4, <1>5

LEMMA ReceiveStep ==
  ASSUME IoInv, NEW c \in Commands, NEW keys, Receive(c, keys)
  PROVE  IoInv'
<1> DEFINE data == Data(c.calls, io.tx)
<1>1. io.tx \in BOOLEAN
  BY DEF IoInv, Typed
<1>2. data \in Seq(Bytes)
  BY <1>1, DataType
<1> HIDE DEF data
<1>3. /\ phase' = "received" /\ command' = c /\ answer' = << >>
      /\ \E cut \in Cuts :
           /\ Len(data) - cut \in 0 .. 255
           /\ io' = Received(SubSeq(data, 1, Len(data) - cut), keys, io.tx, cut = 0)
  BY Zenon DEF Receive, data
<1>4. PICK cut \in Cuts :
        /\ Len(data) - cut \in 0 .. 255
        /\ io' = Received(SubSeq(data, 1, Len(data) - cut), keys, io.tx, cut = 0)
  BY <1>3
<1> DEFINE m == Len(data) - cut
           part == SubSeq(data, 1, m)
           whole == cut = 0
           n == Len(data)
           k == Len(part)
<1>0. m \in Nat /\ m <= 255 /\ m <= n /\ n \in Nat
  <2>1. n \in Nat /\ cut \in Nat /\ n - cut \in 0 .. 255
    BY <1>2, <1>4, CutAssumption
  <2>2. m = n - cut
    OBVIOUS
  <2> HIDE DEF n, m
  <2> QED BY <2>1, <2>2
<1>5. /\ part \in Seq(Bytes) /\ k <= n
      /\ k = n => \A i \in 1 .. n : part[i] = data[i]
  <2> HIDE DEF m
  <2> QED BY <1>0, <1>2, PartType DEF n
<1>6. io' = Received(part, keys, io.tx, whole)
  BY <1>4
<1>7. n \in Nat /\ k \in Nat /\ k <= 255
  <2> HIDE DEF m
  <2>1. k = m
    BY <1>0, <1>2
  <2> QED BY <1>0, <2>1
<1> HIDE DEF part, whole, m
<1> HIDE DEF n, k
<1>8. k <= ELECTRONEUM_IO_BUFFER_LENGTH
  BY <1>7 DEF ELECTRONEUM_IO_BUFFER_LENGTH
<1>9. /\ Start(io') /\ io'.offset = 0 /\ io'.length = k /\ io'.error = "none"
      /\ \A i \in 1 .. k : io'.buffer[i] = part[i]
  BY <1>1, <1>5, <1>6, <1>8, ReceivedState DEF k
<1>10. c = manage_seedwords_other => n = 9
  BY <1>1, OtherData DEF n, data
<1>11. ASSUME NEW size \in ExtraSizes, c = tx_prefix_extra(size)
       PROVE  /\ k <= 5 + size
              /\ k = 5 + size => \A i \in 1 .. size : io'.buffer[5 + i] = << "extra", i >>
  <2>1. n = 5 + size /\ \A i \in 1 .. size : data[5 + i] = << "extra", i >>
    BY <1>1, <1>11, ExtraData DEF n, data
  <2>2. size \in Nat
    BY ExtraAssumption
  <2>3. ASSUME k = 5 + size, NEW i \in 1 .. size
        PROVE  io'.buffer[5 + i] = << "extra", i >>
    <3>1. 5 + i \in 1 .. k /\ 5 + i \in 1 .. n /\ k = n
      BY <2>1, <2>2, <2>3
    <3>2. io'.buffer[5 + i] = part[5 + i] /\ part[5 + i] = data[5 + i]
      BY <1>5, <1>9, <3>1
    <3> QED BY <2>1, <3>2
  <2>4. k <= 5 + size
    BY <1>5, <1>7, <2>1
  <2> QED BY <2>3, <2>4
<1>12. Holding(c, io')
  <2>1. c = manage_seedwords_other => k <= 9
    BY <1>5, <1>7, <1>10
  <2>2. c = manage_seedwords_other => io'.length <= 9
    BY <1>9, <2>1
  <2>3. \A size \in ExtraSizes : c = tx_prefix_extra(size) =>
          /\ io'.length <= 5 + size
          /\ io'.length = 5 + size => \A i \in 1 .. size : io'.buffer[5 + i] = << "extra", i >>
    BY <1>9, <1>11
  <2> QED BY <1>9, <2>2, <2>3 DEF Holding
<1>13. Typed(io')
  BY <1>9 DEF Start
<1>14. Typed(io)' /\ (command \in Commands)'
  BY <1>3, <1>13
<1>15. Holding(command, io)'
  BY <1>3, <1>12
<1> QED BY <1>3, <1>14, <1>15 DEF IoInv

LEMMA ReturnsStep ==
  ASSUME IoInv, Returns
  PROVE  IoInv'
<1> DEFINE calls == command.calls
           r == Runs(Allowed(io), calls)
           s == r[Len(calls)]
<1>1. /\ phase = "received" /\ s.error = "none" /\ phase' = s.ends
      /\ io' = IF s.ends = "answering" THEN insert(s, Status) ELSE s
      /\ command' = command /\ answer' = answer
  BY Zenon DEF Returns, Run
<1>2. command \in Commands /\ Holding(command, Allowed(io))
  BY <1>1, AllowedHolds DEF IoInv
<1>3. /\ Len(calls) \in Nat /\ \A n \in 0 .. Len(calls) : Typed(r[n])
      /\ command # manage_seedwords_other => Left(s)
      /\ command = manage_seedwords_other => Start(s) /\ (s.error = "none" => s.length <= 9)
  BY <1>2, HandlerRun
<1>4. Typed(s)
  <2>1. Len(calls) \in 0 .. Len(calls)
    BY <1>3
  <2> QED BY <1>3, <2>1
<1> HIDE DEF s
<1>5. CASE command = manage_seedwords_other
  <2>1. Start(s) /\ s.length <= 9 /\ s.ends = "answering" /\ s.length \in Nat
    BY <1>1, <1>3, <1>5 DEF Start, Typed
  <2>2. io' = insert(s, Status) /\ phase' = "answering"
    BY <1>1, <2>1
  <2>3. Typed(io') /\ io'.length = s.length + Len(Status)
    <3>1. s.length + Len(Status) <= ELECTRONEUM_IO_BUFFER_LENGTH
      BY <2>1, StatusType DEF ELECTRONEUM_IO_BUFFER_LENGTH
    <3>2. Status \in Seq(Bytes)
      BY StatusType
    <3> QED BY <1>4, <2>2, <3>1, <3>2, InsertState
  <2>4. io'.length <= MAX_OUT
    BY <2>1, <2>3, StatusType DEF MAX_OUT
  <2> QED BY <1>1, <1>2, <1>5, <2>2, <2>3, <2>4 DEF IoInv
<1>6. CASE command # manage_seedwords_other /\ s.ends = "answering"
  <2>1. Built(s) /\ Len(s.put) <= MaxPut
    BY <1>1, <1>3, <1>6 DEF Left
  <2>2. io' = insert(s, Status) /\ phase' = "answering"
    BY <1>1, <1>6
  <2>3. Typed(io') /\ Ready(io')
    BY <1>4, <2>1, <2>2, StatusState
  <2>4. io'.length <= MAX_OUT
    BY <2>3 DEF Ready
  <2>5. Typed(io)' /\ Ready(io)'
    BY <2>3
  <2> QED BY <1>1, <1>2, <2>2, <2>4, <2>5 DEF IoInv
<1>7. CASE command # manage_seedwords_other /\ s.ends # "answering"
  <2>1. Built(s) /\ s.put = << >> /\ s.ends \in {"asking", "silent"}
    BY <1>1, <1>3, <1>7 DEF Left, Ends
  <2>2. io' = s /\ phase' \in {"asking", "silent"}
    BY <1>1, <1>7, <2>1
  <2>3. Typed(io)' /\ Built(io)' /\ (io.put = << >>)'
    BY <1>4, <2>1, <2>2
  <2> QED BY <1>1, <1>2, <1>7, <2>2, <2>3 DEF IoInv
<1> QED BY <1>5, <1>6, <1>7

LEMMA ThrowsStep ==
  ASSUME IoInv, Throws
  PROVE  IoInv'
<1> DEFINE r == Runs(Allowed(io), command.calls)
<1>1. /\ phase = "received" /\ phase' = "answering" /\ command' = command /\ answer' = answer
      /\ \E n \in 0 .. Len(command.calls), error \in {"none", "SW_WRONG_DATA", "exception"} :
           io' = Caught(IF r[n].error = "none" THEN Fails(r[n], error) ELSE r[n])
  BY DEF Throws
<1>2. PICK n \in 0 .. Len(command.calls), error \in {"none", "SW_WRONG_DATA", "exception"} :
        io' = Caught(IF r[n].error = "none" THEN Fails(r[n], error) ELSE r[n])
  BY <1>1
<1>3. command \in Commands /\ Holding(command, Allowed(io))
  BY <1>1, AllowedHolds DEF IoInv
<1>4. Typed(r[n])
  BY <1>3, HandlerRun
<1> DEFINE s == r[n]
           t == IF s.error = "none" THEN Fails(s, error) ELSE s
<1>5. Typed(s) /\ io' = Caught(t)
  BY <1>2, <1>4
<1> HIDE DEF s
<1>6. error \in Errors
  BY DEF Errors
<1>7. Typed(t)
  BY <1>5, <1>6, FailsState
<1> HIDE DEF t
<1>8. Typed(io') /\ Ready(io')
  BY <1>5, <1>7, CaughtState
<1>9. io'.length <= MAX_OUT
  BY <1>8 DEF Ready
<1>10. Typed(io)' /\ Ready(io)'
  BY <1>8
<1> QED BY <1>1, <1>3, <1>9, <1>10 DEF IoInv

LEMMA SendStep ==
  ASSUME IoInv, Send
  PROVE  IoInv'
<1>1. /\ phase = "answering" /\ SendNow(io) /\ command' = command
      /\ Typed(io) /\ io.length <= MAX_OUT /\ (command # manage_seedwords_other => Ready(io))
      /\ command \in Commands
  BY DEF Send, IoInv
<1>2. Typed(io') /\ phase' = "waiting" /\ (Ready(io) => answer' = io'.put \o Status)
  BY <1>1, SendNowState
<1>3. Typed(io)'
  BY <1>2
<1> QED BY <1>1, <1>2, <1>3 DEF IoInv

\* What a callback answers is sent at once.
LEMMA CallbackSends ==
  ASSUME IoInv, phase = "asking", NEW s, Typed(s), Built(s), Len(s.put) <= MaxPut,
         SendNow(insert(s, Status)), command' = command
  PROVE  IoInv'
<1> DEFINE t == insert(s, Status)
<1>1. Typed(t) /\ Ready(t)
  BY StatusState
<1>2. SendNow(t) /\ t.length <= MAX_OUT
  BY <1>1 DEF Ready
<1> HIDE DEF t
<1>3. Typed(io') /\ phase' = "waiting" /\ answer' = io'.put \o Status
  BY <1>1, <1>2, SendNowState
<1>4. Typed(io)' /\ command \in Commands
  BY <1>3 DEF IoInv
<1> QED BY <1>3, <1>4 DEF IoInv

LEMMA ExportStep ==
  ASSUME IoInv, NEW accept \in BOOLEAN, export_viewkey_action(accept)
  PROVE  IoInv'
<1> DEFINE d == discard(io, FALSE)
           what == IF accept THEN "a" ELSE "zeros"
           field == Field(what, 32)
           s == Put(d, field)
<1>1. /\ phase = "asking" /\ SendNow(insert(s, Status)) /\ command' = command
      /\ Typed(io) /\ io.put = << >>
  BY DEF export_viewkey_action, IoInv
<1>2. Typed(d) /\ Changes(io, d, {"buffer", "offset", "length"}) /\ d.offset = 0 /\ d.length = 0
  BY <1>1, DiscardState
<1> HIDE DEF d
<1>3. d.put = << >>
  BY <1>1, <1>2, SMT DEF Changes, Fields
<1>4. Len(d.put) = 0
  BY <1>3
<1>5. Built(d)
  BY <1>2, <1>4 DEF Built
<1>6. what \in Names /\ 32 \in Octets
  BY DEF Names, Octets
<1> HIDE DEF what
<1>7. field \in Seq(Bytes) /\ Len(field) = 32
  BY <1>6, FieldType
<1> HIDE DEF field
<1>8. Len(d.put) + Len(field) <= ELECTRONEUM_IO_BUFFER_LENGTH
  BY <1>4, <1>7 DEF ELECTRONEUM_IO_BUFFER_LENGTH
<1>9. Typed(s) /\ Built(s) /\ Len(s.put) = Len(d.put) + Len(field)
  BY <1>2, <1>5, <1>7, <1>8, PutStateOf
<1> HIDE DEF s
<1>10. Len(s.put) <= MaxPut
  BY <1>4, <1>7, <1>9 DEF MaxPut
<1> QED BY <1>1, <1>9, <1>10, CallbackSends

LEMMA ValidationStep ==
  ASSUME IoInv, NEW accept \in BOOLEAN, validation_action(accept)
  PROVE  IoInv'
<1> DEFINE tx == io.tx /\ (accept \/ command = display_address)
           s == [io EXCEPT !.tx = tx]
<1>1. /\ phase = "asking" /\ SendNow(insert(s, Status)) /\ command' = command
      /\ Typed(io) /\ Built(io) /\ io.put = << >>
  BY Zenon DEF validation_action, IoInv
<1>2. tx \in BOOLEAN
  BY <1>1 DEF Typed
<1> HIDE DEF tx
<1>3. /\ DOMAIN s = Fields /\ s.tx = tx /\ s.buffer = io.buffer /\ s.offset = io.offset
      /\ s.length = io.length /\ s.put = io.put /\ s.error = io.error
  BY <1>1, SMT DEF Typed, Fields
<1> HIDE DEF s
<1>4. Typed(s)
  BY <1>1, <1>2, <1>3 DEF Typed
<1>5. Built(s)
  BY <1>1, <1>3 DEF Built
<1>6. Len(s.put) <= MaxPut
  BY <1>1, <1>3 DEF MaxPut
<1> QED BY <1>1, <1>4, <1>5, <1>6, CallbackSends

LEMMA IoResetStep ==
  ASSUME IoInv, IoReset
  PROVE  IoInv'
<1>1. Typed(io')
  BY IdleState DEF IoReset
<1>2. Typed(io)' /\ phase' = "waiting" /\ answer' = << >> /\ command' = command
  BY <1>1 DEF IoReset
<1> QED BY <1>2 DEF IoInv

LEMMA IoStep == IoInv /\ [Next]_ioVars => IoInv'
<1> SUFFICES ASSUME IoInv, [Next]_ioVars PROVE IoInv'
  OBVIOUS
<1>1. CASE \E c \in Commands : \E keys \in KeysOf(c) : Receive(c, keys)
  BY <1>1, ReceiveStep
<1>2. CASE Dispatch
  BY <1>2, ReturnsStep, ThrowsStep DEF Dispatch
<1>3. CASE Send
  BY <1>3, SendStep
<1>4. CASE \E accept \in BOOLEAN : export_viewkey_action(accept) \/ validation_action(accept)
  BY <1>4, ExportStep, ValidationStep
<1>5. CASE IoReset
  BY <1>5, IoResetStep
<1>6. CASE UNCHANGED ioVars
  <2>1. io' = io /\ phase' = phase /\ command' = command /\ answer' = answer
    BY <1>6 DEF ioVars
  <2>2. Typed(io)' = Typed(io) /\ Built(io)' = Built(io) /\ Ready(io)' = Ready(io)
        /\ Holding(command, io)' = Holding(command, io)
    BY <2>1
  <2> QED BY <2>1, <2>2 DEF IoInv
<1> QED BY <1>1, <1>2, <1>3, <1>4, <1>5, <1>6 DEF Next

\* Every reachable state of the buffer is as the invariant says.
THEOREM IoInvariant == Spec => []IoInv
<1>1. Init => IoInv
  BY IoInit
<1>2. IoInv /\ [Next]_ioVars => IoInv'
  BY IoStep
<1> QED BY <1>1, <1>2, PTL DEF Spec

\* No handler leaves the offset behind the end of what it has received or built, whatever the
\* lengths of the commands, the numbers and the extra fields (electroneum_io.c:64-80, 86-101).
THEOREM TypeCorrect == Spec => []TypeOK
<1>1. IoInv => TypeOK
  <2> SUFFICES ASSUME IoInv PROVE TypeOK
    OBVIOUS
  <2>1. /\ io.buffer \in Seq(Bytes) /\ Len(io.buffer) = ELECTRONEUM_IO_BUFFER_LENGTH
        /\ io.offset \in Nat /\ io.length \in Nat /\ io.offset <= io.length
        /\ io.length <= ELECTRONEUM_IO_BUFFER_LENGTH /\ io.tx \in BOOLEAN /\ io.error \in Errors
    BY DEF IoInv, Typed, Buffers
  <2>2. DOMAIN io.buffer = 1 .. ELECTRONEUM_IO_BUFFER_LENGTH /\ 0 <= io.offset
    BY <2>1, BufferLength
  <2>3. phase \in {"waiting", "received", "answering", "asking", "silent"} /\ command \in Commands
    BY DEF IoInv
  <2> QED BY <2>1, <2>2, <2>3 DEF TypeOK, Errors
<1> QED
  BY <1>1, IoInvariant, PTL

\* Every answer fits: neither the buffer nor what is sent of it is ever too short for one
\* (electroneum_io.c:87, 397).
THEOREM AnswersFit == Spec => []AnswerFits
<1>1. IoInv => AnswerFits
  BY DEF IoInv, Typed, Errors, AnswerFits
<1> QED
  BY <1>1, IoInvariant, PTL

\* An answer is what its handler has put there and the status, and no byte of a command
\* (electroneum_io.c:86-134).
THEOREM AnswersAreInserted == Spec => []AnswerIsInserted
<1>1. IoInv => AnswerIsInserted
  BY DEF IoInv, AnswerIsInserted
<1> QED
  BY <1>1, IoInvariant, PTL

-----------------------------------------------------------------------------
(***************************************************************************)
(* The numbers of an answer                                                *)
(***************************************************************************)
\* The number of a command that did not fail stands at the beginning of what is answered.
EchoInv ==
  phase # "received" /\ io.error = "none" /\ (phase = "waiting" => answer # << >>)
    => Echoes(command.calls, io.put)

LEMMA EchoReturns ==
  ASSUME IoInv, Returns
  PROVE  EchoInv'
<1> DEFINE calls == command.calls
           r == Runs(Allowed(io), calls)
           s == r[Len(calls)]
<1>1. /\ phase = "received" /\ s.error = "none"
      /\ io' = IF s.ends = "answering" THEN insert(s, Status) ELSE s
      /\ command' = command
  BY Zenon DEF Returns, Run
<1>2. command \in Commands /\ Holding(command, Allowed(io))
  BY <1>1, AllowedHolds DEF IoInv
<1>3. /\ Len(calls) \in Nat /\ \A n \in 0 .. Len(calls) : Typed(r[n])
      /\ command # manage_seedwords_other => Left(s)
      /\ s.error = "none" => Echoes(calls, s.put)
  BY <1>2, HandlerRun
<1>4. Typed(s)
  <2>1. Len(calls) \in 0 .. Len(calls)
    BY <1>3
  <2> QED BY <1>3, <2>1
<1> HIDE DEF s
<1>5. Echoes(calls, io'.put)
  <2>1. CASE command = manage_seedwords_other
    BY <2>1, OtherEchoes
  <2>2. CASE command # manage_seedwords_other
    <3>1. Built(s) /\ Len(s.put) <= MaxPut
      BY <1>1, <1>3, <2>2 DEF Left
    <3>2. insert(s, Status).put = s.put
      BY <1>4, <3>1, StatusState
    <3>3. io'.put = s.put
      BY <1>1, <3>2
    <3> QED BY <1>1, <1>3, <3>3
  <2> QED BY <2>1, <2>2
<1>6. Echoes(command.calls, io.put)'
  BY <1>1, <1>5
<1> QED BY <1>6 DEF EchoInv

LEMMA EchoThrows ==
  ASSUME IoInv, Throws
  PROVE  EchoInv'
<1> DEFINE r == Runs(Allowed(io), command.calls)
           Failed(n, error) == IF r[n].error = "none" THEN Fails(r[n], error) ELSE r[n]
<1>1. /\ phase = "received"
      /\ \E n \in 0 .. Len(command.calls), error \in {"none", "SW_WRONG_DATA", "exception"} :
           Failed(n, error).error # "none" /\ io' = Caught(Failed(n, error))
  BY Zenon DEF Throws
<1>2. PICK n \in 0 .. Len(command.calls), error \in {"none", "SW_WRONG_DATA", "exception"} :
        Failed(n, error).error # "none" /\ io' = Caught(Failed(n, error))
  BY <1>1, Zenon
<1>3. command \in Commands /\ Holding(command, Allowed(io))
  BY <1>1, AllowedHolds DEF IoInv
<1>4. Typed(r[n])
  BY <1>3, HandlerRun
<1> DEFINE s == r[n]
           t == IF s.error = "none" THEN Fails(s, error) ELSE s
<1>5. Typed(s) /\ io' = Caught(t) /\ t.error # "none"
  BY <1>2, <1>4, Zenon
<1> HIDE DEF s
<1>6. error \in Errors
  BY DEF Errors
<1>7. Typed(t)
  BY <1>5, <1>6, FailsState
<1> HIDE DEF t
<1>8. io'.error # "none"
  BY <1>5, <1>7, CaughtState
<1>9. (io.error # "none")'
  BY <1>8
<1> QED BY <1>9 DEF EchoInv

LEMMA EchoSend ==
  ASSUME IoInv, EchoInv, Send
  PROVE  EchoInv'
<1>1. /\ phase = "answering" /\ SendNow(io) /\ command' = command
      /\ Typed(io) /\ io.length <= MAX_OUT
  BY DEF Send, IoInv
<1>2. io'.put = io.put /\ io'.error = io.error
  BY <1>1, SendNowState
<1>3. io.error = "none" => Echoes(command.calls, io.put)
  BY <1>1 DEF EchoInv
<1>4. (io.error = "none" => Echoes(command.calls, io.put))'
  BY <1>1, <1>2, <1>3
<1> QED BY <1>4 DEF EchoInv

LEMMA EchoExport ==
  ASSUME NEW accept \in BOOLEAN, export_viewkey_action(accept)
  PROVE  EchoInv'
<1>1. command = get_view_key /\ command' = command
  BY DEF export_viewkey_action
<1>2. OnlyAsks(get_view_key.calls)
  BY AskingHandlers
<1>3. \A put : Echoes(get_view_key.calls, put)
  BY <1>2, AsksEchoes DEF OnlyAsks
<1>4. Echoes(command.calls, io.put)'
  BY <1>1, <1>3
<1> QED BY <1>4 DEF EchoInv

LEMMA EchoValidation ==
  ASSUME IoInv, EchoInv, NEW accept \in BOOLEAN, validation_action(accept)
  PROVE  EchoInv'
<1> DEFINE tx == io.tx /\ (accept \/ command = display_address)
           s == [io EXCEPT !.tx = tx]
           t == insert(s, Status)
<1>1. /\ phase = "asking" /\ SendNow(t) /\ command' = command
      /\ Typed(io) /\ Built(io) /\ io.put = << >>
  BY Zenon DEF validation_action, IoInv
<1>2. tx \in BOOLEAN
  BY <1>1 DEF Typed
<1> HIDE DEF tx
<1>3. /\ DOMAIN s = Fields /\ s.tx = tx /\ s.buffer = io.buffer /\ s.offset = io.offset
      /\ s.length = io.length /\ s.put = io.put /\ s.error = io.error
  BY <1>1, SMT DEF Typed, Fields
<1> HIDE DEF s
<1>4. Typed(s) /\ Built(s)
  BY <1>1, <1>2, <1>3 DEF Typed, Built
<1>5. Len(s.put) <= MaxPut
  BY <1>1, <1>3 DEF MaxPut
<1>6. Typed(t) /\ t.length <= MAX_OUT /\ t.put = s.put /\ t.error = s.error
  BY <1>4, <1>5, StatusState DEF Ready
<1> HIDE DEF t
<1>7. io'.put = io.put /\ io'.error = io.error
  BY <1>1, <1>3, <1>6, SendNowState
<1>8. io.error = "none" => Echoes(command.calls, io.put)
  BY <1>1 DEF EchoInv
<1>9. (io.error = "none" => Echoes(command.calls, io.put))'
  BY <1>1, <1>7, <1>8
<1> QED BY <1>9 DEF EchoInv

LEMMA EchoStep == IoInv /\ EchoInv /\ [Next]_ioVars => EchoInv'
<1> SUFFICES ASSUME IoInv, EchoInv, [Next]_ioVars PROVE EchoInv'
  OBVIOUS
<1>1. CASE \E c \in Commands : \E keys \in KeysOf(c) : Receive(c, keys)
  <2>1. phase' = "received"
    BY <1>1 DEF Receive
  <2> QED BY <2>1 DEF EchoInv
<1>2. CASE Dispatch
  BY <1>2, EchoReturns, EchoThrows DEF Dispatch
<1>3. CASE Send
  BY <1>3, EchoSend
<1>4. CASE \E accept \in BOOLEAN : export_viewkey_action(accept) \/ validation_action(accept)
  BY <1>4, EchoExport, EchoValidation
<1>5. CASE IoReset
  <2>1. phase' = "waiting" /\ answer' = << >>
    BY <1>5 DEF IoReset
  <2> QED BY <2>1 DEF EchoInv
<1>6. CASE UNCHANGED ioVars
  <2>1. io' = io /\ phase' = phase /\ command' = command /\ answer' = answer
    BY <1>6 DEF ioVars
  <2> QED BY <2>1 DEF EchoInv
<1> QED BY <1>1, <1>2, <1>3, <1>4, <1>5, <1>6 DEF Next

LEMMA JoinParts ==
  ASSUME NEW S, NEW a \in Seq(S), NEW b \in Seq(S)
  PROVE  /\ Len(a) \in Nat /\ Len(b) \in Nat
         /\ DOMAIN (a \o b) = 1 .. Len(a) + Len(b) /\ a \o b \in Seq(S)
         /\ a \o b = [k \in 1 .. Len(a) + Len(b) |-> (a \o b)[k]]
         /\ \A k \in 1 .. Len(a) : (a \o b)[k] = a[k]
         /\ \A k \in 1 .. Len(b) : (a \o b)[Len(a) + k] = b[k]
<1> DEFINE c == a \o b
<1>1. Len(a) \in Nat /\ Len(b) \in Nat
  OBVIOUS
<1>2. DOMAIN c = 1 .. Len(a) + Len(b) /\ c \in Seq(S)
  OBVIOUS
<1>3. \A k \in 1 .. Len(a) : c[k] = a[k]
  OBVIOUS
<1>4. \A k \in 1 .. Len(b) : c[Len(a) + k] = b[k]
  OBVIOUS
<1> HIDE DEF c
<1>5. c = [k \in DOMAIN c |-> c[k]]
  <2>1. ASSUME NEW d \in Seq(S) PROVE d = [k \in DOMAIN d |-> d[k]]
    OBVIOUS
  <2> QED BY <1>2, <2>1, Zenon
<1>6. c = [k \in 1 .. Len(a) + Len(b) |-> c[k]]
  BY <1>2, <1>5, Zenon
<1> QED BY <1>1, <1>2, <1>3, <1>4, <1>6, Zenon DEF c

\* What the host reads at the beginning of the bytes of an answer.
NumberOf(bytes) == vamount2uint64[[k \in DOMAIN bytes |-> bytes[k][2]]]

LEMMA NumberRead ==
  ASSUME NEW n \in Nat, NEW b \in Seq(Bytes), NEW bytes, bytes = Varint(n) \o b
  PROVE  NumberOf(bytes) = n
<1> DEFINE v == encode_varint(n)
           rest == [k \in 1 .. Len(b) |-> b[k][2]]
           w == Varint(n)
           m == Len(v)
           seconds == [k \in DOMAIN bytes |-> bytes[k][2]]
           whole == v \o rest
<1>1. v \in Seq(Octets) /\ w \in Seq(Bytes) /\ Len(w) = m
  BY VarintType, VarintBytes
<1>2. \A k \in 1 .. m : w[k][2] = v[k]
  <2>1. \A k \in DOMAIN v : w[k] = << "varint", v[k] >>
    BY Zenon DEF Varint
  <2>2. \A k \in DOMAIN v : w[k][2] = v[k]
    <3> SUFFICES ASSUME NEW k \in DOMAIN v PROVE w[k][2] = v[k]
      OBVIOUS
    <3> DEFINE x == v[k]
    <3>1. w[k] = << "varint", x >>
      BY <2>1
    <3> HIDE DEF x, v, w
    <3>2. w[k][2] = x
      BY <3>1
    <3> QED BY <3>2 DEF x
  <2> HIDE DEF v
  <2>3. DOMAIN v = 1 .. m
    BY <1>1
  <2> QED BY <2>2, <2>3
<1>3. rest \in Seq(Octets) /\ Len(rest) = Len(b) /\ \A k \in 1 .. Len(b) : rest[k] = b[k][2]
  <2>1. \A k \in 1 .. Len(b) : b[k][2] \in Octets
    <3> SUFFICES ASSUME NEW k \in 1 .. Len(b) PROVE b[k][2] \in Octets
      OBVIOUS
    <3> DEFINE x == b[k]
    <3>1. x \in Names \X Octets
      BY DEF Bytes
    <3> HIDE DEF x
    <3>2. x[2] \in Octets
      BY <3>1
    <3> QED BY <3>2 DEF x
  <2>2. Len(b) \in Nat
    OBVIOUS
  <2> DEFINE l == Len(b)
             second(k) == b[k][2]
  <2> HIDE DEF l, second
  <2>3. l \in Nat /\ \A k \in 1 .. l : second(k) \in Octets
    BY <2>1, <2>2 DEF l, second
  <2>4. [k \in 1 .. l |-> second(k)] \in Seq(Octets) /\ Len([k \in 1 .. l |-> second(k)]) = l
        /\ \A k \in 1 .. l : [i \in 1 .. l |-> second(i)][k] = second(k)
    BY <2>3
  <2> QED BY <2>4, Zenon DEF l, second
<1> HIDE DEF v, w, rest
<1>4. bytes = w \o b
  BY DEF w
<1>5. /\ DOMAIN bytes = 1 .. m + Len(b) /\ m \in Nat /\ Len(b) \in Nat
      /\ \A k \in 1 .. m : bytes[k] = w[k]
      /\ \A k \in 1 .. Len(b) : bytes[m + k] = b[k]
  <2>1. /\ Len(w) \in Nat /\ Len(b) \in Nat /\ DOMAIN bytes = 1 .. Len(w) + Len(b)
        /\ \A k \in 1 .. Len(w) : bytes[k] = w[k]
        /\ \A k \in 1 .. Len(b) : bytes[Len(w) + k] = b[k]
    <3>1. w \in Seq(Bytes) /\ b \in Seq(Bytes)
      BY <1>1
    <3>2. /\ Len(w) \in Nat /\ Len(b) \in Nat /\ DOMAIN (w \o b) = 1 .. Len(w) + Len(b)
          /\ \A k \in 1 .. Len(w) : (w \o b)[k] = w[k]
          /\ \A k \in 1 .. Len(b) : (w \o b)[Len(w) + k] = b[k]
      BY <3>1, JoinParts
    <3> QED BY <1>4, <3>2, Zenon
  <2> HIDE DEF m
  <2> QED BY <1>1, <2>1, Zenon
<1>6. /\ whole \in Seq(Octets) /\ whole = [k \in 1 .. m + Len(b) |-> whole[k]]
      /\ \A k \in 1 .. m : whole[k] = v[k]
      /\ \A k \in 1 .. Len(b) : whole[m + k] = rest[k]
  <2>1. /\ whole \in Seq(Octets) /\ whole = [k \in 1 .. Len(v) + Len(rest) |-> whole[k]]
        /\ \A k \in 1 .. Len(v) : whole[k] = v[k]
        /\ \A k \in 1 .. Len(rest) : whole[Len(v) + k] = rest[k]
    <3>1. v \in Seq(Octets) /\ rest \in Seq(Octets)
      BY <1>1, <1>3
    <3> QED BY <3>1, JoinParts
  <2> HIDE DEF whole
  <2>2. Len(rest) = Len(b) /\ Len(v) = m
    BY <1>3
  <2> HIDE DEF m
  <2> QED BY <2>1, <2>2, Zenon
<1> HIDE DEF m
<1>7. ASSUME NEW k \in 1 .. m + Len(b) PROVE bytes[k][2] = whole[k]
  <2>1. CASE k <= m
    <3>1. k \in 1 .. m
      BY <1>5, <2>1
    <3> QED BY <1>2, <1>5, <1>6, <3>1
  <2>2. CASE ~(k <= m)
    <3>1. k - m \in 1 .. Len(b) /\ m + (k - m) = k
      BY <1>5, <2>2
    <3>2. bytes[m + (k - m)] = b[k - m] /\ whole[m + (k - m)] = rest[k - m]
          /\ rest[k - m] = b[k - m][2]
      BY <1>3, <1>5, <1>6, <3>1
    <3> QED BY <3>1, <3>2
  <2> QED BY <2>1, <2>2
<1>8. seconds = whole
  <2>1. seconds = [k \in 1 .. m + Len(b) |-> bytes[k][2]]
    BY <1>5, Zenon
  <2> HIDE DEF seconds, whole
  <2> QED BY <1>6, <1>7, <2>1
<1>9. vamount2uint64[v \o rest] = n
  BY <1>3, VarintDecoded DEF v
<1> QED BY <1>8, <1>9, Zenon DEF NumberOf

\* Whatever numbers a prefix has, what the host reads at the beginning of an answer is the number
\* it has sent, or the size of its extra field (electroneum_prehash.c:249-255,
\* electroneum_crypto.c:82-98, 915-932).
THEOREM NumbersEchoed == Spec => []NumbersAreEchoed
<1>1. Init => EchoInv
  BY DEF Init, EchoInv
<1>2. IoInv /\ EchoInv /\ [Next]_ioVars => EchoInv'
  BY EchoStep
<1>3. IoInv /\ EchoInv => NumbersAreEchoed
  <2> SUFFICES ASSUME IoInv, EchoInv, phase = "waiting", answer # << >>, io.error = "none",
                      NEW i \in DOMAIN command.calls,
                      command.calls[i].op = "add_to_tx_prefix",
                      \A j \in 1 .. i - 1 : command.calls[j].op # "add_to_tx_prefix"
               PROVE  vamount2uint64[[k \in DOMAIN answer |-> answer[k][2]]] = command.calls[i].size
    BY Zenon DEF NumbersAreEchoed
  <2> DEFINE n == command.calls[i].size
  <2>1. Echoes(command.calls, io.put)
    BY DEF EchoInv
  <2>2. DOMAIN command.calls = 1 .. Len(command.calls)
    <3>1. command \in Commands
      BY DEF IoInv
    <3> QED BY <3>1, CallsDomain
  <2>3. Begins(io.put, n)
    BY <2>1, <2>2, Zenon DEF Echoes, IsNumber
  <2> HIDE DEF n
  <2>4. PICK b \in Seq(Bytes) : io.put = Varint(n) \o b
    BY <2>3 DEF Begins
  <2>5. command # manage_seedwords_other
    <3> SUFFICES ASSUME command = manage_seedwords_other PROVE FALSE
      OBVIOUS
    <3> DEFINE calls == manage_seedwords_other.calls
    <3>1. i \in 1 .. 2 /\ calls[1].op = "fetch" /\ calls[2].op = "rest" /\ calls[i].op = "add_to_tx_prefix"
      BY OtherCalls DEF Fetch, Rest, Call
    <3> HIDE DEF calls
    <3>2. i = 1 \/ i = 2
      BY <3>1
    <3> QED BY <3>1, <3>2
  <2>6. answer = io.put \o Status
    BY <2>5 DEF IoInv
  <2>7. n \in Nat /\ Varint(n) \in Seq(Bytes) /\ Status \in Seq(Bytes)
    BY <2>3, VarintBytes, StatusType DEF Begins
  <2>8. answer = Varint(n) \o (b \o Status) /\ b \o Status \in Seq(Bytes)
    <3> DEFINE v == Varint(n)
               e == Status
    <3>1. v \in Seq(Bytes) /\ e \in Seq(Bytes) /\ answer = (v \o b) \o e
      BY <2>4, <2>6, <2>7
    <3> HIDE DEF v, e
    <3>2. (v \o b) \o e = v \o (b \o e) /\ b \o e \in Seq(Bytes)
      BY <3>1
    <3> QED BY <3>1, <3>2 DEF v, e
  <2>9. NumberOf(answer) = n
    <3> DEFINE rest == b \o Status
    <3>1. n \in Nat /\ rest \in Seq(Bytes) /\ answer = Varint(n) \o rest
      BY <2>7, <2>8
    <3> HIDE DEF rest
    <3> QED BY <3>1, NumberRead
  <2> QED BY <2>9, Zenon DEF n, NumberOf
<1> QED
  BY <1>1, <1>2, <1>3, IoInvariant, PTL DEF Spec
=============================================================================
