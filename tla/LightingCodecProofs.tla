------------------------ MODULE LightingCodecProofs ------------------------
(***************************************************************************)
(* Theorems about LightingCodec: what parse_cni_line makes of any line a   *)
(* unit, a network or send_level can put on the bus.                       *)
(*                                                                         *)
(* Sums, events and byte strings are recursive functions of a position, so *)
(* the lemmas need induction: it is that of module Induction.              *)
(***************************************************************************)
EXTENDS LightingCodec, Induction, SequenceTheorems, TLAPS

-----------------------------------------------------------------------------
(* Sums.                                                                   *)

\* The sums of the first i bytes.
Sums(data) ==
  CHOOSE sum : sum = [i \in 0 .. Len(data) |-> IF i = 0 THEN 0 ELSE sum[i - 1] + data[i]]

LEMMA SumsExist ==
  ASSUME NEW data
  PROVE  \A n \in Nat : \E sum : sum = [i \in 0 .. n |-> IF i = 0 THEN 0 ELSE sum[i - 1] + data[i]]
<1> DEFINE P(n) == \E sum : sum = [i \in 0 .. n |-> IF i = 0 THEN 0 ELSE sum[i - 1] + data[i]]
           S == {n \in Nat : P(n)}
<1>1. P(0)
  <2> DEFINE f == [i \in 0 .. 0 |-> 0]
  <2>1. f = [i \in 0 .. 0 |-> IF i = 0 THEN 0 ELSE f[i - 1] + data[i]]
    OBVIOUS
  <2> QED  BY <2>1
<1>2. ASSUME NEW n \in Nat, P(n) PROVE P(n + 1)
  <2>1. PICK f : f = [i \in 0 .. n |-> IF i = 0 THEN 0 ELSE f[i - 1] + data[i]]
    BY <1>2
  <2> DEFINE g == [i \in 0 .. n + 1 |-> IF i = n + 1 THEN f[n] + data[n + 1] ELSE f[i]]
  <2>2. \A i \in 0 .. n : f[i] = IF i = 0 THEN 0 ELSE f[i - 1] + data[i]
    BY <2>1
  <2>3. \A i \in 0 .. n + 1 : g[i] = IF i = 0 THEN 0 ELSE g[i - 1] + data[i]
    BY <2>2
  <2>4. g = [i \in 0 .. n + 1 |-> IF i = 0 THEN 0 ELSE g[i - 1] + data[i]]
    <3>1. g = [i \in 0 .. n + 1 |-> g[i]]
      OBVIOUS
    <3> HIDE DEF g
    <3> QED  BY <2>3, <3>1
  <2> QED  BY <2>4
<1> HIDE DEF P
<1>3. 0 \in S /\ \A n \in Nat : n \in S => n + 1 \in S
  BY <1>1, <1>2
<1> HIDE DEF S
<1>4. Nat \subseteq S
  BY <1>3, NaturalInduction
<1> QED  BY <1>4 DEF P, S

\* The recursion of Total, step by step.
LEMMA SumSteps ==
  ASSUME NEW data \in Seq(Int)
  PROVE  /\ Total(data) = Sums(data)[Len(data)]
         /\ Sums(data)[0] = 0
         /\ \A i \in 1 .. Len(data) : Sums(data)[i] = Sums(data)[i - 1] + data[i]
<1>1. Total(data) = Sums(data)[Len(data)]
  BY DEF Total, Sums
<1>2. Len(data) \in Nat
  OBVIOUS
<1> DEFINE f == Sums(data)
<1>3. f = [i \in 0 .. Len(data) |-> IF i = 0 THEN 0 ELSE f[i - 1] + data[i]]
  BY <1>2, SumsExist, Zenon DEF Sums
<1> HIDE DEF f
<1>4. \A i \in 0 .. Len(data) : f[i] = IF i = 0 THEN 0 ELSE f[i - 1] + data[i]
  BY <1>3
<1>5. f[0] = 0 /\ \A i \in 1 .. Len(data) : f[i] = f[i - 1] + data[i]
  BY <1>2, <1>4
<1> QED  BY <1>1, <1>5 DEF f

LEMMA SumTypes ==
  ASSUME NEW data \in Seq(Int)
  PROVE  \A i \in 0 .. Len(data) : Sums(data)[i] \in Int
<1> DEFINE S == {i \in Nat : i <= Len(data) => Sums(data)[i] \in Int}
<1>1. 0 \in S
  BY SumSteps
<1>2. ASSUME NEW i \in Nat, i \in S PROVE i + 1 \in S
  <2> SUFFICES ASSUME i + 1 <= Len(data) PROVE Sums(data)[i + 1] \in Int
    OBVIOUS
  <2>1. i + 1 \in 1 .. Len(data) /\ data[i + 1] \in Int /\ Sums(data)[i] \in Int
    BY <1>2
  <2> QED  BY <2>1, SumSteps
<1> HIDE DEF S
<1>3. Nat \subseteq S
  BY <1>1, <1>2, NaturalInduction
<1> QED  BY <1>3 DEF S

\* Lines that are the same in their first n bytes have the same sums there.
LEMMA SumsAgree ==
  ASSUME NEW s \in Seq(Int), NEW t \in Seq(Int), NEW n \in Nat,
         n <= Len(s), n <= Len(t), \A i \in 1 .. n : s[i] = t[i]
  PROVE  Sums(s)[n] = Sums(t)[n]
<1> DEFINE S == {i \in Nat : i <= n => Sums(s)[i] = Sums(t)[i]}
<1>1. 0 \in S
  BY SumSteps
<1>2. ASSUME NEW i \in Nat, i \in S PROVE i + 1 \in S
  <2> SUFFICES ASSUME i + 1 <= n PROVE Sums(s)[i + 1] = Sums(t)[i + 1]
    OBVIOUS
  <2>1. i + 1 \in 1 .. Len(s) /\ i + 1 \in 1 .. Len(t) /\ i + 1 \in 1 .. n
    OBVIOUS
  <2> QED  BY <1>2, <2>1, SumSteps
<1> HIDE DEF S
<1>3. Nat \subseteq S
  BY <1>1, <1>2, NaturalInduction
<1> QED  BY <1>3 DEF S

LEMMA TotalType == ASSUME NEW data \in Seq(Int) PROVE Total(data) \in Int
<1>1. Len(data) \in 0 .. Len(data)
  OBVIOUS
<1> QED  BY <1>1, SumSteps, SumTypes

LEMMA TotalAppend ==
  ASSUME NEW s \in Seq(Int), NEW x \in Int
  PROVE  Total(Append(s, x)) = Total(s) + x
<1> DEFINE t == Append(s, x)
<1>1. t \in Seq(Int) /\ Len(t) = Len(s) + 1 /\ t[Len(t)] = x
      /\ \A i \in 1 .. Len(s) : s[i] = t[i]
  OBVIOUS
<1>2. Len(s) \in Nat /\ Len(s) <= Len(t) /\ Len(t) \in 1 .. Len(t)
  BY <1>1
<1> HIDE DEF t
<1>3. Sums(s)[Len(s)] = Sums(t)[Len(s)]
  <2>1. Len(s) \in Nat /\ Len(s) <= Len(s) /\ Len(s) <= Len(t)
    BY <1>2
  <2> QED  BY <1>1, <2>1, SumsAgree
<1>4. Sums(t)[Len(t)] = Sums(t)[Len(t) - 1] + t[Len(t)]
  BY <1>1, <1>2, SumSteps
<1>5. Len(t) - 1 = Len(s)
  BY <1>1, <1>2
<1>6. Total(s) = Sums(s)[Len(s)] /\ Total(t) = Sums(t)[Len(t)]
  BY <1>1, SumSteps
<1> QED  BY <1>1, <1>3, <1>4, <1>5, <1>6 DEF t

\* A byte that changes, changes the sum by as much.
LEMMA TotalExcept ==
  ASSUME NEW s \in Seq(Int), NEW k \in 1 .. Len(s), NEW x \in Int
  PROVE  Total([s EXCEPT ![k] = x]) = Total(s) - s[k] + x
<1> DEFINE t == [s EXCEPT ![k] = x]
           S == {i \in Nat : i <= Len(s) =>
                   Sums(t)[i] = Sums(s)[i] + IF i < k THEN 0 ELSE x - s[k]}
<1>1. t \in Seq(Int) /\ Len(t) = Len(s)
      /\ \A i \in 1 .. Len(s) : t[i] = IF i = k THEN x ELSE s[i]
  OBVIOUS
<1>2. Len(s) \in Nat /\ \A i \in 1 .. Len(s) : s[i] \in Int
  OBVIOUS
<1> HIDE DEF t
<1>3. 0 \in S
  BY <1>1, SumSteps
<1>4. ASSUME NEW i \in Nat, i \in S PROVE i + 1 \in S
  <2> SUFFICES ASSUME i + 1 <= Len(s)
               PROVE  Sums(t)[i + 1] = Sums(s)[i + 1] + IF i + 1 < k THEN 0 ELSE x - s[k]
    OBVIOUS
  <2>1. i + 1 \in 1 .. Len(s) /\ i + 1 \in 1 .. Len(t) /\ i \in 0 .. Len(s)
    BY <1>1, <1>2
  <2>2. Sums(t)[i + 1] = Sums(t)[i] + t[i + 1] /\ Sums(s)[i + 1] = Sums(s)[i] + s[i + 1]
    <3>1. (i + 1) - 1 = i
      OBVIOUS
    <3> QED  BY <1>1, <2>1, <3>1, SumSteps
  <2>3. Sums(s)[i] \in Int /\ s[k] \in Int /\ s[i + 1] \in Int /\ k \in Int
    BY <1>2, <2>1, SumTypes
  <2>4. Sums(t)[i] = Sums(s)[i] + IF i < k THEN 0 ELSE x - s[k]
    BY <1>4, <1>2
  <2>5. t[i + 1] = IF i + 1 = k THEN x ELSE s[i + 1]
    BY <1>1, <2>1
  <2> DEFINE sum == Sums(s)[i]
             old == s[k]
  <2> HIDE DEF sum, old
  <2>6. CASE i + 1 < k
    <3>1. i < k /\ i + 1 # k
      BY <2>3, <2>6
    <3> QED  BY <2>2, <2>3, <2>4, <2>5, <2>6, <3>1
  <2>7. CASE i + 1 = k
    <3>1. i < k /\ ~(i + 1 < k) /\ s[i + 1] = s[k]
      BY <2>3, <2>7
    <3>2. Sums(t)[i + 1] = sum + x /\ Sums(s)[i + 1] = sum + old
      BY <2>2, <2>3, <2>4, <2>5, <2>7, <3>1 DEF sum, old
    <3>3. sum + x = (sum + old) + (x - old)
      BY <2>3 DEF sum, old
    <3> QED  BY <3>1, <3>2, <3>3 DEF old
  <2>8. CASE k < i + 1
    <3>1. ~(i < k) /\ i + 1 # k /\ ~(i + 1 < k)
      BY <2>3, <2>8
    <3>2. Sums(t)[i + 1] = (sum + (x - old)) + s[i + 1] /\ Sums(s)[i + 1] = sum + s[i + 1]
      BY <2>2, <2>3, <2>4, <2>5, <3>1 DEF sum, old
    <3>3. (sum + (x - old)) + s[i + 1] = (sum + s[i + 1]) + (x - old)
      BY <2>3 DEF sum, old
    <3> QED  BY <3>1, <3>2, <3>3 DEF old
  <2> QED  BY <2>3, <2>6, <2>7, <2>8
<1> HIDE DEF S
<1>5. Nat \subseteq S
  BY <1>3, <1>4, NaturalInduction
<1>6. Sums(t)[Len(s)] = Sums(s)[Len(s)] + (x - s[k])
  BY <1>2, <1>5 DEF S
<1>7. Total(s) = Sums(s)[Len(s)] /\ Total(t) = Sums(t)[Len(s)]
  BY <1>1, SumSteps
<1>8. Total(s) \in Int
  BY TotalType
<1> QED  BY <1>2, <1>6, <1>7, <1>8 DEF t

LEMMA ByteRange == \A x \in Bytes : x \in 0 .. 255
  BY DEF Bytes

LEMMA RangeByte == \A x \in 0 .. 255 : x \in Bytes /\ x \in Int
  BY DEF Bytes

LEMMA BytesAreInts == ASSUME NEW s \in Seq(Bytes) PROVE s \in Seq(Int)
<1>1. Bytes \subseteq Int
  BY DEF Bytes
<1> QED  BY <1>1, SeqMonotonic

\* Arithmetic modulo 256.
LEMMA Complement ==
  \A z \in Int : (-z) % 256 \in 0 .. 255 /\ (z + ((-z) % 256)) % 256 = 0
  OBVIOUS

\* What parse_cni_line asks of a line.
Balanced(data) == Total(data) % 256 = 0

\* The checksum brings a packet to zero.
LEMMA SealedIsBalanced ==
  ASSUME NEW payload \in Seq(Bytes)
  PROVE  /\ Sealed(payload) \in Seq(Bytes) /\ Len(Sealed(payload)) = Len(payload) + 1
         /\ \A i \in 1 .. Len(payload) : Sealed(payload)[i] = payload[i]
         /\ Balanced(Sealed(payload))
<1>1. payload \in Seq(Int)
  BY BytesAreInts
<1>2. Total(payload) \in Int
  BY <1>1, TotalType
<1>3. Checksum(payload) \in 0 .. 255
  BY <1>2, Complement, Zenon DEF Checksum
<1>4. (Total(payload) + Checksum(payload)) % 256 = 0
  BY <1>2, Complement, ZenonT(60) DEF Checksum
<1>5. Checksum(payload) \in Bytes /\ Checksum(payload) \in Int
  BY <1>3, RangeByte, Zenon
<1>6. Total(Sealed(payload)) = Total(payload) + Checksum(payload)
  BY <1>1, <1>5, TotalAppend DEF Sealed
<1>7. Balanced(Sealed(payload))
  BY <1>4, <1>6, Zenon DEF Balanced
<1> QED  BY <1>5, <1>7 DEF Sealed

\* No change of one byte is invisible to the checksum.
LEMMA DamageIsSeen ==
  ASSUME NEW s \in Seq(Bytes), Balanced(s),
         NEW i \in 1 .. Len(s), NEW noise \in 1 .. 255
  PROVE  LET t == [s EXCEPT ![i] = (@ + noise) % 256]
         IN  t \in Seq(Bytes) /\ ~ Balanced(t)
<1> DEFINE x == (s[i] + noise) % 256
           t == [s EXCEPT ![i] = x]
<1>1. s \in Seq(Int)
  BY BytesAreInts
<1>2. s[i] \in 0 .. 255
  <2>1. s[i] \in Bytes
    OBVIOUS
  <2> QED  BY <2>1, ByteRange, Zenon
<1>3. Total(s) \in Int
  BY <1>1, TotalType
<1>4. x \in 0 .. 255 /\ (Total(s) - s[i] + x) % 256 # 0
  <2> DEFINE z == Total(s)
             y == s[i]
  <2>1. y \in 0 .. 255 /\ z \in Int
    BY <1>2, <1>3
  <2>2. z % 256 = 0
    BY DEF Balanced
  <2> HIDE DEF y, z
  <2>3. noise \in 1 .. 255
    OBVIOUS
  <2>4. (y + noise) % 256 \in 0 .. 255
    BY ONLY <2>1, <2>3
  <2>5. (z - y + ((y + noise) % 256)) % 256 # 0
    BY ONLY <2>1, <2>2, <2>3
  <2> QED  BY <2>4, <2>5 DEF y, z
<1>5. [s EXCEPT ![i] = (@ + noise) % 256] = t
  OBVIOUS
<1> HIDE DEF x
<1>6. x \in Bytes /\ x \in Int
  BY <1>4, RangeByte, Zenon
<1>8. Total(t) = Total(s) - s[i] + x
  BY <1>1, <1>6, TotalExcept
<1>9. t \in Seq(Bytes)
  BY <1>6
<1> HIDE DEF t
<1>10. ~ Balanced(t)
  BY <1>4, <1>8, Zenon DEF Balanced
<1> QED  BY <1>5, <1>9, <1>10, Zenon

-----------------------------------------------------------------------------
(* Strings of bytes made of smaller ones.                                  *)

\* The first i strings, one after the other.
Flat(seqs) ==
  CHOOSE flat : flat = [i \in 1 .. Len(seqs) |-> IF i = 1 THEN seqs[i] ELSE flat[i - 1] \o seqs[i]]

LEMMA FlatExist ==
  ASSUME NEW seqs
  PROVE  \A n \in Nat : \E flat : flat = [i \in 1 .. n |-> IF i = 1 THEN seqs[i] ELSE flat[i - 1] \o seqs[i]]
<1> DEFINE P(n) == \E flat : flat = [i \in 1 .. n |-> IF i = 1 THEN seqs[i] ELSE flat[i - 1] \o seqs[i]]
           S == {n \in Nat : P(n)}
<1>1. P(0)
  <2> DEFINE f == [i \in 1 .. 0 |-> seqs[i]]
  <2>1. f = [i \in 1 .. 0 |-> IF i = 1 THEN seqs[i] ELSE f[i - 1] \o seqs[i]]
    OBVIOUS
  <2> QED  BY <2>1
<1>2. ASSUME NEW n \in Nat, P(n) PROVE P(n + 1)
  <2>1. PICK f : f = [i \in 1 .. n |-> IF i = 1 THEN seqs[i] ELSE f[i - 1] \o seqs[i]]
    BY <1>2
  <2> DEFINE last == IF n = 0 THEN seqs[n + 1] ELSE f[n] \o seqs[n + 1]
             g == [i \in 1 .. n + 1 |-> IF i = n + 1 THEN last ELSE f[i]]
  <2>2. \A i \in 1 .. n : f[i] = IF i = 1 THEN seqs[i] ELSE f[i - 1] \o seqs[i]
    BY <2>1
  <2>3. \A i \in 1 .. n + 1 : g[i] = IF i = 1 THEN seqs[i] ELSE g[i - 1] \o seqs[i]
    BY <2>2
  <2>4. g = [i \in 1 .. n + 1 |-> IF i = 1 THEN seqs[i] ELSE g[i - 1] \o seqs[i]]
    <3>1. g = [i \in 1 .. n + 1 |-> g[i]]
      OBVIOUS
    <3> HIDE DEF g
    <3> QED  BY <2>3, <3>1
  <2> QED  BY <2>4
<1> HIDE DEF P
<1>3. 0 \in S /\ \A n \in Nat : n \in S => n + 1 \in S
  BY <1>1, <1>2
<1> HIDE DEF S
<1>4. Nat \subseteq S
  BY <1>3, NaturalInduction
<1> QED  BY <1>4 DEF P, S

\* The recursion of FlattenSeq, step by step.
LEMMA FlatSteps ==
  ASSUME NEW D, NEW seqs \in Seq(Seq(D)), Len(seqs) > 0
  PROVE  /\ FlattenSeq(seqs) = Flat(seqs)[Len(seqs)]
         /\ Flat(seqs)[1] = seqs[1]
         /\ \A i \in 1 .. Len(seqs) - 1 : Flat(seqs)[i + 1] = Flat(seqs)[i] \o seqs[i + 1]
<1> DEFINE f == Flat(seqs)
<1>1. Len(seqs) \in Nat
  OBVIOUS
<1>2. FlattenSeq(seqs) = f[Len(seqs)]
  BY <1>1 DEF FlattenSeq, Flat
<1>3. f = [i \in 1 .. Len(seqs) |-> IF i = 1 THEN seqs[i] ELSE f[i - 1] \o seqs[i]]
  BY <1>1, FlatExist, Zenon DEF Flat
<1> HIDE DEF f
<1>4. \A i \in 1 .. Len(seqs) : f[i] = IF i = 1 THEN seqs[i] ELSE f[i - 1] \o seqs[i]
  BY <1>3
<1>5. f[1] = seqs[1]
  BY <1>1, <1>4
<1>6. \A i \in 1 .. Len(seqs) - 1 : f[i + 1] = f[i] \o seqs[i + 1]
  <2> TAKE i \in 1 .. Len(seqs) - 1
  <2>1. i + 1 \in 1 .. Len(seqs) /\ i + 1 # 1 /\ (i + 1) - 1 = i
    BY <1>1
  <2> QED  BY <1>4, <2>1
<1> QED  BY <1>2, <1>5, <1>6 DEF f

\* Where the i-th string starts.
Before(seqs, i) == IF i = 1 THEN 0 ELSE Len(Flat(seqs)[i - 1])

LEMMA FlatTypes ==
  ASSUME NEW D, NEW seqs \in Seq(Seq(D)), Len(seqs) > 0
  PROVE  \A i \in 1 .. Len(seqs) : Flat(seqs)[i] \in Seq(D)
<1> DEFINE f == Flat(seqs)
           S == {i \in Nat : i + 1 <= Len(seqs) => f[i + 1] \in Seq(D)}
<1>1. Len(seqs) \in Nat /\ \A i \in 1 .. Len(seqs) : seqs[i] \in Seq(D)
  OBVIOUS
<1>2. f[1] = seqs[1] /\ \A i \in 1 .. Len(seqs) - 1 : f[i + 1] = f[i] \o seqs[i + 1]
  BY FlatSteps
<1> HIDE DEF f
<1>3. 0 \in S
  BY <1>1, <1>2
<1>4. ASSUME NEW i \in Nat, i \in S PROVE i + 1 \in S
  <2> SUFFICES ASSUME i + 2 <= Len(seqs) PROVE f[i + 2] \in Seq(D)
    OBVIOUS
  <2>1. i + 1 \in 1 .. Len(seqs) - 1 /\ i + 2 \in 1 .. Len(seqs) /\ (i + 1) + 1 = i + 2
    BY <1>1
  <2>2. f[i + 2] = f[i + 1] \o seqs[i + 2]
    BY <1>2, <2>1
  <2>3. f[i + 1] \in Seq(D) /\ seqs[i + 2] \in Seq(D)
    BY <1>1, <1>4, <2>1
  <2> QED  BY <2>2, <2>3
<1> HIDE DEF S
<1>5. Nat \subseteq S
  BY <1>3, <1>4, NaturalInduction
<1>6. \A i \in 1 .. Len(seqs) : i - 1 \in Nat /\ (i - 1) + 1 = i
  BY <1>1
<1> QED  BY <1>1, <1>5, <1>6 DEF S, f

\* What a longer prefix has at its front is the shorter one.
LEMMA FlatPrefix ==
  ASSUME NEW D, NEW seqs \in Seq(Seq(D)), NEW i \in 1 .. Len(seqs), NEW j \in i .. Len(seqs)
  PROVE  /\ Len(Flat(seqs)[i]) <= Len(Flat(seqs)[j])
         /\ \A p \in 1 .. Len(Flat(seqs)[i]) : Flat(seqs)[j][p] = Flat(seqs)[i][p]
<1> DEFINE f == Flat(seqs)
           Extends(s, t) == Len(s) <= Len(t) /\ \A p \in 1 .. Len(s) : t[p] = s[p]
           S == {d \in Nat : i + d <= Len(seqs) => Extends(f[i], f[i + d])}
<1>1. Len(seqs) \in Nat /\ Len(seqs) > 0 /\ i \in Nat
  OBVIOUS
<1>2. \A k \in 1 .. Len(seqs) - 1 : f[k + 1] = f[k] \o seqs[k + 1]
  BY <1>1, FlatSteps
<1>3. \A k \in 1 .. Len(seqs) : f[k] \in Seq(D)
  BY <1>1, FlatTypes
<1>4. \A k \in 1 .. Len(seqs) : seqs[k] \in Seq(D)
  OBVIOUS
<1> HIDE DEF f
<1>5. 0 \in S
  <2>1. i + 0 = i /\ Len(f[i]) \in Nat
    BY <1>1, <1>3
  <2> QED  BY <2>1
<1>6. ASSUME NEW d \in Nat, d \in S PROVE d + 1 \in S
  <2> SUFFICES ASSUME i + (d + 1) <= Len(seqs) PROVE Extends(f[i], f[i + (d + 1)])
    OBVIOUS
  <2>1. i + d \in 1 .. Len(seqs) - 1 /\ i + d \in 1 .. Len(seqs) /\ i + (d + 1) \in 1 .. Len(seqs)
        /\ i + (d + 1) = (i + d) + 1
    BY <1>1
  <2>2. f[i + (d + 1)] = f[i + d] \o seqs[i + (d + 1)]
    BY <1>2, <2>1
  <2>3. Extends(f[i], f[i + d])
    BY <1>6, <2>1
  <2> DEFINE a == f[i]
             b == f[i + d]
             c == seqs[i + (d + 1)]
  <2>4. a \in Seq(D) /\ b \in Seq(D) /\ c \in Seq(D)
    BY <1>3, <1>4, <2>1
  <2> HIDE DEF a, b, c
  <2>5. Extends(a, b) => Extends(a, b \o c)
    BY <2>4
  <2> QED  BY <2>2, <2>3, <2>5 DEF a, b, c
<1> HIDE DEF S
<1>7. Nat \subseteq S
  BY <1>5, <1>6, NaturalInduction
<1>8. j - i \in Nat /\ i + (j - i) = j /\ j <= Len(seqs)
  BY <1>1
<1>9. Extends(f[i], f[j])
  BY <1>7, <1>8 DEF S
<1> QED  BY <1>9 DEF f

\* Where the strings are in the flattened one.
IsFlat(body, seqs, n) ==
  /\ Before(seqs, 1) = 0
  /\ Len(body) = Before(seqs, n) + Len(seqs[n])
  /\ \A i \in 1 .. n :
       /\ Before(seqs, i) \in Nat
       /\ i < n => Before(seqs, i + 1) = Before(seqs, i) + Len(seqs[i])
       /\ Before(seqs, i) + Len(seqs[i]) <= Len(body)
       /\ \A q \in 1 .. Len(seqs[i]) : body[Before(seqs, i) + q] = seqs[i][q]

LEMMA FlatAt ==
  ASSUME NEW D, NEW seqs \in Seq(Seq(D)), Len(seqs) > 0
  PROVE  FlattenSeq(seqs) \in Seq(D) /\ IsFlat(FlattenSeq(seqs), seqs, Len(seqs))
<1> DEFINE f == Flat(seqs)
           n == Len(seqs)
<1>1. n \in Nat /\ n \in 1 .. n
  OBVIOUS
<1>2. FlattenSeq(seqs) = f[n] /\ f[1] = seqs[1]
      /\ \A k \in 1 .. n - 1 : f[k + 1] = f[k] \o seqs[k + 1]
  BY FlatSteps
<1>3. \A k \in 1 .. n : f[k] \in Seq(D) /\ seqs[k] \in Seq(D)
  BY FlatTypes
<1>4. \A k \in 1 .. n : /\ Len(f[k]) <= Len(f[n])
                        /\ \A p \in 1 .. Len(f[k]) : f[n][p] = f[k][p]
  <2> TAKE k \in 1 .. n
  <2>1. n \in k .. Len(seqs)
    BY <1>1
  <2> QED  BY <2>1, FlatPrefix
<1>5. \A k \in 1 .. n : Before(seqs, k) = IF k = 1 THEN 0 ELSE Len(f[k - 1])
  BY DEF Before
<1> HIDE DEF f, n
<1>6. \A s, t \in Seq(D) : /\ Len(s) \in Nat /\ Len(t) \in Nat
                           /\ Len(s \o t) = Len(s) + Len(t)
                           /\ \A q \in 1 .. Len(t) : (s \o t)[Len(s) + q] = t[q]
  OBVIOUS
<1>7. ASSUME NEW i \in 1 .. n
      PROVE  /\ Before(seqs, i) \in Nat
             /\ Len(f[i]) = Before(seqs, i) + Len(seqs[i])
             /\ \A q \in 1 .. Len(seqs[i]) : f[i][Before(seqs, i) + q] = seqs[i][q]
  <2>1. CASE i = 1
    <3>1. Before(seqs, i) = 0 /\ f[i] = seqs[i] /\ Len(seqs[i]) \in Nat
      BY <1>2, <1>3, <1>5, <1>6, <2>1
    <3> QED  BY <3>1
  <2>2. CASE i # 1
    <3> DEFINE k == i - 1
    <3>1. k \in 1 .. n - 1 /\ k \in 1 .. n /\ i = k + 1
      BY <1>1, <2>2
    <3>2. Before(seqs, i) = Len(f[k]) /\ f[i] = f[k] \o seqs[i]
      BY <1>2, <1>5, <2>2, <3>1
    <3>3. f[k] \in Seq(D) /\ seqs[i] \in Seq(D)
      BY <1>3, <3>1
    <3> HIDE DEF k
    <3>4. /\ Len(f[k]) \in Nat /\ Len(f[k] \o seqs[i]) = Len(f[k]) + Len(seqs[i])
          /\ \A q \in 1 .. Len(seqs[i]) : (f[k] \o seqs[i])[Len(f[k]) + q] = seqs[i][q]
      BY <1>6, <3>3, Zenon
    <3> QED  BY <3>2, <3>4
  <2> QED  BY <2>1, <2>2
<1>8. ASSUME NEW i \in 1 .. n
      PROVE  /\ i < n => Before(seqs, i + 1) = Before(seqs, i) + Len(seqs[i])
             /\ Before(seqs, i) + Len(seqs[i]) <= Len(f[n])
             /\ \A q \in 1 .. Len(seqs[i]) : f[n][Before(seqs, i) + q] = seqs[i][q]
  <2>1. i < n => i + 1 \in 1 .. n /\ i + 1 # 1 /\ (i + 1) - 1 = i
    BY <1>1
  <2>2. i < n => Before(seqs, i + 1) = Len(f[i])
    BY <1>5, <2>1
  <2>3. \A q \in 1 .. Len(seqs[i]) : Before(seqs, i) + q \in 1 .. Len(f[i])
    BY <1>3, <1>6, <1>7
  <2> QED  BY <1>4, <1>7, <2>2, <2>3
<1>9. Before(seqs, 1) = 0
  BY DEF Before
<1>10. FlattenSeq(seqs) \in Seq(D) /\ IsFlat(FlattenSeq(seqs), seqs, n)
  BY <1>1, <1>2, <1>3, <1>7, <1>8, <1>9 DEF IsFlat
<1> QED  BY <1>10 DEF n

-----------------------------------------------------------------------------
(* The ramps.                                                              *)

LEMMA DurationTypes ==
  /\ DOMAIN Durations = 1 .. 16
  /\ \A i \in 1 .. 16 : Durations[i] \in 0 .. 1020
  /\ \A i \in DOMAIN Durations : Durations[i] \in 0 .. 1020
<1>1. DOMAIN Durations = 1 .. 16
  BY DEF Durations
<1>2. \A i \in 1 .. 16 : Durations[i] \in 0 .. 1020
  BY DEF Durations
<1>3. \A i \in DOMAIN Durations : Durations[i] \in 0 .. 1020
  <2> DEFINE S == 0 .. 1020
             D == 1 .. 16
  <2>1. DOMAIN Durations = D /\ \A i \in D : Durations[i] \in S
    BY <1>1, <1>2
  <2> HIDE DEF S, D
  <2>2. \A i \in DOMAIN Durations : Durations[i] \in S
    BY <2>1, Zenon
  <2> QED  BY <2>2 DEF S
<1> QED  BY <1>1, <1>2, <1>3

LEMMA CodesAre == RampCodes = {8 * i - 6 : i \in 1 .. 16}
<1>1. DOMAIN Durations = 1 .. 16
  BY DurationTypes, Zenon
<1> QED  BY <1>1, Zenon DEF RampCodes

\* The codes are even, and so none of them is ON, OFF or TERMINATE.
LEMMA RampFacts ==
  /\ \A c \in RampCodes : /\ c \in 2 .. 122 /\ c \notin {On, Off, Terminate} /\ c \in Bytes
                          /\ RampSeconds[c] \in 0 .. 1020
  /\ \A i \in DOMAIN Durations : 8 * i - 6 \in RampCodes /\ RampSeconds[8 * i - 6] = Durations[i]
  /\ 2 \in RampCodes /\ RampSeconds[2] = 0
<1>1. \A i \in 1 .. 16 : 8 * i - 6 \in RampCodes /\ 8 * i - 6 \in 2 .. 122
  <2>1. \A i \in 1 .. 16 : 8 * i - 6 \in RampCodes
    BY CodesAre, Zenon
  <2>2. \A i \in 1 .. 16 : 8 * i - 6 \in 2 .. 122
    OBVIOUS
  <2> QED  BY <2>1, <2>2, Zenon
<1>2. \A i \in 1 .. 16 : RampSeconds[8 * i - 6] = Durations[i]
  <2> TAKE i \in 1 .. 16
  <2>1. ((8 * i - 6) + 6) \div 8 = i
    OBVIOUS
  <2> QED  BY <1>1, <2>1 DEF RampSeconds
<1>3. ASSUME NEW c \in RampCodes
      PROVE  /\ c \in 2 .. 122 /\ c \notin {On, Off, Terminate} /\ c \in Bytes
             /\ RampSeconds[c] \in 0 .. 1020
  <2>1. PICK i \in 1 .. 16 : c = 8 * i - 6
    BY CodesAre, Zenon
  <2>2. c \in 2 .. 122 /\ c \notin {121, 1, 9}
    BY <2>1
  <2>3. RampSeconds[c] \in 0 .. 1020
    BY <1>2, <2>1, DurationTypes, ZenonT(60)
  <2> QED  BY <2>2, <2>3 DEF On, Off, Terminate, Bytes
<1>4. 2 \in RampCodes /\ RampSeconds[2] = 0
  <2>1. 2 = 8 * 1 - 6 /\ 1 \in 1 .. 16 /\ Durations[1] = 0
    BY DEF Durations
  <2> QED  BY <1>1, <1>2, <2>1
<1>5. \A i \in DOMAIN Durations : 8 * i - 6 \in RampCodes /\ RampSeconds[8 * i - 6] = Durations[i]
  <2>1. DOMAIN Durations = 1 .. 16
    BY DurationTypes, Zenon
  <2>2. \A i \in 1 .. 16 : 8 * i - 6 \in RampCodes
    BY <1>1, Zenon
  <2> QED  BY <1>2, <2>1, <2>2, Zenon
<1> QED  BY <1>3, <1>4, <1>5, Zenon

\* A transition gets a ramp that no other is nearer to.
LEMMA NearestRamp ==
  ASSUME NEW seconds \in Nat, seconds # None
  PROVE  /\ TransitionToRampCode(seconds) \in RampCodes
         /\ \A d \in RampCodes :
              Distance(TransitionToRampCode(seconds), seconds) <= Distance(d, seconds)
<1> DEFINE Key(c) == 128 * Distance(c, seconds) + c
           S == {Key(c) : c \in RampCodes}
           Best(c) == \A d \in RampCodes :
                        \/ Distance(c, seconds) < Distance(d, seconds)
                        \/ Distance(c, seconds) = Distance(d, seconds) /\ c <= d
<1>1. \A c \in RampCodes : Distance(c, seconds) \in Nat /\ c \in 2 .. 122
  <2> TAKE c \in RampCodes
  <2>1. RampSeconds[c] \in 0 .. 1020 /\ c \in 2 .. 122
    BY RampFacts
  <2> DEFINE r == RampSeconds[c]
  <2>2. r \in Int /\ seconds \in Int
    <3> DEFINE R == 0 .. 1020
    <3>1. r \in R
      BY ONLY <2>1
    <3>2. \A k \in R : k \in Int
      OBVIOUS
    <3>3. \A k \in Nat : k \in Int
      OBVIOUS
    <3> HIDE DEF R, r
    <3> QED  BY <3>1, <3>2, <3>3, Zenon
  <2>3. Distance(c, seconds) = IF r - seconds < 0 THEN -(r - seconds) ELSE r - seconds
    BY DEF Distance
  <2> HIDE DEF r
  <2>4. (IF r - seconds < 0 THEN -(r - seconds) ELSE r - seconds) \in Nat
    BY ONLY <2>2
  <2> QED  BY <2>1, <2>3, <2>4, ZenonT(60)
<1>2. S \subseteq Nat /\ S # {}
  <2>1. \A c \in RampCodes : Key(c) \in Nat
    BY <1>1
  <2>2. 2 \in RampCodes
    BY RampFacts
  <2> QED  BY <2>1, <2>2
<1>3. PICK m \in S : \A n \in S : m <= n
  <2> HIDE DEF S
  <2> QED  BY <1>2, LeastNatural
<1>4. PICK c \in RampCodes : m = Key(c)
  OBVIOUS
<1>5. Best(c)
  <2> TAKE d \in RampCodes
  <2>1. Key(c) <= Key(d)
    BY <1>3, <1>4
  <2> DEFINE x == Distance(c, seconds)
             y == Distance(d, seconds)
  <2>2. x \in Nat /\ y \in Nat /\ c \in 2 .. 122 /\ d \in 2 .. 122
    BY <1>1
  <2>3. 128 * x + c <= 128 * y + d
    BY <2>1
  <2> HIDE DEF x, y
  <2>4. x < y \/ (x = y /\ c <= d)
    <3>1. CASE x = y
      BY ONLY <2>2, <2>3, <3>1
    <3>2. CASE x > y
      <4>1. x >= y + 1
        BY ONLY <2>2, <3>2
      <4> QED  BY ONLY <2>2, <2>3, <4>1
    <3>3. x < y \/ x = y \/ x > y
      BY ONLY <2>2
    <3> QED  BY <3>1, <3>2, <3>3
  <2> QED  BY <2>4 DEF x, y
<1>6. TransitionToRampCode(seconds) = CHOOSE r \in RampCodes : Best(r)
  BY DEF TransitionToRampCode
<1> HIDE DEF Best, S, Key
<1>7. TransitionToRampCode(seconds) \in RampCodes /\ Best(TransitionToRampCode(seconds))
  BY <1>5, <1>6
<1>8. \A d \in RampCodes :
        \/ Distance(TransitionToRampCode(seconds), seconds) < Distance(d, seconds)
        \/ Distance(TransitionToRampCode(seconds), seconds) = Distance(d, seconds)
  BY <1>7 DEF Best
<1> QED  BY <1>1, <1>7, <1>8

-----------------------------------------------------------------------------
(* The lines of the bus.                                                   *)

LEMMA SmallBytes ==
  /\ 0 \in Bytes /\ 1 \in Bytes /\ 2 \in Bytes /\ 5 \in Bytes /\ 9 \in Bytes /\ 121 \in Bytes
  /\ 255 \in Bytes
  /\ Groups \subseteq Bytes
  BY ByteAssumption DEF Bytes

\* A sealed packet is its head, its body and the checksum.
IsPacket(l, head, body) ==
  /\ l \in Seq(Bytes) /\ Balanced(l)
  /\ Len(l) = Len(head) + Len(body) + 1
  /\ \A i \in 1 .. Len(head) : l[i] = head[i]
  /\ \A q \in 1 .. Len(body) : l[Len(head) + q] = body[q]

LEMMA PacketIs ==
  ASSUME NEW head \in Seq(Bytes), NEW body \in Seq(Bytes)
  PROVE  IsPacket(Sealed(head \o body), head, body)
<1> DEFINE payload == head \o body
           l == Sealed(payload)
<1>1. payload \in Seq(Bytes) /\ Len(payload) = Len(head) + Len(body)
      /\ \A i \in 1 .. Len(head) + Len(body) :
           payload[i] = IF i <= Len(head) THEN head[i] ELSE body[i - Len(head)]
  BY ConcatProperties
<1>2. Len(head) \in Nat /\ Len(body) \in Nat
  OBVIOUS
<1> HIDE DEF payload
<1>3. l \in Seq(Bytes) /\ Balanced(l) /\ Len(l) = Len(payload) + 1
      /\ \A i \in 1 .. Len(payload) : l[i] = payload[i]
  BY <1>1, SealedIsBalanced
<1> HIDE DEF l
<1>4. \A i \in 1 .. Len(head) : l[i] = head[i]
  BY <1>1, <1>2, <1>3
<1>5. \A q \in 1 .. Len(body) : l[Len(head) + q] = body[q]
  <2> TAKE q \in 1 .. Len(body)
  <2>1. Len(head) + q \in 1 .. Len(payload) /\ ~ (Len(head) + q <= Len(head))
        /\ (Len(head) + q) - Len(head) = q
    BY <1>1, <1>2
  <2> QED  BY <1>1, <1>3, <2>1
<1>6. Len(l) = Len(head) + Len(body) + 1
  BY <1>1, <1>3
<1>7. IsPacket(l, head, body)
  BY <1>3, <1>4, <1>5, <1>6 DEF IsPacket
<1> QED  BY <1>7 DEF l, payload

\* What encode_lighting_command makes of a level, by case.
LEMMA CommandBytesAre ==
  ASSUME NEW group \in Groups, NEW level \in Levels \cup {0, 255}, NEW transition \in Transitions
  PROVE  LET body == CommandBytes(group, level, transition)
         IN  /\ body \in Seq(Bytes)
             /\ \/ level = 0 /\ transition \in {None, 0} /\ body = <<Off, group>>
                \/ level = 255 /\ transition \in {None, 0} /\ body = <<On, group>>
                \/ /\ body = <<TransitionToRampCode(transition), group, level>>
                   /\ TransitionToRampCode(transition) \in RampCodes
<1>1. group \in Bytes /\ level \in Bytes /\ On \in Bytes /\ Off \in Bytes
  BY SmallBytes, ByteAssumption DEF On, Off
<1>2. TransitionToRampCode(transition) \in RampCodes /\ TransitionToRampCode(transition) \in Bytes
  <2>1. CASE transition = None
    BY <2>1, RampFacts DEF TransitionToRampCode
  <2>2. CASE transition # None
    <3>1. transition \in Nat
      BY <2>2, ByteAssumption
    <3> QED  BY <2>2, <3>1, NearestRamp, RampFacts
  <2> QED  BY <2>1, <2>2
<1>3. CASE level = 0 /\ transition \in {None, 0}
  BY <1>1, <1>3 DEF CommandBytes
<1>4. CASE level = 255 /\ transition \in {None, 0}
  BY <1>1, <1>4 DEF CommandBytes
<1>5. CASE ~ (level = 0 /\ transition \in {None, 0}) /\ ~ (level = 255 /\ transition \in {None, 0})
  <2>1. CommandBytes(group, level, transition) = <<TransitionToRampCode(transition), group, level>>
    BY <1>5 DEF CommandBytes
  <2> QED  BY <1>1, <1>2, <2>1
<1> QED  BY <1>3, <1>4, <1>5

IsCommandLine(l, source, application, body) ==
  /\ l \in Seq(Bytes) /\ Balanced(l) /\ Len(l) = 5 + Len(body)
  /\ l[1] = 5 /\ l[2] = source /\ l[3] = application /\ l[4] = 0
  /\ \A q \in 1 .. Len(body) : l[4 + q] = body[q]

\* send_level's packet without its first byte and its checksum, after the source.
LEMMA CommandLineIs ==
  ASSUME NEW source \in Sources, NEW application \in Applications, NEW group \in Groups,
         NEW level \in Levels \cup {0, 255}, NEW transition \in Transitions,
         NEW l, l = CommandLine(source, EncodeLightingCommand(application, group, level, transition))
  PROVE  IsCommandLine(l, source, application, CommandBytes(group, level, transition))
<1> DEFINE body == CommandBytes(group, level, transition)
           sent == EncodeLightingCommand(application, group, level, transition)
           rest == <<application, 0>> \o body
<1>1. body \in Seq(Bytes) /\ Len(body) \in Nat
  BY CommandBytesAre
<1>2. source \in Bytes /\ application \in Bytes
  BY ByteAssumption
<1> HIDE DEF body
<1>3. <<5, application, 0>> \in Seq(Bytes) /\ Len(<<5, application, 0>>) = 3
      /\ <<application, 0>> \in Seq(Bytes) /\ Len(<<application, 0>>) = 2
      /\ <<5, source>> \in Seq(Bytes) /\ Len(<<5, source>>) = 2
  BY <1>2, SmallBytes
<1>4. sent = Sealed(<<5, application, 0>> \o body)
  BY DEF EncodeLightingCommand, body
<1> HIDE DEF sent
<1>5. sent \in Seq(Bytes) /\ Len(sent) = Len(body) + 4
      /\ sent[1] = 5 /\ sent[2] = application /\ sent[3] = 0
      /\ \A q \in 1 .. Len(body) : sent[3 + q] = body[q]
  <2>1. /\ sent \in Seq(Bytes) /\ Len(sent) = 3 + Len(body) + 1
        /\ \A i \in 1 .. 3 : sent[i] = <<5, application, 0>>[i]
        /\ \A q \in 1 .. Len(body) : sent[3 + q] = body[q]
    <3> DEFINE head == <<5, application, 0>>
    <3>1. head \in Seq(Bytes) /\ Len(head) = 3 /\ sent = Sealed(head \o body)
      BY <1>3, <1>4
    <3> HIDE DEF head
    <3>2. IsPacket(sent, head, body)
      BY <1>1, <3>1, PacketIs, Zenon
    <3>3. /\ sent \in Seq(Bytes) /\ Len(sent) = 3 + Len(body) + 1
          /\ \A i \in 1 .. 3 : sent[i] = head[i]
          /\ \A q \in 1 .. Len(body) : sent[3 + q] = body[q]
      BY <3>1, <3>2 DEF IsPacket
    <3> QED  BY <3>3 DEF head
  <2> QED  BY <1>1, <2>1
<1>6. /\ rest \in Seq(Bytes) /\ Len(rest) = 2 + Len(body)
      /\ \A i \in 1 .. 2 + Len(body) :
           rest[i] = IF i <= 2 THEN <<application, 0>>[i] ELSE body[i - 2]
  BY <1>1, <1>3, ConcatProperties
<1>7. rest[1] = application /\ rest[2] = 0 /\ \A q \in 1 .. Len(body) : rest[2 + q] = body[q]
  <2>1. 1 \in 1 .. 2 + Len(body) /\ 2 \in 1 .. 2 + Len(body)
    BY <1>1
  <2>2. \A q \in 1 .. Len(body) : 2 + q \in 1 .. 2 + Len(body) /\ ~ (2 + q <= 2) /\ (2 + q) - 2 = q
    BY <1>1
  <2> QED  BY <1>6, <2>1, <2>2
<1> HIDE DEF rest
<1>8. SubSeq(sent, 2, Len(sent) - 1) = rest
  <2> DEFINE sub == SubSeq(sent, 2, Len(sent) - 1)
  <2>1. \A i \in 2 .. Len(sent) - 1 : sent[i] \in Bytes
    BY <1>5
  <2>2. 2 \in Int /\ Len(sent) - 1 \in Int /\ Len(sent) - 1 = Len(body) + 3
    BY <1>1, <1>5
  <2>3. sub \in Seq(Bytes) /\ Len(sub) = Len(rest) /\ \A i \in 1 .. Len(rest) : sub[i] = sent[i + 1]
    BY <1>1, <1>6, <2>1, <2>2, SubSeqProperties
  <2> HIDE DEF sub
  <2>4. \A i \in 1 .. Len(rest) : sub[i] = rest[i]
    <3> TAKE i \in 1 .. Len(rest)
    <3>1. CASE i = 1
      BY <1>5, <1>7, <2>3, <3>1
    <3>2. CASE i = 2
      BY <1>5, <1>7, <2>3, <3>2
    <3>3. CASE i > 2
      <4>1. PICK j \in 1 .. Len(body) : i = 2 + j /\ i + 1 = 3 + j
        <5>1. i - 2 \in 1 .. Len(body) /\ i = 2 + (i - 2) /\ i + 1 = 3 + (i - 2)
          BY <1>1, <1>6, <3>3
        <5> QED  BY <5>1
      <4>2. sub[i] = sent[3 + j]
        BY <2>3, <4>1
      <4>3. rest[i] = body[j]
        BY <1>7, <4>1
      <4>4. sent[3 + j] = body[j]
        BY <1>5
      <4> QED  BY <4>2, <4>3, <4>4
    <3> QED  BY <3>1, <3>2, <3>3
  <2> QED  BY <1>6, <2>3, <2>4, SeqEqual DEF sub
<1>9. l = Sealed(<<5, source>> \o rest)
  BY <1>8 DEF CommandLine, sent
<1>10. /\ l \in Seq(Bytes) /\ Balanced(l) /\ Len(l) = 2 + Len(rest) + 1
       /\ \A i \in 1 .. 2 : l[i] = <<5, source>>[i]
       /\ \A q \in 1 .. Len(rest) : l[2 + q] = rest[q]
  <2> DEFINE head == <<5, source>>
  <2>1. head \in Seq(Bytes) /\ Len(head) = 2 /\ l = Sealed(head \o rest)
    BY <1>3, <1>9
  <2> HIDE DEF head
  <2>2. IsPacket(l, head, rest)
    BY <1>6, <2>1, PacketIs, Zenon
  <2>3. /\ l \in Seq(Bytes) /\ Balanced(l) /\ Len(l) = 2 + Len(rest) + 1
        /\ \A i \in 1 .. 2 : l[i] = head[i]
        /\ \A q \in 1 .. Len(rest) : l[2 + q] = rest[q]
    BY <2>1, <2>2 DEF IsPacket
  <2> QED  BY <2>3 DEF head
<1>11. l[1] = 5 /\ l[2] = source
  BY <1>10
<1>12. l[2 + 1] = rest[1] /\ l[2 + 2] = rest[2]
       /\ \A q \in 1 .. Len(body) : l[2 + (2 + q)] = rest[2 + q]
  <2>1. 1 \in 1 .. Len(rest) /\ 2 \in 1 .. Len(rest)
        /\ \A q \in 1 .. Len(body) : 2 + q \in 1 .. Len(rest)
    BY <1>1, <1>6
  <2> QED  BY <1>10, <2>1
<1>13. \A q \in 1 .. Len(body) : 2 + (2 + q) = 4 + q
  BY <1>1
<1>14. Len(l) = 5 + Len(body)
  BY <1>1, <1>6, <1>10
<1>15. IsCommandLine(l, source, application, body)
  BY <1>7, <1>10, <1>11, <1>12, <1>13, <1>14 DEF IsCommandLine
<1> QED  BY <1>15 DEF body

\* Four states of two bits are read from a byte as they were put in.
LEMMA Unpacks ==
  ASSUME NEW p \in 0 .. 3, NEW q \in 0 .. 3, NEW r \in 0 .. 3, NEW s \in 0 .. 3
  PROVE  LET byte == p + 4 * q + 16 * r + 64 * s
         IN  /\ byte \in 0 .. 255
             /\ StateIn(byte, 0) = p /\ StateIn(byte, 1) = q
             /\ StateIn(byte, 2) = r /\ StateIn(byte, 3) = s
<1> DEFINE byte == p + 4 * q + 16 * r + 64 * s
<1>1. byte \in 0 .. 255
  OBVIOUS
<1>2. (byte \div 1) % 4 = p /\ (byte \div 4) % 4 = q
  OBVIOUS
<1>3. (byte \div 16) % 4 = r /\ (byte \div 64) % 4 = s
  OBVIOUS
<1>4. <<1, 4, 16, 64>>[0 + 1] = 1 /\ <<1, 4, 16, 64>>[1 + 1] = 4
      /\ <<1, 4, 16, 64>>[2 + 1] = 16 /\ <<1, 4, 16, 64>>[3 + 1] = 64
  OBVIOUS
<1> HIDE DEF byte
<1>5. /\ StateIn(byte, 0) = p /\ StateIn(byte, 1) = q
      /\ StateIn(byte, 2) = r /\ StateIn(byte, 3) = s
  BY ONLY <1>2, <1>3, <1>4 DEF StateIn
<1> QED  BY <1>1, <1>5 DEF byte

\* The reply of a network: its header, and the states of the block.
IsStatusLine(l, application, start, block) ==
  /\ l \in Seq(Bytes) /\ Balanced(l)
  /\ Len(block) \in 4 .. 240 /\ Len(block) = 4 * (Len(l) - 4) /\ Len(l) \in 5 .. 64
  /\ l[1] - 192 = Len(l) - 1 /\ l[1] >= 192 /\ l[2] = application /\ l[3] = start
  /\ \A i \in 1 .. Len(block) : block[i] \in 0 .. 3 /\ StateOf(l, i) = block[i]

LEMMA StatusLineIs ==
  ASSUME NEW application \in Applications, NEW start \in Starts, NEW block \in Blocks,
         NEW l, l = StatusLine(application, start, block)
  PROVE  IsStatusLine(l, application, start, block)
<1> DEFINE n == Len(block) \div 4
           head == <<192 + n + 3, application, start>>
           body == [b \in 1 .. n |-> Packed(block, b)]
<1>1. block \in Seq(0 .. 3) /\ Len(block) % 4 = 0 /\ Len(block) \in 4 .. 240
  BY BlockAssumption
<1>2. n \in 1 .. 60 /\ Len(block) = 4 * n
  <2> DEFINE k == Len(block)
  <2>1. k \in 4 .. 240 /\ k % 4 = 0
    BY <1>1
  <2> HIDE DEF k
  <2>2. k \div 4 \in 1 .. 60 /\ k = 4 * (k \div 4)
    BY ONLY <2>1
  <2> QED  BY <2>2 DEF k
<1>3. \A i \in 1 .. 4 * n : block[i] \in 0 .. 3
  <2> DEFINE States == 0 .. 3
  <2>1. block \in Seq(States)
    BY <1>1
  <2> HIDE DEF States, n
  <2>2. \A i \in 1 .. Len(block) : block[i] \in States
    BY <2>1
  <2> QED  BY <1>2, <2>2 DEF States
<1> HIDE DEF n
<1>4. ASSUME NEW b \in 1 .. n
      PROVE  /\ Packed(block, b) \in Bytes
             /\ \A o \in 0 .. 3 : StateIn(Packed(block, b), o) = block[4 * b - 3 + o]
  <2> DEFINE p == block[4 * b - 3]
             q == block[4 * b - 2]
             r == block[4 * b - 1]
             s == block[4 * b]
  <2>1. p \in 0 .. 3 /\ q \in 0 .. 3 /\ r \in 0 .. 3 /\ s \in 0 .. 3
    BY <1>2, <1>3
  <2>2. Packed(block, b) = p + 4 * q + 16 * r + 64 * s
    BY DEF Packed
  <2>3. /\ 4 * b - 3 + 0 = 4 * b - 3 /\ 4 * b - 3 + 1 = 4 * b - 2
        /\ 4 * b - 3 + 2 = 4 * b - 1 /\ 4 * b - 3 + 3 = 4 * b
    BY <1>2
  <2> DEFINE byte == Packed(block, b)
  <2> HIDE DEF p, q, r, s
  <2>4. /\ byte \in 0 .. 255
        /\ StateIn(byte, 0) = p /\ StateIn(byte, 1) = q
        /\ StateIn(byte, 2) = r /\ StateIn(byte, 3) = s
    BY <2>1, <2>2, Unpacks
  <2> HIDE DEF byte
  <2>5. byte \in Bytes
    BY <2>4, RangeByte, Zenon
  <2>6. /\ StateIn(byte, 0) = block[4 * b - 3 + 0] /\ StateIn(byte, 1) = block[4 * b - 3 + 1]
        /\ StateIn(byte, 2) = block[4 * b - 3 + 2] /\ StateIn(byte, 3) = block[4 * b - 3 + 3]
    BY <2>3, <2>4 DEF p, q, r, s
  <2>7. \A o \in 0 .. 3 : o = 0 \/ o = 1 \/ o = 2 \/ o = 3
    OBVIOUS
  <2>8. \A o \in 0 .. 3 : StateIn(byte, o) = block[4 * b - 3 + o]
    BY <2>6, <2>7, Zenon
  <2> QED  BY <2>5, <2>8 DEF byte
<1>5. body \in Seq(Bytes) /\ Len(body) = n /\ \A b \in 1 .. n : body[b] = Packed(block, b)
  <2>1. n \in Nat
    BY <1>2
  <2> QED  BY <1>4, <2>1
<1>6. head \in Seq(Bytes) /\ Len(head) = 3
      /\ head[1] = 192 + n + 3 /\ head[2] = application /\ head[3] = start
  <2>1. application \in Bytes /\ start \in Bytes
    BY ByteAssumption
  <2>2. 192 + n + 3 \in Bytes
    BY <1>2 DEF Bytes
  <2> QED  BY <2>1, <2>2
<1>7. l = Sealed(head \o body)
  BY DEF StatusLine, n
<1> HIDE DEF head, body
<1>8. IsPacket(l, head, body)
  BY <1>5, <1>6, <1>7, PacketIs, Zenon
<1>9. /\ l \in Seq(Bytes) /\ Balanced(l) /\ Len(l) = 3 + n + 1
      /\ \A i \in 1 .. 3 : l[i] = head[i]
      /\ \A b \in 1 .. n : l[3 + b] = body[b]
  BY <1>5, <1>6, <1>8 DEF IsPacket
<1>10. l[1] = 192 + n + 3 /\ l[2] = application /\ l[3] = start
  BY <1>6, <1>9
<1>11. ASSUME NEW i \in 1 .. Len(block) PROVE StateOf(l, i) = block[i]
  <2> DEFINE b == 1 + (i - 1) \div 4
             o == (i - 1) % 4
  <2>1. b \in 1 .. n /\ o \in 0 .. 3 /\ i = 4 * b - 3 + o /\ 4 + (i - 1) \div 4 = 3 + b
    BY <1>2
  <2>2. StateOf(l, i) = StateIn(l[3 + b], o)
    BY <2>1 DEF StateOf
  <2> HIDE DEF b, o
  <2>3. l[3 + b] = Packed(block, b)
    BY <1>5, <1>9, <2>1
  <2>4. StateIn(Packed(block, b), o) = block[4 * b - 3 + o]
    BY <1>4, <2>1
  <2> QED  BY <2>1, <2>2, <2>3, <2>4
<1>12. Len(l) \in 5 .. 64 /\ Len(block) = 4 * (Len(l) - 4) /\ l[1] - 192 = Len(l) - 1 /\ l[1] >= 192
  BY <1>2, <1>9, <1>10
<1>13. \A i \in 1 .. Len(block) : block[i] \in 0 .. 3
  BY <1>2, <1>3
<1> QED  BY <1>1, <1>9, <1>10, <1>11, <1>12, <1>13, Zenon DEF IsStatusLine

LEMMA UnitCommandBytes ==
  ASSUME NEW c \in UnitCommands
  PROVE  /\ BytesOf(c) \in Seq(Bytes)
         /\ \/ /\ c.op \in {On, Off, Terminate} /\ c.op \notin RampCodes
               /\ BytesOf(c) = <<c.op, c.group>> /\ Len(BytesOf(c)) = 2
            \/ /\ c.op \in RampCodes /\ c.op \notin {On, Off, Terminate}
               /\ BytesOf(c) = <<c.op, c.group, c.level>> /\ Len(BytesOf(c)) = 3
<1>1. c.group \in Groups
  BY DEF UnitCommands
<1>2. c.group \in Bytes
  BY <1>1, SmallBytes
<1>3. On \in Bytes /\ Off \in Bytes /\ Terminate \in Bytes
  BY SmallBytes DEF On, Off, Terminate
<1>4. CASE c \in [op : {On, Off, Terminate}, group : Groups, level : {None}]
  <2>1. c.op \in {On, Off, Terminate}
    BY <1>4
  <2>2. c.op \notin RampCodes
    BY <2>1, RampFacts
  <2>3. BytesOf(c) = <<c.op, c.group>> /\ c.op \in Bytes
    BY <1>3, <2>1, <2>2 DEF BytesOf
  <2> QED  BY <1>2, <2>1, <2>2, <2>3
<1>5. CASE c \in [op : Rates, group : Groups, level : Levels]
  <2>1. c.op \in RampCodes /\ c.level \in Bytes
    BY <1>5, RatesAssumption, ByteAssumption
  <2>2. c.op \notin {On, Off, Terminate} /\ c.op \in Bytes
    BY <2>1, RampFacts
  <2>3. BytesOf(c) = <<c.op, c.group, c.level>>
    BY <2>1 DEF BytesOf
  <2> QED  BY <1>2, <2>1, <2>2, <2>3
<1> QED  BY <1>4, <1>5 DEF UnitCommands

\* The bytes of the commands, and the position of the i-th in a line in which they
\* start at position start.
Strings(commands) == [i \in DOMAIN commands |-> BytesOf(commands[i])]

At(commands, start, i) == start + Before(Strings(commands), i)

IsConcat(D, u, s, t) ==
  /\ u \in Seq(D) /\ Len(u) = Len(s) + Len(t)
  /\ \A i \in 1 .. Len(s) + Len(t) : u[i] = IF i <= Len(s) THEN s[i] ELSE t[i - Len(s)]

LEMMA ConcatIs ==
  ASSUME NEW D
  PROVE  \A s, t \in Seq(D) : IsConcat(D, s \o t, s, t)
  BY ConcatProperties DEF IsConcat

IsBroadcastLine(l, source, application, n, commands) ==
  /\ l \in Seq(Bytes) /\ Balanced(l) /\ Len(l) >= 7
  /\ l[1] = 5 /\ l[2] = source /\ l[3] = application
  /\ FirstCommand(l) \in {5, 6} /\ At(commands, FirstCommand(l), 1) = FirstCommand(l)
  /\ \A i \in 1 .. n :
       LET at == At(commands, FirstCommand(l), i)
           bytes == BytesOf(commands[i])
       IN  /\ at \in 5 .. Len(l) - 1 /\ at + Len(bytes) <= Len(l)
           /\ i < n => At(commands, FirstCommand(l), i + 1) = at + Len(bytes)
           /\ i = n => at + Len(bytes) = Len(l)
           /\ \A q \in 1 .. Len(bytes) : l[at + q - 1] = bytes[q]

\* The packet of a broadcast: a header that says where the commands start, and the
\* bytes of the commands one after the other.
LEMMA BroadcastLineIs ==
  ASSUME NEW source \in Sources, NEW application \in Applications, NEW bridge \in {<<>>, << 1 >>},
         NEW n \in Nat \ {0}, NEW commands \in [1 .. n -> UnitCommands],
         NEW l, l = BroadcastLine(source, application, bridge, commands)
  PROVE  IsBroadcastLine(l, source, application, n, commands)
<1> DEFINE seqs == Strings(commands)
           body == FlattenSeq(seqs)
           head == <<5, source, application>> \o bridge \o << 0 >>
           start == 5 + Len(bridge)
<1>1. \A i \in 1 .. n : /\ commands[i] \in UnitCommands /\ seqs[i] = BytesOf(commands[i])
                        /\ seqs[i] \in Seq(Bytes) /\ Len(seqs[i]) \in {2, 3}
  BY UnitCommandBytes DEF Strings
<1>2. seqs \in Seq(Seq(Bytes)) /\ Len(seqs) = n /\ n > 0 /\ n \in 1 .. n
  BY <1>1 DEF Strings
<1> HIDE DEF seqs
<1>3. body \in Seq(Bytes) /\ IsFlat(body, seqs, n)
  BY <1>2, FlatAt
<1> HIDE DEF body
<1>4. Len(body) \in Nat /\ Len(body) >= 2
  <2>1. Len(seqs[n]) \in {2, 3}
    BY <1>1, <1>2
  <2>2. Before(seqs, n) \in Nat
    BY <1>2, <1>3 DEF IsFlat
  <2>3. Len(body) = Before(seqs, n) + Len(seqs[n])
    BY <1>3 DEF IsFlat
  <2> DEFINE a == Before(seqs, n)
             b == Len(seqs[n])
             c == Len(body)
  <2>4. b \in {2, 3} /\ a \in Nat /\ c = a + b
    BY <2>1, <2>2, <2>3, Zenon
  <2> HIDE DEF a, b, c
  <2>5. c \in Nat /\ c >= 2
    BY ONLY <2>4
  <2> QED  BY <2>5 DEF c
<1>5. /\ head \in Seq(Bytes) /\ Len(head) = start - 1 /\ start \in {5, 6}
      /\ head[1] = 5 /\ head[2] = source /\ head[3] = application
      /\ start = 5 => head[4] = 0
      /\ start = 6 => head[4] = 1 /\ head[5] = 0
  <2> DEFINE front == <<5, source, application>>
             long == front \o bridge
             zero == << 0 >>
  <2>1. front \in Seq(Bytes) /\ Len(front) = 3
        /\ front[1] = 5 /\ front[2] = source /\ front[3] = application
    BY ByteAssumption, SmallBytes
  <2>2. bridge \in Seq(Bytes) /\ Len(bridge) \in {0, 1} /\ (Len(bridge) = 1 => bridge[1] = 1)
    <3>1. CASE bridge = <<>>
      <4>1. <<>> \in Seq(Bytes) /\ Len(<<>>) = 0
        OBVIOUS
      <4> QED  BY <3>1, <4>1
    <3>2. CASE bridge = << 1 >>
      <4> DEFINE one == << 1 >>
      <4>1. one \in Seq(Bytes) /\ Len(one) = 1 /\ one[1] = 1
        BY SmallBytes
      <4> HIDE DEF one
      <4>2. bridge = one
        BY <3>2 DEF one
      <4> QED  BY <4>1, <4>2
    <3> QED  BY <3>1, <3>2
  <2>3. zero \in Seq(Bytes) /\ Len(zero) = 1 /\ zero[1] = 0
    BY SmallBytes
  <2> HIDE DEF front, zero
  <2>4. long \in Seq(Bytes) /\ Len(long) = 3 + Len(bridge)
        /\ \A i \in 1 .. 3 + Len(bridge) : long[i] = IF i <= 3 THEN front[i] ELSE bridge[i - 3]
    <3>1. IsConcat(Bytes, long, front, bridge)
      BY <2>1, <2>2, ConcatIs, Zenon
    <3> QED  BY <2>1, <3>1 DEF IsConcat
  <2> HIDE DEF long
  <2>5. head = long \o zero
    BY DEF long, front, zero
  <2>6. head \in Seq(Bytes) /\ Len(head) = Len(long) + 1
        /\ \A i \in 1 .. Len(long) + 1 : head[i] = IF i <= Len(long) THEN long[i] ELSE zero[i - Len(long)]
    <3>1. IsConcat(Bytes, long \o zero, long, zero)
      BY <2>3, <2>4, ConcatIs, Zenon
    <3>2. IsConcat(Bytes, head, long, zero)
      BY <2>5, <3>1, Zenon
    <3> HIDE DEF head
    <3> QED  BY <2>3, <3>2 DEF IsConcat
  <2> HIDE DEF head
  <2>7. CASE Len(bridge) = 0
    <3>1. start = 5 /\ Len(long) = 3
      BY <2>4, <2>7
    <3>2. head[1] = front[1] /\ head[2] = front[2] /\ head[3] = front[3] /\ head[4] = zero[1]
      BY <2>4, <2>6, <2>7, <3>1
    <3> QED  BY <2>1, <2>3, <2>6, <3>1, <3>2
  <2>8. CASE Len(bridge) = 1
    <3>1. start = 6 /\ Len(long) = 4
      BY <2>4, <2>8
    <3>2. head[1] = front[1] /\ head[2] = front[2] /\ head[3] = front[3]
          /\ head[4] = bridge[1] /\ head[5] = zero[1]
      BY <2>4, <2>6, <2>8, <3>1
    <3> QED  BY <2>1, <2>2, <2>3, <2>6, <2>8, <3>1, <3>2
  <2> QED  BY <2>2, <2>7, <2>8
<1>6. l = Sealed(head \o body)
  BY DEF BroadcastLine, body, seqs, Strings
<1> HIDE DEF head, start
<1>7. IsPacket(l, head, body)
  BY <1>3, <1>5, <1>6, PacketIs, Zenon
<1>8. /\ l \in Seq(Bytes) /\ Balanced(l) /\ Len(l) = start + Len(body)
      /\ \A i \in 1 .. start - 1 : l[i] = head[i]
      /\ \A q \in 1 .. Len(body) : l[(start - 1) + q] = body[q]
  BY <1>4, <1>5, <1>7 DEF IsPacket
<1>9. l[1] = 5 /\ l[2] = source /\ l[3] = application /\ Len(l) >= 7
  BY <1>4, <1>5, <1>8
<1>10. FirstCommand(l) = start
  <2>1. CASE start = 5
    <3>1. l[4] = 0
      BY <1>5, <1>8, <2>1
    <3> QED  BY <2>1, <3>1 DEF FirstCommand
  <2>2. CASE start = 6
    <3>1. l[4] = 1 /\ l[5] = 0
      BY <1>5, <1>8, <2>2
    <3> QED  BY <2>2, <3>1 DEF FirstCommand
  <2> QED  BY <1>5, <2>1, <2>2
<1>11. \A i \in 1 .. n + 1 : At(commands, start, i) = start + Before(seqs, i)
  BY DEF At, seqs
<1>12. ASSUME NEW i \in 1 .. n
       PROVE  LET at == At(commands, start, i)
                  bytes == BytesOf(commands[i])
              IN  /\ at \in 5 .. Len(l) - 1 /\ at + Len(bytes) <= Len(l)
                  /\ i < n => At(commands, start, i + 1) = at + Len(bytes)
                  /\ i = n => at + Len(bytes) = Len(l)
                  /\ \A q \in 1 .. Len(bytes) : l[at + q - 1] = bytes[q]
  <2> DEFINE before == Before(seqs, i)
             next == Before(seqs, i + 1)
             at == At(commands, start, i)
             atNext == At(commands, start, i + 1)
             bytes == BytesOf(commands[i])
             len == Len(bytes)
             end == Len(l)
             size == Len(body)
  <2>1. at = start + before /\ atNext = start + next
    BY <1>11
  <2>2. bytes = seqs[i]
    BY <1>1
  <2>3. len \in {2, 3}
    BY <1>1, <2>2
  <2>4. /\ before \in Nat /\ before + len <= size
        /\ i < n => next = before + len
        /\ \A q \in 1 .. len : body[before + q] = bytes[q]
    BY <1>3, <2>2 DEF IsFlat
  <2>5. i = n => size = before + len
    BY <1>3, <2>2 DEF IsFlat
  <2>6. end = start + size /\ size \in Nat /\ start \in {5, 6}
    BY <1>4, <1>5, <1>8
  <2>7. \A q \in 1 .. size : l[(start - 1) + q] = body[q]
    BY <1>8
  <2> HIDE DEF before, next, at, atNext, bytes, len, end, size
  <2>8. at \in 5 .. end - 1 /\ at + len <= end
    BY ONLY <2>1, <2>3, <2>4, <2>6
  <2>9. i < n => atNext = at + len
    BY <2>1, <2>3, <2>4, <2>6
  <2>10. i = n => at + len = end
    BY <2>1, <2>3, <2>4, <2>5, <2>6
  <2>11. \A q \in 1 .. len : l[at + q - 1] = bytes[q]
    <3> TAKE q \in 1 .. len
    <3>1. before + q \in 1 .. size /\ (start - 1) + (before + q) = at + q - 1
      BY <2>1, <2>3, <2>4, <2>6
    <3> QED  BY <2>4, <2>7, <3>1
  <2> QED  BY <2>8, <2>9, <2>10, <2>11 DEF at, atNext, bytes, len, end
<1>13. At(commands, start, 1) = start
  <2>1. Before(seqs, 1) = 0 /\ 1 \in 1 .. n + 1
    BY <1>2, <1>3 DEF IsFlat
  <2> QED  BY <1>5, <1>11, <2>1
<1> QED  BY <1>5, <1>8, <1>9, <1>10, <1>12, <1>13 DEF IsBroadcastLine


-----------------------------------------------------------------------------
(* The inductive invariant.                                                *)

\* A line that nothing has happened to is one of the three kinds of packet, made of
\* what origin says.
AsSent(o, l) ==
  \/ \E source \in Sources, application \in Applications, bridge \in {<<>>, << 1 >>},
        n \in 1 .. MaxCommands : \E commands \in [1 .. n -> UnitCommands] :
       /\ o = [kind |-> "broadcast", source |-> source,
               application |-> application, commands |-> commands]
       /\ l = BroadcastLine(source, application, bridge, commands)
  \/ \E application \in Applications, start \in Starts, block \in Blocks :
       /\ o = [kind |-> "status", application |-> application, start |-> start, block |-> block]
       /\ l = StatusLine(application, start, block)
  \/ \E source \in Sources, application \in Applications, group \in Groups,
        level \in Levels \cup {0, 255}, transition \in Transitions :
       /\ o = [kind |-> "command", source |-> source, application |-> application,
               group |-> group, level |-> level, transition |-> transition]
       /\ l = CommandLine(source, EncodeLightingCommand(application, group, level, transition))

\* The checksum of a line is right until a byte of it is damaged and never after,
\* and the events are those of the line as it was received.
LineInv ==
  /\ damaged \in BOOLEAN
  /\ line = None => ~damaged /\ events = None
  /\ line # None /\ ~damaged => AsSent(origin, line)
  /\ damaged => line = Garbled \/ (line \in Seq(Bytes) /\ ~Balanced(line))
  /\ events # None => events = ParseCniLine(line)

LEMMA SentIsPacket ==
  ASSUME NEW o, NEW l, AsSent(o, l)
  PROVE  l \in Seq(Bytes) /\ Balanced(l) /\ Len(l) >= 2
<1>1. CASE \E source \in Sources, application \in Applications, bridge \in {<<>>, << 1 >>},
              n \in 1 .. MaxCommands : \E commands \in [1 .. n -> UnitCommands] :
             l = BroadcastLine(source, application, bridge, commands)
  <2>1. PICK source \in Sources, application \in Applications, bridge \in {<<>>, << 1 >>},
             n \in 1 .. MaxCommands : \E commands \in [1 .. n -> UnitCommands] :
               l = BroadcastLine(source, application, bridge, commands)
    BY <1>1
  <2>2. PICK commands \in [1 .. n -> UnitCommands] :
               l = BroadcastLine(source, application, bridge, commands)
    BY <2>1
  <2>3. n \in Nat \ {0}
    BY MaxCommandsAssumption
  <2>4. l \in Seq(Bytes) /\ Balanced(l) /\ Len(l) >= 7
    BY <2>2, <2>3, BroadcastLineIs DEF IsBroadcastLine
  <2>5. Len(l) \in Nat
    BY <2>4
  <2> DEFINE k == Len(l)
  <2>6. k \in Nat /\ k >= 7
    BY <2>4, <2>5
  <2> HIDE DEF k
  <2>7. k >= 2
    BY ONLY <2>6
  <2> QED  BY <2>4, <2>7 DEF k
<1>2. CASE \E application \in Applications, start \in Starts, block \in Blocks :
             l = StatusLine(application, start, block)
  <2>1. l \in Seq(Bytes) /\ Balanced(l) /\ Len(l) \in 5 .. 64
    <3>1. PICK application \in Applications, start \in Starts, block \in Blocks :
                 l = StatusLine(application, start, block)
      BY <1>2
    <3>2. IsStatusLine(l, application, start, block)
      BY <3>1, StatusLineIs, Zenon
    <3> QED  BY <3>2, Zenon DEF IsStatusLine
  <2> DEFINE k == Len(l)
  <2>2. k \in 5 .. 64
    BY <2>1
  <2> HIDE DEF k
  <2>3. k >= 2
    BY ONLY <2>2
  <2> QED  BY <2>1, <2>3 DEF k
<1>3. CASE \E source \in Sources, application \in Applications, group \in Groups,
              level \in Levels \cup {0, 255}, transition \in Transitions :
             l = CommandLine(source, EncodeLightingCommand(application, group, level, transition))
  <2>1. PICK source \in Sources, application \in Applications, group \in Groups,
             level \in Levels \cup {0, 255}, transition \in Transitions :
               l = CommandLine(source, EncodeLightingCommand(application, group, level, transition))
    BY <1>3
  <2> DEFINE body == CommandBytes(group, level, transition)
  <2>2. IsCommandLine(l, source, application, body)
    BY <2>1, CommandLineIs
  <2>3. Len(body) \in Nat
    BY CommandBytesAre
  <2> HIDE DEF body
  <2> QED  BY <2>2, <2>3 DEF IsCommandLine
<1> QED  BY <1>1, <1>2, <1>3 DEF AsSent

\* The code behind it: the checksum of parse_cni_line, which is right in every packet
\* that is sent and wrong as soon as one byte is not what it was.
THEOREM LineInvariant == Spec => []LineInv
<1>1. Init => LineInv
  BY DEF Init, LineInv
<1>2. LineInv /\ [Next]_vars => LineInv'
  <2> SUFFICES ASSUME LineInv, [Next]_vars PROVE LineInv'
    OBVIOUS
  <2> USE DEF LineInv
  <2>1. CASE Broadcast
    <3>1. line = None /\ damaged' = FALSE /\ events' = None
      BY <2>1 DEF Broadcast
    <3>2. AsSent(origin, line)'
      <4>1. PICK source \in Sources, application \in Applications, bridge \in {<<>>, << 1 >>},
                 commands \in UNION {[1 .. n -> UnitCommands] : n \in 1 .. MaxCommands} :
              /\ origin' = [kind |-> "broadcast", source |-> source,
                            application |-> application, commands |-> commands]
              /\ line' = BroadcastLine(source, application, bridge, commands)
        BY <2>1, Zenon DEF Broadcast
      <4>2. PICK n \in 1 .. MaxCommands : commands \in [1 .. n -> UnitCommands]
        BY Zenon
      <4>3. AsSent(origin', line')
        BY <4>1, <4>2, Zenon DEF AsSent
      <4> QED  BY <4>3 DEF AsSent
    <3> QED  BY <3>1, <3>2
  <2>2. CASE StatusReply
    <3>1. line = None /\ damaged' = FALSE /\ events' = None
      BY <2>2 DEF StatusReply
    <3>2. AsSent(origin, line)'
      BY <2>2 DEF StatusReply, AsSent
    <3> QED  BY <3>1, <3>2
  <2>3. CASE Commanded
    <3>1. line = None /\ damaged' = FALSE /\ events' = None
      BY <2>3 DEF Commanded
    <3>2. AsSent(origin, line)'
      BY <2>3 DEF Commanded, AsSent
    <3> QED  BY <3>1, <3>2
  <2>4. CASE Damage
    <3>1. AsSent(origin, line) /\ damaged' = TRUE /\ events' = None
      BY <2>4 DEF Damage
    <3>2. line \in Seq(Bytes) /\ Balanced(line)
      BY <3>1, SentIsPacket
    <3>3. line' = Garbled \/ (line' \in Seq(Bytes) /\ ~Balanced(line'))
      <4>1. CASE line' = Garbled
        BY <4>1
      <4>2. CASE \E i \in DOMAIN line, noise \in Noise :
                   line' = [line EXCEPT ![i] = (@ + noise) % 256]
        <5>1. PICK i \in DOMAIN line, noise \in Noise :
                     line' = [line EXCEPT ![i] = (@ + noise) % 256]
          BY <4>2
        <5>2. i \in 1 .. Len(line) /\ noise \in 1 .. 255
          BY <3>2, ByteAssumption
        <5>3. /\ [line EXCEPT ![i] = (@ + noise) % 256] \in Seq(Bytes)
              /\ ~ Balanced([line EXCEPT ![i] = (@ + noise) % 256])
          BY <3>2, <5>2, DamageIsSeen, ZenonT(60)
        <5> QED  BY <5>1, <5>3, Zenon
      <4> QED  BY <2>4, <4>1, <4>2 DEF Damage
    <3>4. line' # None
      BY <3>3, NoneAssumption
    <3> HIDE DEF LineInv
    <3>5. Balanced(line') <=> Balanced(line)'
      BY DEF Balanced, Total
    <3> QED  BY <3>1, <3>3, <3>4, <3>5, Zenon DEF LineInv
  <2>5. CASE HandleLine
    <3>1. UNCHANGED <<origin, line, damaged>> /\ line # None /\ events' = ParseCniLine(line)
      BY <2>5 DEF HandleLine
    <3>2. Balanced(line)' <=> Balanced(line)
      BY <3>1 DEF Balanced, Total
    <3>3. AsSent(origin, line)' <=> AsSent(origin, line)
      BY <3>1 DEF AsSent
    <3> QED  BY <3>1, <3>2, <3>3
  <2>6. CASE UNCHANGED vars
    BY <2>6 DEF vars, AsSent, Balanced, Total
  <2> QED  BY <2>1, <2>2, <2>3, <2>4, <2>5, <2>6 DEF Next
<1> QED  BY <1>1, <1>2, PTL DEF Spec

-----------------------------------------------------------------------------
(* What is heard.                                                          *)

\* The line of what is heard is intact, and what is heard is its packet parsed.
LEMMA HeardPacket ==
  ASSUME LineInv, events # None, ~damaged
  PROVE  AsSent(origin, line) /\ events = ParsePacket(line)
<1>1. AsSent(origin, line) /\ events = ParseCniLine(line)
  BY DEF LineInv
<1>2. line \in Seq(Bytes) /\ Balanced(line) /\ Len(line) >= 2 /\ Len(line) \in Nat
  BY <1>1, SentIsPacket
<1>3. line # Garbled /\ ~ (Len(line) < 2)
  BY <1>2, NoneAssumption
<1>4. ParseCniLine(line) = ParsePacket(line)
  BY <1>2, <1>3, Zenon DEF ParseCniLine, Balanced
<1> QED  BY <1>1, <1>4

\* A line that is damaged on its way, in a byte or in its text, makes no event: the
\* checksum of parse_cni_line.
THEOREM DamagedLinesAreIgnored == Spec => []DamageIgnored
<1>1. LineInv => DamageIgnored
  <2> SUFFICES ASSUME LineInv, damaged, events # None PROVE events = <<>>
    BY DEF DamageIgnored
  <2>1. events = ParseCniLine(line) /\ (line = Garbled \/ ~Balanced(line))
    BY DEF LineInv
  <2>2. CASE line = Garbled
    BY <2>1, <2>2, Zenon DEF ParseCniLine
  <2>3. CASE line # Garbled
    <3>1. ~Balanced(line)
      BY <2>1, <2>3
    <3> QED  BY <2>1, <2>3, <3>1, Zenon DEF ParseCniLine, Balanced
  <2> QED  BY <2>2, <2>3
<1> QED  BY <1>1, LineInvariant, PTL


-----------------------------------------------------------------------------
(* The commands of a packet.                                               *)

\* The events of the commands from each position on: the loop of parse_cni_line.
Decoded(data, start) ==
  CHOOSE from : from = [i \in start .. Len(data) |->
                          IF CommandSize(data, i) = 0 THEN <<>>
                          ELSE <<LevelEvent(data, i)>> \o from[i + CommandSize(data, i)]]

LEMMA CommandSizes ==
  ASSUME NEW data \in Seq(Bytes), NEW i \in Int
  PROVE  /\ CommandSize(data, i) \in {0, 2, 3}
         /\ CommandSize(data, i) # 0 => i + CommandSize(data, i) <= Len(data)
         /\ i + 1 >= Len(data) => CommandSize(data, i) = 0
<1> DEFINE len == Len(data)
           size == CommandSize(data, i)
<1>1. len \in Nat
  OBVIOUS
<1>2. \/ size = 2 /\ i + 1 < len
      \/ size = 3 /\ i + 2 < len
      \/ size = 0
  <2>1. data[i] \in {On, Off} => data[i] \notin RampCodes
    BY RampFacts
  <2>2. CASE data[i] \in {On, Off} /\ i + 1 < Len(data)
    BY <2>1, <2>2 DEF CommandSize
  <2>3. CASE data[i] \in RampCodes /\ i + 2 < Len(data)
    BY <2>1, <2>3 DEF CommandSize
  <2>4. CASE /\ ~ (data[i] \in {On, Off} /\ i + 1 < Len(data))
             /\ ~ (data[i] \in RampCodes /\ i + 2 < Len(data))
    BY <2>4 DEF CommandSize
  <2> QED  BY <2>2, <2>3, <2>4
<1> HIDE DEF len, size
<1>3. size \in {0, 2, 3}
  BY <1>2
<1>4. size # 0 => i + size <= len
  BY <1>1, <1>2
<1>5. i + 1 >= len => size = 0
  BY <1>1, <1>2
<1> QED  BY <1>3, <1>4, <1>5 DEF len, size

LEMMA DecodedExist ==
  ASSUME NEW data \in Seq(Bytes), NEW start \in Nat
  PROVE  \E from : from = [i \in start .. Len(data) |->
                             IF CommandSize(data, i) = 0 THEN <<>>
                             ELSE <<LevelEvent(data, i)>> \o from[i + CommandSize(data, i)]]
<1> DEFINE len == Len(data)
           size(i) == CommandSize(data, i)
           event(i) == LevelEvent(data, i)
           Step(i, f) == IF size(i) = 0 THEN <<>> ELSE <<event(i)>> \o f[i + size(i)]
           P(k) == \E f : \A i \in len - k .. len : f[i] = Step(i, f)
           S == {k \in Nat : P(k)}
<1>1. len \in Nat
  OBVIOUS
<1>2. \A i \in Int : /\ size(i) \in {0, 2, 3}
                     /\ size(i) # 0 => i + size(i) <= len
                     /\ i + 1 >= len => size(i) = 0
  BY CommandSizes
<1> HIDE DEF len, size, event
<1>3. P(0)
  <2> DEFINE f == [i \in len .. len |-> <<>>]
  <2>1. \A i \in len - 0 .. len : i = len /\ size(i) = 0 /\ f[i] = <<>>
    <3> TAKE i \in len - 0 .. len
    <3>1. i = len /\ i \in Int /\ i + 1 >= len
      BY <1>1
    <3> QED  BY <1>2, <3>1
  <2> HIDE DEF f
  <2>2. \A i \in len - 0 .. len : f[i] = Step(i, f)
    BY <2>1
  <2> QED  BY <2>2
<1>4. ASSUME NEW k \in Nat, P(k) PROVE P(k + 1)
  <2>1. PICK f : \A i \in len - k .. len : f[i] = Step(i, f)
    BY <1>4
  <2> DEFINE first == len - (k + 1)
             g == [i \in first .. len |-> IF i = first THEN Step(i, f) ELSE f[i]]
  <2>2. \A i \in first .. len : size(i) # 0 => i + size(i) \in len - k .. len
    <3> TAKE i \in first .. len
    <3> DEFINE s == size(i)
    <3>1. i \in Int /\ i >= len - (k + 1)
      BY <1>1
    <3>2. s \in {0, 2, 3} /\ (s # 0 => i + s <= len)
      BY <1>2, <3>1
    <3> HIDE DEF s
    <3>3. s # 0 => i + s \in len - k .. len
      BY <1>1, <3>1, <3>2
    <3> QED  BY <3>3 DEF s
  <2>3. \A i \in len - k .. len : g[i] = f[i]
    BY <1>1
  <2>4. first \in first .. len /\ g[first] = Step(first, f)
    BY <1>1
  <2>5. \A i \in first .. len : i = first \/ i \in len - k .. len
    BY <1>1
  <2> HIDE DEF first, g
  <2>6. \A i \in first .. len : g[i] = Step(i, f)
    BY <2>1, <2>3, <2>4, <2>5, Zenon
  <2>7. \A i \in first .. len : Step(i, f) = Step(i, g)
    BY <2>2, <2>3
  <2>8. \A i \in first .. len : g[i] = Step(i, g)
    BY <2>6, <2>7, Zenon
  <2> QED  BY <2>8 DEF first
<1>5. 0 \in S /\ \A k \in Nat : k \in S => k + 1 \in S
  <2> HIDE DEF P
  <2> QED  BY <1>3, <1>4
<1>6. Nat \subseteq S
  <2> HIDE DEF S
  <2> QED  BY <1>5, NaturalInduction
<1>7. P(len)
  <2> HIDE DEF P
  <2> QED  BY <1>1, <1>6
<1>8. PICK f : \A i \in len - len .. len : f[i] = Step(i, f)
  BY <1>7
<1> DEFINE h == [i \in start .. len |-> f[i]]
<1>9. \A i \in start .. len : f[i] = Step(i, f) /\ h[i] = f[i]
  <2>1. \A i \in start .. len : i \in len - len .. len
    BY <1>1
  <2> QED  BY <1>8, <2>1
<1>10. \A i \in start .. len : size(i) # 0 => i + size(i) \in start .. len
  <2> TAKE i \in start .. len
  <2> DEFINE s == size(i)
  <2>1. i \in Int /\ i >= start
    BY <1>1
  <2>2. s \in {0, 2, 3} /\ (s # 0 => i + s <= len)
    BY <1>2, <2>1
  <2> HIDE DEF s
  <2>3. s # 0 => i + s \in start .. len
    BY <1>1, <2>1, <2>2
  <2> QED  BY <2>3 DEF s
<1>11. h = [i \in start .. len |-> h[i]]
  OBVIOUS
<1> HIDE DEF h
<1>12. \A i \in start .. len : h[i] = Step(i, h)
  BY <1>9, <1>10
<1>13. h = [i \in start .. len |-> Step(i, h)]
  BY <1>11, <1>12
<1> QED  BY <1>13, Zenon DEF len, size, event

\* The loop, command by command.
LEMMA DecodedSteps ==
  ASSUME NEW data \in Seq(Bytes), NEW start \in Nat
  PROVE  /\ Commands(data, start) = Decoded(data, start)[start]
         /\ \A i \in start .. Len(data) :
              Decoded(data, start)[i] =
                IF CommandSize(data, i) = 0 THEN <<>>
                ELSE <<LevelEvent(data, i)>> \o Decoded(data, start)[i + CommandSize(data, i)]
<1> DEFINE from == Decoded(data, start)
<1>1. Commands(data, start) = from[start]
  BY DEF Commands, Decoded
<1>2. from = [i \in start .. Len(data) |->
                IF CommandSize(data, i) = 0 THEN <<>>
                ELSE <<LevelEvent(data, i)>> \o from[i + CommandSize(data, i)]]
  BY DecodedExist, Zenon DEF Decoded
<1> HIDE DEF from
<1>3. \A i \in start .. Len(data) :
        from[i] = IF CommandSize(data, i) = 0 THEN <<>>
                  ELSE <<LevelEvent(data, i)>> \o from[i + CommandSize(data, i)]
  BY <1>2, Zenon
<1> QED  BY <1>1, <1>3 DEF from

\* The three commands the codec knows.
LEMMA ShortCommand ==
  ASSUME NEW data \in Seq(Bytes), NEW i \in Nat, i + 1 < Len(data), data[i] \in {On, Off}
  PROVE  /\ CommandSize(data, i) = 2
         /\ LevelEvent(data, i).application = data[3] /\ LevelEvent(data, i).source = data[2]
         /\ LevelEvent(data, i).group = data[i + 1]
         /\ data[i] = On => LevelEvent(data, i).level = 255
         /\ data[i] = Off => LevelEvent(data, i).level = 0
         /\ LevelEvent(data, i).on = (LevelEvent(data, i).level > 0)
         /\ LevelEvent(data, i).ramp = None
<1>1. data[i] \notin RampCodes
  BY RampFacts
<1>2. On # Off
  BY DEF On, Off
<1> QED  BY <1>1, <1>2 DEF CommandSize, LevelEvent

LEMMA RampCommand ==
  ASSUME NEW data \in Seq(Bytes), NEW i \in Nat, i + 2 < Len(data), data[i] \in RampCodes
  PROVE  /\ CommandSize(data, i) = 3
         /\ LevelEvent(data, i).application = data[3] /\ LevelEvent(data, i).source = data[2]
         /\ LevelEvent(data, i).group = data[i + 1] /\ LevelEvent(data, i).level = data[i + 2]
         /\ LevelEvent(data, i).on = (LevelEvent(data, i).level > 0)
         /\ LevelEvent(data, i).ramp = RampSeconds[data[i]]
<1>1. data[i] # On /\ data[i] # Off
  BY RampFacts
<1> QED  BY <1>1 DEF CommandSize, LevelEvent


\* A lighting packet is parsed from where its commands start.
LEMMA LightingPacket ==
  ASSUME NEW l \in Seq(Bytes), l[1] = 5, Len(l) >= 7, FirstCommand(l) \in {5, 6}
  PROVE  ParsePacket(l) = Commands(l, FirstCommand(l))
<1>1. ~ (l[1] >= 192) /\ FirstCommand(l) # 0
  OBVIOUS
<1> QED  BY <1>1 DEF ParsePacket

\* The only event of a command, and what it says.
HeardAs(e, application, group, level, transition) ==
  /\ e.application = application /\ e.group = group /\ e.level = level
  /\ \/ transition \in {None, 0} /\ e.ramp = None
     \/ e.ramp = RampSeconds[TransitionToRampCode(transition)]

LEMMA CommandParsed ==
  ASSUME NEW source \in Sources, NEW application \in Applications, NEW group \in Groups,
         NEW level \in Levels \cup {0, 255}, NEW transition \in Transitions,
         NEW l, l = CommandLine(source, EncodeLightingCommand(application, group, level, transition))
  PROVE  /\ ParsePacket(l) = <<LevelEvent(l, 5)>>
         /\ HeardAs(LevelEvent(l, 5), application, group, level, transition)
<1> DEFINE body == CommandBytes(group, level, transition)
           code == TransitionToRampCode(transition)
           e == LevelEvent(l, 5)
           from == Decoded(l, 5)
           n == Len(l)
<1>1. IsCommandLine(l, source, application, body)
  BY CommandLineIs
<1>2. \/ level = 0 /\ transition \in {None, 0} /\ body = <<Off, group>>
      \/ level = 255 /\ transition \in {None, 0} /\ body = <<On, group>>
      \/ body = <<code, group, level>> /\ code \in RampCodes
  BY CommandBytesAre
<1> HIDE DEF body, code
<1>3. /\ l \in Seq(Bytes) /\ l[1] = 5 /\ l[3] = application /\ l[4] = 0
      /\ n = 5 + Len(body) /\ \A q \in 1 .. Len(body) : l[4 + q] = body[q]
  BY <1>1 DEF IsCommandLine
<1>4. Len(body) \in {2, 3}
  BY <1>2
<1>5. n \in {7, 8} /\ n >= 7
  <2> DEFINE k == Len(body)
  <2>1. n = 5 + k /\ k \in {2, 3}
    BY <1>3, <1>4
  <2> HIDE DEF n, k
  <2> QED  BY ONLY <2>1
<1>6. FirstCommand(l) = 5
  BY <1>3 DEF FirstCommand
<1>7. ParsePacket(l) = Commands(l, 5)
  BY <1>3, <1>5, <1>6, LightingPacket
<1>8. /\ Commands(l, 5) = from[5]
      /\ \A i \in 5 .. n : from[i] = IF CommandSize(l, i) = 0 THEN <<>>
                                     ELSE <<LevelEvent(l, i)>> \o from[i + CommandSize(l, i)]
  BY <1>3, DecodedSteps
<1> HIDE DEF from
<1>9. ASSUME CommandSize(l, 5) = Len(body) PROVE ParsePacket(l) = <<e>>
  <2>1. n \in 5 .. n /\ 5 \in 5 .. n /\ n \in Int /\ n + 1 >= n /\ 5 + Len(body) = n
    BY <1>3, <1>4, <1>5
  <2>2. CommandSize(l, n) = 0
    BY <1>3, <2>1, CommandSizes
  <2>3. from[n] = <<>>
    <3>1. n \in 5 .. n
      BY <2>1, Zenon
    <3>2. from[n] = IF CommandSize(l, n) = 0 THEN <<>>
                    ELSE <<LevelEvent(l, n)>> \o from[n + CommandSize(l, n)]
      BY <1>8, <3>1, Zenon
    <3> QED  BY <2>2, <3>2, Zenon
  <2>4. CommandSize(l, 5) # 0 /\ 5 + CommandSize(l, 5) = n
    BY <1>4, <1>9, <2>1
  <2>5. from[5] = <<e>> \o from[n]
    <3>1. from[5] = IF CommandSize(l, 5) = 0 THEN <<>>
                    ELSE <<e>> \o from[5 + CommandSize(l, 5)]
      <4> HIDE DEF n
      <4> QED  BY <1>8, <2>1, Zenon
    <3> HIDE DEF n, e
    <3> QED  BY <2>4, <3>1
  <2> HIDE DEF e
  <2>6. <<e>> \o <<>> = <<e>>
    OBVIOUS
  <2> QED  BY <1>7, <1>8, <2>3, <2>5, <2>6
<1>10. CASE transition \in {None, 0} /\ Len(body) = 2
  <2>1. \/ level = 0 /\ body = <<Off, group>>
        \/ level = 255 /\ body = <<On, group>>
    BY <1>2, <1>10
  <2>2. l[5] = body[1] /\ l[6] = body[2]
    <3>1. l[4 + 1] = body[1] /\ l[4 + 2] = body[2]
      BY <1>3, <1>10
    <3> QED  BY <3>1
  <2>3. l[5] \in {On, Off} /\ l[6] = group /\ (l[5] = On => level = 255) /\ (l[5] = Off => level = 0)
    BY <2>1, <2>2 DEF On, Off
  <2>4. 5 \in Nat /\ 5 + 1 < n /\ 5 + 1 = 6
    BY <1>5
  <2>5. /\ CommandSize(l, 5) = 2 /\ e.application = l[3] /\ e.group = l[5 + 1]
        /\ (l[5] = On => e.level = 255) /\ (l[5] = Off => e.level = 0) /\ e.ramp = None
    BY <1>3, <2>3, <2>4, ShortCommand
  <2> HIDE DEF e
  <2>6. HeardAs(e, application, group, level, transition)
    BY <1>3, <1>10, <2>3, <2>4, <2>5 DEF HeardAs
  <2> QED  BY <1>9, <1>10, <2>5, <2>6 DEF e
<1>11. CASE body = <<code, group, level>> /\ code \in RampCodes
  <2>1. Len(body) = 3 /\ body[1] = code /\ body[2] = group /\ body[3] = level
    BY <1>11
  <2>2. l[5] = code /\ l[6] = group /\ l[7] = level
    <3>1. l[4 + 1] = body[1] /\ l[4 + 2] = body[2] /\ l[4 + 3] = body[3]
      BY <1>3, <2>1
    <3> QED  BY <2>1, <3>1
  <2>3. 5 \in Nat /\ 5 + 2 < n /\ 5 + 1 = 6 /\ 5 + 2 = 7
    BY <1>3, <2>1
  <2>4. /\ CommandSize(l, 5) = 3 /\ e.application = l[3] /\ e.group = l[5 + 1]
        /\ e.level = l[5 + 2] /\ e.ramp = RampSeconds[l[5]]
    BY <1>3, <1>11, <2>2, <2>3, RampCommand
  <2> HIDE DEF e
  <2>5. HeardAs(e, application, group, level, transition)
    BY <1>3, <2>2, <2>3, <2>4 DEF HeardAs, code
  <2> QED  BY <1>9, <2>1, <2>4, <2>5 DEF e
<1>12. body = <<Off, group>> \/ body = <<On, group>> => Len(body) = 2
  OBVIOUS
<1> QED  BY <1>2, <1>10, <1>11, <1>12

\* A command comes back from the bus as what Home Assistant asked for: the path from
\* encode_lighting_command through the packet of the CNI to parse_cni_line.
THEOREM CommandsAreHonoured == Spec => []CommandHonoured
<1>1. ASSUME LineInv, Heard("command") PROVE CommandHonoured
  <2>1. AsSent(origin, line) /\ events = ParsePacket(line) /\ origin.kind = "command"
    BY <1>1, HeardPacket DEF Heard
  <2>2. PICK source \in Sources, application \in Applications, group \in Groups,
             level \in Levels \cup {0, 255}, transition \in Transitions :
          /\ origin = [kind |-> "command", source |-> source, application |-> application,
                       group |-> group, level |-> level, transition |-> transition]
          /\ line = CommandLine(source, EncodeLightingCommand(application, group, level, transition))
    BY <2>1 DEF AsSent
  <2>3. /\ origin.application = application /\ origin.group = group
        /\ origin.level = level /\ origin.transition = transition
    BY <2>2
  <2> DEFINE e == LevelEvent(line, 5)
             code == TransitionToRampCode(transition)
             asked == IF transition = None THEN 0 ELSE transition
             ramp == IF e.ramp = None THEN 0 ELSE e.ramp
             Error(duration) == IF duration < asked THEN asked - duration ELSE duration - asked
  <2>4. events = <<e>> /\ HeardAs(e, application, group, level, transition)
    BY <2>1, <2>2, CommandParsed
  <2> HIDE DEF e
  <2>5. Len(events) = 1 /\ events[1] = e
    BY <2>4
  <2>6. asked \in Nat
    BY ByteAssumption
  <2>7. \A i \in DOMAIN Durations : Durations[i] \in 0 .. 1020
    BY DurationTypes, Zenon
  <2>8. \A i \in DOMAIN Durations : Error(ramp) <= Error(Durations[i])
    <3>1. CASE ramp = 0 /\ asked = 0
      BY <2>7, <3>1, SMTT(30)
    <3>2. CASE transition # None /\ e.ramp = RampSeconds[code]
      <4>1. transition \in Nat /\ asked = transition
        BY <3>2, ByteAssumption
      <4>2. code \in RampCodes
            /\ \A d \in RampCodes : Distance(code, transition) <= Distance(d, transition)
        BY <3>2, <4>1, NearestRamp
      <4>3. \A d \in RampCodes : RampSeconds[d] \in 0 .. 1020
        BY RampFacts
      <4>4. ramp = RampSeconds[code]
        <5>1. RampSeconds[code] \in Nat
          BY <4>2, <4>3, SMTT(30)
        <5> QED  BY <3>2, <5>1, NoneAssumption
      <4>5. \A d \in RampCodes : Distance(d, transition) = Error(RampSeconds[d])
        <5> TAKE d \in RampCodes
        <5> DEFINE x == RampSeconds[d]
                   y == x - transition
        <5>1. Distance(d, transition) = IF y < 0 THEN -y ELSE y
          BY DEF Distance
        <5>2. x \in 0 .. 1020
          BY <4>3
        <5> HIDE DEF x
        <5>3. (IF y < 0 THEN -y ELSE y) = Error(x)
          BY <4>1, <5>2
        <5> QED  BY <5>1, <5>3, Zenon DEF x
      <4>6. \A d \in RampCodes : Error(ramp) <= Error(RampSeconds[d])
        <5>1. Distance(code, transition) = Error(ramp)
          <6> HIDE DEF ramp, Error
          <6> QED  BY <4>2, <4>4, <4>5
        <5> HIDE DEF code, ramp, Error
        <5> QED  BY <4>2, <4>5, <5>1
      <4>7. \A i \in DOMAIN Durations : 8 * i - 6 \in RampCodes /\ RampSeconds[8 * i - 6] = Durations[i]
        BY RampFacts
      <4>8. ASSUME NEW i \in DOMAIN Durations PROVE Error(ramp) <= Error(Durations[i])
        <5>1. PICK d \in RampCodes : RampSeconds[d] = Durations[i]
          BY <4>7
        <5>2. Error(ramp) <= Error(RampSeconds[d])
          BY <4>6
        <5> HIDE DEF ramp, Error
        <5> QED  BY <5>1, <5>2
      <4> HIDE DEF ramp, Error
      <4> QED  BY <4>8
    <3>3. transition = None => code = 2 /\ RampSeconds[code] = 0
      BY RampFacts DEF TransitionToRampCode
    <3>4. (e.ramp = None /\ transition \in {None, 0}) \/ e.ramp = RampSeconds[code]
      BY <2>4 DEF HeardAs
    <3> QED  BY <3>1, <3>2, <3>3, <3>4
  <2> QED  BY <2>3, <2>4, <2>5, <2>8 DEF CommandHonoured, HeardAs
<1>2. LineInv => CommandHonoured
  BY <1>1 DEF CommandHonoured
<1> QED  BY <1>2, LineInvariant, PTL


-----------------------------------------------------------------------------
(* The groups of a status reply.                                           *)

\* A group of which _parse_mmi makes an event.
Shown(data, i) == ~ (data[3] + i - 1 > 255 \/ StateOf(data, i) = 0)

\* The events of the first i groups: the loops of _parse_mmi.
Told(data) ==
  CHOOSE told : told = [i \in 0 .. 4 * (Len(data) - 4) |->
                          IF i = 0 THEN <<>>
                          ELSE IF data[3] + i - 1 > 255 \/ StateOf(data, i) = 0 THEN told[i - 1]
                          ELSE Append(told[i - 1], MmiEvent(data, i))]

LEMMA ToldExist ==
  ASSUME NEW data
  PROVE  \A n \in Nat : \E told : told = [i \in 0 .. n |->
           IF i = 0 THEN <<>>
           ELSE IF data[3] + i - 1 > 255 \/ StateOf(data, i) = 0 THEN told[i - 1]
           ELSE Append(told[i - 1], MmiEvent(data, i))]
<1> DEFINE hidden(i) == data[3] + i - 1 > 255 \/ StateOf(data, i) = 0
           event(i) == MmiEvent(data, i)
           More(i, s) == IF hidden(i) THEN s ELSE Append(s, event(i))
           P(n) == \E told : told = [i \in 0 .. n |-> IF i = 0 THEN <<>> ELSE More(i, told[i - 1])]
           S == {n \in Nat : P(n)}
<1> HIDE DEF hidden, event
<1>1. P(0)
  <2> DEFINE f == [i \in 0 .. 0 |-> <<>>]
  <2>1. f = [i \in 0 .. 0 |-> IF i = 0 THEN <<>> ELSE More(i, f[i - 1])]
    OBVIOUS
  <2> HIDE DEF f
  <2> QED  BY <2>1
<1>2. ASSUME NEW n \in Nat, P(n) PROVE P(n + 1)
  <2> HIDE DEF More
  <2>1. PICK f : f = [i \in 0 .. n |-> IF i = 0 THEN <<>> ELSE More(i, f[i - 1])]
    BY <1>2
  <2> DEFINE last == More(n + 1, f[n])
             g == [i \in 0 .. n + 1 |-> IF i = n + 1 THEN last ELSE f[i]]
  <2>2. \A i \in 0 .. n : f[i] = IF i = 0 THEN <<>> ELSE More(i, f[i - 1])
    BY <2>1
  <2>3. \A i \in 0 .. n + 1 : g[i] = IF i = 0 THEN <<>> ELSE More(i, g[i - 1])
    BY <2>2
  <2>4. g = [i \in 0 .. n + 1 |-> IF i = 0 THEN <<>> ELSE More(i, g[i - 1])]
    <3>1. g = [i \in 0 .. n + 1 |-> g[i]]
      OBVIOUS
    <3> HIDE DEF g
    <3> QED  BY <2>3, <3>1
  <2> HIDE DEF g
  <2> QED  BY <2>4
<1>3. 0 \in S /\ \A n \in Nat : n \in S => n + 1 \in S
  <2> HIDE DEF P
  <2> QED  BY <1>1, <1>2
<1>4. Nat \subseteq S
  <2> HIDE DEF S
  <2> QED  BY <1>3, NaturalInduction
<1>5. \A n \in Nat : P(n)
  <2> HIDE DEF P
  <2> QED  BY <1>4
<1> QED  BY <1>5, Zenon DEF hidden, event

LEMMA ToldSteps ==
  ASSUME NEW data \in Seq(Bytes), Len(data) >= 5
  PROVE  /\ Told(data)[0] = <<>>
         /\ \A i \in 1 .. 4 * (Len(data) - 4) :
              Told(data)[i] = IF Shown(data, i) THEN Append(Told(data)[i - 1], MmiEvent(data, i))
                              ELSE Told(data)[i - 1]
<1> DEFINE told == Told(data)
           n == 4 * (Len(data) - 4)
<1>1. n \in Nat
  OBVIOUS
<1> HIDE DEF n
<1>2. told = [i \in 0 .. n |-> IF i = 0 THEN <<>>
                ELSE IF data[3] + i - 1 > 255 \/ StateOf(data, i) = 0 THEN told[i - 1]
                ELSE Append(told[i - 1], MmiEvent(data, i))]
  BY <1>1, ToldExist, ZenonT(60) DEF Told, n
<1> HIDE DEF told
<1>3. \A i \in 0 .. n : told[i] =
        IF i = 0 THEN <<>>
        ELSE IF data[3] + i - 1 > 255 \/ StateOf(data, i) = 0 THEN told[i - 1]
        ELSE Append(told[i - 1], MmiEvent(data, i))
  BY <1>2, Zenon
<1>4. 0 \in 0 .. n /\ \A i \in 1 .. n : i \in 0 .. n /\ i # 0
  BY <1>1
<1>5. told[0] = <<>>
  BY <1>3, <1>4, Zenon
<1>6. \A i \in 1 .. n : told[i] = IF Shown(data, i) THEN Append(told[i - 1], MmiEvent(data, i))
                                  ELSE told[i - 1]
  BY <1>3, <1>4 DEF Shown
<1> QED  BY <1>5, <1>6 DEF told, n

\* The events of the first i groups: one for each of them that is shown, and no other.
ToldAre(s, data, i) ==
  /\ s \in Seq({MmiEvent(data, j) : j \in 1 .. i})
  /\ \A k \in 1 .. Len(s) : \E j \in 1 .. i : Shown(data, j) /\ s[k] = MmiEvent(data, j)
  /\ \A j \in 1 .. i : Shown(data, j) =>
       \E k \in 1 .. Len(s) : /\ s[k] = MmiEvent(data, j)
                              /\ \A m \in 1 .. Len(s) : s[m].group = data[3] + j - 1 => m = k

LEMMA MmiGroup ==
  ASSUME NEW data, NEW i
  PROVE  MmiEvent(data, i).group = data[3] + i - 1
  BY DEF MmiEvent

LEMMA ToldInvariant ==
  ASSUME NEW data \in Seq(Bytes), Len(data) >= 5
  PROVE  \A i \in 0 .. 4 * (Len(data) - 4) : ToldAre(Told(data)[i], data, i)
<1> DEFINE told == Told(data)
           n == 4 * (Len(data) - 4)
           first == data[3]
           event(i) == MmiEvent(data, i)
           D(i) == {event(j) : j \in 1 .. i}
           Are(s, i) ==
             /\ s \in Seq(D(i))
             /\ \A k \in 1 .. Len(s) : \E j \in 1 .. i : Shown(data, j) /\ s[k] = event(j)
             /\ \A j \in 1 .. i : Shown(data, j) =>
                  \E k \in 1 .. Len(s) : /\ s[k] = event(j)
                                         /\ \A m \in 1 .. Len(s) : s[m].group = first + j - 1 => m = k
           S == {i \in Nat : i <= n => Are(told[i], i)}
<1>1. n \in Nat
  OBVIOUS
<1>2. first \in Int
  <2>1. data[3] \in Bytes
    OBVIOUS
  <2> QED  BY <2>1, RangeByte, ByteRange, Zenon
<1>3. told[0] = <<>> /\ \A i \in 1 .. n : told[i] = IF Shown(data, i) THEN Append(told[i - 1], event(i))
                                                   ELSE told[i - 1]
  BY ToldSteps
<1>4. \A i \in Nat : event(i).group = first + i - 1
  BY MmiGroup
<1> HIDE DEF n, told, first, event
<1>5. 0 \in S
  <2>1. <<>> \in Seq(D(0)) /\ Len(<<>>) = 0
    OBVIOUS
  <2>2. Are(<<>>, 0)
    <3> HIDE DEF D
    <3> QED  BY <2>1
  <2> HIDE DEF Are
  <2> QED  BY <1>1, <1>3, <2>2
<1>6. ASSUME NEW i \in Nat, i \in S PROVE i + 1 \in S
  <2> SUFFICES ASSUME i + 1 <= n PROVE Are(told[i + 1], i + 1)
    OBVIOUS
  <2> DEFINE s == told[i]
  <2>1. i + 1 \in 1 .. n /\ (i + 1) - 1 = i /\ i <= n
    BY <1>1
  <2>2. Are(s, i)
    <3> HIDE DEF Are
    <3> QED  BY <1>6, <2>1
  <2>3. told[i + 1] = IF Shown(data, i + 1) THEN Append(s, event(i + 1)) ELSE s
    BY <1>3, <2>1
  <2>4. D(i) \subseteq D(i + 1) /\ event(i + 1) \in D(i + 1)
    OBVIOUS
  <2> HIDE DEF s, D
  <2>5. s \in Seq(D(i + 1)) /\ Len(s) \in Nat
    BY <2>2, <2>4, SeqMonotonic
  <2>6. \A j \in 1 .. i + 1 : j = i + 1 \/ j \in 1 .. i
    OBVIOUS
  <2>7. \A j \in 1 .. i : j \in 1 .. i + 1
    OBVIOUS
  <2>8. CASE ~ Shown(data, i + 1)
    BY <2>2, <2>3, <2>5, <2>6, <2>7, <2>8
  <2>9. CASE Shown(data, i + 1)
    <3> DEFINE t == Append(s, event(i + 1))
               len == Len(s)
    <3>1. t \in Seq(D(i + 1)) /\ Len(t) = len + 1 /\ t[len + 1] = event(i + 1)
          /\ \A k \in 1 .. len : t[k] = s[k]
      BY <2>4, <2>5
    <3> HIDE DEF t
    <3>2. \A k \in 1 .. len + 1 : k = len + 1 \/ k \in 1 .. len
      BY <2>5
    <3>3. ASSUME NEW k \in 1 .. len + 1
          PROVE  \E j \in 1 .. i + 1 : Shown(data, j) /\ t[k] = event(j)
      <4>1. CASE k = len + 1
        BY <2>9, <3>1, <4>1
      <4>2. CASE k \in 1 .. len
        <5>1. PICK j \in 1 .. i : Shown(data, j) /\ s[k] = event(j)
          BY <2>2, <4>2
        <5> QED  BY <2>7, <3>1, <4>2, <5>1
      <4> QED  BY <3>2, <4>1, <4>2
    <3>4. ASSUME NEW j \in 1 .. i + 1, Shown(data, j)
          PROVE  \E k \in 1 .. len + 1 :
                   /\ t[k] = event(j)
                   /\ \A m \in 1 .. len + 1 : t[m].group = first + j - 1 => m = k
      <4>1. CASE j = i + 1
        <5>1. ASSUME NEW m \in 1 .. len PROVE t[m].group # first + j - 1
          <6>1. PICK h \in 1 .. i : s[m] = event(h)
            BY <2>2
          <6>2. t[m].group = first + h - 1
            <7>1. t[m] = event(h) /\ h \in Nat
              BY <3>1, <6>1
            <7> QED  BY <1>4, <7>1
          <6> QED  BY <1>2, <4>1, <6>2
        <5>2. len + 1 \in 1 .. len + 1
          BY <2>5
        <5>3. \A m \in 1 .. len + 1 : t[m].group = first + j - 1 => m = len + 1
          BY <3>2, <5>1
        <5> QED  BY <3>1, <4>1, <5>2, <5>3
      <4>2. CASE j \in 1 .. i
        <5>1. PICK k \in 1 .. len : /\ s[k] = event(j)
                                    /\ \A m \in 1 .. len : s[m].group = first + j - 1 => m = k
          BY <2>2, <3>4, <4>2
        <5>2. event(i + 1).group = first + (i + 1) - 1
          BY <1>4
        <5>3. first + (i + 1) - 1 # first + j - 1
          BY <1>2, <4>2
        <5>4. \A m \in 1 .. len + 1 : t[m].group = first + j - 1 => m = k
          BY <3>1, <3>2, <5>1, <5>2, <5>3
        <5>5. k \in 1 .. len + 1 /\ t[k] = event(j)
          BY <2>5, <3>1, <5>1
        <5> QED  BY <5>4, <5>5
      <4> QED  BY <2>6, <4>1, <4>2
    <3>5. Are(t, i + 1)
      BY <3>1, <3>3, <3>4
    <3> HIDE DEF Are
    <3> QED  BY <2>3, <2>9, <3>5 DEF t
  <2> QED  BY <2>8, <2>9
<1>7. Nat \subseteq S
  <2> HIDE DEF S
  <2> QED  BY <1>5, <1>6, NaturalInduction
<1>8. \A i \in 0 .. n : Are(told[i], i)
  <2> HIDE DEF Are
  <2>1. \A i \in 0 .. n : i \in Nat /\ i <= n
    BY <1>1
  <2> QED  BY <1>7, <2>1
<1>9. \A s, i : Are(s, i) = ToldAre(s, data, i)
  BY DEF ToldAre, event, first
<1> HIDE DEF Are
<1> QED  BY <1>8, <1>9 DEF told, n


\* The events of a status line are those of all its groups.
LEMMA StatusParsed ==
  ASSUME NEW application \in Applications, NEW start \in Starts, NEW block \in Blocks,
         NEW l, l = StatusLine(application, start, block)
  PROVE  ToldAre(ParsePacket(l), l, Len(block))
<1>1. /\ l \in Seq(Bytes) /\ Len(block) = 4 * (Len(l) - 4) /\ Len(l) \in 5 .. 64
      /\ l[1] - 192 = Len(l) - 1 /\ l[1] >= 192 /\ Len(block) \in 4 .. 240
  <2>1. IsStatusLine(l, application, start, block)
    BY StatusLineIs, Zenon
  <2> QED  BY <2>1, Zenon DEF IsStatusLine
<1>2. ~ (l[1] - 192 # Len(l) - 1 \/ Len(l) < 5) /\ Len(l) >= 5
  <2> DEFINE k == Len(l)
  <2>1. k \in 5 .. 64 /\ l[1] - 192 = k - 1
    BY <1>1
  <2> HIDE DEF k
  <2>2. ~ (k < 5) /\ k >= 5
    BY ONLY <2>1
  <2> QED  BY <2>1, <2>2 DEF k
<1>3. ParsePacket(l) = ParseMmi(l)
  BY <1>1 DEF ParsePacket
<1>4. ParseMmi(l) = Told(l)[4 * (Len(l) - 4)]
  BY <1>2, Zenon DEF ParseMmi, Told
<1>5. Len(block) \in 0 .. 4 * (Len(l) - 4)
  BY <1>1
<1> QED  BY <1>1, <1>2, <1>3, <1>4, <1>5, ToldInvariant

\* A status reply says of every group what the network said of it: the loops of
\* _parse_mmi over the bytes of the reply and the four groups of each.
THEOREM StatusIsExact == Spec => []StatusExact
<1>1. ASSUME LineInv, Heard("status") PROVE StatusExact
  <2>1. AsSent(origin, line) /\ events = ParsePacket(line) /\ origin.kind = "status"
    BY <1>1, HeardPacket DEF Heard
  <2>2. PICK application \in Applications, start \in Starts, block \in Blocks :
          /\ origin = [kind |-> "status", application |-> application,
                       start |-> start, block |-> block]
          /\ line = StatusLine(application, start, block)
    BY <2>1 DEF AsSent
  <2>3. origin.application = application /\ origin.start = start /\ origin.block = block
    BY <2>2
  <2>4. ToldAre(events, line, Len(block))
    BY <2>1, <2>2, StatusParsed
  <2> DEFINE n == Len(block)
  <2>5. /\ line[2] = application /\ line[3] = start
        /\ \A i \in 1 .. n : block[i] \in 0 .. 3 /\ StateOf(line, i) = block[i]
    <3>1. IsStatusLine(line, application, start, block)
      BY <2>2, StatusLineIs, Zenon
    <3> QED  BY <3>1, Zenon DEF IsStatusLine
  <2>6. n \in Nat /\ DOMAIN block = 1 .. n
    BY BlockAssumption
  <2>7. start \in 0 .. 255
    <3>1. start \in Bytes
      BY ByteAssumption
    <3> QED  BY <3>1, ByteRange, Zenon
  <2> HIDE DEF n
  <2>8. /\ \A k \in 1 .. Len(events) : \E j \in 1 .. n : Shown(line, j) /\ events[k] = MmiEvent(line, j)
        /\ \A j \in 1 .. n : Shown(line, j) =>
             \E k \in 1 .. Len(events) :
               /\ events[k] = MmiEvent(line, j)
               /\ \A m \in 1 .. Len(events) : events[m].group = line[3] + j - 1 => m = k
    BY <2>4, Zenon DEF ToldAre, n
  <2>9. DOMAIN events = 1 .. Len(events)
    BY <2>4 DEF ToldAre
  <2>10. \A j \in 1 .. n : Shown(line, j) <=> start + j - 1 <= 255 /\ block[j] # 0
    BY <2>5, <2>6, <2>7 DEF Shown
  <2>11. ASSUME NEW g \in Bytes
         PROVE  LET told == {k \in DOMAIN events : events[k].group = g}
                    i == g - origin.start + 1
                IN  IF i \in DOMAIN origin.block /\ origin.block[i] # 0
                    THEN \E k \in told :
                           /\ told = {k} /\ events[k].application = origin.application
                           /\ events[k].on = CASE origin.block[i] = 1 -> TRUE
                                               [] origin.block[i] = 2 -> FALSE
                                               [] OTHER -> None
                           /\ events[k].level = IF origin.block[i] = 2 THEN 0 ELSE None
                    ELSE told = {}
    <3> DEFINE told == {k \in DOMAIN events : events[k].group = g}
               i == g - start + 1
    <3>1. g \in 0 .. 255
      BY ByteRange, Zenon
    <3>2. i \in Int /\ start + i - 1 = g
      BY <2>7, <3>1
    <3> HIDE DEF i
    <3>3. ASSUME NEW k \in told PROVE i \in 1 .. n /\ block[i] # 0
      <4>1. PICK j \in 1 .. n : Shown(line, j) /\ events[k] = MmiEvent(line, j)
        BY <2>8, <2>9
      <4>2. g = start + j - 1
        BY <2>5, <4>1, MmiGroup
      <4>3. i = j
        BY <2>6, <2>7, <3>2, <4>2
      <4> QED  BY <2>10, <4>1, <4>3
    <3>4. ASSUME i \in 1 .. n, block[i] # 0
          PROVE  \E k \in told :
                   /\ told = {k} /\ events[k].application = application
                   /\ events[k].on = CASE block[i] = 1 -> TRUE
                                       [] block[i] = 2 -> FALSE
                                       [] OTHER -> None
                   /\ events[k].level = IF block[i] = 2 THEN 0 ELSE None
      <4>1. Shown(line, i)
        BY <2>10, <3>1, <3>2, <3>4
      <4>2. PICK k \in 1 .. Len(events) :
              /\ events[k] = MmiEvent(line, i)
              /\ \A m \in 1 .. Len(events) : events[m].group = line[3] + i - 1 => m = k
        BY <2>8, <3>4, <4>1
      <4>3. line[3] + i - 1 = g
        BY <2>5, <3>2
      <4>4. events[k].group = g
        BY <4>2, <4>3, MmiGroup
      <4>5. told = {k} /\ k \in told
        BY <2>9, <4>2, <4>3, <4>4
      <4> HIDE DEF told
      <4> DEFINE e == MmiEvent(line, i)
      <4>6. e.application = application
        BY <2>5 DEF MmiEvent
      <4>7. /\ e.level = IF block[i] = 2 THEN 0 ELSE None
            /\ e.on = IF block[i] = 1 THEN TRUE ELSE IF block[i] = 2 THEN FALSE ELSE None
        <5>1. StateOf(line, i) = block[i]
          BY <2>5, <3>4
        <5>2. /\ e.level = IF StateOf(line, i) = 2 THEN 0 ELSE None
              /\ e.on = IF StateOf(line, i) = 1 THEN TRUE
                        ELSE IF StateOf(line, i) = 2 THEN FALSE ELSE None
          BY Zenon DEF MmiEvent
        <5> HIDE DEF e
        <5> QED  BY <5>1, <5>2, Zenon
      <4> HIDE DEF e
      <4>8. e.on = CASE block[i] = 1 -> TRUE [] block[i] = 2 -> FALSE [] OTHER -> None
        <5>1. CASE block[i] = 1
          BY <4>7, <5>1
        <5>2. CASE block[i] = 2
          BY <4>7, <5>2
        <5>3. CASE block[i] # 1 /\ block[i] # 2
          BY <4>7, <5>3
        <5> QED  BY <5>1, <5>2, <5>3
      <4>9. events[k] = e
        BY <4>2 DEF e
      <4> QED  BY <4>5, <4>6, <4>7, <4>8, <4>9, Zenon
    <3> HIDE DEF told
    <3>5. i = g - origin.start + 1 /\ DOMAIN origin.block = 1 .. n
      BY <2>3, <2>6 DEF i
    <3>6. ~ (i \in 1 .. n /\ block[i] # 0) => told = {}
      BY <3>3, Zenon
    <3> HIDE DEF i
    <3>7. IF i \in DOMAIN origin.block /\ origin.block[i] # 0
          THEN \E k \in told :
                 /\ told = {k} /\ events[k].application = origin.application
                 /\ events[k].on = CASE origin.block[i] = 1 -> TRUE
                                     [] origin.block[i] = 2 -> FALSE
                                     [] OTHER -> None
                 /\ events[k].level = IF origin.block[i] = 2 THEN 0 ELSE None
          ELSE told = {}
      BY <2>3, <3>4, <3>5, <3>6
    <3> QED  BY <3>5, <3>7 DEF told
  <2> QED  BY <2>11 DEF StatusExact
<1>2. LineInv => StatusExact
  BY <1>1 DEF StatusExact
<1> QED  BY <1>2, LineInvariant, PTL


-----------------------------------------------------------------------------
(* The commands of a broadcast.                                            *)

\* What is told of a command of a unit.
EventOf(e, source, application, c) ==
  /\ e.source = source /\ e.application = application /\ e.group = c.group
  /\ e.level = CASE c.op = On  -> 255
                 [] c.op = Off -> 0
                 [] OTHER -> c.level
  /\ e.on <=> e.level > 0

\* A command is read at its position whatever stands behind it, unless the codec does
\* not know it.
LEMMA UnitCommandParsed ==
  ASSUME NEW data \in Seq(Bytes), NEW i \in Nat, NEW c \in UnitCommands,
         i + Len(BytesOf(c)) <= Len(data),
         \A q \in 1 .. Len(BytesOf(c)) : data[i + q - 1] = BytesOf(c)[q]
  PROVE  /\ c.op = Terminate => CommandSize(data, i) = 0
         /\ c.op # Terminate => /\ CommandSize(data, i) = Len(BytesOf(c))
                                /\ EventOf(LevelEvent(data, i), data[2], data[3], c)
<1> DEFINE bytes == BytesOf(c)
           len == Len(data)
           e == LevelEvent(data, i)
<1>1. \/ /\ c.op \in {On, Off, Terminate} /\ c.op \notin RampCodes
         /\ bytes = <<c.op, c.group>> /\ Len(bytes) = 2
      \/ /\ c.op \in RampCodes /\ c.op \notin {On, Off, Terminate}
         /\ bytes = <<c.op, c.group, c.level>> /\ Len(bytes) = 3
  BY UnitCommandBytes
<1>2. i + Len(bytes) <= len /\ len \in Nat
      /\ \A q \in 1 .. Len(bytes) : data[i + q - 1] = bytes[q]
  OBVIOUS
<1>3. On # Off /\ On # Terminate /\ Off # Terminate
  BY DEF On, Off, Terminate
<1> HIDE DEF bytes, len
<1>4. CASE c.op \in {On, Off, Terminate} /\ c.op \notin RampCodes
  <2>1. bytes = <<c.op, c.group>> /\ Len(bytes) = 2
    BY <1>1, <1>4
  <2>2. data[i + 1 - 1] = bytes[1] /\ data[i + 2 - 1] = bytes[2]
    BY <1>2, <2>1
  <2>3. i + 1 - 1 = i /\ i + 2 - 1 = i + 1 /\ i + 1 < len
    BY <1>2, <2>1
  <2>4. data[i] = c.op /\ data[i + 1] = c.group
    BY <2>1, <2>2, <2>3
  <2>5. CASE c.op = Terminate
    <3>1. data[i] \notin {On, Off} /\ data[i] \notin RampCodes
      BY <1>3, <1>4, <2>4, <2>5
    <3> QED  BY <2>5, <3>1 DEF CommandSize
  <2>6. CASE c.op \in {On, Off}
    <3>1. /\ CommandSize(data, i) = 2
          /\ e.application = data[3] /\ e.source = data[2] /\ e.group = data[i + 1]
          /\ data[i] = On => e.level = 255
          /\ data[i] = Off => e.level = 0
          /\ e.on = (e.level > 0)
      BY <2>3, <2>4, <2>6, ShortCommand DEF len
    <3> HIDE DEF e
    <3>2. e.level = CASE c.op = On -> 255 [] c.op = Off -> 0 [] OTHER -> c.level
      <4>1. CASE c.op = On
        BY <1>3, <2>4, <3>1, <4>1
      <4>2. CASE c.op = Off
        BY <1>3, <2>4, <3>1, <4>2
      <4> QED  BY <2>6, <4>1, <4>2
    <3>3. EventOf(e, data[2], data[3], c)
      BY <2>4, <3>1, <3>2 DEF EventOf
    <3> QED  BY <1>3, <2>1, <2>6, <3>1, <3>3 DEF bytes, e
  <2> QED  BY <1>4, <2>5, <2>6
<1>5. CASE c.op \in RampCodes /\ c.op \notin {On, Off, Terminate}
  <2>1. bytes = <<c.op, c.group, c.level>> /\ Len(bytes) = 3
    BY <1>1, <1>5
  <2>2. data[i + 1 - 1] = bytes[1] /\ data[i + 2 - 1] = bytes[2] /\ data[i + 3 - 1] = bytes[3]
    BY <1>2, <2>1
  <2>3. i + 1 - 1 = i /\ i + 2 - 1 = i + 1 /\ i + 3 - 1 = i + 2 /\ i + 2 < len
    BY <1>2, <2>1
  <2>4. data[i] = c.op /\ data[i + 1] = c.group /\ data[i + 2] = c.level
    BY <2>1, <2>2, <2>3
  <2>5. /\ CommandSize(data, i) = 3
        /\ e.application = data[3] /\ e.source = data[2]
        /\ e.group = data[i + 1] /\ e.level = data[i + 2]
        /\ e.on = (e.level > 0)
    BY <1>5, <2>3, <2>4, RampCommand DEF len
  <2> HIDE DEF e
  <2>6. e.level = CASE c.op = On -> 255 [] c.op = Off -> 0 [] OTHER -> c.level
    BY <1>5, <2>4, <2>5
  <2>7. EventOf(e, data[2], data[3], c)
    BY <2>4, <2>5, <2>6 DEF EventOf
  <2> QED  BY <1>5, <2>1, <2>5, <2>7 DEF bytes, e
<1> QED  BY <1>1, <1>4, <1>5

IsList(list, K, E) == Len(list) = K /\ \A i \in 1 .. K : list[i] = E[i]

\* A list that is built from its end, one element at a time.
LEMMA BuiltBackwards ==
  ASSUME NEW K \in Nat, NEW D, NEW E \in [1 .. K -> D], NEW F,
         F[K + 1] = <<>>, \A i \in 1 .. K : F[i] = <<E[i]>> \o F[i + 1]
  PROVE  IsList(F[1], K, E)
<1> DEFINE Behind(i) == /\ F[i] \in Seq(D) /\ Len(F[i]) = K + 1 - i
                      /\ \A q \in 1 .. K + 1 - i : F[i][q] = E[i + q - 1]
           S == {k \in Nat : k <= K => Behind(K + 1 - k)}
<1>1. 0 \in S
  <2>1. <<>> \in Seq(D) /\ Len(<<>>) = 0
    OBVIOUS
  <2>2. K + 1 - 0 = K + 1 /\ K + 1 - (K + 1) = 0
    OBVIOUS
  <2>3. Behind(K + 1)
    BY <2>1, <2>2
  <2> HIDE DEF Behind
  <2> QED  BY <2>2, <2>3
<1>2. ASSUME NEW k \in Nat, k \in S PROVE k + 1 \in S
  <2> HIDE DEF Behind
  <2> SUFFICES ASSUME k + 1 <= K PROVE Behind(K + 1 - (k + 1))
    OBVIOUS
  <2> DEFINE i == K + 1 - (k + 1)
             rest == F[i + 1]
             head == <<E[i]>>
  <2>0. K \in Nat /\ k \in Nat /\ k + 1 <= K
    OBVIOUS
  <2>1. i \in 1 .. K /\ i + 1 = K + 1 - k /\ K + 1 - (i + 1) = k /\ K + 1 - i = k + 1
    BY ONLY <2>0
  <2>2. Behind(K + 1 - k)
    BY <1>2, <2>0
  <2> USE DEF Behind
  <2> HIDE DEF i
  <2>3. rest \in Seq(D) /\ Len(rest) = k /\ \A q \in 1 .. k : rest[q] = E[(i + 1) + q - 1]
    BY <2>1, <2>2
  <2>4. E[i] \in D /\ F[i] = head \o rest
    BY <2>1
  <2>5. head \in Seq(D) /\ Len(head) = 1 /\ head[1] = E[i]
    BY <2>4
  <2> HIDE DEF head, rest
  <2>6. /\ F[i] \in Seq(D) /\ Len(F[i]) = 1 + k
        /\ \A q \in 1 .. 1 + k : F[i][q] = IF q <= 1 THEN head[q] ELSE rest[q - 1]
    <3>1. IsConcat(D, head \o rest, head, rest)
      BY <2>3, <2>5, ConcatIs, Zenon
    <3> QED  BY <2>3, <2>4, <2>5, <3>1 DEF IsConcat
  <2>7. ASSUME NEW q \in 1 .. k + 1 PROVE F[i][q] = E[i + q - 1]
    <3>1. CASE q = 1
      <4>1. i + q - 1 = i
        BY <2>1, <3>1
      <4> QED  BY <2>5, <2>6, <3>1, <4>1
    <3>2. CASE q # 1
      <4>1. q - 1 \in 1 .. k /\ (i + 1) + (q - 1) - 1 = i + q - 1 /\ ~ (q <= 1)
        BY <2>1, <3>2
      <4>2. F[i][q] = rest[q - 1]
        BY <2>6, <4>1
      <4>3. rest[q - 1] = E[(i + 1) + (q - 1) - 1]
        BY <2>3, <4>1
      <4> QED  BY <4>1, <4>2, <4>3
    <3> QED  BY <3>1, <3>2
  <2>8. Behind(i)
    BY <2>1, <2>6, <2>7
  <2> QED  BY <2>8 DEF i
<1>3. K \in S
  <2> HIDE DEF S
  <2> QED  BY <1>1, <1>2, NaturalInduction
<1>4. Behind(1)
  <2>1. K + 1 - K = 1
    OBVIOUS
  <2> HIDE DEF Behind
  <2> QED  BY <1>3, <2>1
<1> QED
  <2>1. K + 1 - 1 = K /\ \A q \in 1 .. K : 1 + q - 1 = q
    OBVIOUS
  <2> QED  BY <1>4, <2>1 DEF IsList


\* The commands before the first that the codec does not know.
Known(commands) ==
  LET stop == SelectInSeq(commands, LAMBDA c : c.op = Terminate)
  IN  IF stop = 0 THEN commands ELSE SubSeq(commands, 1, stop - 1)

LEMMA KnownCommands ==
  ASSUME NEW n \in Nat, NEW commands \in [1 .. n -> UnitCommands]
  PROVE  /\ Len(Known(commands)) \in 0 .. n
         /\ DOMAIN Known(commands) = 1 .. Len(Known(commands))
         /\ \A i \in 1 .. Len(Known(commands)) :
              Known(commands)[i] = commands[i] /\ commands[i].op # Terminate
         /\ Len(Known(commands)) < n => commands[Len(Known(commands)) + 1].op = Terminate
<1> DEFINE I == {i \in 1 .. n : commands[i].op = Terminate}
           stop == SelectInSeq(commands, LAMBDA c : c.op = Terminate)
           known == Known(commands)
<1>1. Len(commands) = n /\ commands \in Seq(UnitCommands) /\ DOMAIN commands = 1 .. n
  OBVIOUS
<1>2. stop = IF I # {} THEN Min(I) ELSE 0
  BY <1>1 DEF SelectInSeq
<1>3. known = IF stop = 0 THEN commands ELSE SubSeq(commands, 1, stop - 1)
  BY DEF Known
<1> HIDE DEF stop, known
<1>4. CASE I = {}
  <2>1. known = commands
    BY <1>2, <1>3, <1>4
  <2>2. \A i \in 1 .. n : commands[i].op # Terminate
    BY <1>4
  <2>3. Len(known) = n /\ DOMAIN known = 1 .. n /\ n \in 0 .. n /\ ~ (n < n)
    BY <1>1, <2>1
  <2> QED  BY <2>1, <2>2, <2>3 DEF known
<1>5. CASE I # {}
  <2>1. I \subseteq Nat
    OBVIOUS
  <2>2. \E m \in I : \A j \in I : m <= j
    <3> HIDE DEF I
    <3> QED  BY <1>5, <2>1, LeastNatural
  <2>3. Min(I) \in I /\ \A j \in I : Min(I) <= j
    <3> HIDE DEF I
    <3> QED  BY <2>2, Zenon DEF Min
  <2>4. stop \in I /\ \A j \in I : stop <= j
    BY <1>2, <1>5, <2>3
  <2> HIDE DEF I
  <2>5. stop \in 1 .. n /\ commands[stop].op = Terminate
    BY <2>4 DEF I
  <2>6. stop - 1 \in 0 .. n /\ (stop - 1) + 1 = stop
    BY <2>5
  <2>7. \A i \in 1 .. stop - 1 : i \in 1 .. n /\ commands[i].op # Terminate
    <3> TAKE i \in 1 .. stop - 1
    <3>1. i \in 1 .. n /\ ~ (stop <= i)
      BY <2>5
    <3> QED  BY <2>4, <3>1 DEF I
  <2>8. known = SubSeq(commands, 1, stop - 1)
    BY <1>3, <2>5
  <2>9. Len(known) = stop - 1 /\ DOMAIN known = 1 .. stop - 1
        /\ \A i \in 1 .. stop - 1 : known[i] = commands[i]
    BY <1>1, <2>5, <2>8
  <2> QED  BY <2>5, <2>6, <2>7, <2>9 DEF known
<1> QED  BY <1>4, <1>5

\* The events of a broadcast are those of its known commands.
LEMMA BroadcastParsed ==
  ASSUME NEW source \in Sources, NEW application \in Applications, NEW bridge \in {<<>>, << 1 >>},
         NEW n \in Nat \ {0}, NEW commands \in [1 .. n -> UnitCommands],
         NEW l, l = BroadcastLine(source, application, bridge, commands)
  PROVE  /\ Len(ParsePacket(l)) = Len(Known(commands))
         /\ \A i \in 1 .. Len(Known(commands)) :
              EventOf(ParsePacket(l)[i], source, application, commands[i])
<1> DEFINE start == FirstCommand(l)
           len == Len(l)
           at(i) == At(commands, start, i)
           pos(i) == IF i = n + 1 THEN len ELSE at(i)
           size(i) == Len(BytesOf(commands[i]))
           from == Decoded(l, start)
           K == Len(Known(commands))
           E == [i \in 1 .. K |-> LevelEvent(l, pos(i))]
           F == [i \in 1 .. K + 1 |-> from[pos(i)]]
           D == {LevelEvent(l, pos(i)) : i \in 1 .. K}
<1>0. IsBroadcastLine(l, source, application, n, commands)
  BY BroadcastLineIs
<1>1. /\ l \in Seq(Bytes) /\ len >= 7
      /\ l[1] = 5 /\ l[2] = source /\ l[3] = application
      /\ start \in {5, 6} /\ at(1) = start
  BY <1>0, Zenon DEF IsBroadcastLine
<1>2. \A i \in 1 .. n : /\ at(i) \in 5 .. len - 1 /\ at(i) + size(i) <= len
                        /\ i < n => at(i + 1) = at(i) + size(i)
                        /\ i = n => at(i) + size(i) = len
                        /\ \A q \in 1 .. size(i) : l[at(i) + q - 1] = BytesOf(commands[i])[q]
  BY <1>0, Zenon DEF IsBroadcastLine
<1>3. /\ K \in 0 .. n
      /\ \A i \in 1 .. K : commands[i].op # Terminate
      /\ K < n => commands[K + 1].op = Terminate
  BY KnownCommands
<1>4. ParsePacket(l) = from[start]
      /\ \A i \in start .. len :
           from[i] = IF CommandSize(l, i) = 0 THEN <<>>
                     ELSE <<LevelEvent(l, i)>> \o from[i + CommandSize(l, i)]
  <2>1. start \in Nat
    BY <1>1
  <2> HIDE DEF start
  <2>2. ParsePacket(l) = Commands(l, start)
    BY <1>1, LightingPacket DEF start
  <2> QED  BY <1>1, <2>1, <2>2, DecodedSteps
<1>5. \A i \in 1 .. n : size(i) \in {2, 3} /\ commands[i] \in UnitCommands
  BY UnitCommandBytes
<1>6. len \in Nat
  BY <1>1
<1>7. \A i \in 1 .. n : /\ commands[i].op = Terminate => CommandSize(l, at(i)) = 0
                        /\ commands[i].op # Terminate =>
                             /\ CommandSize(l, at(i)) = size(i)
                             /\ EventOf(LevelEvent(l, at(i)), l[2], l[3], commands[i])
  <2> TAKE i \in 1 .. n
  <2> DEFINE p == at(i)
             c == commands[i]
  <2>1. p \in Nat /\ c \in UnitCommands /\ p + Len(BytesOf(c)) <= Len(l)
        /\ \A q \in 1 .. Len(BytesOf(c)) : l[p + q - 1] = BytesOf(c)[q]
    <3>1. \A k \in 5 .. len - 1 : k \in Nat
      BY <1>6
    <3> QED  BY <1>2, <1>5, <3>1, Zenon
  <2> HIDE DEF p, c
  <2>2. /\ c.op = Terminate => CommandSize(l, p) = 0
        /\ c.op # Terminate => /\ CommandSize(l, p) = Len(BytesOf(c))
                               /\ EventOf(LevelEvent(l, p), l[2], l[3], c)
    BY <1>1, <2>1, UnitCommandParsed
  <2> QED  BY <2>2 DEF p, c
<1>8. CommandSize(l, len) = 0
  <2>1. len \in Int /\ len + 1 >= len
    BY <1>6
  <2> QED  BY <1>1, <2>1, CommandSizes
<1> HIDE DEF at, size, len, from, K
<1>9. ASSUME NEW i \in 1 .. n
      PROVE  at(i) \in start .. len /\ at(i) >= start
  <2> DEFINE S == {k \in Nat : k + 1 <= n => at(k + 1) >= start}
  <2>1. 0 \in S
    BY <1>1
  <2>2. ASSUME NEW k \in Nat, k \in S PROVE k + 1 \in S
    <3> SUFFICES ASSUME k + 2 <= n PROVE at(k + 2) >= start
      OBVIOUS
    <3>1. k + 1 \in 1 .. n /\ k + 1 < n /\ (k + 1) + 1 = k + 2
      OBVIOUS
    <3>2. at(k + 2) = at(k + 1) + size(k + 1) /\ at(k + 1) >= start /\ at(k + 1) \in 5 .. len - 1
      BY <1>2, <2>2, <3>1
    <3>3. size(k + 1) \in {2, 3}
      BY <1>5, <3>1
    <3> QED  BY <1>1, <1>6, <3>2, <3>3
  <2> HIDE DEF S
  <2>3. Nat \subseteq S
    BY <2>1, <2>2, NaturalInduction
  <2>4. i - 1 \in Nat /\ (i - 1) + 1 = i /\ i <= n
    OBVIOUS
  <2>5. at(i) >= start
    BY <2>3, <2>4 DEF S
  <2>6. at(i) \in 5 .. len - 1
    BY <1>2
  <2> QED  BY <1>1, <1>6, <2>5, <2>6
<1>10. K \in Nat /\ K <= n
  BY <1>3
<1>11. \A i \in 1 .. K : i \in 1 .. n /\ pos(i) = at(i)
  BY <1>10
<1>12. F[K + 1] = <<>>
  <2>1. F[K + 1] = from[pos(K + 1)]
    BY <1>10
  <2>2. CASE K = n
    <3>1. pos(K + 1) = len /\ len \in start .. len
      BY <1>1, <1>6, <2>2
    <3> QED  BY <1>4, <1>8, <2>1, <3>1
  <2>3. CASE K < n
    <3>1. K + 1 \in 1 .. n /\ K + 1 # n + 1
      BY <1>10, <2>3
    <3>2. pos(K + 1) = at(K + 1) /\ CommandSize(l, at(K + 1)) = 0
      BY <1>3, <1>7, <2>3, <3>1
    <3> QED  BY <1>4, <1>9, <2>1, <3>1, <3>2
  <2> QED  BY <1>10, <2>2, <2>3
<1>13. ASSUME NEW i \in 1 .. K PROVE F[i] = <<E[i]>> \o F[i + 1]
  <2>1. i \in 1 .. n /\ pos(i) = at(i) /\ commands[i].op # Terminate
    BY <1>3, <1>11
  <2>2. CommandSize(l, at(i)) = size(i) /\ size(i) # 0
    BY <1>5, <1>7, <2>1
  <2>3. at(i) + size(i) = pos(i + 1)
    <3>1. CASE i = n
      BY <1>2, <2>1, <3>1
    <3>2. CASE i # n
      BY <1>2, <2>1, <3>2
    <3> QED  BY <3>1, <3>2
  <2>4. from[at(i)] = <<LevelEvent(l, at(i))>> \o from[at(i) + size(i)]
    BY <1>4, <1>9, <2>1, <2>2
  <2>5. F[i] = from[at(i)] /\ F[i + 1] = from[pos(i + 1)] /\ E[i] = LevelEvent(l, at(i))
    BY <1>10, <2>1
  <2> HIDE DEF E, F, pos
  <2> QED  BY <2>3, <2>4, <2>5
<1>14. E \in [1 .. K -> D]
  OBVIOUS
<1>15. F[1] = ParsePacket(l)
  <2>1. 1 \in 1 .. K + 1 /\ 1 \in 1 .. n /\ 1 # n + 1
    BY <1>10
  <2>2. pos(1) = start
    BY <1>1, <2>1
  <2> QED  BY <1>4, <2>1, <2>2
<1>16. \A i \in 1 .. K : EventOf(E[i], source, application, commands[i])
  <2> TAKE i \in 1 .. K
  <2>1. E[i] = LevelEvent(l, at(i)) /\ i \in 1 .. n /\ commands[i].op # Terminate
    BY <1>3, <1>11
  <2> HIDE DEF E
  <2> QED  BY <1>1, <1>7, <2>1
<1> HIDE DEF E, F, D
<1>17. Len(F[1]) = K /\ \A i \in 1 .. K : F[1][i] = E[i]
  <2>1. IsList(F[1], K, E)
    BY <1>10, <1>12, <1>13, <1>14, BuiltBackwards, Zenon
  <2> QED  BY <2>1 DEF IsList
<1> QED  BY <1>15, <1>16, <1>17 DEF K

\* A broadcast is decoded into its commands: the loop of parse_cni_line over the bytes
\* behind the header, with or without a bridge.
THEOREM BroadcastsAreExact == Spec => []BroadcastExact
<1>1. ASSUME LineInv, Heard("broadcast") PROVE BroadcastExact
  <2>1. AsSent(origin, line) /\ events = ParsePacket(line) /\ origin.kind = "broadcast"
    BY <1>1, HeardPacket DEF Heard
  <2>2. PICK source \in Sources, application \in Applications, bridge \in {<<>>, << 1 >>},
             n \in 1 .. MaxCommands : \E commands \in [1 .. n -> UnitCommands] :
          /\ origin = [kind |-> "broadcast", source |-> source,
                       application |-> application, commands |-> commands]
          /\ line = BroadcastLine(source, application, bridge, commands)
    BY <2>1 DEF AsSent
  <2>3. PICK commands \in [1 .. n -> UnitCommands] :
          /\ origin = [kind |-> "broadcast", source |-> source,
                       application |-> application, commands |-> commands]
          /\ line = BroadcastLine(source, application, bridge, commands)
    BY <2>2
  <2>4. /\ origin.source = source /\ origin.application = application
        /\ origin.commands = commands
    BY <2>3
  <2>5. n \in Nat /\ n \in Nat \ {0}
    BY MaxCommandsAssumption
  <2> DEFINE known == Known(commands)
  <2>6. DOMAIN known = 1 .. Len(known) /\ \A i \in 1 .. Len(known) : known[i] = commands[i]
    BY <2>5, KnownCommands
  <2>7. Len(events) = Len(known)
        /\ \A i \in 1 .. Len(known) : EventOf(events[i], source, application, commands[i])
    BY <2>1, <2>3, <2>5, BroadcastParsed
  <2> HIDE DEF known
  <2>8. \A i \in DOMAIN known : EventOf(events[i], source, application, known[i])
    BY <2>6, <2>7
  <2>9. /\ Len(events) = Len(known)
        /\ \A i \in DOMAIN known :
             /\ events[i].source = origin.source
             /\ events[i].application = origin.application
             /\ events[i].group = known[i].group
             /\ events[i].level = CASE known[i].op = On  -> 255
                                    [] known[i].op = Off -> 0
                                    [] OTHER -> known[i].level
             /\ events[i].on <=> events[i].level > 0
    BY <2>4, <2>7, <2>8 DEF EventOf
  <2>10. known = LET stop == SelectInSeq(origin.commands, LAMBDA c : c.op = Terminate)
                 IN  IF stop = 0 THEN origin.commands ELSE SubSeq(origin.commands, 1, stop - 1)
    BY <2>4 DEF known, Known
  <2> QED  BY <2>9, <2>10, ZenonT(60) DEF BroadcastExact
<1>2. LineInv => BroadcastExact
  BY <1>1 DEF BroadcastExact
<1> QED  BY <1>2, LineInvariant, PTL
=============================================================================
