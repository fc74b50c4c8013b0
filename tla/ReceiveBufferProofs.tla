------------------------ MODULE ReceiveBufferProofs ------------------------
(***************************************************************************)
(* Theorems of ReceiveBuffer, for any replies and however TCP cuts the     *)
(* stream.                                                                 *)
(***************************************************************************)
EXTENDS ReceiveBuffer, Induction, SequenceTheorems, TLAPS

-----------------------------------------------------------------------------
(* The operators of the loop.                                              *)

LEMMA LeastIs ==
  ASSUME NEW I, I \subseteq Int, NEW m \in I, \A i \in I : m <= i
  PROVE  Min(I) = m
<1> DEFINE IsLeast(x) == x \in I /\ \A i \in I : x <= i
<1>1. IsLeast(m)
  OBVIOUS
<1>2. \A x : IsLeast(x) => x = m
  OBVIOUS
<1> QED  BY <1>1, <1>2 DEF Min

LEMMA GreatestIs ==
  ASSUME NEW I, I \subseteq Int, NEW m \in I, \A i \in I : i <= m
  PROVE  Max(I) = m
<1> DEFINE IsGreatest(x) == x \in I /\ \A i \in I : i <= x
<1>1. IsGreatest(m)
  OBVIOUS
<1>2. \A x : IsGreatest(x) => x = m
  OBVIOUS
<1> QED  BY <1>1, <1>2 DEF Max

LEMMA SkipNothing ==
  ASSUME NEW b \in Seq(Bytes), \A i \in 1 .. Len(b) : b[i] \in EolBytes
  PROVE  SkipEol(b) = <<>>
<1> DEFINE I == {i \in 1 .. Len(b) : b[i] \notin EolBytes}
<1>1. I = {}
  OBVIOUS
<1> QED  BY <1>1 DEF SkipEol, SelectInSeq

LEMMA SkipTo ==
  ASSUME NEW b \in Seq(Bytes), NEW m \in 1 .. Len(b), b[m] \notin EolBytes,
         \A i \in 1 .. m - 1 : b[i] \in EolBytes
  PROVE  SkipEol(b) = SubSeq(b, m, Len(b))
<1> DEFINE I == {i \in 1 .. Len(b) : b[i] \notin EolBytes}
<1>1. m \in I /\ I \subseteq Int /\ \A i \in I : m <= i
  OBVIOUS
<1>2. Min(I) = m
  <2> HIDE DEF I
  <2> QED  BY <1>1, LeastIs
<1>3. SelectInSeq(b, LAMBDA x : x \notin EolBytes) = IF I # {} THEN Min(I) ELSE 0
  BY DEF SelectInSeq
<1>4. SelectInSeq(b, LAMBDA x : x \notin EolBytes) = m /\ m # 0
  BY <1>1, <1>2, <1>3
<1> QED  BY <1>4 DEF SkipEol

LEMMA CrAt ==
  ASSUME NEW b \in Seq(Bytes), NEW m \in 1 .. Len(b), b[m] = "CR",
         \A i \in 1 .. m - 1 : b[i] # "CR"
  PROVE  CrPosition(b) = m
<1> DEFINE I == {i \in 1 .. Len(b) : b[i] = "CR"}
<1>1. m \in I /\ I \subseteq Int /\ \A i \in I : m <= i
  OBVIOUS
<1>2. Min(I) = m
  <2> HIDE DEF I
  <2> QED  BY <1>1, LeastIs
<1>3. CrPosition(b) = IF I # {} THEN Min(I) ELSE 0
  BY DEF SelectInSeq, CrPosition
<1> QED  BY <1>1, <1>2, <1>3

LEMMA NoCr ==
  ASSUME NEW b \in Seq(Bytes)
  PROVE  CrPosition(b) = 0 <=> \A i \in 1 .. Len(b) : b[i] # "CR"
<1> DEFINE I == {i \in 1 .. Len(b) : b[i] = "CR"}
<1>1. CrPosition(b) = IF I # {} THEN Min(I) ELSE 0
  BY DEF SelectInSeq, CrPosition
<1>2. CASE I = {}
  BY <1>1, <1>2
<1>3. CASE I # {}
  <2>1. I \subseteq Nat /\ I \subseteq Int /\ 0 \notin I
    OBVIOUS
  <2>2. PICK m \in I : \A i \in I : m <= i
    <3> HIDE DEF I
    <3> QED  BY <1>3, <2>1, LeastNatural
  <2>3. Min(I) = m /\ m # 0
    <3> HIDE DEF I
    <3> QED  BY <2>1, <2>2, LeastIs
  <2> QED  BY <1>1, <1>3, <2>3
<1> QED  BY <1>2, <1>3

LEMMA FirstBytes ==
  ASSUME NEW s \in Seq(Bytes), NEW m \in Nat, m <= Len(s)
  PROVE  /\ SubSeq(s, 1, m) \in Seq(Bytes) /\ Len(SubSeq(s, 1, m)) = m
         /\ \A i \in 1 .. m : SubSeq(s, 1, m)[i] = s[i]
OBVIOUS

LEMMA LineIs ==
  ASSUME NEW b \in Seq(Bytes), NEW m \in Nat, m > 0, CrPosition(b) = m + 1, m <= Len(b),
         \A i \in 1 .. m : b[i] # "LF"
  PROVE  Line(b) = SubSeq(b, 1, m)
<1> DEFINE raw == SubSeq(b, 1, m)
           I == {i \in 1 .. Len(raw) : raw[i] # "LF"}
<1>1. Len(raw) = m /\ \A i \in 1 .. m : raw[i] = b[i]
  OBVIOUS
<1>2. m \in I /\ I \subseteq Int /\ \A i \in I : i <= m
  BY <1>1
<1>3. Max(I) = m
  <2> HIDE DEF I
  <2> QED  BY <1>2, GreatestIs
<1>4. SelectLastInSeq(raw, LAMBDA x : x # "LF") = IF I # {} THEN Max(I) ELSE 0
  BY DEF SelectLastInSeq
<1>5. SelectLastInSeq(raw, LAMBDA x : x # "LF") = m
  BY <1>2, <1>3, <1>4
<1>6. Line(b) = SubSeq(raw, 1, SelectLastInSeq(raw, LAMBDA x : x # "LF"))
  <2>1. CrPosition(b) - 1 = m
    OBVIOUS
  <2> QED  BY <2>1, Zenon DEF Line
<1>7. SubSeq(raw, 1, m) = raw
  BY <1>1
<1> QED  BY <1>5, <1>6, <1>7

-----------------------------------------------------------------------------
(* The stream.  Everything the CNI has sent on a connection is one stream  *)
(* t of bytes, in which cut[i] is the place of the last byte of the i-th   *)
(* line.                                                                   *)

IsConfirmation(line) == \E t \in TagBytes, r \in ResultBytes : line = <<t, r>>

\* A line of the stream, with its terminator, takes the places from + 1 .. to.
Holds(t, from, to, line) ==
  \/ IsConfirmation(line) /\ to = from + 2 /\ t[from + 1] = line[1] /\ t[to] = line[2]
  \/ /\ line \in Bodies
     /\ \A j \in 1 .. Len(line) : t[from + j] = line[j]
     /\ t[from + Len(line) + 1] = "CR"
     /\ to = from + Len(line) + 1 \/ (to = from + Len(line) + 2 /\ t[to] = "LF")

Framed(t, cut, lines) ==
  /\ t \in Seq(Bytes)
  /\ cut \in [0 .. Len(lines) -> 0 .. Len(t)]
  /\ cut[Len(lines)] = Len(t)
  /\ \A i \in 1 .. Len(lines) : Holds(t, cut[i - 1], cut[i], lines[i])

\* d bytes of the stream are gone, k lines: all of them but perhaps an LF.
At(t, cut, k, d) == d = cut[k] \/ (d + 1 = cut[k] /\ t[cut[k]] = "LF")

\* The bytes r are the stream's from place d + 1.
Window(r, t, d) ==
  /\ r \in Seq(Bytes) /\ d \in Nat
  /\ d + Len(r) <= Len(t)
  /\ \A j \in 1 .. Len(r) : r[j] = t[d + j]

\* q is what is left of r from its place m on.
IsTail(q, r, t, d, m) == Window(q, t, d + m - 1) /\ Len(q) = Len(r) - m + 1

LEMMA WindowTail ==
  ASSUME NEW t \in Seq(Bytes), NEW r, NEW d, Window(r, t, d), NEW m \in 1 .. Len(r) + 1
  PROVE  IsTail(SubSeq(r, m, Len(r)), r, t, d, m)
<1> DEFINE q == SubSeq(r, m, Len(r))
           n == Len(r)
<1>1. r \in Seq(Bytes) /\ d \in Nat /\ n \in Nat /\ d + n <= Len(t)
      /\ \A j \in 1 .. n : r[j] = t[d + j]
  BY DEF Window
<1>2. q \in Seq(Bytes) /\ Len(q) = n - m + 1 /\ \A j \in 1 .. n - m + 1 : q[j] = r[m + j - 1]
  BY <1>1
<1> HIDE DEF q, n
<1>3. \A j \in 1 .. Len(q) : q[j] = t[(d + m - 1) + j]
  <2> TAKE j \in 1 .. Len(q)
  <2>1. m + j - 1 \in 1 .. n /\ d + (m + j - 1) = (d + m - 1) + j
    BY <1>1, <1>2 DEF n
  <2> QED  BY <1>1, <1>2, <2>1
<1>4. d + m - 1 \in Nat /\ (d + m - 1) + Len(q) <= Len(t)
  BY <1>1, <1>2 DEF n
<1> QED  BY <1>2, <1>3, <1>4 DEF Window, IsTail, q, n

\* A line starts with no terminator.
LEMMA LineStarts ==
  ASSUME NEW t \in Seq(Bytes), NEW from \in Nat, NEW to \in Nat, NEW line,
         Holds(t, from, to, line)
  PROVE  t[from + 1] \notin EolBytes /\ from + 2 <= to
<1>1. CASE IsConfirmation(line)
           /\ to = from + 2 /\ t[from + 1] = line[1] /\ t[to] = line[2]
  <2>1. line[1] \in TagBytes
    BY <1>1 DEF IsConfirmation
  <2> QED  BY <1>1, <2>1 DEF TagBytes, EolBytes
<1>2. CASE /\ line \in Bodies
           /\ \A j \in 1 .. Len(line) : t[from + j] = line[j]
           /\ t[from + Len(line) + 1] = "CR"
           /\ to = from + Len(line) + 1 \/ (to = from + Len(line) + 2 /\ t[to] = "LF")
  <2>1. line \in Seq(Bytes \ EolBytes) /\ Len(line) \in Nat /\ Len(line) > 0 /\ line[1] = "0"
    BY <1>2, BodiesAssumption
  <2>2. t[from + 1] = "0"
    BY <1>2, <2>1
  <2> QED  BY <1>2, <2>1, <2>2 DEF EolBytes
<1> QED  BY <1>1, <1>2 DEF Holds

\* What SkipEol leaves starts at the next line.
LEMMA SkipFinds ==
  ASSUME NEW t, NEW cut, NEW lines \in Seq(Seq(Bytes)), Framed(t, cut, lines),
         NEW k \in 0 .. Len(lines), NEW d, NEW r, Window(r, t, d), At(t, cut, k, d)
  PROVE  \E e \in Nat :
           /\ Window(SkipEol(r), t, e) /\ e + Len(SkipEol(r)) = d + Len(r)
           /\ d <= e /\ At(t, cut, k, e)
           /\ Len(SkipEol(r)) > 0 =>
                e = cut[k] /\ k < Len(lines) /\ SkipEol(r)[1] \notin EolBytes
<1> DEFINE n == Len(r)
           last == Len(lines)
<1>1. r \in Seq(Bytes) /\ d \in Nat /\ n \in Nat /\ d + n <= Len(t)
      /\ \A j \in 1 .. n : r[j] = t[d + j]
  BY DEF Window
<1>2. t \in Seq(Bytes) /\ cut \in [0 .. last -> 0 .. Len(t)] /\ cut[last] = Len(t)
      /\ \A i \in 1 .. last : Holds(t, cut[i - 1], cut[i], lines[i])
  BY DEF Framed
<1>3. last \in Nat /\ Len(t) \in Nat
  BY <1>2
<1> HIDE DEF n, last
<1>4. cut[k] \in Nat /\ cut[k] <= Len(t)
  BY <1>2, <1>3 DEF last
<1>5. cut[k] < Len(t) => k < last /\ t[cut[k] + 1] \notin EolBytes
  <2> SUFFICES ASSUME cut[k] < Len(t) PROVE k < last /\ t[cut[k] + 1] \notin EolBytes
    OBVIOUS
  <2>1. k < last
    BY <1>2, <1>3, <1>4 DEF last
  <2>2. k + 1 \in 1 .. last /\ (k + 1) - 1 = k /\ cut[k + 1] \in Nat
    <3>1. k + 1 \in 0 .. last /\ k + 1 \in 1 .. last /\ (k + 1) - 1 = k
      BY <1>3, <2>1 DEF last
    <3>2. cut[k + 1] \in 0 .. Len(t)
      BY <1>2, <3>1
    <3> QED  BY <1>3, <3>1, <3>2
  <2>3. Holds(t, cut[k], cut[k + 1], lines[k + 1])
    BY <1>2, <2>2
  <2>4. t[cut[k] + 1] \notin EolBytes
    BY <1>2, <1>4, <2>2, <2>3, LineStarts
  <2> QED  BY <2>1, <2>4
<1>6. CASE n = 0
  <2>1. SkipEol(r) = <<>>
    <3>1. \A i \in 1 .. Len(r) : r[i] \in EolBytes
      BY <1>6 DEF n
    <3> QED  BY <1>1, <3>1, SkipNothing
  <2>2. Window(<<>>, t, d)
    BY <1>1, <1>3 DEF Window
  <2> QED  BY <1>1, <1>6, <2>1, <2>2 DEF n
<1>7. CASE n > 0 /\ d = cut[k]
  <2>1. d < Len(t) /\ r[1] \notin EolBytes
    BY <1>1, <1>3, <1>5, <1>7
  <2>2. SkipEol(r) = SubSeq(r, 1, Len(r))
    <3>1. 1 \in 1 .. Len(r)
      BY <1>1, <1>7 DEF n
    <3> QED  BY <1>1, <2>1, <3>1, SkipTo
  <2>3. SubSeq(r, 1, Len(r)) = r
    BY <1>1
  <2>4. d <= d
    BY <1>1
  <2> QED  BY <1>1, <1>5, <1>7, <2>1, <2>2, <2>3, <2>4 DEF n, last
<1>8. CASE n > 0 /\ d + 1 = cut[k] /\ t[cut[k]] = "LF"
  <2>1. r[1] \in EolBytes
    BY <1>1, <1>8 DEF EolBytes
  <2>2. CASE n = 1
    <3>1. SkipEol(r) = <<>>
      BY <1>1, <2>1, <2>2, SkipNothing DEF n
    <3>2. Window(<<>>, t, d + 1)
      BY <1>1, <1>3, <2>2 DEF Window
    <3> QED  BY <1>1, <1>8, <2>2, <3>1, <3>2 DEF n, At
  <2>3. CASE n > 1
    <3>1. r[2] = t[cut[k] + 1] /\ cut[k] < Len(t)
      BY <1>1, <1>3, <1>4, <1>8, <2>3
    <3>2. SkipEol(r) = SubSeq(r, 2, Len(r))
      <4>1. 2 \in 1 .. Len(r) /\ \A i \in 1 .. 2 - 1 : r[i] \in EolBytes
        BY <1>1, <2>1, <2>3 DEF n
      <4> QED  BY <1>1, <1>5, <3>1, <4>1, SkipTo
    <3>3. Window(SkipEol(r), t, d + 1) /\ Len(SkipEol(r)) = n - 1
      <4>1. 2 \in 1 .. Len(r) + 1
        BY <1>1, <2>3 DEF n
      <4>2. Window(SkipEol(r), t, d + 2 - 1) /\ Len(SkipEol(r)) = Len(r) - 2 + 1
        <5>1. IsTail(SubSeq(r, 2, Len(r)), r, t, d, 2)
          BY <1>2, <4>1, WindowTail, Zenon
        <5> QED  BY <3>2, <5>1 DEF IsTail
      <4>3. d + 2 - 1 = d + 1 /\ Len(r) - 2 + 1 = n - 1
        BY <1>1 DEF n
      <4> QED  BY <4>2, <4>3
    <3>4. SkipEol(r)[1] = r[2]
      BY <1>1, <2>3, <3>2 DEF n
    <3> QED  BY <1>1, <1>5, <1>8, <2>3, <3>1, <3>3, <3>4 DEF n, last, At
  <2> QED  BY <1>1, <1>8, <2>2, <2>3
<1> QED  BY <1>1, <1>6, <1>7, <1>8 DEF At

-----------------------------------------------------------------------------
(* The loop.  What Consume leaves is stuck: the loop would leave it alone. *)

Stuck(r) ==
  /\ Len(r) > 0 => r[1] \notin EolBytes
  /\ ~StartsWithConfirmation(r)
  /\ Undecided(r) \/ CrPosition(r) = 0

LEMMA PassOnStuck ==
  ASSUME NEW state, state.rest \in Seq(Bytes), Stuck(state.rest)
  PROVE  Pass(state) = [lines |-> state.lines, rest |-> state.rest]
<1> DEFINE r == state.rest
<1>1. SkipEol(r) = r
  <2>1. CASE Len(r) = 0
    <3>1. r = <<>> /\ \A i \in 1 .. Len(r) : r[i] \in EolBytes
      BY <2>1
    <3>2. SkipEol(r) = <<>>
      BY <3>1, SkipNothing
    <3> QED  BY <3>1, <3>2
  <2>2. CASE Len(r) > 0
    <3>1. 1 \in 1 .. Len(r) /\ r[1] \notin EolBytes /\ SubSeq(r, 1, Len(r)) = r
      BY <2>2 DEF Stuck
    <3>2. SkipEol(r) = SubSeq(r, 1, Len(r))
      BY <3>1, SkipTo
    <3> QED  BY <3>1, <3>2
  <2>3. Len(r) \in Nat
    OBVIOUS
  <2> HIDE DEF r
  <2> QED  BY <2>1, <2>2, <2>3
<1>2. ~StartsWithConfirmation(r) /\ ~(~Undecided(r) /\ CrPosition(r) > 0)
  BY DEF Stuck
<1> HIDE DEF r
<1> QED  BY <1>1, <1>2 DEF Pass, r

\* A pass takes r to q, from place d of the stream to e, and adds to the lines
\* handled: nothing, or the next line.
Advances(t, cut, lines, k, r, d, handledLines, result) ==
  \E e \in Nat, j \in {k, k + 1} :
    /\ j <= Len(lines) /\ Window(result.rest, t, e) /\ At(t, cut, j, e)
    /\ e + Len(result.rest) = d + Len(r)
    /\ result.lines = IF j = k THEN handledLines ELSE Append(handledLines, lines[k + 1])
    /\ Stuck(result.rest) \/ Len(result.rest) < Len(r)


\* The three outcomes of a pass.
LEMMA PassIs ==
  ASSUME NEW state, NEW q, q = SkipEol(state.rest)
  PROVE  /\ StartsWithConfirmation(q) =>
              Pass(state) = [lines |-> Append(state.lines, SubSeq(q, 1, 2)),
                             rest  |-> SubSeq(q, 3, Len(q))]
         /\ ~StartsWithConfirmation(q) /\ ~Undecided(q) /\ CrPosition(q) > 0 =>
              Pass(state) = [lines |-> Append(state.lines, Line(q)),
                             rest  |-> SubSeq(q, CrPosition(q) + 1, Len(q))]
         /\ ~StartsWithConfirmation(q) /\ (Undecided(q) \/ CrPosition(q) = 0) =>
              Pass(state) = [lines |-> state.lines, rest |-> q]
<1>1. 2 + 1 = 3 /\ (CrPosition(q) = 0 => ~(CrPosition(q) > 0))
  OBVIOUS
<1> QED  BY <1>1 DEF Pass

LEMMA PassAdvances ==
  ASSUME NEW t, NEW cut, NEW lines \in Seq(Seq(Bytes)), Framed(t, cut, lines),
         NEW k \in 0 .. Len(lines), NEW d, NEW state, Window(state.rest, t, d),
         At(t, cut, k, d)
  PROVE  Advances(t, cut, lines, k, state.rest, d, state.lines, Pass(state))
<1> DEFINE r == state.rest
           q == SkipEol(r)
           n == Len(q)
           last == Len(lines)
           line == lines[k + 1]
<1>1. PICK e \in Nat :
        /\ Window(q, t, e) /\ e + n = d + Len(r)
        /\ d <= e /\ At(t, cut, k, e)
        /\ n > 0 => e = cut[k] /\ k < last /\ q[1] \notin EolBytes
  <2>1. Window(r, t, d)
    OBVIOUS
  <2> QED  BY <2>1, SkipFinds, Zenon
<1>2. /\ r \in Seq(Bytes) /\ q \in Seq(Bytes) /\ n \in Nat /\ Len(r) \in Nat /\ d \in Nat
      /\ e + n <= Len(t) /\ \A j \in 1 .. n : q[j] = t[e + j]
  BY <1>1 DEF Window
<1>3. t \in Seq(Bytes) /\ cut \in [0 .. last -> 0 .. Len(t)] /\ cut[last] = Len(t)
      /\ \A i \in 1 .. last : Holds(t, cut[i - 1], cut[i], lines[i])
  BY DEF Framed
<1>4. last \in Nat /\ Len(t) \in Nat /\ k \in 0 .. last
  BY <1>3
<1>5. q = SkipEol(state.rest) /\ Window(q, t, e) /\ r = state.rest
  BY <1>1
<1> HIDE DEF r, q, n, last, line
<1>6. n <= Len(r)
  BY <1>1, <1>2
<1>7. ASSUME Pass(state) = [lines |-> state.lines, rest |-> q], Stuck(q)
      PROVE  Advances(t, cut, lines, k, r, d, state.lines, Pass(state))
  BY <1>1, <1>4, <1>7 DEF Advances, n, last
<1>8. ASSUME NEW m \in Nat, m > 0, m <= n, k < last,
             Pass(state) = [lines |-> Append(state.lines, line), rest |-> SubSeq(q, m + 1, Len(q))],
             At(t, cut, k + 1, e + m)
      PROVE  Advances(t, cut, lines, k, r, d, state.lines, Pass(state))
  <2>1. m + 1 \in 1 .. Len(q) + 1
    BY <1>2, <1>8, SMTT(30) DEF n
  <2>2. IsTail(SubSeq(q, m + 1, Len(q)), q, t, e, m + 1)
    BY <1>3, <1>5, <2>1, WindowTail, Zenon
  <2>3. e + (m + 1) - 1 = e + m /\ Len(q) - (m + 1) + 1 = n - m /\ e + m \in Nat
    BY <1>2, <1>8 DEF n
  <2> DEFINE tail == SubSeq(q, m + 1, Len(q))
  <2>4. Window(tail, t, e + m) /\ Len(tail) = n - m
    BY <2>2, <2>3 DEF IsTail
  <2>5. Pass(state).rest = tail /\ Pass(state).lines = Append(state.lines, line)
    BY <1>8
  <2> HIDE DEF tail
  <2>6. k + 1 <= last /\ k + 1 # k /\ (e + m) + (n - m) = d + Len(r) /\ n - m < Len(r)
    <3> DEFINE size == Len(r)
    <3>1. size \in Nat /\ e + n = d + size /\ n <= size
      BY <1>1, <1>2, <1>6
    <3>2. n \in Nat /\ d \in Nat
      BY <1>2
    <3> HIDE DEF size
    <3>3. (e + m) + (n - m) = d + size /\ n - m < size
      BY <1>8, <3>1, <3>2
    <3>4. k + 1 <= last /\ k + 1 # k
      BY <1>4, <1>8
    <3> QED  BY <3>3, <3>4 DEF size
  <2> QED  BY <1>8, <2>3, <2>4, <2>5, <2>6 DEF Advances, last, line
<1>9. CASE n = 0
  <2>1. q = <<>>
    BY <1>2, <1>9 DEF n
  <2>2. CrPosition(q) = 0
    <3>1. \A i \in 1 .. Len(q) : q[i] # "CR"
      BY <1>9 DEF n
    <3> QED  BY <1>2, <3>1, NoCr
  <2>3. ~StartsWithConfirmation(q) /\ Stuck(q)
    BY <1>9, <2>2 DEF n, StartsWithConfirmation, Stuck
  <2>4. Pass(state) = [lines |-> state.lines, rest |-> q]
    BY <1>5, <2>2, <2>3, PassIs
  <2> QED  BY <1>7, <2>3, <2>4 DEF r
<1>10. CASE n > 0
  <2>1. e = cut[k] /\ k < last /\ q[1] \notin EolBytes
    BY <1>1, <1>10
  <2>2. cut[k + 1] \in Nat /\ Holds(t, e, cut[k + 1], line)
    <3>1. k + 1 \in 0 .. last /\ k + 1 \in 1 .. last /\ (k + 1) - 1 = k
      BY <1>4, <2>1
    <3>2. cut[k + 1] \in 0 .. Len(t) /\ Holds(t, cut[k], cut[k + 1], lines[k + 1])
      BY <1>3, <3>1
    <3> QED  BY <1>4, <2>1, <3>2 DEF line
  <2>3. CASE /\ IsConfirmation(line) /\ cut[k + 1] = e + 2
             /\ t[e + 1] = line[1] /\ t[cut[k + 1]] = line[2]
    <3>1. PICK x \in TagBytes, y \in ResultBytes : line = <<x, y>>
      BY <2>3 DEF IsConfirmation
    <3>2. q[1] = x
      BY <1>2, <1>10, <2>3, <3>1
    <3>3. CASE n = 1
      <4>1. Undecided(q) /\ ~StartsWithConfirmation(q)
        BY <3>2, <3>3 DEF Undecided, StartsWithConfirmation, n
      <4>2. Pass(state) = [lines |-> state.lines, rest |-> q]
        BY <1>5, <4>1, PassIs
      <4>3. Stuck(q)
        BY <2>1, <4>1 DEF Stuck
      <4> QED  BY <1>7, <4>2, <4>3 DEF r
    <3>4. CASE n >= 2
      <4>1. q[2] = y
        BY <1>2, <2>3, <3>1, <3>4
      <4>2. StartsWithConfirmation(q)
        BY <3>2, <3>4, <4>1 DEF StartsWithConfirmation, n
      <4>3. SubSeq(q, 1, 2) = line
        <5>1. /\ SubSeq(q, 1, 2) \in Seq(Bytes) /\ Len(SubSeq(q, 1, 2)) = 2
              /\ \A i \in 1 .. 2 : SubSeq(q, 1, 2)[i] = q[i]
          <6>1. 2 \in Nat /\ 2 <= Len(q)
            BY <3>4 DEF n
          <6> QED  BY <1>2, <6>1, FirstBytes, Zenon
        <5> DEFINE s == SubSeq(q, 1, 2)
        <5>2. s \in Seq(Bytes) /\ Len(s) = 2 /\ s[1] = x /\ s[2] = y
          BY <3>2, <4>1, <5>1
        <5> HIDE DEF s
        <5>3. s = <<x, y>>
          BY <5>2
        <5> QED  BY <3>1, <5>3 DEF s
      <4>4. Pass(state) = [lines |-> Append(state.lines, line), rest |-> SubSeq(q, 2 + 1, Len(q))]
        <5>1. Pass(state) = [lines |-> Append(state.lines, SubSeq(q, 1, 2)),
                             rest  |-> SubSeq(q, 3, Len(q))]
          BY <1>5, <4>2, PassIs, Zenon
        <5>2. 2 + 1 = 3
          OBVIOUS
        <5> QED  BY <4>3, <5>1, <5>2
      <4>5. At(t, cut, k + 1, e + 2)
        BY <2>3 DEF At
      <4>6. 2 \in Nat /\ 2 > 0 /\ 2 <= n
        BY <1>2, <3>4
      <4> QED  BY <1>8, <2>1, <4>4, <4>5, <4>6 DEF r
    <3> QED  BY <1>2, <1>10, <3>3, <3>4
  <2>4. CASE /\ line \in Bodies
             /\ \A j \in 1 .. Len(line) : t[e + j] = line[j]
             /\ t[e + Len(line) + 1] = "CR"
             /\ \/ cut[k + 1] = e + Len(line) + 1
                \/ cut[k + 1] = e + Len(line) + 2 /\ t[cut[k + 1]] = "LF"
    <3> DEFINE m == Len(line)
    <3>1. /\ line \in Seq(Bytes \ EolBytes) /\ m \in Nat /\ m > 0 /\ line[1] = "0"
          /\ \A j \in 1 .. m : line[j] \in Bytes \ EolBytes
      BY <2>4, BodiesAssumption
    <3> HIDE DEF m
    <3>2. \A j \in 1 .. m : j <= n => q[j] = line[j] /\ q[j] \notin EolBytes
      BY <1>2, <2>4, <3>1, SMTT(30) DEF m
    <3>3. q[1] = "0"
      BY <1>2, <1>10, <3>1, <3>2
    <3>4. ~StartsWithConfirmation(q) /\ ~Undecided(q)
      BY <3>3 DEF StartsWithConfirmation, Undecided, TagBytes
    <3>5. CASE n <= m
      <4>1. CrPosition(q) = 0
        <5>1. \A i \in 1 .. Len(q) : q[i] # "CR"
          BY <1>2, <3>1, <3>2, <3>5 DEF n, EolBytes
        <5> QED  BY <1>2, <5>1, NoCr
      <4>2. Pass(state) = [lines |-> state.lines, rest |-> q]
        BY <1>5, <3>4, <4>1, PassIs
      <4>3. Stuck(q)
        BY <2>1, <3>4, <4>1 DEF Stuck
      <4> QED  BY <1>7, <4>2, <4>3 DEF r
    <3>6. CASE m < n
      <4>1. m + 1 \in 1 .. Len(q) /\ m + 1 \in Nat /\ m <= Len(q) /\ m + 1 <= n /\ (m + 1) - 1 = m
        BY <1>2, <3>1, <3>6 DEF n
      <4>2. q[m + 1] = "CR"
        <5>1. q[m + 1] = t[e + (m + 1)] /\ e + (m + 1) = e + m + 1
          BY <1>2, <3>1, <3>6
        <5> QED  BY <2>4, <5>1 DEF m
      <4>3. \A i \in 1 .. m : q[i] # "CR" /\ q[i] # "LF"
        BY <1>2, <3>1, <3>2, <3>6 DEF EolBytes
      <4>4. CrPosition(q) = m + 1
        BY <1>2, <4>1, <4>2, <4>3, CrAt
      <4>5. Line(q) = SubSeq(q, 1, m)
        BY <1>2, <3>1, <4>1, <4>3, <4>4, LineIs
      <4>6. SubSeq(q, 1, m) = line
        <5>1. SubSeq(q, 1, m) \in Seq(Bytes) /\ Len(SubSeq(q, 1, m)) = m
              /\ \A i \in 1 .. m : SubSeq(q, 1, m)[i] = q[i]
          BY <1>2, <3>1, <4>1, FirstBytes, Zenon
        <5>2. \A i \in 1 .. m : q[i] = line[i]
          BY <1>2, <3>1, <3>2, <3>6
        <5> DEFINE s == SubSeq(q, 1, m)
        <5> HIDE DEF s
        <5>3. s = line
          BY <3>1, <5>1, <5>2 DEF s, m
        <5> QED  BY <5>3 DEF s
      <4>7. Pass(state) = [lines |-> Append(state.lines, line),
                           rest  |-> SubSeq(q, (m + 1) + 1, Len(q))]
        <5>1. CrPosition(q) > 0
          BY <3>1, <4>4
        <5>2. Pass(state) = [lines |-> Append(state.lines, Line(q)),
                             rest  |-> SubSeq(q, CrPosition(q) + 1, Len(q))]
          BY <1>5, <3>4, <5>1, PassIs, Zenon
        <5> QED  BY <4>4, <4>5, <4>6, <5>2
      <4>8. At(t, cut, k + 1, e + (m + 1))
        <5>1. e + (m + 1) = e + m + 1 /\ (e + (m + 1)) + 1 = e + m + 2
          BY <1>2, <3>1
        <5> QED  BY <2>4, <5>1 DEF At, m
      <4>9. m + 1 > 0
        BY <3>1
      <4> QED  BY <1>8, <2>1, <4>1, <4>7, <4>8, <4>9 DEF r
    <3> QED  BY <1>2, <3>1, <3>5, <3>6
  <2> QED  BY <2>2, <2>3, <2>4 DEF Holds
<1> QED  BY <1>2, <1>9, <1>10 DEF r

\* The passes over b.
PassesOf(b) ==
  CHOOSE passes : passes = [i \in 0 .. Len(b) |-> IF i = 0 THEN [lines |-> <<>>, rest |-> b]
                                                  ELSE Pass(passes[i - 1])]

LEMMA PassesExist ==
  ASSUME NEW b
  PROVE  \A n \in Nat : \E passes :
           passes = [i \in 0 .. n |-> IF i = 0 THEN [lines |-> <<>>, rest |-> b]
                                      ELSE Pass(passes[i - 1])]
<1> DEFINE start == [lines |-> <<>>, rest |-> b]
           P(n) == \E f : f = [i \in 0 .. n |-> IF i = 0 THEN start ELSE Pass(f[i - 1])]
           S == {n \in Nat : P(n)}
<1> HIDE DEF start
<1>1. P(0)
  <2> DEFINE f == [i \in 0 .. 0 |-> start]
  <2>1. f = [i \in 0 .. 0 |-> IF i = 0 THEN start ELSE Pass(f[i - 1])]
    OBVIOUS
  <2> HIDE DEF f
  <2> QED  BY <2>1
<1>2. ASSUME NEW n \in Nat, P(n) PROVE P(n + 1)
  <2>1. PICK f : f = [i \in 0 .. n |-> IF i = 0 THEN start ELSE Pass(f[i - 1])]
    BY <1>2
  <2> DEFINE last == Pass(f[n])
             g == [i \in 0 .. n + 1 |-> IF i = n + 1 THEN last ELSE f[i]]
  <2>2. \A i \in 0 .. n : f[i] = IF i = 0 THEN start ELSE Pass(f[i - 1])
    BY <2>1
  <2>3. \A i \in 0 .. n + 1 : g[i] = IF i = 0 THEN start ELSE Pass(g[i - 1])
    BY <2>2
  <2>4. g = [i \in 0 .. n + 1 |-> IF i = 0 THEN start ELSE Pass(g[i - 1])]
    <3>1. g = [i \in 0 .. n + 1 |-> g[i]]
      OBVIOUS
    <3> HIDE DEF g
    <3> QED  BY <2>3, <3>1
  <2> HIDE DEF g
  <2> QED  BY <2>4
<1>3. 0 \in S /\ \A n \in Nat : n \in S => n + 1 \in S
  <2> HIDE DEF P
  <2> QED  BY <1>1, <1>2
<1>4. Nat \subseteq S
  <2> HIDE DEF S
  <2> QED  BY <1>3, NaturalInduction
<1>5. \A n \in Nat : P(n)
  <2> HIDE DEF P
  <2> QED  BY <1>4
<1> QED  BY <1>5, Zenon DEF start

LEMMA PassesAre ==
  ASSUME NEW b, Len(b) \in Nat
  PROVE  /\ Consume(b) = PassesOf(b)[Len(b)]
         /\ PassesOf(b)[0] = [lines |-> <<>>, rest |-> b]
         /\ \A i \in 0 .. Len(b) - 1 : PassesOf(b)[i + 1] = Pass(PassesOf(b)[i])
<1> DEFINE n == Len(b)
           start == [lines |-> <<>>, rest |-> b]
           passes == PassesOf(b)
<1>1. Consume(b) = passes[n]
  BY DEF Consume, PassesOf
<1>2. passes = [i \in 0 .. n |-> IF i = 0 THEN start ELSE Pass(passes[i - 1])]
  BY PassesExist, ZenonT(60) DEF PassesOf
<1> HIDE DEF n, start, passes
<1>3. n \in Nat
  BY DEF n
<1>4. \A i \in 0 .. n : passes[i] = IF i = 0 THEN start ELSE Pass(passes[i - 1])
  BY <1>2
<1>5. passes[0] = start /\ \A i \in 0 .. n - 1 : passes[i + 1] = Pass(passes[i])
  <2>1. 0 \in 0 .. n
    BY <1>3
  <2>2. ASSUME NEW i \in 0 .. n - 1 PROVE passes[i + 1] = Pass(passes[i])
    <3>1. i + 1 \in 0 .. n /\ i + 1 # 0 /\ (i + 1) - 1 = i
      BY <1>3
    <3> QED  BY <1>4, <3>1
  <2> QED  BY <1>4, <2>1, <2>2
<1> QED  BY <1>1, <1>5 DEF n, start, passes

\* The lines ls are the lines k + 1 .. j.
IsSegment(ls, lines, k, j) ==
  /\ ls \in Seq(Seq(Bytes)) /\ Len(ls) = j - k
  /\ \A i \in 1 .. j - k : ls[i] = lines[k + i]

LEMMA SegmentGrows ==
  ASSUME NEW lines \in Seq(Seq(Bytes)), NEW k \in Nat, NEW j \in Nat, k <= j, j < Len(lines),
         NEW ls, IsSegment(ls, lines, k, j)
  PROVE  IsSegment(Append(ls, lines[j + 1]), lines, k, j + 1)
<1> DEFINE new == Append(ls, lines[j + 1])
           m == j - k
<1>1. ls \in Seq(Seq(Bytes)) /\ Len(ls) = m /\ \A i \in 1 .. m : ls[i] = lines[k + i]
  BY DEF IsSegment
<1>2. lines[j + 1] \in Seq(Bytes)
  <2>1. j + 1 \in 1 .. Len(lines)
    OBVIOUS
  <2> QED  BY <2>1, ElementOfSeq
<1>3. new \in Seq(Seq(Bytes)) /\ Len(new) = m + 1 /\ new[m + 1] = lines[j + 1]
      /\ \A i \in 1 .. m : new[i] = ls[i]
  <2> DEFINE Lines == Seq(Bytes)
             line == lines[j + 1]
  <2>1. ls \in Seq(Lines) /\ line \in Lines
    BY <1>1, <1>2
  <2> HIDE DEF Lines, line, m
  <2>2. Append(ls, line) \in Seq(Lines) /\ Len(Append(ls, line)) = Len(ls) + 1
        /\ Append(ls, line)[Len(ls) + 1] = line
        /\ \A i \in 1 .. Len(ls) : Append(ls, line)[i] = ls[i]
    BY <2>1
  <2> QED  BY <1>1, <2>2 DEF Lines, line
<1>4. m \in Nat /\ (j + 1) - k = m + 1 /\ k + (m + 1) = j + 1
  OBVIOUS
<1> HIDE DEF new, m
<1>5. ASSUME NEW i \in 1 .. m + 1 PROVE new[i] = lines[k + i]
  <2>1. CASE i \in 1 .. m
    BY <1>1, <1>3, <2>1
  <2>2. CASE i = m + 1
    BY <1>3, <1>4, <2>2
  <2> QED  BY <1>4, <1>5, <2>1, <2>2
<1> QED  BY <1>3, <1>4, <1>5 DEF IsSegment, new

\* From place d of the stream, k lines handled, the bytes r become result.
Reaches(t, cut, lines, k, r, d, result) ==
  \E e \in Nat, j \in k .. Len(lines) :
    /\ Window(result.rest, t, e) /\ At(t, cut, j, e)
    /\ e + Len(result.rest) = d + Len(r)
    /\ IsSegment(result.lines, lines, k, j)

\* Everything complete is handled, once, in order, and what is left is stuck.
LEMMA ConsumeReaches ==
  ASSUME NEW t, NEW cut, NEW lines \in Seq(Seq(Bytes)), Framed(t, cut, lines),
         NEW k \in 0 .. Len(lines), NEW d, NEW b, Window(b, t, d), At(t, cut, k, d)
  PROVE  Reaches(t, cut, lines, k, b, d, Consume(b)) /\ Stuck(Consume(b).rest)
<1> DEFINE n == Len(b)
           last == Len(lines)
           passes == PassesOf(b)
           Good(i) == /\ Reaches(t, cut, lines, k, b, d, passes[i])
                      /\ Stuck(passes[i].rest) \/ Len(passes[i].rest) <= n - i
           S == {i \in Nat : i <= n => Good(i)}
<1>1. b \in Seq(Bytes) /\ n \in Nat /\ d \in Nat /\ last \in Nat /\ k \in 0 .. last
  BY DEF Window
<1>2. /\ Consume(b) = passes[n]
      /\ passes[0] = [lines |-> <<>>, rest |-> b]
      /\ \A i \in 0 .. n - 1 : passes[i + 1] = Pass(passes[i])
  BY <1>1, PassesAre, Zenon
<1> HIDE DEF n, last, passes
<1>3. Good(0)
  <2>1. passes[0].lines = <<>> /\ passes[0].rest = b
    BY <1>2
  <2>2. IsSegment(<<>>, lines, k, k)
    BY <1>1 DEF IsSegment
  <2>3. k \in k .. last /\ Len(b) <= n - 0
    BY <1>1 DEF n
  <2>4. Reaches(t, cut, lines, k, b, d, passes[0])
    BY <1>1, <2>1, <2>2, <2>3 DEF Reaches, last
  <2> QED  BY <2>1, <2>3, <2>4
<1>4. ASSUME NEW i \in Nat, i + 1 <= n, Good(i) PROVE Good(i + 1)
  <2> DEFINE old == passes[i]
             new == passes[i + 1]
  <2>1. new = Pass(old)
    <3>1. i \in 0 .. n - 1
      BY <1>1, <1>4
    <3> QED  BY <1>2, <3>1
  <2>2. PICK e \in Nat, j \in k .. last :
          /\ Window(old.rest, t, e) /\ At(t, cut, j, e)
          /\ e + Len(old.rest) = d + n
          /\ IsSegment(old.lines, lines, k, j)
    BY <1>4 DEF Reaches, last, n
  <2>3. Stuck(old.rest) \/ Len(old.rest) <= n - i
    BY <1>4
  <2>4. old.rest \in Seq(Bytes) /\ Len(old.rest) \in Nat
    BY <2>2 DEF Window
  <2>5. j \in 0 .. Len(lines) /\ j \in Nat /\ k <= j
    BY <1>1 DEF last
  <2> HIDE DEF old, new, Good
  <2>6. CASE Stuck(old.rest)
    <3>1. new = [lines |-> old.lines, rest |-> old.rest]
      BY <2>1, <2>4, <2>6, PassOnStuck
    <3>2. new.lines = old.lines /\ new.rest = old.rest
      BY <3>1
    <3> QED  BY <2>2, <2>6, <3>2 DEF Good, Reaches, last, n, new
  <2>7. CASE ~Stuck(old.rest)
    <3>1. Advances(t, cut, lines, j, old.rest, e, old.lines, new)
      BY <2>1, <2>2, <2>5, PassAdvances, Zenon
    <3>2. PICK f \in Nat, m \in {j, j + 1} :
            /\ m <= Len(lines) /\ Window(new.rest, t, f) /\ At(t, cut, m, f)
            /\ f + Len(new.rest) = e + Len(old.rest)
            /\ new.lines = IF m = j THEN old.lines ELSE Append(old.lines, lines[j + 1])
            /\ Stuck(new.rest) \/ Len(new.rest) < Len(old.rest)
      BY <3>1 DEF Advances
    <3>3. IsSegment(new.lines, lines, k, m)
      <4>1. CASE m = j
        BY <2>2, <3>2, <4>1
      <4>2. CASE m # j
        <5>1. m = j + 1 /\ j < Len(lines) /\ k \in Nat
          BY <1>1, <2>5, <3>2, <4>2
        <5>2. IsSegment(Append(old.lines, lines[j + 1]), lines, k, j + 1)
          BY <2>2, <2>5, <5>1, SegmentGrows
        <5> QED  BY <3>2, <4>2, <5>1, <5>2
      <4> QED  BY <4>1, <4>2
    <3>4. m \in k .. last /\ f + Len(new.rest) = d + n
      BY <1>1, <2>2, <2>5, <3>2 DEF last
    <3>5. Reaches(t, cut, lines, k, b, d, new)
      BY <3>2, <3>3, <3>4 DEF Reaches, last, n
    <3>6. Stuck(new.rest) \/ Len(new.rest) <= n - (i + 1)
      <4>1. Len(new.rest) \in Nat
        BY <3>2 DEF Window
      <4> QED  BY <1>1, <2>3, <2>4, <2>7, <3>2, <4>1, SMTT(30)
    <3> QED  BY <3>5, <3>6 DEF Good, new
  <2> QED  BY <2>6, <2>7
<1> HIDE DEF Good
<1>5. 0 \in S /\ \A i \in Nat : i \in S => i + 1 \in S
  <2>1. 0 \in S
    BY <1>3
  <2>2. ASSUME NEW i \in Nat, i \in S PROVE i + 1 \in S
    <3>1. i + 1 <= n => i <= n
      BY <1>1
    <3> QED  BY <1>4, <2>2, <3>1
  <2> QED  BY <2>1, <2>2
<1>6. n \in S
  <2> HIDE DEF S
  <2> QED  BY <1>1, <1>5, NaturalInduction
<1>7. Good(n)
  BY <1>1, <1>6
<1>8. Reaches(t, cut, lines, k, b, d, Consume(b))
      /\ (Stuck(Consume(b).rest) \/ Len(Consume(b).rest) <= 0)
  BY <1>1, <1>2, <1>7 DEF Good
<1> DEFINE rest == Consume(b).rest
<1>9. rest \in Seq(Bytes)
  BY <1>8 DEF Reaches, Window
<1> HIDE DEF rest
<1>10. CASE Len(rest) <= 0
  <2>1. Len(rest) = 0 /\ \A i \in 1 .. Len(rest) : rest[i] # "CR"
    BY <1>9, <1>10
  <2>2. CrPosition(rest) = 0
    BY <1>9, <2>1, NoCr
  <2>3. Stuck(rest)
    BY <2>1, <2>2 DEF Stuck, StartsWithConfirmation
  <2> QED  BY <1>8, <2>3 DEF rest
<1> QED  BY <1>8, <1>10 DEF rest

-----------------------------------------------------------------------------
(* The invariant.  What has not been handled of the stream is in the       *)
(* buffer and on the wire.                                                 *)

LinkInv ==
  \E t, cut : \E d \in Nat :
    /\ Framed(t, cut, sent)
    /\ IsSegment(handled, sent, 0, Len(handled)) /\ Len(handled) <= Len(sent)
    /\ At(t, cut, Len(handled), d)
    /\ Window(buffer, t, d) /\ Window(wire, t, d + Len(buffer))
    /\ d + Len(buffer) + Len(wire) = Len(t)

BufferInv ==
  /\ sent \in Seq(Seq(Bytes)) /\ handled \in Seq(Seq(Bytes))
  /\ wire \in Seq(Bytes) /\ buffer \in Seq(Bytes)
  /\ links \in 1 .. MaxLinks
  /\ Stuck(buffer)
  /\ LinkInv

LEMMA NothingSent ==
  ASSUME sent = <<>>, wire = <<>>, buffer = <<>>, handled = <<>>, links \in 1 .. MaxLinks
  PROVE  BufferInv
<1> DEFINE cut == [i \in 0 .. 0 |-> 0]
<1>1. Framed(<<>>, cut, sent)
  BY DEF Framed
<1>2. IsSegment(handled, sent, 0, Len(handled)) /\ Len(handled) = 0 /\ Len(sent) = 0
  BY DEF IsSegment
<1>3. Window(buffer, <<>>, 0) /\ Window(wire, <<>>, 0 + Len(buffer))
  BY DEF Window
<1>4. At(<<>>, cut, Len(handled), 0)
  BY <1>2 DEF At
<1>5. Len(<<>>) = 0 /\ Len(buffer) = 0 /\ Len(wire) = 0 /\ Len(handled) <= Len(sent)
  OBVIOUS
<1> HIDE DEF cut
<1>6. LinkInv
  BY <1>1, <1>2, <1>3, <1>4, <1>5 DEF LinkInv
<1>7. CrPosition(buffer) = 0
  <2>1. buffer \in Seq(Bytes) /\ \A i \in 1 .. Len(buffer) : buffer[i] # "CR"
    OBVIOUS
  <2> QED  BY <2>1, NoCr
<1>8. Stuck(buffer)
  BY <1>5, <1>7 DEF Stuck, StartsWithConfirmation
<1> QED  BY <1>6, <1>8 DEF BufferInv

IsJoined(u, s, r) ==
  /\ u \in Seq(Bytes) /\ Len(u) = Len(s) + Len(r)
  /\ \A j \in 1 .. Len(s) : u[j] = s[j]
  /\ \A j \in 1 .. Len(r) : u[Len(s) + j] = r[j]

LEMMA Joined ==
  ASSUME NEW s \in Seq(Bytes), NEW r \in Seq(Bytes)
  PROVE  IsJoined(s \o r, s, r)
<1>1. s \o r \in Seq(Bytes) /\ Len(s \o r) = Len(s) + Len(r)
  OBVIOUS
<1>2. \A j \in 1 .. Len(s) : (s \o r)[j] = s[j]
  OBVIOUS
<1>3. \A j \in 1 .. Len(r) : (s \o r)[Len(s) + j] = r[j]
  OBVIOUS
<1> QED  BY <1>1, <1>2, <1>3 DEF IsJoined

\* The bytes of a line, with its terminator.
Emits(line, bytes) ==
  \/ IsConfirmation(line) /\ bytes = line
  \/ line \in Bodies /\ \E eol \in {<<"CR">>, <<"CR", "LF">>} : bytes = line \o eol

LEMMA EmitsHolds ==
  ASSUME NEW t \in Seq(Bytes), NEW line, NEW bytes, Emits(line, bytes)
  PROVE  /\ line \in Seq(Bytes) /\ bytes \in Seq(Bytes)
         /\ Holds(t \o bytes, Len(t), Len(t \o bytes), line)
<1>1. CASE IsConfirmation(line) /\ bytes = line
  <2>1. PICK x \in TagBytes, y \in ResultBytes : line = <<x, y>>
    BY <1>1 DEF IsConfirmation
  <2>2. line \in Seq(Bytes) /\ Len(line) = 2 /\ line[1] = x /\ line[2] = y
    BY <2>1 DEF Bytes
  <2>3. Len(t \o bytes) = Len(t) + 2
        /\ (t \o bytes)[Len(t) + 1] = line[1] /\ (t \o bytes)[Len(t) + 2] = line[2]
    <3> DEFINE u == t \o bytes
    <3>1. IsJoined(u, t, bytes)
      BY <1>1, <2>2, Joined, Zenon
    <3> HIDE DEF u
    <3>2. Len(u) = Len(t) + 2 /\ \A j \in 1 .. 2 : u[Len(t) + j] = bytes[j]
      BY <1>1, <2>2, <3>1 DEF IsJoined
    <3>3. 1 \in 1 .. 2 /\ 2 \in 1 .. 2
      OBVIOUS
    <3> QED  BY <1>1, <3>2, <3>3 DEF u
  <2> QED  BY <1>1, <2>2, <2>3 DEF Holds
<1>2. CASE line \in Bodies /\ \E eol \in {<<"CR">>, <<"CR", "LF">>} : bytes = line \o eol
  <2>1. PICK eol \in {<<"CR">>, <<"CR", "LF">>} : bytes = line \o eol
    BY <1>2
  <2>2. line \in Seq(Bytes)
    <3>1. line \in Seq(Bytes \ EolBytes) /\ Bytes \ EolBytes \subseteq Bytes
      BY <1>2, BodiesAssumption
    <3> QED  BY <3>1, SeqMonotonic
  <2> DEFINE m == Len(line)
             n == Len(eol)
             u == t \o bytes
  <2>3. eol \in Seq(Bytes) /\ eol[1] = "CR" /\ (n = 1 \/ (n = 2 /\ eol[2] = "LF"))
    <3>1. CASE eol = <<"CR">>
      <4>1. <<"CR">> \in Seq(Bytes) /\ Len(<<"CR">>) = 1 /\ <<"CR">>[1] = "CR"
        BY DEF Bytes, EolBytes
      <4> QED  BY <3>1, <4>1
    <3>2. CASE eol = <<"CR", "LF">>
      <4>1. /\ <<"CR", "LF">> \in Seq(Bytes) /\ Len(<<"CR", "LF">>) = 2
            /\ <<"CR", "LF">>[1] = "CR" /\ <<"CR", "LF">>[2] = "LF"
        BY DEF Bytes, EolBytes
      <4> QED  BY <3>2, <4>1
    <3> QED  BY <2>1, <3>1, <3>2
  <2>4. m \in Nat /\ Len(t) \in Nat
    BY <2>2
  <2>5. bytes \in Seq(Bytes) /\ Len(bytes) = m + n
        /\ (\A j \in 1 .. m : bytes[j] = line[j])
        /\ \A j \in 1 .. n : bytes[m + j] = eol[j]
    BY <2>1, <2>2, <2>3
  <2>6. u \in Seq(Bytes) /\ Len(u) = Len(t) + Len(bytes)
        /\ \A j \in 1 .. Len(bytes) : u[Len(t) + j] = bytes[j]
    <3>1. bytes \in Seq(Bytes)
      BY <2>5
    <3>2. IsJoined(u, t, bytes)
      BY <3>1, Joined, Zenon
    <3> HIDE DEF u
    <3> QED  BY <3>2 DEF IsJoined
  <2> HIDE DEF m, n, u
  <2>7. \A j \in 1 .. m : u[Len(t) + j] = line[j]
    BY <2>3, <2>4, <2>5, <2>6
  <2>8. \A j \in 1 .. n : u[Len(t) + m + j] = eol[j]
    <3> TAKE j \in 1 .. n
    <3>1. m + j \in 1 .. Len(bytes) /\ Len(t) + (m + j) = Len(t) + m + j
      BY <2>3, <2>4, <2>5
    <3> QED  BY <2>5, <2>6, <3>1
  <2>9. u[Len(t) + m + 1] = "CR"
        /\ (Len(u) = Len(t) + m + 1 \/ (Len(u) = Len(t) + m + 2 /\ u[Len(u)] = "LF"))
    <3>1. n \in {1, 2} /\ \A j \in 1 .. n : u[Len(t) + m + j] = eol[j]
      BY <2>3, <2>8
    <3>2. Len(u) = Len(t) + m + n
      BY <2>3, <2>4, <2>5, <2>6
    <3>3. u[Len(t) + m + 1] = "CR" /\ (n = 2 => u[Len(t) + m + 2] = "LF")
      BY <2>3, <3>1
    <3> QED  BY <2>4, <3>1, <3>2, <3>3
  <2>10. Holds(u, Len(t), Len(u), line)
    BY <1>2, <2>7, <2>9 DEF Holds, m
  <2> QED  BY <2>2, <2>5, <2>10 DEF u
<1> QED  BY <1>1, <1>2 DEF Emits

\* A stream that goes on holds what it held.
Extends(u, t) == u \in Seq(Bytes) /\ Len(t) <= Len(u) /\ \A j \in 1 .. Len(t) : u[j] = t[j]

LEMMA StillHolds ==
  ASSUME NEW t \in Seq(Bytes), NEW u, Extends(u, t), NEW from \in Nat, NEW to \in Nat,
         NEW line \in Seq(Bytes), to <= Len(t), Holds(t, from, to, line)
  PROVE  Holds(u, from, to, line)
<1>1. \A j \in 1 .. Len(t) : u[j] = t[j]
  BY DEF Extends
<1>2. Len(t) \in Nat /\ Len(line) \in Nat
  OBVIOUS
<1>3. CASE IsConfirmation(line) /\ to = from + 2 /\ t[from + 1] = line[1] /\ t[to] = line[2]
  BY <1>1, <1>2, <1>3 DEF Holds
<1>4. CASE /\ line \in Bodies
           /\ \A j \in 1 .. Len(line) : t[from + j] = line[j]
           /\ t[from + Len(line) + 1] = "CR"
           /\ to = from + Len(line) + 1 \/ (to = from + Len(line) + 2 /\ t[to] = "LF")
  <2>1. \A j \in 1 .. Len(line) : u[from + j] = line[j]
    BY <1>1, <1>2, <1>4
  <2>2. u[from + Len(line) + 1] = "CR" /\ u[to] = t[to]
    BY <1>1, <1>2, <1>4
  <2> QED  BY <1>4, <2>1, <2>2 DEF Holds
<1> QED  BY <1>3, <1>4 DEF Holds

\* A window on a stream stays one when the stream goes on.
LEMMA StillWindow ==
  ASSUME NEW t \in Seq(Bytes), NEW u, Extends(u, t), NEW r, NEW d, Window(r, t, d)
  PROVE  Window(r, u, d)
<1>1. r \in Seq(Bytes) /\ d \in Nat /\ d + Len(r) <= Len(t)
      /\ (\A j \in 1 .. Len(r) : r[j] = t[d + j]) /\ Len(r) \in Nat
  BY DEF Window
<1>2. u \in Seq(Bytes) /\ Len(t) <= Len(u) /\ (\A j \in 1 .. Len(t) : u[j] = t[j])
      /\ Len(t) \in Nat /\ Len(u) \in Nat
  BY DEF Extends
<1>3. d + Len(r) <= Len(u)
  BY <1>1, <1>2
<1>4. \A j \in 1 .. Len(r) : d + j \in 1 .. Len(t)
  BY <1>1, <1>2
<1>5. \A j \in 1 .. Len(r) : r[j] = u[d + j]
  BY <1>1, <1>2, <1>4
<1> QED  BY <1>1, <1>3, <1>5 DEF Window

\* Two windows side by side are one.
LEMMA WindowsJoin ==
  ASSUME NEW t \in Seq(Bytes), NEW r, NEW q, NEW d, Window(r, t, d), Window(q, t, d + Len(r))
  PROVE  Window(r \o q, t, d) /\ Len(r \o q) = Len(r) + Len(q)
<1> DEFINE u == r \o q
           n == Len(r)
           m == Len(q)
<1>1. r \in Seq(Bytes) /\ d \in Nat /\ n \in Nat /\ \A j \in 1 .. n : r[j] = t[d + j]
  BY DEF Window
<1>2. q \in Seq(Bytes) /\ m \in Nat /\ d + n + m <= Len(t)
      /\ \A j \in 1 .. m : q[j] = t[d + n + j]
  BY DEF Window
<1>3. IsJoined(u, r, q)
  BY <1>1, <1>2, Joined, Zenon
<1>4. u \in Seq(Bytes) /\ Len(u) = n + m /\ (\A j \in 1 .. n : u[j] = r[j])
      /\ \A j \in 1 .. m : u[n + j] = q[j]
  BY <1>3 DEF IsJoined
<1> HIDE DEF u, n, m
<1>5. ASSUME NEW j \in 1 .. n + m PROVE u[j] = t[d + j]
  <2>1. CASE j <= n
    BY <1>1, <1>4, <1>5, <2>1
  <2>2. CASE n < j
    <3>1. j - n \in 1 .. m /\ n + (j - n) = j /\ d + n + (j - n) = d + j
      BY <1>1, <1>2, <1>5, <2>2
    <3> QED  BY <1>2, <1>4, <3>1
  <2> QED  BY <1>1, <1>5, <2>1, <2>2
<1>6. d + (n + m) <= Len(t)
  BY <1>1, <1>2
<1> QED  BY <1>1, <1>4, <1>5, <1>6 DEF Window, u, n, m

\* The CNI sends a line.
LEMMA TransmitKeeps ==
  ASSUME BufferInv, NEW line, NEW bytes, Emits(line, bytes), Transmit(line, bytes)
  PROVE  BufferInv'
<1>1. PICK t, cut : \E d \in Nat :
        /\ Framed(t, cut, sent)
        /\ IsSegment(handled, sent, 0, Len(handled)) /\ Len(handled) <= Len(sent)
        /\ At(t, cut, Len(handled), d)
        /\ Window(buffer, t, d) /\ Window(wire, t, d + Len(buffer))
        /\ d + Len(buffer) + Len(wire) = Len(t)
  BY DEF BufferInv, LinkInv
<1>2. PICK d \in Nat :
        /\ Framed(t, cut, sent)
        /\ IsSegment(handled, sent, 0, Len(handled)) /\ Len(handled) <= Len(sent)
        /\ At(t, cut, Len(handled), d)
        /\ Window(buffer, t, d) /\ Window(wire, t, d + Len(buffer))
        /\ d + Len(buffer) + Len(wire) = Len(t)
  BY <1>1
<1> DEFINE u == t \o bytes
           n == Len(sent)
           ends == [i \in 0 .. n + 1 |-> IF i = n + 1 THEN Len(u) ELSE cut[i]]
           k == Len(handled)
<1>3. /\ t \in Seq(Bytes) /\ Len(t) \in Nat
      /\ cut \in [0 .. n -> 0 .. Len(t)] /\ cut[n] = Len(t)
      /\ \A i \in 1 .. n : Holds(t, cut[i - 1], cut[i], sent[i])
  BY <1>2 DEF Framed
<1>4. /\ sent \in Seq(Seq(Bytes)) /\ n \in Nat /\ handled \in Seq(Seq(Bytes)) /\ k \in 0 .. n
      /\ wire \in Seq(Bytes) /\ buffer \in Seq(Bytes)
  BY <1>2 DEF BufferInv
<1>5. line \in Seq(Bytes) /\ bytes \in Seq(Bytes) /\ Holds(u, Len(t), Len(u), line)
  BY <1>3, EmitsHolds
<1>6. IsJoined(u, t, bytes)
  BY <1>3, <1>5, Joined, Zenon
<1>7. u \in Seq(Bytes) /\ Len(u) = Len(t) + Len(bytes) /\ Len(bytes) \in Nat /\ Len(u) \in Nat
  BY <1>5, <1>6 DEF IsJoined
<1>8. Extends(u, t)
  <2>1. \A j \in 1 .. Len(t) : u[j] = t[j]
    BY <1>6 DEF IsJoined
  <2> QED  BY <1>3, <1>7, <2>1 DEF Extends
<1>9. /\ sent' = Append(sent, line) /\ wire' = wire \o bytes
      /\ buffer' = buffer /\ handled' = handled /\ links' = links
  BY DEF Transmit
<1>10. /\ sent' \in Seq(Seq(Bytes)) /\ Len(sent') = n + 1 /\ sent'[n + 1] = line
       /\ \A i \in 1 .. n : sent'[i] = sent[i]
  <2> DEFINE Lines == Seq(Bytes)
  <2>1. sent \in Seq(Lines) /\ line \in Lines
    BY <1>4, <1>5
  <2> HIDE DEF Lines
  <2>2. Append(sent, line) \in Seq(Lines) /\ Len(Append(sent, line)) = Len(sent) + 1
        /\ Append(sent, line)[Len(sent) + 1] = line
        /\ \A i \in 1 .. Len(sent) : Append(sent, line)[i] = sent[i]
    BY <2>1
  <2> QED  BY <1>9, <2>2 DEF Lines
<1>11. \A i \in 1 .. n : sent[i] \in Seq(Bytes)
  BY <1>4
<1> HIDE DEF u, n, k
<1>12. ends[n + 1] = Len(u) /\ \A i \in 0 .. n : ends[i] = cut[i]
  BY <1>4
<1>13. \A i \in 0 .. n : cut[i] \in 0 .. Len(t)
  BY <1>3
<1>14. ends \in [0 .. n + 1 -> 0 .. Len(u)]
  BY <1>3, <1>4, <1>7, <1>13
<1> HIDE DEF ends
<1>15. ASSUME NEW i \in 1 .. n + 1 PROVE Holds(u, ends[i - 1], ends[i], sent'[i])
  <2>1. CASE i = n + 1
    <3>1. i - 1 = n /\ n \in 0 .. n
      BY <1>4, <2>1
    <3> QED  BY <1>3, <1>5, <1>10, <1>12, <2>1, <3>1
  <2>2. CASE i \in 1 .. n
    <3>1. i - 1 \in 0 .. n /\ i \in 0 .. n
      BY <1>4, <2>2
    <3>2. /\ ends[i - 1] = cut[i - 1] /\ ends[i] = cut[i] /\ cut[i - 1] \in Nat
          /\ cut[i] \in Nat /\ cut[i] <= Len(t)
      BY <1>3, <1>12, <1>13, <3>1
    <3>3. Holds(t, cut[i - 1], cut[i], sent[i]) /\ sent[i] \in Seq(Bytes)
      BY <1>3, <1>11, <2>2
    <3>4. Holds(u, cut[i - 1], cut[i], sent[i])
      BY <1>3, <1>8, <3>2, <3>3, StillHolds
    <3> QED  BY <1>10, <2>2, <3>2, <3>4
  <2> QED  BY <1>4, <1>15, <2>1, <2>2
<1>16. Framed(u, ends, sent')
  BY <1>7, <1>10, <1>12, <1>14, <1>15 DEF Framed
<1>17. IsSegment(handled', sent', 0, Len(handled')) /\ Len(handled') <= Len(sent')
  <2>1. Len(handled) = k - 0 /\ \A i \in 1 .. k - 0 : handled[i] = sent[0 + i]
    BY <1>2, <1>4 DEF IsSegment, k
  <2>2. \A i \in 1 .. k - 0 : 0 + i \in 1 .. n
    BY <1>4
  <2>3. \A i \in 1 .. k - 0 : handled[i] = sent'[0 + i]
    BY <1>10, <2>1, <2>2
  <2> QED  BY <1>4, <1>9, <1>10, <2>1, <2>3 DEF IsSegment, k
<1>18. At(u, ends, Len(handled'), d)
  <2>1. ends[k] = cut[k] /\ cut[k] \in 0 .. Len(t)
    BY <1>4, <1>12, <1>13
  <2>2. d + 1 = cut[k] => u[cut[k]] = t[cut[k]]
    BY <1>3, <1>8, <2>1 DEF Extends
  <2>3. At(t, cut, k, d) /\ Len(handled') = k
    BY <1>2, <1>9 DEF k
  <2> QED  BY <2>1, <2>2, <2>3 DEF At
<1>19. Window(buffer, u, d) /\ Window(wire, u, d + Len(buffer))
  BY <1>2, <1>3, <1>8, StillWindow
<1>20. Window(bytes, u, d + Len(buffer) + Len(wire))
  <2>1. d + Len(buffer) + Len(wire) = Len(t)
    BY <1>2
  <2>2. \A j \in 1 .. Len(bytes) : bytes[j] = u[Len(t) + j]
    BY <1>6 DEF IsJoined
  <2>3. Len(t) + Len(bytes) <= Len(u)
    BY <1>3, <1>7
  <2>4. Window(bytes, u, Len(t))
    BY <1>3, <1>5, <2>2, <2>3 DEF Window
  <2> QED  BY <2>1, <2>4
<1>21. Window(wire', u, d + Len(buffer)) /\ Len(wire') = Len(wire) + Len(bytes)
  BY <1>7, <1>9, <1>19, <1>20, WindowsJoin
<1>22. d + Len(buffer') + Len(wire') = Len(u)
  <2> DEFINE x == Len(buffer)
             y == Len(wire)
  <2>1. x \in Nat /\ y \in Nat /\ d + x + y = Len(t) /\ Len(buffer') = x
    BY <1>2, <1>4, <1>9
  <2> HIDE DEF x, y
  <2>2. Len(wire') = y + Len(bytes)
    BY <1>21 DEF y
  <2> QED  BY <1>3, <1>7, <2>1, <2>2, SMTT(30)
<1>23. LinkInv'
  <2>1. Window(buffer', u, d) /\ Window(wire', u, d + Len(buffer'))
    BY <1>9, <1>19, <1>21
  <2> QED  BY <1>16, <1>17, <1>18, <1>22, <2>1, Zenon DEF LinkInv
<1>24. wire' \in Seq(Bytes)
  BY <1>21 DEF Window
<1> QED  BY <1>9, <1>10, <1>23, <1>24 DEF BufferInv

LEMMA WindowHead ==
  ASSUME NEW t \in Seq(Bytes), NEW r, NEW d, Window(r, t, d), NEW n \in 1 .. Len(r)
  PROVE  Window(SubSeq(r, 1, n), t, d) /\ Len(SubSeq(r, 1, n)) = n
<1>1. r \in Seq(Bytes) /\ d \in Nat /\ d + Len(r) <= Len(t)
      /\ (\A j \in 1 .. Len(r) : r[j] = t[d + j]) /\ Len(r) \in Nat
  BY DEF Window
<1> DEFINE q == SubSeq(r, 1, n)
<1>2. q \in Seq(Bytes) /\ Len(q) = n /\ \A j \in 1 .. n : q[j] = r[j]
  <2>1. n \in Nat /\ n <= Len(r)
    BY <1>1
  <2> QED  BY <1>1, <2>1, FirstBytes, Zenon
<1> HIDE DEF q
<1>3. \A j \in 1 .. n : q[j] = t[d + j]
  <2> DEFINE x == Len(r)
  <2>1. x \in Nat /\ n \in 1 .. x
    BY <1>1
  <2> HIDE DEF x
  <2>2. \A j \in 1 .. n : j \in 1 .. x
    BY <2>1
  <2>3. \A j \in 1 .. x : r[j] = t[d + j]
    BY <1>1 DEF x
  <2> QED  BY <1>2, <2>2, <2>3
<1>4. d + n <= Len(t)
  <2> DEFINE x == Len(r)
             y == Len(t)
  <2>1. d \in Nat /\ x \in Nat /\ y \in Nat /\ d + x <= y /\ n \in 1 .. x
    BY <1>1
  <2> HIDE DEF x, y
  <2>2. d + n <= y
    BY <2>1
  <2> QED  BY <2>2 DEF y
<1> QED  BY <1>1, <1>2, <1>3, <1>4 DEF Window, q

\* Two runs of lines, one after the other.
LEMMA SegmentsJoin ==
  ASSUME NEW lines, NEW k \in Nat, NEW j \in Nat, k <= j, NEW p, NEW q,
         IsSegment(p, lines, 0, k), IsSegment(q, lines, k, j)
  PROVE  IsSegment(p \o q, lines, 0, j)
<1> DEFINE Lines == Seq(Bytes)
           u == p \o q
           m == j - k
<1>1. p \in Seq(Lines) /\ Len(p) = k /\ \A i \in 1 .. k : p[i] = lines[i]
  <2>1. p \in Seq(Lines) /\ Len(p) = k - 0 /\ \A i \in 1 .. k - 0 : p[i] = lines[0 + i]
    BY DEF IsSegment
  <2>2. k - 0 = k /\ \A i \in 1 .. k : 0 + i = i
    OBVIOUS
  <2> QED  BY <2>1, <2>2
<1>2. q \in Seq(Lines) /\ Len(q) = m /\ \A i \in 1 .. m : q[i] = lines[k + i]
  BY DEF IsSegment
<1>3. m \in Nat /\ k + m = j
  OBVIOUS
<1> HIDE DEF Lines, m
<1>4. u \in Seq(Lines) /\ Len(u) = Len(p) + Len(q)
      /\ (\A i \in 1 .. Len(p) : u[i] = p[i]) /\ \A i \in 1 .. Len(q) : u[Len(p) + i] = q[i]
  <2>1. p \in Seq(Lines) /\ q \in Seq(Lines)
    BY <1>1, <1>2
  <2>2. p \o q \in Seq(Lines) /\ Len(p \o q) = Len(p) + Len(q)
    BY <2>1
  <2>3. \A i \in 1 .. Len(p) : (p \o q)[i] = p[i]
    BY <2>1
  <2>4. \A i \in 1 .. Len(q) : (p \o q)[Len(p) + i] = q[i]
    BY <2>1
  <2> QED  BY <2>2, <2>3, <2>4
<1> HIDE DEF u
<1>5. ASSUME NEW i \in 1 .. j PROVE u[i] = lines[i]
  <2>1. CASE i <= k
    BY <1>1, <1>4, <1>5, <2>1
  <2>2. CASE k < i
    <3>1. i - k \in 1 .. m /\ k + (i - k) = i
      BY <1>3, <1>5, <2>2
    <3> QED  BY <1>1, <1>2, <1>4, <3>1
  <2> QED  BY <1>5, <2>1, <2>2
<1>6. j - 0 = j /\ \A i \in 1 .. j : 0 + i = i
  OBVIOUS
<1>7. u \in Seq(Lines) /\ Len(u) = j - 0 /\ \A i \in 1 .. j - 0 : u[i] = lines[0 + i]
  BY <1>1, <1>2, <1>3, <1>4, <1>5, <1>6
<1> QED  BY <1>7 DEF IsSegment, u, Lines

\* The loop reads a chunk.
LEMMA ReceiveKeeps == BufferInv /\ Receive => BufferInv'
<1> SUFFICES ASSUME BufferInv, Receive PROVE BufferInv'
  OBVIOUS
<1>1. PICK n \in 1 .. Len(wire) :
        /\ wire' = SubSeq(wire, n + 1, Len(wire))
        /\ buffer' = Consume(buffer \o SubSeq(wire, 1, n)).rest
        /\ handled' = handled \o Consume(buffer \o SubSeq(wire, 1, n)).lines
        /\ sent' = sent /\ links' = links
  BY DEF Receive
<1>2. PICK t, cut : \E d \in Nat :
        /\ Framed(t, cut, sent)
        /\ IsSegment(handled, sent, 0, Len(handled)) /\ Len(handled) <= Len(sent)
        /\ At(t, cut, Len(handled), d)
        /\ Window(buffer, t, d) /\ Window(wire, t, d + Len(buffer))
        /\ d + Len(buffer) + Len(wire) = Len(t)
  BY DEF BufferInv, LinkInv
<1>3. PICK d \in Nat :
        /\ Framed(t, cut, sent)
        /\ IsSegment(handled, sent, 0, Len(handled)) /\ Len(handled) <= Len(sent)
        /\ At(t, cut, Len(handled), d)
        /\ Window(buffer, t, d) /\ Window(wire, t, d + Len(buffer))
        /\ d + Len(buffer) + Len(wire) = Len(t)
  BY <1>2
<1> DEFINE chunk == SubSeq(wire, 1, n)
           b == buffer \o chunk
           k == Len(handled)
           x == Len(buffer)
           y == Len(wire)
           result == Consume(b)
<1>4. /\ sent \in Seq(Seq(Bytes)) /\ handled \in Seq(Seq(Bytes)) /\ Len(sent) \in Nat
      /\ wire \in Seq(Bytes) /\ buffer \in Seq(Bytes) /\ k \in 0 .. Len(sent)
      /\ x \in Nat /\ y \in Nat /\ n \in 1 .. y
  BY <1>3 DEF BufferInv
<1>5. t \in Seq(Bytes) /\ Len(t) \in Nat
  BY <1>3 DEF Framed
<1>6. Window(chunk, t, d + Len(buffer)) /\ Len(chunk) = n
  BY <1>3, <1>5, WindowHead
<1>7. Window(b, t, d) /\ Len(b) = x + n
  <2>1. Window(b, t, d) /\ Len(b) = Len(buffer) + Len(chunk)
    BY <1>3, <1>5, <1>6, WindowsJoin, Zenon
  <2> QED  BY <1>6, <2>1
<1> HIDE DEF chunk, b, k
<1>8. Reaches(t, cut, sent, k, b, d, result) /\ Stuck(result.rest)
  BY <1>3, <1>4, <1>7, ConsumeReaches, Zenon DEF k
<1>9. buffer' = result.rest /\ handled' = handled \o result.lines
  BY <1>1 DEF b, chunk
<1> HIDE DEF result
<1>10. PICK e \in Nat, j \in k .. Len(sent) :
         /\ Window(result.rest, t, e) /\ At(t, cut, j, e)
         /\ e + Len(result.rest) = d + Len(b)
         /\ IsSegment(result.lines, sent, k, j)
  BY <1>8 DEF Reaches
<1>11. k \in Nat /\ j \in Nat /\ k <= j /\ j <= Len(sent)
  BY <1>4, <1>10
<1>12. IsSegment(handled', sent, 0, j)
  BY <1>3, <1>9, <1>10, <1>11, SegmentsJoin DEF k
<1>13. Len(handled') = j /\ handled' \in Seq(Seq(Bytes))
  BY <1>11, <1>12 DEF IsSegment
<1> HIDE DEF x, y
<1>14. IsTail(wire', wire, t, d + x, n + 1)
  <2>1. n + 1 \in 1 .. Len(wire) + 1
    BY <1>4 DEF y
  <2>2. Window(wire, t, d + x)
    BY <1>3 DEF x
  <2> QED  BY <1>1, <1>5, <2>1, <2>2, WindowTail
<1>15. Window(wire', t, d + x + n) /\ Len(wire') = y - n
  <2>1. (d + x) + (n + 1) - 1 = d + x + n /\ y - (n + 1) + 1 = y - n
    BY <1>4
  <2> QED  BY <1>14, <2>1 DEF IsTail, y
<1>16. e + Len(buffer') = d + x + n /\ Len(buffer') \in Nat /\ buffer' \in Seq(Bytes)
  <2>1. Len(result.rest) \in Nat /\ result.rest \in Seq(Bytes)
    BY <1>10 DEF Window
  <2>2. e + Len(result.rest) = d + (x + n) /\ d + (x + n) = d + x + n
    BY <1>4, <1>7, <1>10
  <2> QED  BY <1>9, <2>1, <2>2
<1>17. e + Len(buffer') + Len(wire') = Len(t)
  <2>1. d + x + y = Len(t)
    BY <1>3 DEF x, y
  <2>2. d + x + n + (y - n) = d + x + y
    BY <1>4
  <2> QED  BY <1>15, <1>16, <2>1, <2>2
<1>18. LinkInv'
  <2>1. Framed(t, cut, sent') /\ IsSegment(handled', sent', 0, Len(handled'))
        /\ Len(handled') <= Len(sent') /\ At(t, cut, Len(handled'), e)
    BY <1>1, <1>3, <1>10, <1>11, <1>12, <1>13
  <2>2. Window(buffer', t, e) /\ Window(wire', t, e + Len(buffer'))
    BY <1>9, <1>10, <1>15, <1>16
  <2> QED  BY <1>17, <2>1, <2>2, Zenon DEF LinkInv
<1>19. wire' \in Seq(Bytes)
  BY <1>15 DEF Window
<1> QED  BY <1>1, <1>8, <1>9, <1>13, <1>16, <1>18, <1>19 DEF BufferInv

LEMMA BufferInit == Init => BufferInv
<1> SUFFICES ASSUME Init PROVE BufferInv
  OBVIOUS
<1>1. links \in 1 .. MaxLinks
  BY BoundsAssumption DEF Init
<1> QED  BY <1>1, NothingSent DEF Init

LEMMA BufferNext == BufferInv /\ [Next]_vars => BufferInv'
<1> SUFFICES ASSUME BufferInv, [Next]_vars PROVE BufferInv'
  OBVIOUS
<1>1. CASE Confirm
  <2>1. PICK x \in TagBytes, y \in ResultBytes : Transmit(<<x, y>>, <<x, y>>)
    BY <1>1 DEF Confirm
  <2>2. Emits(<<x, y>>, <<x, y>>)
    BY DEF Emits, IsConfirmation
  <2> QED  BY <2>1, <2>2, TransmitKeeps
<1>2. CASE Report
  <2>1. PICK body \in Bodies, eol \in {<<"CR">>, <<"CR", "LF">>} : Transmit(body, body \o eol)
    BY <1>2 DEF Report
  <2>2. Emits(body, body \o eol)
    BY Zenon DEF Emits
  <2> QED  BY <2>1, <2>2, TransmitKeeps
<1>3. CASE Receive
  BY <1>3, ReceiveKeeps
<1>4. CASE Reconnect
  <2>1. /\ sent' = <<>> /\ wire' = <<>> /\ buffer' = <<>> /\ handled' = <<>>
        /\ links' \in 1 .. MaxLinks
    BY <1>4, BoundsAssumption DEF BufferInv, Reconnect
  <2>2. (sent = <<>> /\ wire = <<>> /\ buffer = <<>> /\ handled = <<>> /\ links \in 1 .. MaxLinks
         => BufferInv)'
    BY NothingSent, PTL
  <2> QED  BY <2>1, <2>2
<1>5. CASE UNCHANGED vars
  BY <1>5 DEF BufferInv, LinkInv, Stuck, vars
<1> QED  BY <1>1, <1>2, <1>3, <1>4, <1>5 DEF Next

LEMMA BufferAlways == Spec => []BufferInv
BY BufferInit, BufferNext, PTL DEF Spec

\* What waits in the buffer is part of the next line.
LEMMA BufferShort ==
  ASSUME BufferInv, NEW t, NEW cut, NEW d \in Nat, Framed(t, cut, sent),
         Len(handled) <= Len(sent), At(t, cut, Len(handled), d), Window(buffer, t, d),
         Len(buffer) > 0
  PROVE  /\ d = cut[Len(handled)] /\ Len(handled) < Len(sent)
         /\ \/ IsConfirmation(sent[Len(handled) + 1]) /\ Len(buffer) = 1
                 /\ cut[Len(handled) + 1] = d + 2
            \/ sent[Len(handled) + 1] \in Bodies /\ Len(buffer) <= Len(sent[Len(handled) + 1])
                 /\ cut[Len(handled) + 1] > d + Len(sent[Len(handled) + 1])
<1> DEFINE k == Len(handled)
           n == Len(buffer)
           last == Len(sent)
           line == sent[k + 1]
<1>1. /\ last \in Nat /\ k \in 0 .. last /\ buffer \in Seq(Bytes) /\ n \in Nat /\ n > 0
      /\ Stuck(buffer)
  BY DEF BufferInv
<1>2. d + n <= Len(t) /\ \A j \in 1 .. n : buffer[j] = t[d + j]
  BY DEF Window
<1>3. /\ t \in Seq(Bytes) /\ Len(t) \in Nat
      /\ cut \in [0 .. last -> 0 .. Len(t)] /\ cut[last] = Len(t)
      /\ \A i \in 1 .. last : Holds(t, cut[i - 1], cut[i], sent[i])
  BY DEF Framed
<1>4. At(t, cut, k, d)
  OBVIOUS
<1> HIDE DEF k, n, last
<1>5. d = cut[k]
  <2>1. buffer[1] \notin EolBytes
    BY <1>1 DEF Stuck, n
  <2>2. buffer[1] = t[d + 1]
    BY <1>1, <1>2
  <2>3. t[d + 1] # "LF"
    BY <2>1, <2>2 DEF EolBytes
  <2> QED  BY <1>4, <2>3 DEF At
<1>6. k < last
  <2>1. k # last
    BY <1>1, <1>2, <1>3, <1>5
  <2> QED  BY <1>1, <2>1
<1>7. cut[k + 1] \in Nat /\ Holds(t, d, cut[k + 1], line)
  <2>1. k + 1 \in 0 .. last /\ k + 1 \in 1 .. last /\ (k + 1) - 1 = k
    BY <1>1, <1>6
  <2>2. cut[k + 1] \in 0 .. Len(t) /\ Holds(t, cut[k], cut[k + 1], sent[k + 1])
    BY <1>3, <2>1
  <2> QED  BY <1>3, <1>5, <2>2
<1>8. CASE IsConfirmation(line) /\ cut[k + 1] = d + 2 /\ t[d + 1] = line[1]
           /\ t[cut[k + 1]] = line[2]
  <2>1. PICK x \in TagBytes, y \in ResultBytes : line = <<x, y>>
    BY <1>8 DEF IsConfirmation
  <2>2. n < 2
    <3> SUFFICES ASSUME n >= 2 PROVE FALSE
      BY <1>1
    <3>1. buffer[1] = x /\ buffer[2] = y
      BY <1>1, <1>2, <1>8, <2>1
    <3>2. StartsWithConfirmation(buffer)
      BY <3>1 DEF StartsWithConfirmation, n
    <3> QED  BY <1>1, <3>2 DEF Stuck
  <2>3. n = 1
    BY <1>1, <2>2
  <2> QED  BY <1>5, <1>6, <1>8, <2>3 DEF k, n, last
<1>9. CASE /\ line \in Bodies
           /\ \A j \in 1 .. Len(line) : t[d + j] = line[j]
           /\ t[d + Len(line) + 1] = "CR"
           /\ \/ cut[k + 1] = d + Len(line) + 1
              \/ cut[k + 1] = d + Len(line) + 2 /\ t[cut[k + 1]] = "LF"
  <2> DEFINE m == Len(line)
  <2>1. m \in Nat /\ m > 0 /\ line[1] = "0"
    BY <1>9, BodiesAssumption
  <2> HIDE DEF m
  <2>2. buffer[1] = "0"
    BY <1>1, <1>2, <1>9, <2>1, SMTT(30) DEF m
  <2>3. ~Undecided(buffer)
    BY <2>2 DEF Undecided, TagBytes
  <2>4. CrPosition(buffer) = 0
    BY <1>1, <2>3 DEF Stuck
  <2>5. n <= m
    <3> SUFFICES ASSUME n > m PROVE FALSE
      BY <1>1, <2>1
    <3>1. m + 1 \in 1 .. n /\ d + (m + 1) = d + m + 1
      BY <1>1, <2>1
    <3>2. buffer[m + 1] = "CR"
      BY <1>2, <1>9, <3>1 DEF m
    <3> QED  BY <1>1, <2>4, <3>1, <3>2, NoCr DEF n
  <2>6. cut[k + 1] > d + m
    BY <1>9, <2>1 DEF m
  <2> QED  BY <1>5, <1>6, <1>9, <2>5, <2>6 DEF k, n, last, m
<1> QED  BY <1>7, <1>8, <1>9 DEF Holds

\* Types: for any replies, sent and cut in any way, the buffer never holds more
\* than one reply without its CR or the first byte of a confirmation
\* (_consume_receive_buffer).
THEOREM TypeCorrect == Spec => []TypeOK
<1>1. BufferInv => TypeOK
  <2> SUFFICES ASSUME BufferInv, Len(buffer) > 0
               PROVE  Len(buffer) <= 1 \/ \E b \in Bodies : Len(buffer) <= Len(b)
    BY DEF BufferInv, TypeOK
  <2>1. PICK t, cut : \E d \in Nat :
          /\ Framed(t, cut, sent)
          /\ Len(handled) <= Len(sent) /\ At(t, cut, Len(handled), d) /\ Window(buffer, t, d)
    BY DEF BufferInv, LinkInv
  <2>2. PICK d \in Nat :
          /\ Framed(t, cut, sent)
          /\ Len(handled) <= Len(sent) /\ At(t, cut, Len(handled), d) /\ Window(buffer, t, d)
    BY <2>1
  <2>3. \/ Len(buffer) = 1
        \/ /\ sent[Len(handled) + 1] \in Bodies
           /\ Len(buffer) <= Len(sent[Len(handled) + 1])
    BY <2>2, BufferShort
  <2> DEFINE n == Len(buffer)
  <2> HIDE DEF n
  <2>4. CASE n = 1
    <3>1. n <= 1
      BY <2>4
    <3> QED  BY <3>1 DEF n
  <2>5. CASE n # 1
    <3>1. /\ sent[Len(handled) + 1] \in Bodies
          /\ Len(buffer) <= Len(sent[Len(handled) + 1])
      BY <2>3, <2>5 DEF n
    <3> QED  BY <3>1, Zenon
  <2> QED  BY <2>4, <2>5
<1> QED  BY <1>1, BufferAlways, PTL

\* However TCP cuts the stream, the lines given to _handle_line are the lines
\* the CNI sent on this connection: none is split, merged, lost, repeated or
\* reordered.
THEOREM FramingIsExact == Spec => []FramingExact
<1>1. BufferInv => FramingExact
  <2> SUFFICES ASSUME BufferInv PROVE FramingExact
    OBVIOUS
  <2> DEFINE k == Len(handled)
  <2>1. /\ handled \in Seq(Seq(Bytes)) /\ sent \in Seq(Seq(Bytes))
        /\ IsSegment(handled, sent, 0, k) /\ k <= Len(sent)
    BY DEF BufferInv, LinkInv
  <2>2. k \in Nat /\ Len(sent) \in Nat /\ k - 0 = k /\ \A i \in 1 .. k : 0 + i = i
    BY <2>1
  <2>3. \A i \in 1 .. k : handled[i] = sent[i]
    BY <2>1, <2>2 DEF IsSegment
  <2> QED  BY <2>1, <2>2, <2>3 DEF FramingExact, IsPrefix
<1> QED  BY <1>1, BufferAlways, PTL

\* Nothing that has completely arrived waits in the buffer: when the wire is
\* empty every line, a confirmation without terminator included, is handled.
THEOREM LinesAreHandledAtOnce == Spec => []HandledAtOnce
<1>1. BufferInv => HandledAtOnce
  <2> SUFFICES ASSUME BufferInv, wire = <<>> PROVE handled = sent
    BY DEF HandledAtOnce
  <2> DEFINE k == Len(handled)
             n == Len(buffer)
             last == Len(sent)
  <2>1. PICK t, cut : \E d \in Nat :
          /\ Framed(t, cut, sent) /\ IsSegment(handled, sent, 0, k)
          /\ k <= last /\ At(t, cut, k, d) /\ Window(buffer, t, d)
          /\ d + n + Len(wire) = Len(t)
    BY DEF BufferInv, LinkInv
  <2>2. PICK d \in Nat :
          /\ Framed(t, cut, sent) /\ IsSegment(handled, sent, 0, k)
          /\ k <= last /\ At(t, cut, k, d) /\ Window(buffer, t, d)
          /\ d + n + Len(wire) = Len(t)
    BY <2>1
  <2>3. /\ handled \in Seq(Seq(Bytes)) /\ sent \in Seq(Seq(Bytes)) /\ k \in Nat /\ last \in Nat
        /\ n \in Nat /\ Len(wire) = 0
    BY DEF BufferInv
  <2>4. /\ t \in Seq(Bytes) /\ Len(t) \in Nat /\ cut \in [0 .. last -> 0 .. Len(t)]
        /\ \A i \in 1 .. last : Holds(t, cut[i - 1], cut[i], sent[i])
    BY <2>2 DEF Framed
  <2>5. d + n = Len(t)
    BY <2>2, <2>3
  <2>6. k = last
    <3> SUFFICES ASSUME k < last PROVE FALSE
      BY <2>2, <2>3
    <3>1. k + 1 \in 1 .. last /\ k \in 0 .. last /\ k + 1 \in 0 .. last /\ (k + 1) - 1 = k
      BY <2>3
    <3>2. cut[k + 1] <= Len(t) /\ cut[k + 1] \in Nat /\ cut[k] \in Nat
          /\ Holds(t, cut[k], cut[k + 1], sent[k + 1])
      <4>1. cut[k + 1] \in 0 .. Len(t) /\ cut[k] \in 0 .. Len(t)
        BY <2>4, <3>1
      <4> QED  BY <2>4, <3>1, <4>1
    <3>3. n # 0
      <4> SUFFICES ASSUME n = 0 PROVE FALSE
        OBVIOUS
      <4>1. d = Len(t) /\ d <= cut[k]
        BY <2>2, <2>5, <3>2 DEF At
      <4>2. cut[k] + 2 <= cut[k + 1]
        BY <2>4, <3>2, LineStarts
      <4> QED  BY <2>4, <3>2, <4>1, <4>2
    <3>4. \/ n = 1 /\ cut[k + 1] = d + 2
          \/ n <= Len(sent[k + 1]) /\ cut[k + 1] > d + Len(sent[k + 1])
      BY <2>2, <2>3, <3>3, BufferShort
    <3>5. Len(sent[k + 1]) \in Nat
      BY <2>3, <3>1
    <3> DEFINE m == Len(sent[k + 1])
               next == cut[k + 1]
               size == Len(t)
    <3>6. m \in Nat /\ next \in Nat /\ size \in Nat /\ next <= size /\ n \in Nat /\ d + n = size
      BY <2>3, <2>4, <2>5, <3>2, <3>5
    <3>7. (n = 1 /\ next = d + 2) \/ (n <= m /\ next > d + m)
      BY <3>4
    <3> HIDE DEF m, next, size, n
    <3> QED  BY <3>6, <3>7
  <2>7. \A i \in 1 .. k : handled[i] = sent[i]
    <3>1. k - 0 = k /\ \A i \in 1 .. k : 0 + i = i
      BY <2>3
    <3> QED  BY <2>2, <3>1 DEF IsSegment
  <2>8. handled = sent
    <3> DEFINE Lines == Seq(Bytes)
    <3>1. /\ handled \in Seq(Lines) /\ sent \in Seq(Lines) /\ Len(handled) = Len(sent)
          /\ \A i \in 1 .. Len(handled) : handled[i] = sent[i]
      BY <2>3, <2>6, <2>7
    <3> HIDE DEF Lines
    <3> QED  BY <3>1
  <2> QED  BY <2>8
<1> QED  BY <1>1, BufferAlways, PTL
=============================================================================
