------------------------ MODULE ClientPacketsProofs -------------------------
(***************************************************************************)
(* What the classes of the client's packets compute: unboxing undoes       *)
(* boxing, for every string and however many topics.  The loops over the   *)
(* topics are recursive functions, and SetInduction the induction on them. *)
(***************************************************************************)
EXTENDS ClientPackets, PacketsProofs, WellFoundedInduction

\* Induction, over a set of numbers.
LEMMA SetInduction ==
  ASSUME NEW S, 0 \in S, \A n \in Nat : n \in S => n + 1 \in S
  PROVE  \A n \in Nat : n \in S
<1> DEFINE T == Nat \ S
           R == OpToRel(<, Nat)
<1> SUFFICES ASSUME T # {} PROVE FALSE
  OBVIOUS
<1>1. IsWellFoundedOn(R, Nat)
  BY Zenon, NatLessThanWellFounded
<1>2. T \subseteq Nat
  OBVIOUS
<1> HIDE DEF R
<1>3. PICK x \in T : \A y \in T : ~(<<y, x>> \in R)
  BY <1>1, <1>2, WFMin
<1>4. \A y \in T : ~(y < x)
  BY Zenon, <1>2, <1>3 DEF R, OpToRel
<1>5. x # 0 /\ x \in Nat /\ x \notin S
  BY <1>3
<1>6. x - 1 \in Nat /\ x - 1 < x /\ (x - 1) + 1 = x
  BY <1>5
<1>7. x - 1 \in S
  BY <1>4, <1>6
<1> QED
  BY <1>5, <1>6, <1>7

-----------------------------------------------------------------------------
(* Pieces, one behind the other.                                           *)

\* J[i] is what Concat puts behind the first i pieces.
Behind(J, pieces) ==
  /\ J \in [0..Len(pieces) -> Seq(Byte)]
  /\ J[Len(pieces)] = <<>>
  /\ \A i \in 1..Len(pieces) : J[i - 1] = pieces[i] \o J[i]
  /\ J[0] = Concat(pieces)

\* Concat is defined for all sequences of pieces.
LEMMA ConcatParts ==
  ASSUME NEW pieces \in Seq(Seq(Byte))
  PROVE  \E J : Behind(J, pieces)
<1> DEFINE n == Len(pieces)
           \* g is right at the last k places but one.
           Right(g, k) ==
             /\ g \in [0..n -> Seq(Byte)]
             /\ g[n] = <<>>
             /\ \A i \in 0..(n - 1) : i >= n - k => g[i] = pieces[i + 1] \o g[i + 1]
           S == {k \in Nat : k <= n => \E g : Right(g, k)}
           Def(g) == [i \in 0..n |-> IF i = n THEN <<>> ELSE pieces[i + 1] \o g[i + 1]]
<1>1. n \in Nat /\ \A i \in 1..n : pieces[i] \in Seq(Byte)
  BY LenProperties, ElementOfSeq
<1>2. <<>> \in Seq(Byte)
  BY EmptySeq
<1> HIDE DEF n, Right
<1>3. 0 \in S
  <2> DEFINE g == [i \in 0..n |-> <<>>]
  <2>1. g \in [0..n -> Seq(Byte)] /\ g[n] = <<>>
    BY <1>1, <1>2
  <2>2. \A i \in 0..(n - 1) : ~(i >= n - 0)
    BY <1>1
  <2> HIDE DEF g
  <2>3. Right(g, 0)
    BY <2>1, <2>2 DEF Right
  <2> QED
    BY <2>3
<1>4. ASSUME NEW k \in Nat, k \in S
      PROVE  k + 1 \in S
  <2> SUFFICES ASSUME k + 1 <= n
               PROVE  \E g : Right(g, k + 1)
    OBVIOUS
  <2>1. k <= n
    BY <1>1
  <2>2. PICK g : Right(g, k)
    BY <1>4, <2>1
  <2>3. /\ g \in [0..n -> Seq(Byte)]
        /\ g[n] = <<>>
        /\ \A i \in 0..(n - 1) : i >= n - k => g[i] = pieces[i + 1] \o g[i + 1]
    BY <2>2 DEF Right
  <2> DEFINE m == n - (k + 1)
             h == [g EXCEPT ![m] = pieces[m + 1] \o g[m + 1]]
  <2>4. m \in 0..n /\ m + 1 \in 1..n /\ m + 1 \in 0..n /\ m # n
    BY <1>1
  <2> HIDE DEF m
  <2>5. pieces[m + 1] \o g[m + 1] \in Seq(Byte)
    <3>1. pieces[m + 1] \in Seq(Byte) /\ g[m + 1] \in Seq(Byte)
      BY <1>1, <2>3, <2>4
    <3> QED
      BY <3>1, ConcatProperties
  <2>6. h \in [0..n -> Seq(Byte)] /\ h[n] = <<>>
    BY <2>3, <2>4, <2>5
  <2>7. ASSUME NEW i \in 0..(n - 1), i >= n - (k + 1)
        PROVE  h[i] = pieces[i + 1] \o h[i + 1]
    <3>1. i \in 0..n /\ i + 1 \in 0..n /\ i + 1 # m /\ (i # m => i >= n - k)
      BY <1>1, <2>7 DEF m
    <3>2. h[i + 1] = g[i + 1]
      BY <2>3, <3>1
    <3>3. CASE i = m
      BY <2>3, <3>1, <3>2, <3>3
    <3>4. CASE i # m
      BY <2>3, <3>1, <3>2, <3>4
    <3> QED
      BY <3>3, <3>4
  <2> HIDE DEF h
  <2>8. Right(h, k + 1)
    BY <2>6, <2>7 DEF Right
  <2> QED
    BY <2>8
<1>5. PICK g : Right(g, n)
  <2>1. n \in S
    <3> HIDE DEF S
    <3>1. \A k \in Nat : k \in S => k + 1 \in S
      BY <1>4
    <3>2. \A k \in Nat : k \in S
      BY <1>3, <3>1, SetInduction
    <3> QED
      BY <1>1, <3>2
  <2>2. n <= n
    BY <1>1
  <2> QED
    BY <2>1, <2>2
<1>6. /\ g \in [0..n -> Seq(Byte)]
      /\ g[n] = <<>>
      /\ \A i \in 0..(n - 1) : g[i] = pieces[i + 1] \o g[i + 1]
  <2>1. \A i \in 0..(n - 1) : i >= n - n
    BY <1>1
  <2> QED
    BY <1>5, <2>1 DEF Right
<1>7. g = Def(g)
  <2>1. g = [i \in 0..n |-> g[i]]
    BY <1>6
  <2>2. \A i \in 0..n : i # n => i \in 0..(n - 1)
    BY <1>1
  <2>3. \A i \in 0..n : g[i] = IF i = n THEN <<>> ELSE pieces[i + 1] \o g[i + 1]
    BY <1>6, <2>2
  <2> QED
    BY <2>1, <2>3
<1> DEFINE f == CHOOSE f : f = Def(f)
<1>8. f = Def(f)
  BY <1>7
<1>9. Concat(pieces) = f[0]
  BY DEF Concat, n
<1> HIDE DEF f
<1>10. /\ DOMAIN f = 0..n
       /\ f[n] = <<>>
       /\ \A i \in 0..(n - 1) : f[i] = pieces[i + 1] \o f[i + 1]
  <2>1. \A i \in 0..n : f[i] = IF i = n THEN <<>> ELSE pieces[i + 1] \o f[i + 1]
    BY <1>8
  <2>2. n \in 0..n /\ \A i \in 0..(n - 1) : i \in 0..n /\ i # n
    BY <1>1
  <2>3. DOMAIN f = 0..n
    BY <1>8
  <2> QED
    BY <2>1, <2>2, <2>3
<1>11. f \in [0..n -> Seq(Byte)]
  <2> DEFINE U == {k \in Nat : k <= n => f[n - k] \in Seq(Byte)}
  <2>1. 0 \in U
    BY <1>1, <1>2, <1>10
  <2>2. ASSUME NEW k \in Nat, k \in U
        PROVE  k + 1 \in U
    <3> SUFFICES ASSUME k + 1 <= n
                 PROVE  f[n - (k + 1)] \in Seq(Byte)
      OBVIOUS
    <3> DEFINE i == n - (k + 1)
    <3>1. i \in 0..(n - 1) /\ i + 1 \in 1..n /\ i + 1 = n - k /\ k <= n
      BY <1>1
    <3> HIDE DEF i
    <3>2. f[i + 1] \in Seq(Byte) /\ pieces[i + 1] \in Seq(Byte)
      BY <1>1, <2>2, <3>1
    <3>3. f[i] = pieces[i + 1] \o f[i + 1]
      BY <1>10, <3>1
    <3>4. f[i] \in Seq(Byte)
      BY <3>2, <3>3, ConcatProperties
    <3> QED
      BY <3>4 DEF i
  <2>3. \A k \in Nat : k \in U
    <3> HIDE DEF U
    <3>1. \A k \in Nat : k \in U => k + 1 \in U
      BY <2>2
    <3> QED
      BY <2>1, <3>1, SetInduction
  <2>4. \A i \in 0..n : f[i] \in Seq(Byte)
    <3> TAKE i \in 0..n
    <3>1. n - i \in Nat /\ n - i <= n /\ n - (n - i) = i
      BY <1>1
    <3> QED
      BY <2>3, <3>1
  <2>5. f = [i \in 0..n |-> f[i]]
    BY <1>8
  <2> QED
    BY <2>4, <2>5
<1>12. \A i \in 1..n : f[i - 1] = pieces[i] \o f[i]
  <2> TAKE i \in 1..n
  <2>1. i - 1 \in 0..(n - 1) /\ (i - 1) + 1 = i
    BY <1>1
  <2> QED
    BY <1>10, <2>1
<1>13. Behind(f, pieces)
  BY <1>9, <1>10, <1>11, <1>12 DEF Behind, n
<1> QED
  BY <1>13

\* No piece is longer than the whole, and k pieces of a byte or more have k bytes.
LEMMA PiecesFit ==
  ASSUME NEW pieces \in Seq(Seq(Byte)), NEW J, Behind(J, pieces)
  PROVE  /\ \A i \in 1..Len(pieces) : Len(pieces[i]) <= Len(Concat(pieces))
         /\ (\A i \in 1..Len(pieces) : Len(pieces[i]) >= 1)
            => \A k \in 0..Len(pieces) : Len(J[Len(pieces) - k]) >= k
<1> DEFINE n == Len(pieces)
           len(i) == Len(J[i])
<1>1. n \in Nat
  BY LenProperties
<1>2. \A i \in 1..n : pieces[i] \in Seq(Byte) /\ Len(pieces[i]) \in Nat
  BY ElementOfSeq, LenProperties
<1>3. /\ \A i \in 0..n : J[i] \in Seq(Byte)
      /\ J[n] = <<>>
      /\ \A i \in 1..n : J[i - 1] = pieces[i] \o J[i]
      /\ J[0] = Concat(pieces)
  BY DEF Behind
<1>4. \A i \in 0..n : len(i) \in Nat
  BY <1>3, LenProperties
<1>5. \A i \in 1..n : i \in 0..n /\ i - 1 \in 0..n
  BY <1>1
<1>6. \A i \in 1..n : len(i - 1) = Len(pieces[i]) + len(i)
  <2> TAKE i \in 1..n
  <2>1. pieces[i] \in Seq(Byte) /\ J[i] \in Seq(Byte) /\ J[i - 1] = pieces[i] \o J[i]
    BY <1>2, <1>3, <1>5
  <2>2. Len(pieces[i] \o J[i]) = Len(pieces[i]) + Len(J[i])
    BY <2>1, ConcatProperties
  <2> QED
    BY <2>1, <2>2
<1> HIDE DEF n, len
<1>7. \A i \in 0..n : len(i) <= len(0)
  <2> DEFINE S == {i \in Nat : i <= n => len(i) <= len(0)}
  <2>1. 0 \in S
    BY <1>1, <1>4
  <2>2. ASSUME NEW i \in Nat, i \in S
        PROVE  i + 1 \in S
    <3> SUFFICES ASSUME i + 1 <= n
                 PROVE  len(i + 1) <= len(0)
      OBVIOUS
    <3>1. i + 1 \in 1..n /\ (i + 1) - 1 = i /\ i <= n /\ i \in 0..n /\ i + 1 \in 0..n /\ 0 \in 0..n
      BY <1>1
    <3>2. len(i) = Len(pieces[i + 1]) + len(i + 1) /\ len(i) <= len(0)
      BY <1>6, <2>2, <3>1
    <3>3. Len(pieces[i + 1]) \in Nat /\ len(i + 1) \in Nat /\ len(0) \in Nat
      BY <1>2, <1>4, <3>1
    <3> QED
      BY <3>2, <3>3
  <2>3. \A i \in Nat : i \in S
    <3> HIDE DEF S
    <3>1. \A i \in Nat : i \in S => i + 1 \in S
      BY <2>2
    <3> QED
      BY <2>1, <3>1, SetInduction
  <2> QED
    BY <1>1, <2>3
<1>8. \A i \in 1..n : Len(pieces[i]) <= len(0)
  <2> TAKE i \in 1..n
  <2>1. len(i - 1) = Len(pieces[i]) + len(i) /\ len(i - 1) <= len(0)
    BY <1>5, <1>6, <1>7
  <2>2. Len(pieces[i]) \in Nat /\ len(i) \in Nat /\ len(0) \in Nat
    BY <1>1, <1>2, <1>4, <1>5
  <2> QED
    BY <2>1, <2>2
<1>9. ASSUME \A i \in 1..n : Len(pieces[i]) >= 1
      PROVE  \A k \in 0..n : len(n - k) >= k
  <2> DEFINE S == {k \in Nat : k <= n => len(n - k) >= k}
  <2>1. 0 \in S
    <3>1. n - 0 = n /\ n \in 0..n
      BY <1>1
    <3>2. len(n) \in Nat
      BY <1>4, <3>1
    <3> QED
      BY <3>1, <3>2
  <2>2. ASSUME NEW k \in Nat, k \in S
        PROVE  k + 1 \in S
    <3> SUFFICES ASSUME k + 1 <= n
                 PROVE  len(n - (k + 1)) >= k + 1
      OBVIOUS
    <3> DEFINE i == n - k
    <3>1. i \in 1..n /\ i - 1 = n - (k + 1) /\ k <= n
      BY <1>1
    <3> HIDE DEF i
    <3>2. len(i - 1) = Len(pieces[i]) + len(i) /\ Len(pieces[i]) >= 1
      BY <1>6, <1>9, <3>1
    <3>3. len(i) >= k
      BY <2>2, <3>1 DEF i
    <3>4. Len(pieces[i]) \in Nat /\ len(i) \in Nat
      BY <1>2, <1>4, <1>5, <3>1
    <3>5. len(i - 1) >= k + 1
      BY <3>2, <3>3, <3>4
    <3> QED
      BY <3>1, <3>5
  <2>3. \A k \in Nat : k \in S
    <3> HIDE DEF S
    <3>1. \A k \in Nat : k \in S => k + 1 \in S
      BY <2>2
    <3> QED
      BY <2>1, <3>1, SetInduction
  <2> QED
    BY <1>1, <2>3
<1> QED
  BY <1>3, <1>8, <1>9 DEF n, len

\* The encoded strings are bytes, none of the strings longer than they all are.
LEMMA EncodedPieces ==
  ASSUME NEW strings \in Seq(Seq(Byte))
  PROVE  LET pieces == [i \in 1..Len(strings) |-> encode_bytes(strings[i])]
         IN  /\ pieces \in Seq(Seq(Byte))
             /\ Len(pieces) = Len(strings)
             /\ EncodeAll(strings) = Concat(pieces)
             /\ \A i \in 1..Len(strings) : /\ strings[i] \in Seq(Byte)
                                           /\ pieces[i] = encode_bytes(strings[i])
                                           /\ Len(pieces[i]) = 2 + Len(strings[i])
<1> DEFINE n == Len(strings)
           pieces == [i \in 1..n |-> encode_bytes(strings[i])]
<1>1. n \in Nat
  BY LenProperties
<1>2. \A i \in 1..n : strings[i] \in Seq(Byte)
  BY ElementOfSeq
<1>3. \A i \in 1..n : /\ encode_bytes(strings[i]) \in Seq(Byte)
                      /\ Len(encode_bytes(strings[i])) = 2 + Len(strings[i])
  BY <1>2, EncodedBytes
<1>4. pieces \in Seq(Seq(Byte)) /\ Len(pieces) = n
  <2> HIDE DEF n
  <2>1. pieces \in [1..n -> Seq(Byte)]
    BY <1>3
  <2> QED
    BY <1>1, <2>1, LenProperties
<1>5. EncodeAll(strings) = Concat(pieces)
  BY DEF EncodeAll
<1> QED
  BY <1>2, <1>3, <1>4, <1>5

\* The length of the string fits in its two bytes.
Short(s) == Len(s) < 65536

\* decode_bytes gives back a short string, and leaves what follows it.
LEMMA ShortRoundTrip ==
  ASSUME NEW s \in Seq(Byte), NEW t \in Seq(Byte), Short(s)
  PROVE  /\ decoded(encode_bytes(s) \o t) = s
         /\ undecoded(encode_bytes(s) \o t) = t
  BY SMT, StringRoundTrip DEF Short

\* So many calls of decode_bytes as there are strings give them back.
LEMMA StringsDecoded ==
  ASSUME NEW strings \in Seq(Seq(Byte)),
         \A i \in 1..Len(strings) : Short(strings[i])
  PROVE  /\ EncodeAll(strings) \in Seq(Byte)
         /\ Strings(EncodeAll(strings), Len(strings)) = strings
<1> DEFINE n == Len(strings)
           s == EncodeAll(strings)
           pieces == [i \in 1..n |-> encode_bytes(strings[i])]
           Def(f) == [i \in 0..n |-> IF i = 0 THEN s ELSE undecoded(f[i - 1])]
<1>1. n \in Nat
  BY LenProperties
<1>2. /\ pieces \in Seq(Seq(Byte)) /\ Len(pieces) = n
      /\ s = Concat(pieces)
      /\ \A i \in 1..n : strings[i] \in Seq(Byte) /\ pieces[i] = encode_bytes(strings[i])
  BY EncodedPieces
<1>5. \A i \in 1..n : Short(strings[i])
  OBVIOUS
<1> HIDE DEF n, s, pieces
<1>3. PICK J : Behind(J, pieces)
  BY <1>2, ConcatParts
<1>4. /\ \A i \in 0..n : J[i] \in Seq(Byte)
      /\ \A i \in 1..n : J[i - 1] = pieces[i] \o J[i]
      /\ J[0] = s
  BY <1>2, <1>3 DEF Behind
<1>6. ASSUME NEW i \in 1..n
      PROVE  decoded(J[i - 1]) = strings[i] /\ undecoded(J[i - 1]) = J[i]
  <2>1. i \in 0..n
    BY <1>1
  <2>2. strings[i] \in Seq(Byte) /\ Short(strings[i])
    BY <1>2, <1>5
  <2>3. J[i] \in Seq(Byte) /\ J[i - 1] = pieces[i] \o J[i]
    BY <1>4, <2>1
  <2>4. pieces[i] = encode_bytes(strings[i])
    BY <1>2
  <2> QED
    BY <2>2, <2>3, <2>4, ShortRoundTrip
<1>7. J = Def(J)
  <2>1. \A i \in 0..n : i # 0 => i \in 1..n
    BY <1>1
  <2>2. \A i \in 0..n : J[i] = IF i = 0 THEN s ELSE undecoded(J[i - 1])
    <3> TAKE i \in 0..n
    <3>1. CASE i = 0
      BY <1>4, <3>1
    <3>2. CASE i # 0
      BY <1>6, <2>1, <3>2
    <3> QED
      BY <3>1, <3>2
  <2>3. J = [i \in 0..n |-> J[i]]
    BY <1>2, <1>3 DEF Behind
  <2> QED
    BY <2>2, <2>3
<1> DEFINE f == CHOOSE f : f = Def(f)
<1>8. f = Def(f)
  BY <1>7
<1>9. Strings(s, n) = [i \in 1..n |-> decoded(f[i - 1])]
  BY DEF Strings
<1> HIDE DEF f
<1>10. \A i \in 0..n : f[i] = IF i = 0 THEN s ELSE undecoded(f[i - 1])
  BY <1>8
<1>11. \A i \in 0..n : f[i] = J[i]
  <2> DEFINE S == {i \in Nat : i <= n => f[i] = J[i]}
  <2>1. 0 \in S
    <3>1. 0 \in 0..n
      BY <1>1
    <3> QED
      BY <1>4, <1>10, <3>1
  <2>2. ASSUME NEW i \in Nat, i \in S
        PROVE  i + 1 \in S
    <3> SUFFICES ASSUME i + 1 <= n
                 PROVE  f[i + 1] = J[i + 1]
      OBVIOUS
    <3>1. i + 1 \in 1..n /\ i + 1 \in 0..n /\ (i + 1) - 1 = i /\ i + 1 # 0 /\ i <= n
      BY <1>1
    <3>2. f[i + 1] = undecoded(f[i])
      BY <1>10, <3>1
    <3>3. J[i + 1] = undecoded(J[i])
      BY <1>6, <3>1
    <3> QED
      BY <2>2, <3>1, <3>2, <3>3
  <2>3. \A i \in Nat : i \in S
    <3> HIDE DEF S
    <3>1. \A i \in Nat : i \in S => i + 1 \in S
      BY <2>2
    <3> QED
      BY <2>1, <3>1, SetInduction
  <2> QED
    BY <1>1, <2>3
<1>12. \A i \in 1..n : decoded(f[i - 1]) = strings[i]
  <2>1. \A i \in 1..n : i - 1 \in 0..n
    BY <1>1
  <2> QED
    BY <1>6, <1>11, <2>1
<1>13. Strings(s, n) = strings
  <2>1. strings = [i \in 1..n |-> strings[i]]
    BY LenProperties DEF n
  <2> QED
    BY <1>9, <1>12, <2>1
<1>14. s \in Seq(Byte)
  <2>1. 0 \in 0..n
    BY <1>1
  <2> QED
    BY <1>4, <2>1
<1> QED
  BY <1>13, <1>14 DEF n, s

-----------------------------------------------------------------------------
(* The loop of SUBSCRIBE and UNSUBSCRIBE over their topics.                *)

\* What follows the bytes dropped.
LEMMA Dropped ==
  ASSUME NEW u \in Seq(Byte), NEW v \in Seq(Byte)
  PROVE  Drop(u \o v, Len(u)) = v
  BY SecondHalf DEF Drop

\* Concatenation of three sequences of bytes, from either side.
LEMMA BytesAssociative ==
  ASSUME NEW u \in Seq(Byte), NEW v \in Seq(Byte), NEW w \in Seq(Byte)
  PROVE  (u \o v) \o w = u \o (v \o w)
  BY SMT

\* The m pieces of a payload: each a short string, and extra bytes more.
Entries(m, pieces, strings, tails, extra) ==
  \A i \in 1..m : /\ strings[i] \in Seq(Byte) /\ Short(strings[i])
                  /\ tails[i] \in Seq(Byte) /\ Len(tails[i]) = extra
                  /\ pieces[i] = encode_bytes(strings[i]) \o tails[i]

\* A loop over payload_len makes m passes, and finds the i-th string, and what
\* is behind it, at the i-th.
Recovered(m, left, n, strings, tails) ==
  /\ Passes(left, n) = 1..m
  /\ \A i \in 1..m : /\ decoded(left[i - 1]) = strings[i]
                     /\ \E v \in Seq(Byte) : undecoded(left[i - 1]) = tails[i] \o v

\* The loop takes the pieces that boxing has put one behind the other.
LEMMA PayloadDecoded ==
  ASSUME NEW m \in Nat, NEW pieces \in Seq(Seq(Byte)), Len(pieces) = m,
         NEW strings, NEW tails, NEW extra \in Nat,
         Entries(m, pieces, strings, tails, extra),
         NEW s, NEW n \in Nat, SubSeq(s, 3, n) = Concat(pieces), Len(Concat(pieces)) <= n
  PROVE  Recovered(m, Payload(s, n, extra), n, strings, tails)
<1> DEFINE a == SubSeq(s, 3, n)
           next(l) == IF l = <<>> THEN <<>> ELSE Drop(undecoded(l), extra)
           Def(f) == [i \in 0..n |-> IF i = 0 THEN a ELSE next(f[i - 1])]
<1>0. \A i \in 1..m : /\ strings[i] \in Seq(Byte) /\ Short(strings[i])
                      /\ tails[i] \in Seq(Byte) /\ Len(tails[i]) = extra
                      /\ pieces[i] = encode_bytes(strings[i]) \o tails[i]
  BY DEF Entries
<1>1. PICK J : Behind(J, pieces)
  BY ConcatParts
<1>2. /\ \A i \in 0..m : J[i] \in Seq(Byte)
      /\ J[m] = <<>>
      /\ \A i \in 1..m : J[i - 1] = pieces[i] \o J[i]
      /\ J[0] = Concat(pieces)
  BY <1>1 DEF Behind
<1>3. a = J[0]
  BY <1>2
<1> HIDE DEF a
<1>4. ASSUME NEW i \in 1..m
      PROVE  /\ decoded(J[i - 1]) = strings[i]
             /\ undecoded(J[i - 1]) = tails[i] \o J[i]
             /\ J[i] \in Seq(Byte)
             /\ Drop(undecoded(J[i - 1]), extra) = J[i]
             /\ Len(pieces[i]) >= 1
  <2>1. i \in 0..m
    OBVIOUS
  <2>2. /\ strings[i] \in Seq(Byte) /\ Short(strings[i])
        /\ tails[i] \in Seq(Byte) /\ Len(tails[i]) = extra
    BY <1>0
  <2>3. J[i] \in Seq(Byte)
    BY <1>2, <2>1
  <2>4. encode_bytes(strings[i]) \in Seq(Byte) /\ Len(encode_bytes(strings[i])) = 2 + Len(strings[i])
    BY <2>2, EncodedBytes
  <2>5. pieces[i] = encode_bytes(strings[i]) \o tails[i]
    BY <1>0
  <2>6. J[i - 1] = encode_bytes(strings[i]) \o (tails[i] \o J[i])
    <3>1. J[i - 1] = (encode_bytes(strings[i]) \o tails[i]) \o J[i]
      BY <1>2, <2>5
    <3>2. (encode_bytes(strings[i]) \o tails[i]) \o J[i]
          = encode_bytes(strings[i]) \o (tails[i] \o J[i])
      BY <2>2, <2>3, <2>4, BytesAssociative
    <3> QED
      BY <3>1, <3>2
  <2>7. tails[i] \o J[i] \in Seq(Byte)
    BY <2>2, <2>3, ConcatProperties
  <2>8. decoded(J[i - 1]) = strings[i] /\ undecoded(J[i - 1]) = tails[i] \o J[i]
    BY <2>2, <2>6, <2>7, ShortRoundTrip
  <2>9. Drop(tails[i] \o J[i], extra) = J[i]
    BY <2>2, <2>3, Dropped
  <2>10. Len(pieces[i]) >= 1
    <3> DEFINE a1 == Len(strings[i])
               a2 == Len(tails[i])
    <3>1. Len(encode_bytes(strings[i]) \o tails[i]) = Len(encode_bytes(strings[i])) + a2
      BY <2>2, <2>4, ConcatProperties
    <3>2. a1 \in Nat /\ a2 \in Nat
      BY <2>2, LenProperties
    <3>3. Len(pieces[i]) = 2 + a1 + a2
      BY <2>4, <2>5, <3>1
    <3> HIDE DEF a1, a2
    <3> QED
      BY <3>2, <3>3
  <2> QED
    BY <2>3, <2>8, <2>9, <2>10
<1>5. \A i \in 1..m : J[i - 1] # <<>>
  <2> TAKE i \in 1..m
  <2>1. i \in 0..m
    OBVIOUS
  <2>2. pieces[i] \in Seq(Byte) /\ J[i] \in Seq(Byte) /\ Len(pieces[i]) >= 1
    BY <1>2, <1>4, <2>1, ElementOfSeq
  <2>3. Len(J[i - 1]) = Len(pieces[i]) + Len(J[i])
    <3>1. Len(pieces[i] \o J[i]) = Len(pieces[i]) + Len(J[i])
      BY <2>2, ConcatProperties
    <3> QED
      BY <1>2, <3>1
  <2>4. Len(pieces[i]) \in Nat /\ Len(J[i]) \in Nat /\ Len(<<>>) = 0
    BY <2>2, LenProperties, EmptySeq
  <2> QED
    BY <2>2, <2>3, <2>4
<1>6. m <= n
  <2>1. \A i \in 1..Len(pieces) : Len(pieces[i]) >= 1
    BY <1>4
  <2>2. \A k \in 0..Len(pieces) : Len(J[Len(pieces) - k]) >= k
    BY <1>1, <2>1, PiecesFit
  <2>3. m \in 0..m /\ m - m = 0 /\ 0 \in 0..m
    OBVIOUS
  <2>4. Len(J[0]) >= m
    BY <2>2, <2>3
  <2>5. Len(J[0]) <= n /\ Len(J[0]) \in Nat
    BY <1>2, <2>3, LenProperties
  <2> QED
    BY <2>4, <2>5
<1> DEFINE K == [i \in 0..n |-> IF i <= m THEN J[i] ELSE <<>>]
<1>7. /\ K[0] = a
      /\ \A i \in 1..n : K[i] = next(K[i - 1])
  <2>1. K[0] = a
    BY <1>3
  <2>2. ASSUME NEW i \in 1..n
        PROVE  K[i] = next(K[i - 1])
    <3>1. i \in 0..n /\ i - 1 \in 0..n
      OBVIOUS
    <3>2. CASE i <= m
      <4>1. i \in 1..m /\ i - 1 <= m
        BY <3>2
      <4>2. K[i] = J[i] /\ K[i - 1] = J[i - 1]
        BY <3>1, <3>2, <4>1
      <4>3. J[i - 1] # <<>> /\ Drop(undecoded(J[i - 1]), extra) = J[i]
        BY <1>4, <1>5, <4>1
      <4> HIDE DEF K
      <4> QED
        BY <4>2, <4>3
    <3>3. CASE i > m
      <4>1. K[i] = <<>>
        BY <3>1, <3>3
      <4>2. K[i - 1] = <<>>
        <5>1. CASE i - 1 = m
          BY <1>2, <3>1, <5>1
        <5>2. CASE i - 1 > m
          BY <3>1, <5>2
        <5> QED
          BY <3>3, <5>1, <5>2
      <4> HIDE DEF K
      <4> QED
        BY <4>1, <4>2
    <3> QED
      BY <3>2, <3>3
  <2> QED
    BY <2>1, <2>2
<1>8. \A i \in 0..n : K[i] = IF i <= m THEN J[i] ELSE <<>>
  OBVIOUS
<1>9. K = [i \in 0..n |-> K[i]]
  OBVIOUS
<1> HIDE DEF K, next
<1>10. K = Def(K)
  <2>1. \A i \in 0..n : i # 0 => i \in 1..n
    OBVIOUS
  <2>2. \A i \in 0..n : K[i] = IF i = 0 THEN a ELSE next(K[i - 1])
    BY <1>7, <2>1
  <2> QED
    BY <1>9, <2>2
<1> DEFINE f == CHOOSE f : f = Def(f)
<1>11. f = Def(f)
  BY <1>10
<1>12. Payload(s, n, extra) = f
  BY DEF Payload, a, next
<1> HIDE DEF f
<1>13. \A i \in 0..n : f[i] = IF i = 0 THEN a ELSE next(f[i - 1])
  BY <1>11
<1>14. \A i \in 0..n : f[i] = K[i]
  <2> DEFINE S == {i \in Nat : i <= n => f[i] = K[i]}
  <2>1. 0 \in S
    <3>1. 0 \in 0..n
      OBVIOUS
    <3> QED
      BY <1>7, <1>13, <3>1
  <2>2. ASSUME NEW i \in Nat, i \in S
        PROVE  i + 1 \in S
    <3> SUFFICES ASSUME i + 1 <= n
                 PROVE  f[i + 1] = K[i + 1]
      OBVIOUS
    <3>1. i + 1 \in 1..n /\ i + 1 \in 0..n /\ (i + 1) - 1 = i /\ i + 1 # 0 /\ i <= n
      OBVIOUS
    <3>2. f[i + 1] = next(f[i])
      BY <1>13, <3>1
    <3>3. K[i + 1] = next(K[i])
      BY <1>7, <3>1
    <3> QED
      BY <2>2, <3>1, <3>2, <3>3
  <2>3. \A i \in Nat : i \in S
    <3> HIDE DEF S
    <3>1. \A i \in Nat : i \in S => i + 1 \in S
      BY <2>2
    <3> QED
      BY <2>1, <3>1, SetInduction
  <2> QED
    BY <2>3
<1>15. Passes(f, n) = 1..m
  <2>1. \A i \in 1..n : f[i - 1] # <<>> <=> i <= m
    <3> TAKE i \in 1..n
    <3>1. i - 1 \in 0..n
      OBVIOUS
    <3>2. f[i - 1] = IF i - 1 <= m THEN J[i - 1] ELSE <<>>
      BY <1>8, <1>14, <3>1
    <3>3. CASE i <= m
      <4>1. i \in 1..m /\ i - 1 <= m
        BY <3>3
      <4> QED
        BY <1>5, <3>2, <3>3, <4>1
    <3>4. CASE i - 1 = m
      BY <1>2, <3>2, <3>4
    <3>5. CASE i - 1 > m
      BY <3>2, <3>5
    <3> QED
      BY <3>3, <3>4, <3>5
  <2>2. Passes(f, n) = {i \in 1..n : i <= m}
    BY <2>1 DEF Passes
  <2> QED
    BY <1>6, <2>2
<1>16. \A i \in 1..m : /\ decoded(f[i - 1]) = strings[i]
                       /\ \E v \in Seq(Byte) : undecoded(f[i - 1]) = tails[i] \o v
  <2> TAKE i \in 1..m
  <2>1. i - 1 \in 0..n /\ i - 1 <= m
    BY <1>6
  <2>2. f[i - 1] = J[i - 1]
    BY <1>8, <1>14, <2>1
  <2> QED
    BY <1>4, <2>2
<1> QED
  BY <1>12, <1>15, <1>16 DEF Recovered

-----------------------------------------------------------------------------
(* The bodies.                                                             *)

\* The types of packet are different from each other.
LEMMA ClientTypes ==
  /\ CONNECT \notin {PUBLISH, SUBSCRIBE, UNSUBSCRIBE, PINGREQ, DISCONNECT}
  /\ PUBLISH \notin {SUBSCRIBE, UNSUBSCRIBE, PINGREQ, DISCONNECT}
  /\ SUBSCRIBE \notin {UNSUBSCRIBE, PINGREQ, DISCONNECT}
  /\ UNSUBSCRIBE \notin {PINGREQ, DISCONNECT}
  /\ {CONNECT, PUBLISH, SUBSCRIBE, UNSUBSCRIBE, PINGREQ, DISCONNECT} \subseteq 0..15
  BY SMT DEF CONNECT, PUBLISH, SUBSCRIBE, UNSUBSCRIBE, PINGREQ, DISCONNECT

\* The fields of each packet of a client.
LEMMA ClientFields ==
  ASSUME NEW p \in ClientPacket
  PROVE  /\ p.type \in {CONNECT, PUBLISH, SUBSCRIBE, UNSUBSCRIBE, PINGREQ, DISCONNECT}
         /\ p.type = CONNECT =>
              /\ p = Connect(p.client_id, p.keep_alive, p.user, p.will)
              /\ p.keep_alive \in MessageId /\ p.client_id \in Seq(Byte)
              /\ p.user \in Optional /\ p.will \in Optional
         /\ p.type = PUBLISH =>
              /\ p.qos \in 0..2 /\ p.retain \in {0, 1} /\ p.message_id \in MessageId
              /\ p.topic \in Seq(Byte) /\ p.payload \in Seq(Byte)
         /\ p.type = SUBSCRIBE =>
              /\ p = Subscribe(p.message_id, p.topics) /\ p.message_id \in MessageId
              /\ p.topics \in Seq([topic : Seq(Byte), qos : Byte])
         /\ p.type = UNSUBSCRIBE =>
              /\ p = Unsubscribe(p.message_id, p.topics) /\ p.message_id \in MessageId
              /\ p.topics \in Seq(Seq(Byte))
         /\ p.type \in {PINGREQ, DISCONNECT} => p = [type |-> p.type]
<1> DEFINE C == [type : {CONNECT}, protocol_name : {<<77, 81, 84, 84>>},
                 protocol_version : {4}, keep_alive : MessageId, client_id : Seq(Byte),
                 user : Optional, will : Optional,
                 will_qos : {0}, will_retain : {0}, clean_session : {0}]
           P == [type : {PUBLISH}, qos : 0..2, retain : {0, 1}, message_id : MessageId,
                 topic : Seq(Byte), payload : Seq(Byte)]
           S == [type : {SUBSCRIBE}, message_id : MessageId,
                 topics : Seq([topic : Seq(Byte), qos : Byte])]
           U == [type : {UNSUBSCRIBE}, message_id : MessageId, topics : Seq(Seq(Byte))]
           O == [type : {PINGREQ, DISCONNECT}]
<1>1. p \in C \/ p \in P \/ p \in S \/ p \in U \/ p \in O
  BY Zenon DEF ClientPacket
<1>2. CASE p \in C
  <2>1. p.type = CONNECT
    BY SMT, <1>2
  <2>2. /\ p = Connect(p.client_id, p.keep_alive, p.user, p.will)
        /\ p.keep_alive \in MessageId /\ p.client_id \in Seq(Byte)
        /\ p.user \in Optional /\ p.will \in Optional
    BY SMT, <1>2 DEF Connect
  <2> QED
    BY Zenon, <2>1, <2>2, ClientTypes
<1>3. CASE p \in P
  <2>1. /\ p.type = PUBLISH
        /\ p.qos \in 0..2 /\ p.retain \in {0, 1} /\ p.message_id \in MessageId
        /\ p.topic \in Seq(Byte) /\ p.payload \in Seq(Byte)
    BY SMT, <1>3
  <2> QED
    BY Zenon, <2>1, ClientTypes
<1>4. CASE p \in S
  <2>1. /\ p.type = SUBSCRIBE
        /\ p = Subscribe(p.message_id, p.topics) /\ p.message_id \in MessageId
        /\ p.topics \in Seq([topic : Seq(Byte), qos : Byte])
    BY SMT, <1>4 DEF Subscribe
  <2> QED
    BY Zenon, <2>1, ClientTypes
<1>5. CASE p \in U
  <2>1. /\ p.type = UNSUBSCRIBE
        /\ p = Unsubscribe(p.message_id, p.topics) /\ p.message_id \in MessageId
        /\ p.topics \in Seq(Seq(Byte))
    BY SMT, <1>5 DEF Unsubscribe
  <2> QED
    BY Zenon, <2>1, ClientTypes
<1>6. CASE p \in O
  <2>1. p.type \in {PINGREQ, DISCONNECT} /\ p = [type |-> p.type]
    BY SMT, <1>6
  <2> QED
    BY Zenon, <2>1, ClientTypes
<1> QED
  BY Zenon, <1>1, <1>2, <1>3, <1>4, <1>5, <1>6

\* The body and the QoS of the fixed header for each type of packet.
LEMMA ClientArms ==
  ASSUME NEW p
  PROVE  /\ p.type = CONNECT => ClientBody(p) = boxConnect(p) /\ HeaderQos(p) = 0
         /\ p.type = PUBLISH => ClientBody(p) = boxMessage(p) /\ HeaderQos(p) = p.qos
         /\ p.type = SUBSCRIBE => ClientBody(p) = boxSubscribe(p) /\ HeaderQos(p) = 1
         /\ p.type = UNSUBSCRIBE => ClientBody(p) = boxUnsubscribe(p) /\ HeaderQos(p) = 1
         /\ p.type \in {PINGREQ, DISCONNECT} => ClientBody(p) = <<>> /\ HeaderQos(p) = 0
<1>1. p.type = CONNECT => ClientBody(p) = boxConnect(p) /\ HeaderQos(p) = 0
  BY Zenon, ClientTypes DEF ClientBody, HeaderQos
<1>2. p.type = PUBLISH => ClientBody(p) = boxMessage(p) /\ HeaderQos(p) = p.qos
  BY Zenon, ClientTypes DEF ClientBody, HeaderQos
<1>3. p.type = SUBSCRIBE => ClientBody(p) = boxSubscribe(p) /\ HeaderQos(p) = 1
  BY Zenon, ClientTypes DEF ClientBody, HeaderQos
<1>4. p.type = UNSUBSCRIBE => ClientBody(p) = boxUnsubscribe(p) /\ HeaderQos(p) = 1
  BY Zenon, ClientTypes DEF ClientBody, HeaderQos
<1>5. p.type \in {PINGREQ, DISCONNECT} => ClientBody(p) = <<>> /\ HeaderQos(p) = 0
  BY Zenon, ClientTypes DEF ClientBody, HeaderQos
<1> QED
  BY <1>1, <1>2, <1>3, <1>4, <1>5

\* A sequence of encoded strings is a sequence of bytes.
LEMMA EncodeAllBytes ==
  ASSUME NEW strings \in Seq(Seq(Byte))
  PROVE  /\ EncodeAll(strings) \in Seq(Byte)
         /\ \A i \in 1..Len(strings) : 2 + Len(strings[i]) <= Len(EncodeAll(strings))
<1> DEFINE n == Len(strings)
           pieces == [i \in 1..n |-> encode_bytes(strings[i])]
<1>1. /\ pieces \in Seq(Seq(Byte)) /\ Len(pieces) = n
      /\ EncodeAll(strings) = Concat(pieces)
      /\ \A i \in 1..n : Len(pieces[i]) = 2 + Len(strings[i])
  BY EncodedPieces
<1> HIDE DEF n, pieces
<1>2. PICK J : Behind(J, pieces)
  BY <1>1, ConcatParts
<1>3. J \in [0..n -> Seq(Byte)] /\ J[0] = Concat(pieces) /\ n \in Nat
  BY <1>1, <1>2, LenProperties DEF Behind
<1>4. EncodeAll(strings) \in Seq(Byte)
  <2>1. 0 \in 0..n
    BY <1>3
  <2> QED
    BY <1>1, <1>3, <2>1
<1>5. \A i \in 1..n : Len(pieces[i]) <= Len(Concat(pieces))
  BY <1>1, <1>2, PiecesFit
<1> QED
  BY <1>1, <1>4, <1>5 DEF n

\* The parts of the body of a SUBSCRIBE.
TopicPieces(topics) ==
  [i \in 1..Len(topics) |-> encode_bytes(topics[i].topic) \o <<topics[i].qos>>]

\* The pieces are sequences of bytes, each longer than its topic.
LEMMA TopicParts ==
  ASSUME NEW topics \in Seq([topic : Seq(Byte), qos : Byte])
  PROVE  /\ TopicPieces(topics) \in Seq(Seq(Byte))
         /\ Len(TopicPieces(topics)) = Len(topics)
         /\ Concat(TopicPieces(topics)) \in Seq(Byte)
         /\ \A i \in 1..Len(topics) :
              /\ topics[i].topic \in Seq(Byte) /\ topics[i].qos \in Byte
              /\ topics[i] = [topic |-> topics[i].topic, qos |-> topics[i].qos]
              /\ TopicPieces(topics)[i] = encode_bytes(topics[i].topic) \o <<topics[i].qos>>
              /\ 3 + Len(topics[i].topic) <= Len(Concat(TopicPieces(topics)))
<1> DEFINE n == Len(topics)
           pieces == TopicPieces(topics)
           piece(i) == encode_bytes(topics[i].topic) \o <<topics[i].qos>>
<1>1. n \in Nat
  BY LenProperties
<1>2. ASSUME NEW i \in 1..n
      PROVE  /\ topics[i].topic \in Seq(Byte) /\ topics[i].qos \in Byte
             /\ topics[i] = [topic |-> topics[i].topic, qos |-> topics[i].qos]
             /\ piece(i) \in Seq(Byte)
             /\ Len(piece(i)) = 3 + Len(topics[i].topic)
  <2>1. topics[i] \in [topic : Seq(Byte), qos : Byte]
    BY ElementOfSeq
  <2>2. /\ topics[i].topic \in Seq(Byte) /\ topics[i].qos \in Byte
        /\ topics[i] = [topic |-> topics[i].topic, qos |-> topics[i].qos]
    BY SMT, <2>1
  <2> DEFINE e == encode_bytes(topics[i].topic)
             q == <<topics[i].qos>>
  <2>3. e \in Seq(Byte) /\ Len(e) = 2 + Len(topics[i].topic)
    BY <2>2, EncodedBytes
  <2>4. q \in Seq(Byte) /\ Len(q) = 1
    BY SMT, <2>2
  <2>5. Len(topics[i].topic) \in Nat
    BY <2>2, LenProperties
  <2> HIDE DEF e, q
  <2>6. e \o q \in Seq(Byte) /\ Len(e \o q) = Len(e) + Len(q)
    BY <2>3, <2>4, ConcatProperties
  <2>7. Len(e \o q) = 3 + Len(topics[i].topic)
    BY SMT, <2>3, <2>4, <2>5, <2>6
  <2> QED
    BY <2>2, <2>6, <2>7 DEF e, q
<1>3. pieces = [i \in 1..n |-> piece(i)]
  BY DEF TopicPieces
<1> HIDE DEF piece, pieces
<1>4. pieces \in Seq(Seq(Byte)) /\ Len(pieces) = n /\ \A i \in 1..n : pieces[i] = piece(i)
  <2> HIDE DEF n
  <2>1. pieces \in [1..n -> Seq(Byte)]
    BY <1>2, <1>3
  <2>2. \A i \in 1..n : pieces[i] = piece(i)
    BY <1>3
  <2> QED
    BY <1>1, <2>1, <2>2, LenProperties
<1>5. PICK J : Behind(J, pieces)
  BY <1>4, ConcatParts
<1>6. Concat(pieces) \in Seq(Byte)
  <2>1. J \in [0..n -> Seq(Byte)] /\ J[0] = Concat(pieces) /\ 0 \in 0..n
    BY <1>1, <1>4, <1>5 DEF Behind
  <2> QED
    BY <2>1
<1>7. \A i \in 1..n : Len(pieces[i]) <= Len(Concat(pieces))
  BY <1>4, <1>5, PiecesFit
<1>8. \A i \in 1..n : 3 + Len(topics[i].topic) <= Len(Concat(pieces))
  BY <1>2, <1>4, <1>7
<1> QED
  BY <1>2, <1>4, <1>6, <1>8 DEF n, pieces, piece

\* A message id and a keep-alive have two bytes, which are decoded to it.
LEMMA IdBytes ==
  ASSUME NEW id \in MessageId
  PROVE  /\ TwoBytes(id) \in Seq(Byte) /\ Len(TwoBytes(id)) = 2
         /\ Number(TwoBytes(id)) = id
<1>1. id \in Nat /\ id < 65536
  BY DEF MessageId
<1> QED
  BY SMT, <1>1, TwoBytesBytes

\* The bytes in front of some others.
LEMMA InFront ==
  ASSUME NEW u \in Seq(Byte), NEW v \in Seq(Byte), NEW i \in 1..Len(u)
  PROVE  (u \o v)[i] = u[i]
<1>1. Len(u) \in Nat /\ Len(v) \in Nat
  BY LenProperties
<1>2. \A j \in 1..(Len(u) + Len(v)) : (u \o v)[j] = IF j <= Len(u) THEN u[j] ELSE v[j - Len(u)]
  BY ConcatProperties
<1>3. i \in 1..(Len(u) + Len(v)) /\ i <= Len(u)
  BY SMT, <1>1
<1> QED
  BY <1>2, <1>3

\* What is read of a number at the front of some bytes, and what follows it.
LEMMA IdInFront ==
  ASSUME NEW id \in MessageId, NEW o \in Seq(Byte)
  PROVE  LET s == TwoBytes(id) \o o
         IN  /\ s \in Seq(Byte) /\ Len(s) = 2 + Len(o)
             /\ Number(s) = id
             /\ Drop(s, 2) = o
             /\ SubSeq(s, 3, Len(s)) = o
<1> DEFINE u == TwoBytes(id)
           s == u \o o
<1>1. u \in Seq(Byte) /\ Len(u) = 2 /\ Number(u) = id
  BY IdBytes
<1> HIDE DEF u
<1>2. Len(o) \in Nat
  BY LenProperties
<1>3. s \in Seq(Byte) /\ Len(s) = Len(u) + Len(o)
  BY <1>1, ConcatProperties
<1>4. s[1] = u[1] /\ s[2] = u[2]
  <2>1. 1 \in 1..Len(u) /\ 2 \in 1..Len(u)
    BY SMT, <1>1
  <2> QED
    BY <1>1, <2>1, InFront
<1>5. Number(s) = id
  BY <1>1, <1>4 DEF Number
<1>6. Drop(s, 2) = o
  BY <1>1, Dropped
<1>7. SubSeq(s, 3, Len(s)) = o
  <2> HIDE DEF s
  <2> QED
    BY SMT, <1>6 DEF Drop
<1> QED
  BY <1>1, <1>3, <1>5, <1>6, <1>7 DEF u

\* An element in front of two sequences.
LEMMA InFrontOfTwo ==
  ASSUME NEW S, NEW c \in S, NEW x \in Seq(S), NEW y \in Seq(S)
  PROVE  LET e == (<<c>> \o x) \o y
         IN  /\ e \in Seq(S)
             /\ Len(e) = 1 + Len(x) + Len(y)
             /\ e[1] = c
             /\ SubSeq(e, 2, 1 + Len(x)) = x
             /\ SubSeq(e, 2 + Len(x), 1 + Len(x) + Len(y)) = y
<1> DEFINE f == <<c>>
           e == (f \o x) \o y
<1>0. f \in Seq(S)
  BY SMT
<1>1. Len(f) = 1 /\ f[1] = c
  BY SMT
<1>2. Len(x) \in Nat /\ Len(y) \in Nat
  BY LenProperties
<1> HIDE DEF f
<1>3. /\ e \in Seq(S)
      /\ Len(e) = Len(f) + Len(x) + Len(y)
      /\ \A i \in 1..Len(f) : e[i] = f[i]
      /\ SubSeq(e, Len(f) + 1, Len(f) + Len(x)) = x
      /\ SubSeq(e, Len(f) + Len(x) + 1, Len(e)) = y
  BY <1>0, CutOut
<1> DEFINE m == Len(x)
           n == Len(y)
<1> HIDE DEF e, m, n
<1>7. 1 \in 1..1 /\ 1 + 1 = 2 /\ 1 + m + 1 = 2 + m
  BY SMT, <1>2 DEF m
<1>8. /\ Len(e) = 1 + m + n
      /\ e[1] = c
      /\ SubSeq(e, 2, 1 + m) = x
      /\ SubSeq(e, 2 + m, Len(e)) = y
  BY <1>1, <1>3, <1>7 DEF m, n
<1> QED
  BY <1>3, <1>8 DEF e, f, m, n

-----------------------------------------------------------------------------
(* CONNECT.                                                                *)

\* The strings of a CONNECT: the client's id, the will and the user.
ConnectStrings(p) == <<p.client_id>> \o p.will \o p.user

\* Where each of them is among the strings.
LEMMA StringsOfConnect ==
  ASSUME NEW p \in ClientPacket, p.type = CONNECT
  PROVE  LET strings == ConnectStrings(p)
             w == Len(p.will)
             u == Len(p.user)
         IN  /\ w \in {0, 2} /\ u \in {0, 2}
             /\ strings \in Seq(Seq(Byte))
             /\ Len(strings) = 1 + w + u
             /\ strings[1] = p.client_id
             /\ SubSeq(strings, 2, 1 + w) = p.will
             /\ SubSeq(strings, 2 + w, 1 + w + u) = p.user
<1>1. /\ p.will \in Seq(Seq(Byte)) /\ p.user \in Seq(Seq(Byte))
      /\ Len(p.will) \in {0, 2} /\ Len(p.user) \in {0, 2}
      /\ p.client_id \in Seq(Byte)
  BY ClientFields DEF Optional
<1> DEFINE c == p.client_id
           x == p.will
           y == p.user
           e == (<<c>> \o x) \o y
<1>2. ConnectStrings(p) = e
  BY DEF ConnectStrings
<1>3. c \in Seq(Byte) /\ x \in Seq(Seq(Byte)) /\ y \in Seq(Seq(Byte))
  BY <1>1
<1> HIDE DEF c, x, y
<1>4. /\ e \in Seq(Seq(Byte))
      /\ Len(e) = 1 + Len(x) + Len(y)
      /\ e[1] = c
      /\ SubSeq(e, 2, 1 + Len(x)) = x
      /\ SubSeq(e, 2 + Len(x), 1 + Len(x) + Len(y)) = y
  BY <1>3, InFrontOfTwo
<1> HIDE DEF e
<1> QED
  BY <1>1, <1>2, <1>4 DEF c, x, y

\* The flags of a CONNECT tell whether it has a user and a will.
LEMMA FlagsRead ==
  ASSUME NEW p \in ClientPacket, p.type = CONNECT
  PROVE  LET options == connectFlags(p)
         IN  /\ options \in Byte
             /\ 2 * Bit(options, 2) = Len(p.will)
             /\ Bit(options, 7) + Bit(options, 6) = Len(p.user)
             /\ (options \div 8) % 4 = p.will_qos
             /\ Bit(options, 5) = p.will_retain
             /\ Bit(options, 1) = p.clean_session
<1>1. p.will_qos = 0 /\ p.will_retain = 0 /\ p.clean_session = 0
  <2>1. p = Connect(p.client_id, p.keep_alive, p.user, p.will)
    BY ClientFields
  <2> DEFINE q == Connect(p.client_id, p.keep_alive, p.user, p.will)
  <2>2. q.will_qos = 0 /\ q.will_retain = 0 /\ q.clean_session = 0
    BY SMT DEF Connect
  <2> HIDE DEF q
  <2> QED
    BY <2>1, <2>2 DEF q
<1>2. /\ p.will \in Seq(Seq(Byte)) /\ Len(p.will) \in {0, 2}
      /\ p.user \in Seq(Seq(Byte)) /\ Len(p.user) \in {0, 2}
  BY ClientFields DEF Optional
<1> DEFINE w == Flag(p.will)
           u == Flag(p.user)
<1>3. w \in {0, 1} /\ Len(p.will) = 2 * w
  <2>1. p.will = <<>> <=> Len(p.will) = 0
    <3> DEFINE S == Seq(Byte)
    <3>1. p.will \in Seq(S)
      BY <1>2
    <3> HIDE DEF S
    <3> QED
      BY <3>1, EmptySeq
  <2>2. (p.will = <<>> => w = 0) /\ (p.will # <<>> => w = 1)
    BY DEF Flag
  <2>3. Len(p.will) \in {0, 2}
    BY <1>2
  <2> DEFINE l == Len(p.will)
  <2>4. (l = 0 /\ w = 0) \/ (l = 2 /\ w = 1)
    BY <2>1, <2>2, <2>3
  <2> HIDE DEF w, l
  <2>5. w \in {0, 1} /\ l = 2 * w
    BY SMT, <2>4
  <2> QED
    BY <2>5 DEF l
<1>4. u \in {0, 1} /\ Len(p.user) = 2 * u
  <2>1. p.user = <<>> <=> Len(p.user) = 0
    <3> DEFINE S == Seq(Byte)
    <3>1. p.user \in Seq(S)
      BY <1>2
    <3> HIDE DEF S
    <3> QED
      BY <3>1, EmptySeq
  <2>2. (p.user = <<>> => u = 0) /\ (p.user # <<>> => u = 1)
    BY DEF Flag
  <2>3. Len(p.user) \in {0, 2}
    BY <1>2
  <2> DEFINE l == Len(p.user)
  <2>4. (l = 0 /\ u = 0) \/ (l = 2 /\ u = 1)
    BY <2>1, <2>2, <2>3
  <2> HIDE DEF u, l
  <2>5. u \in {0, 1} /\ l = 2 * u
    BY SMT, <2>4
  <2> QED
    BY <2>5 DEF l
<1>5. connectFlags(p) = 192 * u + 4 * w
  <2>1. connectFlags(p) = 192 * u + 32 * 0 + 8 * 0 + 4 * w + 2 * 0
    BY <1>1 DEF connectFlags
  <2> HIDE DEF u, w
  <2> QED
    BY SMT, <1>3, <1>4, <2>1
<1> HIDE DEF u, w
<1>6. \A o \in {0, 4, 192, 196} :
        /\ o \in Byte
        /\ (o \div 8) % 4 = 0 /\ Bit(o, 5) = 0 /\ Bit(o, 1) = 0
        /\ Bit(o, 2) = IF o \in {4, 196} THEN 1 ELSE 0
        /\ Bit(o, 6) = IF o \in {192, 196} THEN 1 ELSE 0
        /\ Bit(o, 7) = IF o \in {192, 196} THEN 1 ELSE 0
  BY SMT DEF Bit, Byte
<1>7. /\ connectFlags(p) \in {0, 4, 192, 196}
      /\ connectFlags(p) \in {4, 196} <=> w = 1
      /\ connectFlags(p) \in {192, 196} <=> u = 1
  BY SMT, <1>3, <1>4, <1>5
<1>8. /\ connectFlags(p) \in Byte
      /\ (connectFlags(p) \div 8) % 4 = 0 /\ Bit(connectFlags(p), 5) = 0
      /\ Bit(connectFlags(p), 1) = 0
      /\ Bit(connectFlags(p), 2) = w
      /\ Bit(connectFlags(p), 6) = u
      /\ Bit(connectFlags(p), 7) = u
  BY SMT, <1>3, <1>4, <1>6, <1>7
<1>9. 2 * Bit(connectFlags(p), 2) = Len(p.will)
  BY <1>3, <1>8
<1>10. Bit(connectFlags(p), 7) + Bit(connectFlags(p), 6) = Len(p.user)
  <2>1. u + u = 2 * u
    BY SMT, <1>4
  <2> QED
    BY <1>4, <1>8, <2>1
<1> QED
  BY <1>1, <1>8, <1>9, <1>10

\* The name of the protocol, a short string of bytes.
LEMMA ProtocolName ==
  ASSUME NEW p \in ClientPacket, p.type = CONNECT
  PROVE  /\ p.protocol_name = <<77, 81, 84, 84>> /\ p.protocol_version = 4
         /\ p.protocol_name \in Seq(Byte) /\ Short(p.protocol_name)
<1> DEFINE q == Connect(p.client_id, p.keep_alive, p.user, p.will)
<1>1. p = q
  BY ClientFields
<1>2. q.protocol_name = <<77, 81, 84, 84>> /\ q.protocol_version = 4
  BY SMT DEF Connect
<1> HIDE DEF q
<1>3. p.protocol_name = <<77, 81, 84, 84>> /\ p.protocol_version = 4
  BY <1>1, <1>2
<1>4. <<77, 81, 84, 84>> \in Seq(Byte) /\ Len(<<77, 81, 84, 84>>) = 4
  BY SMT DEF Byte
<1> QED
  BY SMT, <1>3, <1>4 DEF Short

\* The parts of the body of a CONNECT.
LEMMA BodyOfConnect ==
  ASSUME NEW p \in ClientPacket, p.type = CONNECT
  PROVE  LET v == <<p.protocol_version, connectFlags(p)>>
             e == EncodeAll(ConnectStrings(p))
             t == v \o (TwoBytes(p.keep_alive) \o e)
         IN  /\ boxConnect(p) = encode_bytes(p.protocol_name) \o t
             /\ boxConnect(p) \in Seq(Byte)
             /\ e \in Seq(Byte) /\ Len(e) <= Len(boxConnect(p))
             /\ t \in Seq(Byte)
             /\ t[1] = p.protocol_version /\ t[2] = connectFlags(p)
             /\ Number(Drop(t, 2)) = p.keep_alive
             /\ Drop(t, 4) = e
<1> DEFINE a == encode_bytes(p.protocol_name)
           v == <<p.protocol_version, connectFlags(p)>>
           k == TwoBytes(p.keep_alive)
           e == EncodeAll(ConnectStrings(p))
           b == a \o (v \o (k \o e))
<1>1. a \in Seq(Byte)
  BY ProtocolName, EncodedBytes
<1>2. /\ v \in Seq(Byte) /\ Len(v) = 2
      /\ v[1] = p.protocol_version /\ v[2] = connectFlags(p)
  <2>1. p.protocol_version \in Byte /\ connectFlags(p) \in Byte
    <3>1. 4 \in Byte
      BY SMT DEF Byte
    <3> QED
      BY <3>1, ProtocolName, FlagsRead
  <2> QED
    BY SMT, <2>1
<1>3. k \in Seq(Byte) /\ Len(k) = 2 /\ Number(k) = p.keep_alive
  BY ClientFields, IdBytes
<1>4. e \in Seq(Byte)
  BY StringsOfConnect, EncodeAllBytes
<1>5. boxConnect(p) = ((a \o v) \o k) \o e
  BY DEF boxConnect, ConnectStrings
<1>6. Number(k \o e) = p.keep_alive
  BY <1>4, ClientFields, IdInFront
<1> HIDE DEF a, v, k, e
<1>7. k \o e \in Seq(Byte) /\ v \o k \in Seq(Byte) /\ Len(v \o k) = Len(v) + Len(k)
  BY <1>2, <1>3, <1>4, ConcatProperties
<1>8. v \o (k \o e) \in Seq(Byte) /\ a \o v \in Seq(Byte)
  BY <1>1, <1>2, <1>7, ConcatProperties
<1>9. ((a \o v) \o k) \o e = (a \o v) \o (k \o e)
  BY <1>3, <1>4, <1>8, BytesAssociative
<1>10. (a \o v) \o (k \o e) = b
  BY <1>1, <1>2, <1>7, BytesAssociative
<1>11. b \in Seq(Byte)
  BY <1>1, <1>8, ConcatProperties
<1>12. Len(e) <= Len(b)
  <2>1. (a \o v) \o k \in Seq(Byte)
    BY <1>3, <1>8, ConcatProperties
  <2>2. Len(((a \o v) \o k) \o e) = Len((a \o v) \o k) + Len(e)
    BY <1>4, <2>1, ConcatProperties
  <2>3. Len(((a \o v) \o k)) \in Nat /\ Len(e) \in Nat
    BY <1>4, <2>1, LenProperties
  <2>4. Len(b) = Len((a \o v) \o k) + Len(e)
    BY <1>9, <1>10, <2>2
  <2> QED
    BY SMT, <2>3, <2>4
<1>13. (v \o (k \o e))[1] = v[1] /\ (v \o (k \o e))[2] = v[2]
  <2>1. 1 \in 1..Len(v) /\ 2 \in 1..Len(v)
    BY SMT, <1>2
  <2> QED
    BY <1>2, <1>7, <2>1, InFront
<1>14. Drop(v \o (k \o e), 2) = k \o e
  BY <1>2, <1>7, Dropped
<1>15. Drop(v \o (k \o e), 4) = e
  <2>1. v \o (k \o e) = (v \o k) \o e
    BY <1>2, <1>3, <1>4, BytesAssociative
  <2>2. Drop((v \o k) \o e, Len(v \o k)) = e
    BY <1>4, <1>7, Dropped
  <2>3. Len(v \o k) = 4
    BY SMT, <1>2, <1>3, <1>7
  <2> QED
    BY <2>1, <2>2, <2>3
<1> QED
  BY <1>2, <1>4, <1>5, <1>6, <1>8, <1>9, <1>10, <1>11, <1>12, <1>13, <1>14, <1>15
     DEF a, v, k, e

-----------------------------------------------------------------------------
(* Boxing.                                                                 *)

\* The body of a client's packet is a sequence of bytes.
LEMMA ClientBodyBytes ==
  ASSUME NEW p \in ClientPacket
  PROVE  ClientBody(p) \in Seq(Byte)
<1>1. CASE p.type = CONNECT
  BY <1>1, ClientArms, BodyOfConnect
<1>2. CASE p.type = PUBLISH
  <2>1. p.topic \in Seq(Byte) /\ p.payload \in Seq(Byte) /\ p.message_id \in MessageId
    BY <1>2, ClientFields
  <2>2. encode_bytes(p.topic) \in Seq(Byte) /\ TwoBytes(p.message_id) \in Seq(Byte)
    BY <2>1, EncodedBytes, IdBytes
  <2>3. ClientBody(p) = boxMessage(p)
    BY <1>2, ClientArms
  <2> QED
    BY SMT, <2>1, <2>2, <2>3 DEF boxMessage
<1>3. CASE p.type = SUBSCRIBE
  <2>1. p.message_id \in MessageId /\ p.topics \in Seq([topic : Seq(Byte), qos : Byte])
    BY <1>3, ClientFields
  <2>2. Concat(TopicPieces(p.topics)) \in Seq(Byte)
    BY <2>1, TopicParts
  <2>3. ClientBody(p) = TwoBytes(p.message_id) \o Concat(TopicPieces(p.topics))
    BY <1>3, ClientArms DEF boxSubscribe, TopicPieces
  <2> QED
    BY <2>1, <2>2, <2>3, IdInFront
<1>4. CASE p.type = UNSUBSCRIBE
  <2>1. p.message_id \in MessageId /\ p.topics \in Seq(Seq(Byte))
    BY <1>4, ClientFields
  <2>2. EncodeAll(p.topics) \in Seq(Byte)
    BY <2>1, EncodeAllBytes
  <2>3. ClientBody(p) = TwoBytes(p.message_id) \o EncodeAll(p.topics)
    BY <1>4, ClientArms DEF boxUnsubscribe
  <2> QED
    BY <2>1, <2>2, <2>3, IdInFront
<1>5. CASE p.type \in {PINGREQ, DISCONNECT}
  BY <1>5, ClientArms, EmptySeq
<1> QED
  BY <1>1, <1>2, <1>3, <1>4, <1>5, ClientFields

\* A client's packet has the shape of a packet.
LEMMA ClientBytesShape ==
  ASSUME NEW p \in ClientPacket, Len(ClientBody(p)) <= MaxLength
  PROVE  PacketShape(ClientBytes(p), p.type, ClientBody(p))
<1> DEFINE o == ClientBody(p)
           q == HeaderQos(p)
           r == IF p.type = PUBLISH THEN p.retain ELSE 0
<1>1. o \in Seq(Byte) /\ Len(o) \in Nat
  BY ClientBodyBytes, LenProperties
<1>2. p.type \in {CONNECT, PUBLISH, SUBSCRIBE, UNSUBSCRIBE, PINGREQ, DISCONNECT}
  BY ClientFields
<1>3. q \in 0..2
  <2>1. 0 \in 0..2 /\ 1 \in 0..2
    BY SMT
  <2>2. p.type = PUBLISH => p.qos \in 0..2
    BY ClientFields
  <2> QED
    BY Zenon, <1>2, <2>1, <2>2, ClientArms
<1>4. r \in {0, 1}
  BY ClientFields
<1>5. p.type \in Nat /\ p.type < 16
  <2>1. p.type \in 0..15
    BY <1>2, ClientTypes
  <2> QED
    BY SMT, <2>1
<1>6. ClientBytes(p)
      = boxing([type |-> p.type, dup |-> 0, qos |-> q, retain |-> r,
                remaining_length |-> Len(o)]) \o o
  BY DEF ClientBytes
<1>7. Len(o) <= MaxLength
  OBVIOUS
<1>8. 0 \in {0, 1}
  OBVIOUS
<1> HIDE DEF o, q, r
<1> QED
  BY <1>1, <1>3, <1>4, <1>5, <1>6, <1>7, <1>8, BoxedShape DEF o

-----------------------------------------------------------------------------
(* Unboxing.                                                               *)

\* A length the fixed header is erased for.
Erasable(n) == n # 127 /\ n < 16384

\* What unboxing reads of a packet whose fixed header it can erase.
LEMMA ShapeRead ==
  ASSUME NEW b, NEW t, NEW o \in Seq(Byte), PacketShape(b, t, o), Erasable(Len(o))
  PROVE  /\ header(b).type = t
         /\ header(b).remaining_length = Len(o)
         /\ rest(b) = o
<1> DEFINE n == Len(o)
<1>1. n \in Nat
  BY LenProperties
<1>2. /\ decode_remaining_len(b) = n
      /\ b[1] \div 16 = t
      /\ SubSeq(b, 2 + Digits(n), Len(b)) = o
  BY DEF PacketShape
<1>3. Erasable(n)
  OBVIOUS
<1> HIDE DEF n
<1>4. erased(n) + 1 = 2 + Digits(n)
  <2>1. (n < 127 \/ (n >= 128 /\ n < 16384))
    BY SMT, <1>1, <1>3 DEF Erasable
  <2>2. n < 127 => n < 128
    BY SMT, <1>1
  <2>3. (erased(n) = 2 /\ Digits(n) = 1) \/ (erased(n) = 3 /\ Digits(n) = 2)
    BY <1>1, <2>1, <2>2, ErasedDigits
  <2> QED
    BY SMT, <2>3
<1>5. rest(b) = SubSeq(b, erased(n) + 1, Len(b))
  BY <1>2 DEF rest
<1>6. header(b).type = b[1] \div 16 /\ header(b).remaining_length = decode_remaining_len(b)
  BY DEF header
<1> QED
  BY <1>2, <1>4, <1>5, <1>6 DEF n

\* A string shorter than a body whose fixed header is erased is short.
LEMMA ErasableShort ==
  ASSUME NEW n \in Nat, Erasable(n), NEW s \in Seq(Byte), NEW k \in Nat, k + Len(s) <= n
  PROVE  Short(s)
<1> DEFINE l == Len(s)
<1>1. l \in Nat
  BY LenProperties
<1>2. k + l <= n
  OBVIOUS
<1> HIDE DEF l
<1>3. l < 65536
  BY SMT, <1>1, <1>2 DEF Erasable
<1> QED
  BY <1>3 DEF Short, l

\* unboxing gives back a CONNECT.
LEMMA ConnectUnboxed ==
  ASSUME NEW p \in ClientPacket, p.type = CONNECT, Erasable(Len(boxConnect(p)))
  PROVE  unboxConnect(boxConnect(p)) = p
<1> DEFINE s == boxConnect(p)
           t == undecoded(s)
           strings == ConnectStrings(p)
           e == EncodeAll(strings)
           w == Len(p.will)
           u == Len(p.user)
           options == connectFlags(p)
           v == <<p.protocol_version, options>> \o (TwoBytes(p.keep_alive) \o e)
<1>1. /\ s = encode_bytes(p.protocol_name) \o v
      /\ s \in Seq(Byte)
      /\ Len(e) <= Len(s)
      /\ v \in Seq(Byte)
      /\ v[1] = p.protocol_version /\ v[2] = options
      /\ Number(Drop(v, 2)) = p.keep_alive
      /\ Drop(v, 4) = e
  BY BodyOfConnect
<1>2. Erasable(Len(s))
  OBVIOUS
<1>3. /\ strings \in Seq(Seq(Byte))
      /\ Len(strings) = 1 + w + u
      /\ strings[1] = p.client_id
      /\ SubSeq(strings, 2, 1 + w) = p.will
      /\ SubSeq(strings, 2 + w, 1 + w + u) = p.user
  BY StringsOfConnect
<1>4. /\ 2 * Bit(options, 2) = w
      /\ Bit(options, 7) + Bit(options, 6) = u
      /\ (options \div 8) % 4 = p.will_qos
      /\ Bit(options, 5) = p.will_retain
      /\ Bit(options, 1) = p.clean_session
  BY FlagsRead
<1>5. unboxConnect(s)
      = LET ws == 2 * Bit(t[2], 2)
            us == Bit(t[2], 7) + Bit(t[2], 6)
            l == Strings(Drop(t, 4), 1 + ws + us)
        IN  [type |-> CONNECT, protocol_name |-> decoded(s), protocol_version |-> t[1],
             keep_alive |-> Number(Drop(t, 2)), client_id |-> l[1],
             will |-> SubSeq(l, 2, 1 + ws),
             user |-> SubSeq(l, 2 + ws, 1 + ws + us),
             will_qos |-> (t[2] \div 8) % 4, will_retain |-> Bit(t[2], 5),
             clean_session |-> Bit(t[2], 1)]
  BY DEF unboxConnect
<1>6. p.protocol_name \in Seq(Byte) /\ Short(p.protocol_name)
  BY ProtocolName
<1> HIDE DEF s, t, e, v, options, w, u, strings
<1>7. decoded(s) = p.protocol_name /\ t = v
  BY <1>1, <1>6, ShortRoundTrip DEF t
<1>8. Strings(e, 1 + w + u) = strings
  <2>1. \A i \in 1..Len(strings) : Short(strings[i])
    <3> TAKE i \in 1..Len(strings)
    <3>1. strings[i] \in Seq(Byte)
      BY <1>3, ElementOfSeq
    <3>2. e \in Seq(Byte) /\ 2 + Len(strings[i]) <= Len(e)
      BY <1>3, EncodeAllBytes DEF e
    <3> DEFINE a == Len(strings[i])
               b == Len(e)
               c == Len(s)
    <3>3. a \in Nat /\ b \in Nat /\ c \in Nat
      BY <1>1, <3>1, <3>2, LenProperties
    <3>4. 2 + a <= b /\ b <= c
      BY <1>1, <3>2
    <3> HIDE DEF a, b, c
    <3>5. 2 + a <= c /\ 2 \in Nat
      BY SMT, <3>3, <3>4
    <3> QED
      BY <1>2, <3>1, <3>3, <3>5, ErasableShort DEF a, c
  <2>2. Strings(EncodeAll(strings), Len(strings)) = strings
    BY <1>3, <2>1, StringsDecoded
  <2> QED
    BY <1>3, <2>2 DEF e
<1>9. unboxConnect(s)
      = [type |-> CONNECT, protocol_name |-> p.protocol_name,
         protocol_version |-> p.protocol_version,
         keep_alive |-> p.keep_alive, client_id |-> p.client_id,
         will |-> p.will, user |-> p.user,
         will_qos |-> p.will_qos, will_retain |-> p.will_retain,
         clean_session |-> p.clean_session]
  BY <1>1, <1>3, <1>4, <1>5, <1>7, <1>8
<1>10. p = [type |-> CONNECT, protocol_name |-> p.protocol_name,
            protocol_version |-> p.protocol_version,
            keep_alive |-> p.keep_alive, client_id |-> p.client_id,
            will |-> p.will, user |-> p.user,
            will_qos |-> p.will_qos, will_retain |-> p.will_retain,
            clean_session |-> p.clean_session]
  <2> DEFINE x == p.client_id
             k == p.keep_alive
             y == p.user
             z == p.will
  <2>1. p = Connect(x, k, y, z)
    BY ClientFields
  <2> HIDE DEF x, k, y, z
  <2> QED
    BY SMT, <2>1 DEF Connect
<1> QED
  BY <1>9, <1>10 DEF s

\* unboxing gives back a SUBSCRIBE.
LEMMA SubscribeUnboxed ==
  ASSUME NEW p \in ClientPacket, p.type = SUBSCRIBE, Erasable(Len(boxSubscribe(p)))
  PROVE  unboxSubscribe(boxSubscribe(p), Len(boxSubscribe(p))) = p
<1> DEFINE id == p.message_id
           topics == p.topics
           m == Len(topics)
           pieces == TopicPieces(topics)
           e == Concat(pieces)
           s == boxSubscribe(p)
           n == Len(s)
<1>1. /\ p = Subscribe(id, topics) /\ id \in MessageId
      /\ topics \in Seq([topic : Seq(Byte), qos : Byte])
  BY ClientFields
<1>2. s = TwoBytes(id) \o e
  BY DEF boxSubscribe, TopicPieces
<1>3. Erasable(n)
  OBVIOUS
<1> HIDE DEF id, topics, s
<1>4. /\ pieces \in Seq(Seq(Byte)) /\ Len(pieces) = m
      /\ e \in Seq(Byte)
      /\ \A i \in 1..m :
           /\ topics[i].topic \in Seq(Byte) /\ topics[i].qos \in Byte
           /\ topics[i] = [topic |-> topics[i].topic, qos |-> topics[i].qos]
           /\ pieces[i] = encode_bytes(topics[i].topic) \o <<topics[i].qos>>
           /\ 3 + Len(topics[i].topic) <= Len(e)
  BY <1>1, TopicParts
<1> HIDE DEF pieces
<1>5. m \in Nat /\ Len(e) \in Nat
  BY <1>1, <1>4, LenProperties
<1> HIDE DEF e
<1>6. /\ s \in Seq(Byte) /\ n = 2 + Len(e)
      /\ Number(s) = id
      /\ SubSeq(s, 3, n) = e
  BY <1>1, <1>2, <1>4, IdInFront
<1>7. n \in Nat /\ Len(e) <= n
  <2> HIDE DEF n
  <2> QED
    BY SMT, <1>5, <1>6
<1> DEFINE strings == [i \in 1..m |-> topics[i].topic]
           tails == [i \in 1..m |-> <<topics[i].qos>>]
           left == Payload(s, n, 1)
<1>8. ASSUME NEW i \in 1..m
      PROVE  /\ strings[i] = topics[i].topic
             /\ tails[i] = <<topics[i].qos>>
             /\ strings[i] \in Seq(Byte) /\ Short(strings[i])
             /\ tails[i] \in Seq(Byte) /\ Len(tails[i]) = 1
             /\ pieces[i] = encode_bytes(strings[i]) \o tails[i]
  <2>1. strings[i] = topics[i].topic /\ tails[i] = <<topics[i].qos>>
    OBVIOUS
  <2>2. topics[i].topic \in Seq(Byte) /\ topics[i].qos \in Byte
    BY <1>4
  <2>3. <<topics[i].qos>> \in Seq(Byte) /\ Len(<<topics[i].qos>>) = 1
    <3> DEFINE q == topics[i].qos
    <3>1. q \in Byte
      BY <2>2
    <3> HIDE DEF q
    <3>2. <<q>> \in Seq(Byte) /\ Len(<<q>>) = 1
      BY SMT, <3>1
    <3> QED
      BY <3>2 DEF q
  <2>4. Short(topics[i].topic)
    <3> DEFINE a == Len(topics[i].topic)
               c == Len(e)
    <3>1. a \in Nat /\ c \in Nat /\ 3 + a <= c /\ c <= n
      BY <1>4, <1>5, <1>7, <2>2, LenProperties
    <3> HIDE DEF a, c, n
    <3>2. 3 + a <= n /\ 3 \in Nat
      BY SMT, <1>7, <3>1
    <3> QED
      BY <1>3, <1>7, <2>2, <3>2, ErasableShort DEF a
  <2>5. pieces[i] = encode_bytes(topics[i].topic) \o <<topics[i].qos>>
    BY <1>4
  <2> HIDE DEF strings, tails
  <2> QED
    BY <2>1, <2>2, <2>3, <2>4, <2>5
<1> HIDE DEF strings, tails, n, m
<1>9. /\ Passes(left, n) = 1..m
      /\ \A i \in 1..m : /\ decoded(left[i - 1]) = strings[i]
                         /\ \E v \in Seq(Byte) : undecoded(left[i - 1]) = tails[i] \o v
  <2>1. 1 \in Nat
    OBVIOUS
  <2>2. Len(e) <= n /\ SubSeq(s, 3, n) = e
    BY <1>6, <1>7
  <2> QED
    <3>1. Entries(m, pieces, strings, tails, 1)
      BY <1>8 DEF Entries
    <3>2. Recovered(m, left, n, strings, tails)
      BY <1>4, <1>5, <1>7, <2>1, <2>2, <3>1, PayloadDecoded DEF e
    <3> QED
      BY <3>2 DEF Recovered
<1> HIDE DEF left
<1>10. \A i \in 1..m : undecoded(left[i - 1])[1] = topics[i].qos
  <2> TAKE i \in 1..m
  <2>1. PICK v \in Seq(Byte) : undecoded(left[i - 1]) = tails[i] \o v
    BY <1>9
  <2>2. tails[i] \in Seq(Byte) /\ Len(tails[i]) = 1 /\ tails[i] = <<topics[i].qos>>
    BY <1>8
  <2>3. 1 \in 1..Len(tails[i])
    BY SMT, <2>2
  <2>4. (tails[i] \o v)[1] = tails[i][1]
    BY <2>2, <2>3, InFront
  <2>5. tails[i][1] = topics[i].qos
    <3> DEFINE q == topics[i].qos
    <3> HIDE DEF q
    <3>1. <<q>>[1] = q
      BY SMT
    <3>2. tails[i] = <<q>>
      BY <2>2 DEF q
    <3> QED
      BY <3>1, <3>2 DEF q
  <2> QED
    BY <2>1, <2>4, <2>5
<1>11. topics = [i \in 1..m |-> topics[i]]
  BY <1>1, LenProperties DEF m
<1>12. \A i \in 1..m :
         [topic |-> decoded(left[i - 1]), qos |-> undecoded(left[i - 1])[1]] = topics[i]
  <2> TAKE i \in 1..m
  <2>1. decoded(left[i - 1]) = topics[i].topic
    BY <1>8, <1>9
  <2>2. undecoded(left[i - 1])[1] = topics[i].qos
    BY <1>10
  <2>3. topics[i] = [topic |-> topics[i].topic, qos |-> topics[i].qos]
    BY <1>4
  <2> QED
    BY <2>1, <2>2, <2>3
<1>13. unboxSubscribe(s, n)
       = Subscribe(Number(s),
                   [i \in Passes(left, n) |->
                      [topic |-> decoded(left[i - 1]), qos |-> undecoded(left[i - 1])[1]]])
  BY DEF unboxSubscribe, left
<1>14. unboxSubscribe(s, n) = Subscribe(id, topics)
  <2>1. [i \in 1..m |->
           [topic |-> decoded(left[i - 1]), qos |-> undecoded(left[i - 1])[1]]]
        = [i \in 1..m |-> topics[i]]
    BY <1>12
  <2> QED
    BY <1>6, <1>9, <1>11, <1>13, <2>1
<1> QED
  BY <1>1, <1>14 DEF s, n

\* unboxing gives back an UNSUBSCRIBE.
LEMMA UnsubscribeUnboxed ==
  ASSUME NEW p \in ClientPacket, p.type = UNSUBSCRIBE, Erasable(Len(boxUnsubscribe(p)))
  PROVE  unboxUnsubscribe(boxUnsubscribe(p), Len(boxUnsubscribe(p))) = p
<1> DEFINE id == p.message_id
           topics == p.topics
           m == Len(topics)
           pieces == [i \in 1..Len(topics) |-> encode_bytes(topics[i])]
           e == EncodeAll(topics)
           s == boxUnsubscribe(p)
           n == Len(s)
<1>1. /\ p = Unsubscribe(id, topics) /\ id \in MessageId
      /\ topics \in Seq(Seq(Byte))
  BY ClientFields
<1>2. s = TwoBytes(id) \o e
  BY DEF boxUnsubscribe
<1>3. Erasable(n)
  OBVIOUS
<1> HIDE DEF id, topics, s
<1>4. /\ pieces \in Seq(Seq(Byte)) /\ Len(pieces) = m
      /\ e = Concat(pieces)
      /\ \A i \in 1..m : topics[i] \in Seq(Byte) /\ pieces[i] = encode_bytes(topics[i])
  BY <1>1, EncodedPieces
<1> HIDE DEF pieces
<1>5. e \in Seq(Byte) /\ \A i \in 1..m : 2 + Len(topics[i]) <= Len(e)
  BY <1>1, EncodeAllBytes
<1>6. m \in Nat /\ Len(e) \in Nat
  BY <1>1, <1>5, LenProperties
<1> HIDE DEF e
<1>7. /\ s \in Seq(Byte) /\ n = 2 + Len(e)
      /\ Number(s) = id
      /\ SubSeq(s, 3, n) = e
  BY <1>1, <1>2, <1>5, IdInFront
<1>8. n \in Nat /\ Len(e) <= n
  <2> HIDE DEF n
  <2> QED
    BY SMT, <1>6, <1>7
<1> DEFINE tails == [i \in 1..m |-> <<>>]
           left == Payload(s, n, 0)
<1>9. ASSUME NEW i \in 1..m
      PROVE  /\ topics[i] \in Seq(Byte) /\ Short(topics[i])
             /\ tails[i] \in Seq(Byte) /\ Len(tails[i]) = 0
             /\ pieces[i] = encode_bytes(topics[i]) \o tails[i]
  <2>1. tails[i] = <<>>
    OBVIOUS
  <2> HIDE DEF tails
  <2>2. topics[i] \in Seq(Byte) /\ pieces[i] = encode_bytes(topics[i])
    BY <1>4
  <2>3. tails[i] \in Seq(Byte) /\ Len(tails[i]) = 0
    BY <2>1, EmptySeq
  <2>4. Short(topics[i])
    <3> DEFINE a == Len(topics[i])
               c == Len(e)
    <3>1. a \in Nat /\ c \in Nat /\ 2 + a <= c /\ c <= n
      BY <1>5, <1>6, <1>8, <2>2, LenProperties
    <3> HIDE DEF a, c, n
    <3>2. 2 + a <= n /\ 2 \in Nat
      BY SMT, <1>8, <3>1
    <3> QED
      BY <1>3, <1>8, <2>2, <3>2, ErasableShort DEF a
  <2>5. encode_bytes(topics[i]) \o <<>> = encode_bytes(topics[i])
    <3>1. encode_bytes(topics[i]) \in Seq(Byte)
      BY <2>2, EncodedBytes
    <3> QED
      BY <3>1, ConcatEmptySeq
  <2> QED
    BY <2>1, <2>2, <2>3, <2>4, <2>5
<1> HIDE DEF tails, n, m
<1>10. /\ Passes(left, n) = 1..m
       /\ \A i \in 1..m : decoded(left[i - 1]) = topics[i]
  <2>1. 0 \in Nat
    OBVIOUS
  <2>2. Len(Concat(pieces)) <= n /\ SubSeq(s, 3, n) = Concat(pieces)
    BY <1>4, <1>7, <1>8
  <2> QED
    <3>1. Entries(m, pieces, topics, tails, 0)
      BY <1>9 DEF Entries
    <3>2. Recovered(m, left, n, topics, tails)
      BY <1>4, <1>6, <1>8, <2>1, <2>2, <3>1, PayloadDecoded
    <3> QED
      BY <3>2 DEF Recovered
<1> HIDE DEF left
<1>11. topics = [i \in 1..m |-> topics[i]]
  BY <1>1, LenProperties DEF m
<1>12. unboxUnsubscribe(s, n)
       = Unsubscribe(Number(s), [i \in Passes(left, n) |-> decoded(left[i - 1])])
  BY DEF unboxUnsubscribe, left
<1>13. unboxUnsubscribe(s, n) = Unsubscribe(id, topics)
  <2>1. [i \in 1..m |-> decoded(left[i - 1])] = [i \in 1..m |-> topics[i]]
    BY <1>10
  <2> QED
    BY <1>7, <1>10, <1>11, <1>12, <2>1
<1> QED
  BY <1>1, <1>13 DEF s, n

\* The classes' unboxing gives back every packet but a PUBLISH, whatever its
\* strings and however many its topics, if it can erase the fixed header.
THEOREM UnboxingRoundTrip ==
  ASSUME NEW p \in ClientPacket, p.type # PUBLISH, Erasable(Len(ClientBody(p)))
  PROVE  unboxing(ClientBytes(p)) = p
<1> DEFINE o == ClientBody(p)
           b == ClientBytes(p)
<1>1. o \in Seq(Byte) /\ Len(o) \in Nat
  BY ClientBodyBytes, LenProperties
<1>2. Len(o) <= MaxLength
  <2> DEFINE n == Len(o)
  <2>1. n \in Nat /\ Erasable(n)
    BY <1>1
  <2> HIDE DEF n
  <2>2. n <= MaxLength
    BY SMT, <2>1 DEF Erasable, MaxLength
  <2> QED
    BY <2>2 DEF n
<1>3. PacketShape(b, p.type, o)
  BY <1>2, ClientBytesShape
<1>4. Erasable(Len(o))
  OBVIOUS
<1> HIDE DEF o, b
<1>5. header(b).type = p.type /\ header(b).remaining_length = Len(o) /\ rest(b) = o
  BY <1>1, <1>3, <1>4, ShapeRead
<1>6. /\ p.type = CONNECT => unboxing(b) = unboxConnect(o)
      /\ p.type = SUBSCRIBE => unboxing(b) = unboxSubscribe(o, Len(o))
      /\ p.type = UNSUBSCRIBE => unboxing(b) = unboxUnsubscribe(o, Len(o))
      /\ p.type \in {PINGREQ, DISCONNECT} => unboxing(b) = [type |-> p.type]
  <2> DEFINE h == header(b)
  <2>1. /\ h.type = CONNECT => unboxing(b) = unboxConnect(rest(b))
        /\ h.type = SUBSCRIBE => unboxing(b) = unboxSubscribe(rest(b), h.remaining_length)
        /\ h.type = UNSUBSCRIBE => unboxing(b) = unboxUnsubscribe(rest(b), h.remaining_length)
        /\ h.type \in {PINGREQ, DISCONNECT} => unboxing(b) = [type |-> h.type]
    <3>1. unboxing(b)
          = CASE h.type = CONNECT -> unboxConnect(rest(b))
              [] h.type = SUBSCRIBE -> unboxSubscribe(rest(b), h.remaining_length)
              [] h.type = UNSUBSCRIBE -> unboxUnsubscribe(rest(b), h.remaining_length)
              [] OTHER -> [type |-> h.type]
      BY DEF unboxing
    <3> HIDE DEF h
    <3>2. h.type = CONNECT => unboxing(b) = unboxConnect(rest(b))
      BY Zenon, <3>1, ClientTypes
    <3>3. h.type = SUBSCRIBE => unboxing(b) = unboxSubscribe(rest(b), h.remaining_length)
      BY Zenon, <3>1, ClientTypes
    <3>4. h.type = UNSUBSCRIBE
          => unboxing(b) = unboxUnsubscribe(rest(b), h.remaining_length)
      BY Zenon, <3>1, ClientTypes
    <3>5. h.type \in {PINGREQ, DISCONNECT} => unboxing(b) = [type |-> h.type]
      BY Zenon, <3>1, ClientTypes
    <3> QED
      BY <3>2, <3>3, <3>4, <3>5
  <2> QED
    BY <1>5, <2>1
<1>7. CASE p.type = CONNECT
  <2>1. o = boxConnect(p)
    BY <1>7, ClientArms DEF o
  <2> QED
    BY <1>4, <1>6, <1>7, <2>1, ConnectUnboxed DEF b
<1>8. CASE p.type = SUBSCRIBE
  <2>1. o = boxSubscribe(p)
    BY <1>8, ClientArms DEF o
  <2> QED
    BY <1>4, <1>6, <1>8, <2>1, SubscribeUnboxed DEF b
<1>9. CASE p.type = UNSUBSCRIBE
  <2>1. o = boxUnsubscribe(p)
    BY <1>9, ClientArms DEF o
  <2> QED
    BY <1>4, <1>6, <1>9, <2>1, UnsubscribeUnboxed DEF b
<1>10. CASE p.type \in {PINGREQ, DISCONNECT}
  BY <1>6, <1>10, ClientFields DEF b
<1> QED
  BY <1>7, <1>8, <1>9, <1>10, ClientFields DEF b

=============================================================================
