--------------------------- MODULE PacketsProofs ----------------------------
(***************************************************************************)
(* What the codecs of FixedHeader and Packets compute, for every length    *)
(* and every string.                                                       *)
(***************************************************************************)
EXTENDS Packets, SequenceTheorems, TLAPS

-----------------------------------------------------------------------------
(* One to four digits.                                                     *)

\* The value of the i-th digit of n.
Digit(n, i) == (n \div Weight[i]) % 128

\* The weights, one by one.
LEMMA Weights ==
  Weight[1] = 1 /\ Weight[2] = 128 /\ Weight[3] = 16384 /\ Weight[4] = 2097152
  BY SMT DEF Weight

\* A remaining length is below 128^4.
LEMMA LengthNat ==
  ASSUME NEW n \in Nat, n <= MaxLength
  PROVE  n < 268435456
  BY SMT DEF MaxLength

\* A number is its last digit and 128 times the number before it.
LEMMA LastDigit ==
  ASSUME NEW n \in Nat
  PROVE  /\ n \div 128 \in Nat
         /\ n % 128 \in 0..127
         /\ n = (n % 128) + (n \div 128) * 128
         /\ n < 128 => n % 128 = n
  BY SMT

\* A number is the sum of its digits' values.
LEMMA DigitSum ==
  ASSUME NEW n \in Nat, n <= MaxLength
  PROVE  /\ n < 128 => n = Digit(n, 1)
         /\ n < 16384 => n = Digit(n, 1) + Digit(n, 2) * 128
         /\ n < 2097152 => n = Digit(n, 1) + Digit(n, 2) * 128 + Digit(n, 3) * 16384
         /\ n = Digit(n, 1) + Digit(n, 2) * 128 + Digit(n, 3) * 16384
                + Digit(n, 4) * 2097152
<1> DEFINE a == n \div 128
           b == a \div 128
           c == b \div 128
<1>1. n < 268435456
  BY SMT, LengthNat
<1>2. b = n \div 16384 /\ c = n \div 2097152
  BY SMT, <1>1
<1>3. a \in Nat /\ b \in Nat /\ c \in Nat
  BY SMT, <1>1
<1>4. n = (n % 128) + a * 128 /\ a = (a % 128) + b * 128 /\ b = (b % 128) + c * 128
  BY SMT, <1>1, <1>3, LastDigit
<1>5. n % 128 \in 0..127 /\ a % 128 \in 0..127 /\ b % 128 \in 0..127
  BY SMT, <1>1, <1>3, LastDigit
<1>6. c % 128 = c
  BY SMT, <1>1, <1>2, <1>3
<1> HIDE DEF a, b, c
<1>7. /\ n < 128 => n = n % 128
      /\ n < 16384 => n = (n % 128) + (a % 128) * 128
      /\ n < 2097152 => n = (n % 128) + (a % 128) * 128 + (b % 128) * 16384
      /\ n = (n % 128) + (a % 128) * 128 + (b % 128) * 16384 + (c % 128) * 2097152
  BY SMT, <1>1, <1>3, <1>4, <1>5, <1>6
<1>8. /\ Digit(n, 1) = n % 128
      /\ Digit(n, 2) = a % 128
      /\ Digit(n, 3) = b % 128
      /\ Digit(n, 4) = c % 128
  <2>1. n \div 1 = n /\ a = n \div 128
    BY SMT DEF a
  <2> QED
    BY SMT, <1>2, <2>1, Weights DEF Digit
<1> QED
  BY SMT, <1>7, <1>8

\* The digits of n, with the bits that tell which is the last.
LEMMA EncodedDigits ==
  ASSUME NEW n \in Nat, n <= MaxLength
  PROVE  /\ Digits(n) \in 1..4
         /\ encode_remaining_len(n) \in Seq(Nat)
         /\ Len(encode_remaining_len(n)) = Digits(n)
         /\ \A i \in 1..Digits(n) :
              /\ encode_remaining_len(n)[i] \in Nat
              /\ i < Digits(n) => encode_remaining_len(n)[i] >= 128
              /\ i = Digits(n) => encode_remaining_len(n)[i] < 128
              /\ encode_remaining_len(n)[i] % 128 = Digit(n, i)
<1> DEFINE e == encode_remaining_len(n)
           d(i) == Digit(n, i)
<1>1. Digits(n) \in 1..4
  BY SMT DEF Digits
<1>2. \A i \in 1..4 : Weight[i] \in Nat \ {0}
  BY SMT, Weights
<1>3. \A i \in 1..Digits(n) : e[i] = d(i) + (IF i < Digits(n) THEN 128 ELSE 0)
  BY SMT DEF encode_remaining_len, Digit
<1>4. \A i \in 1..4 : d(i) \in 0..127
  <2> TAKE i \in 1..4
  <2>1. n \div Weight[i] \in Nat
    BY SMT, <1>2
  <2> QED
    BY SMT, <2>1 DEF Digit
<1>5. Len(e) = Digits(n)
  BY SMT, <1>1 DEF encode_remaining_len
<1>6. e \in Seq(Nat)
  <2>1. \A i \in 1..Digits(n) : e[i] \in Nat
    <3> HIDE DEF e, d
    <3> QED
      BY SMT, <1>1, <1>3, <1>4
  <2> QED
    BY SMT, <1>1, <2>1 DEF encode_remaining_len
<1>7. ASSUME NEW i \in 1..Digits(n)
      PROVE  /\ e[i] \in Nat
             /\ i < Digits(n) => e[i] >= 128
             /\ i = Digits(n) => e[i] < 128
             /\ e[i] % 128 = d(i)
  <2> HIDE DEF e, d
  <2>1. d(i) \in 0..127 /\ e[i] = d(i) + (IF i < Digits(n) THEN 128 ELSE 0)
    BY SMT, <1>1, <1>3, <1>4
  <2> QED
    BY SMT, <1>1, <2>1
<1> QED
  BY SMT, <1>1, <1>5, <1>6, <1>7

-----------------------------------------------------------------------------
(* The codec.                                                              *)

\* Whatever follows them, the digits of a remaining length, at most 268435455,
\* are decoded to that length.
THEOREM LengthRoundTrip ==
  ASSUME NEW n \in Nat, n <= MaxLength, NEW m,
         \A i \in 1..Digits(n) : m[i + 1] = encode_remaining_len(n)[i]
  PROVE  decode_remaining_len(m) = n
<1> DEFINE d(i) == Digit(n, i)
<1>1. /\ Digits(n) \in 1..4
      /\ \A i \in 1..Digits(n) :
           /\ encode_remaining_len(n)[i] \in Nat
           /\ i < Digits(n) => encode_remaining_len(n)[i] >= 128
           /\ i = Digits(n) => encode_remaining_len(n)[i] < 128
           /\ encode_remaining_len(n)[i] % 128 = d(i)
  BY SMT, EncodedDigits
<1>2. /\ n < 128 => n = d(1)
      /\ n < 16384 => n = d(1) + d(2) * 128
      /\ n < 2097152 => n = d(1) + d(2) * 128 + d(3) * 16384
      /\ n = d(1) + d(2) * 128 + d(3) * 16384 + d(4) * 2097152
  BY SMT, DigitSum
<1>0. d(1) \in Nat /\ d(2) \in Nat /\ d(3) \in Nat /\ d(4) \in Nat
  BY SMT, Weights DEF Digit
<1> HIDE DEF d
<1>3. ASSUME NEW i \in 1..4, NEW k \in 2..5, k = i + 1, i <= Digits(n)
      PROVE  /\ m[k] \in Nat
             /\ i < Digits(n) => m[k] >= 128
             /\ i = Digits(n) => m[k] < 128
             /\ m[k] % 128 = d(i)
  <2>1. i \in 1..Digits(n) /\ m[k] = encode_remaining_len(n)[i]
    BY SMT, <1>1, <1>3
  <2> QED
    BY SMT, <1>1, <2>1
<1>4. CASE Digits(n) = 1
  <2>1. m[2] \in Nat /\ m[2] < 128
    BY SMT, <1>3, <1>4
  <2>2. m[2] % 128 = d(1)
    BY SMT, <1>3, <1>4
  <2>3. DigitsRead(m) = 1
    BY SMT, <2>1 DEF DigitsRead
  <2>4. decode_remaining_len(m) = d(1)
    BY SMT, <1>0, <2>2, <2>3, Weights DEF decode_remaining_len
  <2>5. n < 128
    BY SMT, <1>4 DEF Digits
  <2> QED
    BY SMT, <1>2, <2>4, <2>5
<1>5. CASE Digits(n) = 2
  <2>1. /\ m[2] \in Nat /\ m[2] >= 128
        /\ m[3] \in Nat /\ m[3] < 128
    BY SMT, <1>3, <1>5
  <2>2. /\ m[2] % 128 = d(1)
        /\ m[3] % 128 = d(2)
    BY SMT, <1>3, <1>5
  <2>3. DigitsRead(m) = 2
    BY SMT, <2>1 DEF DigitsRead
  <2>4. decode_remaining_len(m) = d(1) + d(2) * 128
    BY SMT, <1>0, <2>2, <2>3, Weights DEF decode_remaining_len
  <2>5. n < 16384
    BY SMT, <1>5 DEF Digits
  <2> QED
    BY SMT, <1>2, <2>4, <2>5
<1>6. CASE Digits(n) = 3
  <2>1. /\ m[2] \in Nat /\ m[2] >= 128
        /\ m[3] \in Nat /\ m[3] >= 128
        /\ m[4] \in Nat /\ m[4] < 128
    BY SMT, <1>3, <1>6
  <2>2. /\ m[2] % 128 = d(1)
        /\ m[3] % 128 = d(2)
        /\ m[4] % 128 = d(3)
    BY SMT, <1>3, <1>6
  <2>3. DigitsRead(m) = 3
    BY SMT, <2>1 DEF DigitsRead
  <2>4. decode_remaining_len(m) = d(1) + d(2) * 128 + d(3) * 16384
    BY SMT, <1>0, <2>2, <2>3, Weights DEF decode_remaining_len
  <2>5. n < 2097152
    BY SMT, <1>6 DEF Digits
  <2> QED
    BY SMT, <1>2, <2>4, <2>5
<1>7. CASE Digits(n) = 4
  <2>1. /\ m[2] \in Nat /\ m[2] >= 128
        /\ m[3] \in Nat /\ m[3] >= 128
        /\ m[4] \in Nat /\ m[4] >= 128
        /\ m[5] \in Nat /\ m[5] < 128
    BY SMT, <1>3, <1>7
  <2>2. /\ m[2] % 128 = d(1)
        /\ m[3] % 128 = d(2)
        /\ m[4] % 128 = d(3)
        /\ m[5] % 128 = d(4)
    BY SMT, <1>3, <1>7
  <2>3. DigitsRead(m) = 4
    BY SMT, <2>1 DEF DigitsRead
  <2>4. decode_remaining_len(m) = d(1) + d(2) * 128 + d(3) * 16384 + d(4) * 2097152
    BY SMT, <1>0, <2>2, <2>3, Weights DEF decode_remaining_len
  <2> QED
    BY SMT, <1>2, <2>4
<1> QED
  BY SMT, <1>1, <1>4, <1>5, <1>6, <1>7

-----------------------------------------------------------------------------
(* Strings.                                                                *)

\* Two bytes of a number.
LEMMA TwoBytesBytes ==
  ASSUME NEW n \in Nat
  PROVE  /\ TwoBytes(n) \in Seq(Byte)
         /\ Len(TwoBytes(n)) = 2
         /\ n < 65536 => Number(TwoBytes(n)) = n
<1>1. (n \div 256) % 256 \in Byte /\ n % 256 \in Byte
  BY SMT DEF Byte
<1>2. n < 65536 => ((n \div 256) % 256) * 256 + (n % 256) = n
  BY SMT
<1> QED
  BY SMT, <1>1, <1>2 DEF TwoBytes, Number

\* A string is encoded in two bytes more than it has.
LEMMA EncodedBytes ==
  ASSUME NEW s \in Seq(Byte)
  PROVE  encode_bytes(s) \in Seq(Byte) /\ Len(encode_bytes(s)) = 2 + Len(s)
<1>1. Len(s) \in Nat
  BY SMT
<1> DEFINE t == TwoBytes(Len(s))
<1>2. t \in Seq(Byte)
  BY <1>1, TwoBytesBytes
<1>3. Len(t) = 2
  BY <1>1, TwoBytesBytes
<1> HIDE DEF t
<1>4. t \o s \in Seq(Byte) /\ Len(t \o s) = Len(t) + Len(s)
  BY SMT, <1>2
<1> QED
  BY SMT, <1>3, <1>4 DEF encode_bytes, t

\* The part of a sequence between two of its places.
LEMMA PartOfSeq ==
  ASSUME NEW S, NEW s \in Seq(S), NEW k \in Nat, NEW l \in Nat,
         1 <= k, k <= l + 1, l <= Len(s)
  PROVE  /\ SubSeq(s, k, l) \in Seq(S)
         /\ Len(SubSeq(s, k, l)) = l - k + 1
         /\ \A i \in 1..(l - k + 1) : SubSeq(s, k, l)[i] = s[k + i - 1]
<1>1. k \in Int /\ l \in Int /\ Len(s) \in Nat
  BY SMT, LenProperties
<1>2. \A i \in k..l : s[i] \in S
  <2> TAKE i \in k..l
  <2>1. i \in 1..Len(s)
    BY SMT, <1>1
  <2> QED
    BY <2>1, ElementOfSeq
<1> DEFINE m == SubSeq(s, k, l)
<1>3. /\ m \in Seq(S)
      /\ Len(m) = IF k <= l THEN l - k + 1 ELSE 0
      /\ \A i \in 1..(l - k + 1) : m[i] = s[k + i - 1]
  BY <1>1, <1>2, SubSeqProperties
<1> HIDE DEF m
<1>4. Len(m) = l - k + 1
  BY SMT, <1>3
<1> QED
  BY <1>3, <1>4 DEF m

\* What a sequence in front, in the middle or behind is cut out of the whole by.
LEMMA CutOut ==
  ASSUME NEW S, NEW u \in Seq(S), NEW v \in Seq(S), NEW w \in Seq(S)
  PROVE  /\ (u \o v) \o w \in Seq(S)
         /\ Len((u \o v) \o w) = Len(u) + Len(v) + Len(w)
         /\ \A i \in 1..Len(u) : ((u \o v) \o w)[i] = u[i]
         /\ SubSeq((u \o v) \o w, Len(u) + 1, Len(u) + Len(v)) = v
         /\ SubSeq((u \o v) \o w, Len(u) + Len(v) + 1, Len((u \o v) \o w)) = w
<1> DEFINE e == (u \o v) \o w
           a == Len(u)
           b == Len(v)
           c == Len(w)
<1>1. a \in Nat /\ b \in Nat /\ c \in Nat
  BY LenProperties
<1>2. u \o v \in Seq(S) /\ Len(u \o v) = a + b
  BY ConcatProperties
<1>3. e \in Seq(S) /\ Len(e) = a + b + c
  BY <1>2, ConcatProperties
<1>4. \A i \in 1..(a + b) : (u \o v)[i] = IF i <= a THEN u[i] ELSE v[i - a]
  BY ConcatProperties
<1>5. \A i \in 1..(a + b + c) : e[i] = IF i <= a + b THEN (u \o v)[i] ELSE w[i - (a + b)]
  BY <1>2, ConcatProperties
<1>6. \A i \in 1..(a + b + c) : e[i] \in S
  BY <1>3, ElementOfSeq
<1> HIDE DEF e, a, b, c
<1>7. \A i \in 1..a : e[i] = u[i]
  <2> TAKE i \in 1..a
  <2>1. i \in 1..(a + b) /\ i \in 1..(a + b + c) /\ i <= a /\ i <= a + b
    BY SMT, <1>1
  <2> QED
    BY <1>4, <1>5, <2>1
<1>8. SubSeq(e, a + 1, a + b) = v
  <2> DEFINE k == a + 1
             l == a + b
             m == SubSeq(e, k, l)
  <2>1. \A i \in k..l : e[i] \in S
    BY SMT, <1>1, <1>6
  <2>2. k \in Int /\ l \in Int
    BY SMT, <1>1
  <2> HIDE DEF k, l
  <2>3. /\ m \in Seq(S)
        /\ Len(m) = IF k <= l THEN l - k + 1 ELSE 0
        /\ \A i \in 1..(l - k + 1) : m[i] = e[k + i - 1]
    BY <2>1, <2>2, SubSeqProperties
  <2> HIDE DEF m
  <2>4. Len(m) = b
    BY SMT, <1>1, <2>3 DEF k, l
  <2>5. \A i \in 1..b : m[i] = v[i]
    <3> TAKE i \in 1..b
    <3>1. i \in 1..(l - k + 1) /\ k + i - 1 = a + i
      BY SMT, <1>1 DEF k, l
    <3>2. /\ a + i \in 1..(a + b) /\ a + i \in 1..(a + b + c)
          /\ ~(a + i <= a) /\ a + i <= a + b /\ (a + i) - a = i
      BY SMT, <1>1
    <3> QED
      BY <1>4, <1>5, <2>3, <3>1, <3>2
  <2>6. m = v
    BY <2>3, <2>4, <2>5, SeqEqual DEF b
  <2> QED
    BY <2>6 DEF m, k, l
<1>9. SubSeq(e, a + b + 1, Len(e)) = w
  <2> DEFINE k == a + b + 1
             l == a + b + c
             m == SubSeq(e, k, l)
  <2>1. \A i \in k..l : e[i] \in S
    BY SMT, <1>1, <1>6
  <2>2. k \in Int /\ l \in Int
    BY SMT, <1>1
  <2> HIDE DEF k, l
  <2>3. /\ m \in Seq(S)
        /\ Len(m) = IF k <= l THEN l - k + 1 ELSE 0
        /\ \A i \in 1..(l - k + 1) : m[i] = e[k + i - 1]
    BY <2>1, <2>2, SubSeqProperties
  <2> HIDE DEF m
  <2>4. Len(m) = c
    BY SMT, <1>1, <2>3 DEF k, l
  <2>5. \A i \in 1..c : m[i] = w[i]
    <3> TAKE i \in 1..c
    <3>1. i \in 1..(l - k + 1) /\ k + i - 1 = a + b + i
      BY SMT, <1>1 DEF k, l
    <3>2. /\ a + b + i \in 1..(a + b + c)
          /\ ~(a + b + i <= a + b) /\ (a + b + i) - (a + b) = i
      BY SMT, <1>1
    <3> QED
      BY <1>5, <2>3, <3>1, <3>2
  <2> QED
    BY <1>3, <2>3, <2>4, <2>5, SeqEqual DEF c, k, l, m
<1> QED
  BY <1>3, <1>7, <1>8, <1>9 DEF e, a, b, c

\* The second of two sequences.
LEMMA SecondHalf ==
  ASSUME NEW u \in Seq(Byte), NEW v \in Seq(Byte)
  PROVE  SubSeq(u \o v, Len(u) + 1, Len(u \o v)) = v
<1>1. <<>> \in Seq(Byte)
  BY EmptySeq
<1>2. /\ u \o v \in Seq(Byte)
      /\ Len(u \o v) = Len(u) + Len(v)
  BY ConcatProperties
<1>3. (u \o v) \o <<>> = u \o v
  BY <1>2, ConcatEmptySeq
<1>4. SubSeq((u \o v) \o <<>>, Len(u) + 1, Len(u) + Len(v)) = v
  BY <1>1, CutOut
<1> QED
  BY <1>2, <1>3, <1>4

\* Likewise, a byte in front of two sequences.
LEMMA HeaderCut ==
  ASSUME NEW f \in Byte, NEW e \in Seq(Byte), NEW o \in Seq(Byte)
  PROVE  LET b == (<<f>> \o e) \o o
         IN  /\ b \in Seq(Byte)
             /\ Len(b) = 1 + Len(e) + Len(o)
             /\ b[1] = f
             /\ \A i \in 1..Len(e) : b[i + 1] = e[i]
             /\ SubSeq(b, 2 + Len(e), Len(b)) = o
<1> DEFINE h == <<f>>
           b == (h \o e) \o o
<1>0. h \in Seq(Byte)
  BY SMT
<1>1. Len(h) = 1 /\ h[1] = f
  BY SMT
<1>2. Len(e) \in Nat /\ Len(o) \in Nat
  BY LenProperties
<1> HIDE DEF h
<1>3. /\ b \in Seq(Byte)
      /\ Len(b) = Len(h) + Len(e) + Len(o)
      /\ \A i \in 1..Len(h) : b[i] = h[i]
      /\ SubSeq(b, Len(h) + 1, Len(h) + Len(e)) = e
      /\ SubSeq(b, Len(h) + Len(e) + 1, Len(b)) = o
  BY <1>0, CutOut
<1> HIDE DEF b
<1>4. /\ Len(b) = 1 + Len(e) + Len(o)
      /\ b[1] = f
      /\ SubSeq(b, 2, 1 + Len(e)) = e
      /\ SubSeq(b, 2 + Len(e), Len(b)) = o
  BY SMT, <1>1, <1>2, <1>3
<1>5. \A i \in 1..Len(e) : b[i + 1] = e[i]
  <2> TAKE i \in 1..Len(e)
  <2> DEFINE k == 1 + Len(e)
  <2>1. /\ k \in Int /\ 2 \in Int
        /\ \A j \in 2..k : b[j] \in Byte
    BY SMT, <1>2, <1>3, <1>4
  <2>2. i \in 1..(k - 2 + 1) /\ 2 + i - 1 = i + 1
    BY SMT, <1>2
  <2> HIDE DEF k
  <2>3. \A j \in 1..(k - 2 + 1) : SubSeq(b, 2, k)[j] = b[2 + j - 1]
    BY <2>1, SubSeqProperties
  <2>4. SubSeq(b, 2, k)[i] = b[i + 1]
    BY <2>2, <2>3
  <2> QED
    BY <1>4, <2>4 DEF k
<1> QED
  BY <1>3, <1>4, <1>5 DEF b, h

\* decode_bytes takes exactly the string that encode_bytes put in front of t, and
\* leaves t, for every string of at most 65535 bytes.
THEOREM StringRoundTrip ==
  ASSUME NEW s \in Seq(Byte), NEW t \in Seq(Byte), Len(s) < 65536
  PROVE  LET e == encode_bytes(s) \o t
         IN  decodable(e) /\ decoded(e) = s /\ undecoded(e) = t
<1> DEFINE u == TwoBytes(Len(s))
           e == (u \o s) \o t
<1>1. Len(s) \in Nat /\ Len(t) \in Nat
  BY LenProperties
<1>2. u \in Seq(Byte)
  BY <1>1, TwoBytesBytes
<1>3. Len(u) = 2 /\ Number(u) = Len(s)
  BY <1>1, TwoBytesBytes
<1> HIDE DEF u
<1>4. /\ e \in Seq(Byte)
      /\ Len(e) = 2 + Len(s) + Len(t)
      /\ \A i \in 1..2 : e[i] = u[i]
      /\ SubSeq(e, 2 + 1, 2 + Len(s)) = s
      /\ SubSeq(e, 2 + Len(s) + 1, Len(e)) = t
  <2>1. /\ e \in Seq(Byte)
        /\ Len(e) = Len(u) + Len(s) + Len(t)
        /\ \A i \in 1..Len(u) : e[i] = u[i]
        /\ SubSeq(e, Len(u) + 1, Len(u) + Len(s)) = s
        /\ SubSeq(e, Len(u) + Len(s) + 1, Len(e)) = t
    BY <1>2, CutOut
  <2> QED
    BY <1>3, <2>1
<1> HIDE DEF e
<1>5. Number(e) = Len(s)
  BY SMT, <1>3, <1>4 DEF Number
<1>6. decodable(e) /\ decoded(e) = s /\ undecoded(e) = t
  BY SMT, <1>1, <1>4, <1>5 DEF decodable, decoded, undecoded, Drop
<1> QED
  BY <1>6 DEF e, u, encode_bytes

-----------------------------------------------------------------------------
(* The bytes of a packet.                                                  *)

\* The digits of a remaining length are bytes.
LEMMA DigitsAreBytes ==
  ASSUME NEW n \in Nat, n <= MaxLength
  PROVE  encode_remaining_len(n) \in Seq(Byte)
<1>1. \A i \in 1..Digits(n) : encode_remaining_len(n)[i] \in Byte
  <2> TAKE i \in 1..Digits(n)
  <2>1. i \in 1..4 /\ Weight[i] \in Nat \ {0}
    <3>1. Digits(n) \in 1..4
      BY EncodedDigits
    <3>2. \A k \in 1..4 : Weight[k] \in Nat \ {0}
      BY SMT, Weights
    <3> QED
      BY SMT, <3>1, <3>2
  <2>2. n \div Weight[i] \in Nat
    BY SMT, <2>1
  <2>3. (n \div Weight[i]) % 128 \in 0..127
    BY SMT, <2>2
  <2>4. encode_remaining_len(n)[i]
        = ((n \div Weight[i]) % 128) + (IF i < Digits(n) THEN 128 ELSE 0)
    BY SMT DEF encode_remaining_len
  <2> QED
    BY SMT, <2>3, <2>4 DEF Byte
<1>2. encode_remaining_len(n) \in Seq(Nat) /\ Len(encode_remaining_len(n)) = Digits(n)
  BY EncodedDigits
<1> QED
  BY SMT, <1>1, <1>2

\* Bytes b are a packet of type t: its first byte, the digits of its remaining
\* length, which is decoded to the length of the body, and the body o.
PacketShape(b, t, o) ==
  /\ Digits(Len(o)) \in 1..4
  /\ b \in Seq(Byte)
  /\ Len(b) = 1 + Digits(Len(o)) + Len(o)
  /\ b[1] \div 16 = t
  /\ \A i \in 1..Digits(Len(o)) : b[i + 1] = encode_remaining_len(Len(o))[i]
  /\ SubSeq(b, 2 + Digits(Len(o)), Len(b)) = o
  /\ decode_remaining_len(b) = Len(o)

\* boxing, and the body behind it, have this shape.
LEMMA BoxedShape ==
  ASSUME NEW t \in Nat, t < 16, NEW c \in {0, 1}, NEW q \in 0..2, NEW r \in {0, 1},
         NEW o \in Seq(Byte), Len(o) <= MaxLength
  PROVE  PacketShape(boxing([type |-> t, dup |-> c, qos |-> q, retain |-> r,
                             remaining_length |-> Len(o)]) \o o, t, o)
<1> DEFINE h == [type |-> t, dup |-> c, qos |-> q, retain |-> r, remaining_length |-> Len(o)]
           f == t * 16 + c * 8 + q * 2 + r
           e == encode_remaining_len(Len(o))
           b == (<<f>> \o e) \o o
<1>1. Len(o) \in Nat
  BY LenProperties
<1>2. f \in Byte /\ f \div 16 = t
  BY SMT DEF Byte
<1>3. e \in Seq(Byte) /\ Len(e) = Digits(Len(o)) /\ Digits(Len(o)) \in 1..4
  BY <1>1, DigitsAreBytes, EncodedDigits
<1>4. boxing(h) \o o = b
  BY DEF boxing
<1> HIDE DEF f, e, h
<1>5. /\ b \in Seq(Byte)
      /\ Len(b) = 1 + Len(e) + Len(o)
      /\ b[1] = f
      /\ \A i \in 1..Len(e) : b[i + 1] = e[i]
      /\ SubSeq(b, 2 + Len(e), Len(b)) = o
  BY <1>2, <1>3, HeaderCut
<1> HIDE DEF b
<1>6. decode_remaining_len(b) = Len(o)
  <2>1. \A i \in 1..Digits(Len(o)) : b[i + 1] = encode_remaining_len(Len(o))[i]
    BY <1>3, <1>5 DEF e
  <2> QED
    BY <1>1, <2>1, LengthRoundTrip
<1> QED
  BY <1>2, <1>3, <1>4, <1>5, <1>6 DEF e, h, PacketShape

\* Digits by the length, and what unboxing erases.
LEMMA ErasedDigits ==
  ASSUME NEW n \in Nat
  PROVE  /\ n < 128 => Digits(n) = 1
         /\ n >= 128 /\ n < 16384 => Digits(n) = 2
         /\ n < 127 => erased(n) = 2
         /\ n >= 128 /\ n < 16384 => erased(n) = 3
         /\ n = 127 => erased(n) = 0
         /\ n >= 16384 => erased(n) = 0
         /\ Digits(n) = 2 => n >= 128 /\ erased(n) = 3
<1>1. /\ n < 128 => Digits(n) = 1
      /\ n >= 128 /\ n < 16384 => Digits(n) = 2
  BY SMT DEF Digits
<1>2. n < 127 => erased(n) = 2
  BY SMT DEF erased
<1>3. n >= 128 /\ n < 16384 => erased(n) = 3
  BY SMT DEF erased
<1>4. n = 127 => erased(n) = 0
  BY SMT DEF erased
<1>5. n >= 16384 => erased(n) = 0
  BY SMT DEF erased
<1>6. Digits(n) = 2 => n >= 128 /\ n < 16384
  BY SMT DEF Digits
<1> QED
  BY SMT, <1>1, <1>2, <1>3, <1>4, <1>5, <1>6

=============================================================================
