----------------------------- MODULE CodecProofs -----------------------------
(***************************************************************************)
(* Theorems about one direction of a link byte by byte, for every size of  *)
(* a byte, of recv_buffer and of size_t, any texts and any number of them. *)
(*                                                                         *)
(* The argument: as long as the receiver has met no text that is too long, *)
(* the bytes ahead of it are what is left of the frame it is reading and   *)
(* the whole frames after it (InStep); once it has (Lost), the texts       *)
(* before that one are received and only their order can no longer change. *)
(***************************************************************************)
EXTENDS Codec, SequenceTheorems, TLAPS

USE ByteStreamAssumption, CodecAssumption

(* The body of a text's packet.                                            *)
Body(t) == <<Len(t)>> \o t

(* These bytes are the frames of the texts s from the i-th on: rest[j] is  *)
(* what is left of them before the j-th.                                   *)
Frames(s, i, bytes) == \E rest \in [1 .. Len(s) + 1 -> Seq(Nat)] :
    /\ rest[i] = bytes /\ rest[Len(s) + 1] = <<>>
    /\ \A j \in i .. Len(s) : rest[j] = Encoded(s[j]) \o rest[j + 1]

(* These bytes are a part, then the frames.                                *)
Holds(bytes, s, part, i) == \E b \in Seq(Nat) : bytes = part \o b /\ Frames(s, i, b)

(* ... on the wire and in out_data.                                        *)
Ahead(part, i) == Holds(wire \o out_data.buf, sent, part, i)

(* The positions of a stream are within its characters.                    *)
Sound(s) == s.get <= Len(s.buf) /\ s.put <= Len(s.buf)
Streams == Sound(out_data) /\ Sound(in_data) /\ Sound(recv_packet)

(* n texts of s fit before the first that does not.                        *)
GoodOf(s, n) == /\ n \in 0 .. Len(s)
                /\ \A i \in 1 .. n : Fits(s[i])
                /\ n < Len(s) => ~Fits(s[n + 1])

Same(n) == \A i \in 1 .. n : received[i] = sent[i]

Reading ==
    \/ rd = "handshake" /\ Len(received) = 0 /\ nextLen = 0 /\ Ahead(<<1, 1>>, 1)
    \/ rd = "header" /\ Ahead(<<>>, Len(received) + 1)
    \/ /\ rd = "msg" /\ Len(received) < Good
       /\ nextLen = Len(Body(sent[Len(received) + 1]))
       /\ Ahead(Body(sent[Len(received) + 1]), Len(received) + 2)

InStep ==
    /\ Len(received) <= Good /\ Same(Len(received))
    /\ ~out_data.fail /\ ~in_data.fail /\ ~recv_packet.fail
    /\ out_data.put = Len(out_data.buf)
    /\ Reading

Lost == Good < Len(sent) /\ Good <= Len(received) /\ Same(Good)

IInv == TypeOK /\ Streams /\ GoodOf(sent, Good) /\ (InStep \/ Lost)
-----------------------------------------------------------------------------
(***************************************************************************)
(* Sequences of bytes.                                                     *)
(***************************************************************************)

(* Both parts of a sequence.                                               *)
LEMMA Parts ==
    ASSUME NEW x \in Seq(Nat), NEW k \in 0 .. Len(x)
    PROVE  /\ SubSeq(x, 1, k) \in Seq(Nat) /\ Len(SubSeq(x, 1, k)) = k
           /\ \A i \in 1 .. k : SubSeq(x, 1, k)[i] = x[i]
           /\ SubSeq(x, k + 1, Len(x)) \in Seq(Nat)
           /\ Len(SubSeq(x, k + 1, Len(x))) = Len(x) - k
           /\ \A i \in 1 .. Len(x) - k : SubSeq(x, k + 1, Len(x))[i] = x[k + i]
<1>1. Len(x) \in Nat /\ k \in Nat /\ k <= Len(x) /\ \A i \in 1 .. Len(x) : x[i] \in Nat
  BY LenProperties, ElementOfSeq
<1>2. /\ \A i \in 1 .. k : x[i] \in Nat
      /\ \A i \in k + 1 .. Len(x) : x[i] \in Nat
  BY <1>1
<1>3. /\ SubSeq(x, 1, k) \in Seq(Nat)
      /\ Len(SubSeq(x, 1, k)) = IF 1 <= k THEN k - 1 + 1 ELSE 0
      /\ \A i \in 1 .. k - 1 + 1 : SubSeq(x, 1, k)[i] = x[1 + i - 1]
  BY <1>1, <1>2, SubSeqProperties
<1>4. /\ SubSeq(x, k + 1, Len(x)) \in Seq(Nat)
      /\ Len(SubSeq(x, k + 1, Len(x))) = IF k + 1 <= Len(x) THEN Len(x) - (k + 1) + 1 ELSE 0
      /\ \A i \in 1 .. Len(x) - (k + 1) + 1 :
            SubSeq(x, k + 1, Len(x))[i] = x[k + 1 + i - 1]
  <2> DEFINE m == k + 1
             n == Len(x)
  <2>1. m \in Int /\ n \in Int /\ \A i \in m .. n : x[i] \in Nat
    BY <1>1, <1>2
  <2> HIDE DEF m, n
  <2>2. /\ SubSeq(x, m, n) \in Seq(Nat)
        /\ Len(SubSeq(x, m, n)) = IF m <= n THEN n - m + 1 ELSE 0
        /\ \A i \in 1 .. n - m + 1 : SubSeq(x, m, n)[i] = x[m + i - 1]
    BY ONLY <2>1, SubSeqProperties
  <2> QED
    BY <2>2 DEF m, n
<1>5. ASSUME NEW i \in 1 .. k PROVE SubSeq(x, 1, k)[i] = x[i]
  <2>1. i \in 1 .. k - 1 + 1 /\ 1 + i - 1 = i
    BY <1>1
  <2> QED
    BY <1>3, <2>1
<1>6. ASSUME NEW i \in 1 .. Len(x) - k PROVE SubSeq(x, k + 1, Len(x))[i] = x[k + i]
  <2>1. i \in 1 .. Len(x) - (k + 1) + 1 /\ k + 1 + i - 1 = k + i
    BY <1>1
  <2> QED
    BY <1>4, <2>1
<1>7. /\ (IF 1 <= k THEN k - 1 + 1 ELSE 0) = k
      /\ (IF k + 1 <= Len(x) THEN Len(x) - (k + 1) + 1 ELSE 0) = Len(x) - k
  BY <1>1
<1> QED
  BY <1>3, <1>4, <1>5, <1>6, <1>7

LEMMA ConcatType == \A x, y \in Seq(Nat) : x \o y \in Seq(Nat) /\ Len(x \o y) = Len(x) + Len(y)
  BY ONLY ConcatProperties

LEMMA Joined ==
    ASSUME NEW x \in Seq(Nat), NEW y \in Seq(Nat), NEW z \in Seq(Nat)
    PROVE  (x \o y) \o z = x \o (y \o z)
<1> DEFINE a == x \o y
           b == y \o z
<1>1. /\ Len(x) \in Nat /\ Len(y) \in Nat /\ Len(z) \in Nat
      /\ a \in Seq(Nat) /\ Len(a) = Len(x) + Len(y)
      /\ b \in Seq(Nat) /\ Len(b) = Len(y) + Len(z)
  BY LenProperties, ConcatProperties
<1>2. /\ \A i \in 1 .. Len(x) + Len(y) : a[i] = IF i <= Len(x) THEN x[i] ELSE y[i - Len(x)]
      /\ \A i \in 1 .. Len(y) + Len(z) : b[i] = IF i <= Len(y) THEN y[i] ELSE z[i - Len(y)]
  BY ConcatProperties
<1> HIDE DEF a, b
<1> DEFINE u == a \o z
           v == x \o b
<1>3. /\ u \in Seq(Nat) /\ Len(u) = Len(a) + Len(z)
      /\ v \in Seq(Nat) /\ Len(v) = Len(x) + Len(b)
  BY <1>1, ConcatType
<1>4. /\ \A i \in 1 .. Len(a) + Len(z) : u[i] = IF i <= Len(a) THEN a[i] ELSE z[i - Len(a)]
      /\ \A i \in 1 .. Len(x) + Len(b) : v[i] = IF i <= Len(x) THEN x[i] ELSE b[i - Len(x)]
  <2>1. a \in Seq(Nat) /\ b \in Seq(Nat)
    BY <1>1
  <2>2. \A i \in 1 .. Len(a) + Len(z) : u[i] = IF i <= Len(a) THEN a[i] ELSE z[i - Len(a)]
    BY ONLY <2>1, z \in Seq(Nat), ConcatProperties DEF u
  <2>3. \A i \in 1 .. Len(x) + Len(b) : v[i] = IF i <= Len(x) THEN x[i] ELSE b[i - Len(x)]
    BY ONLY <2>1, x \in Seq(Nat), ConcatProperties DEF v
  <2> QED
    BY <2>2, <2>3
<1> HIDE DEF u, v
<1>5. ASSUME NEW i \in 1 .. Len(u) PROVE u[i] = v[i]
  <2>1. i \in 1 .. Len(a) + Len(z) /\ i \in 1 .. Len(x) + Len(b)
    BY <1>1, <1>3
  <2>2. CASE i <= Len(x)
    <3>1. i <= Len(a) /\ i \in 1 .. Len(x) + Len(y)
      BY <1>1, <2>1, <2>2
    <3> QED
      BY <1>2, <1>4, <2>1, <2>2, <3>1
  <2>3. CASE ~(i <= Len(x))
    <3> DEFINE j == i - Len(x)
    <3>1. j \in 1 .. Len(y) + Len(z) /\ j - Len(y) = i - Len(a)
          /\ (j <= Len(y)) = (i <= Len(a)) /\ v[i] = b[j]
      BY <1>1, <1>4, <2>1, <2>3
    <3>2. i <= Len(a) => i \in 1 .. Len(x) + Len(y) /\ a[i] = y[j]
      BY <1>1, <1>2, <2>1, <2>3
    <3> HIDE DEF j
    <3>3. b[j] = IF j <= Len(y) THEN y[j] ELSE z[j - Len(y)]
      BY <1>2, <3>1
    <3>4. u[i] = IF i <= Len(a) THEN a[i] ELSE z[i - Len(a)]
      BY <1>4, <2>1
    <3> QED
      BY <3>1, <3>2, <3>3, <3>4
  <2> QED
    BY <2>2, <2>3
<1>6. Len(u) = Len(v)
  BY <1>1, <1>3
<1>7. u = v
  BY <1>3, <1>5, <1>6, SeqEqual
<1> QED
  BY <1>7 DEF a, b, u, v

LEMMA Regrouped == \A x, y, z \in Seq(Nat) : (x \o y) \o z = x \o (y \o z)
  BY Joined

(* A section of a sequence, and the end of one.                            *)
LEMMA Section ==
    ASSUME NEW x \in Seq(Nat), NEW g \in Nat, NEW k \in Nat, g + k <= Len(x)
    PROVE  SubSeq(x, g + 1, g + k) \in Seq(Nat) /\ Len(SubSeq(x, g + 1, g + k)) = k
<1> DEFINE m == g + 1
           n == g + k
<1>1. Len(x) \in Nat /\ \A i \in 1 .. Len(x) : x[i] \in Nat
  BY LenProperties, ElementOfSeq
<1>2. m \in Int /\ n \in Int /\ \A i \in m .. n : x[i] \in Nat
  BY <1>1
<1>3. (IF m <= n THEN n - m + 1 ELSE 0) = k
  OBVIOUS
<1> HIDE DEF m, n
<1>4. SubSeq(x, m, n) \in Seq(Nat) /\ Len(SubSeq(x, m, n)) = IF m <= n THEN n - m + 1 ELSE 0
  BY <1>2, SubSeqProperties
<1> QED
  BY <1>3, <1>4 DEF m, n

LEMMA Ending ==
    ASSUME NEW x \in Seq(Nat), NEW m \in Nat, m > 0
    PROVE  /\ SubSeq(x, m, Len(x)) \in Seq(Nat) /\ Len(SubSeq(x, m, Len(x))) \in Nat
           /\ Len(SubSeq(x, m, Len(x))) >= Len(x) - m + 1
<1> DEFINE n == Len(x)
<1>1. n \in Nat /\ \A i \in 1 .. n : x[i] \in Nat
  BY LenProperties, ElementOfSeq
<1> HIDE DEF n
<1>2. m \in Int /\ n \in Int /\ \A i \in m .. n : x[i] \in Nat
  BY <1>1
<1>3. SubSeq(x, m, n) \in Seq(Nat) /\ Len(SubSeq(x, m, n)) = IF m <= n THEN n - m + 1 ELSE 0
  BY <1>2, SubSeqProperties
<1> DEFINE l == Len(SubSeq(x, m, n))
<1>4. l = IF m <= n THEN n - m + 1 ELSE 0
  BY <1>3
<1> HIDE DEF l
<1>5. l \in Nat /\ l >= n - m + 1
  BY <1>1, <1>4
<1> QED
  BY <1>3, <1>5 DEF l, n

(* A sequence longer than the part in front begins with it.                *)
LEMMA Split ==
    ASSUME NEW x \in Seq(Nat), NEW y \in Seq(Nat), NEW p \in Seq(Nat), NEW b \in Seq(Nat),
           x \o y = p \o b, Len(p) <= Len(x)
    PROVE  /\ SubSeq(x, 1, Len(p)) = p
           /\ SubSeq(x, Len(p) + 1, Len(x)) \o y = b
<1> DEFINE u == SubSeq(x, 1, Len(p))
           v == SubSeq(x, Len(p) + 1, Len(x))
<1>1. /\ Len(x) \in Nat /\ Len(y) \in Nat /\ Len(p) \in Nat /\ Len(b) \in Nat
      /\ Len(p) \in 0 .. Len(x)
  BY LenProperties
<1>2. /\ u \in Seq(Nat) /\ Len(u) = Len(p) /\ \A i \in 1 .. Len(p) : u[i] = x[i]
      /\ v \in Seq(Nat) /\ Len(v) = Len(x) - Len(p)
      /\ \A i \in 1 .. Len(x) - Len(p) : v[i] = x[Len(p) + i]
  BY <1>1, Parts
<1>3. /\ Len(x) + Len(y) = Len(p) + Len(b)
      /\ \A i \in 1 .. Len(x) + Len(y) :
            (IF i <= Len(x) THEN x[i] ELSE y[i - Len(x)])
              = IF i <= Len(p) THEN p[i] ELSE b[i - Len(p)]
  BY ConcatProperties
<1> HIDE DEF u, v
<1>4. /\ v \o y \in Seq(Nat) /\ Len(v \o y) = Len(v) + Len(y)
      /\ \A i \in 1 .. Len(v) + Len(y) :
            (v \o y)[i] = IF i <= Len(v) THEN v[i] ELSE y[i - Len(v)]
  <2>1. v \in Seq(Nat)
    BY <1>2
  <2> QED
    BY ONLY <2>1, y \in Seq(Nat), ConcatProperties
<1>5. ASSUME NEW i \in 1 .. Len(p) PROVE u[i] = p[i]
  <2>1. i \in 1 .. Len(x) + Len(y) /\ i <= Len(x) /\ i <= Len(p)
    BY <1>1
  <2>2. x[i] = p[i]
    BY <1>3, <2>1
  <2>3. u[i] = x[i]
    BY <1>2
  <2> QED
    BY <2>2, <2>3
<1>6. u = p
  BY <1>2, <1>5, SeqEqual
<1>7. Len(v \o y) = Len(b)
  BY <1>1, <1>2, <1>3, <1>4
<1>8. ASSUME NEW i \in 1 .. Len(b) PROVE (v \o y)[i] = b[i]
  <2>1. /\ Len(p) + i \in 1 .. Len(x) + Len(y) /\ ~(Len(p) + i <= Len(p))
        /\ Len(p) + i - Len(p) = i /\ i \in 1 .. Len(v) + Len(y)
    BY <1>1, <1>2, <1>3
  <2>2. (IF Len(p) + i <= Len(x) THEN x[Len(p) + i] ELSE y[Len(p) + i - Len(x)]) = b[i]
    BY <1>3, <2>1
  <2>3. CASE i <= Len(v)
    <3>1. i \in 1 .. Len(x) - Len(p) /\ Len(p) + i <= Len(x)
      BY <1>1, <1>2, <2>3
    <3> QED
      BY <1>2, <1>4, <2>1, <2>2, <2>3, <3>1
  <2>4. CASE ~(i <= Len(v))
    <3>1. i \in Int /\ Len(v) = Len(x) - Len(p)
      BY <1>1, <1>2
    <3>2. ~(Len(p) + i <= Len(x)) /\ Len(p) + i - Len(x) = i - Len(v)
      BY <1>1, <2>4, <3>1
    <3> QED
      BY <1>4, <2>1, <2>2, <2>4, <3>2
  <2> QED
    BY <2>3, <2>4
<1>9. v \o y = b
  BY <1>4, <1>7, <1>8, SeqEqual
<1> QED
  BY <1>6, <1>9 DEF u, v
-----------------------------------------------------------------------------
(***************************************************************************)
(* Streams.                                                                *)
(***************************************************************************)

LEMMA LeastType == \A m, n \in Nat : /\ Least(m, n) \in Nat
                                     /\ Least(m, n) <= m /\ Least(m, n) <= n
                                     /\ (m <= n => Least(m, n) = m)
                                     /\ (n <= m => Least(m, n) = n)
  BY DEF Least

LEMMA SetIs ==
    ASSUME NEW s \in Stream, NEW d \in Seq(Nat)
    PROVE  /\ Set(s, d) \in Stream /\ Sound(Set(s, d))
           /\ Set(s, d).buf = d /\ Set(s, d).fail = s.fail
           /\ Set(s, d).get = 0 /\ Set(s, d).put = 0
<1>1. Len(d) \in Nat
  BY LenProperties
<1> QED
  BY <1>1 DEF Set, Stream, Sound

LEMMA EmptyIs == EmptyStream \in Stream /\ Sound(EmptyStream)
<1>1. <<>> \in Seq(Nat) /\ Len(<<>>) = 0
  OBVIOUS
<1> QED
  BY <1>1 DEF EmptyStream, Stream, Sound

(* Writing keeps a stream sound, whether or not it has failed.             *)
LEMMA PushType ==
    ASSUME NEW s \in Stream, Sound(s), NEW d \in Seq(Nat)
    PROVE  /\ Push(s, d) \in Stream /\ Sound(Push(s, d))
           /\ Push(s, d).fail = s.fail
<1> DEFINE a == SubSeq(s.buf, 1, s.put)
           b == SubSeq(s.buf, s.put + Len(d) + 1, Len(s.buf))
<1>1. /\ s.buf \in Seq(Nat) /\ Len(s.buf) \in Nat /\ s.put \in 0 .. Len(s.buf)
      /\ s.get \in Nat /\ s.get <= Len(s.buf)
      /\ s.fail \in BOOLEAN /\ Len(d) \in Nat
  <2>1. s.buf \in Seq(Nat) /\ s.put \in Nat /\ s.get \in Nat /\ s.fail \in BOOLEAN
    BY DEF Stream
  <2> QED
    BY <2>1, LenProperties DEF Sound
<1>2. a \in Seq(Nat) /\ Len(a) = s.put
  BY <1>1, Parts
<1>3. /\ b \in Seq(Nat) /\ Len(b) \in Nat
      /\ Len(b) >= Len(s.buf) - (s.put + Len(d) + 1) + 1
  <2>1. s.put + Len(d) + 1 \in Nat /\ s.put + Len(d) + 1 > 0
    BY <1>1
  <2> QED
    BY <1>1, <2>1, Ending
<1> HIDE DEF a, b
<1>4. a \o d \in Seq(Nat) /\ Len(a \o d) = s.put + Len(d)
  BY <1>2, ConcatType
<1> DEFINE c == a \o d
<1>5. c \in Seq(Nat) /\ Len(c) = s.put + Len(d)
  BY <1>4
<1> HIDE DEF c
<1>6. c \o b \in Seq(Nat) /\ Len(c \o b) = s.put + Len(d) + Len(b)
  BY <1>3, <1>5, ConcatType
<1>7. CASE s.fail
  BY <1>7 DEF Push
<1>8. CASE ~s.fail
  <2> DEFINE n == Len(s.buf)
             l == Len(b)
             m == s.put + Len(d)
             e == c \o b
  <2>1. Push(s, d) = [s EXCEPT !.buf = e, !.put = m]
    BY <1>8 DEF Push, a, b, c
  <2>2. m \in Nat /\ e \in Seq(Nat)
    BY <1>1, <1>6
  <2>3. m <= Len(e) /\ s.get <= Len(e)
    <3>1. /\ n \in Nat /\ l \in Nat /\ m \in Nat /\ l >= n - (m + 1) + 1
          /\ s.get \in Nat /\ s.get <= n /\ Len(e) = m + l
      BY <1>1, <1>3, <1>6
    <3> HIDE DEF n, l, m, e
    <3> QED
      BY <3>1
  <2> HIDE DEF m, e
  <2>4. /\ Push(s, d) \in Stream /\ Push(s, d).fail = s.fail
        /\ Push(s, d).buf = e /\ Push(s, d).put = m
        /\ Push(s, d).get = s.get
    BY <2>1, <2>2 DEF Stream
  <2> QED
    BY <2>3, <2>4 DEF Sound
<1> QED
  BY <1>1, <1>7, <1>8

(* At its end, it appends.                                                 *)
LEMMA PushEnd ==
    ASSUME NEW s \in Stream, ~s.fail, s.put = Len(s.buf), NEW d \in Seq(Nat)
    PROVE  /\ Push(s, d).buf = s.buf \o d /\ Push(s, d).get = s.get /\ ~Push(s, d).fail
           /\ Push(s, d).put = Len(Push(s, d).buf)
<1>1. /\ s.buf \in Seq(Nat) /\ Len(s.buf) \in Nat /\ Len(d) \in Nat
      /\ s.put + Len(d) + 1 \in Int /\ s.put + Len(d) + 1 > Len(s.buf)
  <2>1. s.buf \in Seq(Nat)
    BY DEF Stream
  <2>2. Len(s.buf) \in Nat /\ Len(d) \in Nat
    BY <2>1, LenProperties
  <2> QED
    BY <2>1, <2>2
<1>2. SubSeq(s.buf, 1, s.put) = s.buf
  BY <1>1, SubSeqFull
<1>3. SubSeq(s.buf, s.put + Len(d) + 1, Len(s.buf)) = <<>>
  BY <1>1, SubSeqEmpty
<1>4. s.buf \o d \in Seq(Nat) /\ Len(s.buf \o d) = Len(s.buf) + Len(d)
  BY <1>1, ConcatProperties
<1>5. (s.buf \o d) \o <<>> = s.buf \o d
  BY <1>4, ConcatEmptySeq
<1>6. Push(s, d) = [s EXCEPT !.buf = s.buf \o d, !.put = s.put + Len(d)]
  BY <1>2, <1>3, <1>5 DEF Push
<1>7. /\ Push(s, d).buf = s.buf \o d /\ Push(s, d).put = s.put + Len(d)
      /\ Push(s, d).get = s.get /\ Push(s, d).fail = s.fail
  BY <1>6 DEF Stream
<1> QED
  BY <1>4, <1>7

LEMMA ZerosType == \A n \in Nat : Zeros(n) \in Seq(Nat) /\ Len(Zeros(n)) = n
  BY DEF Zeros

(* As much is read as was asked for, with zeros for what is not there.     *)
LEMMA PullType ==
    ASSUME NEW s \in Stream, Sound(s), NEW n \in Nat
    PROVE  /\ Pulled(s, n) \in Seq(Nat) /\ Len(Pulled(s, n)) = n
           /\ AfterPull(s, n) \in Stream /\ Sound(AfterPull(s, n))
<1> DEFINE k == IF s.fail THEN 0 ELSE Least(n, Len(s.buf) - s.get)
           a == SubSeq(s.buf, s.get + 1, s.get + k)
           z == Zeros(n - k)
<1>1. /\ s.buf \in Seq(Nat) /\ Len(s.buf) \in Nat /\ s.put \in Nat
      /\ s.get \in Nat /\ s.get <= Len(s.buf) /\ s.put <= Len(s.buf)
      /\ s.fail \in BOOLEAN
  <2>1. s.buf \in Seq(Nat) /\ s.put \in Nat /\ s.get \in Nat /\ s.fail \in BOOLEAN
    BY DEF Stream
  <2> QED
    BY <2>1, LenProperties DEF Sound
<1>2. k \in Nat /\ k <= n /\ s.get + k <= Len(s.buf)
  BY <1>1 DEF Least
<1> HIDE DEF k
<1>3. a \in Seq(Nat) /\ Len(a) = k
  <2> DEFINE g == s.get
             x == s.buf
  <2>1. x \in Seq(Nat) /\ g \in Nat /\ k \in Nat /\ g + k <= Len(x)
    BY <1>1, <1>2
  <2> HIDE DEF g, x
  <2>2. SubSeq(x, g + 1, g + k) \in Seq(Nat) /\ Len(SubSeq(x, g + 1, g + k)) = k
    BY ONLY <2>1, Section
  <2> QED
    BY <2>2 DEF g, x
<1>4. z \in Seq(Nat) /\ Len(z) = n - k
  <2>1. n - k \in Nat
    BY <1>2
  <2> QED
    BY <2>1, ZerosType
<1>5. Pulled(s, n) = a \o z
  BY DEF Pulled, k
<1>6. AfterPull(s, n) = [s EXCEPT !.get = s.get + k, !.fail = s.fail \/ k < n]
  BY DEF AfterPull, k
<1> HIDE DEF a, z
<1>7. a \o z \in Seq(Nat) /\ Len(a \o z) = n
  <2>1. a \o z \in Seq(Nat) /\ Len(a \o z) = Len(a) + Len(z)
    BY <1>3, <1>4, ConcatProperties
  <2> QED
    BY <1>2, <1>3, <1>4, <2>1
<1> DEFINE g == s.get + k
           f == s.fail \/ k < n
<1>8. g \in Nat /\ f \in BOOLEAN /\ AfterPull(s, n) = [s EXCEPT !.get = g, !.fail = f]
  BY <1>1, <1>2, <1>6
<1>9. g <= Len(s.buf)
  BY <1>2
<1> HIDE DEF g, f
<1>10. /\ AfterPull(s, n) \in Stream /\ AfterPull(s, n).get = g
       /\ AfterPull(s, n).buf = s.buf /\ AfterPull(s, n).put = s.put
  BY <1>8 DEF Stream
<1> QED
  BY <1>1, <1>5, <1>7, <1>9, <1>10 DEF Sound

(* What is there is read as it stands.                                     *)
LEMMA PullWhole ==
    ASSUME NEW s \in Stream, NEW n \in Nat, ~s.fail, s.get + n <= Len(s.buf)
    PROVE  /\ Pulled(s, n) = SubSeq(s.buf, s.get + 1, s.get + n)
           /\ AfterPull(s, n).buf = s.buf /\ AfterPull(s, n).get = s.get + n
           /\ ~AfterPull(s, n).fail
<1>1. /\ s.buf \in Seq(Nat) /\ Len(s.buf) \in Nat /\ s.get \in Nat
  <2>1. s.buf \in Seq(Nat) /\ s.get \in Nat
    BY DEF Stream
  <2> QED
    BY <2>1, LenProperties
<1>2. Least(n, Len(s.buf) - s.get) = n
  <2> DEFINE l == Len(s.buf)
  <2>1. l \in Nat /\ s.get + n <= l
    BY <1>1
  <2> HIDE DEF l
  <2>2. Least(n, l - s.get) = n
    BY <1>1, <2>1 DEF Least
  <2> QED
    BY <2>2 DEF l
<1> DEFINE g == s.get + n
           f == s.fail \/ n < n
<1>3. /\ Pulled(s, n) = SubSeq(s.buf, s.get + 1, s.get + n) \o Zeros(n - n)
      /\ AfterPull(s, n) = [s EXCEPT !.get = g, !.fail = f]
  BY <1>2 DEF Pulled, AfterPull
<1>4. Zeros(n - n) = <<>>
  <2>1. n - n = 0
    OBVIOUS
  <2> QED
    BY <2>1 DEF Zeros
<1>5. SubSeq(s.buf, s.get + 1, s.get + n) \in Seq(Nat)
  BY <1>1, Section
<1>6. SubSeq(s.buf, s.get + 1, s.get + n) \o <<>> = SubSeq(s.buf, s.get + 1, s.get + n)
  BY <1>5, ConcatEmptySeq
<1>7. ~f /\ g = s.get + n
  BY <1>1
<1> HIDE DEF g, f
<1>8. /\ AfterPull(s, n).buf = s.buf /\ AfterPull(s, n).get = g
      /\ AfterPull(s, n).fail = f
  BY <1>3 DEF Stream
<1> QED
  BY <1>3, <1>4, <1>6, <1>7, <1>8
-----------------------------------------------------------------------------
(***************************************************************************)
(* Frames.                                                                 *)
(***************************************************************************)

(* A 16-bit number survives its two bytes.                                 *)
LEMMA BytesValue ==
    ASSUME NEW v \in Nat
    PROVE  /\ Bytes(v) = <<v % Base, (v \div Base) % Base>>
           /\ v % Base \in Nat /\ (v \div Base) % Base \in Nat
           /\ v < Base * Base => (v % Base) + Base * ((v \div Base) % Base) = v
<1> DEFINE q == v \div Base
           r == v % Base
<1>1. /\ q \in Int /\ r \in 0 .. Base - 1 /\ v = Base * q + r
  OBVIOUS
<1>2. Base \in Nat /\ Base > 1
  OBVIOUS
<1> HIDE DEF q, r
<1>3. q >= 0
  <2>1. SUFFICES ASSUME q <= 0 - 1 PROVE FALSE
    BY <1>1
  <2>2. Base * q <= Base * (0 - 1)
    BY <1>1, <1>2, <2>1
  <2> QED
    BY <1>1, <1>2, <2>2
<1>4. q % Base \in 0 .. Base - 1
  BY <1>1, <1>2
<1>5. ASSUME v < Base * Base PROVE q % Base = q
  <2>1. q < Base
    <3>1. SUFFICES ASSUME q >= Base PROVE FALSE
      BY <1>1, <1>2
    <3>2. Base * q >= Base * Base
      BY <1>1, <1>2, <3>1
    <3> QED
      BY <1>1, <1>2, <1>5, <3>2
  <2> QED
    BY <1>1, <1>2, <1>3, <2>1
<1>6. ASSUME v < Base * Base PROVE r + Base * (q % Base) = v
  BY <1>1, <1>2, <1>5, <1>6
<1> QED
  BY <1>1, <1>2, <1>4, <1>6 DEF Bytes, q, r

LEMMA BodyIs ==
    ASSUME NEW t \in Seq(Nat)
    PROVE  /\ Body(t) \in Seq(Nat) /\ Len(t) \in Nat /\ Len(Body(t)) = 1 + Len(t)
           /\ Body(t)[1] = Len(t)
           /\ SubSeq(Body(t), 2, 1 + Len(t)) = t
<1> DEFINE a == <<Len(t)>>
<1>1. Len(t) \in Nat /\ a \in Seq(Nat) /\ Len(a) = 1 /\ a[1] = Len(t)
  BY LenProperties
<1> HIDE DEF a
<1> DEFINE b == a \o t
<1>2. /\ b \in Seq(Nat) /\ Len(b) = Len(a) + Len(t)
      /\ \A i \in 1 .. Len(a) + Len(t) : b[i] = IF i <= Len(a) THEN a[i] ELSE t[i - Len(a)]
  BY <1>1, ConcatProperties
<1> HIDE DEF b
<1>3. Len(b) = 1 + Len(t) /\ b[1] = Len(t)
  <2>1. 1 \in 1 .. Len(a) + Len(t) /\ 1 <= Len(a)
    BY <1>1
  <2> QED
    BY <1>1, <1>2, <2>1
<1> DEFINE u == SubSeq(b, 2, 1 + Len(t))
<1>4. /\ u \in Seq(Nat) /\ Len(u) = Len(t)
      /\ \A i \in 1 .. Len(t) : u[i] = b[1 + i]
  <2>1. 1 \in 0 .. Len(b) /\ 1 + 1 = 2 /\ Len(b) - 1 = Len(t)
    BY <1>1, <1>3
  <2> QED
    BY <1>2, <1>3, <2>1, Parts
<1> HIDE DEF u
<1>5. ASSUME NEW i \in 1 .. Len(t) PROVE u[i] = t[i]
  <2> DEFINE j == 1 + i
  <2>1. j \in 1 .. Len(a) + Len(t) /\ ~(j <= Len(a)) /\ j - Len(a) = i
    BY <1>1
  <2>2. u[i] = b[j]
    BY <1>4
  <2> HIDE DEF j
  <2>3. b[j] = t[j - Len(a)]
    BY <1>2, <2>1
  <2> QED
    BY <2>1, <2>2, <2>3
<1>6. u = t
  BY <1>4, <1>5, SeqEqual
<1> QED
  BY <1>1, <1>2, <1>3, <1>6 DEF a, b, u, Body

(* The header in front of a body.                                          *)
HeaderOf(t) == Bytes(LengthLen + Len(t) + HeaderLen) \o <<0, 0>>

LEMMA HeaderIs ==
    ASSUME NEW t \in Seq(Nat)
    PROVE  /\ HeaderOf(t) \in Seq(Nat) /\ Len(HeaderOf(t)) = HeaderLen
           /\ HeaderOf(t)[3] = 0 /\ HeaderOf(t)[4] = 0
           /\ Fits(t) => Remaining(HeaderOf(t)) = LengthLen + Len(t)
<1> DEFINE v == LengthLen + Len(t) + HeaderLen
           x == v % Base
           y == (v \div Base) % Base
<1>1. Len(t) \in Nat /\ v \in Nat
  BY LenProperties DEF LengthLen, HeaderLen
<1>2. /\ Bytes(v) = <<x, y>> /\ x \in Nat /\ y \in Nat
      /\ v < Base * Base => x + Base * y = v
  BY <1>1, BytesValue
<1> HIDE DEF x, y
<1>3. <<x, y>> \o <<0, 0>> = <<x, y, 0, 0>>
  <2> DEFINE a == <<x, y>>
             b == <<0, 0>>
             w == <<x, y, 0, 0>>
  <2>1. /\ a \in Seq(Nat) /\ Len(a) = 2 /\ a[1] = x /\ a[2] = y
        /\ b \in Seq(Nat) /\ Len(b) = 2 /\ b[1] = 0 /\ b[2] = 0
        /\ w \in Seq(Nat) /\ Len(w) = 4 /\ w[1] = x /\ w[2] = y /\ w[3] = 0 /\ w[4] = 0
    BY <1>2
  <2> HIDE DEF a, b, w
  <2> DEFINE c == a \o b
  <2>2. /\ c \in Seq(Nat) /\ Len(c) = Len(a) + Len(b)
        /\ \A i \in 1 .. Len(a) + Len(b) : c[i] = IF i <= Len(a) THEN a[i] ELSE b[i - Len(a)]
    BY <2>1, ConcatProperties
  <2> HIDE DEF c
  <2>3. c[1] = a[1] /\ c[2] = a[2] /\ c[3] = b[1] /\ c[4] = b[2] /\ Len(c) = 4
    BY <2>1, <2>2
  <2>4. \A i \in 1 .. 4 : c[i] = w[i]
    <3>1. \A i \in 1 .. 4 : i = 1 \/ i = 2 \/ i = 3 \/ i = 4
      OBVIOUS
    <3> QED
      BY <2>1, <2>3, <3>1
  <2>5. c = w
    <3>1. c \in Seq(Nat) /\ w \in Seq(Nat) /\ Len(c) = Len(w) /\ Len(c) = 4
      BY <2>1, <2>2, <2>3
    <3> QED
      BY ONLY <2>4, <3>1, SeqEqual
  <2> QED
    BY <2>5 DEF a, b, c, w
<1>4. HeaderOf(t) = <<x, y, 0, 0>>
  BY <1>2, <1>3 DEF HeaderOf
<1>5. Value(HeaderOf(t)) = x + Base * y
  BY <1>4 DEF Value
<1>6. ASSUME Fits(t) PROVE Remaining(HeaderOf(t)) = LengthLen + Len(t)
  <2>1. v < Base * Base /\ v - HeaderLen = LengthLen + Len(t)
    <3> DEFINE bb == Base * Base
    <3>1. MAX_PKT_LEN + HeaderLen < bb /\ MAX_PKT_LEN \in Nat /\ bb \in Int
      OBVIOUS
    <3> HIDE DEF bb
    <3>2. v < bb /\ v - HeaderLen = LengthLen + Len(t)
      BY <1>1, <1>6, <3>1 DEF Fits, LengthLen, HeaderLen
    <3> QED
      BY <3>2 DEF bb
  <2>2. Value(HeaderOf(t)) - HeaderLen = LengthLen + Len(t)
    BY <1>2, <1>5, <2>1
  <2>3. LengthLen + Len(t) \in 0 .. SizeMod - 1
    <3> DEFINE bb == Base * Base
    <3>1. MAX_PKT_LEN + HeaderLen < bb /\ MAX_PKT_LEN \in Nat /\ bb \in Int /\ bb <= SizeMod
      OBVIOUS
    <3> HIDE DEF bb
    <3> QED
      BY <1>1, <1>6, <3>1 DEF Fits, LengthLen, HeaderLen
  <2> DEFINE m == LengthLen + Len(t)
  <2>4. Remaining(HeaderOf(t)) = m % SizeMod
    BY <2>2 DEF Remaining
  <2>5. m \in 0 .. SizeMod - 1
    BY <2>3
  <2> HIDE DEF m
  <2>6. m % SizeMod = m
    BY <2>5
  <2> QED
    BY <2>4, <2>6 DEF m
<1> QED
  BY <1>2, <1>4, <1>6 DEF HeaderLen

(* A text on the wire: the header, then the body.                          *)
LEMMA EncodedIs ==
    ASSUME NEW t \in Seq(Nat)
    PROVE  /\ Encoded(t) = HeaderOf(t) \o Body(t)
           /\ Encoded(t) \in Seq(Nat) /\ Encoded(t) # <<>>
<1> DEFINE l == Push(EmptyStream, <<Len(t)>>)
           pkt == Push(l, t)
<1>1. Len(t) \in Nat /\ <<Len(t)>> \in Seq(Nat)
  BY LenProperties
<1>2. /\ EmptyStream \in Stream /\ Sound(EmptyStream) /\ ~EmptyStream.fail
      /\ EmptyStream.buf = <<>> /\ EmptyStream.get = 0
      /\ EmptyStream.put = Len(EmptyStream.buf)
  BY EmptyIs DEF EmptyStream
<1>3. /\ l \in Stream /\ Sound(l) /\ l.buf = <<>> \o <<Len(t)>> /\ l.get = 0
      /\ ~l.fail /\ l.put = Len(l.buf)
  BY <1>1, <1>2, PushEnd, PushType
<1>4. <<>> \o <<Len(t)>> = <<Len(t)>>
  BY <1>1, ConcatEmptySeq
<1> HIDE DEF l
<1>5. pkt \in Stream /\ Sound(pkt) /\ pkt.buf = Body(t) /\ pkt.get = 0 /\ ~pkt.fail
  <2>1. pkt \in Stream /\ Sound(pkt)
    BY <1>3, PushType
  <2>2. pkt.buf = l.buf \o t /\ pkt.get = l.get /\ ~pkt.fail
    BY <1>3, PushEnd
  <2> QED
    BY <1>3, <1>4, <2>1, <2>2 DEF Body
<1> HIDE DEF pkt
<1>6. /\ Body(t) \in Seq(Nat) /\ Len(Body(t)) = 1 + Len(t) /\ Len(Body(t)) \in Nat
  BY <1>1, BodyIs
<1>7. Count(pkt) = Len(Body(t))
  BY <1>5 DEF Count
<1>8. Pulled(pkt, Count(pkt)) = Body(t)
  <2>1. pkt.get + Count(pkt) <= Len(pkt.buf) /\ Count(pkt) \in Nat
    BY <1>5, <1>6, <1>7
  <2>2. Pulled(pkt, Count(pkt)) = SubSeq(pkt.buf, pkt.get + 1, pkt.get + Count(pkt))
    BY <1>5, <2>1, PullWhole
  <2>3. pkt.get + 1 = 1 /\ pkt.get + Count(pkt) = Len(Body(t))
    BY <1>5, <1>6, <1>7
  <2>4. SubSeq(Body(t), 1, Len(Body(t))) = Body(t)
    BY <1>6, SubSeqFull
  <2> QED
    BY <1>5, <2>2, <2>3, <2>4
<1>9. Count(pkt) + HeaderLen = LengthLen + Len(t) + HeaderLen
  BY <1>1, <1>6, <1>7 DEF LengthLen
<1>10. Encoded(t) = HeaderOf(t) \o Body(t)
  <2>1. Encoded(t) = Bytes(Count(pkt) + HeaderLen) \o <<0, 0>> \o Pulled(pkt, Count(pkt))
    BY DEF Encoded, pkt, l
  <2> QED
    BY <1>8, <1>9, <2>1 DEF HeaderOf
<1>11. /\ Encoded(t) \in Seq(Nat)
       /\ Len(Encoded(t)) = Len(HeaderOf(t)) + Len(Body(t))
  <2>1. HeaderOf(t) \in Seq(Nat)
    BY HeaderIs
  <2>2. /\ HeaderOf(t) \o Body(t) \in Seq(Nat)
        /\ Len(HeaderOf(t) \o Body(t)) = Len(HeaderOf(t)) + Len(Body(t))
    BY ONLY <1>6, <2>1, ConcatProperties
  <2> QED
    BY <1>10, <2>2
<1>12. Len(Encoded(t)) # 0
  BY <1>1, <1>6, <1>11, HeaderIs DEF HeaderLen
<1> QED
  BY <1>10, <1>11, <1>12

LEMMA FramesNone == Frames(<<>>, 1, <<>>)
<1> DEFINE rest == [j \in 1 .. Len(<<>>) + 1 |-> <<>>]
<1>1. Len(<<>>) = 0 /\ <<>> \in Seq(Nat)
  OBVIOUS
<1>2. /\ rest \in [1 .. Len(<<>>) + 1 -> Seq(Nat)]
      /\ rest[1] = <<>> /\ rest[Len(<<>>) + 1] = <<>>
  BY <1>1
<1>3. \A j \in 1 .. Len(<<>>) : FALSE
  BY <1>1
<1> HIDE DEF rest
<1> QED
  BY <1>2, <1>3 DEF Frames

LEMMA FramesEnd == \A s, b : Frames(s, Len(s) + 1, b) => b = <<>>
  BY DEF Frames

(* The frame at the front.                                                 *)
LEMMA FramesHead ==
    ASSUME NEW s \in Seq(Seq(Nat)), NEW i \in 1 .. Len(s), NEW b, Frames(s, i, b)
    PROVE  \E c \in Seq(Nat) : b = Encoded(s[i]) \o c /\ Frames(s, i + 1, c)
<1>1. Len(s) \in Nat
  BY LenProperties
<1>2. PICK rest \in [1 .. Len(s) + 1 -> Seq(Nat)] :
            /\ rest[i] = b /\ rest[Len(s) + 1] = <<>>
            /\ \A j \in i .. Len(s) : rest[j] = Encoded(s[j]) \o rest[j + 1]
  BY DEF Frames
<1>3. /\ i \in i .. Len(s) /\ i + 1 \in 1 .. Len(s) + 1
      /\ \A j \in i + 1 .. Len(s) : j \in i .. Len(s)
  BY <1>1
<1>4. rest[i + 1] \in Seq(Nat) /\ b = Encoded(s[i]) \o rest[i + 1]
  BY <1>2, <1>3
<1>5. Frames(s, i + 1, rest[i + 1])
  BY <1>2, <1>3 DEF Frames
<1> QED
  BY <1>4, <1>5

(* One more text is one more frame at the end.                             *)
LEMMA FramesAppend ==
    ASSUME NEW s \in Seq(Seq(Nat)), NEW t \in Seq(Nat), NEW i \in 1 .. Len(s) + 1,
           NEW b, Frames(s, i, b)
    PROVE  Frames(Append(s, t), i, b \o Encoded(t))
<1> DEFINE u == Append(s, t)
           e == Encoded(t)
<1>1. /\ Len(s) \in Nat /\ Len(u) = Len(s) + 1 /\ u[Len(s) + 1] = t
      /\ \A j \in 1 .. Len(s) : u[j] = s[j] /\ s[j] \in Seq(Nat)
  BY LenProperties, AppendProperties, ElementOfSeq
<1>2. e \in Seq(Nat)
  BY EncodedIs
<1>3. PICK rest \in [1 .. Len(s) + 1 -> Seq(Nat)] :
            /\ rest[i] = b /\ rest[Len(s) + 1] = <<>>
            /\ \A j \in i .. Len(s) : rest[j] = Encoded(s[j]) \o rest[j + 1]
  BY DEF Frames
<1> HIDE DEF u, e
<1> DEFINE more == [j \in 1 .. Len(u) + 1 |-> IF j <= Len(s) + 1 THEN rest[j] \o e ELSE <<>>]
<1>4. \A j \in 1 .. Len(s) + 1 : rest[j] \in Seq(Nat) /\ rest[j] \o e \in Seq(Nat)
  BY <1>2, <1>3, ConcatProperties
<1>5. more \in [1 .. Len(u) + 1 -> Seq(Nat)]
  <2>1. ASSUME NEW j \in 1 .. Len(u) + 1
        PROVE  (IF j <= Len(s) + 1 THEN rest[j] \o e ELSE <<>>) \in Seq(Nat)
    <3>1. CASE j <= Len(s) + 1
      <4>1. j \in 1 .. Len(s) + 1
        BY <1>1, <3>1
      <4> QED
        BY <1>4, <3>1, <4>1
    <3>2. CASE ~(j <= Len(s) + 1)
      BY <3>2
    <3> QED
      BY <3>1, <3>2
  <2> QED
    BY <2>1
<1>6. /\ \A j \in 1 .. Len(s) + 1 : more[j] = rest[j] \o e
      /\ more[Len(u) + 1] = <<>>
  <2>1. /\ \A j \in 1 .. Len(s) + 1 : j \in 1 .. Len(u) + 1 /\ j <= Len(s) + 1
        /\ Len(u) + 1 \in 1 .. Len(u) + 1 /\ ~(Len(u) + 1 <= Len(s) + 1)
    BY <1>1
  <2> QED
    BY <2>1
<1> HIDE DEF more
<1>7. more[i] = b \o e
  BY <1>3, <1>6
<1>8. ASSUME NEW j \in i .. Len(u) PROVE more[j] = Encoded(u[j]) \o more[j + 1]
  <2>1. CASE j = Len(s) + 1
    <3>1. j \in 1 .. Len(s) + 1 /\ j + 1 = Len(u) + 1
      BY <1>1, <2>1
    <3>2. more[j] = <<>> \o e /\ more[j + 1] = <<>> /\ Encoded(u[j]) = e
      BY <1>1, <1>3, <1>6, <2>1, <3>1 DEF e
    <3>3. <<>> \o e = e /\ e \o <<>> = e
      BY <1>2, ConcatEmptySeq
    <3> QED
      BY <3>2, <3>3
  <2>2. CASE j # Len(s) + 1
    <3>1. /\ j \in i .. Len(s) /\ j \in 1 .. Len(s)
          /\ j \in 1 .. Len(s) + 1 /\ j + 1 \in 1 .. Len(s) + 1
      BY <1>1, <2>2
    <3>2. /\ more[j] = (Encoded(s[j]) \o rest[j + 1]) \o e
          /\ more[j + 1] = rest[j + 1] \o e /\ u[j] = s[j]
      BY <1>1, <1>3, <1>6, <3>1
    <3> DEFINE x == Encoded(s[j])
               y == rest[j + 1]
    <3>3. y \in Seq(Nat) /\ x \in Seq(Nat)
      BY <1>1, <1>4, <3>1, EncodedIs
    <3> HIDE DEF x, y
    <3>4. (x \o y) \o e = x \o (y \o e)
      BY ONLY <1>2, <3>3, Regrouped, Zenon
    <3> QED
      BY <3>2, <3>4 DEF x, y
  <2> QED
    BY <2>1, <2>2
<1> QED
  BY <1>5, <1>6, <1>7, <1>8 DEF Frames, u, e
-----------------------------------------------------------------------------
(***************************************************************************)
(* The texts that fit.                                                     *)
(***************************************************************************)

LEMMA TextType == \A t \in Texts : t \in Seq(Nat)
<1>1. 0 .. Base - 1 \subseteq Nat
  OBVIOUS
<1> QED
  BY <1>1, SeqMonotonic

LEMMA SentType == \A s \in Seq(Texts) : s \in Seq(Seq(Nat)) /\ Len(s) \in Nat
<1>1. Texts \subseteq Seq(Nat)
  BY TextType
<1> QED
  BY <1>1, SeqMonotonic, LenProperties

LEMMA GoodUnique ==
    ASSUME NEW s, Len(s) \in Nat, NEW m, NEW n, GoodOf(s, m), GoodOf(s, n)
    PROVE  m = n
<1>1. m \in Nat /\ n \in Nat /\ m <= Len(s) /\ n <= Len(s)
  BY DEF GoodOf
<1>2. ASSUME m < n PROVE FALSE
  BY <1>1, <1>2 DEF GoodOf
<1>3. ASSUME n < m PROVE FALSE
  BY <1>1, <1>3 DEF GoodOf
<1> QED
  BY <1>1, <1>2, <1>3

(* Good is what its definition chooses.                                    *)
GoodIn(s) == CHOOSE n \in 0 .. Len(s) :
                 /\ \A i \in 1 .. n : Fits(s[i])
                 /\ n < Len(s) => ~Fits(s[n + 1])

LEMMA GoodIs ==
    ASSUME NEW s, Len(s) \in Nat, NEW n, GoodOf(s, n)
    PROVE  GoodIn(s) = n
<1>1. \E m \in 0 .. Len(s) : /\ \A i \in 1 .. m : Fits(s[i])
                             /\ m < Len(s) => ~Fits(s[m + 1])
  BY DEF GoodOf
<1>2. GoodOf(s, GoodIn(s))
  BY <1>1 DEF GoodOf, GoodIn
<1> QED
  BY <1>2, GoodUnique

(* One more text counts if all texts so far fit and it fits too.           *)
LEMMA GoodAppend ==
    ASSUME NEW s \in Seq(Seq(Nat)), NEW t \in Seq(Nat), NEW n, GoodOf(s, n)
    PROVE  GoodOf(Append(s, t), IF n = Len(s) /\ Fits(t) THEN n + 1 ELSE n)
<1> DEFINE u == Append(s, t)
<1>1. /\ Len(s) \in Nat /\ Len(u) = Len(s) + 1 /\ u[Len(s) + 1] = t
      /\ \A j \in 1 .. Len(s) : u[j] = s[j]
      /\ n \in Nat /\ n <= Len(s)
  BY LenProperties, AppendProperties DEF GoodOf
<1> HIDE DEF u
<1>2. \A i \in 1 .. n : Fits(u[i])
  <2>1. \A i \in 1 .. n : i \in 1 .. Len(s)
    BY <1>1
  <2> QED
    BY <1>1, <2>1 DEF GoodOf
<1>3. CASE n = Len(s) /\ Fits(t)
  <2>1. \A i \in 1 .. n + 1 : i \in 1 .. n \/ i = Len(s) + 1
    BY <1>1, <1>3
  <2>2. \A i \in 1 .. n + 1 : Fits(u[i])
    BY <1>1, <1>2, <1>3, <2>1
  <2>3. n + 1 \in 0 .. Len(u) /\ ~(n + 1 < Len(u))
    BY <1>1, <1>3
  <2>4. GoodOf(u, n + 1)
    BY <2>2, <2>3 DEF GoodOf
  <2> QED
    BY <1>3, <2>4 DEF u
<1>4. CASE ~(n = Len(s) /\ Fits(t))
  <2>1. n \in 0 .. Len(u)
    BY <1>1
  <2>2. ~Fits(u[n + 1])
    <3>1. CASE n = Len(s)
      BY <1>1, <1>4, <3>1
    <3>2. CASE n # Len(s)
      <4>1. n < Len(s) /\ n + 1 \in 1 .. Len(s)
        BY <1>1, <3>2
      <4> QED
        BY <1>1, <4>1 DEF GoodOf
    <3> QED
      BY <3>1, <3>2
  <2>3. GoodOf(u, n)
    BY <1>2, <2>1, <2>2 DEF GoodOf
  <2> QED
    BY <1>4, <2>3 DEF u
<1> QED
  BY <1>3, <1>4
-----------------------------------------------------------------------------
(***************************************************************************)
(* Types.                                                                  *)
(***************************************************************************)

(* What a completed read took from the wire.                               *)
LEMMA TakenIs ==
    ASSUME wire \in Seq(Nat), NEW n \in Nat, Arrived(n)
    PROVE  /\ Least(n, MAX_PKT_LEN) \in 0 .. Len(wire)
           /\ Taken(n) = SubSeq(wire, 1, Least(n, MAX_PKT_LEN))
           /\ Taken(n) \in Seq(Nat) /\ Len(Taken(n)) = Least(n, MAX_PKT_LEN)
           /\ wire' = SubSeq(wire, Least(n, MAX_PKT_LEN) + 1, Len(wire))
           /\ wire' \in Seq(Nat)
<1> DEFINE m == Least(n, MAX_PKT_LEN)
<1>1. m \in Nat /\ Len(wire) \in Nat
  BY LeastType, LenProperties
<1>2. Len(wire) >= m
  BY DEF Arrived
<1> HIDE DEF m
<1>3. Least(m, Len(wire)) = m /\ m \in 0 .. Len(wire)
  BY <1>1, <1>2, LeastType
<1>4. Taken(n) = SubSeq(wire, 1, m)
  BY <1>3 DEF Taken, m
<1>5. Taken(n) \in Seq(Nat) /\ Len(Taken(n)) = m
  BY <1>3, <1>4, Parts
<1>6. wire' = SubSeq(wire, m + 1, Len(wire))
  BY <1>5 DEF Arrived
<1>7. wire' \in Seq(Nat)
  BY <1>3, <1>6, Parts
<1> QED
  BY <1>3, <1>4, <1>5, <1>6, <1>7 DEF m

(* A read of up to recv_buffer's capacity takes n bytes.                   *)
LEMMA TakenWhole ==
    ASSUME wire \in Seq(Nat), NEW n \in Nat, Arrived(n), n <= MAX_PKT_LEN
    PROVE  /\ Taken(n) = SubSeq(wire, 1, n) /\ Len(Taken(n)) = n /\ n <= Len(wire)
           /\ wire' = SubSeq(wire, n + 1, Len(wire))
<1> DEFINE m == Least(n, MAX_PKT_LEN)
<1>1. m = n
  BY LeastType
<1>2. /\ m \in 0 .. Len(wire)
      /\ Taken(n) = SubSeq(wire, 1, m) /\ Len(Taken(n)) = m
      /\ wire' = SubSeq(wire, m + 1, Len(wire))
  BY TakenIs
<1> HIDE DEF m
<1>3. Len(wire) \in Nat
  BY LenProperties
<1> QED
  BY <1>1, <1>2, <1>3

LEMMA RemainingType ==
    ASSUME NEW h \in Seq(Nat), Len(h) = HeaderLen
    PROVE  Remaining(h) \in 0 .. SizeMod - 1
<1>1. 1 \in 1 .. Len(h) /\ 2 \in 1 .. Len(h)
  BY DEF HeaderLen
<1>2. h[1] \in Nat /\ h[2] \in Nat
  BY <1>1, ElementOfSeq
<1>3. Base * h[2] \in Int
  BY <1>2
<1> DEFINE v == Value(h) - HeaderLen
<1>4. v \in Int
  BY <1>2, <1>3 DEF Value, HeaderLen
<1> HIDE DEF v
<1>5. v % SizeMod \in 0 .. SizeMod - 1
  BY <1>4
<1> QED
  BY <1>5 DEF Remaining, v

LEMMA InitTypes == Init => TypeOK /\ Streams
<1> SUFFICES ASSUME Init PROVE TypeOK /\ Streams
  OBVIOUS
<1>1. <<1, 1>> \in Seq(Nat) /\ 0 \in 0 .. SizeMod - 1
  OBVIOUS
<1>2. out_data \in Stream /\ Sound(out_data)
  BY <1>1, EmptyIs, PushType DEF Init
<1>3. /\ in_data \in Stream /\ Sound(in_data)
      /\ recv_packet \in Stream /\ Sound(recv_packet)
  BY EmptyIs DEF Init
<1>4. sent \in Seq(Texts) /\ wire \in Seq(Nat) /\ received \in Seq(Seq(Nat))
  BY DEF Init
<1> QED
  BY <1>1, <1>2, <1>3, <1>4 DEF Init, TypeOK, Streams

LEMMA SendTypes ==
    ASSUME TypeOK, Streams, NEW t \in Texts, Send(t)
    PROVE  TypeOK' /\ Streams'
<1>1. Encoded(t) \in Seq(Nat)
  BY TextType, EncodedIs
<1>2. out_data' \in Stream /\ Sound(out_data')
  BY <1>1, PushType DEF Send, TypeOK, Streams
<1>3. sent' \in Seq(Texts)
  BY AppendProperties DEF Send, TypeOK
<1> QED
  BY <1>2, <1>3 DEF Send, TypeOK, Streams

LEMMA TickTypes ==
    ASSUME TypeOK, Streams, Tick
    PROVE  TypeOK' /\ Streams'
<1>1. <<>> \in Seq(Nat) /\ out_data \in Stream /\ out_data.buf \in Seq(Nat)
  BY DEF TypeOK, Stream
<1>2. out_data' \in Stream /\ Sound(out_data')
  BY <1>1, SetIs DEF Tick, Clear
<1>3. wire' \in Seq(Nat)
  <2>1. wire \in Seq(Nat)
    BY DEF TypeOK
  <2>2. wire \o out_data.buf \in Seq(Nat)
    BY ONLY <1>1, <2>1, ConcatProperties
  <2> QED
    BY <2>2 DEF Tick, Contents
<1> QED
  BY <1>2, <1>3 DEF Tick, TypeOK, Streams

LEMMA ReadHandshakeTypes ==
    ASSUME TypeOK, Streams, ReadHandshake
    PROVE  TypeOK' /\ Streams'
<1>1. HandshakeLen \in Nat /\ wire \in Seq(Nat) /\ in_data \in Stream
  BY DEF HandshakeLen, TypeOK
<1>2. Taken(HandshakeLen) \in Seq(Nat) /\ wire' \in Seq(Nat)
  BY <1>1, TakenIs DEF ReadHandshake
<1>3. in_data' \in Stream /\ Sound(in_data')
  BY <1>1, <1>2, SetIs, PullType DEF ReadHandshake
<1>4. rd' \in {"header", "msg"}
  BY DEF ReadHandshake, NextRead
<1> QED
  BY <1>2, <1>3, <1>4 DEF ReadHandshake, TypeOK, Streams

LEMMA ReadHeaderTypes ==
    ASSUME TypeOK, Streams, ReadHeader
    PROVE  TypeOK' /\ Streams'
<1>1. /\ HeaderLen \in Nat /\ wire \in Seq(Nat)
      /\ in_data \in Stream /\ recv_packet \in Stream
      /\ <<>> \in Seq(Nat)
  BY DEF HeaderLen, TypeOK
<1>2. Taken(HeaderLen) \in Seq(Nat) /\ wire' \in Seq(Nat)
  BY <1>1, TakenIs DEF ReadHeader
<1> DEFINE in == Set(in_data, Taken(HeaderLen))
           old == Clear(recv_packet)
           pkt == Push(old, Pulled(in, Count(in)))
           h == Pulled(pkt, HeaderLen)
<1>3. /\ in_data' = AfterPull(in, Count(in)) /\ recv_packet' = AfterPull(pkt, HeaderLen)
      /\ nextLen' = Remaining(h) /\ rd' \in {"header", "msg", "closed"}
  BY DEF ReadHeader, NextRead
<1>4. in \in Stream /\ Sound(in) /\ old \in Stream /\ Sound(old)
  BY <1>1, <1>2, SetIs DEF Clear
<1> HIDE DEF in, old
<1>5. Count(in) \in Nat
  <2>1. in.buf \in Seq(Nat) /\ SizeMod - 1 \in Nat
    BY <1>4 DEF Stream
  <2> QED
    BY <2>1, LenProperties DEF Count
<1>6. /\ Pulled(in, Count(in)) \in Seq(Nat)
      /\ AfterPull(in, Count(in)) \in Stream /\ Sound(AfterPull(in, Count(in)))
  BY <1>4, <1>5, PullType
<1>7. pkt \in Stream /\ Sound(pkt)
  BY <1>4, <1>6, PushType
<1> HIDE DEF pkt
<1>8. /\ h \in Seq(Nat) /\ Len(h) = HeaderLen
      /\ AfterPull(pkt, HeaderLen) \in Stream /\ Sound(AfterPull(pkt, HeaderLen))
  BY <1>1, <1>7, PullType
<1>9. nextLen' \in 0 .. SizeMod - 1
  BY <1>3, <1>8, RemainingType
<1> QED
  BY <1>2, <1>3, <1>6, <1>8, <1>9 DEF ReadHeader, TypeOK, Streams

LEMMA ReadMsgTypes ==
    ASSUME TypeOK, Streams, ReadMsg
    PROVE  TypeOK' /\ Streams' /\ (received' = received
             \/ \E text \in Seq(Nat) : received' = Append(received, text))
<1>1. /\ nextLen \in Nat /\ LengthLen \in Nat /\ wire \in Seq(Nat)
      /\ recv_packet \in Stream /\ Sound(recv_packet) /\ received \in Seq(Seq(Nat))
  BY DEF LengthLen, TypeOK, Streams
<1>2. Taken(nextLen) \in Seq(Nat) /\ wire' \in Seq(Nat)
  BY <1>1, TakenIs DEF ReadMsg
<1> DEFINE pkt == Set(recv_packet, Taken(nextLen))
           n == Pulled(pkt, LengthLen)[1]
           text == AfterPull(pkt, LengthLen)
<1>3. pkt \in Stream /\ Sound(pkt)
  BY <1>1, <1>2, SetIs
<1>4. \/ /\ received' = Append(received, Pulled(text, n))
         /\ recv_packet' = AfterPull(text, n)
         /\ nextLen' = 0 /\ rd' = "header"
      \/ rd' = "stalled" /\ UNCHANGED <<received, recv_packet, nextLen>>
  BY DEF ReadMsg, NextRead
<1> HIDE DEF pkt
<1>5. /\ Pulled(pkt, LengthLen) \in Seq(Nat) /\ Len(Pulled(pkt, LengthLen)) = LengthLen
      /\ text \in Stream /\ Sound(text)
  BY <1>1, <1>3, PullType
<1>6. n \in Nat
  <2>1. 1 \in 1 .. Len(Pulled(pkt, LengthLen))
    <3>1. Len(Pulled(pkt, LengthLen)) = 1
      BY <1>5 DEF LengthLen
    <3> QED
      BY <3>1
  <2> QED
    BY <1>5, <2>1, ElementOfSeq
<1> HIDE DEF n, text
<1>7. Pulled(text, n) \in Seq(Nat) /\ AfterPull(text, n) \in Stream /\ Sound(AfterPull(text, n))
  BY <1>5, <1>6, PullType
<1>8. Append(received, Pulled(text, n)) \in Seq(Seq(Nat))
  BY <1>1, <1>7, AppendProperties
<1>9. 0 \in 0 .. SizeMod - 1
  OBVIOUS
<1>10. UNCHANGED <<sent, out_data, in_data>>
  BY DEF ReadMsg
<1> QED
  BY <1>1, <1>2, <1>4, <1>7, <1>8, <1>9, <1>10 DEF TypeOK, Streams
-----------------------------------------------------------------------------
(***************************************************************************)
(* The bytes ahead.                                                        *)
(***************************************************************************)

(* What is read is what was in front, and what was behind it is next.      *)
LEMMA FrontTaken ==
    ASSUME TypeOK, NEW p \in Seq(Nat), NEW b \in Seq(Nat),
           wire \o out_data.buf = p \o b, Len(p) <= MAX_PKT_LEN, Arrived(Len(p))
    PROVE  Taken(Len(p)) = p /\ wire' \o out_data.buf = b /\ Len(p) <= Len(wire)
<1>1. wire \in Seq(Nat) /\ out_data.buf \in Seq(Nat) /\ Len(p) \in Nat
  BY LenProperties DEF TypeOK, Stream
<1>2. /\ Taken(Len(p)) = SubSeq(wire, 1, Len(p)) /\ Len(p) <= Len(wire)
      /\ wire' = SubSeq(wire, Len(p) + 1, Len(wire))
  BY <1>1, TakenWhole
<1>3. /\ SubSeq(wire, 1, Len(p)) = p
      /\ SubSeq(wire, Len(p) + 1, Len(wire)) \o out_data.buf = b
  BY <1>1, <1>2, Split
<1> QED
  BY <1>2, <1>3

(* A text that is sent is one more frame ahead.                            *)
LEMMA AheadSend ==
    ASSUME TypeOK, NEW t \in Texts, Send(t), ~out_data.fail,
           out_data.put = Len(out_data.buf),
           NEW p \in Seq(Nat), NEW i \in 1 .. Len(sent) + 1, Ahead(p, i)
    PROVE  Holds(wire' \o out_data'.buf, sent', p, i)
<1> DEFINE e == Encoded(t)
           o == out_data.buf
<1>1. /\ t \in Seq(Nat) /\ sent \in Seq(Seq(Nat)) /\ out_data \in Stream
      /\ wire \in Seq(Nat) /\ o \in Seq(Nat)
  BY TextType, SentType DEF TypeOK, Stream
<1>2. e \in Seq(Nat)
  BY <1>1, EncodedIs
<1>3. out_data'.buf = o \o e /\ wire' = wire /\ sent' = Append(sent, t)
  BY <1>1, <1>2, PushEnd DEF Send
<1>4. PICK b \in Seq(Nat) : wire \o o = p \o b /\ Frames(sent, i, b)
  BY DEF Ahead, Holds
<1>5. Frames(Append(sent, t), i, b \o e)
  BY <1>1, <1>4, FramesAppend
<1> HIDE DEF e, o
<1>6. (wire \o o) \o e = wire \o (o \o e) /\ (p \o b) \o e = p \o (b \o e)
  <2>1. \A x, y \in Seq(Nat) : (x \o y) \o e = x \o (y \o e)
    BY <1>2, Regrouped
  <2> QED
    BY <1>1, <2>1
<1>7. b \o e \in Seq(Nat)
  BY <1>2, ConcatProperties
<1>8. wire' \o out_data'.buf = p \o (b \o e)
  BY <1>3, <1>4, <1>6
<1> QED
  BY <1>3, <1>5, <1>7, <1>8 DEF Holds

LEMMA AheadTick ==
    ASSUME TypeOK, Tick, NEW p, NEW i, Ahead(p, i)
    PROVE  Holds(wire' \o out_data'.buf, sent', p, i)
<1>1. wire \in Seq(Nat) /\ out_data.buf \in Seq(Nat)
  BY DEF TypeOK, Stream
<1> DEFINE w == wire \o out_data.buf
<1>2. w \in Seq(Nat)
  BY <1>1, ConcatProperties
<1>3. wire' = w /\ out_data'.buf = <<>> /\ sent' = sent
  BY DEF Tick, Contents, Clear, Set
<1>4. PICK b \in Seq(Nat) : w = p \o b /\ Frames(sent, i, b)
  BY DEF Ahead, Holds
<1> HIDE DEF w
<1>5. w \o <<>> = w
  BY <1>2, ConcatEmptySeq
<1> QED
  BY <1>3, <1>4, <1>5 DEF Holds

LEMMA GoodBound == IInv => /\ Len(sent) \in Nat /\ Good \in Nat /\ Good <= Len(sent)
                           /\ Len(received) \in Nat
                           /\ Good = GoodIn(sent)
<1> SUFFICES ASSUME IInv
             PROVE  /\ Len(sent) \in Nat /\ Good \in Nat /\ Good <= Len(sent)
                    /\ Len(received) \in Nat
                    /\ Good = GoodIn(sent)
  OBVIOUS
<1>1. Len(sent) \in Nat /\ Len(received) \in Nat
  BY LenProperties DEF IInv, TypeOK
<1>2. Good \in Nat /\ Good <= Len(sent)
  BY <1>1 DEF IInv, GoodOf
<1>3. Good = GoodIn(sent)
  BY DEF Good, GoodIn
<1> QED
  BY <1>1, <1>2, <1>3
-----------------------------------------------------------------------------
(***************************************************************************)
(* The steps.                                                              *)
(***************************************************************************)

LEMMA InitInv == Init => IInv
<1> SUFFICES ASSUME Init PROVE IInv
  OBVIOUS
<1>1. TypeOK /\ Streams
  BY InitTypes
<1>2. sent = <<>> /\ received = <<>> /\ wire = <<>> /\ Len(<<>>) = 0
  BY DEF Init
<1>3. GoodOf(sent, 0)
  BY <1>2 DEF GoodOf
<1>4. Good = 0
  <2>1. GoodIn(sent) = 0
    BY <1>2, <1>3, GoodIs
  <2> QED
    BY <2>1 DEF Good, GoodIn
<1> DEFINE h == <<1, 1>>
<1>5. h \in Seq(Nat) /\ <<>> \in Seq(Nat)
  OBVIOUS
<1>6. out_data.buf = <<>> \o h /\ ~out_data.fail /\ out_data.put = Len(out_data.buf)
  <2>1. /\ EmptyStream \in Stream /\ ~EmptyStream.fail /\ EmptyStream.buf = <<>>
        /\ EmptyStream.put = Len(EmptyStream.buf)
    BY EmptyIs DEF EmptyStream
  <2>2. out_data = Push(EmptyStream, h)
    BY DEF Init
  <2> QED
    BY <1>5, <2>1, <2>2, PushEnd
<1>7. ~in_data.fail /\ ~recv_packet.fail
  BY DEF Init, EmptyStream
<1>8. Ahead(<<1, 1>>, 1)
  <2> HIDE DEF h
  <2>1. <<>> \o h = h /\ h \o <<>> = h
    BY <1>5, ConcatEmptySeq
  <2>2. wire \o out_data.buf = h \o <<>>
    BY <1>2, <1>6, <2>1
  <2> QED
    BY <1>2, <1>5, <2>2, FramesNone DEF Ahead, Holds, h
<1>9. Reading
  BY <1>2, <1>8 DEF Reading, Init
<1>10. InStep
  BY <1>2, <1>4, <1>6, <1>7, <1>9 DEF InStep, Same
<1> QED
  BY <1>1, <1>3, <1>4, <1>10 DEF IInv

LEMMA SendInv ==
    ASSUME IInv, NEW t \in Texts, Send(t)
    PROVE  IInv'
<1> DEFINE k == Len(received)
<1>1. TypeOK' /\ Streams' /\ TypeOK /\ Streams /\ Len(sent) \in Nat /\ Good \in Nat
      /\ Good <= Len(sent) /\ k \in Nat
  BY SendTypes, GoodBound DEF IInv
<1>2. /\ t \in Seq(Nat) /\ sent \in Seq(Seq(Nat)) /\ sent' = Append(sent, t)
      /\ UNCHANGED <<rd, nextLen, in_data, recv_packet, received>>
  BY <1>1, TextType, SentType DEF Send, TypeOK
<1>3. Len(sent') = Len(sent) + 1 /\ \A i \in 1 .. Len(sent) : sent'[i] = sent[i]
  BY <1>2, AppendProperties
<1>4. GoodOf(sent', IF Good = Len(sent) /\ Fits(t) THEN Good + 1 ELSE Good)
  BY <1>2, GoodAppend DEF IInv
<1>5. Good' = IF Good = Len(sent) /\ Fits(t) THEN Good + 1 ELSE Good
  <2>1. GoodIn(sent') = IF Good = Len(sent) /\ Fits(t) THEN Good + 1 ELSE Good
    BY <1>1, <1>3, <1>4, GoodIs
  <2>2. Good' = GoodIn(sent')
    BY DEF Good, GoodIn
  <2> QED
    BY <2>1, <2>2
<1>6. GoodOf(sent, Good)' /\ Good <= Good'
  BY <1>1, <1>4, <1>5
<1>7. ASSUME InStep PROVE InStep'
  <2>1. k <= Good /\ Same(k) /\ ~out_data.fail /\ out_data.put = Len(out_data.buf)
    BY <1>7 DEF InStep
  <2>2. Same(k)'
    <3>1. \A i \in 1 .. k : i \in 1 .. Len(sent)
      BY <1>1, <2>1
    <3> QED
      BY <1>2, <1>3, <2>1, <3>1 DEF Same
  <2>3. ~out_data'.fail /\ out_data'.put = Len(out_data'.buf)
    <3>1. out_data \in Stream /\ Encoded(t) \in Seq(Nat)
      BY <1>1, <1>2, EncodedIs DEF TypeOK
    <3> QED
      BY <2>1, <3>1, PushEnd DEF Send
  <2>4. Reading'
    <3>1. CASE rd = "handshake" /\ k = 0 /\ nextLen = 0 /\ Ahead(<<1, 1>>, 1)
      <4>1. <<1, 1>> \in Seq(Nat) /\ 1 \in 1 .. Len(sent) + 1
        BY <1>1
      <4>2. Holds(wire' \o out_data'.buf, sent', <<1, 1>>, 1)
        BY <1>1, <2>1, <3>1, <4>1, AheadSend
      <4> QED
        BY <1>2, <3>1, <4>2 DEF Reading, Ahead
    <3>2. CASE rd = "header" /\ Ahead(<<>>, k + 1)
      <4>1. <<>> \in Seq(Nat) /\ k + 1 \in 1 .. Len(sent) + 1
        BY <1>1, <2>1
      <4>2. Holds(wire' \o out_data'.buf, sent', <<>>, k + 1)
        BY <1>1, <2>1, <3>2, <4>1, AheadSend
      <4> QED
        BY <1>2, <3>2, <4>2 DEF Reading, Ahead
    <3>3. CASE /\ rd = "msg" /\ k < Good /\ nextLen = Len(Body(sent[k + 1]))
               /\ Ahead(Body(sent[k + 1]), k + 2)
      <4> DEFINE p == Body(sent[k + 1])
      <4>1. k + 1 \in 1 .. Len(sent) /\ k + 2 \in 1 .. Len(sent) + 1
        BY <1>1, <3>3
      <4>2. sent'[k + 1] = sent[k + 1] /\ p \in Seq(Nat)
        BY <1>2, <1>3, <4>1, ElementOfSeq, BodyIs
      <4>3. Holds(wire' \o out_data'.buf, sent', p, k + 2)
        BY <1>1, <2>1, <3>3, <4>1, <4>2, AheadSend
      <4>4. k < Good' /\ p = Body(sent'[k + 1])
        BY <1>1, <1>5, <3>3, <4>2
      <4> QED
        BY <1>2, <3>3, <4>3, <4>4 DEF Reading, Ahead
    <3> QED
      BY <1>7, <3>1, <3>2, <3>3 DEF InStep, Reading
  <2>5. k' = k /\ k <= Good'
    BY <1>1, <1>2, <1>5, <2>1
  <2> QED
    BY <1>2, <1>7, <2>2, <2>3, <2>4, <2>5 DEF InStep
<1>8. ASSUME Lost PROVE Lost'
  <2>1. Good' = Good /\ Good < Len(sent')
    BY <1>1, <1>3, <1>5, <1>8 DEF Lost
  <2>2. \A i \in 1 .. Good : i \in 1 .. Len(sent)
    BY <1>1
  <2> QED
    BY <1>2, <1>3, <1>8, <2>1, <2>2 DEF Lost, Same
<1> QED
  BY <1>1, <1>6, <1>7, <1>8 DEF IInv

(* Steps that neither send nor receive a text.                             *)
LEMMA LostStays ==
    ASSUME Lost, UNCHANGED <<sent, received>>
    PROVE  Lost'
  BY DEF Lost, Same, Good

LEMMA GoodStays ==
    ASSUME sent' = sent
    PROVE  Good' = Good /\ (GoodOf(sent, Good) => GoodOf(sent, Good)')
<1>1. Good' = Good
  BY DEF Good
<1> QED
  BY <1>1

LEMMA TickInv ==
    ASSUME IInv, Tick
    PROVE  IInv'
<1> DEFINE k == Len(received)
<1>1. TypeOK' /\ Streams' /\ TypeOK
  BY TickTypes DEF IInv
<1>2. UNCHANGED <<sent, rd, nextLen, in_data, recv_packet, received>>
  BY DEF Tick
<1>3. Good' = Good /\ GoodOf(sent, Good)'
  BY <1>2, GoodStays DEF IInv
<1>4. ASSUME InStep PROVE InStep'
  <2>1. ~out_data'.fail /\ out_data'.put = Len(out_data'.buf)
    <3>1. Len(<<>>) = 0 /\ ~out_data.fail
      BY <1>4 DEF InStep
    <3> QED
      BY <3>1 DEF Tick, Clear, Set
  <2>2. Same(k)'
    BY <1>2, <1>4 DEF InStep, Same
  <2>3. Reading'
    <3>1. \A p, i : Ahead(p, i) => Holds(wire' \o out_data'.buf, sent', p, i)
      BY <1>1, AheadTick
    <3>2. Reading
      BY <1>4 DEF InStep
    <3>3. CASE rd = "handshake" /\ k = 0 /\ nextLen = 0 /\ Ahead(<<1, 1>>, 1)
      BY <1>2, <3>1, <3>3 DEF Reading, Ahead
    <3>4. CASE rd = "header" /\ Ahead(<<>>, k + 1)
      BY <1>2, <3>1, <3>4 DEF Reading, Ahead
    <3>5. CASE /\ rd = "msg" /\ k < Good /\ nextLen = Len(Body(sent[k + 1]))
               /\ Ahead(Body(sent[k + 1]), k + 2)
      BY <1>2, <1>3, <3>1, <3>5 DEF Reading, Ahead
    <3> QED
      BY <3>2, <3>3, <3>4, <3>5 DEF Reading
  <2> QED
    BY <1>2, <1>3, <1>4, <2>1, <2>2, <2>3 DEF InStep
<1>5. ASSUME Lost PROVE Lost'
  BY <1>2, <1>5, LostStays
<1> QED
  BY <1>1, <1>3, <1>4, <1>5 DEF IInv

LEMMA ReadHandshakeInv ==
    ASSUME IInv, ReadHandshake
    PROVE  IInv'
<1>1. TypeOK' /\ Streams' /\ TypeOK
  BY ReadHandshakeTypes DEF IInv
<1>2. UNCHANGED <<sent, out_data, nextLen, recv_packet, received>>
  BY DEF ReadHandshake
<1>3. Good' = Good /\ GoodOf(sent, Good)'
  BY <1>2, GoodStays DEF IInv
<1>4. ASSUME InStep PROVE InStep'
  <2> DEFINE h == <<1, 1>>
  <2>1. /\ rd = "handshake" /\ Len(received) = 0 /\ nextLen = 0 /\ Ahead(h, 1)
        /\ ~in_data.fail
    BY <1>4 DEF InStep, Reading, ReadHandshake
  <2>2. h \in Seq(Nat) /\ Len(h) = HandshakeLen /\ Len(h) <= MAX_PKT_LEN
    BY DEF HandshakeLen, HeaderLen
  <2>3. PICK b \in Seq(Nat) : wire \o out_data.buf = h \o b /\ Frames(sent, 1, b)
    BY <2>1 DEF Ahead, Holds
  <2> HIDE DEF h
  <2>4. Taken(HandshakeLen) = h /\ wire' \o out_data.buf = b
    <3>1. Arrived(Len(h))
      BY <2>2 DEF ReadHandshake
    <3> QED
      BY <1>1, <2>2, <2>3, <3>1, FrontTaken
  <2>5. ~in_data'.fail
    <3> DEFINE in == Set(in_data, h)
    <3>1. in \in Stream /\ in.buf = h /\ in.get = 0 /\ ~in.fail
      <4>1. in_data \in Stream
        BY <1>1 DEF TypeOK
      <4>2. in \in Stream /\ in.buf = h /\ in.get = 0 /\ in.fail = in_data.fail
        BY <2>2, <4>1, SetIs
      <4> QED
        BY <2>1, <4>2
    <3>2. in_data' = AfterPull(in, HandshakeLen)
      BY <2>4 DEF ReadHandshake
    <3> HIDE DEF in
    <3>3. HandshakeLen \in Nat /\ in.get + HandshakeLen <= Len(in.buf)
      <4>1. HandshakeLen \in Nat /\ Len(in.buf) = HandshakeLen /\ in.get = 0
        BY <2>2, <3>1 DEF HandshakeLen
      <4> QED
        BY ONLY <4>1
    <3> QED
      BY <3>1, <3>2, <3>3, PullWhole
  <2>6. rd' = "header"
    BY <2>1 DEF ReadHandshake, NextRead
  <2>7. Holds(wire' \o out_data'.buf, sent', <<>>, 1)
    <3>1. <<>> \o b = b
      BY ConcatEmptySeq
    <3> QED
      BY <1>2, <2>3, <2>4, <3>1 DEF Holds
  <2>8. Reading'
    BY <1>2, <2>1, <2>6, <2>7 DEF Reading, Ahead
  <2> QED
    BY <1>2, <1>3, <1>4, <2>5, <2>8 DEF InStep, Same
<1>5. ASSUME Lost PROVE Lost'
  BY <1>2, <1>5, LostStays
<1> QED
  BY <1>1, <1>3, <1>4, <1>5 DEF IInv

(* A header that is there to be read is the next text's.                   *)
LEMMA HeaderAhead ==
    ASSUME IInv, InStep, ReadHeader
    PROVE  LET k == Len(received)
           IN  /\ k < Len(sent) /\ sent[k + 1] \in Seq(Nat)
               /\ \E b \in Seq(Nat) :
                     /\ wire \o out_data.buf
                          = HeaderOf(sent[k + 1]) \o (Body(sent[k + 1]) \o b)
                     /\ Frames(sent, k + 2, b)
<1> DEFINE k == Len(received)
           bytes == wire \o out_data.buf
<1>1. /\ TypeOK /\ Len(sent) \in Nat /\ k \in Nat /\ k <= Len(sent)
      /\ sent \in Seq(Seq(Nat)) /\ wire \in Seq(Nat) /\ out_data.buf \in Seq(Nat)
      /\ bytes \in Seq(Nat) /\ Len(bytes) = Len(wire) + Len(out_data.buf)
      /\ Len(wire) \in Nat /\ Len(out_data.buf) \in Nat
  <2>1. TypeOK /\ Len(sent) \in Nat /\ k \in Nat /\ Good \in Nat /\ Good <= Len(sent)
    BY GoodBound DEF IInv
  <2>2. k <= Len(sent)
    BY <2>1 DEF InStep
  <2>3. /\ sent \in Seq(Seq(Nat)) /\ wire \in Seq(Nat) /\ out_data.buf \in Seq(Nat)
    BY <2>1, SentType DEF TypeOK, Stream
  <2>4. bytes \in Seq(Nat) /\ Len(bytes) = Len(wire) + Len(out_data.buf)
    BY ONLY <2>3, ConcatProperties
  <2> QED
    BY <2>1, <2>2, <2>3, <2>4, LenProperties
<1>2. Ahead(<<>>, k + 1)
  BY DEF InStep, Reading, ReadHeader
<1> HIDE DEF bytes
<1>3. bytes # <<>>
  <2>1. HeaderLen \in Nat /\ HeaderLen > 0 /\ HeaderLen <= MAX_PKT_LEN /\ Arrived(HeaderLen)
    BY DEF HeaderLen, ReadHeader
  <2>2. HeaderLen <= Len(wire)
    BY <1>1, <2>1, TakenWhole
  <2>3. Len(bytes) > 0
    BY <1>1, <2>1, <2>2
  <2> QED
    BY <2>3
<1>4. Frames(sent, k + 1, bytes)
  <2>1. PICK b \in Seq(Nat) : bytes = <<>> \o b /\ Frames(sent, k + 1, b)
    BY <1>2 DEF Ahead, Holds, bytes
  <2>2. <<>> \o b = b
    BY ConcatEmptySeq
  <2> QED
    BY <2>1, <2>2
<1>5. k < Len(sent)
  <2>1. k # Len(sent)
    BY <1>3, <1>4, FramesEnd
  <2> QED
    BY <1>1, <2>1
<1> DEFINE t == sent[k + 1]
<1>6. k + 1 \in 1 .. Len(sent) /\ t \in Seq(Nat)
  <2>1. k + 1 \in 1 .. Len(sent)
    BY <1>1, <1>5
  <2> QED
    BY <1>1, <2>1, ElementOfSeq
<1>7. PICK b \in Seq(Nat) : bytes = Encoded(t) \o b /\ Frames(sent, k + 1 + 1, b)
  BY <1>1, <1>4, <1>6, FramesHead
<1>8. k + 1 + 1 = k + 2
  BY <1>1
<1> HIDE DEF t
<1>9. HeaderOf(t) \in Seq(Nat) /\ Body(t) \in Seq(Nat) /\ Encoded(t) = HeaderOf(t) \o Body(t)
  BY <1>6, HeaderIs, BodyIs, EncodedIs
<1>10. (HeaderOf(t) \o Body(t)) \o b = HeaderOf(t) \o (Body(t) \o b)
  <2> DEFINE x == HeaderOf(t)
             y == Body(t)
  <2>1. x \in Seq(Nat) /\ y \in Seq(Nat)
    BY <1>9
  <2> HIDE DEF x, y
  <2>2. (x \o y) \o b = x \o (y \o b)
    BY <2>1, Regrouped
  <2> QED
    BY <2>2 DEF x, y
<1> QED
  BY <1>5, <1>6, <1>7, <1>8, <1>9, <1>10 DEF bytes, t

LEMMA ReadHeaderInv ==
    ASSUME IInv, ReadHeader
    PROVE  IInv'
<1> DEFINE k == Len(received)
<1>1. /\ TypeOK' /\ Streams' /\ TypeOK /\ Streams
      /\ k \in Nat /\ Len(sent) \in Nat /\ Good \in Nat
  BY ReadHeaderTypes, GoodBound DEF IInv
<1>2. UNCHANGED <<sent, out_data, received>>
  BY DEF ReadHeader
<1>3. Good' = Good /\ GoodOf(sent, Good)'
  BY <1>2, GoodStays DEF IInv
<1>4. ASSUME Lost PROVE Lost'
  BY <1>2, <1>4, LostStays
<1>5. ASSUME InStep PROVE InStep' \/ Lost'
  <2> DEFINE t == sent[k + 1]
             h == HeaderOf(t)
             rest == Body(t)
  <2>1. k <= Good /\ Same(k) /\ ~out_data.fail /\ ~in_data.fail /\ ~recv_packet.fail
        /\ out_data.put = Len(out_data.buf)
    BY <1>5 DEF InStep
  <2>2. k < Len(sent) /\ t \in Seq(Nat)
    BY <1>5, HeaderAhead
  <2>3. PICK b \in Seq(Nat) : /\ wire \o out_data.buf = h \o (rest \o b)
                              /\ Frames(sent, k + 2, b)
    BY <1>5, HeaderAhead
  <2>4. CASE k = Good
    BY <1>2, <1>3, <2>1, <2>2, <2>4 DEF Lost, Same
  <2>5. CASE k # Good
    <3>1. k < Good /\ Fits(t)
      <4>1. k + 1 \in 1 .. Good
        BY <1>1, <2>1, <2>5
      <4> QED
        BY <1>1, <4>1 DEF IInv, GoodOf
    <3>2. /\ h \in Seq(Nat) /\ Len(h) = HeaderLen /\ h[3] = 0 /\ h[4] = 0
          /\ Remaining(h) = LengthLen + Len(t)
          /\ rest \in Seq(Nat) /\ Len(rest) = 1 + Len(t) /\ Len(t) \in Nat
      BY <2>2, <3>1, HeaderIs, BodyIs
    <3> HIDE DEF h, rest
    <3>3. rest \o b \in Seq(Nat)
      BY <3>2, ConcatProperties
    <3>4. HeaderLen \in Nat /\ HeaderLen > 0 /\ HeaderLen <= MAX_PKT_LEN /\ Arrived(HeaderLen)
      BY DEF HeaderLen, ReadHeader
    <3>5. Taken(HeaderLen) = h /\ wire' \o out_data.buf = rest \o b
      BY <1>1, <2>3, <3>2, <3>3, <3>4, FrontTaken
    <3> DEFINE in == Set(in_data, h)
               old == Clear(recv_packet)
               pkt == Push(old, Pulled(in, Count(in)))
               read == Pulled(pkt, HeaderLen)
    <3>6. /\ in_data' = AfterPull(in, Count(in)) /\ recv_packet' = AfterPull(pkt, HeaderLen)
          /\ nextLen' = Remaining(read)
          /\ rd' = IF read[3] = 0 /\ read[4] < 2 THEN NextRead(Remaining(read)) ELSE "closed"
      BY <3>5 DEF ReadHeader
    <3>7. /\ in \in Stream /\ Sound(in) /\ in.buf = h /\ in.get = 0 /\ ~in.fail
      <4>1. in_data \in Stream
        BY <1>1 DEF TypeOK
      <4>2. /\ in \in Stream /\ Sound(in) /\ in.buf = h /\ in.get = 0
            /\ in.fail = in_data.fail
        BY <3>2, <4>1, SetIs
      <4> QED
        BY <2>1, <4>2
    <3>8. /\ old \in Stream /\ Sound(old) /\ old.buf = <<>> /\ old.get = 0 /\ ~old.fail
          /\ old.put = Len(old.buf)
      <4>1. recv_packet \in Stream /\ <<>> \in Seq(Nat) /\ Len(<<>>) = 0
        BY <1>1 DEF TypeOK
      <4>2. /\ old \in Stream /\ Sound(old) /\ old.buf = <<>> /\ old.get = 0 /\ old.put = 0
            /\ old.fail = recv_packet.fail
        BY <4>1, SetIs DEF Clear
      <4> QED
        BY <2>1, <4>1, <4>2
    <3> HIDE DEF in, old
    <3>9. Count(in) = HeaderLen
      BY <3>2, <3>7 DEF Count
    <3>10. Pulled(in, HeaderLen) = h /\ ~AfterPull(in, HeaderLen).fail
      <4>1. in.get + HeaderLen <= Len(in.buf)
        BY <3>2, <3>4, <3>7
      <4>2. /\ Pulled(in, HeaderLen) = SubSeq(in.buf, in.get + 1, in.get + HeaderLen)
            /\ ~AfterPull(in, HeaderLen).fail
        BY <3>4, <3>7, <4>1, PullWhole
      <4>3. in.get + 1 = 1 /\ in.get + HeaderLen = Len(h)
        BY <3>2, <3>4, <3>7
      <4>4. SubSeq(h, 1, Len(h)) = h
        BY <3>2, SubSeqFull
      <4> QED
        BY <3>7, <4>2, <4>3, <4>4
    <3>11. /\ pkt \in Stream /\ pkt.buf = h /\ pkt.get = 0 /\ ~pkt.fail
      <4>1. pkt = Push(old, h)
        BY <3>9, <3>10
      <4>2. Push(old, h) \in Stream
        BY <3>2, <3>8, PushType
      <4>3. Push(old, h).buf = <<>> \o h /\ Push(old, h).get = 0 /\ ~Push(old, h).fail
        BY <3>2, <3>8, PushEnd
      <4>4. <<>> \o h = h
        BY <3>2, ConcatEmptySeq
      <4> QED
        BY <4>1, <4>2, <4>3, <4>4
    <3> HIDE DEF pkt
    <3>12. read = h /\ ~AfterPull(pkt, HeaderLen).fail
      <4>1. pkt.get + HeaderLen <= Len(pkt.buf)
        BY <3>2, <3>4, <3>11
      <4>2. /\ read = SubSeq(pkt.buf, pkt.get + 1, pkt.get + HeaderLen)
            /\ ~AfterPull(pkt, HeaderLen).fail
        BY <3>4, <3>11, <4>1, PullWhole
      <4>3. pkt.get + 1 = 1 /\ pkt.get + HeaderLen = Len(h)
        BY <3>2, <3>4, <3>11
      <4>4. SubSeq(h, 1, Len(h)) = h
        BY <3>2, SubSeqFull
      <4> QED
        BY <3>11, <4>2, <4>3, <4>4
    <3> HIDE DEF read
    <3>13. nextLen' = Len(rest) /\ rd' = "msg"
      <4>1. Remaining(read) = Len(rest) /\ Len(rest) # 0
        BY <3>2, <3>12 DEF LengthLen
      <4>2. read[3] = 0 /\ read[4] < 2
        BY <3>2, <3>12
      <4> QED
        BY <3>6, <4>1, <4>2 DEF NextRead
    <3>14. ~in_data'.fail /\ ~recv_packet'.fail
      BY <3>6, <3>9, <3>10, <3>12
    <3>15. Holds(wire' \o out_data'.buf, sent', rest, k + 2)
      BY <1>2, <2>3, <3>5 DEF Holds
    <3>16. Reading'
      BY <1>2, <1>3, <3>1, <3>13, <3>15 DEF Reading, Ahead, rest
    <3>17. InStep'
      BY <1>2, <1>3, <2>1, <3>14, <3>16 DEF InStep, Same
    <3> QED
      BY <3>17
  <2> QED
    BY <2>4, <2>5
<1> QED
  BY <1>1, <1>3, <1>4, <1>5 DEF IInv

LEMMA ReadMsgInv ==
    ASSUME IInv, ReadMsg
    PROVE  IInv'
<1> DEFINE k == Len(received)
<1>1. /\ TypeOK' /\ Streams' /\ TypeOK /\ Streams
      /\ k \in Nat /\ Len(sent) \in Nat /\ Good \in Nat /\ Good <= Len(sent)
      /\ received \in Seq(Seq(Nat))
  BY ReadMsgTypes, GoodBound DEF IInv, TypeOK
<1>2. UNCHANGED <<sent, out_data, in_data>>
  BY DEF ReadMsg
<1>3. Good' = Good /\ GoodOf(sent, Good)'
  BY <1>2, GoodStays DEF IInv
<1>4. ASSUME Lost PROVE Lost'
  <2>1. CASE received' = received
    BY <1>2, <1>4, <2>1, LostStays
  <2>2. ASSUME NEW text \in Seq(Nat), received' = Append(received, text) PROVE Lost'
    <3>1. Len(received') = k + 1 /\ \A i \in 1 .. k : received'[i] = received[i]
      BY <1>1, <2>2, AppendProperties
    <3>2. Good <= k /\ \A i \in 1 .. Good : i \in 1 .. k
      BY <1>1, <1>4 DEF Lost
    <3>3. Same(Good)'
      BY <1>2, <1>3, <1>4, <3>1, <3>2 DEF Lost, Same
    <3>4. Good <= Len(received')
      BY <1>1, <3>1, <3>2
    <3> QED
      BY <1>2, <1>3, <1>4, <3>3, <3>4 DEF Lost
  <2>3. received' = received \/ \E text \in Seq(Nat) : received' = Append(received, text)
    BY <1>1, ReadMsgTypes
  <2> QED
    BY <2>1, <2>2, <2>3
<1>5. ASSUME InStep PROVE InStep'
  <2> DEFINE t == sent[k + 1]
             rest == Body(t)
  <2>1. k <= Good /\ Same(k) /\ ~out_data.fail /\ ~in_data.fail /\ ~recv_packet.fail
        /\ out_data.put = Len(out_data.buf)
    BY <1>5 DEF InStep
  <2>2. k < Good /\ nextLen = Len(rest) /\ Ahead(rest, k + 2)
    BY <1>5 DEF InStep, Reading, ReadMsg
  <2>3. k + 1 \in 1 .. Good /\ k + 1 \in 1 .. Len(sent)
    BY <1>1, <2>2
  <2>4. t \in Seq(Nat) /\ Fits(t)
    <3>1. sent \in Seq(Seq(Nat))
      BY <1>1, SentType DEF TypeOK
    <3> QED
      BY <2>3, <3>1, ElementOfSeq DEF IInv, GoodOf
  <2>5. PICK b \in Seq(Nat) : wire \o out_data.buf = rest \o b /\ Frames(sent, k + 2, b)
    BY <2>2 DEF Ahead, Holds
  <2> HIDE DEF t
  <2>6. /\ rest \in Seq(Nat) /\ Len(rest) = 1 + Len(t) /\ Len(t) \in Nat
        /\ rest[1] = Len(t) /\ SubSeq(rest, 2, 1 + Len(t)) = t
    BY <2>4, BodyIs
  <2>7. Len(rest) <= MAX_PKT_LEN
    BY <2>4, <2>6 DEF Fits, LengthLen
  <2> HIDE DEF rest
  <2>8. Taken(nextLen) = rest /\ wire' \o out_data.buf = b
    <3>1. Arrived(Len(rest))
      BY <2>2 DEF ReadMsg
    <3>2. Taken(Len(rest)) = rest /\ wire' \o out_data.buf = b
      BY <1>1, <2>5, <2>6, <2>7, <3>1, FrontTaken
    <3> QED
      BY <2>2, <3>2
  <2> DEFINE pkt == Set(recv_packet, rest)
             n == Pulled(pkt, LengthLen)[1]
             text == AfterPull(pkt, LengthLen)
  <2>9. /\ received' = Append(received, Pulled(text, n))
        /\ recv_packet' = AfterPull(text, n)
        /\ nextLen' = 0 /\ rd' = "header"
    <3>1. Len(Taken(nextLen)) = nextLen
      BY <2>2, <2>8
    <3> QED
      BY <2>8, <3>1 DEF ReadMsg, NextRead
  <2>10. /\ pkt \in Stream /\ Sound(pkt) /\ pkt.buf = rest /\ pkt.get = 0 /\ ~pkt.fail
    <3>1. recv_packet \in Stream
      BY <1>1 DEF TypeOK
    <3>2. /\ pkt \in Stream /\ Sound(pkt) /\ pkt.buf = rest /\ pkt.get = 0
          /\ pkt.fail = recv_packet.fail
      BY <2>6, <3>1, SetIs
    <3> QED
      BY <2>1, <3>2
  <2> HIDE DEF pkt
  <2>11. n = Len(t) /\ text \in Stream /\ text.buf = rest /\ text.get = 1 /\ ~text.fail
    <3>1. LengthLen \in Nat /\ LengthLen = 1 /\ pkt.get + LengthLen <= Len(pkt.buf)
      <4>1. LengthLen = 1 /\ Len(pkt.buf) = 1 + Len(t) /\ pkt.get = 0 /\ Len(t) \in Nat
        BY <2>6, <2>10 DEF LengthLen
      <4> QED
        BY ONLY <4>1
    <3>2. /\ Pulled(pkt, LengthLen) = SubSeq(pkt.buf, pkt.get + 1, pkt.get + LengthLen)
          /\ text.buf = pkt.buf /\ text.get = pkt.get + LengthLen /\ ~text.fail
      BY <2>10, <3>1, PullWhole
    <3>3. text \in Stream
      BY <2>10, <3>1, PullType
    <3>4. 1 \in 0 .. Len(rest) /\ 1 \in 1 .. 1
      BY <2>6
    <3>5. SubSeq(rest, 1, 1)[1] = rest[1]
      BY <2>6, <3>4, Parts
    <3>6. pkt.get + 1 = 1 /\ pkt.get + LengthLen = 1
      BY <2>10, <3>1
    <3>7. n = rest[1]
      BY <2>10, <3>2, <3>5, <3>6
    <3> QED
      BY <2>6, <2>10, <3>2, <3>3, <3>6, <3>7
  <2> HIDE DEF n, text
  <2>12. Pulled(text, n) = t /\ ~AfterPull(text, n).fail
    <3>1. n \in Nat /\ text.get + n <= Len(text.buf)
      <4>1. n = Len(t) /\ Len(text.buf) = 1 + Len(t) /\ text.get = 1 /\ Len(t) \in Nat
        BY <2>6, <2>11
      <4> QED
        BY ONLY <4>1
    <3>2. /\ Pulled(text, n) = SubSeq(text.buf, text.get + 1, text.get + n)
          /\ ~AfterPull(text, n).fail
      BY <2>11, <3>1, PullWhole
    <3>3. text.get + 1 = 2 /\ text.get + n = 1 + Len(t)
      BY <2>6, <2>11
    <3> QED
      BY <2>6, <2>11, <3>2, <3>3
  <2>13. received' = Append(received, t) /\ ~recv_packet'.fail
    BY <2>9, <2>12
  <2>14. /\ Len(received') = k + 1 /\ received'[k + 1] = t
         /\ \A i \in 1 .. k : received'[i] = received[i]
    BY <1>1, <2>4, <2>13, AppendProperties
  <2>15. Same(Len(received))'
    <3>1. \A i \in 1 .. k + 1 : i \in 1 .. k \/ i = k + 1
      BY <1>1
    <3>2. \A i \in 1 .. k + 1 : received'[i] = sent[i]
      BY <2>1, <2>14, <3>1 DEF Same, t
    <3> QED
      BY <1>2, <2>14, <3>2 DEF Same
  <2>16. Holds(wire' \o out_data'.buf, sent', <<>>, Len(received') + 1)
    <3>1. <<>> \o b = b
      BY ConcatEmptySeq
    <3>2. Len(received') + 1 = k + 2
      BY <1>1, <2>14
    <3> QED
      BY <1>2, <2>5, <2>8, <3>1, <3>2 DEF Holds
  <2>17. Reading'
    BY <2>9, <2>16 DEF Reading, Ahead
  <2>18. Len(received') <= Good'
    BY <1>1, <1>3, <2>2, <2>14
  <2> QED
    BY <1>2, <2>1, <2>13, <2>15, <2>17, <2>18 DEF InStep
<1> QED
  BY <1>1, <1>3, <1>4, <1>5 DEF IInv

LEMMA NextInv == IInv /\ [Next]_vars => IInv'
<1> SUFFICES ASSUME IInv, [Next]_vars PROVE IInv'
  OBVIOUS
<1>1. ASSUME NEW t \in Texts, Send(t) PROVE IInv'
  BY <1>1, SendInv
<1>2. CASE Tick
  BY <1>2, TickInv
<1>3. CASE ReadHandshake
  BY <1>3, ReadHandshakeInv
<1>4. CASE ReadHeader
  BY <1>4, ReadHeaderInv
<1>5. CASE ReadMsg
  BY <1>5, ReadMsgInv
<1>6. CASE UNCHANGED vars
  <2>1. UNCHANGED <<sent, out_data, wire, rd, nextLen, in_data, recv_packet, received>>
    BY <1>6 DEF vars
  <2>2. TypeOK' /\ Streams' /\ Good' = Good
    BY <2>1 DEF IInv, TypeOK, Streams, Good
  <2>3. InStep => InStep'
    BY <2>1, <2>2 DEF InStep, Same, Reading, Ahead
  <2>4. Lost => Lost'
    BY <2>1, LostStays
  <2> QED
    BY <2>1, <2>2, <2>3, <2>4 DEF IInv
<1> QED
  BY <1>1, <1>2, <1>3, <1>4, <1>5, <1>6 DEF Next

LEMMA CodecInvariant == Spec => []IInv
  BY InitInv, NextInv, PTL DEF Spec
-----------------------------------------------------------------------------
(* The streams stay streams and nextLen a size_t, whatever is sent.        *)
THEOREM TypeCorrect == Spec => []TypeOK
<1>1. IInv => TypeOK
  BY DEF IInv
<1> QED
  BY CodecInvariant, <1>1, PTL

(* The texts before the first that does not fit recv_buffer arrive         *)
(* unaltered and in order, whatever the bytes of that one and of what      *)
(* follows are taken for (handle_read_header, handle_read_msg).            *)
THEOREM PrefixArrivesIntact == Spec => []PrefixIntact
<1>1. ASSUME IInv PROVE PrefixIntact
  <2>1. Len(received) \in Nat /\ Good \in Nat
    BY <1>1, GoodBound
  <2>2. \A i \in 1 .. Least(Len(received), Good) : i \in 1 .. Len(received) /\ i \in 1 .. Good
    <3>1. /\ Least(Len(received), Good) \in Nat
          /\ Least(Len(received), Good) <= Len(received) /\ Least(Len(received), Good) <= Good
      BY <2>1, LeastType
    <3> QED
      BY <2>1, <3>1
  <2> QED
    BY <1>1, <2>2 DEF IInv, InStep, Lost, Same, PrefixIntact
<1> QED
  BY CodecInvariant, <1>1, PTL

(* As long as every text fits, no more is received than was sent, no       *)
(* stream fails, and the receiver neither stalls nor closes.               *)
THEOREM ReaderStaysInStep == Spec => []StaysReadable
<1>1. ASSUME IInv PROVE StaysReadable
  <2>1. Len(received) \in Nat /\ Good \in Nat /\ Len(sent) \in Nat /\ Good <= Len(sent)
    BY <1>1, GoodBound
  <2>2. ASSUME Good = Len(sent) PROVE InStep
    BY <1>1, <2>1, <2>2 DEF IInv, Lost
  <2>3. ASSUME InStep, Good = Len(sent)
        PROVE  /\ Len(received) <= Len(sent)
               /\ ~out_data.fail /\ ~in_data.fail /\ ~recv_packet.fail
               /\ rd \notin {"stalled", "closed"}
    <3>1. Len(received) <= Len(sent)
      BY <2>1, <2>3 DEF InStep
    <3>2. rd = "handshake" \/ rd = "header" \/ rd = "msg"
      BY <2>3 DEF InStep, Reading
    <3> QED
      BY <2>3, <3>1, <3>2 DEF InStep
  <2> QED
    BY <2>2, <2>3 DEF StaysReadable
<1> QED
  BY CodecInvariant, <1>1, PTL
=============================================================================
