---------------------------- MODULE StreamProofs ----------------------------
(***************************************************************************)
(* Theorems about what travels on a link of Connection, for every size of  *)
(* the kernels' buffers, of recv_buffer and of size_t and any number of    *)
(* requests: a direction whose writes never overlap delivers what was      *)
(* sent.                                                                   *)
(*                                                                         *)
(* The argument follows every cell by its position in the stream.  What    *)
(* was consumed, the kernels, the one write in progress and out_data are   *)
(* consecutive sections of it (Flow); so a reader at a known position      *)
(* knows what it reads (Reader).                                           *)
(***************************************************************************)
EXTENDS ConnectionProofs, FiniteSetTheorems

(* These cells stand in the stream of packets s behind its first n cells.  *)
Carries(s, n, cells) == \A i \in 1 .. Len(cells) : cells[i] = StreamCell(s, n + i)

(* Of the stream of s, n cells are consumed and these arrive next.         *)
Front(s, n, arriving) == /\ Carries(s, n, arriving)
                         /\ n + Len(arriving) <= 1 + FrameLen * Len(s)

(* ... these arrive next, those a write still has to send, and out_data is *)
(* the end of it.                                                          *)
Line(s, n, arriving, rem, out) ==
    /\ Carries(s, n, arriving)
    /\ Carries(s, n + Len(arriving), rem)
    /\ Carries(s, n + Len(arriving) + Len(rem), out)
    /\ n + Len(arriving) + Len(rem) + Len(out) = 1 + FrameLen * Len(s)

(* At most one operation of a connection is unfinished, and rem is what it *)
(* has left; its buffer has not been freed.                                *)
Unspent(rem) == [rem |-> rem, stale |-> FALSE]
Done(q) == \A i \in 1 .. Len(q) : q[i].rem = <<>>
OneLeft(q, rem) == \E j \in 1 .. Len(q) :
    /\ q[j] = Unspent(rem)
    /\ \A i \in 1 .. Len(q) : i = j \/ q[i].rem = <<>>
Sole(q, p, rem) ==
    \/ rem = <<>> /\ q = <<>> /\ Done(p)
    \/ rem # <<>> /\ q = <<Unspent(rem)>> /\ Done(p)
    \/ rem # <<>> /\ q = <<>> /\ OneLeft(p, rem)

(* A connection that was not started has done nothing, nor can its peer    *)
(* have read from it.                                                      *)
Fresh == \A c \in Conn :
    /\ connected[c] = (sock[c] # "new")
    /\ sock[c] = "new" => /\ rd[c] = "none" /\ recv_buffer[c] = <<>>
                          /\ out_data[c] = <<>> /\ write_q[c] = <<>> /\ posted[c] = <<>>
                          /\ net[c] = <<>> /\ sent[c] = <<>> /\ dispatched[c] = <<>>
                          /\ ~ready[c] /\ ~failed[c] /\ ~stopped[c]
                          /\ rd[Peer(c)] \in {"none", "handshake"}

Reading(c) == rd[c] # "none" \/ sock[c] = "new"

(* The stream from c, as long as it matters and is well.  Nothing is added *)
(* to it once the link is broken.                                          *)
FlowOf(c) ==
    ~overlapped[c] /\ sock[c] # "new" /\ Reading(Peer(c)) =>
        /\ Front(sent[c], Consumed(Peer(c)), net[c])
        /\ ~Broken(c) => \E rem \in Seq(Cell) :
              /\ Sole(write_q[c], posted[c], rem)
              /\ Line(sent[c], Consumed(Peer(c)), net[c], rem, out_data[c])
Flow == \A c \in Conn : FlowOf(c)

(* Where c is in the stream from its peer.                                 *)
ReaderOf(c) ==
    LET next == sent[Peer(c)][Len(dispatched[c]) + 1]
    IN  ~overlapped[Peer(c)] =>
          /\ IsPrefixOf(dispatched[c], sent[Peer(c)])
          /\ rd[c] # "none" => ~failed[c]
          /\ rd[c] = "handshake" => dispatched[c] = <<>>
          /\ rd[c] \in {"handshake", "header"} => recv_buffer[c] = <<>>
          /\ rd[c] = "msg" =>
                /\ Len(dispatched[c]) < Len(sent[Peer(c)])
                /\ nextLen[c] = BodyLen /\ recv_header[c].opcode = next.opcode
                /\ recv_buffer[c] \in {<<>>, <<Encode(next)[2]>>}
Reader == \A c \in Conn : ReaderOf(c)

SInv == IInv /\ Fresh /\ Flow /\ Reader
-----------------------------------------------------------------------------
(***************************************************************************)
(* Positions in the stream.                                                *)
(***************************************************************************)

(* The three cells of the k-th packet.                                     *)
LEMMA CellAt ==
    ASSUME NEW s, NEW k \in Nat \ {0}
    PROVE  /\ StreamCell(s, 3 * k - 1) = Encode(s[k])[1]
           /\ StreamCell(s, 3 * k) = Encode(s[k])[2]
           /\ StreamCell(s, 3 * k + 1) = Encode(s[k])[3]
<1>1. /\ 1 + ((3 * k - 1 - 2) \div 3) = k /\ 1 + ((3 * k - 1 - 2) % 3) = 1
      /\ 1 + ((3 * k - 2) \div 3) = k /\ 1 + ((3 * k - 2) % 3) = 2
      /\ 1 + ((3 * k + 1 - 2) \div 3) = k /\ 1 + ((3 * k + 1 - 2) % 3) = 3
  OBVIOUS
<1>2. 3 * k - 1 # 1 /\ 3 * k # 1 /\ 3 * k + 1 # 1
  OBVIOUS
<1> QED
  BY <1>1, <1>2 DEF StreamCell, FrameLen, HeaderLen, BodyLen

(* A packet that is sent later does not change the cells before it.        *)
LEMMA CellStays ==
    ASSUME NEW s \in Seq(Packet), NEW p \in Packet, NEW i \in 1 .. 1 + FrameLen * Len(s)
    PROVE  StreamCell(Append(s, p), i) = StreamCell(s, i)
<1> DEFINE k == 1 + ((i - 2) \div 3)
<1>1. CASE i = 1
  BY <1>1 DEF StreamCell
<1>2. CASE i # 1
  <2>1. Len(s) \in Nat /\ i \in 2 .. 1 + 3 * Len(s)
    BY <1>2, LenProperties DEF FrameLen, HeaderLen, BodyLen
  <2>2. k \in 1 .. Len(s)
    BY <2>1
  <2>3. Append(s, p)[k] = s[k]
    BY <2>2, AppendProperties
  <2> QED
    BY <1>2, <2>3 DEF StreamCell, FrameLen, HeaderLen, BodyLen
<1> QED
  BY <1>1, <1>2

LEMMA FrameIsThree == FrameLen = 3
  BY DEF FrameLen, HeaderLen, BodyLen

(* A packet is three cells.                                                *)
LEMMA EncodeLen ==
    ASSUME NEW p \in Packet
    PROVE  Encode(p) \in Seq(Cell) /\ Len(Encode(p)) = 3
  BY CellTypes DEF Encode

LEMMA CarriesStays ==
    ASSUME NEW s \in Seq(Packet), NEW p \in Packet, NEW n \in Nat, NEW cells \in Seq(Cell),
           Carries(s, n, cells), n + Len(cells) <= 1 + FrameLen * Len(s)
    PROVE  Carries(Append(s, p), n, cells)
<1>1. Len(cells) \in Nat /\ Len(s) \in Nat
  BY LenProperties
<1>2. ASSUME NEW i \in 1 .. Len(cells) PROVE cells[i] = StreamCell(Append(s, p), n + i)
  <2>1. n + i \in 1 .. 1 + FrameLen * Len(s)
    BY <1>1, FrameIsThree
  <2> QED
    BY <2>1, CellStays DEF Carries
<1> QED
  BY <1>2 DEF Carries

LEMMA CarriesNone == \A s, n : Carries(s, n, <<>>)
  BY DEF Carries

LEMMA CarriesConcat ==
    ASSUME NEW s, NEW n \in Nat, NEW a \in Seq(Cell), NEW b \in Seq(Cell),
           Carries(s, n, a), Carries(s, n + Len(a), b)
    PROVE  Carries(s, n, a \o b)
<1>1. Len(a) \in Nat /\ Len(b) \in Nat /\ Len(a \o b) = Len(a) + Len(b)
  BY LenProperties, ConcatProperties
<1>2. ASSUME NEW i \in 1 .. Len(a) + Len(b) PROVE (a \o b)[i] = StreamCell(s, n + i)
  <2>1. CASE i <= Len(a)
    BY <1>1, <2>1, ConcatProperties DEF Carries
  <2>2. CASE i > Len(a)
    <3>1. i - Len(a) \in 1 .. Len(b)
      BY <1>1, <2>2
    <3>2. (a \o b)[i] = b[i - Len(a)]
      BY <1>1, <2>2, ConcatProperties
    <3>3. n + Len(a) + (i - Len(a)) = n + i
      BY <1>1
    <3> QED
      BY <3>1, <3>2, <3>3 DEF Carries
  <2> QED
    BY <1>1, <2>1, <2>2
<1> QED
  BY <1>1, <1>2 DEF Carries

LEMMA CarriesSplit ==
    ASSUME NEW s, NEW n \in Nat, NEW cells \in Seq(Cell), NEW k \in 0 .. Len(cells),
           Carries(s, n, cells)
    PROVE  /\ Carries(s, n, SubSeq(cells, 1, k))
           /\ Carries(s, n + k, SubSeq(cells, k + 1, Len(cells)))
<1>1. Len(cells) \in Nat /\ k \in Nat
  BY LenProperties
<1>2. \A i \in 1 .. Len(cells) : cells[i] \in Cell
  BY ElementOfSeq
<1>3. /\ Len(SubSeq(cells, 1, k)) = k
      /\ Len(SubSeq(cells, k + 1, Len(cells))) = Len(cells) - k
  BY SplitSeq
<1>4. ASSUME NEW i \in 1 .. k PROVE SubSeq(cells, 1, k)[i] = StreamCell(s, n + i)
  <2>1. i \in 1 .. Len(cells) /\ i \in 1 .. k - 1 + 1
    BY <1>1
  <2>2. \A j \in 1 .. k : cells[j] \in Cell
    BY <1>1, <1>2
  <2>3. SubSeq(cells, 1, k)[i] = cells[1 + i - 1]
    BY <1>1, <2>1, <2>2, SubSeqProperties
  <2>4. 1 + i - 1 = i
    BY <2>1
  <2> QED
    BY <2>1, <2>3, <2>4 DEF Carries
<1>5. ASSUME NEW i \in 1 .. Len(cells) - k
      PROVE  SubSeq(cells, k + 1, Len(cells))[i] = StreamCell(s, n + k + i)
  <2>1. k + i \in 1 .. Len(cells) /\ i \in 1 .. Len(cells) - (k + 1) + 1
    BY <1>1
  <2>2. \A j \in k + 1 .. Len(cells) : cells[j] \in Cell
    BY <1>1, <1>2
  <2>3. SubSeq(cells, k + 1, Len(cells))[i] = cells[k + 1 + i - 1]
    BY <1>1, <2>1, <2>2, SubSeqProperties
  <2>4. k + 1 + i - 1 = k + i /\ n + (k + i) = n + k + i
    BY <1>1
  <2> QED
    BY <2>1, <2>3, <2>4 DEF Carries
<1> QED
  BY <1>3, <1>4, <1>5 DEF Carries

(* The first cell of a sequence, and the first two.                        *)
LEMMA FirstCells ==
    ASSUME NEW a \in Seq(Cell), 1 \in 1 .. Len(a)
    PROVE  /\ SubSeq(a, 1, 1) = <<a[1]>>
           /\ 2 \in 1 .. Len(a) => SubSeq(a, 1, 2) = <<a[1], a[2]>>
<1>1. Len(a) \in Nat /\ \A i \in 1 .. Len(a) : a[i] \in Cell
  BY ElementOfSeq, LenProperties
<1>2. SubSeq(a, 1, 1) = <<a[1]>>
  <2> DEFINE u == SubSeq(a, 1, 1)
             v == <<a[1]>>
  <2>1. \A i \in 1 .. 1 : a[i] \in Cell
    BY <1>1
  <2>2. /\ u \in Seq(Cell) /\ Len(u) = IF 1 <= 1 THEN 1 - 1 + 1 ELSE 0
        /\ \A i \in 1 .. 1 - 1 + 1 : u[i] = a[1 + i - 1]
    BY <2>1, SubSeqProperties
  <2>3. v \in Seq(Cell) /\ Len(v) = 1 /\ v[1] = a[1]
    BY <1>1
  <2> HIDE DEF u, v
  <2>4. u[1] = a[1] /\ Len(u) = 1
    BY <2>2
  <2>5. \A i \in 1 .. Len(u) : u[i] = v[i]
    BY <2>3, <2>4
  <2>6. u = v
    BY <2>2, <2>3, <2>4, <2>5, SeqEqual
  <2> QED
    BY <2>6 DEF u, v
<1>3. ASSUME 2 \in 1 .. Len(a) PROVE SubSeq(a, 1, 2) = <<a[1], a[2]>>
  <2> DEFINE u == SubSeq(a, 1, 2)
             v == <<a[1], a[2]>>
  <2>1. \A i \in 1 .. 2 : a[i] \in Cell
    BY <1>1, <1>3
  <2>2. /\ u \in Seq(Cell) /\ Len(u) = IF 1 <= 2 THEN 2 - 1 + 1 ELSE 0
        /\ \A i \in 1 .. 2 - 1 + 1 : u[i] = a[1 + i - 1]
    BY <2>1, SubSeqProperties
  <2>3. v \in Seq(Cell) /\ Len(v) = 2 /\ v[1] = a[1] /\ v[2] = a[2]
    BY <1>1, <1>3
  <2> HIDE DEF u, v
  <2>4. u[1] = a[1] /\ u[2] = a[2] /\ Len(u) = 2
    BY <2>2
  <2>5. \A i \in 1 .. Len(u) : u[i] = v[i]
    BY <2>3, <2>4
  <2>6. u = v
    BY <2>2, <2>3, <2>4, <2>5, SeqEqual
  <2> QED
    BY <2>6 DEF u, v
<1> QED
  BY <1>2, <1>3

LEMMA PairConcat == \A x, y \in Cell : <<x>> \o <<y>> = <<x, y>>
<1> SUFFICES ASSUME NEW x \in Cell, NEW y \in Cell PROVE <<x>> \o <<y>> = <<x, y>>
  OBVIOUS
<1> DEFINE a == <<x>>
           b == <<y>>
           v == <<x, y>>
<1>1. a \in Seq(Cell) /\ b \in Seq(Cell) /\ v \in Seq(Cell)
  OBVIOUS
<1>2. Len(a) = 1 /\ a[1] = x /\ Len(b) = 1 /\ b[1] = y /\ Len(v) = 2 /\ v[1] = x /\ v[2] = y
  OBVIOUS
<1> HIDE DEF a, b, v
<1>3. /\ a \o b \in Seq(Cell) /\ Len(a \o b) = Len(a) + Len(b)
      /\ \A i \in 1 .. Len(a) + Len(b) : (a \o b)[i] = IF i <= Len(a) THEN a[i] ELSE b[i - Len(a)]
  BY <1>1, ConcatProperties
<1>4. Len(a \o b) = 2 /\ (a \o b)[1] = x /\ (a \o b)[2] = y
  BY <1>2, <1>3
<1>5. a \o b = v
  BY <1>1, <1>2, <1>3, <1>4, SeqEqual
<1> QED
  BY <1>5 DEF a, b, v

(* The packet sent last is at the end.                                     *)
LEMMA CarriesLast ==
    ASSUME NEW s \in Seq(Packet), NEW p \in Packet
    PROVE  Carries(Append(s, p), 1 + FrameLen * Len(s), Encode(p))
<1> DEFINE t == Append(s, p)
           k == Len(s) + 1
<1>1. k \in Nat \ {0} /\ t[k] = p /\ Len(s) \in Nat
  BY LenProperties, AppendProperties
<1>2. /\ StreamCell(t, 3 * k - 1) = Encode(t[k])[1] /\ StreamCell(t, 3 * k) = Encode(t[k])[2]
      /\ StreamCell(t, 3 * k + 1) = Encode(t[k])[3]
  BY <1>1, CellAt
<1>3. /\ 1 + 3 * Len(s) + 1 = 3 * k - 1 /\ 1 + 3 * Len(s) + 2 = 3 * k
      /\ 1 + 3 * Len(s) + 3 = 3 * k + 1
  BY <1>1
<1> HIDE DEF k, t
<1>4. ASSUME NEW i \in 1 .. 3
      PROVE  Encode(p)[i] = StreamCell(t, 1 + 3 * Len(s) + i)
  <2>1. i = 1 \/ i = 2 \/ i = 3
    OBVIOUS
  <2> QED
    BY <1>1, <1>2, <1>3, <2>1
<1> QED
  BY <1>4, EncodeLen, FrameIsThree DEF Carries, t
-----------------------------------------------------------------------------
(***************************************************************************)
(* What the steps do to the sections of a stream.                          *)
(***************************************************************************)

LEMMA LineFront ==
    ASSUME NEW s \in Seq(Packet), NEW n \in Nat,
           NEW a \in Seq(Cell), NEW b \in Seq(Cell), NEW d \in Seq(Cell), Line(s, n, a, b, d)
    PROVE  Front(s, n, a)
<1>1. Len(a) \in Nat /\ Len(b) \in Nat /\ Len(d) \in Nat /\ Len(s) \in Nat
  BY LenProperties
<1> QED
  BY <1>1, FrameIsThree DEF Line, Front

(* The reader takes k cells.                                               *)
LEMMA FrontTaken ==
    ASSUME NEW s \in Seq(Packet), NEW n \in Nat, NEW a \in Seq(Cell),
           NEW k \in 0 .. Len(a), Front(s, n, a)
    PROVE  Front(s, n + k, SubSeq(a, k + 1, Len(a)))
<1>1. Len(a) \in Nat /\ Len(s) \in Nat /\ Len(SubSeq(a, k + 1, Len(a))) = Len(a) - k
  BY LenProperties, SplitSeq
<1>2. Carries(s, n + k, SubSeq(a, k + 1, Len(a)))
  BY CarriesSplit DEF Front
<1>3. n + Len(a) <= 1 + 3 * Len(s)
  BY FrameIsThree DEF Front
<1>4. n + k + (Len(a) - k) <= 1 + 3 * Len(s)
  BY <1>1, <1>3
<1> QED
  BY <1>1, <1>2, <1>4, FrameIsThree DEF Front

LEMMA LineTaken ==
    ASSUME NEW s \in Seq(Packet), NEW n \in Nat,
           NEW a \in Seq(Cell), NEW b \in Seq(Cell), NEW d \in Seq(Cell),
           NEW k \in 0 .. Len(a), Line(s, n, a, b, d)
    PROVE  Line(s, n + k, SubSeq(a, k + 1, Len(a)), b, d)
<1>1. /\ Len(a) \in Nat /\ Len(b) \in Nat /\ Len(d) \in Nat /\ Len(s) \in Nat
      /\ Len(SubSeq(a, k + 1, Len(a))) = Len(a) - k
  BY LenProperties, SplitSeq
<1>2. Carries(s, n + k, SubSeq(a, k + 1, Len(a)))
  BY CarriesSplit DEF Line
<1>3. n + k + (Len(a) - k) = n + Len(a)
  BY <1>1
<1> QED
  BY <1>1, <1>2, <1>3, FrameIsThree DEF Line

(* A send moves k cells of the write into the kernel.                      *)
LEMMA LineSent ==
    ASSUME NEW s \in Seq(Packet), NEW n \in Nat,
           NEW a \in Seq(Cell), NEW b \in Seq(Cell), NEW d \in Seq(Cell),
           NEW k \in 0 .. Len(b), Line(s, n, a, b, d)
    PROVE  Line(s, n, a \o SubSeq(b, 1, k), SubSeq(b, k + 1, Len(b)), d)
<1> DEFINE b1 == SubSeq(b, 1, k)
           b2 == SubSeq(b, k + 1, Len(b))
<1>1. Len(a) \in Nat /\ Len(b) \in Nat /\ Len(d) \in Nat /\ Len(s) \in Nat /\ k \in Nat
  BY LenProperties
<1>2. b1 \in Seq(Cell) /\ b2 \in Seq(Cell) /\ Len(b1) = k /\ Len(b2) = Len(b) - k
  BY SplitSeq
<1>3. Carries(s, n + Len(a), b1) /\ Carries(s, n + Len(a) + k, b2)
  <2>1. n + Len(a) \in Nat /\ Carries(s, n + Len(a), b)
    BY <1>1 DEF Line
  <2> QED
    BY <2>1, CarriesSplit
<1> HIDE DEF b1, b2
<1>4. Carries(s, n, a \o b1) /\ Len(a \o b1) = Len(a) + k
  BY <1>1, <1>2, <1>3, CarriesConcat, ConcatProperties DEF Line
<1>5. n + (Len(a) + k) = n + Len(a) + k /\ n + (Len(a) + k) + (Len(b) - k) = n + Len(a) + Len(b)
  BY <1>1
<1>6. Line(s, n, a \o b1, b2, d)
  BY <1>1, <1>2, <1>3, <1>4, <1>5 DEF Line
<1> QED
  BY <1>6 DEF b1, b2

(* Tick makes a write of out_data.                                         *)
LEMMA LineTick ==
    ASSUME NEW s \in Seq(Packet), NEW n \in Nat, NEW a \in Seq(Cell), NEW d \in Seq(Cell),
           Line(s, n, a, <<>>, d)
    PROVE  Line(s, n, a, d, <<>>)
<1>1. Len(a) \in Nat /\ Len(d) \in Nat /\ Len(s) \in Nat /\ Len(<<>>) = 0
  BY LenProperties
<1>2. Carries(s, n, a) /\ Carries(s, n + Len(a) + 0, d)
      /\ n + Len(a) + 0 + Len(d) = 1 + FrameLen * Len(s)
  BY <1>1 DEF Line
<1>3. n + Len(a) + 0 = n + Len(a) /\ n + Len(a) + Len(d) + 0 = n + Len(a) + Len(d)
  BY <1>1
<1> QED
  BY <1>1, <1>2, <1>3, CarriesNone DEF Line

(* A packet is appended to out_data.                                       *)
LEMMA FrontGrows ==
    ASSUME NEW s \in Seq(Packet), NEW n \in Nat, NEW a \in Seq(Cell), NEW p \in Packet,
           Front(s, n, a)
    PROVE  Front(Append(s, p), n, a)
<1>1. Len(a) \in Nat /\ Len(s) \in Nat /\ Len(Append(s, p)) = Len(s) + 1
  BY LenProperties, AppendProperties
<1> QED
  BY <1>1, CarriesStays, FrameIsThree DEF Front

LEMMA LineGrows ==
    ASSUME NEW s \in Seq(Packet), NEW n \in Nat,
           NEW a \in Seq(Cell), NEW b \in Seq(Cell), NEW d \in Seq(Cell), NEW p \in Packet,
           Line(s, n, a, b, d)
    PROVE  Line(Append(s, p), n, a, b, d \o Encode(p))
<1> DEFINE t == Append(s, p)
<1>1. Len(a) \in Nat /\ Len(b) \in Nat /\ Len(d) \in Nat /\ Len(s) \in Nat
  BY LenProperties
<1>2. /\ Encode(p) \in Seq(Cell) /\ Len(Encode(p)) = 3 /\ Len(t) = Len(s) + 1
      /\ Len(d \o Encode(p)) = Len(d) + 3
  <2>1. Encode(p) \in Seq(Cell) /\ Len(Encode(p)) = 3
    BY EncodeLen
  <2>2. Len(t) = Len(s) + 1
    BY AppendProperties
  <2>3. Len(d \o Encode(p)) = Len(d) + Len(Encode(p))
    BY <2>1, ConcatProperties
  <2> QED
    BY <2>1, <2>2, <2>3
<1>3. /\ Carries(s, n, a) /\ Carries(s, n + Len(a), b) /\ Carries(s, n + Len(a) + Len(b), d)
  BY DEF Line
<1>0. n + Len(a) + Len(b) + Len(d) = 1 + 3 * Len(s)
  BY FrameIsThree DEF Line
<1>4. Carries(t, n, a)
  <2>1. n + Len(a) <= 1 + FrameLen * Len(s)
    BY <1>1, <1>0, FrameIsThree
  <2> QED
    BY <1>3, <2>1, CarriesStays
<1>5. Carries(t, n + Len(a), b)
  <2>1. n + Len(a) \in Nat /\ n + Len(a) + Len(b) <= 1 + FrameLen * Len(s)
    BY <1>1, <1>0, FrameIsThree
  <2> QED
    BY <1>3, <2>1, CarriesStays
<1>6. Carries(t, n + Len(a) + Len(b), d)
  <2>1. n + Len(a) + Len(b) \in Nat /\ n + Len(a) + Len(b) + Len(d) <= 1 + FrameLen * Len(s)
    BY <1>1, <1>0, FrameIsThree
  <2> QED
    BY <1>3, <2>1, CarriesStays
<1>7. Carries(t, n + Len(a) + Len(b), d \o Encode(p))
  <2>1. Carries(t, n + Len(a) + Len(b) + Len(d), Encode(p))
    BY <1>0, CarriesLast, FrameIsThree
  <2>2. n + Len(a) + Len(b) \in Nat
    BY <1>1
  <2> HIDE DEF t
  <2> QED
    BY <1>2, <1>6, <2>1, <2>2, CarriesConcat
<1>8. n + Len(a) + Len(b) + (Len(d) + 3) = 1 + 3 * (Len(s) + 1)
  <2>1. \A x, y, z \in Nat : x + y = 1 + 3 * z => x + (y + 3) = 1 + 3 * (z + 1)
    OBVIOUS
  <2>2. n + Len(a) + Len(b) \in Nat
    BY <1>1
  <2> QED
    BY <1>0, <1>1, <2>1, <2>2, ZenonT(40)
<1> HIDE DEF t
<1>9. Line(t, n, a, b, d \o Encode(p))
  BY <1>2, <1>4, <1>5, <1>7, <1>8, FrameIsThree DEF Line
<1> QED
  BY <1>9 DEF t
-----------------------------------------------------------------------------
(***************************************************************************)
(* The one write in progress.                                              *)
(***************************************************************************)

LEMMA UnspentType == \A rem \in Seq(Cell) : Unspent(rem) \in WriteOp
  BY DEF Unspent, WriteOp

(* An operation put behind finished ones is the one that is left.          *)
LEMMA SoleAppend ==
    ASSUME NEW p \in Seq(WriteOp), Done(p), NEW rem \in Seq(Cell)
    PROVE  Sole(<<>>, Append(p, Unspent(rem)), rem)
<1> DEFINE r == Append(p, Unspent(rem))
           m == Len(p) + 1
<1>1. /\ Len(p) \in Nat /\ Len(r) = m /\ r[m] = Unspent(rem)
      /\ \A i \in 1 .. Len(p) : r[i] = p[i]
  BY UnspentType, LenProperties, AppendProperties
<1> HIDE DEF r
<1>2. ASSUME NEW i \in 1 .. Len(r) PROVE i = m \/ r[i].rem = <<>>
  <2>1. i = m \/ i \in 1 .. Len(p)
    BY <1>1
  <2> QED
    BY <1>1, <2>1 DEF Done
<1>3. m \in 1 .. Len(r)
  BY <1>1
<1>4. CASE rem = <<>>
  <2>1. Done(r)
    BY <1>1, <1>2, <1>4 DEF Done, Unspent
  <2> QED
    BY <1>4, <2>1 DEF Sole, r
<1>5. CASE rem # <<>>
  <2>1. OneLeft(r, rem)
    BY <1>1, <1>2, <1>3 DEF OneLeft
  <2> QED
    BY <1>5, <2>1 DEF Sole, r
<1> QED
  BY <1>4, <1>5

(* The completion that runs next: of a finished operation or of the one    *)
(* that is left.                                                           *)
LEMMA SoleTail ==
    ASSUME NEW q, NEW p \in Seq(WriteOp), NEW rem \in Seq(Cell), p # <<>>, Sole(q, p, rem)
    PROVE  \/ Head(p).rem = <<>> /\ Sole(q, Tail(p), rem)
           \/ rem # <<>> /\ q = <<>> /\ Head(p) = Unspent(rem) /\ Done(Tail(p))
<1>1. /\ Len(p) \in Nat \ {0} /\ Len(Tail(p)) = Len(p) - 1 /\ Head(p) = p[1]
      /\ \A i \in 1 .. Len(p) - 1 : Tail(p)[i] = p[i + 1]
  BY EmptySeq, LenProperties, HeadTailProperties
<1>2. Done(p) => p[1].rem = <<>> /\ Done(Tail(p))
  <2> SUFFICES ASSUME Done(p) PROVE p[1].rem = <<>> /\ Done(Tail(p))
    OBVIOUS
  <2>1. 1 \in 1 .. Len(p) /\ \A i \in 1 .. Len(p) - 1 : i + 1 \in 1 .. Len(p)
    BY <1>1
  <2> QED
    BY <1>1, <2>1 DEF Done
<1>3. CASE Done(p)
  <2>1. OneLeft(p, rem) => rem = <<>>
    BY <1>3 DEF OneLeft, Done, Unspent
  <2> QED
    BY <1>1, <1>2, <1>3, <2>1 DEF Sole
<1>4. CASE rem # <<>> /\ q = <<>> /\ OneLeft(p, rem)
  <2>1. PICK j \in 1 .. Len(p) : /\ p[j] = Unspent(rem)
                                 /\ \A i \in 1 .. Len(p) : i = j \/ p[i].rem = <<>>
    BY <1>4 DEF OneLeft
  <2>2. CASE j = 1
    <3>1. ASSUME NEW i \in 1 .. Len(p) - 1 PROVE Tail(p)[i].rem = <<>>
      <4>1. i + 1 \in 1 .. Len(p) /\ i + 1 # 1
        BY <1>1
      <4> QED
        BY <1>1, <2>1, <2>2, <4>1
    <3> QED
      BY <1>1, <1>4, <2>1, <2>2, <3>1 DEF Done
  <2>3. CASE j # 1
    <3>1. p[1].rem = <<>>
      BY <1>1, <2>1, <2>3
    <3>2. j - 1 \in 1 .. Len(p) - 1 /\ Tail(p)[j - 1] = Unspent(rem)
      BY <1>1, <2>1, <2>3
    <3>3. ASSUME NEW i \in 1 .. Len(p) - 1 PROVE i = j - 1 \/ Tail(p)[i].rem = <<>>
      <4>1. i + 1 \in 1 .. Len(p) /\ (i + 1 = j => i = j - 1)
        BY <1>1
      <4> QED
        BY <1>1, <2>1, <4>1
    <3>4. OneLeft(Tail(p), rem)
      BY <1>1, <3>2, <3>3 DEF OneLeft
    <3> QED
      BY <1>1, <1>4, <3>1, <3>4 DEF Sole
  <2> QED
    BY <2>2, <2>3
<1> QED
  BY <1>3, <1>4 DEF Sole

(* A send on a link that works takes the first k cells, unaltered.         *)
LEMMA PerformedCells ==
    ASSUME TypeOK, NEW c \in Conn, NEW rem \in Seq(Cell), ~Broken(c),
           NEW r \in Performed(c, Unspent(rem))
    PROVE  \E k \in 0 .. Len(rem) : /\ r.cells = SubSeq(rem, 1, k)
                                    /\ r.op = Unspent(SubSeq(rem, k + 1, Len(rem)))
<1> DEFINE op == Unspent(rem)
           k == Lesser(SndCap - Len(net[c]), Len(op.rem))
<1>1. op.rem = rem /\ op.stale = FALSE
  BY DEF Unspent
<1>2. Len(rem) \in Nat /\ SndCap - Len(net[c]) \in Nat
  <2>1. net[c] \in Seq(Cell) /\ Len(net[c]) <= SndCap
    BY DEF TypeOK
  <2>2. Len(rem) \in Nat /\ Len(net[c]) \in 0 .. SndCap
    BY <2>1, LenProperties
  <2> QED
    BY <2>2, ConnectionAssumption
<1>3. k \in 0 .. Len(rem)
  BY <1>1, <1>2, LesserType
<1>4. PICK cells \in Fetched(op, k) :
         r = [op |-> [op EXCEPT !.rem = SubSeq(op.rem, k + 1, Len(op.rem))], cells |-> cells]
  BY DEF Performed
<1> HIDE DEF k
<1>5. cells = SubSeq(rem, 1, k)
  BY <1>1, <1>4 DEF Fetched
<1>6. [op EXCEPT !.rem = SubSeq(op.rem, k + 1, Len(op.rem))]
        = Unspent(SubSeq(rem, k + 1, Len(rem)))
  <2> DEFINE u == SubSeq(rem, k + 1, Len(rem))
  <2>1. u \in Seq(Cell) /\ op \in WriteOp
    BY <1>3, SplitSeq, UnspentType
  <2> HIDE DEF u, op
  <2>2. [op EXCEPT !.rem = u] \in WriteOp
    BY <2>1, OpTypes
  <2>3. [op EXCEPT !.rem = u].rem = u /\ [op EXCEPT !.rem = u].stale = FALSE
    BY <1>1, <2>1 DEF WriteOp
  <2>4. \A x \in WriteOp : x.rem = u /\ x.stale = FALSE => x = [rem |-> u, stale |-> FALSE]
    BY DEF WriteOp
  <2>5. [op EXCEPT !.rem = u] = Unspent(u)
    BY <2>2, <2>3, <2>4 DEF Unspent
  <2> QED
    BY <1>1, <2>5 DEF u
<1> QED
  BY <1>3, <1>4, <1>5, <1>6

(* Starting a write when none is in progress.                              *)
LEMMA StartWriteSole ==
    ASSUME TypeOK, NEW c \in Conn, NEW rem \in Seq(Cell), rem # <<>>, ~Broken(c),
           NEW p \in Seq(WriteOp), Done(p), StartWrite(c, Unspent(rem), <<>>, p)
    PROVE  \E k \in 0 .. Len(rem) :
              /\ net'[c] = net[c] \o SubSeq(rem, 1, k)
              /\ Sole(write_q'[c], posted'[c], SubSeq(rem, k + 1, Len(rem)))
<1>0. /\ write_q \in [Conn -> Seq(WriteOp)] /\ posted \in [Conn -> Seq(WriteOp)]
      /\ net \in [Conn -> Seq(Cell)]
  BY DEF TypeOK
<1>1. CASE /\ \E r \in Performed(c, Unspent(rem)) :
                 /\ posted' = [posted EXCEPT ![c] = Append(p, r.op)]
                 /\ net' = [net EXCEPT ![c] = @ \o r.cells]
           /\ write_q' = [write_q EXCEPT ![c] = <<>>]
  <2>1. PICK r \in Performed(c, Unspent(rem)) :
           /\ posted' = [posted EXCEPT ![c] = Append(p, r.op)]
           /\ net' = [net EXCEPT ![c] = @ \o r.cells]
    BY <1>1
  <2>2. PICK k \in 0 .. Len(rem) : /\ r.cells = SubSeq(rem, 1, k)
                                   /\ r.op = Unspent(SubSeq(rem, k + 1, Len(rem)))
    BY PerformedCells
  <2>3. SubSeq(rem, k + 1, Len(rem)) \in Seq(Cell)
    BY SplitSeq
  <2>4. Sole(<<>>, Append(p, r.op), SubSeq(rem, k + 1, Len(rem)))
    BY <2>2, <2>3, SoleAppend
  <2>5. /\ net'[c] = net[c] \o SubSeq(rem, 1, k) /\ write_q'[c] = <<>>
        /\ posted'[c] = Append(p, r.op)
    BY <1>0, <1>1, <2>1, <2>2
  <2> QED
    BY <2>4, <2>5
<1>2. CASE /\ write_q' = [write_q EXCEPT ![c] = Append(<<>>, Unspent(rem))]
           /\ posted' = [posted EXCEPT ![c] = p]
           /\ UNCHANGED net
  <2>1. write_q'[c] = <<Unspent(rem)>> /\ posted'[c] = p /\ net'[c] = net[c]
    BY <1>0, <1>2
  <2>2. Sole(write_q'[c], posted'[c], rem)
    BY <2>1 DEF Sole
  <2>3. SubSeq(rem, 1, 0) = <<>> /\ SubSeq(rem, 0 + 1, Len(rem)) = rem
    BY SubSeqEmpty, SubSeqFull
  <2>4. net[c] \o <<>> = net[c]
    BY <1>0, ConcatEmptySeq
  <2>5. 0 \in 0 .. Len(rem)
    BY LenProperties
  <2> QED
    BY <2>1, <2>2, <2>3, <2>4, <2>5
<1> QED
  BY <1>1, <1>2 DEF StartWrite

(* The operation that is left, or a finished one, completes.               *)
LEMMA RunWriteSole ==
    ASSUME TypeOK, NEW c \in Conn, NEW rem \in Seq(Cell), ~Broken(c),
           Sole(write_q[c], posted[c], rem), RunWrite(c)
    PROVE  \E k \in 0 .. Len(rem) :
              /\ net'[c] = net[c] \o SubSeq(rem, 1, k)
              /\ Sole(write_q'[c], posted'[c], SubSeq(rem, k + 1, Len(rem)))
<1> DEFINE op == Head(posted[c])
           rest == Tail(posted[c])
<1>0. /\ write_q \in [Conn -> Seq(WriteOp)] /\ posted \in [Conn -> Seq(WriteOp)]
      /\ net \in [Conn -> Seq(Cell)]
  BY DEF TypeOK
<1>1. posted[c] \in Seq(WriteOp) /\ posted[c] # <<>> /\ rest \in Seq(WriteOp)
  BY <1>0, HeadTailProperties DEF RunWrite
<1>2. \/ op.rem = <<>> /\ Sole(write_q[c], rest, rem)
      \/ rem # <<>> /\ write_q[c] = <<>> /\ op = Unspent(rem) /\ Done(rest)
  BY <1>1, SoleTail
<1>3. \/ op.rem = <<>> /\ posted' = [posted EXCEPT ![c] = rest] /\ UNCHANGED <<write_q, net>>
      \/ op.rem # <<>> /\ StartWrite(c, op, write_q[c], rest)
  BY DEF RunWrite
<1> HIDE DEF op, rest
<1>4. CASE op.rem = <<>>
  <2>1. Sole(write_q[c], rest, rem)
    BY <1>2, <1>4 DEF Unspent
  <2>2. posted'[c] = rest /\ write_q'[c] = write_q[c] /\ net'[c] = net[c]
    BY <1>0, <1>3, <1>4
  <2>3. SubSeq(rem, 1, 0) = <<>> /\ SubSeq(rem, 0 + 1, Len(rem)) = rem
    BY SubSeqEmpty, SubSeqFull
  <2>4. net[c] \o <<>> = net[c] /\ 0 \in 0 .. Len(rem)
    BY <1>0, ConcatEmptySeq, LenProperties
  <2> QED
    BY <2>1, <2>2, <2>3, <2>4
<1>5. CASE op.rem # <<>>
  <2>1. rem # <<>> /\ write_q[c] = <<>> /\ op = Unspent(rem) /\ Done(rest)
    BY <1>2, <1>5
  <2>2. StartWrite(c, Unspent(rem), <<>>, rest)
    BY <1>3, <1>5, <2>1
  <2> QED
    BY <1>1, <2>1, <2>2, StartWriteSole
<1> QED
  BY <1>4, <1>5

(* The kernel has room again.                                              *)
LEMMA WriteReadySole ==
    ASSUME TypeOK, NEW c \in Conn, NEW rem \in Seq(Cell), ~Broken(c),
           Sole(write_q[c], posted[c], rem), WriteReady(c)
    PROVE  \E k \in 0 .. Len(rem) :
              /\ net'[c] = net[c] \o SubSeq(rem, 1, k)
              /\ Sole(write_q'[c], posted'[c], SubSeq(rem, k + 1, Len(rem)))
<1>0. /\ write_q \in [Conn -> Seq(WriteOp)] /\ posted \in [Conn -> Seq(WriteOp)]
      /\ net \in [Conn -> Seq(Cell)]
  BY DEF TypeOK
<1>1. rem # <<>> /\ write_q[c] = <<Unspent(rem)>> /\ Done(posted[c])
  BY DEF WriteReady, Sole
<1>2. Head(write_q[c]) = Unspent(rem) /\ Tail(write_q[c]) = <<>>
  BY <1>1
<1>3. PICK r \in Performed(c, Unspent(rem)) :
         /\ net' = [net EXCEPT ![c] = @ \o r.cells]
         /\ \/ /\ write_q' = [write_q EXCEPT ![c] =
                                IF r.op.rem = <<>> THEN <<>> ELSE Append(<<>>, r.op)]
               /\ UNCHANGED posted
            \/ /\ write_q' = [write_q EXCEPT ![c] = <<>>]
               /\ posted' = [posted EXCEPT ![c] = Append(@, r.op)]
  BY <1>2 DEF WriteReady
<1>4. PICK k \in 0 .. Len(rem) : /\ r.cells = SubSeq(rem, 1, k)
                                 /\ r.op = Unspent(SubSeq(rem, k + 1, Len(rem)))
  BY PerformedCells
<1> DEFINE left == SubSeq(rem, k + 1, Len(rem))
<1>5. left \in Seq(Cell)
  BY SplitSeq
<1>6. r.op = Unspent(left) /\ r.op.rem = left
  BY <1>4 DEF Unspent
<1> HIDE DEF left
<1>7. net'[c] = net[c] \o SubSeq(rem, 1, k)
  BY <1>0, <1>3, <1>4
<1>8. CASE /\ write_q' = [write_q EXCEPT ![c] =
                           IF r.op.rem = <<>> THEN <<>> ELSE Append(<<>>, r.op)]
           /\ UNCHANGED posted
  <2>1. posted'[c] = posted[c]
    BY <1>8
  <2>2. write_q'[c] = IF left = <<>> THEN <<>> ELSE <<Unspent(left)>>
    BY <1>0, <1>6, <1>8
  <2>3. Sole(write_q'[c], posted'[c], left)
    BY <1>1, <2>1, <2>2 DEF Sole
  <2> QED
    BY <1>7, <2>3 DEF left
<1>9. CASE /\ write_q' = [write_q EXCEPT ![c] = <<>>]
           /\ posted' = [posted EXCEPT ![c] = Append(@, r.op)]
  <2>1. write_q'[c] = <<>> /\ posted'[c] = Append(posted[c], Unspent(left))
    BY <1>0, <1>6, <1>9
  <2>2. Sole(<<>>, Append(posted[c], Unspent(left)), left)
    BY <1>0, <1>1, <1>5, SoleAppend
  <2> QED
    BY <1>7, <2>1, <2>2 DEF left
<1> QED
  BY <1>3, <1>8, <1>9

(* Nothing is sent on a broken link.                                       *)
LEMMA BrokenSilent ==
    ASSUME TypeOK, NEW c \in Conn, Broken(c)
    PROVE  /\ \A op, q, p : StartWrite(c, op, q, p) => net'[c] = net[c]
           /\ RunWrite(c) \/ WriteReady(c) => net'[c] = net[c]
<1>1. \A op : \A r \in Performed(c, op) : r.cells = <<>>
  BY DEF Performed
<1>2. net \in [Conn -> Seq(Cell)] /\ net[c] \o <<>> = net[c]
  BY ConcatEmptySeq DEF TypeOK
<1>3. \A op : (\E r \in Performed(c, op) : net' = [net EXCEPT ![c] = @ \o r.cells])
                => net'[c] = net[c]
  BY <1>1, <1>2
<1>4. ASSUME NEW op, NEW q, NEW p, StartWrite(c, op, q, p) PROVE net'[c] = net[c]
  BY <1>3, <1>4 DEF StartWrite
<1>5. ASSUME RunWrite(c) PROVE net'[c] = net[c]
  BY <1>4, <1>5 DEF RunWrite
<1>6. ASSUME WriteReady(c) PROVE net'[c] = net[c]
  BY <1>3, <1>6 DEF WriteReady
<1> QED
  BY <1>4, <1>5, <1>6

LEMMA ConsumedType ==
    ASSUME TypeOK, NEW c \in Conn
    PROVE  Consumed(c) \in Nat
<1>1. Len(dispatched[c]) \in Nat /\ Len(recv_buffer[c]) \in Nat
  BY LenProperties DEF TypeOK
<1>2. \A m, k \in Nat : 1 + 3 * m + 0 \in Nat /\ 1 + 3 * m + (1 + k) \in Nat
  OBVIOUS
<1> QED
  BY <1>1, <1>2, FrameIsThree DEF Consumed, HeaderLen
-----------------------------------------------------------------------------
(***************************************************************************)
(* What leaves a direction as it is, and what moves it.                    *)
(***************************************************************************)

LEMMA FlowKept ==
    ASSUME NEW c \in Conn, FlowOf(c),
           overlapped'[c] = overlapped[c], sent'[c] = sent[c], net'[c] = net[c],
           sock[c] # "new" \/ sock'[c] = "new",
           Reading(Peer(c))' => Reading(Peer(c)) /\ Consumed(Peer(c))' = Consumed(Peer(c)),
           ~Broken(c)' => /\ ~Broken(c) /\ write_q'[c] = write_q[c]
                          /\ posted'[c] = posted[c] /\ out_data'[c] = out_data[c]
    PROVE  FlowOf(c)'
<1> SUFFICES ASSUME ~overlapped[c], sock[c] # "new", Reading(Peer(c))'
             PROVE  /\ Front(sent[c], Consumed(Peer(c)), net[c])
                    /\ ~Broken(c)' => \E rem \in Seq(Cell) :
                          /\ Sole(write_q'[c], posted'[c], rem)
                          /\ Line(sent[c], Consumed(Peer(c)), net[c], rem, out_data'[c])
  BY DEF FlowOf
<1> QED
  BY DEF FlowOf

LEMMA ReaderKept ==
    ASSUME NEW c \in Conn, ReaderOf(c),
           overlapped'[Peer(c)] = overlapped[Peer(c)], dispatched'[c] = dispatched[c],
           sent'[Peer(c)] = sent[Peer(c)],
           \/ rd'[c] = "none"
           \/ /\ rd'[c] = rd[c] /\ failed'[c] = failed[c] /\ nextLen'[c] = nextLen[c]
              /\ recv_header'[c] = recv_header[c] /\ recv_buffer'[c] = recv_buffer[c]
    PROVE  ReaderOf(c)'
  BY DEF ReaderOf

(* The peer has sent one more packet.                                      *)
LEMMA ReaderGrows ==
    ASSUME TypeOK, NEW c \in Conn, ReaderOf(c), NEW p \in Packet,
           overlapped'[Peer(c)] = overlapped[Peer(c)],
           sent'[Peer(c)] = Append(sent[Peer(c)], p),
           UNCHANGED <<dispatched[c], rd[c], failed[c], nextLen[c], recv_header[c],
                       recv_buffer[c]>>
    PROVE  ReaderOf(c)'
<1> DEFINE s == sent[Peer(c)]
           m == Len(dispatched[c])
<1>1. s \in Seq(Packet) /\ m \in Nat /\ Len(s) \in Nat
  BY PeerType, LenProperties DEF TypeOK
<1>2. Len(Append(s, p)) = Len(s) + 1 /\ \A i \in 1 .. Len(s) : Append(s, p)[i] = s[i]
  BY <1>1, AppendProperties
<1> HIDE DEF s
<1>3. IsPrefixOf(dispatched[c], s) => IsPrefixOf(dispatched[c], Append(s, p))
  BY <1>1, <1>2 DEF IsPrefixOf
<1>4. m < Len(s) => Append(s, p)[m + 1] = s[m + 1] /\ m < Len(Append(s, p))
  BY <1>1, <1>2
<1> QED
  BY <1>3, <1>4 DEF ReaderOf, s

(* A send of c.                                                            *)
LEMMA FlowSent ==
    ASSUME TypeOK, NEW c \in Conn, FlowOf(c), RunWrite(c) \/ WriteReady(c)
    PROVE  FlowOf(c)'
<1>1. UNCHANGED <<sock, out_data, down, rd, recv_buffer, sent, dispatched, overlapped>>
  BY DEF RunWrite, WriteReady, recvVars, history
<1> DEFINE n == Consumed(Peer(c))
<1>2. Peer(c) \in Conn /\ n \in Nat
  BY PeerType, ConsumedType
<1>3. sent[c] \in Seq(Packet) /\ net[c] \in Seq(Cell) /\ out_data[c] \in Seq(Cell)
  BY DEF TypeOK
<1>4. (Broken(c))' = Broken(c) /\ Consumed(Peer(c))' = n /\ (Reading(Peer(c)))' = Reading(Peer(c))
  BY <1>1 DEF Broken, Consumed, Reading
<1>5. CASE Broken(c)
  <2>1. net'[c] = net[c]
    BY <1>5, BrokenSilent
  <2> QED
    BY <1>1, <1>4, <1>5, <2>1, FlowKept
<1>6. CASE ~Broken(c)
  <2> HIDE DEF n
  <2> SUFFICES ASSUME ~overlapped[c], sock[c] # "new", Reading(Peer(c))
               PROVE  /\ Front(sent[c], n, net'[c])
                      /\ \E rem \in Seq(Cell) : /\ Sole(write_q'[c], posted'[c], rem)
                                                /\ Line(sent[c], n, net'[c], rem, out_data[c])
    BY <1>1, <1>4 DEF FlowOf
  <2>1. PICK rem \in Seq(Cell) : /\ Sole(write_q[c], posted[c], rem)
                                 /\ Line(sent[c], n, net[c], rem, out_data[c])
    BY <1>6 DEF FlowOf, n
  <2>2. PICK k \in 0 .. Len(rem) :
              /\ net'[c] = net[c] \o SubSeq(rem, 1, k)
              /\ Sole(write_q'[c], posted'[c], SubSeq(rem, k + 1, Len(rem)))
    BY <1>6, <2>1, RunWriteSole, WriteReadySole
  <2>3. SubSeq(rem, k + 1, Len(rem)) \in Seq(Cell) /\ SubSeq(rem, 1, k) \in Seq(Cell)
    BY SplitSeq
  <2>4. Line(sent[c], n, net'[c], SubSeq(rem, k + 1, Len(rem)), out_data[c])
    BY <1>2, <1>3, <2>1, <2>2, LineSent
  <2>5. net'[c] \in Seq(Cell)
    BY <1>3, <2>2, <2>3, ConcatProperties
  <2>6. Front(sent[c], n, net'[c])
    BY <1>2, <1>3, <2>3, <2>4, <2>5, LineFront
  <2> QED
    BY <2>2, <2>3, <2>4, <2>6
<1> QED
  BY <1>5, <1>6

(* The reader c takes k cells.                                             *)
LEMMA FlowTaken ==
    ASSUME TypeOK, NEW c \in Conn, FlowOf(Peer(c)), NEW k \in 1 .. Len(Incoming(c)), Take(c, k),
           UNCHANGED <<down, sent[Peer(c)], out_data[Peer(c)], write_q[Peer(c)],
                       posted[Peer(c)], overlapped[Peer(c)], sock[Peer(c)]>>,
           sock'[c] \in {sock[c], "closed"},
           ~overlapped[Peer(c)] /\ (Reading(c))' =>
              Reading(c) /\ Consumed(c)' = Consumed(c) + k
    PROVE  FlowOf(Peer(c))'
<1> DEFINE d == Peer(c)
           n == Consumed(c)
<1>1. d \in Conn /\ Peer(d) = c
  BY DEF Peer, Conn, Client, Server
<1>2. n \in Nat
  BY ConsumedType
<1>3. sent[d] \in Seq(Packet) /\ net[d] \in Seq(Cell) /\ out_data[d] \in Seq(Cell)
  BY <1>1 DEF TypeOK
<1>4. k \in 0 .. Len(net[d]) /\ net'[d] = SubSeq(net[d], k + 1, Len(net[d]))
  <2>1. Len(net[d]) \in Nat
    BY <1>3, LenProperties
  <2> QED
    BY <1>1, <2>1 DEF Incoming, Take, TypeOK
<1>5. (Broken(d))' = FALSE => Broken(d) = FALSE
  BY <1>1 DEF Broken
<1> HIDE DEF d, n
<1> SUFFICES ASSUME ~overlapped[d], sock[d] # "new", (Reading(c))'
             PROVE  /\ Front(sent[d], n + k, net'[d])
                    /\ ~Broken(d)' => \E rem \in Seq(Cell) :
                          /\ Sole(write_q[d], posted[d], rem)
                          /\ Line(sent[d], n + k, net'[d], rem, out_data[d])
  BY <1>1 DEF FlowOf, d, n
<1>6. Reading(c)
  BY DEF d
<1>7. Front(sent[d], n + k, net'[d])
  <2>1. Front(sent[d], n, net[d])
    BY <1>1, <1>6 DEF FlowOf, d, n
  <2> QED
    BY <1>2, <1>3, <1>4, <2>1, FrontTaken
<1>8. ASSUME ~Broken(d)' PROVE \E rem \in Seq(Cell) :
                          /\ Sole(write_q[d], posted[d], rem)
                          /\ Line(sent[d], n + k, net'[d], rem, out_data[d])
  <2>1. PICK rem \in Seq(Cell) : /\ Sole(write_q[d], posted[d], rem)
                                 /\ Line(sent[d], n, net[d], rem, out_data[d])
    BY <1>1, <1>5, <1>6, <1>8 DEF FlowOf, d, n
  <2>2. Line(sent[d], n + k, net'[d], rem, out_data[d])
    BY <1>2, <1>3, <1>4, <2>1, LineTaken
  <2> QED
    BY <2>1, <2>2
<1> QED
  BY <1>7, <1>8

(* c appends a packet to out_data.                                         *)
LEMMA FlowGrows ==
    ASSUME TypeOK, NEW c \in Conn, FlowOf(c), NEW p \in Packet,
           sock[c] # "new",
           UNCHANGED <<down, sock, net[c], write_q[c], posted[c], overlapped[c]>>,
           sent'[c] = Append(sent[c], p), out_data'[c] = out_data[c] \o Encode(p),
           (Reading(Peer(c)))' = Reading(Peer(c)), Consumed(Peer(c))' = Consumed(Peer(c))
    PROVE  FlowOf(c)'
<1> DEFINE n == Consumed(Peer(c))
<1>1. Peer(c) \in Conn /\ n \in Nat
  BY PeerType, ConsumedType
<1>2. sent[c] \in Seq(Packet) /\ net[c] \in Seq(Cell) /\ out_data[c] \in Seq(Cell)
  BY DEF TypeOK
<1>3. (Broken(c))' = Broken(c)
  BY DEF Broken
<1> HIDE DEF n
<1> SUFFICES ASSUME ~overlapped[c], Reading(Peer(c))
             PROVE  /\ Front(Append(sent[c], p), n, net[c])
                    /\ ~Broken(c) => \E rem \in Seq(Cell) :
                          /\ Sole(write_q[c], posted[c], rem)
                          /\ Line(Append(sent[c], p), n, net[c], rem, out_data[c] \o Encode(p))
  BY <1>3 DEF FlowOf, n
<1>4. Front(Append(sent[c], p), n, net[c])
  BY <1>1, <1>2, FrontGrows DEF FlowOf, n
<1>5. ASSUME ~Broken(c) PROVE \E rem \in Seq(Cell) :
                          /\ Sole(write_q[c], posted[c], rem)
                          /\ Line(Append(sent[c], p), n, net[c], rem, out_data[c] \o Encode(p))
  <2>1. PICK rem \in Seq(Cell) : /\ Sole(write_q[c], posted[c], rem)
                                 /\ Line(sent[c], n, net[c], rem, out_data[c])
    BY <1>5 DEF FlowOf, n
  <2>2. Line(Append(sent[c], p), n, net[c], rem, out_data[c] \o Encode(p))
    BY <1>1, <1>2, <2>1, LineGrows
  <2> QED
    BY <2>1, <2>2
<1> QED
  BY <1>4, <1>5

(* The two ends are all there is.                                          *)
LEMMA TwoEnds ==
    ASSUME NEW c \in Conn
    PROVE  /\ Conn = {c, Peer(c)} /\ Peer(c) \in Conn /\ Peer(c) # c /\ Peer(Peer(c)) = c
  BY DEF Conn, Peer, Client, Server

(* Steps of a connection that was started leave the other's beginnings     *)
(* alone.                                                                  *)
LEMMA FreshStep ==
    ASSUME Fresh, NEW c \in Conn, sock[c] # "new", sock'[c] # "new", UNCHANGED connected,
           UNCHANGED <<sock[Peer(c)], rd[Peer(c)], recv_buffer[Peer(c)], out_data[Peer(c)],
                       write_q[Peer(c)], posted[Peer(c)], sent[Peer(c)], dispatched[Peer(c)],
                       ready[Peer(c)], failed[Peer(c)], stopped[Peer(c)]>>,
           sock[Peer(c)] = "new" => net'[Peer(c)] = <<>> /\ rd'[c] \in {"none", "handshake"}
    PROVE  Fresh'
<1> DEFINE d == Peer(c)
<1>1. Conn = {c, d} /\ d \in Conn /\ Peer(d) = c
  BY TwoEnds
<1> HIDE DEF d
<1>2. sock[d] = "new" => net'[d] = <<>> /\ rd'[c] \in {"none", "handshake"}
  BY DEF d
<1>3. UNCHANGED <<sock[d], rd[d], recv_buffer[d], out_data[d], write_q[d], posted[d],
                  sent[d], dispatched[d], ready[d], failed[d], stopped[d]>>
  BY DEF d
<1> QED
  BY <1>1, <1>2, <1>3 DEF Fresh
-----------------------------------------------------------------------------
(***************************************************************************)
(* Receiving.                                                              *)
(***************************************************************************)
Ends == Fresh /\ Flow /\ Reader

(* What arrives, if the sender's writes never overlapped, is the stream    *)
(* from the reader's position on.                                          *)
LEMMA Arriving ==
    ASSUME TypeOK, Ends, NEW c \in Conn, CanReceive(c), rd[c] # "none"
    PROVE  /\ Incoming(c) \in Seq(Cell) /\ 1 \in 1 .. Len(Incoming(c))
           /\ sock[c] = "open" /\ sock[Peer(c)] # "new" /\ sent[Peer(c)] \in Seq(Packet)
           /\ ~overlapped[Peer(c)] => Front(sent[Peer(c)], Consumed(c), Incoming(c))
<1>1. Peer(c) \in Conn /\ Peer(Peer(c)) = c
  BY TwoEnds
<1>2. /\ Incoming(c) \in Seq(Cell) /\ Incoming(c) # <<>> /\ sent[Peer(c)] \in Seq(Packet)
      /\ Incoming(c) = net[Peer(c)]
  BY <1>1 DEF CanReceive, Incoming, TypeOK
<1>3. 1 \in 1 .. Len(Incoming(c))
  BY <1>2, EmptySeq
<1>4. sock[Peer(c)] # "new"
  BY <1>1, <1>2 DEF Ends, Fresh
<1>5. FlowOf(Peer(c)) /\ sock[c] = "open"
  BY <1>1 DEF Ends, Flow, CanReceive
<1>6. ~overlapped[Peer(c)] => Front(sent[Peer(c)], Consumed(c), Incoming(c))
  BY <1>1, <1>2, <1>4, <1>5 DEF FlowOf, Reading
<1> QED
  BY <1>2, <1>3, <1>4, <1>5, <1>6

(* The i-th cell that arrives.                                             *)
LEMMA CellArrives ==
    ASSUME NEW s \in Seq(Packet), NEW n \in Nat, NEW a \in Seq(Cell), Front(s, n, a),
           NEW i \in 1 .. Len(a)
    PROVE  a[i] = StreamCell(s, n + i) /\ n + i <= 1 + 3 * Len(s)
<1>1. Len(a) \in Nat /\ Len(s) \in Nat /\ n + Len(a) <= 1 + 3 * Len(s)
  BY LenProperties, FrameIsThree DEF Front
<1>2. n + i <= 1 + 3 * Len(s)
  BY <1>1
<1> QED
  BY <1>2 DEF Front, Carries

(* A reader that expects a header gets the next packet's, and it is good.  *)
LEMMA HeaderIs ==
    ASSUME TypeOK, Ends, NEW c \in Conn, CanReceive(c), rd[c] = "header",
           ~overlapped[Peer(c)],
           NEW h \in HeadersRead(Head(Incoming(c)), failed[c])
    PROVE  /\ Len(dispatched[c]) < Len(sent[Peer(c)])
           /\ h.opcode = sent[Peer(c)][Len(dispatched[c]) + 1].opcode
           /\ headerIsGood(h) /\ Remaining(h) = BodyLen
<1> DEFINE s == sent[Peer(c)]
           m == Len(dispatched[c])
           a == Incoming(c)
<1>1. s \in Seq(Packet) /\ a \in Seq(Cell) /\ 1 \in 1 .. Len(a) /\ m \in Nat /\ Len(s) \in Nat
  BY Arriving, LenProperties DEF TypeOK
<1>2. Front(s, 1 + 3 * m, a)
  <2>1. Consumed(c) = 1 + 3 * m + 0
    BY FrameIsThree DEF Consumed
  <2>2. 1 + 3 * m + 0 = 1 + 3 * m
    BY <1>1
  <2> QED
    BY <2>1, <2>2, Arriving
<1>3. ~failed[c]
  BY DEF Ends, Reader, ReaderOf
<1> HIDE DEF s, m, a
<1>4. a[1] = StreamCell(s, 1 + 3 * m + 1) /\ 1 + 3 * m + 1 <= 1 + 3 * Len(s)
  <2>1. 1 + 3 * m \in Nat
    BY <1>1
  <2> QED
    BY <1>1, <1>2, <2>1, CellArrives
<1>5. m < Len(s) /\ m + 1 \in 1 .. Len(s) /\ 1 + 3 * m + 1 = 3 * (m + 1) - 1
  BY <1>1, <1>4
<1>6. a[1] = [kind |-> "header", pkt |-> s[m + 1]]
  <2>1. m + 1 \in Nat \ {0}
    BY <1>1
  <2>2. StreamCell(s, 3 * (m + 1) - 1) = Encode(s[m + 1])[1]
    BY <2>1, CellAt
  <2> QED
    BY <1>4, <1>5, <2>2 DEF Encode
<1>7. s[m + 1] \in Packet
  BY <1>1, <1>5, ElementOfSeq
<1>8. h = [packet_size |-> HeaderLen + BodyLen, service_tag |-> Char,
           opcode |-> s[m + 1].opcode]
  <2>1. Head(a) = a[1]
    BY <1>1
  <2> QED
    BY <1>3, <1>6, <2>1 DEF HeadersRead, a
<1>9. headerIsGood(h)
  BY <1>7, <1>8 DEF headerIsGood, CheckOpcode, Packet, Request, Response
<1>10. Remaining(h) = BodyLen
  <2>1. h.packet_size - HeaderLen = 2
    BY <1>8 DEF HeaderLen, BodyLen
  <2>2. SizeMod \in Nat /\ SizeMod > 3
    BY PacketsAssumption DEF HeaderLen, BodyLen
  <2>3. 2 % SizeMod = 2
    BY <2>2
  <2> QED
    BY <2>1, <2>3 DEF Remaining, BodyLen
<1> QED
  BY <1>5, <1>8, <1>9, <1>10 DEF s, m

(* A reader in a body gets the length and the text of that packet.         *)
LEMMA BodyIs ==
    ASSUME TypeOK, Ends, NEW c \in Conn, CanReceive(c), rd[c] = "msg", ~overlapped[Peer(c)]
    PROVE  LET next == sent[Peer(c)][Len(dispatched[c]) + 1]
               a == Incoming(c)
           IN  /\ next \in Packet /\ Len(dispatched[c]) < Len(sent[Peer(c)])
               /\ nextLen[c] = BodyLen /\ ~failed[c] /\ recv_header[c].opcode = next.opcode
               /\ \/ /\ recv_buffer[c] = <<>> /\ a[1] = Encode(next)[2]
                     /\ 2 \in 1 .. Len(a) => a[2] = Encode(next)[3]
                  \/ recv_buffer[c] = <<Encode(next)[2]>> /\ a[1] = Encode(next)[3]
<1> DEFINE s == sent[Peer(c)]
           m == Len(dispatched[c])
           a == Incoming(c)
           next == s[m + 1]
<1>1. s \in Seq(Packet) /\ a \in Seq(Cell) /\ 1 \in 1 .. Len(a) /\ m \in Nat /\ Len(s) \in Nat
  BY Arriving, LenProperties DEF TypeOK
<1>2. /\ ~failed[c] /\ m < Len(s) /\ nextLen[c] = BodyLen
      /\ recv_header[c].opcode = next.opcode
      /\ recv_buffer[c] \in {<<>>, <<Encode(next)[2]>>}
  BY DEF Ends, Reader, ReaderOf
<1>3. Front(s, Consumed(c), a)
  BY Arriving
<1>4. Consumed(c) = 1 + 3 * m + (1 + Len(recv_buffer[c]))
  BY FrameIsThree DEF Consumed, HeaderLen
<1> HIDE DEF s, m, a
<1>5. next \in Packet
  <2>1. m + 1 \in 1 .. Len(s)
    BY <1>1, <1>2
  <2> QED
    BY <1>1, <2>1, ElementOfSeq
<1>6. StreamCell(s, 3 * (m + 1)) = Encode(next)[2] /\ StreamCell(s, 3 * (m + 1) + 1) = Encode(next)[3]
  <2>1. m + 1 \in Nat \ {0}
    BY <1>1
  <2> QED
    BY <2>1, CellAt
<1>7. CASE recv_buffer[c] = <<>>
  <2>1. Consumed(c) = 3 * m + 2 /\ 3 * m + 2 \in Nat
    <3>1. Consumed(c) = 1 + 3 * m + (1 + 0)
      BY <1>4, <1>7
    <3> QED
      BY <1>1, <3>1
  <2>2. 3 * m + 2 + 1 = 3 * (m + 1) /\ 3 * m + 2 + 2 = 3 * (m + 1) + 1
    BY <1>1
  <2>3. \A i \in 1 .. Len(a) : a[i] = StreamCell(s, 3 * m + 2 + i)
    BY <1>1, <1>3, <2>1, CellArrives
  <2>4. a[1] = Encode(next)[2] /\ (2 \in 1 .. Len(a) => a[2] = Encode(next)[3])
    BY <1>1, <1>6, <2>2, <2>3
  <2> QED
    BY <1>2, <1>5, <1>7, <2>4 DEF s, m, a
<1>8. CASE recv_buffer[c] = <<Encode(next)[2]>>
  <2>1. Consumed(c) = 3 * m + 3 /\ 3 * m + 3 \in Nat
    <3>1. Len(<<Encode(next)[2]>>) = 1
      OBVIOUS
    <3>2. Consumed(c) = 1 + 3 * m + (1 + 1)
      BY <1>4, <1>8, <3>1
    <3> QED
      BY <1>1, <3>2
  <2>2. 3 * m + 3 + 1 = 3 * (m + 1) + 1
    BY <1>1
  <2>3. \A i \in 1 .. Len(a) : a[i] = StreamCell(s, 3 * m + 3 + i)
    BY <1>1, <1>3, <2>1, CellArrives
  <2>4. a[1] = Encode(next)[3]
    BY <1>1, <1>6, <2>2, <2>3
  <2> QED
    BY <1>2, <1>5, <1>8, <2>4 DEF s, m, a
<1> QED
  BY <1>2, <1>7, <1>8
-----------------------------------------------------------------------------
(***************************************************************************)
(* The inductive step, one lemma per action.                               *)
(***************************************************************************)

LEMMA AtBothEnds ==
    ASSUME NEW c \in Conn, Fresh', (FlowOf(c))', (FlowOf(Peer(c)))', (ReaderOf(c))',
           (ReaderOf(Peer(c)))'
    PROVE  Ends'
  BY TwoEnds DEF Ends, Flow, Reader

LEMMA EndsOf ==
    ASSUME Ends, NEW c \in Conn
    PROVE  /\ FlowOf(c) /\ FlowOf(Peer(c)) /\ ReaderOf(c) /\ ReaderOf(Peer(c)) /\ Fresh
           /\ Peer(c) \in Conn /\ Peer(c) # c /\ Peer(Peer(c)) = c
  BY TwoEnds DEF Ends, Flow, Reader

LEMMA TakeOther ==
    ASSUME TypeOK, NEW c \in Conn, NEW k, Take(c, k)
    PROVE  net'[c] = net[c]
  BY TwoEnds DEF Take, TypeOK

LEMMA StartEnds ==
    ASSUME IInv, Ends, NEW c \in Conn, Start(c)
    PROVE  Ends'
<1> DEFINE d == Peer(c)
<1>0. TypeOK /\ FlowOf(c) /\ FlowOf(d) /\ ReaderOf(c) /\ ReaderOf(d) /\ Fresh
      /\ d \in Conn /\ d # c /\ Peer(d) = c
  BY EndsOf DEF IInv
<1>1. /\ sock[c] = "new" /\ sock' = [sock EXCEPT ![c] = "open"]
      /\ connected' = [connected EXCEPT ![c] = TRUE]
      /\ out_data' = [out_data EXCEPT ![c] = Append(@, Handshake)]
      /\ rd' = [rd EXCEPT ![c] = "handshake"]
      /\ UNCHANGED <<ready, stopped, write_q, posted, net, down, recv_buffer,
                     nextLen, recv_header, failed, pktcount, sent, dispatched, overlapped>>
  BY DEF Start, history
<1>2. /\ rd[c] = "none" /\ recv_buffer[c] = <<>> /\ out_data[c] = <<>> /\ write_q[c] = <<>>
      /\ posted[c] = <<>> /\ net[c] = <<>> /\ sent[c] = <<>> /\ dispatched[c] = <<>>
      /\ ~failed[c] /\ rd[d] \in {"none", "handshake"}
  BY <1>0, <1>1 DEF Fresh
<1>3. /\ rd'[d] = rd[d] /\ sock'[d] = sock[d] /\ sock'[c] = "open" /\ rd'[c] = "handshake"
      /\ out_data'[c] = <<Handshake>> /\ out_data'[d] = out_data[d]
      /\ connected'[c] = TRUE /\ connected'[d] = connected[d]
  BY <1>0, <1>1, <1>2 DEF TypeOK
<1> HIDE DEF d
<1>4. Fresh'
  <2>1. Conn = {c, d}
    BY TwoEnds DEF d
  <2>2. connected'[c] = (sock'[c] # "new")
    BY <1>3
  <2>3. connected'[d] = (sock'[d] # "new")
    BY <1>0, <1>3 DEF Fresh
  <2>4. sock'[d] = "new" =>
           /\ rd'[d] = "none" /\ recv_buffer'[d] = <<>> /\ out_data'[d] = <<>>
           /\ write_q'[d] = <<>> /\ posted'[d] = <<>> /\ net'[d] = <<>> /\ sent'[d] = <<>>
           /\ dispatched'[d] = <<>> /\ ~ready'[d] /\ ~failed'[d] /\ ~stopped'[d]
           /\ rd'[c] \in {"none", "handshake"}
    BY <1>0, <1>1, <1>3 DEF Fresh
  <2> QED
    BY <1>0, <1>3, <2>1, <2>2, <2>3, <2>4 DEF Fresh
<1>5. (FlowOf(c))'
  <2>1. Consumed(d)' = 0
    BY <1>2, <1>3 DEF Consumed
  <2>2. Line(<<>>, 0, <<>>, <<>>, <<Handshake>>)
    BY FrameIsThree DEF Line, Carries, StreamCell
  <2>3. Front(<<>>, 0, <<>>)
    BY FrameIsThree DEF Front, Carries
  <2>4. Sole(<<>>, <<>>, <<>>) /\ <<>> \in Seq(Cell)
    BY EmptySeq DEF Sole, Done
  <2> QED
    BY <1>1, <1>2, <1>3, <2>1, <2>2, <2>3, <2>4 DEF FlowOf, d
<1>6. (FlowOf(d))'
  <2>1. Consumed(c)' = Consumed(c)
    BY <1>2, <1>3 DEF Consumed
  <2>2. (Broken(d))' = FALSE => Broken(d) = FALSE
    BY <1>0, <1>1, <1>3 DEF Broken
  <2>3. Reading(c)
    BY <1>1 DEF Reading
  <2> QED
    BY <1>0, <1>1, <1>3, <2>1, <2>2, <2>3, FlowKept
<1>7. (ReaderOf(c))'
  BY <1>0, <1>1, <1>2, <1>3 DEF ReaderOf, d
<1>8. (ReaderOf(d))'
  BY <1>0, <1>1, <1>3, ReaderKept
<1> QED
  BY <1>4, <1>5, <1>6, <1>7, <1>8, AtBothEnds DEF d

LEMMA SendEnds ==
    ASSUME IInv, Ends, NEW c \in Conn, RunWrite(c) \/ WriteReady(c)
    PROVE  Ends'
<1> DEFINE d == Peer(c)
<1>0. TypeOK /\ FlowOf(c) /\ FlowOf(d) /\ ReaderOf(c) /\ ReaderOf(d) /\ Fresh
      /\ d \in Conn /\ d # c /\ Peer(d) = c
  BY EndsOf DEF IInv
<1>1. UNCHANGED <<stopped, connected, ready, sock, out_data, down, rd, recv_buffer, nextLen,
                  recv_header, failed, pktcount, sent, dispatched, overlapped>>
  BY DEF RunWrite, WriteReady, recvVars, history
<1>2. write_q'[d] = write_q[d] /\ posted'[d] = posted[d] /\ net'[d] = net[d]
  BY <1>0, SMTT(30) DEF RunWrite, WriteReady, StartWrite, TypeOK
<1>3. sock[c] # "new"
  BY <1>0 DEF Fresh, RunWrite, WriteReady
<1> HIDE DEF d
<1>4. Fresh'
  BY <1>0, <1>1, <1>2, <1>3, FreshStep DEF Fresh, d
<1>5. (FlowOf(c))'
  BY <1>0, FlowSent
<1>6. (FlowOf(d))'
  <2>1. Consumed(c)' = Consumed(c) /\ (Broken(d))' = Broken(d) /\ (Reading(c))' = Reading(c)
    BY <1>1 DEF Consumed, Broken, Reading
  <2> QED
    BY <1>0, <1>1, <1>2, <2>1, FlowKept
<1>7. (ReaderOf(c))' /\ (ReaderOf(d))'
  BY <1>0, <1>1, ReaderKept
<1> QED
  BY <1>4, <1>5, <1>6, <1>7, AtBothEnds DEF d

LEMMA ReadHandshakeEnds ==
    ASSUME IInv, Ends, NEW c \in Conn, ReadHandshake(c)
    PROVE  Ends'
<1> DEFINE d == Peer(c)
<1>0. TypeOK /\ FlowOf(c) /\ FlowOf(d) /\ ReaderOf(c) /\ ReaderOf(d) /\ Fresh
      /\ d \in Conn /\ d # c /\ Peer(d) = c
  BY EndsOf DEF IInv
<1>1. /\ Take(c, 1) /\ rd[c] = "handshake"
      /\ UNCHANGED <<stopped, connected, sock, out_data, write_q, posted, down, recv_buffer,
                     nextLen, recv_header, failed, pktcount, sent, dispatched, overlapped>>
      /\ ready' = [ready EXCEPT ![c] = TRUE]
  BY DEF ReadHandshake, sendVars, history
<1>2. rd' = [rd EXCEPT ![c] = "header"]
  <2>1. nextLen[c] = 0
    BY <1>1 DEF IInv, FreshLen
  <2> QED
    BY <2>1 DEF ReadHandshake, NextRead
<1>3. rd'[c] = "header" /\ rd'[d] = rd[d] /\ net'[c] = net[c] /\ ready'[d] = ready[d]
  BY <1>0, <1>1, <1>2, TakeOther DEF TypeOK
<1>4. 1 \in 1 .. Len(Incoming(c)) /\ sock[c] = "open" /\ sock[d] # "new"
  BY <1>0, <1>1, Arriving DEF ReadHandshake
<1> HIDE DEF d
<1>5. Fresh'
  BY <1>0, <1>1, <1>3, <1>4, FreshStep DEF d
<1>6. (FlowOf(c))'
  <2>1. Consumed(d)' = Consumed(d) /\ (Broken(c))' = Broken(c) /\ (Reading(d))' = Reading(d)
    BY <1>1, <1>3 DEF Consumed, Broken, Reading
  <2> QED
    BY <1>0, <1>1, <1>3, <1>4, <2>1, FlowKept DEF d
<1>7. (FlowOf(d))'
  <2>1. ~overlapped[d] => Reading(c) /\ Consumed(c)' = Consumed(c) + 1
    <3>1. ~overlapped[d] => Len(dispatched[c]) = 0
      BY <1>0, <1>1, EmptySeq DEF ReaderOf, d
    <3> QED
      BY <1>1, <1>3, <3>1, FrameIsThree DEF Consumed, Reading
  <2> QED
    BY <1>0, <1>1, <1>4, <2>1, FlowTaken DEF d
<1>8. (ReaderOf(c))'
  BY <1>0, <1>1, <1>3 DEF ReaderOf, d
<1>9. (ReaderOf(d))'
  BY <1>0, <1>1, <1>3, ReaderKept
<1> QED
  BY <1>5, <1>6, <1>7, <1>8, <1>9, AtBothEnds DEF d

LEMMA ReadHeaderEnds ==
    ASSUME IInv, Ends, NEW c \in Conn, ReadHeader(c)
    PROVE  Ends'
<1> DEFINE d == Peer(c)
<1>0. TypeOK /\ FlowOf(c) /\ FlowOf(d) /\ ReaderOf(c) /\ ReaderOf(d) /\ Fresh
      /\ d \in Conn /\ d # c /\ Peer(d) = c
  BY EndsOf DEF IInv
<1>1. PICK h \in HeadersRead(Head(Incoming(c)), failed[c]) :
         /\ \/ headerIsGood(h) /\ UNCHANGED <<sock, write_q, posted>>
            \/ ~headerIsGood(h) /\ Close(c)
         /\ recv_header' = [recv_header EXCEPT ![c] = h]
         /\ nextLen' = [nextLen EXCEPT ![c] = Remaining(h)]
         /\ rd' = [rd EXCEPT ![c] = NextRead(Remaining(h))]
  BY DEF ReadHeader
<1>2. /\ Take(c, 1) /\ rd[c] = "header" /\ CanReceive(c)
      /\ UNCHANGED <<stopped, connected, ready, out_data, down, recv_buffer, failed, pktcount,
                     sent, dispatched, overlapped>>
  BY DEF ReadHeader, history
<1>3. 1 \in 1 .. Len(Incoming(c)) /\ sock[c] = "open" /\ sock[d] # "new"
  BY <1>0, <1>2, Arriving
<1>4. /\ UNCHANGED <<sock[d], rd[d], nextLen[d], recv_header[d], write_q[d], posted[d], net[c]>>
      /\ recv_header'[c] = h /\ nextLen'[c] = Remaining(h) /\ rd'[c] = NextRead(Remaining(h))
      /\ sock'[c] \in {sock[c], "closed"}
      /\ sock'[c] # "closed" => UNCHANGED <<sock, write_q, posted>>
  BY <1>0, <1>1, <1>2, TakeOther, SMTT(30) DEF Close, TypeOK
<1>5. ~overlapped[d] => /\ Len(dispatched[c]) < Len(sent[d]) /\ Remaining(h) = BodyLen
                        /\ h.opcode = sent[d][Len(dispatched[c]) + 1].opcode
                        /\ rd'[c] = "msg"
  BY <1>0, <1>2, <1>4, HeaderIs DEF NextRead, BodyLen
<1>6. ~overlapped[d] => recv_buffer[c] = <<>> /\ ~failed[c] /\ IsPrefixOf(dispatched[c], sent[d])
  BY <1>0, <1>2 DEF ReaderOf
<1> HIDE DEF d
<1>7. Fresh'
  BY <1>0, <1>2, <1>3, <1>4, FreshStep DEF d
<1>8. (FlowOf(c))'
  <2>1. Consumed(d)' = Consumed(d) /\ (Reading(d))' = Reading(d)
    BY <1>2, <1>4 DEF Consumed, Reading
  <2>2. (Broken(c))' = FALSE => Broken(c) = FALSE /\ UNCHANGED <<write_q, posted>>
    BY <1>0, <1>2, <1>4 DEF Broken, d
  <2> QED
    BY <1>0, <1>2, <1>3, <1>4, <2>1, <2>2, FlowKept DEF d
<1>9. (FlowOf(d))'
  <2>1. ~overlapped[d] => Reading(c) /\ Consumed(c)' = Consumed(c) + 1
    <3>1. Len(<<>>) = 0 /\ Len(dispatched[c]) \in Nat
      BY <1>0, LenProperties DEF TypeOK
    <3>2. \A x \in Nat : 1 + 3 * x + (1 + 0) = 1 + 3 * x + 0 + 1
      OBVIOUS
    <3>3. ~overlapped[d] => Consumed(c)' = 1 + 3 * Len(dispatched[c]) + (1 + 0)
      BY <1>2, <1>5, <1>6, <3>1, FrameIsThree DEF Consumed, HeaderLen
    <3>4. Consumed(c) = 1 + 3 * Len(dispatched[c]) + 0
      BY <1>2, FrameIsThree DEF Consumed
    <3> QED
      BY <1>2, <3>1, <3>2, <3>3, <3>4 DEF Reading
  <2> QED
    BY <1>0, <1>2, <1>3, <1>4, <2>1, FlowTaken DEF d
<1>10. (ReaderOf(c))'
  BY <1>2, <1>4, <1>5, <1>6 DEF ReaderOf, d
<1>11. (ReaderOf(d))'
  BY <1>0, <1>2, <1>4, ReaderKept
<1> QED
  BY <1>7, <1>8, <1>9, <1>10, <1>11, AtBothEnds DEF d

LEMMA ReadPartEnds ==
    ASSUME IInv, Ends, NEW c \in Conn, ReadPart(c)
    PROVE  Ends'
<1> DEFINE d == Peer(c)
<1>0. TypeOK /\ FlowOf(c) /\ FlowOf(d) /\ ReaderOf(c) /\ ReaderOf(d) /\ Fresh
      /\ d \in Conn /\ d # c /\ Peer(d) = c
  BY EndsOf DEF IInv
<1>1. PICK k \in 1 .. Len(Incoming(c)) :
         /\ Len(recv_buffer[c]) + k < Lesser(nextLen[c], MAX_PKT_LEN)
         /\ recv_buffer' = [recv_buffer EXCEPT ![c] = @ \o SubSeq(Incoming(c), 1, k)]
         /\ Take(c, k)
  BY DEF ReadPart
<1>2. /\ rd[c] = "msg" /\ CanReceive(c)
      /\ UNCHANGED <<stopped, connected, ready, sock, out_data, write_q, posted, down, rd,
                     nextLen, recv_header, failed, pktcount, sent, dispatched, overlapped>>
  BY DEF ReadPart, sendVars, history
<1>3. Incoming(c) \in Seq(Cell) /\ sock[c] = "open" /\ sock[d] # "new"
  BY <1>0, <1>2, Arriving
<1>4. SubSeq(Incoming(c), 1, k) \in Seq(Cell) /\ Len(SubSeq(Incoming(c), 1, k)) = k
  BY <1>3, SplitSeq
<1>5. /\ recv_buffer'[c] = recv_buffer[c] \o SubSeq(Incoming(c), 1, k)
      /\ recv_buffer'[d] = recv_buffer[d] /\ net'[c] = net[c]
  BY <1>0, <1>1, TakeOther DEF TypeOK
<1>6. Len(recv_buffer'[c]) = Len(recv_buffer[c]) + k /\ Len(recv_buffer[c]) \in Nat
  BY <1>0, <1>4, <1>5, ConcatProperties, LenProperties DEF TypeOK
<1> HIDE DEF d
<1>7. Fresh'
  BY <1>0, <1>2, <1>3, <1>5, FreshStep DEF d
<1>8. (FlowOf(c))'
  <2>1. Consumed(d)' = Consumed(d) /\ (Broken(c))' = Broken(c) /\ (Reading(d))' = Reading(d)
    BY <1>2, <1>5 DEF Consumed, Broken, Reading
  <2> QED
    BY <1>0, <1>2, <1>3, <1>5, <2>1, FlowKept DEF d
<1>9. (FlowOf(d))'
  <2>1. Reading(c) /\ Consumed(c)' = Consumed(c) + k
    <3>1. Len(dispatched[c]) \in Nat
      BY <1>0, LenProperties DEF TypeOK
    <3>2. \A x, y \in Nat : 1 + 3 * x + (1 + (y + k)) = 1 + 3 * x + (1 + y) + k
      OBVIOUS
    <3>3. /\ Consumed(c)' = 1 + 3 * Len(dispatched[c]) + (1 + (Len(recv_buffer[c]) + k))
          /\ Consumed(c) = 1 + 3 * Len(dispatched[c]) + (1 + Len(recv_buffer[c]))
      BY <1>2, <1>6, FrameIsThree DEF Consumed, HeaderLen
    <3> QED
      BY <1>2, <1>6, <3>1, <3>2, <3>3 DEF Reading
  <2> QED
    BY <1>0, <1>1, <1>2, <2>1, FlowTaken DEF d
<1>10. (ReaderOf(c))'
  <2> SUFFICES ASSUME ~overlapped[d] PROVE (ReaderOf(c))'
    BY <1>2 DEF ReaderOf, d
  <2> DEFINE next == sent[d][Len(dispatched[c]) + 1]
  <2>1. /\ nextLen[c] = 2 /\ recv_header[c].opcode = next.opcode
        /\ \/ recv_buffer[c] = <<>> /\ Incoming(c)[1] = Encode(next)[2]
           \/ recv_buffer[c] = <<Encode(next)[2]>>
    BY <1>0, <1>2, BodyIs DEF d, BodyLen
  <2>2. Lesser(nextLen[c], MAX_PKT_LEN) = 2
    BY <2>1, PacketsAssumption DEF Lesser, BodyLen
  <2>3. Len(recv_buffer[c]) + k < 2
    BY <1>1, <2>2
  <2>4. k = 1 /\ Len(recv_buffer[c]) = 0
    BY <1>6, <2>3
  <2>5. recv_buffer[c] = <<>>
    BY <2>1, <2>4
  <2>6. SubSeq(Incoming(c), 1, 1) = <<Incoming(c)[1]>>
    BY <1>3, <2>4, FirstCells
  <2>7. recv_buffer'[c] = <<Encode(next)[2]>>
    <3>1. SubSeq(Incoming(c), 1, k) = <<Encode(next)[2]>>
      BY <2>1, <2>4, <2>5, <2>6
    <3>2. <<>> \o SubSeq(Incoming(c), 1, k) = SubSeq(Incoming(c), 1, k)
      BY <1>4, ConcatEmptySeq
    <3> QED
      BY <1>5, <2>5, <3>1, <3>2
  <2> QED
    BY <1>0, <1>2, <2>7 DEF ReaderOf, d
<1>11. (ReaderOf(d))'
  BY <1>0, <1>2, <1>5, ReaderKept
<1> QED
  BY <1>7, <1>8, <1>9, <1>10, <1>11, AtBothEnds DEF d

(* When the body is complete it is read without an error, and the text is  *)
(* that of the packet its header announced.                                *)
LEMMA WholeBody ==
    ASSUME TypeOK, Ends, NEW c \in Conn, CanReceive(c), rd[c] = "msg", ~overlapped[Peer(c)],
           NEW k, k = nextLen[c] - Len(recv_buffer[c]), k \in 1 .. Len(Incoming(c))
    PROVE  LET next == sent[Peer(c)][Len(dispatched[c]) + 1]
               body == recv_buffer[c] \o SubSeq(Incoming(c), 1, k)
           IN  /\ EchoReads(body, failed[c]) = {"ok"} /\ TextId(body) = next.id
               /\ Consumed(c) + k = 1 + 3 * (Len(dispatched[c]) + 1)
<1> DEFINE next == sent[Peer(c)][Len(dispatched[c]) + 1]
           a == Incoming(c)
           body == recv_buffer[c] \o SubSeq(a, 1, k)
<1>1. /\ next \in Packet /\ nextLen[c] = 2 /\ ~failed[c]
      /\ \/ /\ recv_buffer[c] = <<>> /\ a[1] = Encode(next)[2]
            /\ 2 \in 1 .. Len(a) => a[2] = Encode(next)[3]
         \/ recv_buffer[c] = <<Encode(next)[2]>> /\ a[1] = Encode(next)[3]
  BY BodyIs DEF BodyLen
<1>2. a \in Seq(Cell) /\ 1 \in 1 .. Len(a) /\ recv_buffer[c] \in Seq(Cell)
  BY Arriving DEF TypeOK
<1> HIDE DEF next, a
<1>3. body = <<Encode(next)[2], Encode(next)[3]>>
  <2>1. CASE recv_buffer[c] = <<>>
    <3>1. k = 2 /\ 2 \in 1 .. Len(a)
      <4>1. Len(<<>>) = 0
        OBVIOUS
      <4> QED
        BY <1>1, <2>1, <4>1 DEF a
    <3>2. SubSeq(a, 1, k) = <<a[1], a[2]>> /\ SubSeq(a, 1, k) \in Seq(Cell)
      <4>1. k \in 0 .. Len(a)
        BY <3>1
      <4> QED
        BY <1>2, <3>1, <4>1, FirstCells, SplitSeq
    <3>3. a[1] = Encode(next)[2] /\ a[2] = Encode(next)[3]
      BY <1>1, <2>1, <3>1
    <3>4. <<>> \o SubSeq(a, 1, k) = SubSeq(a, 1, k)
      BY <3>2, ConcatEmptySeq
    <3> QED
      BY <2>1, <3>2, <3>3, <3>4
  <2>2. CASE recv_buffer[c] = <<Encode(next)[2]>> /\ a[1] = Encode(next)[3]
    <3>1. k = 1
      <4>1. Len(<<Encode(next)[2]>>) = 1
        OBVIOUS
      <4> QED
        BY <1>1, <2>2, <4>1
    <3>2. SubSeq(a, 1, k) = <<a[1]>>
      BY <1>2, <3>1, FirstCells
    <3>3. Encode(next)[2] \in Cell /\ Encode(next)[3] \in Cell
      BY <1>1 DEF Encode, Cell
    <3> QED
      BY <2>2, <3>2, <3>3, PairConcat
  <2> QED
    BY <1>1, <2>1, <2>2
<1>4. EchoReads(body, failed[c]) = {"ok"} /\ TextId(body) = next.id
  <2>1. /\ body[1] = [kind |-> "length", pkt |-> next] /\ body[2] = [kind |-> "text", pkt |-> next]
        /\ Len(body) = 2
    <3>1. /\ Encode(next)[2] = [kind |-> "length", pkt |-> next]
          /\ Encode(next)[3] = [kind |-> "text", pkt |-> next]
      BY DEF Encode
    <3>2. \A x, y : <<x, y>>[1] = x /\ <<x, y>>[2] = y /\ Len(<<x, y>>) = 2
      OBVIOUS
    <3> HIDE DEF body
    <3> QED
      BY <1>3, <3>1, <3>2
  <2> HIDE DEF body
  <2> QED
    BY <1>1, <2>1 DEF EchoReads, TextId, BodyLen
<1>5. Consumed(c) + k = 1 + 3 * (Len(dispatched[c]) + 1)
  <2>1. Consumed(c) = 1 + 3 * Len(dispatched[c]) + (1 + Len(recv_buffer[c]))
    BY FrameIsThree DEF Consumed, HeaderLen
  <2>2. k = 2 - Len(recv_buffer[c])
    BY <1>1
  <2>3. Len(recv_buffer[c]) \in Nat /\ Len(dispatched[c]) \in Nat
    BY LenProperties DEF TypeOK
  <2>4. \A x, y \in Nat : 1 + 3 * x + (1 + y) + (2 - y) = 1 + 3 * (x + 1)
    OBVIOUS
  <2> QED
    BY <2>1, <2>2, <2>3, <2>4
<1> QED
  BY <1>4, <1>5 DEF next, a

(* A packet whose body is complete is dispatched.  If the sender's writes  *)
(* never overlapped it is the next one that was sent.                      *)
LEMMA MsgHandled ==
    ASSUME IInv, Ends, NEW c \in Conn, ReadMsg(c)
    PROVE  \E p \in Packet :
              /\ HandlePacket(c, p)
              /\ ~overlapped[Peer(c)] =>
                    /\ p = sent[Peer(c)][Len(dispatched[c]) + 1]
                    /\ Len(dispatched[c]) < Len(sent[Peer(c)])
                    /\ failed'[c] = failed[c]
<1> DEFINE d == Peer(c)
           k == nextLen[c] - Len(recv_buffer[c])
           body == recv_buffer[c] \o SubSeq(Incoming(c), 1, k)
           next == sent[d][Len(dispatched[c]) + 1]
<1>0. TypeOK
  BY DEF IInv
<1>1. k \in 1 .. Len(Incoming(c)) /\ Take(c, k) /\ CanReceive(c) /\ rd[c] = "msg"
  BY DEF ReadMsg
<1>2. PICK r \in EchoReads(body, failed[c]) \ {"throw"} :
         /\ HandlePacket(c, [opcode |-> recv_header[c].opcode,
                             id |-> IF r = "ok" THEN TextId(body) ELSE NoId])
         /\ failed' = [failed EXCEPT ![c] = @ \/ r = "short"]
  BY DEF ReadMsg
<1> DEFINE p == [opcode |-> recv_header[c].opcode,
                 id |-> IF r = "ok" THEN TextId(body) ELSE NoId]
<1>3. p \in Packet
  <2>1. headerIsGood(recv_header[c]) /\ recv_header[c] \in Header
    BY <1>0, <1>1 DEF IInv, GoodHeader, CanReceive, TypeOK
  <2>2. recv_header[c].opcode \in {Request, Response}
    BY <2>1 DEF headerIsGood, CheckOpcode, Header, Request, Response
  <2>3. body \in Seq(Cell)
    <3>1. SubSeq(Incoming(c), 1, k) \in Seq(Cell)
      BY <1>0, <1>1, TakeType
    <3> QED
      BY <1>0, <3>1, ConcatProperties DEF TypeOK
  <2> HIDE DEF body
  <2>4. p.id \in 0 .. MaxRequests
    <3>1. MaxRequests \in Nat
      BY PacketsAssumption
    <3> QED
      BY <2>3, <3>1, TextIdType DEF NoId
  <2> QED
    BY <2>2, <2>4 DEF Packet
<1>4. ASSUME ~overlapped[d]
      PROVE  p = next /\ failed'[c] = failed[c] /\ Len(dispatched[c]) < Len(sent[d])
  <2>1. EchoReads(body, failed[c]) = {"ok"} /\ TextId(body) = next.id
    BY <1>0, <1>1, <1>4, WholeBody
  <2>2. /\ next \in Packet /\ recv_header[c].opcode = next.opcode /\ ~failed[c]
        /\ Len(dispatched[c]) < Len(sent[d])
    BY <1>0, <1>1, <1>4, BodyIs
  <2>3. r = "ok"
    BY <2>1
  <2>4. p = next
    <3>1. p = [opcode |-> next.opcode, id |-> next.id]
      BY <2>1, <2>2, <2>3
    <3> HIDE DEF next, p
    <3> QED
      BY <2>2, <3>1 DEF Packet
  <2>5. failed'[c] = failed[c]
    BY <1>0, <1>2, <2>3 DEF TypeOK
  <2> QED
    BY <2>2, <2>4, <2>5
<1>5. HandlePacket(c, p)
  BY <1>2
<1> HIDE DEF p
<1> QED
  BY <1>3, <1>4, <1>5

LEMMA ReadMsgEnds ==
    ASSUME IInv, Ends, NEW c \in Conn, ReadMsg(c)
    PROVE  Ends'
<1> DEFINE d == Peer(c)
           k == nextLen[c] - Len(recv_buffer[c])
           next == sent[d][Len(dispatched[c]) + 1]
<1>0. TypeOK /\ FlowOf(c) /\ FlowOf(d) /\ ReaderOf(c) /\ ReaderOf(d) /\ Fresh
      /\ d \in Conn /\ d # c /\ Peer(d) = c
  BY EndsOf DEF IInv
<1>1. k \in 1 .. Len(Incoming(c)) /\ Take(c, k) /\ CanReceive(c) /\ rd[c] = "msg"
  BY DEF ReadMsg
<1>2. PICK p \in Packet :
         /\ HandlePacket(c, p)
         /\ ~overlapped[d] => /\ p = next /\ Len(dispatched[c]) < Len(sent[d])
                              /\ failed'[c] = failed[c]
  BY MsgHandled
<1>3. /\ nextLen' = [nextLen EXCEPT ![c] = 0]
      /\ recv_buffer' = [recv_buffer EXCEPT ![c] = <<>>]
      /\ rd' = [rd EXCEPT ![c] = "header"]
      /\ \E b \in BOOLEAN : failed' = [failed EXCEPT ![c] = b]
      /\ UNCHANGED <<phase, stopped, connected, ready, sock, write_q, posted, down,
                     recv_header, pktcount, overlapped>>
  <2>1. \E r : failed' = [failed EXCEPT ![c] = @ \/ r = "short"]
    BY DEF ReadMsg
  <2> QED
    BY <1>0, <2>1 DEF ReadMsg, NextRead, TypeOK
<1> DEFINE answer == [opcode |-> Response, id |-> p.id]
<1>4. answer \in Packet
  BY DEF Packet
<1>5. /\ dispatched' = [dispatched EXCEPT ![c] = Append(@, p)]
      /\ Send(c, answer) \/ UNCHANGED <<out_data, sent>>
  BY <1>2 DEF HandlePacket
<1> HIDE DEF answer
<1>6. ~overlapped[d] => Consumed(c) + k = 1 + 3 * (Len(dispatched[c]) + 1)
  BY <1>0, <1>1, WholeBody
<1> HIDE DEF k, next
<1>7. /\ UNCHANGED <<net[c], rd[d], recv_buffer[d], nextLen[d], failed[d], dispatched[d],
                     out_data[d], sent[d]>>
      /\ rd'[c] = "header" /\ recv_buffer'[c] = <<>> /\ dispatched'[c] = Append(dispatched[c], p)
  <2>1. net'[c] = net[c]
    BY <1>0, <1>1, TakeOther
  <2>2. UNCHANGED <<rd[d], recv_buffer[d], nextLen[d], failed[d], dispatched[d]>>
    BY <1>0, <1>3, <1>5 DEF TypeOK
  <2>3. UNCHANGED <<out_data[d], sent[d]>>
    BY <1>0, <1>5 DEF Send, TypeOK
  <2>4. rd'[c] = "header" /\ recv_buffer'[c] = <<>> /\ dispatched'[c] = Append(dispatched[c], p)
    BY <1>0, <1>3, <1>5 DEF TypeOK
  <2> QED
    BY <2>1, <2>2, <2>3, <2>4
<1>8. Incoming(c) \in Seq(Cell) /\ sock[c] = "open" /\ sock[d] # "new"
  BY <1>0, <1>1, Arriving DEF d
<1>9. \/ /\ out_data'[c] = out_data[c] \o Encode(answer)
         /\ sent'[c] = Append(sent[c], answer)
      \/ out_data'[c] = out_data[c] /\ sent'[c] = sent[c]
  BY <1>0, <1>5 DEF Send, TypeOK
<1> HIDE DEF d
<1>10. Fresh'
  BY <1>0, <1>3, <1>7, <1>8, FreshStep DEF d
<1>11. (FlowOf(c))'
  <2>1. Consumed(d)' = Consumed(d) /\ (Broken(c))' = Broken(c) /\ (Reading(d))' = Reading(d)
    BY <1>3, <1>7 DEF Consumed, Broken, Reading
  <2>2. CASE out_data'[c] = out_data[c] /\ sent'[c] = sent[c]
    BY <1>0, <1>3, <1>7, <1>8, <2>1, <2>2, FlowKept DEF d
  <2>3. CASE out_data'[c] = out_data[c] \o Encode(answer) /\ sent'[c] = Append(sent[c], answer)
    BY <1>0, <1>3, <1>4, <1>7, <1>8, <2>1, <2>3, FlowGrows DEF d
  <2> QED
    BY <1>9, <2>2, <2>3
<1>12. (FlowOf(d))'
  <2>1. ~overlapped[d] => Reading(c) /\ Consumed(c)' = Consumed(c) + k
    <3>1. Len(Append(dispatched[c], p)) = Len(dispatched[c]) + 1 /\ Len(dispatched[c]) \in Nat
      BY <1>0, <1>2, AppendProperties, LenProperties DEF TypeOK
    <3>2. Consumed(c)' = 1 + 3 * (Len(dispatched[c]) + 1) + 0
      BY <1>7, <3>1, FrameIsThree DEF Consumed
    <3>3. Consumed(c)' = 1 + 3 * (Len(dispatched[c]) + 1)
      BY <3>1, <3>2
    <3> QED
      BY <1>1, <1>6, <3>3 DEF Reading
  <2> QED
    BY <1>0, <1>1, <1>3, <1>7, <2>1, FlowTaken DEF d
<1>13. (ReaderOf(c))'
  <2> SUFFICES ASSUME ~overlapped[d] PROVE (ReaderOf(c))'
    BY <1>3 DEF ReaderOf, d
  <2> DEFINE s == sent[d]
             t == dispatched[c]
  <2>1. /\ IsPrefixOf(t, s) /\ ~failed[c]
    BY <1>0, <1>1 DEF ReaderOf, d
  <2>2. t \in Seq(Packet) /\ Len(t) \in Nat /\ s \in Seq(Packet) /\ Len(s) \in Nat
    BY <1>0, LenProperties DEF TypeOK
  <2>3. p = s[Len(t) + 1] /\ Len(t) < Len(s)
    BY <1>2 DEF next
  <2> HIDE DEF s, t
  <2>4. /\ Len(Append(t, p)) = Len(t) + 1 /\ Append(t, p)[Len(t) + 1] = p
        /\ \A i \in 1 .. Len(t) : Append(t, p)[i] = t[i]
    BY <1>2, <2>2, AppendProperties
  <2>5. IsPrefixOf(Append(t, p), s)
    BY <2>1, <2>2, <2>3, <2>4 DEF IsPrefixOf
  <2>6. IsPrefixOf(dispatched'[c], sent'[d])
    BY <1>7, <2>5 DEF s, t
  <2>7. ~failed'[c]
    BY <1>2, <2>1
  <2> QED
    BY <1>7, <2>6, <2>7 DEF ReaderOf, d
<1>14. (ReaderOf(d))'
  <2>1. CASE out_data'[c] = out_data[c] /\ sent'[c] = sent[c]
    BY <1>0, <1>3, <1>7, <2>1, ReaderKept
  <2>2. CASE sent'[c] = Append(sent[c], answer)
    BY <1>0, <1>3, <1>4, <1>7, <2>2, ReaderGrows
  <2> QED
    BY <1>9, <2>1, <2>2
<1> QED
  BY <1>10, <1>11, <1>12, <1>13, <1>14, AtBothEnds DEF d

(* c reads no more: what becomes of the stream towards it does not matter, *)
(* and its own is not touched, or its socket is closed.                    *)
LEMMA NoMoreReads ==
    ASSUME TypeOK, Ends, NEW c \in Conn,
           sock[c] # "new", sock'[c] # "new", rd'[c] = "none",
           UNCHANGED <<connected, down, stopped, ready, failed, out_data, sent, dispatched,
                       overlapped>>,
           UNCHANGED <<sock[Peer(c)], rd[Peer(c)], recv_buffer[Peer(c)], write_q[Peer(c)],
                       posted[Peer(c)], nextLen[Peer(c)], recv_header[Peer(c)], net[c]>>,
           sock'[c] = "closed" \/ UNCHANGED <<sock[c], write_q[c], posted[c]>>,
           sock[Peer(c)] = "new" => net'[Peer(c)] = net[Peer(c)]
    PROVE  Ends'
<1> DEFINE d == Peer(c)
<1>0. /\ FlowOf(c) /\ ReaderOf(c) /\ ReaderOf(d) /\ Fresh
      /\ d \in Conn /\ d # c /\ Peer(d) = c
  BY EndsOf
<1>1. UNCHANGED <<sock[d], rd[d], recv_buffer[d], write_q[d], posted[d], nextLen[d],
                  recv_header[d]>>
  OBVIOUS
<1>2. sock[d] = "new" => net'[d] = net[d]
  OBVIOUS
<1> HIDE DEF d
<1>3. Fresh'
  <2>1. sock[d] = "new" => net'[d] = <<>> /\ rd'[c] \in {"none", "handshake"}
    BY <1>0, <1>2 DEF Fresh
  <2> QED
    BY <1>0, <1>1, <2>1, FreshStep DEF d
<1>4. (FlowOf(c))'
  <2>1. Consumed(d)' = Consumed(d) /\ (Reading(d))' = Reading(d)
    BY <1>1 DEF Consumed, Reading
  <2>2. (Broken(c))' = FALSE => Broken(c) = FALSE /\ UNCHANGED <<write_q[c], posted[c]>>
    BY <1>1 DEF Broken, d
  <2> QED
    BY <1>0, <1>1, <2>1, <2>2, FlowKept DEF d
<1>5. (FlowOf(d))'
  BY <1>0 DEF FlowOf, Reading
<1>6. (ReaderOf(c))' /\ (ReaderOf(d))'
  BY <1>0, <1>1, ReaderKept
<1> QED
  BY <1>3, <1>4, <1>5, <1>6, AtBothEnds DEF d

LEMMA ThrowEnds ==
    ASSUME IInv, Ends, NEW c \in Conn, Throw(c)
    PROVE  Ends'
<1>0. TypeOK /\ Peer(c) \in Conn /\ Peer(c) # c
  BY PeerType DEF IInv
<1>1. PICK k : Take(c, k)
  BY DEF Throw
<1>2. /\ CanReceive(c) /\ rd[c] = "msg"
      /\ sock' = [sock EXCEPT ![c] = "closed"]
      /\ write_q' = [write_q EXCEPT ![c] = <<>>]
      /\ posted' = [posted EXCEPT ![c] = <<>>]
      /\ rd' = [rd EXCEPT ![c] = "none"]
      /\ recv_buffer' = [recv_buffer EXCEPT ![c] = <<>>]
      /\ UNCHANGED <<stopped, connected, ready, out_data, down, nextLen, recv_header,
                     failed, pktcount, sent, dispatched, overlapped>>
  BY DEF Throw, history
<1>3. sock[c] # "new" /\ sock[Peer(c)] # "new"
  BY <1>0, <1>2, Arriving
<1>4. net'[c] = net[c]
  BY <1>0, <1>1, TakeOther
<1>5. /\ UNCHANGED <<sock[Peer(c)], rd[Peer(c)], recv_buffer[Peer(c)], write_q[Peer(c)],
                     posted[Peer(c)]>>
      /\ sock'[c] = "closed" /\ rd'[c] = "none"
  BY <1>0, <1>2 DEF TypeOK
<1> QED
  BY <1>0, <1>2, <1>3, <1>4, <1>5, NoMoreReads

LEMMA ReadStallEnds ==
    ASSUME IInv, Ends, NEW c \in Conn, ReadStall(c)
    PROVE  Ends'
<1>0. TypeOK /\ Peer(c) \in Conn /\ Peer(c) # c
  BY PeerType DEF IInv
<1>1. PICK k : Take(c, k)
  BY DEF ReadStall
<1>2. /\ CanReceive(c) /\ rd[c] = "msg"
      /\ rd' = [rd EXCEPT ![c] = "none"]
      /\ recv_buffer' = [recv_buffer EXCEPT ![c] = <<>>]
      /\ UNCHANGED <<stopped, connected, ready, sock, out_data, write_q, posted, down, nextLen,
                     recv_header, failed, pktcount, sent, dispatched, overlapped>>
  BY DEF ReadStall, sendVars, history
<1>3. sock[c] # "new" /\ sock[Peer(c)] # "new"
  BY <1>0, <1>2, Arriving
<1>4. net'[c] = net[c]
  BY <1>0, <1>1, TakeOther
<1>5. UNCHANGED <<rd[Peer(c)], recv_buffer[Peer(c)]>> /\ rd'[c] = "none"
  BY <1>0, <1>2 DEF TypeOK
<1> QED
  BY <1>0, <1>2, <1>3, <1>4, <1>5, NoMoreReads

LEMMA ReadFailEnds ==
    ASSUME IInv, Ends, NEW c \in Conn, ReadFail(c)
    PROVE  Ends'
<1>0. TypeOK /\ Peer(c) \in Conn /\ Peer(c) # c /\ Fresh
  BY EndsOf DEF IInv
<1>1. /\ rd[c] # "none"
      /\ rd' = [rd EXCEPT ![c] = "none"]
      /\ recv_buffer' = [recv_buffer EXCEPT ![c] = <<>>]
      /\ UNCHANGED <<stopped, connected, ready, sock, out_data, write_q, posted, net, down,
                     nextLen, recv_header, failed, pktcount, sent, dispatched, overlapped>>
  BY DEF ReadFail, sendVars, history
<1>2. sock[c] # "new"
  BY <1>0, <1>1 DEF Fresh
<1>3. UNCHANGED <<rd[Peer(c)], recv_buffer[Peer(c)]>> /\ rd'[c] = "none"
  BY <1>0, <1>1 DEF TypeOK
<1> QED
  BY <1>0, <1>1, <1>2, <1>3, NoMoreReads

LEMMA DestroyEnds ==
    ASSUME IInv, Ends, NEW c \in Conn, Destroy(c)
    PROVE  Ends'
<1>0. TypeOK /\ Peer(c) \in Conn /\ Peer(c) # c
  BY PeerType DEF IInv
<1>1. /\ sock[c] # "new" /\ rd[c] = "none"
      /\ sock' = [sock EXCEPT ![c] = "closed"]
      /\ UNCHANGED <<stopped, connected, ready, out_data, write_q, posted, net, down, rd,
                     recv_buffer, nextLen, recv_header, failed, pktcount, sent, dispatched,
                     overlapped>>
  BY DEF Destroy, Idle, sendVars, recvVars, history
<1>2. sock'[c] = "closed" /\ sock'[Peer(c)] = sock[Peer(c)]
  BY <1>0, <1>1 DEF TypeOK
<1> QED
  BY <1>0, <1>1, <1>2, NoMoreReads

(* Steps that touch neither stream.                                        *)
LEMMA ElsewhereEnds ==
    ASSUME Ends, down' \in {down, TRUE},
           UNCHANGED <<connected, ready, sock, out_data, write_q, posted, net, rd, recv_buffer,
                       nextLen, recv_header, failed, sent, dispatched, overlapped>>,
           \A c \in Conn : sock[c] = "new" => stopped'[c] = stopped[c]
    PROVE  Ends'
<1>1. Fresh'
  BY DEF Ends, Fresh
<1>2. ASSUME NEW c \in Conn PROVE (FlowOf(c))' /\ (ReaderOf(c))'
  <2>1. Consumed(Peer(c))' = Consumed(Peer(c)) /\ (Reading(Peer(c)))' = Reading(Peer(c))
    BY DEF Consumed, Reading
  <2>2. Broken(c) => (Broken(c))'
    <3>1. down => down'
      OBVIOUS
    <3> QED
      BY <3>1 DEF Broken
  <2>3. FlowOf(c) /\ ReaderOf(c)
    BY DEF Ends, Flow, Reader
  <2> QED
    BY <2>1, <2>2, <2>3, FlowKept, ReaderKept
<1> QED
  BY <1>1, <1>2 DEF Ends, Flow, Reader

LEMMA EndPollEnds ==
    ASSUME IInv, Ends, NEW c \in Conn, EndPoll(c)
    PROVE  Ends'
<1>1. /\ stopped' = [stopped EXCEPT ![c] = @ \/ Idle(c)]
      /\ UNCHANGED <<connected, ready, sock, out_data, write_q, posted, net, down, rd,
                     recv_buffer, nextLen, recv_header, failed, sent, dispatched, overlapped>>
  BY DEF EndPoll, sendVars, recvVars, history
<1>2. ASSUME NEW e \in Conn, sock[e] = "new" PROVE stopped'[e] = stopped[e]
  <2>1. e = c => ~Idle(c)
    BY <1>2 DEF Idle
  <2> QED
    BY <1>1, <2>1 DEF IInv, TypeOK
<1> QED
  BY <1>1, <1>2, ElsewhereEnds

LEMMA CutEnds ==
    ASSUME IInv, Ends, Cut
    PROVE  Ends'
  BY ElsewhereEnds DEF Cut, sendVars, recvVars, history

(* Freeing the buffers of finished operations changes nothing.             *)
LEMMA FreedDone ==
    ASSUME NEW p \in Seq(WriteOp), Done(p)
    PROVE  Done(Freed(p)) /\ Freed(p) \in Seq(WriteOp)
<1>1. Freed(p) \in Seq(WriteOp) /\ Len(p) \in Nat
  BY QueueTypes, LenProperties
<1>2. Len(Freed(p)) = Len(p) /\ \A i \in 1 .. Len(p) : Freed(p)[i] = [p[i] EXCEPT !.stale = TRUE]
  BY <1>1 DEF Freed
<1>3. \A op \in WriteOp : [op EXCEPT !.stale = TRUE].rem = op.rem
  BY DEF WriteOp
<1>4. \A i \in 1 .. Len(p) : p[i] \in WriteOp
  BY ElementOfSeq
<1> QED
  BY <1>1, <1>2, <1>3, <1>4 DEF Done

(* A Tick that overlaps with no write turns out_data into the write in     *)
(* progress.                                                               *)
LEMMA TickLine ==
    ASSUME TypeOK, NEW c \in Conn, Tick(c), ~overlapped'[c], ~Broken(c),
           NEW n \in Nat, NEW old \in Seq(Cell),
           Sole(write_q[c], posted[c], old), Line(sent[c], n, net[c], old, out_data[c])
    PROVE  \E rem \in Seq(Cell) : /\ Sole(write_q'[c], posted'[c], rem)
                                  /\ Line(sent[c], n, net'[c], rem, <<>>)
<1>0. /\ write_q \in [Conn -> Seq(WriteOp)] /\ posted \in [Conn -> Seq(WriteOp)]
      /\ net[c] \in Seq(Cell) /\ out_data[c] \in Seq(Cell) /\ sent[c] \in Seq(Packet)
  BY DEF TypeOK
<1>1. ~Unfinished(c)
  BY ZenonT(40) DEF Tick, TypeOK
<1>2. /\ \A i \in 1 .. Len(write_q[c]) : write_q[c][i].rem = <<>>
      /\ \A i \in 1 .. Len(posted[c]) : posted[c][i].rem = <<>>
  BY <1>1 DEF Unfinished, OpsOf
<1>3. old = <<>> /\ write_q[c] = <<>> /\ Done(posted[c])
  <2>1. ASSUME old # <<>>, write_q[c] = <<Unspent(old)>> PROVE FALSE
    <3>1. Len(write_q[c]) = 1 /\ write_q[c][1] = Unspent(old)
      BY <2>1
    <3>2. write_q[c][1].rem = <<>>
      BY <1>2, <3>1
    <3> QED
      BY <2>1, <3>1, <3>2 DEF Unspent
  <2>2. ASSUME old # <<>>, OneLeft(posted[c], old) PROVE FALSE
    BY <1>2, <2>2 DEF OneLeft, Unspent
  <2> QED
    BY <2>1, <2>2 DEF Sole
<1> DEFINE q == Freed(write_q[c])
           p == Freed(posted[c])
<1>4. q = <<>> /\ Done(p) /\ p \in Seq(WriteOp)
  <2>1. Freed(<<>>) = <<>>
    BY DEF Freed
  <2> QED
    BY <1>0, <1>3, <2>1, FreedDone
<1>5. \/ out_data[c] # <<>> /\ StartWrite(c, Unspent(out_data[c]), q, p)
      \/ /\ out_data[c] = <<>>
         /\ write_q' = [write_q EXCEPT ![c] = q]
         /\ posted' = [posted EXCEPT ![c] = p]
         /\ UNCHANGED net
  BY DEF Tick, Unspent
<1> HIDE DEF q, p
<1>6. Line(sent[c], n, net[c], out_data[c], <<>>)
  BY <1>0, <1>3, LineTick
<1>7. CASE out_data[c] # <<>> /\ StartWrite(c, Unspent(out_data[c]), q, p)
  <2>1. PICK k \in 0 .. Len(out_data[c]) :
              /\ net'[c] = net[c] \o SubSeq(out_data[c], 1, k)
              /\ Sole(write_q'[c], posted'[c], SubSeq(out_data[c], k + 1, Len(out_data[c])))
    BY <1>0, <1>4, <1>7, StartWriteSole
  <2>2. SubSeq(out_data[c], k + 1, Len(out_data[c])) \in Seq(Cell)
    BY <1>0, SplitSeq
  <2>3. Line(sent[c], n, net'[c], SubSeq(out_data[c], k + 1, Len(out_data[c])), <<>>)
    BY <1>0, <1>6, <2>1, LineSent, EmptySeq
  <2> QED
    BY <2>1, <2>2, <2>3
<1>8. CASE /\ out_data[c] = <<>>
           /\ write_q' = [write_q EXCEPT ![c] = q]
           /\ posted' = [posted EXCEPT ![c] = p]
           /\ UNCHANGED net
  <2>1. write_q'[c] = <<>> /\ posted'[c] = p /\ net'[c] = net[c]
    BY <1>0, <1>4, <1>8
  <2>2. Sole(<<>>, p, <<>>) /\ <<>> \in Seq(Cell)
    BY <1>4, EmptySeq DEF Sole
  <2>3. Line(sent[c], n, net[c], <<>>, <<>>)
    BY <1>6, <1>8
  <2> QED
    BY <2>1, <2>2, <2>3
<1> QED
  BY <1>5, <1>7, <1>8

LEMMA MainTickEnds ==
    ASSUME IInv, Ends, NEW c \in Conn, MainTick(c)
    PROVE  Ends'
<1> DEFINE d == Peer(c)
           p == [opcode |-> Request, id |-> pktcount[c] + 1]
           n == Consumed(d)
<1>0. TypeOK /\ FlowOf(c) /\ FlowOf(d) /\ ReaderOf(c) /\ ReaderOf(d) /\ Fresh
      /\ d \in Conn /\ d # c /\ Peer(d) = c
  BY EndsOf DEF IInv
<1>1. UNCHANGED <<stopped, connected, ready, sock, down, rd, recv_buffer, nextLen, recv_header,
                  failed, dispatched>>
  BY DEF MainTick, recvVars
<1>2. CASE ~connected[c]
  <2>1. UNCHANGED <<out_data, write_q, posted, net, sent, overlapped>>
    BY <1>2 DEF MainTick, sendVars
  <2> QED
    BY <1>1, <2>1, ElsewhereEnds
<1>3. CASE connected[c]
  <2>1. Tick(c)
    BY <1>3 DEF MainTick
  <2>2. \/ /\ p \in Packet
           /\ out_data' = [out_data EXCEPT ![c] = Encode(p)]
           /\ sent' = [sent EXCEPT ![c] = Append(@, p)]
        \/ out_data' = [out_data EXCEPT ![c] = <<>>] /\ UNCHANGED sent
    <3>1. CASE ready[c] /\ pktcount[c] < MaxRequests /\ GenerateEchoRequest(c)
      <4>1. p \in Packet
        <5>1. pktcount[c] \in 0 .. MaxRequests /\ MaxRequests \in Nat
          BY <1>0, PacketsAssumption DEF TypeOK
        <5>2. pktcount[c] + 1 \in 0 .. MaxRequests
          BY <3>1, <5>1
        <5> QED
          BY <5>2 DEF Packet
      <4> QED
        BY <3>1, <4>1 DEF GenerateEchoRequest
    <3> QED
      BY <1>3, <3>1 DEF MainTick
  <2> HIDE DEF p
  <2>3. \/ /\ p \in Packet /\ out_data'[c] = Encode(p) /\ sent'[c] = Append(sent[c], p)
        \/ out_data'[c] = <<>> /\ sent'[c] = sent[c]
    BY <1>0, <2>2 DEF TypeOK
  <2>4. UNCHANGED <<net[d], write_q[d], posted[d], out_data[d], sent[d], overlapped[d]>>
    BY <1>0, <2>1, <2>2, SMTT(30) DEF Tick, StartWrite, TypeOK
  <2>5. overlapped'[c] = (overlapped[c] \/ Unfinished(c))
    BY <1>0, <2>1 DEF Tick, TypeOK
  <2>6. sock[c] # "new"
    BY <1>0, <1>3 DEF Fresh
  <2>7. n \in Nat /\ n' = n /\ Consumed(c)' = Consumed(c)
    BY <1>0, <1>1, ConsumedType DEF Consumed
  <2>8. /\ (Broken(c))' = Broken(c) /\ (Broken(d))' = Broken(d)
        /\ (Reading(c))' = Reading(c) /\ (Reading(d))' = Reading(d)
    BY <1>1 DEF Broken, Reading
  <2> HIDE DEF d, n
  <2>9. Fresh'
    BY <1>0, <1>1, <2>4, <2>6, FreshStep DEF Fresh, d
  <2>10. (FlowOf(c))'
    <3> SUFFICES ASSUME ~overlapped'[c], Reading(d)
                 PROVE  /\ Front(sent'[c], n, net'[c])
                        /\ ~Broken(c) => \E rem \in Seq(Cell) :
                              /\ Sole(write_q'[c], posted'[c], rem)
                              /\ Line(sent'[c], n, net'[c], rem, out_data'[c])
      BY <2>7, <2>8 DEF FlowOf, d, n
    <3>0. /\ sent[c] \in Seq(Packet) /\ net[c] \in Seq(Cell) /\ out_data[c] \in Seq(Cell)
          /\ <<>> \in Seq(Cell)
      BY <1>0, EmptySeq DEF TypeOK
    <3>1. /\ Front(sent[c], n, net[c])
          /\ ~Broken(c) => \E rem \in Seq(Cell) :
                /\ Sole(write_q[c], posted[c], rem)
                /\ Line(sent[c], n, net[c], rem, out_data[c])
      BY <1>0, <2>5, <2>6 DEF FlowOf, d, n
    <3>2. CASE Broken(c)
      <4>1. net'[c] = net[c]
        BY <1>0, <2>1, <3>2, BrokenSilent DEF Tick
      <4>2. Front(Append(sent[c], p), n, net[c]) \/ p \notin Packet
        BY <2>7, <3>0, <3>1, FrontGrows
      <4> QED
        BY <2>3, <3>1, <3>2, <4>1, <4>2
    <3>3. CASE ~Broken(c)
      <4>1. PICK old \in Seq(Cell) : /\ Sole(write_q[c], posted[c], old)
                                     /\ Line(sent[c], n, net[c], old, out_data[c])
        BY <3>1, <3>3
      <4>2. PICK rem \in Seq(Cell) : /\ Sole(write_q'[c], posted'[c], rem)
                                     /\ Line(sent[c], n, net'[c], rem, <<>>)
        BY <1>0, <2>1, <2>7, <3>3, <4>1, TickLine
      <4>3. net'[c] \in Seq(Cell)
        BY MainTickStep DEF IInv, TypeOK
      <4>4. Line(sent'[c], n, net'[c], rem, out_data'[c]) /\ sent'[c] \in Seq(Packet)
        <5>1. CASE out_data'[c] = <<>> /\ sent'[c] = sent[c]
          BY <3>0, <4>2, <5>1
        <5>2. CASE p \in Packet /\ out_data'[c] = Encode(p) /\ sent'[c] = Append(sent[c], p)
          <6>1. Line(Append(sent[c], p), n, net'[c], rem, <<>> \o Encode(p))
            BY <2>7, <3>0, <4>2, <4>3, <5>2, LineGrows
          <6>2. <<>> \o Encode(p) = Encode(p)
            BY <5>2, EncodeLen, ConcatEmptySeq
          <6>3. Append(sent[c], p) \in Seq(Packet)
            BY <3>0, <5>2, AppendProperties
          <6> QED
            BY <5>2, <6>1, <6>2, <6>3
        <5> QED
          BY <2>3, <5>1, <5>2
      <4>5. out_data'[c] \in Seq(Cell)
        BY <2>3, <3>0, EncodeLen
      <4>6. Front(sent'[c], n, net'[c])
        BY <2>7, <4>3, <4>4, <4>5, LineFront
      <4> QED
        BY <4>2, <4>4, <4>6
    <3> QED
      BY <3>2, <3>3
  <2>11. (FlowOf(d))'
    BY <1>0, <1>1, <2>4, <2>7, <2>8, FlowKept
  <2>12. (ReaderOf(c))'
    BY <1>0, <1>1, <2>4, ReaderKept DEF d
  <2>13. (ReaderOf(d))'
    <3>1. CASE overlapped'[c]
      BY <1>0, <3>1 DEF ReaderOf
    <3>2. CASE ~overlapped'[c]
      <4>1. overlapped'[c] = overlapped[c]
        BY <1>0, <2>5, <3>2 DEF TypeOK
      <4>2. CASE sent'[c] = sent[c]
        BY <1>0, <1>1, <4>1, <4>2, ReaderKept
      <4>3. CASE p \in Packet /\ sent'[c] = Append(sent[c], p)
        BY <1>0, <1>1, <4>1, <4>3, ReaderGrows
      <4> QED
        BY <2>3, <4>2, <4>3
    <3> QED
      BY <3>1, <3>2
  <2> QED
    BY <2>9, <2>10, <2>11, <2>12, <2>13, AtBothEnds DEF d
<1> QED
  BY <1>2, <1>3
-----------------------------------------------------------------------------
(***************************************************************************)
(* The invariant, and what it says of a link.                              *)
(***************************************************************************)

LEMMA InitEnds == Init => Ends
<1> SUFFICES ASSUME Init PROVE Ends
  OBVIOUS
<1>1. Fresh
  BY PeerType DEF Init, Fresh
<1>2. Flow
  BY DEF Init, Flow, FlowOf
<1>3. ASSUME NEW c \in Conn PROVE ReaderOf(c)
  <2>1. dispatched[c] = <<>> /\ sent[Peer(c)] = <<>> /\ rd[c] = "none"
    BY PeerType DEF Init
  <2>2. IsPrefixOf(<<>>, <<>>)
    BY DEF IsPrefixOf
  <2> QED
    BY <2>1, <2>2 DEF ReaderOf
<1> QED
  BY <1>1, <1>2, <1>3 DEF Ends, Reader

LEMMA NextEnds == IInv /\ Ends /\ [Next]_vars => Ends'
<1> SUFFICES ASSUME IInv, Ends, [Next]_vars PROVE Ends'
  OBVIOUS
<1>1. ASSUME NEW c \in Conn, Start(c) PROVE Ends'
  BY <1>1, StartEnds
<1>2. ASSUME NEW c \in Conn, RunWrite(c) \/ WriteReady(c) PROVE Ends'
  BY <1>2, SendEnds
<1>3. ASSUME NEW c \in Conn, Receive(c) PROVE Ends'
  BY <1>3, ReadHandshakeEnds, ReadHeaderEnds, ReadPartEnds, ReadMsgEnds, ThrowEnds,
     ReadStallEnds DEF Receive
<1>4. ASSUME NEW c \in Conn, ReadFail(c) PROVE Ends'
  BY <1>4, ReadFailEnds
<1>5. ASSUME NEW c \in Conn, Destroy(c) PROVE Ends'
  BY <1>5, DestroyEnds
<1>6. ASSUME NEW c \in Conn, EndPoll(c) PROVE Ends'
  BY <1>6, EndPollEnds
<1>7. ASSUME NEW c \in Conn, MainTick(c) PROVE Ends'
  BY <1>7, MainTickEnds
<1>8. CASE UNCHANGED vars
  BY <1>8, ElsewhereEnds DEF vars, sendVars, recvVars, history
<1> QED
  BY <1>1, <1>2, <1>3, <1>4, <1>5, <1>6, <1>7, <1>8, CutEnds DEF Next

LEMMA StreamInvariant == Spec => []SInv
<1>1. Init => SInv
  BY InitIInv, InitEnds DEF SInv, Ends
<1>2. SInv /\ [Next]_vars => SInv'
  BY NextIInv, NextEnds DEF SInv, Ends
<1> QED
  BY <1>1, <1>2, PTL DEF Spec

(* What an endpoint passes to HandlePacket is what its peer passed to      *)
(* Send, in order and without a gap, as long as no Tick of the peer ran    *)
(* while a write of it was still going on (socket_connection.cpp).         *)
THEOREM DispatchedInOrder == Spec => []InOrder
<1>1. SInv => InOrder
  BY DEF SInv, Reader, ReaderOf, InOrder
<1> QED
  BY StreamInvariant, <1>1, PTL

(* The write in progress is the one of which something remains.            *)
LEMMA RemainderIs ==
    ASSUME NEW q \in Seq(WriteOp), NEW p \in Seq(WriteOp), NEW rem \in Seq(Cell), Sole(q, p, rem)
    PROVE  Remainder(q \o p) = rem
<1>0. <<>> \o p = p /\ Len(p) \in Nat
  BY ConcatEmptySeq, LenProperties
<1>1. CASE rem = <<>> /\ q = <<>> /\ Done(p)
  <2>1. Pending(p) = {}
    BY <1>1 DEF Pending, Done
  <2> QED
    BY <1>0, <1>1, <2>1 DEF Remainder
<1>2. CASE rem # <<>> /\ q = <<Unspent(rem)>> /\ Done(p)
  <2> DEFINE r == q \o p
  <2>0. Len(q) = 1 /\ q[1] = Unspent(rem)
    BY <1>2
  <2>1. /\ Len(r) = Len(q) + Len(p)
        /\ \A i \in 1 .. Len(q) + Len(p) :
              r[i] = IF i <= Len(q) THEN q[i] ELSE p[i - Len(q)]
    BY ConcatProperties
  <2> HIDE DEF r
  <2>2. Len(r) = 1 + Len(p) /\ r[1] = Unspent(rem)
    BY <1>0, <2>0, <2>1
  <2>3. ASSUME NEW i \in 1 .. Len(r), i # 1 PROVE r[i].rem = <<>>
    <3>1. i - 1 \in 1 .. Len(p) /\ i \in 1 .. 1 + Len(p) /\ ~(i <= 1)
      BY <1>0, <2>2, <2>3
    <3>2. r[i] = p[i - 1]
      BY <2>0, <2>1, <3>1
    <3> QED
      BY <1>2, <3>1, <3>2 DEF Done
  <2>4. 1 \in 1 .. Len(r)
    BY <1>0, <2>2
  <2>5. Pending(r) = {1}
    BY <1>2, <2>2, <2>3, <2>4 DEF Pending, Unspent
  <2>6. (CHOOSE i \in Pending(r) : TRUE) = 1
    BY <2>5
  <2>7. Remainder(r) = rem
    BY <2>2, <2>5, <2>6 DEF Remainder, Unspent
  <2> QED
    BY <2>7 DEF r
<1>3. CASE rem # <<>> /\ q = <<>> /\ OneLeft(p, rem)
  <2>1. PICK j \in 1 .. Len(p) : /\ p[j] = Unspent(rem)
                                 /\ \A i \in 1 .. Len(p) : i = j \/ p[i].rem = <<>>
    BY <1>3 DEF OneLeft
  <2>2. Pending(p) = {j}
    BY <1>3, <2>1 DEF Pending, Unspent
  <2>3. (CHOOSE i \in Pending(p) : TRUE) = j
    BY <2>2
  <2>4. Remainder(p) = rem
    BY <2>1, <2>2, <2>3 DEF Remainder, Unspent
  <2> QED
    BY <1>0, <1>3, <2>4
<1> QED
  BY <1>1, <1>2, <1>3 DEF Sole

(* No cell of a stream is lost, doubled or altered between Send and the    *)
(* reader: net, the write in progress and out_data hold all that is not    *)
(* consumed, in order; what a broken link still delivers is a prefix.      *)
THEOREM StreamConserved == Spec => []StreamIntact
<1>1. ASSUME SInv, NEW c \in Conn, ~overlapped[c], Reading(Peer(c))
      PROVE  LET n == Consumed(Peer(c))
                 flight == net[c] \o Remainder(Queued(c)) \o out_data[c]
             IN  /\ \A i \in 1 .. Len(net[c]) : net[c][i] = StreamCell(sent[c], n + i)
                 /\ ~Broken(c) /\ sock[c] = "open" =>
                       /\ n + Len(flight) = StreamLen(c)
                       /\ \A i \in 1 .. Len(flight) : flight[i] = StreamCell(sent[c], n + i)
  <2> DEFINE n == Consumed(Peer(c))
             flight == net[c] \o Remainder(Queued(c)) \o out_data[c]
  <2>0. /\ TypeOK /\ net[c] \in Seq(Cell) /\ out_data[c] \in Seq(Cell) /\ sent[c] \in Seq(Packet)
        /\ write_q[c] \in Seq(WriteOp) /\ posted[c] \in Seq(WriteOp)
    BY <1>1 DEF SInv, IInv, TypeOK
  <2>1. n \in Nat
    BY <2>0, PeerType, ConsumedType
  <2>2. CASE sock[c] = "new"
    <3>1. Len(net[c]) = 0
      BY <1>1, <2>2 DEF SInv, Fresh
    <3> QED
      BY <2>2, <3>1
  <2>3. CASE sock[c] # "new"
    <3> HIDE DEF n
    <3>1. /\ Front(sent[c], n, net[c])
          /\ ~Broken(c) => \E rem \in Seq(Cell) :
                /\ Sole(write_q[c], posted[c], rem)
                /\ Line(sent[c], n, net[c], rem, out_data[c])
      BY <1>1, <2>3 DEF SInv, Flow, FlowOf, n
    <3>2. ASSUME ~Broken(c)
          PROVE  n + Len(flight) = StreamLen(c) /\ Carries(sent[c], n, flight)
      <4>1. PICK rem \in Seq(Cell) : /\ Sole(write_q[c], posted[c], rem)
                                     /\ Line(sent[c], n, net[c], rem, out_data[c])
        BY <3>1, <3>2
      <4>2. Remainder(Queued(c)) = rem
        BY <2>0, <4>1, RemainderIs DEF Queued
      <4>3. /\ Len(net[c]) \in Nat /\ Len(rem) \in Nat /\ Len(out_data[c]) \in Nat
            /\ net[c] \o rem \in Seq(Cell) /\ Len(net[c] \o rem) = Len(net[c]) + Len(rem)
            /\ Len((net[c] \o rem) \o out_data[c]) = Len(net[c] \o rem) + Len(out_data[c])
        BY <2>0, LenProperties, ConcatProperties
      <4>4. Carries(sent[c], n, net[c] \o rem)
        BY <2>0, <2>1, <4>1, CarriesConcat DEF Line
      <4>5. n + Len(net[c] \o rem) = n + Len(net[c]) + Len(rem)
        BY <2>1, <4>3
      <4>6. Carries(sent[c], n + Len(net[c] \o rem), out_data[c])
        BY <4>1, <4>5 DEF Line
      <4>7. Carries(sent[c], n, (net[c] \o rem) \o out_data[c])
        BY <2>0, <2>1, <4>3, <4>4, <4>6, CarriesConcat
      <4>8. n + Len((net[c] \o rem) \o out_data[c]) = StreamLen(c)
        <5>1. n + Len(net[c]) + Len(rem) + Len(out_data[c]) = 1 + FrameLen * Len(sent[c])
          BY <4>1 DEF Line
        <5>2. n + (Len(net[c]) + Len(rem) + Len(out_data[c]))
                = n + Len(net[c]) + Len(rem) + Len(out_data[c])
          <6> DEFINE x == Len(net[c])
                     y == Len(rem)
                     z == Len(out_data[c])
          <6>1. n \in Nat /\ x \in Nat /\ y \in Nat /\ z \in Nat
            BY <2>1, <4>3
          <6> HIDE DEF x, y, z
          <6>2. n + (x + y + z) = n + x + y + z
            BY <6>1
          <6> QED
            BY <6>2 DEF x, y, z
        <5> QED
          BY <2>3, <4>3, <5>1, <5>2 DEF StreamLen
      <4> QED
        BY <4>2, <4>7, <4>8
    <3> HIDE DEF flight
    <3>3. \A i \in 1 .. Len(net[c]) : net[c][i] = StreamCell(sent[c], n + i)
      BY <3>1 DEF Front, Carries
    <3>4. ~Broken(c) => /\ n + Len(flight) = StreamLen(c)
                        /\ \A i \in 1 .. Len(flight) : flight[i] = StreamCell(sent[c], n + i)
      BY <3>2 DEF Carries
    <3> QED
      BY <3>3, <3>4 DEF n, flight
  <2> QED
    BY <2>2, <2>3
<1>2. SInv => StreamIntact
  BY <1>1 DEF StreamIntact, Reading
<1> QED
  BY StreamInvariant, <1>2, PTL
-----------------------------------------------------------------------------
(***************************************************************************)
(* A link that nobody resets and whose writes never overlap.               *)
(***************************************************************************)
Calm == ~down /\ \A c \in Conn : ~overlapped[c]
Well(c) == /\ phase[c] \in {"poll", "tick"} /\ sock[c] # "closed" /\ ~stopped[c] /\ ~failed[c]
           /\ sock[c] = "open" => rd[c] # "none"
Health == Calm => \A c \in Conn : Well(c)

(* A link does not become calm again.                                      *)
LEMMA CalmBefore ==
    ASSUME TypeOK, [Next]_vars, Calm'
    PROVE  Calm
<1>1. ASSUME NEW c \in Conn, MainTick(c) PROVE Calm
  <2>1. UNCHANGED down
    BY <1>1 DEF MainTick
  <2>2. \A d \in Conn : overlapped'[d] = overlapped[d] \/ overlapped'[d] = (overlapped[d] \/ Unfinished(d))
    BY <1>1, SMTT(30) DEF MainTick, Tick, TypeOK
  <2> QED
    BY <2>1, <2>2 DEF Calm
<1>2. ASSUME NEW c \in Conn, Receive(c) PROVE UNCHANGED <<down, overlapped>>
  BY <1>2 DEF Receive, ReadHandshake, ReadHeader, ReadPart, ReadMsg, Throw, ReadStall, history
<1>3. ASSUME NEW c \in Conn, \/ Start(c) \/ RunWrite(c) \/ WriteReady(c) \/ ReadFail(c)
                             \/ Destroy(c) \/ EndPoll(c)
      PROVE  UNCHANGED <<down, overlapped>>
  BY <1>3 DEF Start, RunWrite, WriteReady, ReadFail, Destroy, EndPoll, history
<1>4. UNCHANGED vars => UNCHANGED <<down, overlapped>>
  BY DEF vars, history
<1>5. ~Cut
  BY DEF Calm, Cut
<1>6. UNCHANGED <<down, overlapped>> => Calm
  BY DEF Calm
<1> QED
  BY <1>1, <1>2, <1>3, <1>4, <1>5, <1>6 DEF Next

(* A calm and healthy link is not broken, so no read fails; what arrives   *)
(* is what was sent, so no header is bad and no body is short.             *)
LEMMA NextHealth ==
    ASSUME SInv, Health, [Next]_vars
    PROVE  Health'
<1> SUFFICES ASSUME Calm', NEW e \in Conn PROVE (Well(e))'
  BY DEF Health
<1>0. TypeOK /\ Ends /\ IInv /\ Fresh
  BY DEF SInv, IInv, Ends
<1>1. Calm
  BY <1>0, CalmBefore
<1>2. \A c \in Conn : Well(c) /\ ~overlapped[c]
  BY <1>1 DEF Health, Calm
<1>3. Well(e)
  BY <1>2
<1>4. UNCHANGED <<phase[e], sock[e], stopped[e], failed[e], rd[e]>> => (Well(e))'
  BY <1>3 DEF Well
<1>5. ASSUME NEW c \in Conn, Start(c) PROVE (Well(e))'
  BY <1>0, <1>3, <1>5 DEF Start, Well, TypeOK
<1>6. ASSUME NEW c \in Conn, RunWrite(c) \/ WriteReady(c) PROVE (Well(e))'
  BY <1>4, <1>6 DEF RunWrite, WriteReady, recvVars
<1>7. ASSUME NEW c \in Conn, ReadHandshake(c) PROVE (Well(e))'
  BY <1>0, <1>3, <1>7 DEF ReadHandshake, NextRead, Well, TypeOK
<1>8. ASSUME NEW c \in Conn, ReadHeader(c) PROVE (Well(e))'
  <2>1. PICK h \in HeadersRead(Head(Incoming(c)), failed[c]) :
           /\ \/ headerIsGood(h) /\ UNCHANGED <<sock, write_q, posted>>
              \/ ~headerIsGood(h) /\ Close(c)
           /\ rd' = [rd EXCEPT ![c] = NextRead(Remaining(h))]
    BY <1>8 DEF ReadHeader
  <2>2. CanReceive(c) /\ rd[c] = "header" /\ ~overlapped[Peer(c)]
    BY <1>2, <1>8, PeerType DEF ReadHeader
  <2>3. headerIsGood(h)
    BY <1>0, <2>2, HeaderIs
  <2>4. \/ UNCHANGED <<phase, sock, stopped, failed>> /\ rd'[e] # "none"
        \/ UNCHANGED <<phase, sock, stopped, failed, rd[e]>>
    BY <1>0, <1>8, <2>1, <2>3 DEF ReadHeader, NextRead, TypeOK
  <2> QED
    BY <1>3, <2>4 DEF Well
<1>9. ASSUME NEW c \in Conn, ReadPart(c) PROVE (Well(e))'
  BY <1>4, <1>9 DEF ReadPart
<1>10. ASSUME NEW c \in Conn, ReadMsg(c) PROVE (Well(e))'
  <2> DEFINE k == nextLen[c] - Len(recv_buffer[c])
             body == recv_buffer[c] \o SubSeq(Incoming(c), 1, k)
  <2>1. /\ CanReceive(c) /\ rd[c] = "msg" /\ ~overlapped[Peer(c)]
        /\ k \in 1 .. Len(Incoming(c))
    BY <1>2, <1>10, PeerType DEF ReadMsg
  <2>2. EchoReads(body, failed[c]) = {"ok"}
    BY <1>0, <2>1, WholeBody
  <2>3. PICK r \in EchoReads(body, failed[c]) \ {"throw"} :
           failed' = [failed EXCEPT ![c] = @ \/ r = "short"]
    BY <1>10 DEF ReadMsg
  <2>4. r = "ok"
    BY <2>2
  <2>5. /\ UNCHANGED <<phase, sock, stopped, failed[e]>>
        /\ rd' = [rd EXCEPT ![c] = "header"]
    BY <1>0, <1>10, <2>3, <2>4 DEF ReadMsg, NextRead, TypeOK
  <2> QED
    BY <1>0, <1>3, <2>5 DEF Well, TypeOK
<1>11. ASSUME NEW c \in Conn PROVE ~Throw(c)
  <2> SUFFICES ASSUME Throw(c) PROVE FALSE
    OBVIOUS
  <2> DEFINE k == nextLen[c] - Len(recv_buffer[c])
             body == recv_buffer[c] \o SubSeq(Incoming(c), 1, k)
  <2>1. /\ CanReceive(c) /\ rd[c] = "msg" /\ ~overlapped[Peer(c)]
        /\ k \in 1 .. Len(Incoming(c)) /\ "throw" \in EchoReads(body, failed[c])
    BY <1>2, PeerType DEF Throw
  <2>2. EchoReads(body, failed[c]) = {"ok"}
    BY <1>0, <2>1, WholeBody
  <2> QED
    BY <2>1, <2>2
<1>12. ASSUME NEW c \in Conn PROVE ~ReadStall(c)
  <2> SUFFICES ASSUME ReadStall(c) PROVE FALSE
    OBVIOUS
  <2>1. CanReceive(c) /\ rd[c] = "msg" /\ ~overlapped[Peer(c)] /\ MAX_PKT_LEN < nextLen[c]
    BY <1>2, PeerType DEF ReadStall
  <2>2. nextLen[c] = BodyLen
    BY <1>0, <2>1, BodyIs
  <2> QED
    BY <2>1, <2>2, PacketsAssumption DEF BodyLen
<1>13. ASSUME NEW c \in Conn PROVE ~ReadFail(c)
  <2> SUFFICES ASSUME rd[c] # "none", Broken(c) PROVE FALSE
    BY DEF ReadFail
  <2>1. sock[c] = "open"
    BY <1>0, <1>2 DEF Well, Fresh, TypeOK
  <2>2. sock[Peer(c)] # "closed"
    BY <1>2, PeerType DEF Well
  <2> QED
    BY <1>1, <2>1, <2>2 DEF Broken, Calm
<1>14. ASSUME NEW c \in Conn PROVE ~Idle(c)
  BY <1>0, <1>2 DEF Idle, Well, TypeOK
<1>15. ASSUME NEW c \in Conn, Destroy(c) PROVE (Well(e))'
  BY <1>14, <1>15 DEF Destroy
<1>16. ASSUME NEW c \in Conn, EndPoll(c) PROVE (Well(e))'
  BY <1>0, <1>3, <1>14, <1>16 DEF EndPoll, Well, TypeOK, recvVars
<1>17. ASSUME NEW c \in Conn, MainTick(c) PROVE (Well(e))'
  BY <1>0, <1>3, <1>17 DEF MainTick, Well, TypeOK, recvVars
<1>18. ~Cut
  BY DEF Calm, Cut
<1>19. CASE UNCHANGED vars
  BY <1>4, <1>19 DEF vars, recvVars
<1>20. ASSUME NEW c \in Conn, Receive(c) PROVE (Well(e))'
  BY <1>7, <1>8, <1>9, <1>10, <1>11, <1>12, <1>20 DEF Receive
<1> QED
  BY <1>5, <1>6, <1>13, <1>15, <1>16, <1>17, <1>18, <1>19, <1>20 DEF Next

(* Without a reset and without overlapping writes every header is good, no *)
(* read stalls or comes up short, no exception ends a process and the      *)
(* client's io_service keeps running (socket_connection.cpp, client.cpp).  *)
THEOREM LinkStaysHealthy == Spec => []HealthyLink
<1>1. Init => Health
  BY DEF Init, Health, Well
<1>2. SInv /\ Health /\ [Next]_vars => Health'
  BY NextHealth
<1>3. SInv /\ Health => HealthyLink
  <2> SUFFICES ASSUME SInv, Health, Calm, NEW c \in Conn
               PROVE  Well(c) /\ (rd[c] = "msg" => nextLen[c] = BodyLen)
    BY DEF HealthyLink, Calm, Well
  <2>1. ~overlapped[Peer(c)] /\ ReaderOf(c)
    BY PeerType DEF Calm, SInv, Reader
  <2> QED
    BY <2>1 DEF Health, ReaderOf
<1> QED
  BY StreamInvariant, <1>1, <1>2, <1>3, PTL DEF Spec
-----------------------------------------------------------------------------
(***************************************************************************)
(* The packets of a link: it implements the packet channel, and echoes     *)
(* come back complete and in order.                                        *)
(*                                                                         *)
(* The n-th request of an endpoint carries the number n (Asked).  So does  *)
(* the n-th response, if the requests it answers arrived in order          *)
(* (Answered).                                                             *)
(***************************************************************************)
Requests(s, n)  == Channel!Count(s, Request, n)
Responses(s, n) == Channel!Count(s, Response, n)

(* The requests of c are numbered from 1, and pktcount is their number.    *)
Asked(c) ==
    /\ Requests(sent[c], Len(sent[c])) = pktcount[c]
    /\ \A i \in 1 .. Len(sent[c]) :
          sent[c][i].opcode = Request => sent[c][i].id = Requests(sent[c], i)

(* c has answered every request it was given, in the order of the requests *)
(* if that was the order in which its peer made them.                      *)
Answered(c) ==
    /\ Responses(sent[c], Len(sent[c])) = Requests(dispatched[c], Len(dispatched[c]))
    /\ ~overlapped[Peer(c)] =>
          \A i \in 1 .. Len(sent[c]) :
             sent[c][i].opcode = Response => sent[c][i].id = Responses(sent[c], i)

Numbered == \A c \in Conn : Asked(c) /\ Answered(c)
-----------------------------------------------------------------------------
(***************************************************************************)
(* Counting packets.                                                       *)
(***************************************************************************)

LEMMA CountIs ==
    \A s, o, n : Channel!Count(s, o, n) = Cardinality({i \in 1 .. n : s[i].opcode = o})
<1>1. \A S : Channel!Cardinality(S) = Cardinality(S)
  BY DEF Channel!Cardinality, Cardinality
<1> QED
  BY <1>1 DEF Channel!Count

LEMMA CountedFinite ==
    ASSUME NEW s, NEW o, NEW n \in Nat
    PROVE  IsFiniteSet({i \in 1 .. n : s[i].opcode = o})
<1>1. IsFiniteSet(1 .. n)
  BY FS_Interval
<1> QED
  BY <1>1, FS_Subset

LEMMA CountType ==
    ASSUME NEW s, NEW o, NEW n \in Nat
    PROVE  Channel!Count(s, o, n) \in Nat
  BY CountedFinite, FS_CardinalityType, CountIs

LEMMA CountNone == \A s, o : Channel!Count(s, o, 0) = 0
<1>1. \A s, o : {i \in 1 .. 0 : s[i].opcode = o} = {}
  OBVIOUS
<1> QED
  BY <1>1, FS_EmptySet, CountIs

(* Sequences that agree so far count alike.                                *)
LEMMA CountAgree ==
    ASSUME NEW s, NEW t, NEW o, NEW n \in Nat, \A i \in 1 .. n : s[i] = t[i]
    PROVE  Channel!Count(s, o, n) = Channel!Count(t, o, n)
<1>1. {i \in 1 .. n : s[i].opcode = o} = {i \in 1 .. n : t[i].opcode = o}
  OBVIOUS
<1> QED
  BY <1>1, CountIs

(* More packets never count less.                                          *)
LEMMA CountMore ==
    ASSUME NEW s, NEW o, NEW m \in Nat, NEW n \in Nat, m <= n
    PROVE  Channel!Count(s, o, m) <= Channel!Count(s, o, n)
<1> DEFINE A == {i \in 1 .. m : s[i].opcode = o}
           B == {i \in 1 .. n : s[i].opcode = o}
<1>1. A \in SUBSET B
  OBVIOUS
<1>2. IsFiniteSet(B)
  BY CountedFinite
<1> HIDE DEF A, B
<1>3. Cardinality(A) <= Cardinality(B)
  BY <1>1, <1>2, FS_Subset
<1> QED
  BY <1>3, CountIs DEF A, B

(* The next packet counts if it has the opcode.                            *)
LEMMA CountNext ==
    ASSUME NEW s, NEW o, NEW n \in Nat
    PROVE  Channel!Count(s, o, n + 1)
             = IF s[n + 1].opcode = o THEN Channel!Count(s, o, n) + 1 ELSE Channel!Count(s, o, n)
<1> DEFINE A == {i \in 1 .. n : s[i].opcode = o}
           B == {i \in 1 .. n + 1 : s[i].opcode = o}
<1>1. 1 .. n + 1 = (1 .. n) \cup {n + 1} /\ n + 1 \notin 1 .. n
  OBVIOUS
<1>2. B = IF s[n + 1].opcode = o THEN A \cup {n + 1} ELSE A
  BY <1>1
<1>3. IsFiniteSet(A) /\ n + 1 \notin A
  BY <1>1, CountedFinite
<1> HIDE DEF A, B
<1>4. Cardinality(A \cup {n + 1}) = Cardinality(A) + 1
  BY <1>3, FS_AddElement
<1>5. Cardinality(B) = IF s[n + 1].opcode = o THEN Cardinality(A) + 1 ELSE Cardinality(A)
  BY <1>2, <1>4
<1> QED
  BY <1>5, CountIs DEF A, B

(* Appending a packet.                                                     *)
LEMMA CountAppend ==
    ASSUME NEW s \in Seq(Packet), NEW p \in Packet, NEW o
    PROVE  /\ \A n \in 0 .. Len(s) : Channel!Count(Append(s, p), o, n) = Channel!Count(s, o, n)
           /\ Channel!Count(Append(s, p), o, Len(s) + 1)
                = IF p.opcode = o THEN Channel!Count(s, o, Len(s)) + 1
                                  ELSE Channel!Count(s, o, Len(s))
<1> DEFINE t == Append(s, p)
<1>1. /\ Len(s) \in Nat /\ \A i \in 1 .. Len(s) : t[i] = s[i]
      /\ t[Len(s) + 1] = p
  BY LenProperties, AppendProperties
<1> HIDE DEF t
<1>2. ASSUME NEW n \in 0 .. Len(s) PROVE Channel!Count(t, o, n) = Channel!Count(s, o, n)
  <2>1. n \in Nat /\ \A i \in 1 .. n : t[i] = s[i]
    BY <1>1
  <2> QED
    BY <2>1, CountAgree
<1>3. Channel!Count(t, o, Len(s) + 1)
        = IF t[Len(s) + 1].opcode = o THEN Channel!Count(t, o, Len(s)) + 1
                                      ELSE Channel!Count(t, o, Len(s))
  BY <1>1, CountNext
<1>4. Len(s) \in 0 .. Len(s)
  BY <1>1
<1> QED
  BY <1>1, <1>2, <1>3, <1>4 DEF t

(* If the packets with an opcode are numbered so far and the next one gets *)
(* the next number, they still are.                                        *)
Numbering(s, o) == \A i \in 1 .. Len(s) : s[i].opcode = o => s[i].id = Channel!Count(s, o, i)

LEMMA NumberingGrows ==
    ASSUME NEW s \in Seq(Packet), NEW p \in Packet, NEW o, Numbering(s, o),
           p.opcode = o => p.id = Channel!Count(s, o, Len(s)) + 1
    PROVE  Numbering(Append(s, p), o)
<1> DEFINE t == Append(s, p)
<1>1. /\ Len(s) \in Nat /\ Len(t) = Len(s) + 1 /\ t[Len(s) + 1] = p
      /\ \A i \in 1 .. Len(s) : t[i] = s[i]
  BY LenProperties, AppendProperties
<1>2. /\ \A n \in 0 .. Len(s) : Channel!Count(t, o, n) = Channel!Count(s, o, n)
      /\ p.opcode = o => Channel!Count(t, o, Len(s) + 1) = Channel!Count(s, o, Len(s)) + 1
  BY CountAppend
<1> HIDE DEF t
<1>3. ASSUME NEW i \in 1 .. Len(t), t[i].opcode = o PROVE t[i].id = Channel!Count(t, o, i)
  <2>1. CASE i = Len(s) + 1
    BY <1>1, <1>2, <1>3, <2>1
  <2>2. CASE i # Len(s) + 1
    <3>1. i \in 1 .. Len(s) /\ i \in 0 .. Len(s)
      BY <1>1, <2>2
    <3>2. s[i].id = Channel!Count(s, o, i)
      BY <1>1, <1>3, <3>1 DEF Numbering
    <3> QED
      BY <1>1, <1>2, <3>1, <3>2
  <2> QED
    BY <2>1, <2>2
<1> QED
  BY <1>3 DEF Numbering, t
-----------------------------------------------------------------------------
(***************************************************************************)
(* What a step does to packets: nothing, or c's main loop ran, or c was    *)
(* given a packet.                                                         *)
(***************************************************************************)
TickStep(c) ==
    /\ \E f \in BOOLEAN : overlapped' = [overlapped EXCEPT ![c] = @ \/ f]
    /\ UNCHANGED dispatched
    /\ \/ UNCHANGED <<sent, pktcount>>
       \/ /\ [opcode |-> Request, id |-> pktcount[c] + 1] \in Packet
          /\ pktcount' = [pktcount EXCEPT ![c] = @ + 1]
          /\ sent' = [sent EXCEPT ![c] =
                         Append(@, [opcode |-> Request, id |-> pktcount[c] + 1])]

HandleStep(c, p) ==
    /\ UNCHANGED <<pktcount, overlapped>>
    /\ dispatched' = [dispatched EXCEPT ![c] = Append(@, p)]
    /\ \/ /\ p.opcode = Request
          /\ sent' = [sent EXCEPT ![c] = Append(@, [opcode |-> Response, id |-> p.id])]
       \/ p.opcode = Response /\ UNCHANGED sent
    /\ ~overlapped[Peer(c)] => /\ Len(dispatched[c]) < Len(sent[Peer(c)])
                               /\ p = sent[Peer(c)][Len(dispatched[c]) + 1]

LEMMA PacketStep ==
    ASSUME SInv, [Next]_vars
    PROVE  \/ UNCHANGED <<sent, dispatched, pktcount, overlapped>>
           \/ \E c \in Conn : TickStep(c)
           \/ \E c \in Conn : \E p \in Packet : HandleStep(c, p)
<1>0. IInv /\ TypeOK /\ Ends
  BY DEF SInv, IInv, Ends
<1>1. ASSUME NEW c \in Conn, MainTick(c)
      PROVE  TickStep(c) \/ UNCHANGED <<sent, dispatched, pktcount, overlapped>>
  <2>1. UNCHANGED dispatched
    BY <1>1 DEF MainTick
  <2>2. CASE ~connected[c]
    BY <1>1, <2>2 DEF MainTick
  <2>3. CASE connected[c]
    <3>1. \E f \in BOOLEAN : overlapped' = [overlapped EXCEPT ![c] = @ \/ f]
      <4>1. Unfinished(c) \in BOOLEAN
        BY DEF Unfinished
      <4> QED
        BY <1>1, <2>3, <4>1 DEF MainTick, Tick
    <3>2. CASE UNCHANGED <<sent, pktcount>>
      BY <2>1, <3>1, <3>2 DEF TickStep
    <3>3. CASE pktcount[c] < MaxRequests /\ GenerateEchoRequest(c)
      <4>1. [opcode |-> Request, id |-> pktcount[c] + 1] \in Packet
        <5>1. pktcount[c] \in 0 .. MaxRequests /\ MaxRequests \in Nat
          BY <1>0, PacketsAssumption DEF TypeOK
        <5>2. pktcount[c] + 1 \in 0 .. MaxRequests
          BY <3>3, <5>1
        <5> QED
          BY <5>2 DEF Packet
      <4> QED
        BY <2>1, <3>1, <3>3, <4>1 DEF TickStep, GenerateEchoRequest
    <3> QED
      BY <1>1, <2>3, <3>2, <3>3 DEF MainTick
  <2> QED
    BY <2>2, <2>3
<1>2. ASSUME NEW c \in Conn, ReadMsg(c) PROVE \E p \in Packet : HandleStep(c, p)
  <2>1. PICK p \in Packet :
              /\ HandlePacket(c, p)
              /\ ~overlapped[Peer(c)] =>
                    /\ p = sent[Peer(c)][Len(dispatched[c]) + 1]
                    /\ Len(dispatched[c]) < Len(sent[Peer(c)])
    BY <1>0, <1>2, MsgHandled
  <2>2. UNCHANGED <<pktcount, overlapped>>
    BY <1>2 DEF ReadMsg
  <2>3. p.opcode = Request \/ p.opcode = Response
    BY DEF Packet
  <2>4. HandleStep(c, p)
    BY <2>1, <2>2, <2>3 DEF HandleStep, HandlePacket, Send, Request, Response
  <2> QED
    BY <2>4
<1>3. ASSUME NEW c \in Conn, Receive(c), ~ReadMsg(c)
      PROVE  UNCHANGED <<sent, dispatched, pktcount, overlapped>>
  BY <1>3 DEF Receive, ReadHandshake, ReadHeader, ReadPart, Throw, ReadStall, history
<1>4. ASSUME NEW c \in Conn, \/ Start(c) \/ RunWrite(c) \/ WriteReady(c) \/ ReadFail(c)
                             \/ Destroy(c) \/ EndPoll(c)
      PROVE  UNCHANGED <<sent, dispatched, pktcount, overlapped>>
  BY <1>4 DEF Start, RunWrite, WriteReady, ReadFail, Destroy, EndPoll, history
<1>5. UNCHANGED vars \/ Cut => UNCHANGED <<sent, dispatched, pktcount, overlapped>>
  BY DEF vars, Cut, history
<1> QED
  BY <1>1, <1>2, <1>3, <1>4, <1>5 DEF Next

(* An invariant of Numbered's two parts, step by step.                     *)
LEMMA AskedIs == \A c \in Conn :
    Asked(c) <=> /\ Requests(sent[c], Len(sent[c])) = pktcount[c]
                 /\ Numbering(sent[c], Request)
  BY DEF Asked, Numbering, Requests

LEMMA AnsweredIs == \A c \in Conn :
    Answered(c) <=>
       /\ Responses(sent[c], Len(sent[c])) = Requests(dispatched[c], Len(dispatched[c]))
       /\ ~overlapped[Peer(c)] => Numbering(sent[c], Response)
  BY DEF Answered, Numbering, Responses

LEMMA TickNumbered ==
    ASSUME TypeOK, Numbered, NEW c \in Conn, TickStep(c)
    PROVE  Numbered'
<1> DEFINE d == Peer(c)
           q == [opcode |-> Request, id |-> pktcount[c] + 1]
           s == sent[c]
<1>0. /\ Conn = {c, d} /\ d # c /\ Peer(d) = c
      /\ Asked(c) /\ Answered(c) /\ Asked(d) /\ Answered(d) /\ s \in Seq(Packet)
  BY TwoEnds DEF Numbered, TypeOK
<1>1. /\ UNCHANGED dispatched /\ overlapped'[d] = overlapped[d]
      /\ ~overlapped'[c] => ~overlapped[c]
  BY <1>0 DEF TickStep, TypeOK
<1>2. CASE UNCHANGED <<sent, pktcount>>
  BY <1>0, <1>1, <1>2 DEF Numbered, Asked, Answered
<1>3. CASE /\ q \in Packet
           /\ pktcount' = [pktcount EXCEPT ![c] = @ + 1]
           /\ sent' = [sent EXCEPT ![c] = Append(@, q)]
  <2>1. /\ sent'[c] = Append(s, q) /\ sent'[d] = sent[d]
        /\ pktcount'[c] = pktcount[c] + 1 /\ pktcount'[d] = pktcount[d]
    BY <1>0, <1>3 DEF TypeOK
  <2>2. /\ Requests(s, Len(s)) = pktcount[c] /\ Numbering(s, Request)
        /\ Responses(s, Len(s)) = Requests(dispatched[c], Len(dispatched[c]))
        /\ ~overlapped[d] => Numbering(s, Response)
    BY <1>0, AskedIs, AnsweredIs
  <2>3. q.opcode = Request /\ q.opcode # Response /\ q.id = pktcount[c] + 1
    BY DEF Request, Response
  <2> HIDE DEF q, s
  <2>4. Len(Append(s, q)) = Len(s) + 1
    BY <1>0, <1>3, AppendProperties
  <2>5. /\ Requests(Append(s, q), Len(s) + 1) = Requests(s, Len(s)) + 1
        /\ Responses(Append(s, q), Len(s) + 1) = Responses(s, Len(s))
    BY <1>0, <1>3, <2>3, CountAppend DEF Requests, Responses
  <2>6. Numbering(Append(s, q), Request)
    BY <1>0, <1>3, <2>2, <2>3, NumberingGrows DEF Requests
  <2>7. ~overlapped[d] => Numbering(Append(s, q), Response)
    BY <1>0, <1>3, <2>2, <2>3, NumberingGrows
  <2>8. (Asked(c))'
    BY <2>1, <2>2, <2>4, <2>5, <2>6 DEF Asked, Numbering, Requests
  <2>9. (Answered(c))'
    BY <1>1, <2>1, <2>2, <2>4, <2>5, <2>7 DEF Answered, Numbering, Responses
  <2>10. (Asked(d))' /\ (Answered(d))'
    BY <1>0, <1>1, <2>1 DEF Asked, Answered
  <2> QED
    BY <1>0, <2>8, <2>9, <2>10 DEF Numbered
<1> QED
  BY <1>2, <1>3 DEF TickStep

LEMMA HandleNumbered ==
    ASSUME SInv, Numbered, NEW c \in Conn, NEW p \in Packet, HandleStep(c, p)
    PROVE  Numbered'
<1> DEFINE d == Peer(c)
           a == [opcode |-> Response, id |-> p.id]
           s == sent[c]
           t == dispatched[c]
<1>0. /\ Conn = {c, d} /\ d \in Conn /\ d # c /\ Peer(d) = c
      /\ Asked(c) /\ Answered(c) /\ Asked(d) /\ Answered(d)
  BY TwoEnds DEF Numbered
<1>1. TypeOK /\ s \in Seq(Packet) /\ t \in Seq(Packet) /\ Len(t) \in Nat
  BY LenProperties DEF SInv, IInv, TypeOK
<1>2. /\ UNCHANGED <<pktcount, overlapped>>
      /\ dispatched'[c] = Append(t, p) /\ dispatched'[d] = dispatched[d]
  BY <1>0, <1>1 DEF HandleStep, TypeOK
<1>3. \/ p.opcode = Request /\ sent'[c] = Append(s, a) /\ sent'[d] = sent[d]
      \/ p.opcode = Response /\ UNCHANGED sent
  BY <1>0, <1>1 DEF HandleStep, TypeOK
<1>4. ~overlapped[d] => /\ Len(t) < Len(sent[d]) /\ p = sent[d][Len(t) + 1]
                        /\ \A i \in 1 .. Len(t) : t[i] = sent[d][i]
  BY DEF HandleStep, SInv, Reader, ReaderOf, IsPrefixOf
<1>5. /\ Requests(s, Len(s)) = pktcount[c] /\ Numbering(s, Request)
      /\ Responses(s, Len(s)) = Requests(t, Len(t))
      /\ ~overlapped[d] => Numbering(s, Response)
      /\ Numbering(sent[d], Request)
  BY <1>0, AskedIs, AnsweredIs
<1>6. a \in Packet /\ a.opcode = Response /\ a.id = p.id /\ Request # Response
  BY DEF Packet, Request, Response
<1>7. /\ Len(Append(t, p)) = Len(t) + 1
      /\ Requests(Append(t, p), Len(t) + 1)
           = IF p.opcode = Request THEN Requests(t, Len(t)) + 1 ELSE Requests(t, Len(t))
  BY <1>1, CountAppend, AppendProperties DEF Requests
<1>8. (Asked(d))' /\ (Answered(d))'
  BY <1>0, <1>2, <1>3 DEF Asked, Answered
<1> HIDE DEF a, s, t
<1>9. CASE p.opcode = Response /\ UNCHANGED sent
  <2>1. (Asked(c))'
    BY <1>0, <1>2, <1>9 DEF Asked
  <2>2. (Answered(c))'
    BY <1>0, <1>2, <1>5, <1>6, <1>7, <1>9 DEF Answered, s
  <2> QED
    BY <1>0, <1>8, <2>1, <2>2 DEF Numbered
<1>10. CASE p.opcode = Request /\ sent'[c] = Append(s, a)
  <2>1. Len(Append(s, a)) = Len(s) + 1
    BY <1>1, <1>6, AppendProperties
  <2>2. /\ Requests(Append(s, a), Len(s) + 1) = Requests(s, Len(s))
        /\ Responses(Append(s, a), Len(s) + 1) = Responses(s, Len(s)) + 1
    BY <1>1, <1>6, CountAppend DEF Requests, Responses
  <2>3. Numbering(Append(s, a), Request)
    BY <1>1, <1>5, <1>6, NumberingGrows
  <2>4. ASSUME ~overlapped[d] PROVE Numbering(Append(s, a), Response)
    <3>1. Len(t) + 1 \in 1 .. Len(sent[d])
      <4>1. Len(sent[d]) \in Nat
        BY <1>0, <1>1, LenProperties DEF TypeOK
      <4> QED
        BY <1>1, <1>4, <2>4, <4>1
    <3>2. p.id = Requests(sent[d], Len(t) + 1)
      BY <1>4, <1>5, <1>10, <2>4, <3>1 DEF Numbering, Requests
    <3>3. Requests(sent[d], Len(t) + 1) = Requests(sent[d], Len(t)) + 1
      BY <1>1, <1>4, <1>10, <2>4, CountNext DEF Requests
    <3>4. Requests(sent[d], Len(t)) = Requests(t, Len(t))
      BY <1>1, <1>4, <2>4, CountAgree DEF Requests
    <3>5. a.id = Responses(s, Len(s)) + 1
      BY <1>5, <1>6, <3>2, <3>3, <3>4
    <3> QED
      BY <1>1, <1>5, <1>6, <2>4, <3>5, NumberingGrows DEF Responses
  <2>5. (Asked(c))'
    BY <1>2, <1>5, <1>10, <2>1, <2>2, <2>3 DEF Asked, Numbering, Requests
  <2>6. (Answered(c))'
    BY <1>2, <1>5, <1>7, <1>10, <2>1, <2>2, <2>4 DEF Answered, Numbering, Responses
  <2> QED
    BY <1>0, <1>8, <2>5, <2>6 DEF Numbered
<1> QED
  BY <1>3, <1>9, <1>10

LEMMA InitNumbered == Init => Numbered
<1> SUFFICES ASSUME Init, NEW c \in Conn PROVE Asked(c) /\ Answered(c)
  BY DEF Numbered
<1>1. sent[c] = <<>> /\ dispatched[c] = <<>> /\ pktcount[c] = 0 /\ Len(<<>>) = 0
  BY DEF Init
<1> QED
  BY <1>1, CountNone DEF Asked, Answered, Requests, Responses

LEMMA NextNumbered == SInv /\ Numbered /\ [Next]_vars => Numbered'
<1> SUFFICES ASSUME SInv, Numbered, [Next]_vars PROVE Numbered'
  OBVIOUS
<1>0. TypeOK
  BY DEF SInv, IInv
<1>1. CASE UNCHANGED <<sent, dispatched, pktcount, overlapped>>
  BY <1>1 DEF Numbered, Asked, Answered
<1>2. ASSUME NEW c \in Conn, TickStep(c) PROVE Numbered'
  BY <1>0, <1>2, TickNumbered
<1>3. ASSUME NEW c \in Conn, NEW p \in Packet, HandleStep(c, p) PROVE Numbered'
  BY <1>3, HandleNumbered
<1> QED
  BY <1>1, <1>2, <1>3, PacketStep

LEMMA NumberedInvariant == Spec => [](SInv /\ Numbered)
<1>1. SInv /\ Numbered /\ [Next]_vars => Numbered'
  BY NextNumbered
<1> QED
  BY StreamInvariant, InitNumbered, <1>1, PTL DEF Spec
-----------------------------------------------------------------------------
(***************************************************************************)
(* The echoes.                                                             *)
(***************************************************************************)

(* A prefix holds no more packets with an opcode.                          *)
LEMMA PrefixCounts ==
    ASSUME NEW s \in Seq(Packet), NEW t \in Seq(Packet), NEW o, IsPrefixOf(t, s)
    PROVE  /\ Channel!Count(t, o, Len(t)) <= Channel!Count(s, o, Len(s))
           /\ Channel!Count(t, o, Len(t)) \in Nat /\ Channel!Count(s, o, Len(s)) \in Nat
<1>1. /\ Len(s) \in Nat /\ Len(t) \in Nat /\ Len(t) <= Len(s)
      /\ \A i \in 1 .. Len(t) : t[i] = s[i]
  BY LenProperties DEF IsPrefixOf
<1>2. Channel!Count(t, o, Len(t)) = Channel!Count(s, o, Len(t))
  BY <1>1, CountAgree
<1>3. Channel!Count(s, o, Len(t)) <= Channel!Count(s, o, Len(s))
  BY <1>1, CountMore
<1> QED
  BY <1>1, <1>2, <1>3, CountType

(* Of the requests an endpoint made it gets back the first ones, each      *)
(* once, in order, with the text it sent (client.cpp, echo_service.cpp), as*)
(* long as neither side's writes overlapped.                               *)
THEOREM EchoesIntact == Spec => []EchoIntegrity
<1>1. ASSUME SInv, Numbered, \A c \in Conn : ~overlapped[c], NEW c \in Conn
      PROVE  /\ Echoes(c, Len(dispatched[c])) <= pktcount[c]
             /\ \A i \in 1 .. Len(dispatched[c]) :
                   dispatched[c][i].opcode = Response => dispatched[c][i].id = Echoes(c, i)
  <2> DEFINE d == Peer(c)
  <2>1. /\ d \in Conn /\ Peer(d) = c /\ ~overlapped[c] /\ ~overlapped[d]
        /\ Asked(c) /\ Answered(d)
    BY <1>1, TwoEnds DEF Numbered
  <2>2. /\ sent[c] \in Seq(Packet) /\ sent[d] \in Seq(Packet)
        /\ dispatched[c] \in Seq(Packet) /\ dispatched[d] \in Seq(Packet)
        /\ pktcount[c] \in Nat
    BY <1>1, <2>1, PacketsAssumption DEF SInv, IInv, TypeOK
  <2>3. IsPrefixOf(dispatched[c], sent[d]) /\ IsPrefixOf(dispatched[d], sent[c])
    BY <1>1, <2>1 DEF SInv, Reader, ReaderOf
  <2>4. /\ Requests(sent[c], Len(sent[c])) = pktcount[c]
        /\ Responses(sent[d], Len(sent[d])) = Requests(dispatched[d], Len(dispatched[d]))
        /\ Numbering(sent[d], Response)
    BY <2>1, AskedIs, AnsweredIs
  <2> HIDE DEF d
  <2>5. Echoes(c, Len(dispatched[c])) <= pktcount[c]
    <3>1. /\ Responses(dispatched[c], Len(dispatched[c])) <= Responses(sent[d], Len(sent[d]))
          /\ Responses(dispatched[c], Len(dispatched[c])) \in Nat
      BY <2>2, <2>3, PrefixCounts DEF Responses
    <3>2. /\ Requests(dispatched[d], Len(dispatched[d])) <= Requests(sent[c], Len(sent[c]))
          /\ Requests(dispatched[d], Len(dispatched[d])) \in Nat
      BY <2>2, <2>3, PrefixCounts DEF Requests
    <3>3. Responses(dispatched[c], Len(dispatched[c])) <= pktcount[c]
      BY <2>2, <2>4, <3>1, <3>2
    <3> QED
      BY <3>3 DEF Echoes, Responses
  <2>6. ASSUME NEW i \in 1 .. Len(dispatched[c]), dispatched[c][i].opcode = Response
        PROVE  dispatched[c][i].id = Echoes(c, i)
    <3>1. /\ Len(dispatched[c]) \in Nat /\ Len(sent[d]) \in Nat
          /\ Len(dispatched[c]) <= Len(sent[d])
          /\ \A j \in 1 .. Len(dispatched[c]) : dispatched[c][j] = sent[d][j]
      BY <2>2, <2>3, LenProperties DEF IsPrefixOf
    <3>2. i \in 1 .. Len(sent[d]) /\ i \in Nat /\ \A j \in 1 .. i : dispatched[c][j] = sent[d][j]
      BY <3>1
    <3>3. sent[d][i].id = Channel!Count(sent[d], Response, i)
      BY <2>4, <2>6, <3>1, <3>2 DEF Numbering
    <3>4. Channel!Count(sent[d], Response, i) = Channel!Count(dispatched[c], Response, i)
      BY <3>2, CountAgree
    <3> QED
      BY <3>1, <3>3, <3>4 DEF Echoes
  <2> QED
    BY <2>5, <2>6
<1>2. SInv /\ Numbered => EchoIntegrity
  BY <1>1 DEF EchoIntegrity
<1> QED
  BY NumberedInvariant, <1>2, PTL
-----------------------------------------------------------------------------
(***************************************************************************)
(* The refinement.                                                         *)
(***************************************************************************)

LEMMA TickRefines ==
    ASSUME TypeOK, Numbered, NEW c \in Conn, TickStep(c)
    PROVE  Channel!Next \/ UNCHANGED <<sent, dispatched, overlapped>>
<1>1. PICK f \in BOOLEAN : overlapped' = [overlapped EXCEPT ![c] = @ \/ f]
  BY DEF TickStep
<1>2. CASE UNCHANGED sent
  <2>1. CASE f
    <3>1. overlapped' = [overlapped EXCEPT ![c] = TRUE]
      BY <1>1, <2>1
    <3>2. Channel!Fault(c)
      BY <1>2, <3>1 DEF TickStep, Channel!Fault
    <3> QED
      BY <3>2 DEF Channel!Next
  <2>2. CASE ~f
    <3>1. (overlapped[c] \/ f) = overlapped[c]
      BY <2>2 DEF TypeOK
    <3>2. overlapped' = overlapped
      BY <1>1, <3>1 DEF TypeOK
    <3> QED
      BY <1>2, <3>2 DEF TickStep
  <2> QED
    BY <2>1, <2>2
<1>3. CASE sent' = [sent EXCEPT ![c] = Append(@, [opcode |-> Request, id |-> pktcount[c] + 1])]
  <2>1. Channel!Count(sent[c], Request, Len(sent[c])) = pktcount[c]
    BY DEF Numbered, Asked, Requests
  <2>2. sent' = [sent EXCEPT ![c] =
                    Append(@, [opcode |-> Request,
                               id |-> Channel!Count(@, Request, Len(@)) + 1])]
    BY <1>3, <2>1
  <2>3. Channel!Ask(c)
    BY <1>1, <2>2 DEF TickStep, Channel!Ask
  <2> QED
    BY <2>3 DEF Channel!Next
<1> QED
  BY <1>2, <1>3 DEF TickStep

LEMMA HandleRefines ==
    ASSUME TypeOK, NEW c \in Conn, NEW p \in Packet, HandleStep(c, p)
    PROVE  Channel!Next
<1>1. p \in Channel!Deliverable(c)
  <2>1. CASE overlapped[Peer(c)]
    BY <2>1 DEF Channel!Deliverable, Packet
  <2>2. CASE ~overlapped[Peer(c)]
    <3> DEFINE n == Len(dispatched[c]) + 1
    <3>1. Len(dispatched[c]) \in Nat /\ Len(sent[Peer(c)]) \in Nat
      BY PeerType, LenProperties DEF TypeOK
    <3>2. p = sent[Peer(c)][n] /\ n \in 1 .. Len(sent[Peer(c)])
      BY <2>2, <3>1 DEF HandleStep
    <3> QED
      BY <2>2, <3>2 DEF Channel!Deliverable
  <2> QED
    BY <2>1, <2>2
<1>2. Channel!Deliver(c)
  BY <1>1 DEF HandleStep, Channel!Deliver
<1> QED
  BY <1>2 DEF Channel!Next

(* The link implements the packet channel: with bytes, frames, sockets and *)
(* main loops hidden, a step makes a request, delivers the next packet (or *)
(* any, once the sender's writes overlapped) or does nothing.              *)
THEOREM LinkImplementsChannel == Spec => ImplementsChannel
<1>1. Init => Channel!Init
  BY DEF Init, Channel!Init
<1>2. SInv /\ Numbered /\ [Next]_vars => [Channel!Next]_<<sent, dispatched, overlapped>>
  <2> SUFFICES ASSUME SInv, Numbered, [Next]_vars
               PROVE  Channel!Next \/ UNCHANGED <<sent, dispatched, overlapped>>
    OBVIOUS
  <2>1. TypeOK
    BY DEF SInv, IInv
  <2> QED
    BY <2>1, PacketStep, TickRefines, HandleRefines
<1> QED
  BY NumberedInvariant, <1>1, <1>2, PTL DEF Spec, ImplementsChannel, Channel!Spec
=============================================================================
