-------------------------- MODULE ConnectionProofs --------------------------
(***************************************************************************)
(* Theorems about Connection, for every size of the kernel buffers, of     *)
(* recv_buffer and of size_t, and any number of requests.                  *)
(***************************************************************************)
EXTENDS Connection, SequenceTheorems, TLAPS

USE PacketsAssumption, ConnectionAssumption

(* TypeOK is not inductive: a header that CheckOpcode rejects must not     *)
(* reach HandlePacket, and it does not because the socket is closed then,  *)
(* and the read after the handshake is one for a header because nextLen is *)
(* still what the constructor made it.                                     *)
GoodHeader == \A c \in Conn : sock[c] = "open" /\ rd[c] = "msg" => headerIsGood(recv_header[c])
FreshLen == \A c \in Conn : sock[c] = "new" \/ rd[c] = "handshake" => nextLen[c] = 0

IInv == TypeOK /\ GoodHeader /\ FreshLen
-----------------------------------------------------------------------------
(***************************************************************************)
(* The operators the actions are built from.                               *)
(***************************************************************************)

(* What is written on the wire is a sequence of cells.                     *)
LEMMA CellTypes ==
    /\ Handshake \in Cell /\ Junk \in Cell
    /\ \A p \in Packet : Encode(p) \in Seq(Cell)
  BY DEF Handshake, Junk, NoPacket, NoId, Packet, Cell, Encode, Request

(* size_t arithmetic stays in the range of size_t.                         *)
LEMMA RemainingType == \A h \in Header : Remaining(h) \in 0 .. SizeMod - 1
<1> SUFFICES ASSUME NEW h \in Header PROVE Remaining(h) \in 0 .. SizeMod - 1
  OBVIOUS
<1>1. h.packet_size - HeaderLen \in Int
  BY DEF Header, HeaderLen
<1>2. SizeMod \in Nat \ {0}
  BY DEF HeaderLen
<1> QED
  BY <1>1, <1>2 DEF Remaining

(* Whatever bytes are read as a header, the fields are in range.           *)
LEMMA HeadersReadType ==
    \A cell \in Cell, f \in BOOLEAN : HeadersRead(cell, f) \subseteq Header
<1> SUFFICES ASSUME NEW cell \in Cell, NEW f \in BOOLEAN
             PROVE  HeadersRead(cell, f) \subseteq Header
  OBVIOUS
<1>1. CASE f
  <2>1. [packet_size |-> 0, service_tag |-> Char, opcode |-> Request] \in Header
    BY DEF Header, Char, Request, HeaderLen
  <2> QED
    BY <1>1, <2>1 DEF HeadersRead
<1>2. CASE ~f /\ cell.kind = "header"
  <2>1. cell.pkt \in Packet
    BY DEF Cell
  <2>2. cell.pkt.opcode \in 0 .. 2
    BY <2>1 DEF Packet, Request, Response
  <2>3. [packet_size |-> HeaderLen + BodyLen, service_tag |-> Char,
         opcode |-> cell.pkt.opcode] \in Header
    BY <2>2 DEF Header, Char, HeaderLen, BodyLen
  <2> QED
    BY <1>2, <2>3 DEF HeadersRead
<1>3. CASE ~f /\ cell.kind # "header"
  <2>1. [packet_size : GarbledSizes, service_tag : {Char, 1}, opcode : 0 .. 2]
          \subseteq Header
    BY DEF Header
  <2> QED
    BY <1>3, <2>1 DEF HeadersRead
<1> QED
  BY <1>1, <1>2, <1>3

(* The text of a packet has a number.                                      *)
LEMMA TextIdType == \A body \in Seq(Cell) : TextId(body) \in 0 .. MaxRequests
<1> SUFFICES ASSUME NEW body \in Seq(Cell) PROVE TextId(body) \in 0 .. MaxRequests
  OBVIOUS
<1>1. CASE Len(body) >= BodyLen
  <2>1. body[BodyLen] \in Cell
    BY <1>1, ElementOfSeq, LenProperties DEF BodyLen
  <2>2. body[BodyLen].pkt.id \in 0 .. MaxRequests
    BY <2>1 DEF Cell, Packet
  <2> QED
    BY <2>2 DEF TextId, NoId
<1>2. CASE ~(Len(body) >= BodyLen)
  BY <1>2 DEF TextId, NoId
<1> QED
  BY <1>1, <1>2

(* Dropping or keeping the first cells of a sequence.                      *)
LEMMA SplitSeq ==
    ASSUME NEW S, NEW s \in Seq(S), NEW k \in 0 .. Len(s)
    PROVE  /\ SubSeq(s, 1, k) \in Seq(S) /\ Len(SubSeq(s, 1, k)) = k
           /\ SubSeq(s, k + 1, Len(s)) \in Seq(S)
           /\ Len(SubSeq(s, k + 1, Len(s))) = Len(s) - k
<1>1. \A i \in 1 .. Len(s) : s[i] \in S
  BY ElementOfSeq
<1>2. /\ SubSeq(s, 1, k) \in Seq(S) /\ Len(SubSeq(s, 1, k)) = k
  BY <1>1, SubSeqProperties
<1>3. /\ SubSeq(s, k + 1, Len(s)) \in Seq(S)
      /\ Len(SubSeq(s, k + 1, Len(s))) = IF k + 1 <= Len(s) THEN Len(s) - (k + 1) + 1 ELSE 0
  <2>1. \A i \in k + 1 .. Len(s) : s[i] \in S
    BY <1>1
  <2> QED
    BY <2>1, SubSeqProperties
<1> QED
  BY <1>2, <1>3

(* The two ways the code changes an operation keep it one.                 *)
LEMMA OpTypes == \A op \in WriteOp :
    /\ [op EXCEPT !.stale = TRUE] \in WriteOp
    /\ \A cells \in Seq(Cell) : [op EXCEPT !.rem = cells] \in WriteOp
  BY DEF WriteOp

(* Freeing or aborting the operations of a queue keeps it a queue.         *)
LEMMA QueueTypes ==
    \A q \in Seq(WriteOp) : Freed(q) \in Seq(WriteOp) /\ Aborted(q) \in Seq(WriteOp)
<1> SUFFICES ASSUME NEW q \in Seq(WriteOp)
             PROVE  Freed(q) \in Seq(WriteOp) /\ Aborted(q) \in Seq(WriteOp)
  OBVIOUS
<1>1. \A i \in 1 .. Len(q) : q[i] \in WriteOp
  BY ElementOfSeq
<1>2. \A i \in 1 .. Len(q) : /\ [q[i] EXCEPT !.stale = TRUE] \in WriteOp
                            /\ [q[i] EXCEPT !.rem = <<>>] \in WriteOp
  BY <1>1, OpTypes, EmptySeq
<1>3. Len(q) \in Nat
  BY LenProperties
<1>4. Freed(q) \in [1 .. Len(q) -> WriteOp]
  BY <1>2 DEF Freed
<1>5. Aborted(q) \in [1 .. Len(q) -> WriteOp]
  BY <1>2 DEF Aborted
<1> QED
  BY <1>3, <1>4, <1>5, SeqDef

(* The lesser of two lengths.                                              *)
LEMMA LesserType == \A a, b \in Nat : /\ Lesser(a, b) \in 0 .. b
                                      /\ Lesser(a, b) <= a
  BY DEF Lesser

(* A send leaves an operation behind and never overfills the kernel.       *)
LEMMA PerformedType ==
    ASSUME TypeOK, NEW c \in Conn, NEW op \in WriteOp, NEW r \in Performed(c, op)
    PROVE  /\ r.op \in WriteOp /\ r.cells \in Seq(Cell)
           /\ Len(net[c]) + Len(r.cells) <= SndCap
<1> DEFINE k == Lesser(SndCap - Len(net[c]), Len(op.rem))
<1>1. Len(net[c]) \in 0 .. SndCap
  BY LenProperties DEF TypeOK
<1>2. op.rem \in Seq(Cell) /\ Len(op.rem) \in Nat /\ op.stale \in BOOLEAN
  BY LenProperties DEF WriteOp
<1>3. CASE Broken(c)
  <2>1. r = [op |-> [op EXCEPT !.rem = <<>>], cells |-> <<>>]
    BY <1>3 DEF Performed
  <2>2. r.op \in WriteOp /\ r.cells = <<>>
    BY <2>1, OpTypes, EmptySeq
  <2> QED
    BY <2>2, <1>1, EmptySeq
<1>4. CASE ~Broken(c)
  <2>1. k \in 0 .. Len(op.rem) /\ k <= SndCap - Len(net[c])
    <3>1. SndCap - Len(net[c]) \in Nat
      BY <1>1
    <3> QED
      BY <1>2, <3>1, LesserType
  <2> DEFINE left == [op EXCEPT !.rem = SubSeq(op.rem, k + 1, Len(op.rem))]
  <2>2. PICK cells \in Fetched(op, k) : r = [op |-> left, cells |-> cells]
    BY <1>4 DEF Performed
  <2> HIDE DEF k
  <2>3. /\ SubSeq(op.rem, 1, k) \in Seq(Cell) /\ Len(SubSeq(op.rem, 1, k)) = k
        /\ SubSeq(op.rem, k + 1, Len(op.rem)) \in Seq(Cell)
    BY <2>1, <1>2, SplitSeq
  <2>4. [i \in 1 .. k |-> Junk] \in Seq(Cell) /\ Len([i \in 1 .. k |-> Junk]) = k
    BY <2>1, CellTypes, SeqDef
  <2>5. cells \in Seq(Cell) /\ Len(cells) = k
    BY <2>2, <2>3, <2>4 DEF Fetched
  <2>6. left \in WriteOp
    BY <2>3, OpTypes
  <2> HIDE DEF left
  <2>7. r.op \in WriteOp /\ r.cells = cells
    BY <2>2, <2>6
  <2> QED
    BY <2>1, <2>5, <2>7, <1>1
<1> QED
  BY <1>3, <1>4

(* c hands cells to the kernel, which had room for them.                   *)
NetOK == net \in [Conn -> Seq(Cell)] /\ \A c \in Conn : Len(net[c]) <= SndCap
LEMMA NetGrows ==
    ASSUME TypeOK, NEW c \in Conn, NEW cells \in Seq(Cell),
           Len(net[c]) + Len(cells) <= SndCap,
           net' = [net EXCEPT ![c] = @ \o cells]
    PROVE  NetOK'
<1>1. net[c] \in Seq(Cell)
  BY DEF TypeOK
<1>2. net[c] \o cells \in Seq(Cell) /\ Len(net[c] \o cells) <= SndCap
  BY <1>1, ConcatProperties
<1> HIDE DEF NetOK
<1>3. net' \in [Conn -> Seq(Cell)]
  BY <1>2 DEF TypeOK
<1>4. ASSUME NEW d \in Conn PROVE Len(net'[d]) <= SndCap
  BY <1>2 DEF TypeOK
<1> QED
  BY <1>3, <1>4 DEF NetOK

(* Starting a write keeps the queues queues and the kernel within bounds.  *)
LEMMA StartWriteType ==
    ASSUME TypeOK, NEW c \in Conn, NEW op \in WriteOp,
           NEW q \in Seq(WriteOp), NEW p \in Seq(WriteOp), StartWrite(c, op, q, p)
    PROVE  /\ write_q' \in [Conn -> Seq(WriteOp)] /\ posted' \in [Conn -> Seq(WriteOp)]
           /\ NetOK'
<1>1. CASE /\ \E r \in Performed(c, op) :
                 /\ posted' = [posted EXCEPT ![c] = Append(p, r.op)]
                 /\ net' = [net EXCEPT ![c] = @ \o r.cells]
           /\ write_q' = [write_q EXCEPT ![c] = q]
  <2>1. PICK r \in Performed(c, op) :
              /\ posted' = [posted EXCEPT ![c] = Append(p, r.op)]
              /\ net' = [net EXCEPT ![c] = @ \o r.cells]
    BY <1>1
  <2>2. /\ r.op \in WriteOp /\ r.cells \in Seq(Cell)
        /\ Len(net[c]) + Len(r.cells) <= SndCap
    BY PerformedType
  <2>3. NetOK'
    BY <2>1, <2>2, NetGrows
  <2>4. Append(p, r.op) \in Seq(WriteOp)
    BY <2>2, AppendProperties
  <2> QED
    BY <1>1, <2>1, <2>3, <2>4 DEF TypeOK
<1>2. CASE /\ write_q' = [write_q EXCEPT ![c] = Append(q, op)]
           /\ posted' = [posted EXCEPT ![c] = p]
           /\ UNCHANGED net
  <2>1. Append(q, op) \in Seq(WriteOp)
    BY AppendProperties
  <2> QED
    BY <1>2, <2>1 DEF TypeOK, NetOK
<1> QED
  BY <1>1, <1>2 DEF StartWrite

(* Peers are endpoints.                                                    *)
LEMMA PeerType == \A c \in Conn : Peer(c) \in Conn /\ Peer(c) # c
  BY DEF Peer, Conn, Client, Server

(* Receiving takes cells off the net.                                      *)
LEMMA TakeType ==
    ASSUME TypeOK, NEW c \in Conn, NEW k \in 1 .. Len(Incoming(c)), Take(c, k)
    PROVE  NetOK' /\ SubSeq(Incoming(c), 1, k) \in Seq(Cell)
<1> DEFINE d == Peer(c)
<1>1. d \in Conn /\ net[d] \in Seq(Cell) /\ Len(net[d]) \in 0 .. SndCap
  BY PeerType, LenProperties, SMTT(30) DEF TypeOK
<1>2. k \in 0 .. Len(net[d])
  BY DEF Incoming
<1>3. /\ SubSeq(net[d], 1, k) \in Seq(Cell)
      /\ SubSeq(net[d], k + 1, Len(net[d])) \in Seq(Cell)
      /\ Len(SubSeq(net[d], k + 1, Len(net[d]))) = Len(net[d]) - k
  BY <1>1, <1>2, SplitSeq
<1>4. Len(SubSeq(net[d], k + 1, Len(net[d]))) <= SndCap
  BY <1>1, <1>2, <1>3
<1>5. net' = [net EXCEPT ![d] = SubSeq(net[d], k + 1, Len(net[d]))]
  BY DEF Take
<1> HIDE DEF d
<1>6. net' \in [Conn -> Seq(Cell)]
  BY <1>1, <1>3, <1>5 DEF TypeOK
<1>7. ASSUME NEW e \in Conn PROVE Len(net'[e]) <= SndCap
  BY <1>1, <1>4, <1>5 DEF TypeOK
<1> QED
  BY <1>3, <1>6, <1>7 DEF NetOK, Incoming, d
-----------------------------------------------------------------------------
(***************************************************************************)
(* The inductive step, one lemma per action.                               *)
(***************************************************************************)

(* The two conjuncts beside TypeOK depend on four variables.               *)
LEMMA ReadStateKept ==
    ASSUME IInv, UNCHANGED <<sock, rd, nextLen, recv_header>>
    PROVE  GoodHeader' /\ FreshLen'
  BY DEF IInv, GoodHeader, FreshLen, headerIsGood, CheckOpcode

LEMMA StartStep ==
    ASSUME IInv, NEW c \in Conn, Start(c)
    PROVE  IInv'
<1> USE DEF IInv, Start, sendVars, recvVars, history
<1>1. Append(out_data[c], Handshake) \in Seq(Cell)
  BY CellTypes, AppendProperties DEF TypeOK
<1>2. TypeOK'
  BY <1>1 DEF TypeOK
<1>3. GoodHeader' /\ FreshLen'
  BY DEF TypeOK, GoodHeader, FreshLen
<1> QED
  BY <1>2, <1>3

LEMMA RunWriteStep ==
    ASSUME IInv, NEW c \in Conn, RunWrite(c)
    PROVE  IInv'
<1> DEFINE op == Head(posted[c])
           rest == Tail(posted[c])
<1>0. TypeOK
  BY DEF IInv
<1>1. op \in WriteOp /\ rest \in Seq(WriteOp) /\ write_q[c] \in Seq(WriteOp)
  BY <1>0, HeadTailProperties DEF RunWrite, TypeOK
<1>2. /\ write_q' \in [Conn -> Seq(WriteOp)] /\ posted' \in [Conn -> Seq(WriteOp)]
      /\ NetOK'
  <2>1. CASE op.rem = <<>>
    BY <1>0, <1>1, <2>1 DEF RunWrite, TypeOK, NetOK
  <2>2. CASE op.rem # <<>>
    <3>1. StartWrite(c, op, write_q[c], rest)
      BY <2>2 DEF RunWrite
    <3> HIDE DEF op, rest
    <3> QED
      BY <1>0, <1>1, <3>1, StartWriteType
  <2> QED
    BY <2>1, <2>2
<1>3. UNCHANGED <<phase, stopped, connected, ready, sock, out_data, down, recvVars,
                  pktcount, history>>
  BY DEF RunWrite
<1>4. TypeOK'
  BY <1>0, <1>2, <1>3 DEF TypeOK, NetOK, recvVars, history
<1>5. GoodHeader' /\ FreshLen'
  BY <1>3, ReadStateKept DEF recvVars
<1> QED
  BY <1>4, <1>5 DEF IInv

LEMMA WriteReadyStep ==
    ASSUME IInv, NEW c \in Conn, WriteReady(c)
    PROVE  IInv'
<1>0. TypeOK
  BY DEF IInv
<1>1. /\ Head(write_q[c]) \in WriteOp /\ Tail(write_q[c]) \in Seq(WriteOp)
      /\ posted[c] \in Seq(WriteOp)
  BY <1>0, HeadTailProperties DEF WriteReady, TypeOK
<1>2. PICK r \in Performed(c, Head(write_q[c])) :
         /\ net' = [net EXCEPT ![c] = @ \o r.cells]
         /\ \/ /\ write_q' = [write_q EXCEPT ![c] =
                                IF r.op.rem = <<>> THEN Tail(@) ELSE Append(Tail(@), r.op)]
               /\ UNCHANGED posted
            \/ /\ write_q' = [write_q EXCEPT ![c] = Tail(@)]
               /\ posted' = [posted EXCEPT ![c] = Append(@, r.op)]
  BY DEF WriteReady
<1>3. /\ r.op \in WriteOp /\ r.cells \in Seq(Cell)
      /\ Len(net[c]) + Len(r.cells) <= SndCap
  BY <1>0, <1>1, PerformedType
<1>4. NetOK'
  BY <1>0, <1>2, <1>3, NetGrows
<1>5. /\ Append(Tail(write_q[c]), r.op) \in Seq(WriteOp)
      /\ Append(posted[c], r.op) \in Seq(WriteOp)
  BY <1>1, <1>3, AppendProperties
<1>6. write_q' \in [Conn -> Seq(WriteOp)] /\ posted' \in [Conn -> Seq(WriteOp)]
  <2> DEFINE q == IF r.op.rem = <<>> THEN Tail(write_q[c]) ELSE Append(Tail(write_q[c]), r.op)
  <2>1. q \in Seq(WriteOp)
    BY <1>1, <1>5
  <2>2. write_q' = [write_q EXCEPT ![c] = q] \/ write_q' = [write_q EXCEPT ![c] = Tail(write_q[c])]
    BY <1>2
  <2>3. posted' = posted \/ posted' = [posted EXCEPT ![c] = Append(posted[c], r.op)]
    BY <1>2
  <2>4. write_q \in [Conn -> Seq(WriteOp)] /\ posted \in [Conn -> Seq(WriteOp)]
    BY <1>0 DEF TypeOK
  <2> HIDE DEF q
  <2>5. write_q' \in [Conn -> Seq(WriteOp)]
    BY <1>1, <2>1, <2>2, <2>4
  <2>6. posted' \in [Conn -> Seq(WriteOp)]
    BY <1>5, <2>3, <2>4
  <2> QED
    BY <2>5, <2>6
<1>7. UNCHANGED <<phase, stopped, connected, ready, sock, out_data, down, recvVars,
                  pktcount, history>>
  BY DEF WriteReady
<1>8. TypeOK'
  BY <1>0, <1>4, <1>6, <1>7 DEF TypeOK, NetOK, recvVars, history
<1>9. GoodHeader' /\ FreshLen'
  BY <1>7, ReadStateKept DEF recvVars
<1> QED
  BY <1>8, <1>9 DEF IInv

LEMMA ReadHandshakeStep ==
    ASSUME IInv, NEW c \in Conn, ReadHandshake(c)
    PROVE  IInv'
<1>0. TypeOK
  BY DEF IInv
<1>1. 1 \in 1 .. Len(Incoming(c))
  BY <1>0, PeerType, EmptySeq DEF ReadHandshake, CanReceive, Incoming, TypeOK
<1>2. NetOK'
  BY <1>0, <1>1, TakeType DEF ReadHandshake
<1>3. TypeOK'
  BY <1>0, <1>2 DEF ReadHandshake, TypeOK, NetOK, NextRead, sendVars, history
<1>4. nextLen[c] = 0
  BY DEF IInv, FreshLen, ReadHandshake
<1>5. rd' = [rd EXCEPT ![c] = "header"] /\ UNCHANGED <<sock, nextLen, recv_header>>
  BY <1>4 DEF ReadHandshake, NextRead
<1>6. GoodHeader' /\ FreshLen'
  BY <1>0, <1>5 DEF IInv, TypeOK, GoodHeader, FreshLen
<1> QED
  BY <1>3, <1>6 DEF IInv

LEMMA ReadHeaderStep ==
    ASSUME IInv, NEW c \in Conn, ReadHeader(c)
    PROVE  IInv'
<1>0. TypeOK
  BY DEF IInv
<1>1. 1 \in 1 .. Len(Incoming(c)) /\ Head(Incoming(c)) \in Cell
  BY <1>0, PeerType, EmptySeq, HeadTailProperties DEF ReadHeader, CanReceive, Incoming, TypeOK
<1>2. NetOK'
  BY <1>0, <1>1, TakeType DEF ReadHeader
<1>3. PICK h \in HeadersRead(Head(Incoming(c)), failed[c]) :
         /\ \/ headerIsGood(h) /\ UNCHANGED <<sock, write_q, posted>>
            \/ ~headerIsGood(h) /\ Close(c)
         /\ recv_header' = [recv_header EXCEPT ![c] = h]
         /\ nextLen' = [nextLen EXCEPT ![c] = Remaining(h)]
         /\ rd' = [rd EXCEPT ![c] = NextRead(Remaining(h))]
  BY DEF ReadHeader
<1>4. h \in Header /\ Remaining(h) \in 0 .. SizeMod - 1
  BY <1>0, <1>1, <1>3, HeadersReadType, RemainingType DEF TypeOK
<1>5. /\ sock' \in [Conn -> {"new", "open", "closed"}]
      /\ write_q' \in [Conn -> Seq(WriteOp)] /\ posted' \in [Conn -> Seq(WriteOp)]
  <2>1. CASE UNCHANGED <<sock, write_q, posted>>
    BY <1>0, <2>1 DEF TypeOK
  <2>2. CASE Close(c)
    <3>1. posted[c] \o Aborted(write_q[c]) \in Seq(WriteOp)
      BY <1>0, QueueTypes, ConcatProperties DEF TypeOK
    <3>2. <<>> \in Seq(WriteOp)
      BY EmptySeq
    <3> QED
      BY <1>0, <2>2, <3>1, <3>2 DEF Close, TypeOK
  <2> QED
    BY <1>3, <2>1, <2>2
<1>6. UNCHANGED <<phase, stopped, connected, ready, out_data, down, recv_buffer, failed,
                  pktcount, history>>
  BY DEF ReadHeader
<1>7. TypeOK'
  BY <1>0, <1>2, <1>3, <1>4, <1>5, <1>6 DEF TypeOK, NetOK, NextRead, history
<1>8. \/ headerIsGood(h) /\ UNCHANGED sock
      \/ sock' = [sock EXCEPT ![c] = "closed"]
  BY <1>3 DEF Close
<1>9. GoodHeader'
  BY <1>0, <1>3, <1>8 DEF IInv, TypeOK, GoodHeader
<1>10. sock[c] = "open"
  BY DEF ReadHeader, CanReceive
<1>11. FreshLen'
  BY <1>0, <1>3, <1>8, <1>10 DEF IInv, TypeOK, FreshLen, NextRead
<1> QED
  BY <1>7, <1>9, <1>11 DEF IInv

LEMMA ReadPartStep ==
    ASSUME IInv, NEW c \in Conn, ReadPart(c)
    PROVE  IInv'
<1>0. TypeOK
  BY DEF IInv
<1>1. PICK k \in 1 .. Len(Incoming(c)) :
         /\ recv_buffer' = [recv_buffer EXCEPT ![c] = @ \o SubSeq(Incoming(c), 1, k)]
         /\ Take(c, k)
  BY DEF ReadPart
<1>2. NetOK' /\ SubSeq(Incoming(c), 1, k) \in Seq(Cell)
  BY <1>0, <1>1, TakeType
<1>3. recv_buffer[c] \o SubSeq(Incoming(c), 1, k) \in Seq(Cell)
  BY <1>0, <1>2, ConcatProperties DEF TypeOK
<1>4. UNCHANGED <<phase, stopped, connected, ready, sock, sendVars, down, rd, nextLen,
                  recv_header, failed, pktcount, history>>
  BY DEF ReadPart
<1>5. TypeOK'
  BY <1>0, <1>1, <1>2, <1>3, <1>4 DEF TypeOK, NetOK, sendVars, history
<1>6. GoodHeader' /\ FreshLen'
  BY <1>4, ReadStateKept
<1> QED
  BY <1>5, <1>6 DEF IInv

(* A packet whose header was good is one HandlePacket knows.               *)
LEMMA HandlePacketType ==
    ASSUME TypeOK, NEW c \in Conn, NEW p \in Packet, HandlePacket(c, p)
    PROVE  /\ dispatched' \in [Conn -> Seq(Packet)] /\ sent' \in [Conn -> Seq(Packet)]
           /\ out_data' \in [Conn -> Seq(Cell)]
<1> DEFINE answer == [opcode |-> Response, id |-> p.id]
<1>1. answer \in Packet
  BY DEF Packet
<1> HIDE DEF answer
<1>2. dispatched' = [dispatched EXCEPT ![c] = Append(@, p)]
  BY DEF HandlePacket
<1>3. Append(dispatched[c], p) \in Seq(Packet)
  BY AppendProperties DEF TypeOK
<1>4. Append(sent[c], answer) \in Seq(Packet)
  BY <1>1, AppendProperties DEF TypeOK
<1>5. out_data[c] \o Encode(answer) \in Seq(Cell)
  BY <1>1, CellTypes, ConcatProperties DEF TypeOK
<1>6. \/ Send(c, answer)
      \/ UNCHANGED <<out_data, sent>>
  BY DEF HandlePacket, answer
<1> QED
  BY <1>2, <1>3, <1>4, <1>5, <1>6, ZenonT(40) DEF Send, TypeOK

LEMMA ReadMsgStep ==
    ASSUME IInv, NEW c \in Conn, ReadMsg(c)
    PROVE  IInv'
<1> DEFINE k == nextLen[c] - Len(recv_buffer[c])
           body == recv_buffer[c] \o SubSeq(Incoming(c), 1, k)
<1>0. TypeOK
  BY DEF IInv
<1>1. k \in 1 .. Len(Incoming(c)) /\ Take(c, k)
  BY DEF ReadMsg
<1>2. PICK r \in EchoReads(body, failed[c]) \ {"throw"} :
         /\ HandlePacket(c, [opcode |-> recv_header[c].opcode,
                             id |-> IF r = "ok" THEN TextId(body) ELSE NoId])
         /\ failed' = [failed EXCEPT ![c] = @ \/ r = "short"]
  BY DEF ReadMsg
<1> HIDE DEF k
<1>3. NetOK' /\ SubSeq(Incoming(c), 1, k) \in Seq(Cell)
  BY <1>0, <1>1, TakeType
<1>4. body \in Seq(Cell)
  BY <1>0, <1>3, ConcatProperties DEF TypeOK
<1> HIDE DEF body
<1>5. headerIsGood(recv_header[c]) /\ recv_header[c] \in Header
  BY <1>0 DEF IInv, GoodHeader, ReadMsg, CanReceive, TypeOK
<1>6. recv_header[c].opcode \in {Request, Response}
  BY <1>5 DEF headerIsGood, CheckOpcode, Header, Request, Response
<1> DEFINE p == [opcode |-> recv_header[c].opcode,
                 id |-> IF r = "ok" THEN TextId(body) ELSE NoId]
<1>7. p \in Packet
  BY <1>4, <1>6, TextIdType DEF Packet, NoId
<1> HIDE DEF p
<1>8. HandlePacket(c, p)
  BY <1>2 DEF p
<1>9. /\ dispatched' \in [Conn -> Seq(Packet)] /\ sent' \in [Conn -> Seq(Packet)]
      /\ out_data' \in [Conn -> Seq(Cell)]
  BY <1>0, <1>7, <1>8, HandlePacketType
<1>10. failed' \in [Conn -> BOOLEAN]
  BY <1>0, <1>2 DEF TypeOK
<1>11. /\ nextLen' = [nextLen EXCEPT ![c] = 0]
       /\ recv_buffer' = [recv_buffer EXCEPT ![c] = <<>>]
       /\ rd' = [rd EXCEPT ![c] = "header"]
       /\ UNCHANGED <<phase, stopped, connected, ready, sock, write_q, posted, down,
                      recv_header, pktcount, overlapped>>
  BY DEF ReadMsg, NextRead
<1>12. TypeOK'
  <2>1. /\ nextLen' \in [Conn -> 0 .. SizeMod - 1]
        /\ recv_buffer' \in [Conn -> Seq(Cell)]
        /\ rd' \in [Conn -> {"none", "handshake", "header", "msg"}]
    <3>1. 0 \in 0 .. SizeMod - 1 /\ <<>> \in Seq(Cell)
      BY EmptySeq DEF HeaderLen
    <3> QED
      BY <1>0, <1>11, <3>1 DEF TypeOK
  <2>2. UNCHANGED <<phase, stopped, connected, ready, sock, write_q, posted, down,
                    recv_header, pktcount, overlapped>>
    BY <1>11
  <2> QED
    BY <1>0, <1>3, <1>9, <1>10, <2>1, <2>2 DEF TypeOK, NetOK
<1>13. GoodHeader' /\ FreshLen'
  BY <1>0, <1>11 DEF IInv, TypeOK, GoodHeader, FreshLen
<1> QED
  BY <1>12, <1>13 DEF IInv

LEMMA ThrowStep ==
    ASSUME IInv, NEW c \in Conn, Throw(c)
    PROVE  IInv'
<1>0. TypeOK
  BY DEF IInv
<1>1. PICK k \in 1 .. Len(Incoming(c)) : Take(c, k)
  BY DEF Throw
<1>2. NetOK'
  BY <1>0, <1>1, TakeType
<1>3. /\ phase' = [phase EXCEPT ![c] = "exit"]
      /\ sock' = [sock EXCEPT ![c] = "closed"]
      /\ write_q' = [write_q EXCEPT ![c] = <<>>]
      /\ posted' = [posted EXCEPT ![c] = <<>>]
      /\ rd' = [rd EXCEPT ![c] = "none"]
      /\ recv_buffer' = [recv_buffer EXCEPT ![c] = <<>>]
      /\ UNCHANGED <<stopped, connected, ready, out_data, down, nextLen, recv_header,
                     failed, pktcount, history>>
  BY DEF Throw
<1>4. TypeOK'
  BY <1>0, <1>2, <1>3, EmptySeq DEF TypeOK, NetOK, history
<1>5. GoodHeader' /\ FreshLen'
  BY <1>0, <1>3 DEF IInv, TypeOK, GoodHeader, FreshLen
<1> QED
  BY <1>4, <1>5 DEF IInv

LEMMA ReadStallStep ==
    ASSUME IInv, NEW c \in Conn, ReadStall(c)
    PROVE  IInv'
<1>0. TypeOK
  BY DEF IInv
<1>1. PICK k \in 1 .. Len(Incoming(c)) : Take(c, k)
  BY DEF ReadStall
<1>2. NetOK'
  BY <1>0, <1>1, TakeType
<1>3. /\ rd' = [rd EXCEPT ![c] = "none"]
      /\ recv_buffer' = [recv_buffer EXCEPT ![c] = <<>>]
      /\ UNCHANGED <<phase, stopped, connected, ready, sock, sendVars, down, nextLen,
                     recv_header, failed, pktcount, history>>
  BY DEF ReadStall
<1>4. TypeOK'
  BY <1>0, <1>2, <1>3, EmptySeq DEF TypeOK, NetOK, sendVars, history
<1>5. GoodHeader' /\ FreshLen'
  BY <1>0, <1>3 DEF IInv, TypeOK, GoodHeader, FreshLen
<1> QED
  BY <1>4, <1>5 DEF IInv

LEMMA ReadFailStep ==
    ASSUME IInv, NEW c \in Conn, ReadFail(c)
    PROVE  IInv'
<1>1. TypeOK'
  BY EmptySeq DEF IInv, ReadFail, TypeOK, sendVars, history
<1>2. GoodHeader' /\ FreshLen'
  BY DEF IInv, ReadFail, TypeOK, GoodHeader, FreshLen
<1> QED
  BY <1>1, <1>2 DEF IInv

LEMMA DestroyStep ==
    ASSUME IInv, NEW c \in Conn, Destroy(c)
    PROVE  IInv'
<1>1. TypeOK'
  BY DEF IInv, Destroy, TypeOK, sendVars, recvVars, history
<1>2. GoodHeader' /\ FreshLen'
  BY DEF IInv, Destroy, TypeOK, GoodHeader, FreshLen, recvVars
<1> QED
  BY <1>1, <1>2 DEF IInv

LEMMA EndPollStep ==
    ASSUME IInv, NEW c \in Conn, EndPoll(c)
    PROVE  IInv'
<1>1. TypeOK'
  <2>1. Idle(c) \in BOOLEAN
    BY DEF Idle
  <2> QED
    BY <2>1 DEF IInv, EndPoll, TypeOK, sendVars, recvVars, history
<1>2. GoodHeader' /\ FreshLen'
  BY ReadStateKept DEF EndPoll, recvVars
<1> QED
  BY <1>1, <1>2 DEF IInv

(* Tick leaves queues and net well-typed.                                  *)
LEMMA TickType ==
    ASSUME TypeOK, NEW c \in Conn, Tick(c)
    PROVE  /\ write_q' \in [Conn -> Seq(WriteOp)] /\ posted' \in [Conn -> Seq(WriteOp)]
           /\ NetOK' /\ overlapped' \in [Conn -> BOOLEAN]
<1>1. overlapped' \in [Conn -> BOOLEAN]
  <2>1. Unfinished(c) \in BOOLEAN
    BY DEF Unfinished
  <2> QED
    BY <2>1 DEF Tick, TypeOK
<1>2. Freed(write_q[c]) \in Seq(WriteOp) /\ Freed(posted[c]) \in Seq(WriteOp)
  BY QueueTypes DEF TypeOK
<1>3. CASE StartWrite(c, [rem |-> out_data[c], stale |-> FALSE],
                      Freed(write_q[c]), Freed(posted[c]))
  <2>1. [rem |-> out_data[c], stale |-> FALSE] \in WriteOp
    BY DEF TypeOK, WriteOp
  <2> QED
    BY <1>1, <1>2, <1>3, <2>1, StartWriteType
<1>4. CASE /\ write_q' = [write_q EXCEPT ![c] = Freed(@)]
           /\ posted' = [posted EXCEPT ![c] = Freed(@)]
           /\ UNCHANGED net
  BY <1>1, <1>2, <1>4 DEF TypeOK, NetOK
<1> QED
  BY <1>3, <1>4 DEF Tick

LEMMA MainTickStep ==
    ASSUME IInv, NEW c \in Conn, MainTick(c)
    PROVE  IInv'
<1>0. TypeOK
  BY DEF IInv
<1>1. /\ phase' = [phase EXCEPT ![c] = "poll"]
      /\ UNCHANGED <<stopped, connected, ready, sock, down, recvVars, dispatched>>
  BY DEF MainTick
<1>2. GoodHeader' /\ FreshLen'
  BY <1>1, ReadStateKept DEF recvVars
<1>3. CASE connected[c]
  <2>1. /\ write_q' \in [Conn -> Seq(WriteOp)] /\ posted' \in [Conn -> Seq(WriteOp)]
        /\ NetOK' /\ overlapped' \in [Conn -> BOOLEAN]
    BY <1>0, <1>3, TickType DEF MainTick
  <2>2. /\ out_data' \in [Conn -> Seq(Cell)] /\ sent' \in [Conn -> Seq(Packet)]
        /\ pktcount' \in [Conn -> 0 .. MaxRequests]
    <3>1. CASE ready[c] /\ pktcount[c] < MaxRequests /\ GenerateEchoRequest(c)
      <4> DEFINE p == [opcode |-> Request, id |-> pktcount[c] + 1]
      <4>1. p \in Packet /\ pktcount[c] + 1 \in 0 .. MaxRequests
        BY <1>0, <3>1 DEF TypeOK, Packet
      <4> HIDE DEF p
      <4>2. Encode(p) \in Seq(Cell) /\ Append(sent[c], p) \in Seq(Packet)
        BY <1>0, <4>1, CellTypes, AppendProperties DEF TypeOK
      <4>3. /\ pktcount' = [pktcount EXCEPT ![c] = @ + 1]
            /\ out_data' = [out_data EXCEPT ![c] = Encode(p)]
            /\ sent' = [sent EXCEPT ![c] = Append(@, p)]
        BY <3>1 DEF GenerateEchoRequest, p
      <4> QED
        BY <1>0, <4>1, <4>2, <4>3 DEF TypeOK
    <3>2. CASE /\ out_data' = [out_data EXCEPT ![c] = <<>>]
               /\ UNCHANGED <<pktcount, sent>>
      BY <1>0, <3>2, EmptySeq DEF TypeOK
    <3> QED
      BY <1>3, <3>1, <3>2 DEF MainTick
  <2> QED
    BY <1>0, <1>1, <1>2, <2>1, <2>2 DEF IInv, TypeOK, NetOK, recvVars
<1>4. CASE ~connected[c]
  <2>1. UNCHANGED <<sendVars, net, pktcount, sent, overlapped>>
    BY <1>4 DEF MainTick
  <2> QED
    BY <1>0, <1>1, <1>2, <2>1 DEF IInv, TypeOK, sendVars, recvVars
<1> QED
  BY <1>3, <1>4

LEMMA CutStep ==
    ASSUME IInv, Cut
    PROVE  IInv'
<1>1. TypeOK'
  BY DEF IInv, Cut, TypeOK, sendVars, recvVars, history
<1>2. GoodHeader' /\ FreshLen'
  BY ReadStateKept DEF Cut, recvVars
<1> QED
  BY <1>1, <1>2 DEF IInv

LEMMA InitIInv == Init => IInv
<1> SUFFICES ASSUME Init PROVE IInv
  OBVIOUS
<1>1. 0 \in 0 .. SizeMod - 1 /\ 0 \in 0 .. MaxRequests /\ 0 \in 0 .. 2
  BY DEF HeaderLen
<1>2. [packet_size |-> 0, service_tag |-> Char, opcode |-> Request] \in Header
  BY <1>1 DEF Header, Char, Request
<1>3. TypeOK
  <2>1. \A S : <<>> \in Seq(S) /\ Len(<<>>) = 0
    BY EmptySeq
  <2>2. \A c \in Conn : Len(net[c]) <= SndCap
    BY <2>1 DEF Init
  <2> QED
    BY <1>1, <1>2, <2>1, <2>2 DEF Init, TypeOK
<1>4. GoodHeader /\ FreshLen
  BY DEF Init, GoodHeader, FreshLen
<1> QED
  BY <1>3, <1>4 DEF IInv

LEMMA NextIInv == IInv /\ [Next]_vars => IInv'
<1> SUFFICES ASSUME IInv, [Next]_vars PROVE IInv'
  OBVIOUS
<1>1. ASSUME NEW c \in Conn, Start(c) PROVE IInv'
  BY <1>1, StartStep
<1>2. ASSUME NEW c \in Conn, RunWrite(c) PROVE IInv'
  BY <1>2, RunWriteStep
<1>3. ASSUME NEW c \in Conn, WriteReady(c) PROVE IInv'
  BY <1>3, WriteReadyStep
<1>4. ASSUME NEW c \in Conn, Receive(c) PROVE IInv'
  BY <1>4, ReadHandshakeStep, ReadHeaderStep, ReadPartStep, ReadMsgStep, ThrowStep,
     ReadStallStep DEF Receive
<1>5. ASSUME NEW c \in Conn, ReadFail(c) PROVE IInv'
  BY <1>5, ReadFailStep
<1>6. ASSUME NEW c \in Conn, Destroy(c) PROVE IInv'
  BY <1>6, DestroyStep
<1>7. ASSUME NEW c \in Conn, EndPoll(c) PROVE IInv'
  BY <1>7, EndPollStep
<1>8. ASSUME NEW c \in Conn, MainTick(c) PROVE IInv'
  BY <1>8, MainTickStep
<1>9. CASE UNCHANGED vars
  <2>1. TypeOK'
    BY <1>9 DEF IInv, vars, TypeOK, sendVars, recvVars, history
  <2>2. GoodHeader' /\ FreshLen'
    BY <1>9, ReadStateKept DEF vars, recvVars
  <2> QED
    BY <2>1, <2>2 DEF IInv
<1> QED
  BY <1>1, <1>2, <1>3, <1>4, <1>5, <1>6, <1>7, <1>8, <1>9, CutStep DEF Next

(* Every variable keeps its type: in particular the two kernels never hold *)
(* more than SndCap cells of a direction, nextLen is a size_t, and only    *)
(* packets with a known opcode reach HandlePacket (socket_connection.cpp). *)
THEOREM TypeCorrect == Spec => []TypeOK
<1>1. IInv => TypeOK
  BY DEF IInv
<1> QED
  BY InitIInv, NextIInv, <1>1, PTL DEF Spec
-----------------------------------------------------------------------------
(***************************************************************************)
(* A closed socket stays silent.                                           *)
(***************************************************************************)
Silent(c) == sock[c] = "closed" => /\ sock'[c] = "closed" /\ dispatched'[c] = dispatched[c]
                                   /\ Len(net'[c]) <= Len(net[c])

(* On a closed socket every send fails, so starting a write sends nothing. *)
LEMMA ClosedWrite ==
    ASSUME TypeOK, NEW c \in Conn, NEW op \in WriteOp, NEW q, NEW p,
           sock[c] = "closed", StartWrite(c, op, q, p)
    PROVE  UNCHANGED net
<1>1. \A r \in Performed(c, op) : r.cells = <<>>
  BY DEF Performed, Broken
<1>2. net[c] \o <<>> = net[c]
  BY ConcatEmptySeq DEF TypeOK
<1>3. CASE \E r \in Performed(c, op) : net' = [net EXCEPT ![c] = @ \o r.cells]
  BY <1>1, <1>2, <1>3 DEF TypeOK
<1> QED
  BY <1>3 DEF StartWrite

(* A write of c touches no net but its own, and receiving only shortens.   *)
LEMMA OtherNet ==
    ASSUME TypeOK, NEW c \in Conn, NEW d \in Conn \ {c}, NEW op, NEW q, NEW p,
           StartWrite(d, op, q, p)
    PROVE  net'[c] = net[c]
  BY SMTT(30) DEF StartWrite, TypeOK

LEMMA TakeShortens ==
    ASSUME TypeOK, NEW c \in Conn, NEW d \in Conn, NEW k \in 1 .. Len(Incoming(d)), Take(d, k)
    PROVE  Len(net'[c]) <= Len(net[c])
<1> DEFINE e == Peer(d)
<1>1. e \in Conn /\ net[e] \in Seq(Cell) /\ k \in 0 .. Len(net[e])
  <2>1. e \in Conn
    BY PeerType
  <2>2. net[e] \in Seq(Cell) /\ Len(net[e]) \in Nat
    BY <2>1, LenProperties DEF TypeOK
  <2>3. k \in 1 .. Len(net[e])
    BY DEF Incoming
  <2> HIDE DEF e
  <2> QED
    BY <2>1, <2>2, <2>3
<1>2. Len(SubSeq(net[e], k + 1, Len(net[e]))) <= Len(net[e])
  BY <1>1, SplitSeq, LenProperties
<1>3. net' = [net EXCEPT ![e] = SubSeq(net[e], k + 1, Len(net[e]))]
  BY DEF Take
<1>4. Len(net[c]) \in Nat
  BY LenProperties DEF TypeOK
<1> HIDE DEF e
<1> QED
  BY <1>1, <1>2, <1>3, <1>4 DEF TypeOK

LEMMA SilentStep ==
    ASSUME IInv, NEW c \in Conn, [Next]_vars
    PROVE  Silent(c)
<1> SUFFICES ASSUME sock[c] = "closed"
             PROVE  /\ sock'[c] = "closed" /\ dispatched'[c] = dispatched[c]
                    /\ Len(net'[c]) <= Len(net[c])
  BY DEF Silent
<1>0. TypeOK /\ Len(net[c]) \in Nat
  BY LenProperties DEF IInv, TypeOK
<1>1. ASSUME NEW d \in Conn, Start(d) PROVE Silent(c)
  BY <1>0, <1>1 DEF Start, Silent, TypeOK, history
<1>2. ASSUME NEW d \in Conn, RunWrite(d) PROVE Silent(c)
  <2>1. UNCHANGED <<sock, history>>
    BY <1>2 DEF RunWrite
  <2>2. Head(posted[d]) \in WriteOp
    BY <1>0, <1>2, HeadTailProperties DEF RunWrite, TypeOK
  <2>3. \/ UNCHANGED net
        \/ StartWrite(d, Head(posted[d]), write_q[d], Tail(posted[d]))
    BY <1>2 DEF RunWrite
  <2>4. net'[c] = net[c]
    BY <1>0, <2>2, <2>3, ClosedWrite, OtherNet
  <2> QED
    BY <1>0, <2>1, <2>4 DEF Silent, history
<1>3. ASSUME NEW d \in Conn, WriteReady(d) PROVE Silent(c)
  <2>1. UNCHANGED <<sock, history>>
    BY <1>3 DEF WriteReady
  <2>2. PICK r \in Performed(d, Head(write_q[d])) :
           net' = [net EXCEPT ![d] = @ \o r.cells]
    BY <1>3 DEF WriteReady
  <2>3. CASE d = c
    <3>1. r.cells = <<>>
      BY <2>3 DEF Performed, Broken
    <3>2. net[c] \o <<>> = net[c]
      BY <1>0, ConcatEmptySeq DEF TypeOK
    <3> QED
      BY <1>0, <2>1, <2>2, <2>3, <3>1, <3>2 DEF Silent, TypeOK, history
  <2>4. CASE d # c
    BY <1>0, <2>1, <2>2, <2>4 DEF Silent, TypeOK, history
  <2> QED
    BY <2>3, <2>4
<1>4. ASSUME NEW d \in Conn, Receive(d) PROVE Silent(c)
  <2>1. \E k \in 1 .. Len(Incoming(d)) : Take(d, k)
    <3>1. 1 \in 1 .. Len(Incoming(d))
      BY <1>0, <1>4, PeerType, EmptySeq DEF Receive, ReadHandshake, ReadHeader, ReadPart,
         ReadMsg, Throw, ReadStall, CanReceive, Incoming, TypeOK
    <3> QED
      BY <1>4, <3>1 DEF Receive, ReadHandshake, ReadHeader, ReadPart, ReadMsg, Throw, ReadStall
  <2>2. Len(net'[c]) <= Len(net[c])
    BY <1>0, <2>1, TakeShortens
  <2>3. sock[d] = "open" /\ d # c
    BY <1>4 DEF Receive, ReadHandshake, ReadHeader, ReadPart, ReadMsg, Throw, ReadStall, CanReceive
  <2>4. sock' = sock \/ sock' = [sock EXCEPT ![d] = "closed"]
    BY <1>4 DEF Receive, ReadHandshake, ReadHeader, ReadPart, ReadMsg, Throw, ReadStall, Close
  <2>5. dispatched'[c] = dispatched[c]
    <3>1. CASE ReadMsg(d)
      <4>1. \E p : dispatched' = [dispatched EXCEPT ![d] = Append(@, p)]
        BY <3>1 DEF ReadMsg, HandlePacket
      <4> QED
        BY <1>0, <2>3, <4>1 DEF TypeOK
    <3>2. CASE ~ReadMsg(d)
      BY <1>4, <3>2 DEF Receive, ReadHandshake, ReadHeader, ReadPart, Throw, ReadStall, history
    <3> QED
      BY <3>1, <3>2
  <2> QED
    BY <1>0, <2>2, <2>3, <2>4, <2>5 DEF Silent, TypeOK
<1>5. ASSUME NEW d \in Conn, ReadFail(d) PROVE Silent(c)
  BY <1>0, <1>5 DEF ReadFail, Silent, history
<1>6. ASSUME NEW d \in Conn, Destroy(d) PROVE Silent(c)
  BY <1>0, <1>6 DEF Destroy, Silent, TypeOK, history
<1>7. ASSUME NEW d \in Conn, EndPoll(d) PROVE Silent(c)
  BY <1>0, <1>7 DEF EndPoll, Silent, history
<1>8. ASSUME NEW d \in Conn, MainTick(d) PROVE Silent(c)
  <2>1. UNCHANGED <<sock, dispatched>>
    BY <1>8 DEF MainTick
  <2>2. [rem |-> out_data[d], stale |-> FALSE] \in WriteOp
    BY <1>0 DEF TypeOK, WriteOp
  <2>3. \/ UNCHANGED net
        \/ StartWrite(d, [rem |-> out_data[d], stale |-> FALSE],
                      Freed(write_q[d]), Freed(posted[d]))
    BY <1>8 DEF MainTick, Tick
  <2>4. net'[c] = net[c]
    BY <1>0, <2>2, <2>3, ClosedWrite, OtherNet
  <2> QED
    BY <1>0, <2>1, <2>4 DEF Silent
<1>9. CASE Cut
  BY <1>0, <1>9 DEF Cut, Silent, history
<1>10. CASE UNCHANGED vars
  BY <1>0, <1>10 DEF vars, Silent, history
<1> QED
  BY <1>1, <1>2, <1>3, <1>4, <1>5, <1>6, <1>7, <1>8, <1>9, <1>10 DEF Next, Silent

(* Although handle_read_header goes on after sock.close(), and Tick goes   *)
(* on writing, a closed connection never dispatches or sends again.        *)
THEOREM ClosedStaysSilent == Spec => ClosedIsFinal
<1>1. IInv /\ [Next]_vars =>
        [\A c \in Conn : sock[c] = "closed" =>
           /\ sock'[c] = "closed" /\ dispatched'[c] = dispatched[c]
           /\ Len(net'[c]) <= Len(net[c])]_vars
  BY SilentStep DEF Silent
<1> QED
  BY InitIInv, NextIInv, <1>1, PTL DEF Spec, ClosedIsFinal
=============================================================================
