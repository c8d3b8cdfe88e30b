------------------------------- MODULE Codec -------------------------------
(***************************************************************************)
(* One direction of a link byte by byte: CharEcho packets are encoded into *)
(* out_data, Tick empties it onto the wire, and the read handlers take     *)
(* them apart again with in_data and recv_packet, two streams that live as *)
(* long as the connection (socket_packet.cpp, socket_types.cpp,            *)
(* socket_connection.cpp).  Writes do not overlap and nobody resets the    *)
(* link; texts may have any length.                                        *)
(***************************************************************************)
EXTENDS ByteStream

CONSTANTS
    Base,           (* the number of values of a byte                      *)
    MAX_PKT_LEN,    (* capacity of recv_buffer                             *)
    Texts,          (* the texts that are sent                             *)
    MaxTexts        (* bound on how many are sent                          *)

HeaderLen == 4      \* sizeof(socket_header): packet_size, service_tag, opcode
LengthLen == 1      \* char_echo_data; its 64 bits hold every length, in one cell
HandshakeLen == 2

ASSUME CodecAssumption ==
    /\ Base \in Nat /\ Base > 1
    /\ MAX_PKT_LEN \in Nat /\ MAX_PKT_LEN >= HeaderLen
    /\ MAX_PKT_LEN + HeaderLen < Base * Base
    /\ Base * Base <= SizeMod
    /\ Texts \subseteq Seq(0 .. Base - 1) /\ MaxTexts \in Nat

VARIABLES
    sent,           (* history: the texts sent                             *)
    out_data,       (* Connection::out_data of the sender                  *)
    wire,           (* bytes on their way                                  *)
    rd,             (* the receiver's outstanding read, or why there is none *)
    nextLen,        (* Connection::nextLen of the receiver                 *)
    in_data,        (* Connection::in_data                                 *)
    recv_packet,    (* the ByteStream of Connection::recv_packet           *)
    received        (* history: the texts given to the EchoService         *)

vars == <<sent, out_data, wire, rd, nextLen, in_data, recv_packet, received>>
-----------------------------------------------------------------------------
(* A 16-bit number, low byte first.                                        *)
Bytes(v) == <<v % Base, (v \div Base) % Base>>
Value(b) == b[1] + Base * b[2]

(* Defective variant: string_length is short by one.                       *)
EncodedShort(t) ==
    LET pkt == Push(Push(EmptyStream, <<IF t = <<>> THEN 0 ELSE Len(t) - 1>>), t)
    IN  Bytes(Count(pkt) + HeaderLen) \o <<0, 0>> \o Pulled(pkt, Count(pkt))

(* operator<<(Packet&) of a CharEcho, then operator<<(ByteStream&, Packet&): *)
(* the body goes through the packet's stream; packet_size is cut to its 16 *)
(* bits.  Service tag and opcode are 0 (Char, Request).                    *)
Encoded(t) ==
    LET pkt == Push(Push(EmptyStream, <<Len(t)>>), t)
    IN  Bytes(Count(pkt) + HeaderLen) \o <<0, 0>> \o Pulled(pkt, Count(pkt))

(* send_handshake has put the magic number into out_data.                  *)
Init ==
    /\ sent = <<>> /\ received = <<>> /\ wire = <<>>
    /\ out_data = Push(EmptyStream, <<1, 1>>)
    /\ rd = "handshake" /\ nextLen = 0
    /\ in_data = EmptyStream /\ recv_packet = EmptyStream

(* GenerateEchoRequest with any text: Send.                                *)
Send(t) ==
    /\ Len(sent) < MaxTexts
    /\ sent' = Append(sent, t)
    /\ out_data' = Push(out_data, Encoded(t))
    /\ UNCHANGED <<wire, rd, nextLen, in_data, recv_packet, received>>

(* Tick: everything in out_data goes out.                                  *)
Tick ==
    /\ out_data.buf # <<>>
    /\ wire' = wire \o Contents(out_data)
    /\ out_data' = Clear(out_data)
    /\ UNCHANGED <<sent, rd, nextLen, in_data, recv_packet, received>>
-----------------------------------------------------------------------------
(* async_read of exactly n bytes, of which recv_buffer may hold fewer:     *)
(* what it completes with, and the step it takes from the wire.            *)
Taken(n) == SubSeq(wire, 1, Least(Least(n, MAX_PKT_LEN), Len(wire)))
Arrived(n) ==
    /\ Len(wire) >= Least(n, MAX_PKT_LEN)
    /\ wire' = SubSeq(wire, Len(Taken(n)) + 1, Len(wire))

(* receive_next_packet.                                                    *)
NextRead(len) == IF len = 0 THEN "header" ELSE "msg"

ReadHandshake ==
    /\ rd = "handshake"
    /\ Arrived(HandshakeLen)
    /\ in_data' = AfterPull(Set(in_data, Taken(HandshakeLen)), HandshakeLen)
    /\ rd' = NextRead(nextLen)
    /\ UNCHANGED <<sent, out_data, nextLen, recv_packet, received>>

(* packet_size - sizeof(socket_header), in size_t; and computed signed.    *)
RemainingSigned(h) == Value(h) - HeaderLen
Remaining(h) == (Value(h) - HeaderLen) % SizeMod

(* Defective variant: recv_packet.clear() is not called.                   *)
ReadHeaderUncleared ==
    /\ rd = "header"
    /\ Arrived(HeaderLen)
    /\ \E in \in {Set(in_data, Taken(HeaderLen))} :
       \E pkt \in {Push(recv_packet, Pulled(in, Count(in)))} :
       \E h \in {Pulled(pkt, HeaderLen)} :
           /\ in_data' = AfterPull(in, Count(in))
           /\ recv_packet' = AfterPull(pkt, HeaderLen)
           /\ nextLen' = Remaining(h)
           /\ rd' = IF h[3] = 0 /\ h[4] < 2 THEN NextRead(Remaining(h)) ELSE "closed"
    /\ UNCHANGED <<sent, out_data, received>>

(* handle_read_header: the bytes go from in_data into recv_packet and the  *)
(* header out of it.  After a bad opcode the socket is closed, and the     *)
(* read that is started all the same gets nothing.                         *)
ReadHeader ==
    /\ rd = "header"
    /\ Arrived(HeaderLen)
    /\ \E in \in {Set(in_data, Taken(HeaderLen))} :
       \E pkt \in {Push(Clear(recv_packet), Pulled(in, Count(in)))} :
       \E h \in {Pulled(pkt, HeaderLen)} :
           /\ in_data' = AfterPull(in, Count(in))
           /\ recv_packet' = AfterPull(pkt, HeaderLen)
           /\ nextLen' = Remaining(h)
           /\ rd' = IF h[3] = 0 /\ h[4] < 2 THEN NextRead(Remaining(h)) ELSE "closed"
    /\ UNCHANGED <<sent, out_data, received>>

(* Defective variant: a body as long as recv_buffer is taken for too long. *)
ReadMsgStrict ==
    /\ rd = "msg"
    /\ Arrived(nextLen)
    /\ \E pkt \in {Set(recv_packet, Taken(nextLen))} :
       \E n \in {Pulled(pkt, LengthLen)[1]}, text \in {AfterPull(pkt, LengthLen)} :
           IF nextLen < MAX_PKT_LEN
           THEN /\ received' = Append(received, Pulled(text, n))
                /\ recv_packet' = AfterPull(text, n)
                /\ nextLen' = 0 /\ rd' = NextRead(0)
           ELSE rd' = "stalled" /\ UNCHANGED <<received, recv_packet, nextLen>>
    /\ UNCHANGED <<sent, out_data, in_data>>

(* handle_read_msg: HandlePacket reads the CharEcho.  When recv_buffer was *)
(* filled before nextLen bytes had come, nothing is done and nothing read. *)
ReadMsg ==
    /\ rd = "msg"
    /\ Arrived(nextLen)
    /\ \E pkt \in {Set(recv_packet, Taken(nextLen))} :
       \E n \in {Pulled(pkt, LengthLen)[1]}, text \in {AfterPull(pkt, LengthLen)} :
           IF Len(Taken(nextLen)) = nextLen
           THEN /\ received' = Append(received, Pulled(text, n))
                /\ recv_packet' = AfterPull(text, n)
                /\ nextLen' = 0 /\ rd' = NextRead(0)
           ELSE rd' = "stalled" /\ UNCHANGED <<received, recv_packet, nextLen>>
    /\ UNCHANGED <<sent, out_data, in_data>>

Next == (\E t \in Texts : Send(t)) \/ Tick \/ ReadHandshake \/ ReadHeader \/ ReadMsg

Spec == Init /\ [][Next]_vars

(* The sender's loop goes on, and what is on the wire arrives.             *)
FairSpec == Spec /\ WF_vars(Tick) /\ WF_vars(ReadHandshake \/ ReadHeader \/ ReadMsg)
-----------------------------------------------------------------------------
TypeOK ==
    /\ sent \in Seq(Texts)
    /\ out_data \in Stream /\ in_data \in Stream /\ recv_packet \in Stream
    /\ wire \in Seq(Nat)
    /\ rd \in {"handshake", "header", "msg", "stalled", "closed"}
    /\ nextLen \in 0 .. SizeMod - 1
    /\ received \in Seq(Seq(Nat))

(* A text whose body fits recv_buffer to the last byte; and the number of  *)
(* texts before the first that does not fit.                               *)
Fits(t) == LengthLen + Len(t) <= MAX_PKT_LEN
Good == CHOOSE n \in 0 .. Len(sent) :
            /\ \A i \in 1 .. n : Fits(sent[i])
            /\ n < Len(sent) => ~Fits(sent[n + 1])

(* Texts that fit arrive unaltered and in order, until one that does not   *)
(* fit is sent: what its cut packet_size makes of it, and all that follows *)
(* in the stream, never reaches back to the texts before it.               *)
PrefixIntact == \A i \in 1 .. Least(Len(received), Good) : received[i] = sent[i]

(* As long as every text fits, nothing more is received than was sent, no  *)
(* stream fails, and the receiver never stalls or closes.                  *)
StaysReadable == Good = Len(sent) =>
    /\ Len(received) <= Len(sent)
    /\ ~out_data.fail /\ ~in_data.fail /\ ~recv_packet.fail
    /\ rd \notin {"stalled", "closed"}

(* Texts that fit are received in the end, whatever is sent after them.    *)
FittingArrive == \A n \in 1 .. MaxTexts : (Good >= n) ~> (Len(received) >= n)
=============================================================================
