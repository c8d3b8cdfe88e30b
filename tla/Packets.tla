------------------------------ MODULE Packets ------------------------------
(***************************************************************************)
(* What travels on an NSP connection and how the receiving side reads it:  *)
(* socket_types.hpp, socket_packet.cpp, socket_utils.cpp.                  *)
(*                                                                         *)
(* The unit of length is the CELL: a handshake is one cell, a              *)
(* socket_header one cell, and the body of a Char packet two, the          *)
(* string_length of CharEcho and its text.  Lengths stay numbers, because  *)
(* the code subtracts and compares them; contents are reduced to which     *)
(* packet a cell belongs to.                                               *)
(***************************************************************************)
EXTENDS Integers, Sequences

CONSTANTS
    MAX_PKT_LEN,    (* capacity of recv_buffer, in cells                   *)
    SizeMod,        (* 2^width of size_t, the type of nextLen              *)
    GarbledSizes,   (* packet_size values misread bytes may decode to      *)
    MaxRequests     (* bound on pktcount, the echo requests of a process   *)

HeaderLen == 1      \* sizeof(socket_header)
BodyLen   == 2      \* a CharEcho: char_echo_data, then the text

ASSUME PacketsAssumption ==
    /\ MAX_PKT_LEN \in Nat /\ MAX_PKT_LEN >= BodyLen
    /\ SizeMod \in Nat /\ SizeMod > MAX_PKT_LEN + HeaderLen
    /\ GarbledSizes \subseteq 0 .. SizeMod - 1
    /\ HeaderLen + BodyLen < SizeMod
    /\ MaxRequests \in Nat
-----------------------------------------------------------------------------
Char     == 0       \* ServiceTags::Char
Request  == 0       \* CharOpcodes::Request
Response == 1       \* CharOpcodes::Response

(* SocketUtils::CheckOpcode: the number of opcodes of a service, 0 when    *)
(* the tag is unknown.                                                     *)
CheckOpcode(service_tag) == IF service_tag = Char THEN 2 ELSE 0

Header == [packet_size : 0 .. SizeMod - 1, service_tag : {Char, 1}, opcode : 0 .. 2]

(* Connection::headerIsGood.  packet_size is not looked at.                *)
headerIsGood(header) == header.opcode < CheckOpcode(header.service_tag)

(* A packet: its opcode and the number its text carries ("... #17").       *)
(* The requests of a process count from 1; a text that was not read, or    *)
(* that no endpoint wrote, has number NoId.                                *)
NoId == 0
Packet == [opcode : {Request, Response}, id : 0 .. MaxRequests]

(* Two kinds of cell belong to no packet: the handshake, and bytes read    *)
(* back from memory that was freed.                                        *)
NoPacket == [opcode |-> Request, id |-> NoId]
Cell == [kind : {"handshake", "header", "length", "text", "junk"}, pkt : Packet]

Handshake == [kind |-> "handshake", pkt |-> NoPacket]
Junk      == [kind |-> "junk", pkt |-> NoPacket]

(* operator<<(ByteStream&, Packet&) applied to a packet that holds a       *)
(* CharEcho: the header, then the body.                                    *)
Encode(p) == << [kind |-> "header", pkt |-> p],
                [kind |-> "length", pkt |-> p],
                [kind |-> "text",   pkt |-> p] >>

(* operator>>(ByteStream&, Packet&): the headers one received cell may     *)
(* decode to.  Only a header cell has a determined value.  When the failed *)
(* state of recv_packet's stringstream is set, nothing is written to it    *)
(* and the header is copied out of a zero-filled buffer.                   *)
HeadersRead(cell, failed) ==
    IF failed
    THEN {[packet_size |-> 0, service_tag |-> Char, opcode |-> Request]}
    ELSE IF cell.kind = "header"
    THEN {[packet_size |-> HeaderLen + BodyLen, service_tag |-> Char,
           opcode |-> cell.pkt.opcode]}
    ELSE [packet_size : GarbledSizes, service_tag : {Char, 1}, opcode : 0 .. 2]

(* Two defective variants: signed arithmetic, and the header not taken off. *)
RemainingSigned(header) == header.packet_size - HeaderLen
RemainingWhole(header) == header.packet_size
(* packet_size - sizeof(socket_header), computed in size_t.                *)
Remaining(header) == (header.packet_size - HeaderLen) % SizeMod

(* operator>>(ByteStream&, CharEcho&): what reading the body can come to.  *)
(* "ok": string_length bytes were there; "short": fewer, so eofbit and     *)
(* failbit are set on the stream for good; "throw": string_length is       *)
(* beyond what std::vector can allocate.                                   *)
EchoReads(body, failed) ==
    CASE failed                   -> {"short"}
      [] body[1].kind = "length"  -> IF Len(body) < BodyLen THEN {"short"} ELSE {"ok"}
      [] OTHER                    -> {"ok", "short", "throw"}

(* The number in the text that was read: op.str().                         *)
TextId(body) ==
    IF Len(body) >= BodyLen /\ body[BodyLen].kind = "text"
    THEN body[BodyLen].pkt.id
    ELSE NoId
=============================================================================
