----------------------------- MODULE Endianness -----------------------------
(***************************************************************************)
(* Byte order: the handshake's magic number, the process-wide flag         *)
(* SocketUtils::isLittleEndian it sets, and the two places that flip       *)
(* numbers because of the flag (socket_utils.cpp, socket_packet.cpp,       *)
(* socket_types.cpp).                                                      *)
(*                                                                         *)
(* One process, whose memory is in byte order Native, has several          *)
(* connections; each remote writes numbers as they lie in its own memory.  *)
(* Numbers are byte pairs here.  string_length has eight bytes in the      *)
(* code; all that is kept of it is whether it comes out as it was meant.   *)
(***************************************************************************)
EXTENDS Integers, Sequences

CONSTANTS
    Conn,           (* the connections of the process                      *)
    Native,         (* the byte order of the process                       *)
    Sizes,          (* the packet_size values of the packets remotes send  *)
    MaxPackets      (* bound on the packets sent                           *)

Order == {"little", "big"}
HeaderBytes == 4                \* sizeof(socket_header)

(* The texts of the two programs are shorter than 243 characters, so that  *)
(* a flipped packet_size is beyond MAX_PKT_LEN and its body never comes.   *)
ASSUME EndiannessAssumption ==
    /\ Native \in Order
    /\ Sizes \subseteq 12 .. 255
    /\ MaxPackets \in Nat

VARIABLES
    isLittleEndian, (* SocketUtils::isLittleEndian                         *)
    order,          (* the byte order of each connection's remote          *)
    rd,             (* the outstanding read of each connection             *)
    wire,           (* what each remote sent: the first number of each     *)
                    (* handshake or packet, whose rest follows it          *)
    nextLen,        (* Connection::nextLen, before wrapping                *)
    packets,        (* packets sent so far                                 *)
    ended,          (* an exception ended the process                      *)
    orders          (* history: the byte orders of all remotes so far      *)

vars == <<isLittleEndian, order, rd, wire, nextLen, packets, ended, orders>>
-----------------------------------------------------------------------------
(* Defective variant: the low byte is not cut off from the number.         *)
BytesUncut(v, o) == IF o = "little" THEN <<v, v \div 256>> ELSE <<v \div 256, v>>

(* A 16-bit number as it lies in the memory of a host, and back.           *)
Bytes(v, o) == IF o = "little" THEN <<v % 256, v \div 256>> ELSE <<v \div 256, v % 256>>
Value(b, o) == IF o = "little" THEN b[1] + 256 * b[2] ELSE b[2] + 256 * b[1]

FlipEndian(b) == <<b[2], b[1]>>

(* Defective variant: the byte a little-endian sender writes second.       *)
NetCheckLittleEndianSecond(b) == b[1] = 34
NetCheckLittleEndian(b) == b[1] = 51        \* 0x33

Magic == 8755                               \* 0x2233

(* What a received number is taken for.                                    *)
Read(b) == Value(IF isLittleEndian THEN b ELSE FlipEndian(b), Native)

Init ==
    /\ isLittleEndian = TRUE
    /\ order \in [Conn -> Order]
    /\ rd = [c \in Conn |-> "none"]
    /\ wire = [c \in Conn |-> <<>>]
    /\ nextLen = [c \in Conn |-> 0]
    /\ packets = 0
    /\ ended = FALSE
    /\ orders = {}

(* A connection comes up: the remote's send_handshake, our                 *)
(* receive_handshake.                                                      *)
Connect(c) ==
    /\ ~ended /\ rd[c] = "none"
    /\ rd' = [rd EXCEPT ![c] = "handshake"]
    /\ wire' = [wire EXCEPT ![c] = <<Bytes(Magic, order[c])>>]
    /\ nextLen' = [nextLen EXCEPT ![c] = 0]
    /\ orders' = orders \cup {order[c]}
    /\ UNCHANGED <<isLittleEndian, order, packets, ended>>

(* The remote sends a packet: the header it is announced with.             *)
RemoteSend(c) ==
    /\ rd[c] # "none" /\ packets < MaxPackets
    /\ packets' = packets + 1
    /\ \E size \in Sizes :
          wire' = [wire EXCEPT ![c] = Append(@, Bytes(size, order[c]))]
    /\ UNCHANGED <<isLittleEndian, order, rd, nextLen, ended, orders>>

(* Connection::handle_read_handshake.                                      *)
ReadHandshake(c) ==
    /\ ~ended /\ rd[c] = "handshake"
    /\ isLittleEndian' = NetCheckLittleEndian(Head(wire[c]))
    /\ wire' = [wire EXCEPT ![c] = Tail(@)]
    /\ rd' = [rd EXCEPT ![c] = "header"]
    /\ UNCHANGED <<order, nextLen, packets, ended, orders>>

(* Connection::handle_read_header.  The body stays on the wire.            *)
ReadHeader(c) ==
    /\ ~ended /\ rd[c] = "header" /\ wire[c] # <<>>
    /\ nextLen' = [nextLen EXCEPT ![c] = Read(Head(wire[c])) - HeaderBytes]
    /\ rd' = [rd EXCEPT ![c] = "msg"]
    /\ UNCHANGED <<isLittleEndian, order, wire, packets, ended, orders>>

(* What the remote meant by the packet_size of the packet being read.      *)
Meant(c) == Value(Head(wire[c]), order[c])

(* handle_read_msg, when nextLen is what the body has: its string_length   *)
(* is read with the flag as it is now.  Flipped it is far beyond what can  *)
(* be allocated, and the exception ends the process.                       *)
ReadMsg(c) ==
    /\ ~ended /\ rd[c] = "msg"
    /\ nextLen[c] = Meant(c) - HeaderBytes
    /\ ended' = (Read(Head(wire[c])) # Meant(c))
    /\ wire' = [wire EXCEPT ![c] = Tail(@)]
    /\ rd' = [rd EXCEPT ![c] = "header"]
    /\ nextLen' = [nextLen EXCEPT ![c] = 0]
    /\ UNCHANGED <<isLittleEndian, order, packets, orders>>

(* The connection ends; another remote may take its place.                 *)
Disconnect(c) ==
    /\ ~ended /\ rd[c] # "none"
    /\ rd' = [rd EXCEPT ![c] = "none"]
    /\ wire' = [wire EXCEPT ![c] = <<>>]
    /\ \E o \in Order : order' = [order EXCEPT ![c] = o]
    /\ UNCHANGED <<isLittleEndian, nextLen, packets, ended, orders>>

Next == \E c \in Conn : \/ Connect(c) \/ RemoteSend(c) \/ Disconnect(c)
                        \/ ReadHandshake(c) \/ ReadHeader(c) \/ ReadMsg(c)

Spec == Init /\ [][Next]_vars
-----------------------------------------------------------------------------
Number == (0 .. 255) \X (0 .. 255)

(* Every variable has its type.                                            *)
TypeOK ==
    /\ isLittleEndian \in BOOLEAN
    /\ order \in [Conn -> Order]
    /\ rd \in [Conn -> {"none", "handshake", "header", "msg"}]
    /\ wire \in [Conn -> Seq(Number)]
    /\ nextLen \in [Conn -> Int]
    /\ packets \in 0 .. MaxPackets
    /\ ended \in BOOLEAN
    /\ orders \subseteq Order

(* On a little-endian host whose remotes have all had the same byte order, *)
(* whichever it is, every body is awaited at its true length and no        *)
(* string_length is misread, however the connections' handshakes, headers  *)
(* and bodies interleave on the one flag.                                  *)
ReadsRight ==
    Native = "little" /\ (\E o \in Order : orders \subseteq {o}) =>
        /\ ~ended
        /\ \A c \in Conn : rd[c] = "msg" => nextLen[c] = Meant(c) - HeaderBytes

(* socket_connection.cpp: "The connection handshake is used to determine   *)
(* if the endpoint is little or big endian."  Each connection is read by   *)
(* the verdict on its own endpoint.                                        *)
OwnVerdict == \A c \in Conn :
    rd[c] \in {"header", "msg"} => isLittleEndian = (order[c] = "little")
=============================================================================
