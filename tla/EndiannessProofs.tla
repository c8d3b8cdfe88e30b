-------------------------- MODULE EndiannessProofs --------------------------
(***************************************************************************)
(* A little-endian host whose remotes all share one byte order reads every *)
(* number right, for any number of connections and packets.                *)
(***************************************************************************)
EXTENDS Endianness, TLAPS

(* What a remote that is connected has already contributed: its byte order *)
(* to orders, its magic number to the wire, and the header whose body is   *)
(* being read.                                                             *)
Arrived == \A c \in Conn :
    /\ rd[c] # "none" => order[c] \in orders
    /\ rd[c] = "handshake" =>
          wire[c] # <<>> /\ Head(wire[c]) = Bytes(Magic, order[c])
    /\ rd[c] = "msg" => wire[c] # <<>>

(* As long as all remotes had byte order o, the flag says whether that is  *)
(* little from the first handshake on.                                     *)
FlagRight == \A o \in Order : orders \subseteq {o} =>
    \A c \in Conn : rd[c] \in {"header", "msg"} => isLittleEndian = (o = "little")

IInv == TypeOK /\ Arrived /\ FlagRight /\ ReadsRight
-----------------------------------------------------------------------------
(* A number that fits 16 bits is written as two bytes.                     *)
LEMMA BytesType ==
    ASSUME NEW v \in Nat, v < 65536, NEW o \in Order
    PROVE  Bytes(v, o) \in Number
<1> DEFINE low  == v % 256
           high == v \div 256
<1>1. low \in 0 .. 255
  OBVIOUS
<1>2. high \in 0 .. 255
  <2>1. high \in Int
    OBVIOUS
  <2>2. high >= 0
    OBVIOUS
  <2>3. high <= 255
    OBVIOUS
  <2>4. QED
    BY <2>1, <2>2, <2>3
<1>3. Bytes(v, o) = IF o = "little" THEN <<low, high>> ELSE <<high, low>>
  BY DEF Bytes
<1> HIDE DEF low, high
<1>4. QED
  BY <1>1, <1>2, <1>3 DEF Number

(* The magic number gives its sender's byte order away.                    *)
LEMMA MagicTells ==
    ASSUME NEW o \in Order
    PROVE  NetCheckLittleEndian(Bytes(Magic, o)) = (o = "little")
<1>1. Magic % 256 = 51 /\ Magic \div 256 = 34
  BY SMT DEF Magic
<1>2. QED
  BY <1>1 DEF Order, Bytes, NetCheckLittleEndian

(* On a little-endian host a number is read as it was meant when the flag  *)
(* says whether its sender is little endian.                               *)
LEMMA ReadRight ==
    ASSUME Native = "little",
           NEW b \in Number, NEW o \in Order,
           isLittleEndian = (o = "little")
    PROVE  Read(b) = Value(b, o)
  BY DEF Number, Order, Read, Value, FlipEndian

LEMMA InitIInv == Init => IInv
<1> SUFFICES ASSUME Init PROVE IInv
  OBVIOUS
<1>1. TypeOK
  <2>1. wire \in [Conn -> Seq(Number)] /\ nextLen \in [Conn -> Int]
    BY DEF Init
  <2>2. packets \in 0 .. MaxPackets /\ orders \subseteq Order
    BY EndiannessAssumption DEF Init
  <2>3. QED
    BY <2>1, <2>2 DEF Init, TypeOK
<1>2. Arrived /\ FlagRight /\ ReadsRight
  BY DEF Init, Arrived, FlagRight, ReadsRight
<1>3. QED
  BY <1>1, <1>2 DEF IInv
-----------------------------------------------------------------------------
LEMMA ConnectStep ==
    ASSUME IInv, NEW c \in Conn, Connect(c)
    PROVE  IInv'
<1> USE DEF IInv
<1>1. Bytes(Magic, order[c]) \in Number
  <2>1. Magic \in Nat /\ Magic < 65536
    BY DEF Magic
  <2>2. order[c] \in Order
    BY DEF TypeOK
  <2>3. QED
    BY <2>1, <2>2, BytesType
<1>2. TypeOK'
  BY <1>1 DEF TypeOK, Connect
<1>3. Arrived'
  BY DEF TypeOK, Arrived, Connect
<1>4. FlagRight' /\ ReadsRight'
  BY DEF TypeOK, FlagRight, ReadsRight, Connect, Meant
<1>5. QED
  BY <1>2, <1>3, <1>4

LEMMA RemoteSendStep ==
    ASSUME IInv, NEW c \in Conn, RemoteSend(c)
    PROVE  IInv'
<1> USE DEF IInv
<1>1. PICK size \in Sizes :
        wire' = [wire EXCEPT ![c] = Append(@, Bytes(size, order[c]))]
  BY DEF RemoteSend
<1>2. Bytes(size, order[c]) \in Number
  <2>1. size \in Nat /\ size < 65536
    BY EndiannessAssumption
  <2>2. order[c] \in Order
    BY DEF TypeOK
  <2>3. QED
    BY <2>1, <2>2, BytesType
<1>3. TypeOK'
  BY <1>1, <1>2, EndiannessAssumption DEF TypeOK, RemoteSend
<1>4. \A d \in Conn : wire[d] # <<>> =>
         wire'[d] # <<>> /\ Head(wire'[d]) = Head(wire[d])
  BY <1>1, <1>2 DEF TypeOK
<1>5. Arrived'
  BY <1>4 DEF Arrived, RemoteSend
<1>6. FlagRight'
  BY DEF FlagRight, RemoteSend
<1>7. ReadsRight'
  BY <1>4 DEF Arrived, ReadsRight, RemoteSend, Meant
<1>8. QED
  BY <1>3, <1>5, <1>6, <1>7

LEMMA ReadHandshakeStep ==
    ASSUME IInv, NEW c \in Conn, ReadHandshake(c)
    PROVE  IInv'
<1> USE DEF IInv
<1>1. isLittleEndian' = (order[c] = "little")
  <2>1. order[c] \in Order /\ Head(wire[c]) = Bytes(Magic, order[c])
    BY DEF TypeOK, Arrived, ReadHandshake
  <2>2. QED
    BY <2>1, MagicTells DEF ReadHandshake
<1>2. TypeOK'
  <2>1. isLittleEndian' \in BOOLEAN
    BY <1>1
  <2>2. wire' \in [Conn -> Seq(Number)]
    BY DEF TypeOK, Arrived, ReadHandshake
  <2>3. QED
    BY <2>1, <2>2 DEF TypeOK, ReadHandshake
<1>3. Arrived'
  BY DEF TypeOK, Arrived, ReadHandshake
<1>4. FlagRight'
  BY <1>1 DEF TypeOK, Arrived, FlagRight, ReadHandshake
<1>5. ReadsRight'
  BY DEF TypeOK, ReadsRight, ReadHandshake, Meant
<1>6. QED
  BY <1>2, <1>3, <1>4, <1>5

(* While the remotes agree, what is read is what was meant.                *)
LEMMA HeadReadRight ==
    ASSUME IInv, NEW c \in Conn, rd[c] \in {"header", "msg"}, wire[c] # <<>>,
           Native = "little", NEW o \in Order, orders \subseteq {o}
    PROVE  Read(Head(wire[c])) = Meant(c)
<1>1. Head(wire[c]) \in Number
  BY DEF IInv, TypeOK
<1>2. order[c] = o
  BY DEF IInv, Arrived
<1>3. isLittleEndian = (o = "little")
  BY DEF IInv, FlagRight
<1>4. QED
  BY <1>1, <1>2, <1>3, ReadRight DEF Meant

LEMMA ReadHeaderStep ==
    ASSUME IInv, NEW c \in Conn, ReadHeader(c)
    PROVE  IInv'
<1> USE DEF IInv
<1>1. Read(Head(wire[c])) \in Int
  <2>1. Head(wire[c]) \in Number
    BY DEF TypeOK, ReadHeader
  <2>2. \A b \in Number : FlipEndian(b) \in Number
    BY DEF FlipEndian, Number
  <2>3. ASSUME NEW b \in Number PROVE Value(b, Native) \in Int
    <3>1. b[1] \in Int /\ b[2] \in Int
      BY DEF Number
    <3>2. b[1] + 256 * b[2] \in Int /\ b[2] + 256 * b[1] \in Int
      BY <3>1
    <3>3. QED
      BY <3>2, Zenon DEF Value
  <2> DEFINE bytes == IF isLittleEndian THEN Head(wire[c]) ELSE FlipEndian(Head(wire[c]))
  <2>4. bytes \in Number
    <3>1. FlipEndian(Head(wire[c])) \in Number
      BY <2>1, <2>2
    <3>2. CASE isLittleEndian
      BY <2>1, <3>2, Zenon
    <3>3. CASE ~isLittleEndian
      BY <3>1, <3>3, Zenon
    <3>4. QED
      BY <3>2, <3>3, Zenon
  <2>5. Read(Head(wire[c])) = Value(bytes, Native)
    BY DEF Read
  <2> HIDE DEF bytes
  <2>6. QED
    BY <2>3, <2>4, <2>5
<1>2. TypeOK'
  BY <1>1 DEF TypeOK, ReadHeader, HeaderBytes
<1>3. Arrived'
  BY DEF TypeOK, Arrived, ReadHeader
<1>4. FlagRight'
  BY DEF TypeOK, FlagRight, ReadHeader
<1>5. ReadsRight'
  <2> SUFFICES ASSUME Native = "little",
                      NEW o \in Order, orders \subseteq {o},
                      NEW d \in Conn, rd'[d] = "msg"
               PROVE  nextLen'[d] = Meant(d)' - HeaderBytes
    BY DEF ReadsRight, ReadHeader
  <2>1. CASE d = c
    <3>1. Read(Head(wire[c])) = Meant(c)
      BY HeadReadRight DEF ReadHeader
    <3>2. QED
      BY <2>1, <3>1 DEF TypeOK, ReadHeader, Meant
  <2>2. CASE d # c
    BY <2>2 DEF TypeOK, ReadsRight, ReadHeader, Meant
  <2>3. QED
    BY <2>1, <2>2
<1>6. QED
  BY <1>2, <1>3, <1>4, <1>5

LEMMA ReadMsgStep ==
    ASSUME IInv, NEW c \in Conn, ReadMsg(c)
    PROVE  IInv'
<1> USE DEF IInv
<1>1. wire[c] # <<>>
  BY DEF Arrived, ReadMsg
<1>2. TypeOK'
  BY <1>1 DEF TypeOK, ReadMsg
<1>3. Arrived'
  BY DEF TypeOK, Arrived, ReadMsg
<1>4. FlagRight'
  BY DEF TypeOK, FlagRight, ReadMsg
<1>5. ReadsRight'
  <2> SUFFICES ASSUME Native = "little", NEW o \in Order, orders \subseteq {o}
               PROVE  /\ ~ended'
                      /\ \A d \in Conn : rd'[d] = "msg" =>
                            nextLen'[d] = Meant(d)' - HeaderBytes
    BY DEF ReadsRight, ReadMsg
  <2>1. ~ended'
    BY <1>1, HeadReadRight DEF ReadMsg
  <2>2. ASSUME NEW d \in Conn, rd'[d] = "msg"
        PROVE  nextLen'[d] = Meant(d)' - HeaderBytes
    BY <2>2 DEF TypeOK, ReadsRight, ReadMsg, Meant
  <2>3. QED
    BY <2>1, <2>2
<1>6. QED
  BY <1>2, <1>3, <1>4, <1>5

LEMMA DisconnectStep ==
    ASSUME IInv, NEW c \in Conn, Disconnect(c)
    PROVE  IInv'
<1> USE DEF IInv
<1>1. PICK o \in Order : order' = [order EXCEPT ![c] = o]
  BY DEF Disconnect
<1>2. TypeOK'
  BY <1>1 DEF TypeOK, Disconnect
<1>3. Arrived'
  BY <1>1 DEF TypeOK, Arrived, Disconnect
<1>4. FlagRight'
  BY DEF TypeOK, FlagRight, Disconnect
<1>5. ReadsRight'
  BY <1>1 DEF TypeOK, ReadsRight, Disconnect, Meant
<1>6. QED
  BY <1>2, <1>3, <1>4, <1>5
-----------------------------------------------------------------------------
LEMMA StepIInv == IInv /\ [Next]_vars => IInv'
<1> SUFFICES ASSUME IInv, [Next]_vars PROVE IInv'
  OBVIOUS
<1>1. ASSUME NEW c \in Conn, Connect(c) PROVE IInv'
  BY <1>1, ConnectStep
<1>2. ASSUME NEW c \in Conn, RemoteSend(c) PROVE IInv'
  BY <1>2, RemoteSendStep
<1>3. ASSUME NEW c \in Conn, ReadHandshake(c) PROVE IInv'
  BY <1>3, ReadHandshakeStep
<1>4. ASSUME NEW c \in Conn, ReadHeader(c) PROVE IInv'
  BY <1>4, ReadHeaderStep
<1>5. ASSUME NEW c \in Conn, ReadMsg(c) PROVE IInv'
  BY <1>5, ReadMsgStep
<1>6. ASSUME NEW c \in Conn, Disconnect(c) PROVE IInv'
  BY <1>6, DisconnectStep
<1>7. CASE UNCHANGED vars
  BY <1>7 DEF IInv, TypeOK, Arrived, FlagRight, ReadsRight, Meant, vars
<1>8. QED
  BY <1>1, <1>2, <1>3, <1>4, <1>5, <1>6, <1>7 DEF Next

(* Every reachable state is well typed and, on a little-endian host whose  *)
(* remotes agree on their byte order, every number is read as it was meant *)
(* (socket_packet.cpp and socket_types.cpp under the one static flag).     *)
THEOREM AgreeingRemotesReadRight == Spec => [](TypeOK /\ ReadsRight)
<1>1. IInv => TypeOK /\ ReadsRight
  BY DEF IInv
<1>2. QED
  BY InitIInv, StepIInv, <1>1, PTL DEF Spec

(* Numbers on the wire stay bytes and numbers read stay within the width   *)
(* they are read in, whoever connects and whatever order it writes in.     *)
THEOREM TypeCorrect == Spec => []TypeOK
<1>1. IInv => TypeOK
  BY DEF IInv
<1>2. QED
  BY InitIInv, StepIInv, <1>1, PTL DEF Spec
=============================================================================
