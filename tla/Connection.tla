----------------------------- MODULE Connection -----------------------------
(***************************************************************************)
(* One NSP link: the Connection object of the client, the Connection       *)
(* object of the server, and the TCP stream between them                   *)
(* (socket_connection.cpp, the main loops of client and server, and the    *)
(* parts of asio the writes and reads go through).                         *)
(*                                                                         *)
(* Each process is one thread that alternates between io.poll() (phase     *)
(* "poll": handlers run, in the order the queues give) and the rest of its *)
(* main loop (phase "tick").  The two processes run in any interleaving.   *)
(* Both hosts are little endian here; module Endianness is about the       *)
(* handshake's verdict.                                                    *)
(***************************************************************************)
EXTENDS Packets, FiniteSets

CONSTANTS
    SndCap          (* cells the two kernels hold in one direction         *)

ASSUME ConnectionAssumption == SndCap \in Nat \ {0}

Client == "client"
Server == "server"
Conn   == {Client, Server}
Peer(c) == IF c = Client THEN Server ELSE Client

VARIABLES
    phase,          (* where the process (for Server: the object) is       *)
    stopped,        (* io_service::stopped()                               *)
    connected,      (* Connection::connected                               *)
    ready,          (* Connection::ready                                   *)
    sock,           (* the descriptor behind Connection::sock              *)
    out_data,       (* Connection::out_data                                *)
    write_q,        (* op_queue_[write_op] of the descriptor               *)
    posted,         (* write completions waiting in the io_service         *)
    net,            (* net[c]: cells c sent that Peer(c) has not received  *)
    down,           (* the link was reset                                  *)
    rd,             (* the outstanding async_read, by its handler          *)
    recv_buffer,    (* cells that async_read has received so far           *)
    nextLen,        (* Connection::nextLen                                 *)
    recv_header,    (* recv_packet.Header()                                *)
    failed,         (* failbit of recv_packet's stringstream               *)
    pktcount,       (* pktcount of client.cpp, server.cpp                  *)
    sent,           (* history: packets passed to Send                     *)
    dispatched,     (* history: packets passed to HandlePacket             *)
    overlapped      (* history: Tick ran while an async_write had data left *)

sendVars == <<out_data, write_q, posted>>
recvVars == <<rd, recv_buffer, nextLen, recv_header, failed>>
history  == <<sent, dispatched, overlapped>>
vars == <<phase, stopped, connected, ready, sock, sendVars, net, down, recvVars,
          pktcount, history>>

(* An async_write in progress: the cells it still has to hand over, and    *)
(* whether send_buffer, which they are read from, has been freed.          *)
WriteOp == [rem : Seq(Cell), stale : BOOLEAN]

Init ==
    /\ phase = [c \in Conn |-> "poll"]
    /\ stopped = [c \in Conn |-> FALSE]
    /\ connected = [c \in Conn |-> FALSE]
    /\ ready = [c \in Conn |-> FALSE]
    /\ sock = [c \in Conn |-> "new"]
    /\ out_data = [c \in Conn |-> <<>>]
    /\ write_q = [c \in Conn |-> <<>>]
    /\ posted = [c \in Conn |-> <<>>]
    /\ net = [c \in Conn |-> <<>>]
    /\ down = FALSE
    /\ rd = [c \in Conn |-> "none"]
    /\ recv_buffer = [c \in Conn |-> <<>>]
    /\ nextLen = [c \in Conn |-> 0]
    /\ recv_header = [c \in Conn |-> [packet_size |-> 0, service_tag |-> Char,
                                      opcode |-> Request]]
    /\ failed = [c \in Conn |-> FALSE]
    /\ pktcount = [c \in Conn |-> 0]
    /\ sent = [c \in Conn |-> <<>>]
    /\ dispatched = [c \in Conn |-> <<>>]
    /\ overlapped = [c \in Conn |-> FALSE]
-----------------------------------------------------------------------------
Lesser(a, b) == IF a <= b THEN a ELSE b
OpsOf(q) == {q[i] : i \in 1 .. Len(q)}

(* io.poll() runs the handlers of c.  A stopped io_service runs none.      *)
Polling(c) == phase[c] = "poll" /\ ~stopped[c]

(* A send on this descriptor reports an error.                             *)
Broken(c) == sock[c] # "open" \/ down \/ sock[Peer(c)] = "closed"

(* ServerConnection::start and the success branch of handle_connect: the   *)
(* socket is up, the handshake is queued and the first read is started.    *)
Start(c) ==
    /\ Polling(c) /\ sock[c] = "new"
    /\ sock' = [sock EXCEPT ![c] = "open"]
    /\ connected' = [connected EXCEPT ![c] = TRUE]
    /\ out_data' = [out_data EXCEPT ![c] = Append(@, Handshake)]
    /\ rd' = [rd EXCEPT ![c] = "handshake"]
    /\ UNCHANGED <<phase, stopped, ready, write_q, posted, net, down, recv_buffer,
                   nextLen, recv_header, failed, pktcount, history>>
-----------------------------------------------------------------------------
(***************************************************************************)
(* Sending.  async_write is a write_op that sends what the kernel takes    *)
(* and, when that was not all, starts a send for the rest.                 *)
(***************************************************************************)

(* The k cells a send reads through the pointer that asio::buffer took     *)
(* from send_buffer.  Freed memory may still hold them, or not.            *)
Fetched(op, k) ==
    LET cells == SubSeq(op.rem, 1, k)
    IN  IF op.stale THEN {cells, [i \in 1 .. k |-> Junk]} ELSE {cells}

(* reactive_socket_send_op: what performing op now comes to, its new state *)
(* and the cells that left.  Empty when the send would block.              *)
Performed(c, op) ==
    LET k == Lesser(SndCap - Len(net[c]), Len(op.rem))
    IN  IF Broken(c) THEN {[op |-> [op EXCEPT !.rem = <<>>], cells |-> <<>>]}
        ELSE IF k = 0 THEN {}
        ELSE {[op |-> [op EXCEPT !.rem = SubSeq(@, k + 1, Len(@))], cells |-> cells] :
                 cells \in Fetched(op, k)}

(* epoll_reactor::start_op for a write, with queue q and completions p: a  *)
(* speculative send when nobody is queued, else to the back of the queue.  *)
StartWrite(c, op, q, p) ==
    \/ /\ q = <<>>
       /\ \E r \in Performed(c, op) :
             /\ posted' = [posted EXCEPT ![c] = Append(p, r.op)]
             /\ net' = [net EXCEPT ![c] = @ \o r.cells]
       /\ write_q' = [write_q EXCEPT ![c] = q]
    \/ /\ q # <<>> \/ Performed(c, op) = {}
       /\ write_q' = [write_q EXCEPT ![c] = Append(q, op)]
       /\ posted' = [posted EXCEPT ![c] = p]
       /\ UNCHANGED net

(* Defective variant: what a send left over is not sent.                   *)
RunWriteOnce(c) ==
    /\ Polling(c) /\ posted[c] # <<>>
    /\ posted' = [posted EXCEPT ![c] = Tail(@)]
    /\ UNCHANGED <<phase, stopped, connected, ready, sock, out_data, write_q, net, down,
                   recvVars, pktcount, history>>

(* write_op::operator(): the completion of a send.  Data left: the next    *)
(* send is started.  All sent, or an error: handle_write, which is empty.  *)
RunWrite(c) ==
    /\ Polling(c) /\ posted[c] # <<>>
    /\ LET op == Head(posted[c])
           rest == Tail(posted[c])
       IN  \/ /\ op.rem = <<>>
              /\ posted' = [posted EXCEPT ![c] = rest]
              /\ UNCHANGED <<write_q, net>>
           \/ /\ op.rem # <<>>
              /\ StartWrite(c, op, write_q[c], rest)
    /\ UNCHANGED <<phase, stopped, connected, ready, sock, out_data, down, recvVars,
                   pktcount, history>>

(* descriptor_state::perform_io on EPOLLOUT: the first queued op is        *)
(* performed.  Its completion runs at once, and when the kernel is full    *)
(* again the rest goes behind whatever else is queued; the completions of  *)
(* ops performed after it on the same event are posted.                    *)
WriteReady(c) ==
    /\ Polling(c) /\ write_q[c] # <<>>
    /\ \E r \in Performed(c, Head(write_q[c])) :
          /\ net' = [net EXCEPT ![c] = @ \o r.cells]
          /\ \/ /\ write_q' = [write_q EXCEPT ![c] =
                                 IF r.op.rem = <<>> THEN Tail(@) ELSE Append(Tail(@), r.op)]
                /\ UNCHANGED posted
             \/ /\ write_q' = [write_q EXCEPT ![c] = Tail(@)]
                /\ posted' = [posted EXCEPT ![c] = Append(@, r.op)]
    /\ UNCHANGED <<phase, stopped, connected, ready, sock, out_data, down, recvVars,
                   pktcount, history>>
-----------------------------------------------------------------------------
(***************************************************************************)
(* Receiving.  async_read with transfer_exactly(n) calls its handler when  *)
(* n bytes are there, when recv_buffer is full, or on an error.            *)
(***************************************************************************)
Incoming(c) == net[Peer(c)]
(* Defective variant: a closed socket is still read.                       *)
CanReceiveClosed(c) == Polling(c) /\ Incoming(c) # <<>>
CanReceive(c) == Polling(c) /\ sock[c] = "open" /\ Incoming(c) # <<>>

(* recv takes the first k cells of what has arrived.                       *)
Take(c, k) == net' = [net EXCEPT ![Peer(c)] = SubSeq(@, k + 1, Len(@))]

(* The handler receive_next_packet chooses.                                *)
NextRead(n) == IF n = 0 THEN "header" ELSE "msg"

(* handle_read_handshake: the connection is ready.                         *)
ReadHandshake(c) ==
    /\ CanReceive(c) /\ rd[c] = "handshake"
    /\ Take(c, 1)
    /\ ready' = [ready EXCEPT ![c] = TRUE]
    /\ rd' = [rd EXCEPT ![c] = NextRead(nextLen[c])]
    /\ UNCHANGED <<phase, stopped, connected, sock, sendVars, down, recv_buffer,
                   nextLen, recv_header, failed, pktcount, history>>

(* sock.close(): deregister_descriptor aborts the queued operations, whose *)
(* completions are posted.                                                 *)
Aborted(q) == [i \in 1 .. Len(q) |-> [q[i] EXCEPT !.rem = <<>>]]
Close(c) ==
    /\ sock' = [sock EXCEPT ![c] = "closed"]
    /\ posted' = [posted EXCEPT ![c] = @ \o Aborted(write_q[c])]
    /\ write_q' = [write_q EXCEPT ![c] = <<>>]

(* handle_read_header: a bad opcode closes the socket, and the handler     *)
(* goes on to compute nextLen and to start the next read all the same.     *)
ReadHeader(c) ==
    /\ CanReceive(c) /\ rd[c] = "header"
    /\ Take(c, 1)
    /\ \E header \in HeadersRead(Head(Incoming(c)), failed[c]) :
          /\ \/ headerIsGood(header) /\ UNCHANGED <<sock, write_q, posted>>
             \/ ~headerIsGood(header) /\ Close(c)
          /\ recv_header' = [recv_header EXCEPT ![c] = header]
          /\ nextLen' = [nextLen EXCEPT ![c] = Remaining(header)]
          /\ rd' = [rd EXCEPT ![c] = NextRead(Remaining(header))]
    /\ UNCHANGED <<phase, stopped, connected, ready, out_data, down, recv_buffer,
                   failed, pktcount, history>>

(* The k cells that arrive leave the body of a packet incomplete.          *)
ReadPart(c) ==
    /\ CanReceive(c) /\ rd[c] = "msg"
    /\ \E k \in 1 .. Len(Incoming(c)) :
          /\ Len(recv_buffer[c]) + k < Lesser(nextLen[c], MAX_PKT_LEN)
          /\ recv_buffer' = [recv_buffer EXCEPT ![c] = @ \o SubSeq(Incoming(c), 1, k)]
          /\ Take(c, k)
    /\ UNCHANGED <<phase, stopped, connected, ready, sock, sendVars, down, rd, nextLen,
                   recv_header, failed, pktcount, history>>

(* Defective variant: the newest packet goes out first.                    *)
SendFirst(c, p) ==
    /\ out_data' = [out_data EXCEPT ![c] = Encode(p) \o @]
    /\ sent' = [sent EXCEPT ![c] = Append(@, p)]

(* Connection::Send.                                                       *)
Send(c, p) ==
    /\ out_data' = [out_data EXCEPT ![c] = @ \o Encode(p)]
    /\ sent' = [sent EXCEPT ![c] = Append(@, p)]

(* Defective variants: the response carries the text of c's own last       *)
(* request; the response overwrites what out_data held.                    *)
HandlePacketOwnText(c, p) ==
    /\ dispatched' = [dispatched EXCEPT ![c] = Append(@, p)]
    /\ \/ p.opcode = Request /\ Send(c, [opcode |-> Response, id |-> pktcount[c]])
       \/ p.opcode # Request /\ UNCHANGED <<out_data, sent>>
HandlePacketOverwrite(c, p) ==
    LET q == [opcode |-> Response, id |-> p.id]
    IN  /\ dispatched' = [dispatched EXCEPT ![c] = Append(@, p)]
        /\ \/ /\ p.opcode = Request
              /\ out_data' = [out_data EXCEPT ![c] = Encode(q)]
              /\ sent' = [sent EXCEPT ![c] = Append(@, q)]
           \/ p.opcode # Request /\ UNCHANGED <<out_data, sent>>

(* EchoService::HandlePacket: a request is sent back as a response with    *)
(* the same text, a response is only printed.                              *)
HandlePacket(c, p) ==
    /\ dispatched' = [dispatched EXCEPT ![c] = Append(@, p)]
    /\ \/ p.opcode = Request /\ Send(c, [opcode |-> Response, id |-> p.id])
       \/ p.opcode # Request /\ UNCHANGED <<out_data, sent>>

(* handle_read_msg with all nextLen bytes: parse_packet, then the next     *)
(* header.                                                                 *)
ReadMsg(c) ==
    /\ CanReceive(c) /\ rd[c] = "msg"
    /\ LET k == nextLen[c] - Len(recv_buffer[c])
           body == recv_buffer[c] \o SubSeq(Incoming(c), 1, k)
       IN  /\ k \in 1 .. Len(Incoming(c)) /\ nextLen[c] <= MAX_PKT_LEN
           /\ Take(c, k)
           /\ \E r \in EchoReads(body, failed[c]) \ {"throw"} :
                 /\ HandlePacket(c, [opcode |-> recv_header[c].opcode,
                                     id |-> IF r = "ok" THEN TextId(body) ELSE NoId])
                 /\ failed' = [failed EXCEPT ![c] = @ \/ r = "short"]
    /\ nextLen' = [nextLen EXCEPT ![c] = 0]
    /\ recv_buffer' = [recv_buffer EXCEPT ![c] = <<>>]
    /\ rd' = [rd EXCEPT ![c] = NextRead(0)]
    /\ UNCHANGED <<phase, stopped, connected, ready, sock, write_q, posted, down,
                   recv_header, pktcount, overlapped>>

(* The same, but reading the text throws: the exception leaves io.poll()   *)
(* and main returns.                                                       *)
Throw(c) ==
    /\ CanReceive(c) /\ rd[c] = "msg"
    /\ LET k == nextLen[c] - Len(recv_buffer[c])
           body == recv_buffer[c] \o SubSeq(Incoming(c), 1, k)
       IN  /\ k \in 1 .. Len(Incoming(c)) /\ nextLen[c] <= MAX_PKT_LEN
           /\ "throw" \in EchoReads(body, failed[c])
           /\ Take(c, k)
    /\ phase' = [phase EXCEPT ![c] = "exit"]
    /\ sock' = [sock EXCEPT ![c] = "closed"]
    /\ write_q' = [write_q EXCEPT ![c] = <<>>]
    /\ posted' = [posted EXCEPT ![c] = <<>>]
    /\ rd' = [rd EXCEPT ![c] = "none"]
    /\ recv_buffer' = [recv_buffer EXCEPT ![c] = <<>>]
    /\ UNCHANGED <<stopped, connected, ready, out_data, down, nextLen, recv_header,
                   failed, pktcount, history>>

(* handle_read_msg with a full recv_buffer that is not nextLen bytes long: *)
(* it returns without starting another read.                               *)
ReadStall(c) ==
    /\ CanReceive(c) /\ rd[c] = "msg"
    /\ LET k == MAX_PKT_LEN - Len(recv_buffer[c])
       IN  k \in 1 .. Len(Incoming(c)) /\ MAX_PKT_LEN < nextLen[c] /\ Take(c, k)
    /\ rd' = [rd EXCEPT ![c] = "none"]
    /\ recv_buffer' = [recv_buffer EXCEPT ![c] = <<>>]
    /\ UNCHANGED <<phase, stopped, connected, ready, sock, sendVars, down, nextLen,
                   recv_header, failed, pktcount, history>>

(* Defective variant: a failed read is started again.                      *)
ReadFailRetry(c) ==
    /\ Polling(c) /\ rd[c] # "none" /\ Broken(c)
    /\ recv_buffer' = [recv_buffer EXCEPT ![c] = <<>>]
    /\ UNCHANGED <<phase, stopped, connected, ready, sock, sendVars, net, down, rd,
                   nextLen, recv_header, failed, pktcount, history>>

(* Any read handler with an error: too few bytes, so no further read.  A   *)
(* peer that closes with data unread resets the link, and what it sent may *)
(* be lost.                                                                *)
ReadFail(c) ==
    /\ Polling(c) /\ rd[c] # "none"
    /\ Broken(c)
    /\ rd' = [rd EXCEPT ![c] = "none"]
    /\ recv_buffer' = [recv_buffer EXCEPT ![c] = <<>>]
    /\ UNCHANGED <<phase, stopped, connected, ready, sock, sendVars, net, down, nextLen,
                   recv_header, failed, pktcount, history>>
-----------------------------------------------------------------------------
(* Defective variant: the read does not keep the connection alive.         *)
IdleButReading(c) == sock[c] # "new" /\ write_q[c] = <<>> /\ posted[c] = <<>>

(* No asynchronous operation of c is outstanding.                          *)
Idle(c) == sock[c] # "new" /\ rd[c] = "none" /\ write_q[c] = <<>> /\ posted[c] = <<>>

(* The last handler of a server connection held the last shared_ptr to it: *)
(* ~ServerConnection, which takes it off the server's list.                *)
Destroy(c) ==
    /\ c = Server /\ Polling(c) /\ Idle(c)
    /\ phase' = [phase EXCEPT ![c] = "gone"]
    /\ sock' = [sock EXCEPT ![c] = "closed"]
    /\ UNCHANGED <<stopped, connected, ready, sendVars, net, down, recvVars, pktcount,
                   history>>

(* poll() returns once no handler is ready.  On the client, where nothing  *)
(* else uses the io_service, running out of work stops it.                 *)
EndPoll(c) ==
    /\ phase[c] = "poll"
    /\ stopped[c] \/ posted[c] = <<>>
    /\ ~(c = Server /\ Idle(c))
    /\ phase' = [phase EXCEPT ![c] = "tick"]
    /\ stopped' = [stopped EXCEPT ![c] = @ \/ Idle(c)]
    /\ UNCHANGED <<connected, ready, sock, sendVars, net, down, recvVars, pktcount,
                   history>>

Unfinished(c) == \E op \in OpsOf(write_q[c]) \cup OpsOf(posted[c]) : op.rem # <<>>

(* The storage the operations of queue q read from is freed.               *)
Freed(q) == [i \in 1 .. Len(q) |-> [q[i] EXCEPT !.stale = TRUE]]

(* Connection::Tick: the assignment to send_buffer frees the storage that  *)
(* operations still in progress point into, whether or not there is        *)
(* anything new to write.                                                  *)
Tick(c) ==
    /\ overlapped' = [overlapped EXCEPT ![c] = @ \/ Unfinished(c)]
    /\ \/ /\ out_data[c] # <<>>
          /\ StartWrite(c, [rem |-> out_data[c], stale |-> FALSE],
                        Freed(write_q[c]), Freed(posted[c]))
       \/ /\ out_data[c] = <<>>
          /\ write_q' = [write_q EXCEPT ![c] = Freed(@)]
          /\ posted' = [posted EXCEPT ![c] = Freed(@)]
          /\ UNCHANGED net

(* GenerateEchoRequest: out_data is what Tick left, empty.                 *)
GenerateEchoRequest(c) ==
    LET p == [opcode |-> Request, id |-> pktcount[c] + 1]
    IN  /\ pktcount' = [pktcount EXCEPT ![c] = @ + 1]
        /\ out_data' = [out_data EXCEPT ![c] = Encode(p)]
        /\ sent' = [sent EXCEPT ![c] = Append(@, p)]

(* The body of the main loop after io.poll().                              *)
MainTick(c) ==
    /\ phase[c] = "tick"
    /\ phase' = [phase EXCEPT ![c] = "poll"]
    /\ \/ /\ connected[c]
          /\ Tick(c)
          /\ \/ /\ ready[c] /\ pktcount[c] < MaxRequests
                /\ GenerateEchoRequest(c)
             \/ /\ ~ready[c] \/ pktcount[c] = MaxRequests
                /\ out_data' = [out_data EXCEPT ![c] = <<>>]
                /\ UNCHANGED <<pktcount, sent>>
       \/ /\ ~connected[c]
          /\ UNCHANGED <<sendVars, net, pktcount, sent, overlapped>>
    /\ UNCHANGED <<stopped, connected, ready, sock, down, recvVars, dispatched>>

(* The environment: the TCP connection is reset.                           *)
Cut ==
    /\ ~down /\ \E c \in Conn : sock[c] = "open"
    /\ down' = TRUE
    /\ UNCHANGED <<phase, stopped, connected, ready, sock, sendVars, net, recvVars,
                   pktcount, history>>
-----------------------------------------------------------------------------
Receive(c) == ReadHandshake(c) \/ ReadHeader(c) \/ ReadPart(c) \/ ReadMsg(c)
              \/ Throw(c) \/ ReadStall(c)

Next == \/ \E c \in Conn :
              \/ Start(c) \/ RunWrite(c) \/ WriteReady(c) \/ Receive(c) \/ ReadFail(c)
              \/ Destroy(c) \/ EndPoll(c) \/ MainTick(c)
        \/ Cut

Spec == Init /\ [][Next]_vars

(* What a process does on its own account: handlers already due and the    *)
(* main loop.                                                              *)
Loop(c) == RunWrite(c) \/ Destroy(c) \/ EndPoll(c) \/ MainTick(c)

(* Neither process is suspended for good, and a socket event that the      *)
(* reactor could report in poll after poll is not missed for ever.         *)
Fairness ==
    \A c \in Conn : /\ WF_vars(Loop(c))
                    /\ SF_vars(Start(c)) /\ SF_vars(WriteReady(c))
                    /\ SF_vars(Receive(c) \/ ReadFail(c))

FairSpec == Spec /\ Fairness
-----------------------------------------------------------------------------
(***************************************************************************)
(* Properties.                                                             *)
(***************************************************************************)

(* Every variable has its type.                                            *)
TypeOK ==
    /\ phase \in [Conn -> {"poll", "tick", "exit", "gone"}]
    /\ stopped \in [Conn -> BOOLEAN]
    /\ connected \in [Conn -> BOOLEAN]
    /\ ready \in [Conn -> BOOLEAN]
    /\ sock \in [Conn -> {"new", "open", "closed"}]
    /\ out_data \in [Conn -> Seq(Cell)]
    /\ write_q \in [Conn -> Seq(WriteOp)]
    /\ posted \in [Conn -> Seq(WriteOp)]
    /\ net \in [Conn -> Seq(Cell)]
    /\ \A c \in Conn : Len(net[c]) <= SndCap
    /\ down \in BOOLEAN
    /\ rd \in [Conn -> {"none", "handshake", "header", "msg"}]
    /\ recv_buffer \in [Conn -> Seq(Cell)]
    /\ nextLen \in [Conn -> 0 .. SizeMod - 1]
    /\ recv_header \in [Conn -> Header]
    /\ failed \in [Conn -> BOOLEAN]
    /\ pktcount \in [Conn -> 0 .. MaxRequests]
    /\ sent \in [Conn -> Seq(Packet)]
    /\ dispatched \in [Conn -> Seq(Packet)]
    /\ overlapped \in [Conn -> BOOLEAN]

(* What an endpoint passes to HandlePacket is what its peer passed to      *)
(* Send, in that order and without a gap, through batching in Tick,        *)
(* partial sends and partial receives, as long as no Tick of the peer ran  *)
(* while an async_write was still going on.                                *)
IsPrefixOf(s, t) == Len(s) <= Len(t) /\ \A i \in 1 .. Len(s) : s[i] = t[i]
InOrder == \A c \in Conn :
    ~overlapped[Peer(c)] => IsPrefixOf(dispatched[c], sent[Peer(c)])

(* Byte-stream conservation: what the kernels, the operations in progress  *)
(* and out_data hold of c's stream is exactly what Peer(c) still has to    *)
(* receive; on a broken link, what arrives is a prefix of that.            *)
FrameLen == HeaderLen + BodyLen
StreamCell(s, i) ==
    IF i = 1 THEN Handshake
    ELSE Encode(s[1 + ((i - 2) \div FrameLen)])[1 + ((i - 2) % FrameLen)]
StreamLen(c) == IF sock[c] = "new" THEN 0 ELSE 1 + FrameLen * Len(sent[c])
Consumed(c) ==
    IF rd[c] \in {"none", "handshake"} THEN 0
    ELSE 1 + FrameLen * Len(dispatched[c])
           + (IF rd[c] = "msg" THEN HeaderLen + Len(recv_buffer[c]) ELSE 0)
Queued(c) == write_q[c] \o posted[c]
Pending(q) == {i \in 1 .. Len(q) : q[i].rem # <<>>}
Remainder(q) == IF Pending(q) = {} THEN <<>> ELSE q[CHOOSE i \in Pending(q) : TRUE].rem
StreamIntact == \A c \in Conn :
    LET n == Consumed(Peer(c))
        flight == net[c] \o Remainder(Queued(c)) \o out_data[c]
    IN  ~overlapped[c] /\ (rd[Peer(c)] # "none" \/ sock[Peer(c)] = "new") =>
          /\ \A i \in 1 .. Len(net[c]) : net[c][i] = StreamCell(sent[c], n + i)
          /\ ~Broken(c) /\ sock[c] = "open" =>
                /\ n + Len(flight) = StreamLen(c)
                /\ \A i \in 1 .. Len(flight) : flight[i] = StreamCell(sent[c], n + i)

(* The abstract channel: packets, requests answered at once, no bytes.     *)
Channel == INSTANCE PacketChannel WITH faulty <- overlapped, Ids <- 0 .. MaxRequests
ImplementsChannel == Channel!Spec

(* Of the requests an endpoint made it gets back the first ones, each      *)
(* once, in order, with the text it sent: no echo is lost, doubled or      *)
(* altered while neither side's writes overlapped.                         *)
Echoes(c, n) == Channel!Count(dispatched[c], Response, n)
EchoIntegrity == (\A c \in Conn : ~overlapped[c]) =>
    \A c \in Conn :
       /\ Echoes(c, Len(dispatched[c])) <= pktcount[c]
       /\ \A i \in 1 .. Len(dispatched[c]) :
             dispatched[c][i].opcode = Response => dispatched[c][i].id = Echoes(c, i)

(* On a link that nobody resets and whose writes never overlap, every      *)
(* header is good, no read stalls or comes up short, no exception ends a   *)
(* process and the client's io_service keeps running.                      *)
HealthyLink ==
    ~down /\ (\A c \in Conn : ~overlapped[c]) =>
        \A c \in Conn : /\ phase[c] \in {"poll", "tick"} /\ sock[c] # "closed"
                        /\ ~stopped[c] /\ ~failed[c]
                        /\ sock[c] = "open" => rd[c] # "none"
                        /\ rd[c] = "msg" => nextLen[c] = BodyLen

(* Once c has closed its socket over a bad header it neither dispatches a  *)
(* packet nor puts a cell on the wire, although handle_read_header goes on *)
(* to start another read and Tick goes on to start writes.                 *)
ClosedIsFinal == [][\A c \in Conn : sock[c] = "closed" =>
    /\ sock'[c] = "closed" /\ dispatched'[c] = dispatched[c]
    /\ Len(net'[c]) <= Len(net[c])]_vars

(* Every endpoint that comes up gets all its echoes, unless the link is    *)
(* reset or writes overlap.                                                *)
Trouble == down \/ \E c \in Conn : overlapped[c]
EchoAnswered == \A c \in Conn :
    connected[c] ~> (Trouble \/ Echoes(c, Len(dispatched[c])) = MaxRequests)

(* A server connection whose link is gone is destroyed and so leaves the   *)
(* server's list (or the server process has ended).                        *)
LostClientRemoved ==
    (sock[Server] = "open" /\ (down \/ sock[Client] = "closed"))
        ~> phase[Server] \in {"gone", "exit"}
-----------------------------------------------------------------------------
(***************************************************************************)
(* What comments of the repository say, and the code does not keep.        *)
(***************************************************************************)

(* asio/write.hpp, async_write: the program must ensure that the stream    *)
(* performs no other write operations until this one completes.            *)
WriteExclusion == \A c \in Conn : Cardinality(Pending(Queued(c))) <= 1

(* socket_connection.cpp: "If we have a corrupted header, we just close    *)
(* the socket."  An open socket is only read for bodies a header can       *)
(* truly announce.                                                         *)
CorruptHeaderCloses == \A c \in Conn :
    sock[c] = "open" /\ rd[c] = "msg" => nextLen[c] <= MAX_PKT_LEN
=============================================================================
