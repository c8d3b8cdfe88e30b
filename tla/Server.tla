------------------------------- MODULE Server -------------------------------
(***************************************************************************)
(* my_server: the accept loop, the list of clients the main loop walks,    *)
(* and how long a ServerConnection lives (server.cpp, server.hpp, main of  *)
(* the server).                                                            *)
(*                                                                         *)
(* The list holds raw pointers.  What keeps a ServerConnection alive is    *)
(* the shared_ptr bound into each handler of an outstanding operation: the *)
(* accept, the read, the writes.  What those operations transfer is module *)
(* Connection's business; here an operation is outstanding or not.         *)
(***************************************************************************)
EXTENDS Integers, Sequences, FiniteSets

CONSTANTS
    Address,        (* where a ServerConnection can be allocated           *)
    MaxWrites,      (* bound on the outstanding writes of one connection   *)
    MaxArrivals     (* bound on the connection attempts                    *)

ASSUME ServerAssumption ==
    MaxWrites \in Nat \ {0} /\ MaxArrivals \in Nat /\ Address # {}

VARIABLES
    phase,          (* "poll", "tick", "unwind", "io" or "ended"           *)
    iter,           (* the next list index of the main loop's for          *)
    clients,        (* my_server::clients, "none" once it is destroyed     *)
    live,           (* the addresses of existing ServerConnections         *)
    connected,      (* those whose connected is set                        *)
    accepting,      (* the object the outstanding async_accept is for      *)
    reading,        (* those with an outstanding async_read                *)
    writes,         (* the number of outstanding async_writes              *)
    lost,           (* those whose link has failed                         *)
    arrivals,       (* connection attempts so far                          *)
    backlog         (* of those, not yet accepted                          *)

vars == <<phase, iter, clients, live, connected, accepting, reading, writes, lost,
          arrivals, backlog>>

NoList == "none"
None == "none"
Elements(s) == {s[i] : i \in 1 .. Len(s)}

(* my_server's constructor: start_accept has run once.                     *)
Init ==
    /\ phase = "poll" /\ iter = 1
    /\ \E a \in Address : /\ clients = <<a>> /\ live = {a} /\ accepting = a
    /\ connected = {} /\ reading = {} /\ lost = {}
    /\ writes = [a \in Address |-> 0]
    /\ arrivals = 0 /\ backlog = 0
-----------------------------------------------------------------------------
(* A client's SYN completes the handshake of the listening socket.         *)
Arrive ==
    /\ arrivals < MaxArrivals
    /\ arrivals' = arrivals + 1
    /\ backlog' = backlog + 1
    /\ UNCHANGED <<phase, iter, clients, live, connected, accepting, reading, writes,
                   lost>>

(* The link of a connected client fails, or the client closes it.          *)
Lose(a) ==
    /\ a \in connected \ lost
    /\ lost' = lost \cup {a}
    /\ UNCHANGED <<phase, iter, clients, live, connected, accepting, reading, writes,
                   arrivals, backlog>>
-----------------------------------------------------------------------------
(* ~ServerConnection: erase(remove(begin, end, this)) on the list, which   *)
(* has the pointer at most once (ListExact).                               *)
Erased(list, a) ==
    IF a \notin Elements(list) THEN list
    ELSE LET i == CHOOSE j \in 1 .. Len(list) : list[j] = a
         IN  SubSeq(list, 1, i - 1) \o SubSeq(list, i + 1, Len(list))

(* start_accept: a new object, at an address that is free while the old    *)
(* one, held by the running handler, still exists.                         *)
NewObject(b) == b \in Address \ live

(* handle_accept without error: start() on the object (its handshake read  *)
(* is outstanding), then start_accept.                                     *)
HandleAccept ==
    /\ phase = "poll" /\ backlog > 0
    /\ backlog' = backlog - 1
    /\ connected' = connected \cup {accepting}
    /\ reading' = reading \cup {accepting}
    /\ \E b \in Address :
          /\ NewObject(b)
          /\ clients' = Append(clients, b)
          /\ live' = live \cup {b}
          /\ accepting' = b
    /\ UNCHANGED <<phase, iter, writes, lost, arrivals>>

(* handle_accept with an error: start_accept all the same; the object that *)
(* was to be connected dies with the handler.  Running out of descriptors  *)
(* leaves the attempt in the backlog, where the next accept finds it.      *)
HandleAcceptError ==
    /\ phase = "poll" /\ backlog > 0
    /\ backlog' \in {backlog - 1, backlog}
    /\ \E b \in Address :
          /\ NewObject(b)
          /\ clients' = Erased(Append(clients, b), accepting)
          /\ live' = (live \cup {b}) \ {accepting}
          /\ accepting' = b
    /\ UNCHANGED <<phase, iter, connected, reading, writes, lost, arrivals>>

(* Defective variant: the destructor does not run erase.                   *)
ReleaseKeepsPointer(a, r, w) ==
    LET dead == ~r /\ w = 0
    IN  /\ reading' = IF r THEN reading \cup {a} ELSE reading \ {a}
        /\ writes' = [writes EXCEPT ![a] = w]
        /\ live' = IF dead THEN live \ {a} ELSE live
        /\ connected' = IF dead THEN connected \ {a} ELSE connected
        /\ lost' = IF dead THEN lost \ {a} ELSE lost
        /\ UNCHANGED clients

(* A handler of a has run, leaving it the read r and w writes: when that   *)
(* is nothing, the handler's shared_ptr was the last and a is destroyed.   *)
Release(a, r, w) ==
    LET dead == ~r /\ w = 0
    IN  /\ reading' = IF r THEN reading \cup {a} ELSE reading \ {a}
        /\ writes' = [writes EXCEPT ![a] = w]
        /\ live' = IF dead THEN live \ {a} ELSE live
        /\ connected' = IF dead THEN connected \ {a} ELSE connected
        /\ lost' = IF dead THEN lost \ {a} ELSE lost
        /\ clients' = IF dead THEN Erased(clients, a) ELSE clients

(* Defective variant: a failed read is started again.                      *)
HandleReadEndRetry(a) ==
    /\ phase = "poll" /\ a \in reading
    /\ Release(a, TRUE, writes[a])
    /\ UNCHANGED <<phase, iter, accepting, arrivals, backlog>>

(* A read handler that does not read on: an error, a short read, or a body *)
(* longer than recv_buffer.  A handler that reads on changes nothing here. *)
HandleReadEnd(a) ==
    /\ phase = "poll" /\ a \in reading
    /\ Release(a, FALSE, writes[a])
    /\ UNCHANGED <<phase, iter, accepting, arrivals, backlog>>

(* Defective variants: a write completes that was not started; the write's *)
(* handler holds no shared_ptr.                                            *)
HandleWriteAny(a) ==
    /\ phase = "poll"
    /\ Release(a, a \in reading, writes[a] - 1)
    /\ UNCHANGED <<phase, iter, accepting, arrivals, backlog>>
HandleWriteNoRelease(a) ==
    /\ phase = "poll" /\ writes[a] > 0
    /\ writes' = [writes EXCEPT ![a] = @ - 1]
    /\ UNCHANGED <<phase, iter, clients, live, connected, accepting, reading, lost,
                   arrivals, backlog>>

HandleWrite(a) ==
    /\ phase = "poll" /\ writes[a] > 0
    /\ Release(a, a \in reading, writes[a] - 1)
    /\ UNCHANGED <<phase, iter, accepting, arrivals, backlog>>

(* A handler of a read throws out of io.poll(); its shared_ptr goes with   *)
(* it.                                                                     *)
HandlerThrows(a) ==
    /\ phase = "poll" /\ a \in reading
    /\ Release(a, FALSE, writes[a])
    /\ phase' = "unwind"
    /\ UNCHANGED <<iter, accepting, arrivals, backlog>>

(* io.poll() returns when no handler is ready.  An attempt to connect      *)
(* makes the accept ready, a failed link every operation on it.            *)
EndPoll ==
    /\ phase = "poll" /\ backlog = 0
    /\ \A a \in lost : a \notin reading /\ writes[a] = 0
    /\ phase' = "tick" /\ iter' = 1
    /\ UNCHANGED <<clients, live, connected, accepting, reading, writes, lost, arrivals,
                   backlog>>
-----------------------------------------------------------------------------
(* Defective variant: a connection that is still being accepted is ticked. *)
TickNextAny ==
    /\ phase = "tick" /\ iter <= Len(clients)
    /\ iter' = iter + 1
    /\ LET a == clients[iter]
       IN  \/ writes[a] < MaxWrites /\ writes' = [writes EXCEPT ![a] = @ + 1]
           \/ UNCHANGED writes
    /\ UNCHANGED <<phase, clients, live, connected, accepting, reading, lost, arrivals,
                   backlog>>

(* One turn of the main loop's for: Tick starts a write when the           *)
(* connection is up and there is something to send.                        *)
TickNext ==
    /\ phase = "tick" /\ iter <= Len(clients)
    /\ iter' = iter + 1
    /\ LET a == clients[iter]
       IN  \/ /\ a \in connected /\ writes[a] < MaxWrites
              /\ writes' = [writes EXCEPT ![a] = @ + 1]
           \/ UNCHANGED writes
    /\ UNCHANGED <<phase, clients, live, connected, accepting, reading, lost, arrivals,
                   backlog>>

EndTick ==
    /\ phase = "tick" /\ iter > Len(clients)
    /\ phase' = "poll"
    /\ UNCHANGED <<iter, clients, live, connected, accepting, reading, writes, lost,
                   arrivals, backlog>>
-----------------------------------------------------------------------------
(* The exception leaves main's try block: server, declared last, goes      *)
(* first and takes the list with it ...                                    *)
DestroyServer ==
    /\ phase = "unwind"
    /\ phase' = "io" /\ clients' = NoList
    /\ UNCHANGED <<iter, live, connected, accepting, reading, writes, lost, arrivals,
                   backlog>>

(* ... then the io_service, which destroys every handler it still holds,   *)
(* and with the handlers the connections.  Their destructors erase from    *)
(* the list all the same.                                                  *)
DestroyIo ==
    /\ phase = "io"
    /\ phase' = "ended"
    /\ live' = {} /\ connected' = {} /\ lost' = {} /\ reading' = {}
    /\ writes' = [a \in Address |-> 0]
    /\ accepting' = None
    /\ UNCHANGED <<iter, clients, arrivals, backlog>>

Next ==
    \/ Arrive \/ HandleAccept \/ HandleAcceptError
    \/ \E a \in Address : Lose(a) \/ HandleReadEnd(a) \/ HandleWrite(a) \/ HandlerThrows(a)
    \/ EndPoll \/ TickNext \/ EndTick \/ DestroyServer \/ DestroyIo

Spec == Init /\ [][Next]_vars

(* The process runs: the accept, its main loop, its way out, and the       *)
(* operations of a failed link, which are ready.                           *)
Fairness ==
    /\ WF_vars(HandleAccept \/ HandleAcceptError \/ EndPoll \/ TickNext \/ EndTick
               \/ DestroyServer \/ DestroyIo)
    /\ \A a \in Address : /\ WF_vars(a \in lost /\ HandleReadEnd(a))
                          /\ WF_vars(a \in lost /\ HandleWrite(a))

FairSpec == Spec /\ Fairness
-----------------------------------------------------------------------------
TypeOK ==
    /\ phase \in {"poll", "tick", "unwind", "io", "ended"}
    /\ iter \in Nat \ {0}
    /\ clients = NoList \/ clients \in Seq(Address)
    /\ live \subseteq Address /\ connected \subseteq Address
    /\ reading \subseteq Address /\ lost \subseteq Address
    /\ accepting \in Address \cup {None}
    /\ writes \in [Address -> 0 .. MaxWrites]
    /\ arrivals \in 0 .. MaxArrivals /\ backlog \in 0 .. MaxArrivals

Running == phase \in {"poll", "tick"}

(* The pointers the main loop walks are exactly the existing connections,  *)
(* each once: it never dereferences a destroyed one and misses none.       *)
ListExact == Running =>
    /\ Elements(clients) = live
    /\ \A i, j \in 1 .. Len(clients) : clients[i] = clients[j] => i = j

(* Every existing connection is owned by an outstanding operation -- the   *)
(* accept, its read or one of its writes -- and whatever owns one owns an  *)
(* existing one: none is leaked, and none is destroyed under an operation. *)
Owned == Running =>
    live = {accepting} \cup reading \cup {a \in Address : writes[a] > 0}

(* Exactly one accept is outstanding, whatever accept has reported, and it *)
(* is for a fresh object the main loop does not tick.                      *)
AcceptOutstanding == Running =>
    accepting \in live \ (connected \cup reading \cup lost) /\ writes[accepting] = 0

(* A client whose link is lost leaves the list.                            *)
LostRemoved == \A a \in Address : a \in lost ~> a \notin lost
=============================================================================
