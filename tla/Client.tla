------------------------------- MODULE Client -------------------------------
(***************************************************************************)
(* How a ClientConnection comes up: the name is resolved by a second       *)
(* thread, the endpoints found are tried one after the other, and main     *)
(* polls an io_service that stops when nothing is outstanding any more     *)
(* (client.cpp, client/main.cpp, asio's resolver service).                 *)
(*                                                                         *)
(* The io_service of main counts its outstanding work in work; the one of  *)
(* the resolver's thread in threadWork.  What the established link         *)
(* transfers is module Connection's business.                              *)
(***************************************************************************)
EXTENDS Integers, Sequences

CONSTANTS
    Family,         (* address families: IPv4, IPv6                        *)
    Answers,        (* what a name may resolve to: sequences of endpoints  *)
    MaxWrites       (* bound on the outstanding writes of the link         *)

(* An endpoint, and whether a connection attempt to it is accepted.        *)
Endpoint == [family : Family, up : BOOLEAN]

(* getaddrinfo returns at least one address when it succeeds.              *)
ASSUME ClientAssumption ==
    /\ MaxWrites \in Nat
    /\ Answers \subseteq Seq(Endpoint) \ {<<>>}

VARIABLES
    phase,          (* where main is                                       *)
    supported,      (* the families this host can open a socket of         *)
    request,        (* the resolve_op                                      *)
    endpoints,      (* the list behind the iterators, <<>> if there is none *)
    ep,             (* the iterator bound into handle_connect              *)
    sock,           (* the family of the open socket, or "closed"          *)
    attempt,        (* the outstanding async_connect                       *)
    tried,          (* history: the positions connects were started for    *)
    connected,      (* Connection::connected                               *)
    reading,        (* the link's read is outstanding                      *)
    writes,         (* the link's outstanding writes                       *)
    work,           (* outstanding_work_ of main's io_service              *)
    stopped,        (* its stopped_                                        *)
    thread,         (* the resolver's thread                               *)
    threadWork,     (* outstanding_work_ of the thread's io_service        *)
    threadStopped   (* its stopped_                                        *)

socket == <<ep, sock, attempt, tried>>
link == <<connected, reading, writes>>
resolver == <<thread, threadWork, threadStopped>>
vars == <<phase, supported, request, endpoints, socket, link, work, stopped, resolver>>

Closed == "closed"
End == 0            \* the default-constructed iterator
Nowhere == [family |-> Closed, up |-> FALSE]

(* The client has been created; its resolver service holds a work object   *)
(* on the thread's io_service.                                             *)
Init ==
    /\ phase = "start" /\ supported \in SUBSET Family
    /\ request = "none" /\ endpoints = <<>> /\ ep = End
    /\ sock = Closed /\ attempt = "none" /\ tried = <<>>
    /\ connected = FALSE /\ reading = FALSE /\ writes = 0
    /\ work = 0 /\ stopped = FALSE
    /\ thread = "none" /\ threadWork = 1 /\ threadStopped = FALSE
-----------------------------------------------------------------------------
(* Connect: async_resolve starts the thread ...                            *)
StartThread ==
    /\ phase = "start"
    /\ phase' = "connect" /\ thread' = "run"
    /\ UNCHANGED <<supported, request, endpoints, socket, link, work, stopped,
                   threadWork, threadStopped>>

(* Defective variant: the pending request does not count as work.          *)
PostResolveUncounted ==
    /\ phase = "connect"
    /\ phase' = "poll" /\ request' = "queued"
    /\ threadWork' = threadWork + 1
    /\ UNCHANGED <<supported, endpoints, socket, link, work, stopped, thread, threadStopped>>

(* ... and hands it the request, which is work for both io_services.       *)
PostResolve ==
    /\ phase = "connect"
    /\ phase' = "poll" /\ request' = "queued"
    /\ work' = work + 1 /\ threadWork' = threadWork + 1
    /\ UNCHANGED <<supported, endpoints, socket, link, stopped, thread, threadStopped>>

(* The thread calls run(), which without work stops its io_service.        *)
ThreadRun ==
    /\ thread = "run"
    /\ thread' = "wait"
    /\ threadStopped' = (threadStopped \/ threadWork = 0)
    /\ UNCHANGED <<phase, supported, request, endpoints, socket, link, work, stopped, threadWork>>

ThreadTake ==
    /\ thread = "wait" /\ ~threadStopped /\ request = "queued"
    /\ thread' = "resolve" /\ request' = "resolving"
    /\ UNCHANGED <<phase, supported, endpoints, socket, link, work, stopped, threadWork,
                   threadStopped>>

(* getaddrinfo returns, with an error or a list; the operation goes back   *)
(* to main's io_service and is off the thread's account.                   *)
ThreadResolve ==
    /\ thread = "resolve"
    /\ thread' = "wait" /\ request' = "posted"
    /\ endpoints' \in Answers \cup {<<>>}
    /\ threadWork' = threadWork - 1
    /\ threadStopped' = (threadStopped \/ threadWork = 1)
    /\ UNCHANGED <<phase, supported, socket, link, work, stopped>>

ThreadReturn ==
    /\ thread = "wait" /\ threadStopped
    /\ thread' = "ended"
    /\ UNCHANGED <<phase, supported, request, endpoints, socket, link, work, stopped,
                   threadWork, threadStopped>>
-----------------------------------------------------------------------------
(* basic_resolver_iterator: ++ep, and *ep.                                 *)
Incremented(i) == IF i + 1 > Len(endpoints) THEN End ELSE i + 1
Dereferenced(i) == IF i \in DOMAIN endpoints THEN endpoints[i] ELSE Nowhere

(* Defective variant: the bind increments the iterator before it is        *)
(* dereferenced.                                                           *)
StartConnectIncremented(i, s) ==
    LET e == Dereferenced(Incremented(i))
        open == IF s = Closed /\ e.family \in supported THEN e.family ELSE s
    IN  /\ sock' = open
        /\ tried' = Append(tried, Incremented(i))
        /\ ep' = Incremented(i)
        /\ attempt' \in IF open # e.family THEN {"failed"}
                        ELSE {"pending", IF e.up THEN "accepted" ELSE "failed"}

(* async_connect to the endpoint at i, ++i bound into its handler, with    *)
(* sock open for family s or closed.  A closed socket is opened for the    *)
(* endpoint's own family; an open one of another family, or one that could *)
(* not be opened, fails.  The kernel knows at once or later.               *)
StartConnect(i, s) ==
    LET e == Dereferenced(i)
        open == IF s = Closed /\ e.family \in supported THEN e.family ELSE s
    IN  /\ sock' = open
        /\ tried' = Append(tried, i)
        /\ ep' = Incremented(i)
        /\ attempt' \in IF open # e.family THEN {"failed"}
                        ELSE {"pending", IF e.up THEN "accepted" ELSE "failed"}

(* A pending connect is decided.                                           *)
Decide ==
    /\ attempt = "pending"
    /\ attempt' = IF endpoints[tried[Len(tried)]].up THEN "accepted" ELSE "failed"
    /\ UNCHANGED <<phase, supported, request, endpoints, ep, sock, tried, link, work,
                   stopped, resolver>>

(* poll() runs handlers of a stopped io_service no more.                   *)
Polling == phase = "poll" /\ ~stopped

(* Defective variant: the finished operation is taken off the account      *)
(* before its handler has run.                                             *)
HandledFirst(started) ==
    /\ work' = work - 1 + started
    /\ stopped' = (stopped \/ work = 1)

(* A handler that has started so many new operations is done, and its own  *)
(* operation is taken off the account; the last one stops the io_service.  *)
Handled(started) ==
    /\ work' = work - 1 + started
    /\ stopped' = (stopped \/ work' = 0)

HandleResolve ==
    /\ Polling /\ request = "posted"
    /\ request' = "done"
    /\ IF endpoints # <<>> THEN StartConnect(1, sock) /\ Handled(1)
                           ELSE UNCHANGED socket /\ Handled(0)
    /\ UNCHANGED <<phase, supported, endpoints, link, resolver>>

(* Success: the handshake is to be read, and Tick will write.              *)
HandleConnect ==
    /\ Polling /\ attempt = "accepted"
    /\ attempt' = "none"
    /\ connected' = TRUE /\ reading' = TRUE
    /\ Handled(1)
    /\ UNCHANGED <<phase, supported, request, endpoints, ep, sock, tried, writes, resolver>>

(* Defective variant: the failed socket is not closed.                     *)
HandleConnectErrorOpen ==
    /\ Polling /\ attempt = "failed"
    /\ IF ep # End THEN StartConnect(ep, sock) /\ Handled(1)
                   ELSE attempt' = "none" /\ UNCHANGED <<ep, sock, tried>> /\ Handled(0)
    /\ UNCHANGED <<phase, supported, request, endpoints, link, resolver>>

(* An error: close, and on to the next endpoint if there is one.           *)
HandleConnectError ==
    /\ Polling /\ attempt = "failed"
    /\ IF ep # End THEN StartConnect(ep, Closed) /\ Handled(1)
                   ELSE attempt' = "none" /\ UNCHANGED <<ep, sock, tried>> /\ Handled(0)
    /\ UNCHANGED <<phase, supported, request, endpoints, link, resolver>>

(* A read handler that does not read on, and a write that has ended.       *)
HandleReadEnd ==
    /\ Polling /\ reading
    /\ reading' = FALSE /\ Handled(0)
    /\ UNCHANGED <<phase, supported, request, endpoints, socket, connected, writes, resolver>>

(* Defective variant: the handler of a write runs twice.                   *)
HandleWriteAny ==
    /\ Polling /\ connected
    /\ writes' = writes - 1 /\ Handled(0)
    /\ UNCHANGED <<phase, supported, request, endpoints, socket, connected, reading, resolver>>

HandleWrite ==
    /\ Polling /\ writes > 0
    /\ writes' = writes - 1 /\ Handled(0)
    /\ UNCHANGED <<phase, supported, request, endpoints, socket, connected, reading, resolver>>

(* poll() returns when no handler is ready; without work it stops the      *)
(* io_service first.                                                       *)
EndPoll ==
    /\ phase = "poll"
    /\ stopped \/ (request # "posted" /\ attempt \notin {"accepted", "failed"})
    /\ phase' = "tick" /\ stopped' = (stopped \/ work = 0)
    /\ UNCHANGED <<supported, request, endpoints, socket, link, work, resolver>>

(* The rest of the loop: Tick may start a write, also on a lost link.      *)
MainTick ==
    /\ phase = "tick"
    /\ phase' = "poll"
    /\ \/ /\ connected /\ writes < MaxWrites
          /\ writes' = writes + 1 /\ work' = work + 1
       \/ UNCHANGED <<writes, work>>
    /\ UNCHANGED <<supported, request, endpoints, socket, connected, reading, stopped, resolver>>
-----------------------------------------------------------------------------
(* A read handler throws: main leaves its try block and io is destroyed.   *)
HandlerThrows ==
    /\ Polling /\ reading
    /\ phase' = "unwind" /\ reading' = FALSE /\ Handled(0)
    /\ UNCHANGED <<supported, request, endpoints, socket, connected, writes, resolver>>

(* Defective variant: the thread is joined without being told to end.      *)
ShutdownResolverRunning ==
    /\ phase = "unwind"
    /\ phase' = "join"
    /\ UNCHANGED <<supported, request, endpoints, socket, link, work, stopped, resolver>>

(* The resolver service, created last, is shut down first: its work object *)
(* goes, its io_service is stopped ...                                     *)
ShutdownResolver ==
    /\ phase = "unwind"
    /\ phase' = "join" /\ threadWork' = threadWork - 1 /\ threadStopped' = TRUE
    /\ UNCHANGED <<supported, request, endpoints, socket, link, work, stopped, thread>>

(* ... and its thread is joined; then the operations still held by main's  *)
(* io_service are destroyed, and with them the connection.                 *)
Join ==
    /\ phase = "join" /\ thread = "ended"
    /\ phase' = "ended" /\ sock' = Closed /\ writes' = 0
    /\ UNCHANGED <<supported, request, endpoints, ep, attempt, tried, connected, reading,
                   work, stopped, resolver>>

Thread == ThreadRun \/ ThreadTake \/ ThreadResolve \/ ThreadReturn
Main ==
    \/ StartThread \/ PostResolve \/ HandleResolve \/ HandleConnect \/ HandleConnectError
    \/ HandleReadEnd \/ HandleWrite \/ EndPoll \/ MainTick
    \/ HandlerThrows \/ ShutdownResolver \/ Join

Next == Thread \/ Main \/ Decide

Spec == Init /\ [][Next]_vars

(* Both threads run, getaddrinfo returns, and the kernel decides every     *)
(* attempt (it gives up in the end).                                       *)
Fairness == WF_vars(Thread) /\ WF_vars(Main) /\ WF_vars(Decide)
FairSpec == Spec /\ Fairness
-----------------------------------------------------------------------------
TypeOK ==
    /\ phase \in {"start", "connect", "poll", "tick", "unwind", "join", "ended"}
    /\ supported \subseteq Family
    /\ request \in {"none", "queued", "resolving", "posted", "done"}
    /\ endpoints \in Answers \cup {<<>>}
    /\ ep \in Nat /\ sock \in Family \cup {Closed}
    /\ attempt \in {"none", "pending", "accepted", "failed"}
    /\ tried \in Seq(Nat)
    /\ connected \in BOOLEAN /\ reading \in BOOLEAN /\ writes \in 0 .. MaxWrites
    /\ work \in Nat /\ stopped \in BOOLEAN
    /\ thread \in {"none", "run", "wait", "resolve", "ended"}
    /\ threadWork \in Nat /\ threadStopped \in BOOLEAN

(* The endpoints are tried in the resolver's order, each once, none left   *)
(* out, never beyond the end; and the iterator bound into the next handler *)
(* is always the one after the last tried.                                 *)
TriedInOrder ==
    /\ Len(tried) <= Len(endpoints)
    /\ \A i \in 1 .. Len(tried) : tried[i] = i
    /\ tried # <<>> => ep = Incremented(Len(tried))

Count(b) == IF b THEN 1 ELSE 0

(* outstanding_work_ counts every operation of main's io_service once,     *)
(* also the request that is with the other thread.                         *)
WorkExact == phase # "ended" =>
    work = Count(request \in {"queued", "resolving", "posted"}) + Count(attempt # "none")
           + Count(reading) + writes

(* The io_service stops only for good reasons: there was no endpoint that  *)
(* took the connection, or the link has come up and its read has ended.    *)
StopJustified == stopped =>
    /\ request = "done" /\ attempt = "none" /\ ~reading
    /\ connected \/ \A i \in DOMAIN endpoints : i \in {tried[j] : j \in 1 .. Len(tried)}

(* If the name resolves to an endpoint that accepts connections, over a    *)
(* family this host has, the client gets connected, however many useless   *)
(* ones come before it.                                                    *)
ReachableIsReached ==
    (\E i \in DOMAIN endpoints : endpoints[i].up /\ endpoints[i].family \in supported)
        ~> connected

(* A client that ends gets past the join of the resolver's thread.         *)
ExitCompletes == phase = "unwind" ~> phase = "ended"
=============================================================================
