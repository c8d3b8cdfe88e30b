------------------------------ MODULE Reactor ------------------------------
(***************************************************************************)
(* asio's epoll_reactor under one thread that polls, as NSP's main loops   *)
(* do: sockets that are opened and closed, their descriptor_states, which  *)
(* are pooled and used again, and epoll in edge-triggered mode             *)
(* (epoll_reactor.ipp, reactive_socket_service_base.ipp).                  *)
(*                                                                         *)
(* An edge is told once.  Whoever is not listening then must look at the   *)
(* socket itself later, or it waits for ever.                              *)
(*                                                                         *)
(* A handler is whatever the program does in it: it opens and closes any   *)
(* socket and starts operations.  IoService has the threads, the event     *)
(* and the private queues that are left out here.                          *)
(***************************************************************************)
EXTENDS Integers, Sequences, FiniteSets, SequencesExt

CONSTANTS
    Sock,           (* socket objects                                      *)
    Fd,             (* descriptors the kernel hands out                    *)
    State,          (* descriptor_states, in use or in the pool            *)
    Op              (* operation objects                                   *)

Task == "task"      \* task_operation_
Nil == "nil"
Closed == -1             \* invalid_socket
Kind == {"read", "write"}   \* accept_op is read_op, connect_op is write_op

Unused == [sock |-> Nil, fd |-> Closed, kind |-> Nil]

ASSUME ReactorAssumption ==
    /\ Fd \subseteq Nat /\ IsFiniteSet(State) /\ IsFiniteSet(Op)
    /\ Op \cap State = {} /\ Task \notin Op \cup State
    /\ Nil \notin State \cup Op \cup Sock

VARIABLES
    fd,             (* each socket's socket_, Closed if it has none       *)
    data,           (* its reactor_data_                                   *)
    opq,            (* op_queue_ of each state, by kind                    *)
    out,            (* states with EPOLLOUT in registered_events_          *)
    mask,           (* task_result_: the events told to the state, until   *)
                    (* it is run                                           *)
    made,           (* what each that waits was made for: [sock, fd, kind] *)
    rd, wr,         (* kernel: descriptors that are readable, writable     *)
    edge,           (* kernel: epoll's ready list                          *)
    queue,          (* the io_service's op_queue_                          *)
    work,           (* its outstanding_work_                               *)
    stopped,        (* its stopped_                                        *)
    pc,             (* "main", "poll" or "handler"                         *)
    cur             (* the operation whose handler runs                    *)

sockets == <<fd, data>>
states == <<opq, out, mask>>
kernel == <<rd, wr, edge>>
service == <<queue, work, stopped>>
vars == <<sockets, states, made, kernel, service, pc, cur>>

Init ==
    /\ fd = [s \in Sock |-> Closed] /\ data = [s \in Sock |-> Nil]
    /\ opq = [d \in State |-> [k \in Kind |-> <<>>]]
    /\ out = {} /\ mask = [d \in State |-> {}]
    /\ made = [o \in Op |-> Unused]
    /\ rd = {} /\ wr = {} /\ edge = {}
    /\ queue = <<Task>> /\ work = 0 /\ stopped = FALSE
    /\ pc = "main" /\ cur = Nil

InUse(f) == {f[s] : s \in {t \in Sock : fd[t] # Closed}}
Owner(f) == CHOOSE s \in Sock : fd[s] = f
Registered(f) == data[Owner(f)]     \* what epoll's data.ptr is for f
Ready(f, k) == f \in IF k = "read" THEN rd ELSE wr

Lowest(S) == {f \in S : \A g \in S : f <= g}
Without(f, s) == [o \in Op |-> IF o \in ToSet(s) THEN Unused ELSE f[o]]

Pending == UNION {ToSet(opq[d][k]) : d \in State, k \in Kind}
Queued == ToSet(queue) \cap Op
Idle == Op \ (Pending \cup Queued \cup {cur})
-----------------------------------------------------------------------------
(* The kernel, for a descriptor that is open.  More data is an edge even   *)
(* if there was some; room to write is one for who asked for EPOLLOUT.     *)
Arrive(f) ==
    /\ f \in InUse(fd)
    /\ rd' = rd \cup {f} /\ edge' = edge \cup {f}
    /\ UNCHANGED <<sockets, states, made, wr, service, pc, cur>>

Drain(f) ==
    /\ f \in InUse(fd) \ wr
    /\ wr' = wr \cup {f}
    /\ edge' = IF Registered(f) \in out THEN edge \cup {f} ELSE edge
    /\ UNCHANGED <<sockets, states, made, rd, service, pc, cur>>

(* What performing operations on f leaves of its readiness: recv may take  *)
(* all there is and send fill the buffer, or not.                          *)
Consume(f, k) ==
    \/ UNCHANGED <<rd, wr>>
    \/ k = "read" /\ rd' = rd \ {f} /\ UNCHANGED wr
    \/ k = "write" /\ wr' = wr \ {f} /\ UNCHANGED rd

(* EPOLL_CTL_MOD looks at the descriptor: what is there is an edge again.  *)
Rearmed(f, outs) == IF f \in rd \/ (f \in wr /\ data[Owner(f)] \in outs)
                    THEN edge \cup {f} ELSE edge
-----------------------------------------------------------------------------
(* The program, in a handler or between two polls.                         *)
Acting == pc \in {"main", "handler"}

(* do_open, or do_assign of an accepted socket, which may have data:       *)
(* register_descriptor with a state from the pool and EPOLL_CTL_ADD.       *)
Open(s) ==
    /\ Acting /\ fd[s] = Closed
    /\ \E f \in Lowest(Fd \ InUse(fd)), d \in State \ InUse(data) :
        /\ fd' = [fd EXCEPT ![s] = f] /\ data' = [data EXCEPT ![s] = d]
        /\ \/ rd' = rd /\ edge' = edge
           \/ rd' = rd \cup {f} /\ edge' = edge \cup {f}
        /\ wr' \in {wr, wr \cup {f}}
    /\ UNCHANGED <<states, made, service, pc, cur>>

(* post_immediate_completion                                               *)
Post(o) == queue' = Append(queue, o) /\ work' = work + 1

(* start_op on an open socket.  The first in its queue is tried at once,   *)
(* except connect and accept (reactive_socket_service_base.ipp:226 and 249 *)
(* pass false); if that fails it waits for an edge, and one that needs     *)
(* EPOLLOUT modifies the registration, so that room that has come by now   *)
(* is an edge.  One that is not tried always modifies it, so that what is  *)
(* there already is an edge.  asked: the states taken to have EPOLLOUT in  *)
(* their registration.                                                     *)
StartOn(s, k, o, speculative, asked) ==
    /\ Acting /\ o \in Idle /\ fd[s] # Closed
    /\ LET f == fd[s]
           d == data[s]
           first == opq[d][k] = <<>>
       IN  \/ /\ first /\ speculative /\ Ready(f, k)
              /\ Consume(f, k) /\ Post(o)
              /\ UNCHANGED <<opq, out, edge, made>>
           \/ /\ ~(first /\ speculative /\ Ready(f, k))
              /\ opq' = [opq EXCEPT ![d][k] = Append(@, o)] /\ work' = work + 1
              /\ made' = [made EXCEPT ![o] = [sock |-> s, fd |-> f, kind |-> k]]
              /\ IF first /\ ~(speculative /\ (k = "read" \/ d \in asked))
                 THEN /\ out' = IF k = "write" THEN out \cup {d} ELSE out
                      /\ edge' = Rearmed(f, out')
                 ELSE UNCHANGED <<out, edge>>
              /\ UNCHANGED <<rd, wr, queue>>
    /\ UNCHANGED <<sockets, mask, stopped, pc, cur>>

(* Defective variant: a write that finds no room does not ask for EPOLLOUT.*)
StartOpUnasked(s, k, o, speculative) == StartOn(s, k, o, speculative, State)

StartOp(s, k, o, speculative) == StartOn(s, k, o, speculative, out)

(* ... on a closed one: its handler gets the error.                        *)
StartOpClosed(s, o) ==
    /\ Acting /\ o \in Idle /\ fd[s] = Closed
    /\ Post(o)
    /\ UNCHANGED <<sockets, states, made, kernel, stopped, pc, cur>>

(* Defective variants: the writes of a closed socket stay in the state; or *)
(* they are posted, but not taken out.                                     *)
CloseKeepsWrites(s) ==
    /\ Acting /\ fd[s] # Closed
    /\ LET d == data[s]
       IN  /\ queue' = queue \o opq[d]["read"]
           /\ opq' = [opq EXCEPT ![d]["read"] = <<>>]
           /\ made' = Without(made, opq[d]["read"])
    /\ fd' = [fd EXCEPT ![s] = Closed] /\ data' = [data EXCEPT ![s] = Nil]
    /\ rd' = rd \ {fd[s]} /\ wr' = wr \ {fd[s]} /\ edge' = edge \ {fd[s]}
    /\ out' = out \ {data[s]}
    /\ UNCHANGED <<mask, work, stopped, pc, cur>>
CloseWithoutPop(s) ==
    /\ Acting /\ fd[s] # Closed
    /\ LET d == data[s]
       IN  /\ queue' = queue \o opq[d]["read"] \o opq[d]["write"]
           /\ opq' = [opq EXCEPT ![d]["read"] = <<>>]
           /\ made' = Without(made, opq[d]["read"])
    /\ fd' = [fd EXCEPT ![s] = Closed] /\ data' = [data EXCEPT ![s] = Nil]
    /\ rd' = rd \ {fd[s]} /\ wr' = wr \ {fd[s]} /\ edge' = edge \ {fd[s]}
    /\ out' = out \ {data[s]}
    /\ UNCHANGED <<mask, work, stopped, pc, cur>>

(* close: deregister_descriptor posts what is pending as aborted and gives *)
(* the state back to the pool, even if it is in the io_service's queue.    *)
Close(s) ==
    /\ Acting /\ fd[s] # Closed
    /\ LET d == data[s]
       IN  /\ queue' = queue \o opq[d]["read"] \o opq[d]["write"]
           /\ opq' = [opq EXCEPT ![d] = [k \in Kind |-> <<>>]]
           /\ made' = Without(made, opq[d]["read"] \o opq[d]["write"])
    /\ fd' = [fd EXCEPT ![s] = Closed] /\ data' = [data EXCEPT ![s] = Nil]
    /\ rd' = rd \ {fd[s]} /\ wr' = wr \ {fd[s]} /\ edge' = edge \ {fd[s]}
    /\ out' = out \ {data[s]}
    /\ UNCHANGED <<mask, work, stopped, pc, cur>>
-----------------------------------------------------------------------------
(* poll(): without work the service is stopped.                            *)
Poll ==
    /\ pc = "main" /\ ~stopped
    /\ IF work = 0 THEN stopped' = TRUE /\ UNCHANGED pc
                   ELSE pc' = "poll" /\ UNCHANGED stopped
    /\ UNCHANGED <<sockets, states, made, kernel, queue, work, cur>>

(* epoll_wait: an edge whose cause is gone is not told.                    *)
Events(f) == {k \in Kind : Ready(f, k) /\ (k = "read" \/ Registered(f) \in out)}
Told == {f \in edge : Events(f) # {}}

(* run() and task_cleanup: the states with events are queued, and the task *)
(* behind them.  If it is in front again the poll is over.                 *)
RunTaskThen(Requeue(_)) ==
    /\ pc = "poll" /\ Head(queue) = Task
    /\ \E told \in SetToSeqs({Registered(f) : f \in Told}) :
        queue' = Requeue(Tail(queue) \o told)
    /\ mask' = [d \in State |->
                  IF \E f \in Told : Registered(f) = d
                  THEN Events(CHOOSE f \in Told : Registered(f) = d) ELSE mask[d]]
    /\ edge' = {}
    /\ pc' = IF Head(queue') = Task THEN "main" ELSE "poll"
    /\ UNCHANGED <<sockets, opq, out, made, rd, wr, work, stopped, cur>>

(* Defective variant: the task goes back to the front.                     *)
RunTaskFirst == RunTaskThen(LAMBDA q : <<Task>> \o q)

RunTask == RunTaskThen(LAMBDA q : Append(q, Task))

RunOp ==
    /\ pc = "poll" /\ Head(queue) \in Op
    /\ queue' = Tail(queue) /\ cur' = Head(queue) /\ pc' = "handler"
    /\ UNCHANGED <<sockets, states, made, kernel, work, stopped>>

(* perform_io on one queue of d: how many of its operations finish.  They  *)
(* are tried in order until one would block; its descriptor is their own.  *)
Performed(d, k) ==
    LET q == opq[d][k]
    IN  IF k \in mask[d] /\ q # <<>> /\ Ready(made[q[1]].fd, k) THEN 1 .. Len(q) ELSE {0}

(* What is left: blocked if not all of them finished.                      *)
Left(ready, q, n) ==
    IF n = 0 THEN {ready}
    ELSE {ready \ {made[q[1]].fd}} \cup (IF n = Len(q) THEN {ready} ELSE {})

(* A state is run: perform_io, writes before reads.  The first operation   *)
(* to finish has its handler called now, the others are posted.  If none   *)
(* does, one more work is started for the one the service takes off: none, *)
(* some are what that comes to without and with such an operation.         *)
PerformIo(none, some) ==
    /\ pc = "poll" /\ Head(queue) \in State
    /\ LET d == Head(queue)
           q == opq[d]
       IN  \E n \in Performed(d, "write"), m \in Performed(d, "read") :
            LET finished == SubSeq(q["write"], 1, n) \o SubSeq(q["read"], 1, m)
            IN  /\ made' = Without(made, finished) /\ mask' = [mask EXCEPT ![d] = {}]
                /\ wr' \in Left(wr, q["write"], n) /\ rd' \in Left(rd, q["read"], m)
                /\ opq' = [opq EXCEPT ![d] = [k \in Kind |->
                               LET i == IF k = "read" THEN m ELSE n
                               IN  SubSeq(q[k], i + 1, Len(q[k]))]]
                /\ IF finished = <<>>
                   THEN /\ queue' = Tail(queue)
                        /\ work' = work + none /\ stopped' = (work' = 0)
                        /\ pc' = (IF stopped' THEN "main" ELSE "poll")
                        /\ UNCHANGED cur
                   ELSE /\ queue' = Tail(queue) \o Tail(finished) /\ cur' = Head(finished)
                        /\ pc' = "handler" /\ work' = work + some /\ UNCHANGED stopped
    /\ UNCHANGED <<sockets, out, edge>>

(* Defective variants: the work is not made up for; the work of an         *)
(* operation that finishes is taken off here as well.                      *)
RunStateUnpaid == PerformIo(-1, 0)
RunStateTwice == PerformIo(0, -1)

RunState == PerformIo(0, 0)

(* The handler returns; the last work stops the service.                   *)
Finish ==
    /\ pc = "handler"
    /\ work' = work - 1 /\ stopped' = (work' = 0)
    /\ cur' = Nil
    /\ pc' = IF stopped' THEN "main" ELSE "poll"
    /\ UNCHANGED <<sockets, states, made, kernel, queue>>

Step == Poll \/ RunTask \/ RunOp \/ RunState \/ Finish

Next ==
    \/ \E f \in Fd : Arrive(f) \/ Drain(f)
    \/ \E s \in Sock : Open(s) \/ Close(s)
    \/ \E s \in Sock, k \in Kind, o \in Op :
        (\E speculative \in BOOLEAN : StartOp(s, k, o, speculative)) \/ StartOpClosed(s, o)
    \/ Step

Spec == Init /\ [][Next]_vars

(* main polls again and again, and handlers return.  Nothing is assumed of *)
(* the peers or of what handlers do.                                       *)
FairSpec == Spec /\ WF_vars(Step)
-----------------------------------------------------------------------------
TypeOK ==
    /\ fd \in [Sock -> Fd \cup {Closed}] /\ data \in [Sock -> State \cup {Nil}]
    /\ opq \in [State -> [Kind -> Seq(Op)]] /\ out \subseteq State
    /\ mask \in [State -> SUBSET Kind]
    /\ made \in [Op -> [sock : Sock, fd : Fd, kind : Kind] \cup {Unused}]
    /\ rd \subseteq Fd /\ wr \subseteq Fd /\ edge \subseteq Fd
    /\ queue \in Seq(Op \cup State \cup {Task}) /\ work \in Nat /\ stopped \in BOOLEAN
    /\ pc \in {"main", "poll", "handler"} /\ cur \in Op \cup {Nil}

(* outstanding_work_ counts the operations that wait in a state, are in    *)
(* the queue or have their handler running.  A state in the queue is not   *)
(* counted, though the service takes one off for it as well.               *)
WorkExact == work = Cardinality(Op \ Idle)

NoRepeats(s) == \A i, j \in DOMAIN s : s[i] = s[j] => i = j

(* An operation waits, or is queued, or runs, once: its handler is called  *)
(* once for each start, however close, event and start follow each other.  *)
OnePlace ==
    /\ \A d \in State, k \in Kind : NoRepeats(opq[d][k])
    /\ Pending \cap Queued = {} /\ cur \notin Pending \cup Queued

(* run() relies on this (epoll_reactor.ipp:373-377): no state is queued    *)
(* when it may queue it again, as the task stands behind all of them.      *)
QueuedOnce ==
    /\ NoRepeats(queue)
    /\ Head(queue) = Task => ToSet(queue) \cap State = {}

Belongs(o, d, k) ==
    LET a == made[o] IN data[a.sock] = d /\ fd[a.sock] = a.fd /\ a.kind = k

(* What waits in a state is of the socket that has the state, and for its  *)
(* descriptor: the events of a descriptor, or a state, that is used again  *)
(* never perform an operation of the socket that had it before.            *)
Attached == \A d \in State, k \in Kind : \A o \in ToSet(opq[d][k]) : Belongs(o, d, k)

(* No edge is missed: an operation does not wait for ever while its        *)
(* descriptor is ready, whatever became of the edge.                       *)
Waits(o) == o \in Pending /\ Ready(made[o].fd, made[o].kind) /\ ~stopped
NoMissedEdge == \A o \in Op : []<>~Waits(o)

(* An operation that is over, done or aborted, has its handler called.     *)
HandlersRun == \A o \in Op : []<>(o \notin Queued \/ stopped)
=============================================================================
