--------------------------- MODULE PacketChannel ---------------------------
(***************************************************************************)
(* What an NSP link promises its users: two FIFO channels of packets, and  *)
(* an echo service that answers every delivered request in the same step.  *)
(* There are no bytes, frames, sockets or loops here.  A direction may     *)
(* become faulty, for good; from then on anything may come out of it.      *)
(***************************************************************************)
EXTENDS Naturals, Sequences, FiniteSets

CONSTANTS
    Conn,               (* the two endpoints                               *)
    Peer(_),            (* the other end                                   *)
    Request, Response,  (* the two opcodes                                 *)
    Ids                 (* the texts a packet can carry, by number         *)

VARIABLES
    sent,               (* sent[c]: packets c submitted                    *)
    dispatched,         (* dispatched[c]: packets c's handlers were given  *)
    faulty              (* faulty[c]: c's direction is no longer reliable  *)

Init == /\ sent = [c \in Conn |-> <<>>]
        /\ dispatched = [c \in Conn |-> <<>>]
        /\ faulty = [c \in Conn |-> FALSE]

(* How many of the first n packets of s have this opcode.                  *)
Count(s, opcode, n) == Cardinality({i \in 1 .. n : s[i].opcode = opcode})

(* c makes its next request; the requests of one endpoint are numbered.    *)
Ask(c) ==
    /\ sent' = [sent EXCEPT ![c] =
                   Append(@, [opcode |-> Request,
                              id |-> Count(@, Request, Len(@)) + 1])]
    /\ \E f \in BOOLEAN : faulty' = [faulty EXCEPT ![c] = @ \/ f]
    /\ UNCHANGED dispatched

(* The packets the channel may hand to c next.                             *)
Deliverable(c) ==
    LET n == Len(dispatched[c]) + 1
    IN  IF faulty[Peer(c)] THEN [opcode : {Request, Response}, id : Ids]
        ELSE {sent[Peer(c)][i] : i \in {n} \cap (1 .. Len(sent[Peer(c)]))}

Deliver(c) ==
    /\ \E p \in Deliverable(c) :
          /\ dispatched' = [dispatched EXCEPT ![c] = Append(@, p)]
          /\ \/ /\ p.opcode = Request
                /\ sent' = [sent EXCEPT ![c] =
                               Append(@, [opcode |-> Response, id |-> p.id])]
             \/ p.opcode = Response /\ UNCHANGED sent
    /\ UNCHANGED faulty

Fault(c) == /\ faulty' = [faulty EXCEPT ![c] = TRUE]
            /\ UNCHANGED <<sent, dispatched>>

Next == \E c \in Conn : Ask(c) \/ Deliver(c) \/ Fault(c)

Spec == Init /\ [][Next]_<<sent, dispatched, faulty>>
=============================================================================
