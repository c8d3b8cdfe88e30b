---------------------------- MODULE ServerProofs ----------------------------
(***************************************************************************)
(* The main loop never walks onto a destroyed connection, for any number   *)
(* of addresses, clients and writes.                                       *)
(*                                                                         *)
(* That the list is exact (ListExact) is inductive only together with what *)
(* keeps connections alive (Owned): a destructor runs when the last        *)
(* operation ends, and a new object may be put where an old one was, so    *)
(* nothing of the old one may be left there.                               *)
(***************************************************************************)
EXTENDS Server, TLAPS

NoRepeats(list) == \A i, j \in 1 .. Len(list) : list[i] = list[j] => i = j

(* While the main loop runs: the list is the set of the connections that   *)
(* exist, which are those with an operation, and nothing remembers another;*)
(* the one to be accepted has none but the accept.                         *)
Core ==
    /\ clients \in Seq(Address) /\ Elements(clients) = live /\ NoRepeats(clients)
    /\ connected \subseteq live /\ lost \subseteq live
    /\ live = {accepting} \cup reading \cup {a \in Address : writes[a] > 0}
    /\ accepting \notin connected \cup reading \cup lost /\ writes[accepting] = 0

IInv == TypeOK /\ backlog <= arrivals /\ (Running => Core)

(* A pointer that is appended once is in the list once.                    *)
LEMMA AppendPointer ==
    ASSUME NEW list \in Seq(Address), NoRepeats(list), NEW b \in Address \ Elements(list)
    PROVE  /\ Append(list, b) \in Seq(Address) /\ NoRepeats(Append(list, b))
           /\ Elements(Append(list, b)) = Elements(list) \cup {b}
<1> DEFINE new == Append(list, b)
           n == Len(list)
<1>1. n \in Nat /\ new \in Seq(Address) /\ Len(new) = n + 1
  OBVIOUS
<1>2. new[n + 1] = b /\ \A i \in 1 .. n : new[i] = list[i]
  OBVIOUS
<1>3. NoRepeats(new)
  BY <1>1, <1>2 DEF NoRepeats, Elements
<1>4. Elements(new) = Elements(list) \cup {b}
  <2>1. Elements(new) \subseteq Elements(list) \cup {b}
    BY <1>1, <1>2 DEF Elements
  <2>2. Elements(list) \subseteq Elements(new)
    <3> SUFFICES ASSUME NEW i \in 1 .. n PROVE list[i] \in Elements(new)
      BY DEF Elements
    <3>1. i \in 1 .. Len(new) /\ new[i] = list[i]
      BY <1>1, <1>2
    <3> QED BY <3>1 DEF Elements
  <2>3. b \in Elements(new)
    <3>1. n + 1 \in 1 .. Len(new)
      BY <1>1
    <3> QED BY <1>2, <3>1 DEF Elements
  <2> QED BY <2>1, <2>2, <2>3
<1> QED BY <1>1, <1>3, <1>4

(* Erasing a pointer takes it out and leaves the others, each once.        *)
LEMMA ErasePointer ==
    ASSUME NEW list \in Seq(Address), NoRepeats(list), NEW a
    PROVE  /\ Erased(list, a) \in Seq(Address) /\ NoRepeats(Erased(list, a))
           /\ Elements(Erased(list, a)) = Elements(list) \ {a}
<1>1. CASE a \notin Elements(list)
  BY <1>1 DEF Erased
<1>2. CASE a \in Elements(list)
  <2> DEFINE i == CHOOSE j \in 1 .. Len(list) : list[j] = a
             n == Len(list)
             new == Erased(list, a)
             front == SubSeq(list, 1, i - 1)
             back == SubSeq(list, i + 1, n)
  <2>1. i \in 1 .. n /\ list[i] = a /\ n \in Nat
    BY <1>2 DEF Elements
  <2>2. new = front \o back
    BY <1>2 DEF Erased
  <2> HIDE DEF i, new
  <2>3. /\ front \in Seq(Address) /\ Len(front) = i - 1
        /\ \A k \in 1 .. i - 1 : front[k] = list[k]
    BY <2>1
  <2>4. /\ back \in Seq(Address) /\ Len(back) = n - i
        /\ \A k \in 1 .. n - i : back[k] = list[i + k]
    BY <2>1
  <2> HIDE DEF front, back
  <2>5. new \in Seq(Address) /\ Len(new) = n - 1
    BY <2>1, <2>2, <2>3, <2>4
  <2>6. \A k \in 1 .. n - 1 : new[k] = IF k < i THEN list[k] ELSE list[k + 1]
    <3> SUFFICES ASSUME NEW k \in 1 .. n - 1
                 PROVE  new[k] = IF k < i THEN list[k] ELSE list[k + 1]
      OBVIOUS
    <3>1. CASE k < i
      BY <2>2, <3>1, <2>1, <2>3, <2>4
    <3>2. CASE ~(k < i)
      <4>1. k - (i - 1) \in 1 .. n - i
        BY <2>1, <3>2
      <4>2. new[k] = back[k - (i - 1)]
        BY <2>2, <3>2, <4>1, <2>1, <2>3, <2>4
      <4>3. i + (k - (i - 1)) = k + 1
        BY <2>1
      <4> QED BY <2>4, <3>2, <4>1, <4>2, <4>3
    <3> QED BY <3>1, <3>2
  <2>7. NoRepeats(new)
    <3> SUFFICES ASSUME NEW j \in 1 .. n - 1, NEW k \in 1 .. n - 1, new[j] = new[k]
                 PROVE  j = k
      BY <2>5 DEF NoRepeats
    <3> DEFINE J == IF j < i THEN j ELSE j + 1
               K == IF k < i THEN k ELSE k + 1
    <3>1. J \in 1 .. n /\ K \in 1 .. n
      BY <2>1
    <3>2. list[J] = list[K]
      BY <2>6
    <3>3. J = K
      BY <3>1, <3>2 DEF NoRepeats
    <3> QED BY <2>1, <3>3
  <2>8. Elements(new) = Elements(list) \ {a}
    <3>1. ASSUME NEW k \in 1 .. n - 1 PROVE new[k] \in Elements(list) \ {a}
      <4> DEFINE K == IF k < i THEN k ELSE k + 1
      <4>1. K \in 1 .. n /\ K # i
        BY <2>1
      <4>2. new[k] = list[K]
        BY <2>6
      <4>3. list[K] # a
        BY <2>1, <4>1 DEF NoRepeats
      <4> QED BY <4>1, <4>2, <4>3 DEF Elements
    <3>2. ASSUME NEW k \in 1 .. n, list[k] # a PROVE list[k] \in Elements(new)
      <4> DEFINE K == IF k < i THEN k ELSE k - 1
      <4>1. k # i /\ K \in 1 .. n - 1
        BY <2>1, <3>2
      <4>2. new[K] = list[k]
        BY <2>1, <2>6, <4>1
      <4> QED BY <2>5, <4>1, <4>2 DEF Elements
    <3> QED BY <2>5, <3>1, <3>2 DEF Elements
  <2> QED BY <2>5, <2>7, <2>8 DEF new
<1> QED BY <1>1, <1>2
LEMMA InitInv == Init => IInv
<1> SUFFICES ASSUME Init PROVE IInv
  OBVIOUS
<1>1. PICK a \in Address : clients = <<a>> /\ live = {a} /\ accepting = a
  BY DEF Init
<1>2. <<a>> \in Seq(Address) /\ Len(<<a>>) = 1 /\ <<a>>[1] = a
  OBVIOUS
<1>3. TypeOK /\ backlog <= arrivals
  BY <1>1, <1>2, ServerAssumption DEF Init, TypeOK
<1>4. Core
  BY <1>1, <1>2 DEF Init, Core, Elements, NoRepeats
<1> QED BY <1>3, <1>4 DEF IInv

(* The end of an operation of a connection that is up keeps Core: the last *)
(* one takes the connection out of everything.                             *)
LEMMA ReleaseCore ==
    ASSUME TypeOK, Core, NEW a \in live, a # accepting,
           NEW r \in BOOLEAN, NEW w \in 0 .. MaxWrites, Release(a, r, w),
           accepting' = accepting
    PROVE  Core'
<1> DEFINE dead == ~r /\ w = 0
<1>1. writes \in [Address -> 0 .. MaxWrites] /\ writes' = [writes EXCEPT ![a] = w]
  BY DEF TypeOK, Release
<1>2. CASE dead
  <2>1. /\ reading' = reading \ {a} /\ live' = live \ {a} /\ connected' = connected \ {a}
        /\ lost' = lost \ {a} /\ clients' = Erased(clients, a)
    BY <1>2 DEF Release
  <2>2. clients' \in Seq(Address) /\ Elements(clients') = live' /\ NoRepeats(clients')
    BY <2>1, ErasePointer DEF Core
  <2>3. {b \in Address : writes'[b] > 0} = {b \in Address : writes[b] > 0} \ {a}
    BY <1>1, <1>2 DEF Core, TypeOK
  <2> QED BY <1>1, <1>2, <2>1, <2>2, <2>3, SMTT(30) DEF Core, Elements, NoRepeats, TypeOK
<1>3. CASE ~dead
  <2>1. /\ reading' = IF r THEN reading \cup {a} ELSE reading \ {a}
        /\ UNCHANGED <<live, connected, lost, clients>>
    BY <1>3 DEF Release
  <2>2. \A b \in Address : writes'[b] = IF b = a THEN w ELSE writes[b]
    BY <1>1
  <2>3. a \in Address
    BY DEF TypeOK
  <2>4. live' = {accepting} \cup reading' \cup {b \in Address : writes'[b] > 0}
    BY <1>3, <2>1, <2>2, <2>3 DEF Core, TypeOK
  <2>5. writes'[accepting] = 0 /\ accepting \notin reading'
    BY <2>1, <2>2 DEF Core, TypeOK
  <2> QED BY <2>1, <2>4, <2>5 DEF Core, Elements, NoRepeats
<1> QED BY <1>2, <1>3

(* ... and the types.                                                      *)
LEMMA ReleaseType ==
    ASSUME TypeOK, clients \in Seq(Address), NoRepeats(clients), NEW a \in Address,
           NEW r \in BOOLEAN, NEW w \in 0 .. MaxWrites, Release(a, r, w)
    PROVE  /\ reading' \subseteq Address /\ live' \subseteq Address
           /\ connected' \subseteq Address /\ lost' \subseteq Address
           /\ writes' \in [Address -> 0 .. MaxWrites] /\ clients' \in Seq(Address)
<1>1. Erased(clients, a) \in Seq(Address)
  BY ErasePointer
<1> QED BY <1>1 DEF TypeOK, Release

(* An operation that is outstanding belongs to a connection that is up.    *)
LEMMA Outstanding ==
    ASSUME TypeOK, Core, NEW a \in Address, a \in reading \/ writes[a] > 0
    PROVE  a \in live /\ a # accepting
  BY DEF Core, TypeOK

LEMMA TypeStep == IInv /\ [Next]_vars => TypeOK' /\ (backlog <= arrivals)'
<1> SUFFICES ASSUME IInv, [Next]_vars PROVE TypeOK' /\ (backlog <= arrivals)'
  OBVIOUS
<1> USE ServerAssumption DEF IInv, TypeOK, Running
<1>1. CASE Arrive
  BY <1>1 DEF Arrive
<1>2. CASE HandleAccept
  <2>1. PICK b \in Address : NewObject(b) /\ clients' = Append(clients, b)
                            /\ live' = live \cup {b} /\ accepting' = b
    BY <1>2 DEF HandleAccept
  <2>2. clients' \in Seq(Address)
    BY <1>2, <2>1 DEF HandleAccept, Core
  <2>3. accepting \in Address
    BY <1>2 DEF HandleAccept, Core
  <2> QED BY <1>2, <2>1, <2>2, <2>3 DEF HandleAccept
<1>3. CASE HandleAcceptError
  <2>1. PICK b \in Address : /\ NewObject(b) /\ accepting' = b
                            /\ clients' = Erased(Append(clients, b), accepting)
                            /\ live' = (live \cup {b}) \ {accepting}
    BY <1>3 DEF HandleAcceptError
  <2>2. /\ clients \in Seq(Address) /\ NoRepeats(clients) /\ b \notin Elements(clients)
    BY <1>3, <2>1 DEF HandleAcceptError, Core, NewObject
  <2>3. clients' \in Seq(Address)
    <3> HIDE DEF IInv, TypeOK, Running
    <3> QED BY <2>1, <2>2, AppendPointer, ErasePointer
  <2> QED BY <1>3, <2>1, <2>3 DEF HandleAcceptError
<1>4. ASSUME NEW a \in Address, HandleReadEnd(a) PROVE TypeOK' /\ (backlog <= arrivals)'
  <2>1. Release(a, FALSE, writes[a]) /\ writes[a] \in 0 .. MaxWrites
    BY <1>4 DEF HandleReadEnd
  <2>2. clients \in Seq(Address) /\ NoRepeats(clients) /\ TypeOK
    BY <1>4 DEF HandleReadEnd, Core
  <2>3. /\ reading' \subseteq Address /\ live' \subseteq Address
        /\ connected' \subseteq Address /\ lost' \subseteq Address
        /\ writes' \in [Address -> 0 .. MaxWrites] /\ clients' \in Seq(Address)
    <3> HIDE DEF IInv, TypeOK, Running
    <3> QED BY <2>1, <2>2, ReleaseType
  <2> QED BY <1>4, <2>3 DEF HandleReadEnd
<1>5. ASSUME NEW a \in Address, HandlerThrows(a) PROVE TypeOK' /\ (backlog <= arrivals)'
  <2>1. Release(a, FALSE, writes[a]) /\ writes[a] \in 0 .. MaxWrites
    BY <1>5 DEF HandlerThrows
  <2>2. clients \in Seq(Address) /\ NoRepeats(clients) /\ TypeOK
    BY <1>5 DEF HandlerThrows, Core
  <2>3. /\ reading' \subseteq Address /\ live' \subseteq Address
        /\ connected' \subseteq Address /\ lost' \subseteq Address
        /\ writes' \in [Address -> 0 .. MaxWrites] /\ clients' \in Seq(Address)
    <3> HIDE DEF IInv, TypeOK, Running
    <3> QED BY <2>1, <2>2, ReleaseType
  <2> QED BY <1>5, <2>3 DEF HandlerThrows
<1>6. ASSUME NEW a \in Address, HandleWrite(a) PROVE TypeOK' /\ (backlog <= arrivals)'
  <2> DEFINE r == a \in reading
  <2>1. Release(a, r, writes[a] - 1) /\ writes[a] - 1 \in 0 .. MaxWrites /\ r \in BOOLEAN
    BY <1>6 DEF HandleWrite
  <2>2. clients \in Seq(Address) /\ NoRepeats(clients) /\ TypeOK
    BY <1>6 DEF HandleWrite, Core
  <2>3. /\ reading' \subseteq Address /\ live' \subseteq Address
        /\ connected' \subseteq Address /\ lost' \subseteq Address
        /\ writes' \in [Address -> 0 .. MaxWrites] /\ clients' \in Seq(Address)
    <3> HIDE DEF r, IInv, TypeOK, Running
    <3> QED BY <2>1, <2>2, ReleaseType
  <2> QED BY <1>6, <2>3 DEF HandleWrite
<1>7. ASSUME NEW a \in Address, Lose(a) PROVE TypeOK' /\ (backlog <= arrivals)'
  BY <1>7 DEF Lose
<1>8. CASE EndPoll
  BY <1>8 DEF EndPoll
<1>9. CASE TickNext
  <2>1. clients[iter] \in Address
    BY <1>9 DEF TickNext, Core
  <2> QED BY <1>9, <2>1 DEF TickNext
<1>10. CASE EndTick
  BY <1>10 DEF EndTick
<1>11. CASE DestroyServer
  BY <1>11 DEF DestroyServer
<1>12. CASE DestroyIo
  BY <1>12 DEF DestroyIo
<1>13. CASE UNCHANGED vars
  BY <1>13 DEF vars
<1> QED BY <1>1, <1>2, <1>3, <1>4, <1>5, <1>6, <1>7, <1>8, <1>9, <1>10, <1>11, <1>12, <1>13 DEF Next

LEMMA CoreStep == IInv /\ [Next]_vars => (Running => Core)'
<1> SUFFICES ASSUME IInv, [Next]_vars, Running' PROVE Core'
  OBVIOUS
<1> USE DEF IInv, Running
<1>1. CASE Arrive
  BY <1>1 DEF Arrive, Core, Elements, NoRepeats
<1>2. CASE HandleAccept
  <2>1. PICK b \in Address : NewObject(b) /\ clients' = Append(clients, b)
                            /\ live' = live \cup {b} /\ accepting' = b
    BY <1>2 DEF HandleAccept
  <2>2. Core /\ b \notin live /\ b \notin Elements(clients)
    BY <1>2, <2>1 DEF HandleAccept, Core, NewObject
  <2>3. clients' \in Seq(Address) /\ Elements(clients') = live' /\ NoRepeats(clients')
    <3>1. clients \in Seq(Address) /\ NoRepeats(clients) /\ Elements(clients) = live
      BY <2>2 DEF Core
    <3> QED BY <2>1, <2>2, <3>1, AppendPointer
  <2>4. /\ connected' = connected \cup {accepting} /\ reading' = reading \cup {accepting}
        /\ UNCHANGED <<writes, lost>>
    BY <1>2 DEF HandleAccept
  <2>5. writes[b] = 0
    BY <2>2 DEF Core, TypeOK
  <2> QED BY <2>1, <2>2, <2>3, <2>4, <2>5 DEF Core, Elements, NoRepeats
<1>3. CASE HandleAcceptError
  <2>1. PICK b \in Address : /\ NewObject(b) /\ accepting' = b
                            /\ clients' = Erased(Append(clients, b), accepting)
                            /\ live' = (live \cup {b}) \ {accepting}
    BY <1>3 DEF HandleAcceptError
  <2>2. Core /\ b \notin live /\ b \notin Elements(clients) /\ accepting \in live
    BY <1>3, <2>1 DEF HandleAcceptError, Core, NewObject
  <2>3. clients' \in Seq(Address) /\ Elements(clients') = live' /\ NoRepeats(clients')
    <3>1. clients \in Seq(Address) /\ NoRepeats(clients) /\ Elements(clients) = live
      BY <2>2 DEF Core
    <3> DEFINE more == Append(clients, b)
    <3>2. more \in Seq(Address) /\ NoRepeats(more) /\ Elements(more) = live \cup {b}
      BY <2>2, <3>1, AppendPointer
    <3> HIDE DEF more
    <3>3. /\ Erased(more, accepting) \in Seq(Address) /\ NoRepeats(Erased(more, accepting))
          /\ Elements(Erased(more, accepting)) = Elements(more) \ {accepting}
      BY <3>2, ErasePointer
    <3> QED BY <2>1, <3>2, <3>3 DEF more
  <2>4. UNCHANGED <<connected, reading, writes, lost>>
    BY <1>3 DEF HandleAcceptError
  <2>5. writes[b] = 0
    BY <2>2 DEF Core, TypeOK
  <2> QED BY <2>1, <2>2, <2>3, <2>4, <2>5 DEF Core, Elements, NoRepeats
<1>4. ASSUME NEW a \in Address, HandleReadEnd(a) PROVE Core'
  <2>1. TypeOK /\ Core /\ Release(a, FALSE, writes[a]) /\ accepting' = accepting
    BY <1>4 DEF HandleReadEnd
  <2>2. writes[a] \in 0 .. MaxWrites
    BY <1>4, ServerAssumption DEF HandleReadEnd, TypeOK
  <2>3. a \in live /\ a # accepting
    BY <1>4, <2>1, Outstanding DEF HandleReadEnd
  <2> QED BY <2>1, <2>2, <2>3, ReleaseCore
<1>5. ASSUME NEW a \in Address, HandleWrite(a) PROVE Core'
  <2> DEFINE r == a \in reading
  <2>1. /\ TypeOK /\ Core /\ accepting' = accepting
        /\ Release(a, r, writes[a] - 1) /\ r \in BOOLEAN
    BY <1>5 DEF HandleWrite
  <2>2. writes[a] - 1 \in 0 .. MaxWrites
    BY <1>5, ServerAssumption DEF HandleWrite, TypeOK
  <2>3. a \in live /\ a # accepting
    BY <1>5, <2>1, Outstanding DEF HandleWrite
  <2> HIDE DEF r
  <2> QED BY <2>1, <2>2, <2>3, ReleaseCore
<1>6. ASSUME NEW a \in Address, HandlerThrows(a) PROVE Core'
  BY <1>6 DEF HandlerThrows
<1>7. ASSUME NEW a \in Address, Lose(a) PROVE Core'
  <2>1. a \in connected /\ lost' = lost \cup {a}
        /\ UNCHANGED <<phase, clients, live, connected, accepting, reading, writes>>
    BY <1>7 DEF Lose
  <2> QED BY <2>1 DEF Core, Elements, NoRepeats
<1>8. CASE EndPoll
  BY <1>8 DEF EndPoll, Core, Elements, NoRepeats
<1>9. CASE TickNext
  <2> DEFINE a == clients[iter]
  <2>1. Core /\ UNCHANGED <<clients, live, connected, accepting, reading, lost>>
    BY <1>9 DEF TickNext
  <2>2. CASE UNCHANGED writes
    BY <2>1, <2>2 DEF Core, Elements, NoRepeats
  <2>3. CASE a \in connected /\ writes' = [writes EXCEPT ![a] = @ + 1]
    <3>1. a \in live /\ a \in Address /\ a # accepting
      BY <2>1, <2>3 DEF Core, TypeOK
    <3> HIDE DEF a
    <3>2. /\ writes'[accepting] = 0
          /\ {b \in Address : writes'[b] > 0} = {b \in Address : writes[b] > 0} \cup {a}
      BY <2>1, <2>3, <3>1 DEF Core, TypeOK
    <3> QED BY <2>1, <3>1, <3>2 DEF Core, Elements, NoRepeats
  <2> QED BY <1>9, <2>2, <2>3 DEF TickNext
<1>10. CASE EndTick
  BY <1>10 DEF EndTick, Core, Elements, NoRepeats
<1>11. CASE DestroyServer \/ DestroyIo
  BY <1>11 DEF DestroyServer, DestroyIo
<1>12. CASE UNCHANGED vars
  BY <1>12 DEF vars, Core, Elements, NoRepeats
<1> QED BY <1>1, <1>2, <1>3, <1>4, <1>5, <1>6, <1>7, <1>8, <1>9, <1>10, <1>11, <1>12 DEF Next

LEMMA Invariant == Spec => []IInv
<1>1. IInv /\ [Next]_vars => IInv'
  BY TypeStep, CoreStep DEF IInv
<1> QED BY <1>1, InitInv, PTL DEF Spec

(* Every value has its type: no count of writes goes below zero, and the   *)
(* list holds addresses only.                                              *)
THEOREM TypeCorrect == Spec => []TypeOK
<1>1. IInv => TypeOK
  BY DEF IInv
<1> QED BY <1>1, Invariant, PTL

(* The main loop's list is exactly the existing connections, each once.    *)
THEOREM ListIsExact == Spec => []ListExact
<1>1. IInv => ListExact
  BY DEF IInv, Core, ListExact, NoRepeats
<1> QED BY <1>1, Invariant, PTL

(* What exists is owned by an outstanding operation: nothing leaks.        *)
THEOREM ExistingIsOwned == Spec => []Owned
<1>1. IInv => Owned
  BY DEF IInv, Core, Owned
<1> QED BY <1>1, Invariant, PTL

(* While the server runs it accepts, for an object nothing else uses.      *)
THEOREM AlwaysAccepting == Spec => []AcceptOutstanding
<1>1. IInv => AcceptOutstanding
  BY DEF IInv, Core, AcceptOutstanding
<1> QED BY <1>1, Invariant, PTL
=============================================================================
