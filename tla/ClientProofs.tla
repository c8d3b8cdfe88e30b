---------------------------- MODULE ClientProofs ----------------------------
(***************************************************************************)
(* The invariants of Client hold whatever a name resolves to.  They are    *)
(* proved together: the io_service stops only with a reason (StopJustified)*)
(* because its account is exact (WorkExact) and because a connect that     *)
(* fails goes on with the next endpoint (TriedInOrder, Exhausted).         *)
(***************************************************************************)
EXTENDS Client, TLAPS

(* What the phases of main, of the request and of the thread have to do    *)
(* with each other.                                                        *)
Agrees ==
    /\ request = "none" <=> phase \in {"start", "connect"}
    /\ request \notin {"posted", "done"} => endpoints = <<>>
    /\ request # "done" => tried = <<>> /\ attempt = "none" /\ ~reading
    /\ attempt # "none" => tried # <<>> /\ ~reading
    /\ thread = "resolve" <=> request = "resolving"

(* The account of the thread's io_service: the work object, the request.   *)
ThreadWorkExact ==
    threadWork = Count(phase \notin {"join", "ended"}) + Count(request \in {"queued", "resolving"})

(* The connects have ended without success only when none is left to try.  *)
Exhausted ==
    request = "done" /\ attempt = "none" /\ ~connected => Len(tried) = Len(endpoints)

IInv ==
    /\ TypeOK /\ Agrees /\ ThreadWorkExact
    /\ TriedInOrder /\ WorkExact /\ Exhausted /\ StopJustified

(* A list of endpoints is a sequence.                                      *)
LEMMA EndpointsSeq == TypeOK => endpoints \in Seq(Endpoint) /\ Len(endpoints) \in Nat
<1> SUFFICES ASSUME TypeOK PROVE endpoints \in Seq(Endpoint)
  OBVIOUS
<1>1. <<>> \in Seq(Endpoint)
  OBVIOUS
<1>2. endpoints \in Answers \cup {<<>>}
  BY DEF TypeOK
<1> QED BY <1>1, <1>2, ClientAssumption

(* Count is 0 or 1.                                                        *)
LEMMA CountValue == ASSUME NEW b PROVE Count(b) \in {0, 1}
  BY DEF Count

(* The service of a state with no outstanding work has a reason to stop.   *)
HasReason ==
    /\ request = "done" /\ attempt = "none" /\ ~reading
    /\ connected \/ \A i \in DOMAIN endpoints : i \in {tried[j] : j \in 1 .. Len(tried)}
Workless == work = 0 /\ phase \notin {"start", "connect", "ended"}

LEMMA NoWork ==
    TypeOK /\ Agrees /\ WorkExact /\ Exhausted /\ TriedInOrder /\ Workless => HasReason
<1> SUFFICES ASSUME TypeOK, Agrees, WorkExact, Exhausted, TriedInOrder, Workless
             PROVE  HasReason
  OBVIOUS
<1> USE DEF Workless, HasReason
<1> DEFINE Req == Count(request \in {"queued", "resolving", "posted"})
           Att == Count(attempt # "none")
           Rea == Count(reading)
<1>1. Req \in {0, 1} /\ Att \in {0, 1} /\ Rea \in {0, 1} /\ writes \in Nat
  BY CountValue, ClientAssumption DEF TypeOK
<1>2. 0 = Req + Att + Rea + writes
  BY DEF WorkExact
<1>3. Req = 0 /\ Att = 0 /\ Rea = 0
  <2> HIDE DEF Req, Att, Rea
  <2> QED BY <1>1, <1>2
<1>4. request \notin {"queued", "resolving", "posted"} /\ attempt = "none" /\ ~reading
  BY <1>3 DEF Count
<1>5. request = "done"
  BY <1>4 DEF TypeOK, Agrees
<1>6. ASSUME ~connected PROVE \A i \in DOMAIN endpoints : i \in {tried[j] : j \in 1 .. Len(tried)}
  <2>1. Len(tried) = Len(endpoints)
    BY <1>4, <1>5, <1>6 DEF Exhausted
  <2>2. DOMAIN endpoints = 1 .. Len(tried)
    BY <2>1, EndpointsSeq
  <2> QED BY <2>2 DEF TriedInOrder
<1> QED BY <1>4, <1>5, <1>6

(* Initially nothing is outstanding.                                       *)
LEMMA InitInv == Init => IInv
<1> SUFFICES ASSUME Init PROVE IInv
  OBVIOUS
<1> USE DEF Init
<1>1. TypeOK
  <2>1. <<>> \in Seq(Nat) /\ 0 \in 0 .. MaxWrites
    BY ClientAssumption
  <2> QED BY <2>1 DEF TypeOK, End, Closed
<1>2. Agrees /\ TriedInOrder /\ Exhausted /\ StopJustified
  BY DEF Agrees, TriedInOrder, Exhausted, StopJustified
<1>3. ThreadWorkExact /\ WorkExact
  BY DEF ThreadWorkExact, WorkExact, Count
<1> QED BY <1>1, <1>2, <1>3 DEF IInv

(* Whoever finishes an operation was on the account.                       *)
LEMMA WorkCounted ==
    ASSUME IInv, phase # "ended",
           request = "posted" \/ attempt # "none" \/ reading \/ writes > 0
    PROVE  work \in Nat \ {0}
<1> DEFINE Req == Count(request \in {"queued", "resolving", "posted"})
           Att == Count(attempt # "none")
           Rea == Count(reading)
<1>1. Req \in {0, 1} /\ Att \in {0, 1} /\ Rea \in {0, 1} /\ writes \in Nat
  BY CountValue, ClientAssumption DEF IInv, TypeOK
<1>2. work = Req + Att + Rea + writes
  BY DEF IInv, WorkExact
<1>3. Req = 1 \/ Att = 1 \/ Rea = 1 \/ writes > 0
  BY DEF Count
<1> QED
  <2> HIDE DEF Req, Att, Rea
  <2> QED BY <1>1, <1>2, <1>3

(* ... and on the thread's, which keeps the work object until it is shut   *)
(* down.                                                                   *)
LEMMA ThreadCounted ==
    ASSUME IInv, request = "resolving" \/ phase = "unwind"
    PROVE  threadWork \in Nat \ {0}
<1> DEFINE Obj == Count(phase \notin {"join", "ended"})
           Req == Count(request \in {"queued", "resolving"})
<1>1. Obj \in {0, 1} /\ Req \in {0, 1} /\ (Obj = 1 \/ Req = 1)
  BY CountValue DEF Count
<1>2. threadWork = Obj + Req
  BY DEF IInv, ThreadWorkExact
<1> QED
  <2> HIDE DEF Obj, Req
  <2> QED BY <1>1, <1>2

(* The iterator of an attempt: at the endpoint after the last tried, or at *)
(* the end.                                                                *)
LEMMA NextEndpoint ==
    ASSUME IInv, attempt # "none"
    PROVE  /\ Len(tried) \in Nat /\ Len(endpoints) \in Nat /\ tried # <<>>
           /\ ep = IF Len(tried) = Len(endpoints) THEN End ELSE Len(tried) + 1
<1>1. Len(tried) \in Nat /\ Len(endpoints) \in Nat /\ tried # <<>>
  BY EndpointsSeq DEF IInv, TypeOK, Agrees
<1> QED BY <1>1 DEF IInv, TriedInOrder, Incremented

(* What an operation leaves of the account when it finishes.               *)
LEMMA HandledType ==
    ASSUME TypeOK, work \in Nat \ {0}, NEW n \in {0, 1}, Handled(n)
    PROVE  work' \in Nat /\ stopped' \in BOOLEAN
  BY DEF Handled, TypeOK

(* What async_connect leaves of the types.                                 *)
LEMMA StartConnectType ==
    ASSUME TypeOK, NEW i \in Nat, NEW s \in Family \cup {Closed}, StartConnect(i, s)
    PROVE  /\ ep' \in Nat /\ sock' \in Family \cup {Closed} /\ tried' \in Seq(Nat)
           /\ attempt' \in {"none", "pending", "accepted", "failed"}
<1>1. ep' \in Nat
  <2>1. Len(endpoints) \in Nat
    BY EndpointsSeq
  <2> QED BY <2>1 DEF StartConnect, Incremented, End
<1>2. sock' \in Family \cup {Closed}
  BY DEF StartConnect, TypeOK
<1>3. tried' \in Seq(Nat)
  BY DEF StartConnect, TypeOK
<1>4. attempt' \in {"none", "pending", "accepted", "failed"}
  BY DEF StartConnect
<1> QED BY <1>1, <1>2, <1>3, <1>4

(* A connect that is started while one was outstanding goes on in order.   *)
LEMMA TriedGrows ==
    ASSUME IInv, NEW i, i = Len(tried) + 1, i <= Len(endpoints), NEW s,
           StartConnect(i, s), endpoints' = endpoints
    PROVE  TriedInOrder'
<1>1. Len(tried) \in Nat /\ tried \in Seq(Nat) /\ Len(endpoints) \in Nat
  BY EndpointsSeq DEF IInv, TypeOK
<1>2. tried' = Append(tried, i) /\ ep' = Incremented(i)
  BY DEF StartConnect
<1>3. Len(tried') = i /\ \A j \in 1 .. Len(tried') : tried'[j] = j
  BY <1>1, <1>2 DEF IInv, TriedInOrder
<1>4. ep' = Incremented(Len(tried))'
  BY <1>2, <1>3 DEF Incremented
<1> QED BY <1>1, <1>3, <1>4 DEF TriedInOrder

(* The phases keep in step.                                                *)
LEMMA AgreesStep == IInv /\ [Next]_vars => Agrees'
<1> SUFFICES ASSUME IInv, [Next]_vars PROVE Agrees'
  OBVIOUS
<1> USE ClientAssumption DEF IInv, Agrees, socket, link, resolver, Polling, TypeOK
<1>1. CASE StartThread
  BY <1>1 DEF StartThread
<1>2. CASE PostResolve
  BY <1>2 DEF PostResolve
<1>3. CASE HandleResolve
  BY <1>3 DEF HandleResolve, StartConnect, Handled
<1>4. CASE HandleConnect
  BY <1>4 DEF HandleConnect, Handled
<1>5. CASE HandleConnectError
  BY <1>5 DEF HandleConnectError, StartConnect, Handled
<1>6. CASE HandleReadEnd
  BY <1>6 DEF HandleReadEnd, Handled
<1>7. CASE HandleWrite
  BY <1>7 DEF HandleWrite, Handled
<1>8. CASE EndPoll
  BY <1>8 DEF EndPoll
<1>9. CASE MainTick
  BY <1>9 DEF MainTick
<1>10. CASE HandlerThrows
  BY <1>10 DEF HandlerThrows, Handled
<1>11. CASE ShutdownResolver
  BY <1>11 DEF ShutdownResolver
<1>12. CASE Join
  BY <1>12 DEF Join
<1>13. CASE ThreadRun
  BY <1>13 DEF ThreadRun
<1>14. CASE ThreadTake
  BY <1>14 DEF ThreadTake
<1>15. CASE ThreadResolve
  BY <1>15 DEF ThreadResolve
<1>16. CASE ThreadReturn
  BY <1>16 DEF ThreadReturn
<1>17. CASE Decide
  BY <1>17 DEF Decide
<1>18. CASE UNCHANGED vars
  BY <1>18 DEF vars, socket, link, resolver
<1> QED BY <1>1, <1>2, <1>3, <1>4, <1>5, <1>6, <1>7, <1>8, <1>9, <1>10, <1>11, <1>12, <1>13, <1>14, <1>15, <1>16, <1>17, <1>18 DEF Next, Main, Thread

(* The account of the thread stays exact.                                  *)
LEMMA ThreadWorkStep == IInv /\ [Next]_vars => ThreadWorkExact'
<1> SUFFICES ASSUME IInv, [Next]_vars PROVE ThreadWorkExact'
  OBVIOUS
<1> USE ClientAssumption DEF IInv, Agrees, ThreadWorkExact, socket, link, resolver, Polling, TypeOK, Count
<1>1. CASE StartThread
  BY <1>1 DEF StartThread
<1>2. CASE PostResolve
  BY <1>2 DEF PostResolve
<1>3. CASE HandleResolve
  BY <1>3 DEF HandleResolve, StartConnect, Handled
<1>4. CASE HandleConnect
  BY <1>4 DEF HandleConnect, Handled
<1>5. CASE HandleConnectError
  BY <1>5 DEF HandleConnectError, StartConnect, Handled
<1>6. CASE HandleReadEnd
  BY <1>6 DEF HandleReadEnd, Handled
<1>7. CASE HandleWrite
  BY <1>7 DEF HandleWrite, Handled
<1>8. CASE EndPoll
  BY <1>8 DEF EndPoll
<1>9. CASE MainTick
  BY <1>9 DEF MainTick
<1>10. CASE HandlerThrows
  BY <1>10 DEF HandlerThrows, Handled
<1>11. CASE ShutdownResolver
  BY <1>11 DEF ShutdownResolver
<1>12. CASE Join
  BY <1>12 DEF Join
<1>13. CASE ThreadRun
  BY <1>13 DEF ThreadRun
<1>14. CASE ThreadTake
  BY <1>14 DEF ThreadTake
<1>15. CASE ThreadResolve
  BY <1>15 DEF ThreadResolve
<1>16. CASE ThreadReturn
  BY <1>16 DEF ThreadReturn
<1>17. CASE Decide
  BY <1>17 DEF Decide
<1>18. CASE UNCHANGED vars
  BY <1>18 DEF vars, socket, link, resolver
<1> QED BY <1>1, <1>2, <1>3, <1>4, <1>5, <1>6, <1>7, <1>8, <1>9, <1>10, <1>11, <1>12, <1>13, <1>14, <1>15, <1>16, <1>17, <1>18 DEF Next, Main, Thread

(* The order is kept.                                                      *)
LEMMA TriedStep == IInv /\ [Next]_vars => TriedInOrder'
<1> SUFFICES ASSUME IInv, [Next]_vars PROVE TriedInOrder'
  OBVIOUS
<1> USE ClientAssumption DEF IInv, Agrees, TriedInOrder, socket, link, resolver, Polling, TypeOK, Incremented, End
<1>1. CASE StartThread
  BY <1>1 DEF StartThread
<1>2. CASE PostResolve
  BY <1>2 DEF PostResolve
<1>3. CASE HandleResolve
  <2>1. CASE endpoints = <<>>
    BY <1>3, <2>1 DEF HandleResolve
  <2>2. CASE endpoints # <<>>
    <3>1. tried = <<>> /\ Len(tried) = 0 /\ endpoints' = endpoints
      BY <1>3 DEF HandleResolve
    <3>2. 1 <= Len(endpoints)
      BY <2>2, EndpointsSeq
    <3>3. 1 = Len(tried) + 1 /\ StartConnect(1, sock)
      BY <1>3, <2>2, <3>1 DEF HandleResolve
    <3> QED
      <4> HIDE DEF IInv, TriedInOrder
      <4> QED BY <3>1, <3>2, <3>3, TriedGrows
  <2> QED BY <2>1, <2>2
<1>4. CASE HandleConnect
  BY <1>4 DEF HandleConnect, Handled
<1>5. CASE HandleConnectError
  <2>1. attempt # "none" /\ endpoints' = endpoints
    BY <1>5 DEF HandleConnectError
  <2>2. CASE ep = End
    BY <1>5, <2>2 DEF HandleConnectError
  <2>3. CASE ep # End
    <3>1. ep = Len(tried) + 1 /\ ep <= Len(endpoints)
      <4>1. Len(tried) <= Len(endpoints)
        BY DEF IInv, TriedInOrder
      <4> QED BY <2>1, <2>3, <4>1, NextEndpoint DEF End
    <3>2. StartConnect(ep, Closed)
      BY <1>5, <2>3 DEF HandleConnectError, End
    <3> QED
      <4> HIDE DEF IInv, TriedInOrder
      <4> QED BY <2>1, <3>1, <3>2, TriedGrows
  <2> QED BY <2>2, <2>3
<1>6. CASE HandleReadEnd
  BY <1>6 DEF HandleReadEnd, Handled
<1>7. CASE HandleWrite
  BY <1>7 DEF HandleWrite, Handled
<1>8. CASE EndPoll
  BY <1>8 DEF EndPoll
<1>9. CASE MainTick
  BY <1>9 DEF MainTick
<1>10. CASE HandlerThrows
  BY <1>10 DEF HandlerThrows, Handled
<1>11. CASE ShutdownResolver
  BY <1>11 DEF ShutdownResolver
<1>12. CASE Join
  BY <1>12 DEF Join
<1>13. CASE ThreadRun
  BY <1>13 DEF ThreadRun
<1>14. CASE ThreadTake
  BY <1>14 DEF ThreadTake
<1>15. CASE ThreadResolve
  BY <1>15 DEF ThreadResolve
<1>16. CASE ThreadReturn
  BY <1>16 DEF ThreadReturn
<1>17. CASE Decide
  BY <1>17 DEF Decide
<1>18. CASE UNCHANGED vars
  BY <1>18 DEF vars, socket, link, resolver
<1> QED BY <1>1, <1>2, <1>3, <1>4, <1>5, <1>6, <1>7, <1>8, <1>9, <1>10, <1>11, <1>12, <1>13, <1>14, <1>15, <1>16, <1>17, <1>18 DEF Next, Main, Thread

(* The account of main's io_service stays exact.                           *)
LEMMA WorkStep == IInv /\ [Next]_vars => WorkExact'
<1> SUFFICES ASSUME IInv, [Next]_vars PROVE WorkExact'
  OBVIOUS
<1> USE ClientAssumption DEF IInv, Agrees, WorkExact, socket, link, resolver, Polling, TypeOK, Count
<1>1. CASE StartThread
  BY <1>1 DEF StartThread
<1>2. CASE PostResolve
  BY <1>2 DEF PostResolve
<1>3. CASE HandleResolve
  BY <1>3 DEF HandleResolve, StartConnect, Handled
<1>4. CASE HandleConnect
  BY <1>4 DEF HandleConnect, Handled
<1>5. CASE HandleConnectError
  <2>1. attempt # "none" /\ UNCHANGED <<phase, request, reading, writes>>
    BY <1>5 DEF HandleConnectError
  <2>2. CASE ep = End
    BY <1>5, <2>1, <2>2 DEF HandleConnectError, Handled, End
  <2>3. CASE ep # End
    <3>1. attempt' # "none" /\ work' = work - 1 + 1
      BY <1>5, <2>3 DEF HandleConnectError, StartConnect, Handled, End
    <3> QED BY <2>1, <3>1
  <2> QED BY <2>2, <2>3
<1>6. CASE HandleReadEnd
  BY <1>6 DEF HandleReadEnd, Handled
<1>7. CASE HandleWrite
  BY <1>7 DEF HandleWrite, Handled
<1>8. CASE EndPoll
  BY <1>8 DEF EndPoll
<1>9. CASE MainTick
  BY <1>9 DEF MainTick
<1>10. CASE HandlerThrows
  BY <1>10 DEF HandlerThrows, Handled
<1>11. CASE ShutdownResolver
  BY <1>11 DEF ShutdownResolver
<1>12. CASE Join
  BY <1>12 DEF Join
<1>13. CASE ThreadRun
  BY <1>13 DEF ThreadRun
<1>14. CASE ThreadTake
  BY <1>14 DEF ThreadTake
<1>15. CASE ThreadResolve
  BY <1>15 DEF ThreadResolve
<1>16. CASE ThreadReturn
  BY <1>16 DEF ThreadReturn
<1>17. CASE Decide
  BY <1>17 DEF Decide
<1>18. CASE UNCHANGED vars
  BY <1>18 DEF vars, socket, link, resolver
<1> QED BY <1>1, <1>2, <1>3, <1>4, <1>5, <1>6, <1>7, <1>8, <1>9, <1>10, <1>11, <1>12, <1>13, <1>14, <1>15, <1>16, <1>17, <1>18 DEF Next, Main, Thread

(* No endpoint is left out.                                                *)
LEMMA ExhaustedStep == IInv /\ [Next]_vars => Exhausted'
<1> SUFFICES ASSUME IInv, [Next]_vars PROVE Exhausted'
  OBVIOUS
<1> USE ClientAssumption DEF IInv, Agrees, TriedInOrder, Exhausted, socket, link, resolver, Polling, TypeOK
<1>1. CASE StartThread
  BY <1>1 DEF StartThread
<1>2. CASE PostResolve
  BY <1>2 DEF PostResolve
<1>3. CASE HandleResolve
  BY <1>3 DEF HandleResolve, StartConnect, Handled
<1>4. CASE HandleConnect
  BY <1>4 DEF HandleConnect, Handled
<1>5. CASE HandleConnectError
  <2>1. attempt # "none" /\ UNCHANGED <<endpoints, request, connected>>
    BY <1>5 DEF HandleConnectError
  <2>2. CASE ep = End
    <3>1. Len(tried) = Len(endpoints)
      BY <2>1, <2>2, NextEndpoint DEF End
    <3> QED BY <1>5, <2>1, <2>2, <3>1 DEF HandleConnectError
  <2>3. CASE ep # End
    <3>1. attempt' # "none"
      BY <1>5, <2>3 DEF HandleConnectError, StartConnect, End
    <3> QED BY <3>1
  <2> QED BY <2>2, <2>3
<1>6. CASE HandleReadEnd
  BY <1>6 DEF HandleReadEnd, Handled
<1>7. CASE HandleWrite
  BY <1>7 DEF HandleWrite, Handled
<1>8. CASE EndPoll
  BY <1>8 DEF EndPoll
<1>9. CASE MainTick
  BY <1>9 DEF MainTick
<1>10. CASE HandlerThrows
  BY <1>10 DEF HandlerThrows, Handled
<1>11. CASE ShutdownResolver
  BY <1>11 DEF ShutdownResolver
<1>12. CASE Join
  BY <1>12 DEF Join
<1>13. CASE ThreadRun
  BY <1>13 DEF ThreadRun
<1>14. CASE ThreadTake
  BY <1>14 DEF ThreadTake
<1>15. CASE ThreadResolve
  BY <1>15 DEF ThreadResolve
<1>16. CASE ThreadReturn
  BY <1>16 DEF ThreadReturn
<1>17. CASE Decide
  BY <1>17 DEF Decide
<1>18. CASE UNCHANGED vars
  BY <1>18 DEF vars, socket, link, resolver
<1> QED BY <1>1, <1>2, <1>3, <1>4, <1>5, <1>6, <1>7, <1>8, <1>9, <1>10, <1>11, <1>12, <1>13, <1>14, <1>15, <1>16, <1>17, <1>18 DEF Next, Main, Thread

(* The types are kept.                                                     *)
LEMMA TypeStep == IInv /\ [Next]_vars => TypeOK'
<1> SUFFICES ASSUME IInv, [Next]_vars PROVE TypeOK'
  OBVIOUS
<1> USE ClientAssumption DEF IInv, TypeOK, socket, link, resolver, Polling
<1>1. CASE StartThread
  BY <1>1 DEF StartThread
<1>2. CASE PostResolve
  BY <1>2 DEF PostResolve
<1>3. CASE HandleResolve
  <2>1. work \in Nat \ {0}
    BY <1>3, WorkCounted DEF HandleResolve
  <2>2. CASE endpoints = <<>>
    <3>1. Handled(0)
      BY <1>3, <2>2 DEF HandleResolve
    <3>2. work' \in Nat /\ stopped' \in BOOLEAN
      <4> HIDE DEF TypeOK
      <4> QED BY <2>1, <3>1, HandledType DEF IInv
    <3> QED BY <1>3, <2>2, <3>2 DEF HandleResolve
  <2>3. CASE endpoints # <<>>
    <3>1. Handled(1) /\ StartConnect(1, sock)
      BY <1>3, <2>3 DEF HandleResolve
    <3>2. work' \in Nat /\ stopped' \in BOOLEAN
      <4> HIDE DEF TypeOK
      <4> QED BY <2>1, <3>1, HandledType DEF IInv
    <3>3. 1 \in Nat /\ sock \in Family \cup {Closed}
      OBVIOUS
    <3>4. /\ ep' \in Nat /\ sock' \in Family \cup {Closed} /\ tried' \in Seq(Nat)
          /\ attempt' \in {"none", "pending", "accepted", "failed"}
      <4> HIDE DEF TypeOK
      <4> QED BY <3>1, <3>3, StartConnectType DEF IInv
    <3> QED BY <1>3, <3>2, <3>4 DEF HandleResolve
  <2> QED BY <2>2, <2>3
<1>4. CASE HandleConnect
  <2>1. work \in Nat \ {0}
    BY <1>4, WorkCounted DEF HandleConnect
  <2>2. Handled(1)
    BY <1>4 DEF HandleConnect
  <2>3. work' \in Nat /\ stopped' \in BOOLEAN
    <3> HIDE DEF TypeOK
    <3> QED BY <2>1, <2>2, HandledType DEF IInv
  <2> QED BY <1>4, <2>3 DEF HandleConnect
<1>5. CASE HandleConnectError
  <2>1. work \in Nat \ {0}
    BY <1>5, WorkCounted DEF HandleConnectError
  <2>2. CASE ep = End
    <3>1. Handled(0)
      BY <1>5, <2>2 DEF HandleConnectError
    <3>2. work' \in Nat /\ stopped' \in BOOLEAN
      <4> HIDE DEF TypeOK
      <4> QED BY <2>1, <3>1, HandledType DEF IInv
    <3> QED BY <1>5, <2>2, <3>2 DEF HandleConnectError
  <2>3. CASE ep # End
    <3>1. Handled(1) /\ StartConnect(ep, Closed)
      BY <1>5, <2>3 DEF HandleConnectError
    <3>2. work' \in Nat /\ stopped' \in BOOLEAN
      <4> HIDE DEF TypeOK
      <4> QED BY <2>1, <3>1, HandledType DEF IInv
    <3>3. ep \in Nat /\ Closed \in Family \cup {Closed}
      OBVIOUS
    <3>4. /\ ep' \in Nat /\ sock' \in Family \cup {Closed} /\ tried' \in Seq(Nat)
          /\ attempt' \in {"none", "pending", "accepted", "failed"}
      <4> HIDE DEF TypeOK
      <4> QED BY <3>1, <3>3, StartConnectType DEF IInv
    <3> QED BY <1>5, <3>2, <3>4 DEF HandleConnectError
  <2> QED BY <2>2, <2>3
<1>6. CASE HandleReadEnd
  <2>1. work \in Nat \ {0}
    BY <1>6, WorkCounted DEF HandleReadEnd
  <2>2. Handled(0)
    BY <1>6 DEF HandleReadEnd
  <2>3. work' \in Nat /\ stopped' \in BOOLEAN
    <3> HIDE DEF TypeOK
    <3> QED BY <2>1, <2>2, HandledType DEF IInv
  <2> QED BY <1>6, <2>3, ZenonT(40) DEF HandleReadEnd
<1>7. CASE HandleWrite
  <2>1. work \in Nat \ {0}
    BY <1>7, WorkCounted DEF HandleWrite
  <2>2. Handled(0)
    BY <1>7 DEF HandleWrite
  <2>3. work' \in Nat /\ stopped' \in BOOLEAN
    <3> HIDE DEF TypeOK
    <3> QED BY <2>1, <2>2, HandledType DEF IInv
  <2> QED BY <1>7, <2>3 DEF HandleWrite
<1>8. CASE EndPoll
  BY <1>8 DEF EndPoll
<1>9. CASE MainTick
  BY <1>9 DEF MainTick
<1>10. CASE HandlerThrows
  <2>1. work \in Nat \ {0}
    BY <1>10, WorkCounted DEF HandlerThrows
  <2>2. Handled(0)
    BY <1>10 DEF HandlerThrows
  <2>3. work' \in Nat /\ stopped' \in BOOLEAN
    <3> HIDE DEF TypeOK
    <3> QED BY <2>1, <2>2, HandledType DEF IInv
  <2> QED BY <1>10, <2>3 DEF HandlerThrows
<1>11. CASE ShutdownResolver
  <2>1. threadWork \in Nat \ {0}
    BY <1>11, ThreadCounted DEF ShutdownResolver
  <2> QED BY <1>11, <2>1 DEF ShutdownResolver
<1>12. CASE Join
  BY <1>12 DEF Join
<1>13. CASE ThreadRun
  BY <1>13 DEF ThreadRun
<1>14. CASE ThreadTake
  BY <1>14 DEF ThreadTake
<1>15. CASE ThreadResolve
  <2>1. threadWork \in Nat \ {0}
    BY <1>15, ThreadCounted DEF ThreadResolve, Agrees
  <2> QED BY <1>15, <2>1 DEF ThreadResolve
<1>16. CASE ThreadReturn
  BY <1>16 DEF ThreadReturn
<1>17. CASE Decide
  BY <1>17 DEF Decide
<1>18. CASE UNCHANGED vars
  BY <1>18 DEF vars, socket, link, resolver
<1> QED BY <1>1, <1>2, <1>3, <1>4, <1>5, <1>6, <1>7, <1>8, <1>9, <1>10, <1>11, <1>12, <1>13, <1>14, <1>15, <1>16, <1>17, <1>18 DEF Next, Main, Thread
(* The io_service stops only with a reason.  A step that stops it leaves   *)
(* no work, which by NoWork in the new state is reason enough.             *)
LEMMA StopStep ==
    ASSUME IInv, [Next]_vars, TypeOK', Agrees', WorkExact', Exhausted', TriedInOrder'
    PROVE  StopJustified'
<1> SUFFICES ASSUME stopped' PROVE StopJustified'
  BY DEF StopJustified
<1>1. CASE ~stopped
  <2>1. Workless'
    BY <1>1 DEF Workless, Next, Main, Thread, vars, socket, link, resolver, Polling, Handled,
       StartThread, PostResolve, HandleResolve, HandleConnect, HandleConnectError,
       HandleReadEnd, HandleWrite, EndPoll, MainTick, HandlerThrows, ShutdownResolver, Join,
       ThreadRun, ThreadTake, ThreadResolve, ThreadReturn, Decide, IInv, TypeOK
  <2>2. HasReason'
    BY <2>1, NoWork, PTL
  <2> QED BY <2>2 DEF StopJustified, HasReason
<1>2. CASE stopped
  <2>1. UNCHANGED <<endpoints, connected, reading, attempt, tried, request>>
    BY <1>2 DEF Next, Main, Thread, vars, socket, link, resolver, Polling,
       StartThread, PostResolve, HandleResolve, HandleConnect, HandleConnectError,
       HandleReadEnd, HandleWrite, EndPoll, MainTick, HandlerThrows, ShutdownResolver, Join,
       ThreadRun, ThreadTake, ThreadResolve, ThreadReturn, Decide, IInv, Agrees, StopJustified
  <2> QED BY <1>2, <2>1 DEF IInv, StopJustified
<1> QED BY <1>1, <1>2 DEF IInv, TypeOK

(* The invariant is inductive.                                             *)
LEMMA NextInv == IInv /\ [Next]_vars => IInv'
<1> SUFFICES ASSUME IInv, [Next]_vars PROVE IInv'
  OBVIOUS
<1>1. TypeOK' /\ Agrees' /\ ThreadWorkExact' /\ TriedInOrder' /\ WorkExact' /\ Exhausted'
  BY TypeStep, AgreesStep, ThreadWorkStep, TriedStep, WorkStep, ExhaustedStep
<1>2. StopJustified'
  BY <1>1, StopStep
<1> QED BY <1>1, <1>2 DEF IInv

(* Every value has its type; in particular no account goes below zero.     *)
THEOREM TypeCorrect == Spec => []TypeOK
<1>1. IInv => TypeOK
  BY DEF IInv
<1> QED BY <1>1, InitInv, NextInv, PTL DEF Spec

(* For every list the resolver may return, of any length: the endpoints    *)
(* are tried in order, each once, and none beyond the end.                 *)
THEOREM EndpointsInOrder == Spec => []TriedInOrder
<1>1. IInv => TriedInOrder
  BY DEF IInv
<1> QED BY <1>1, InitInv, NextInv, PTL DEF Spec

(* outstanding_work_ is exact, also across the two threads.                *)
THEOREM AccountExact == Spec => []WorkExact
<1>1. IInv => WorkExact
  BY DEF IInv
<1> QED BY <1>1, InitInv, NextInv, PTL DEF Spec

(* The io_service of the client stops only when every endpoint has been    *)
(* tried or the link has come up and gone.                                 *)
THEOREM StopsWithReason == Spec => []StopJustified
<1>1. IInv => StopJustified
  BY DEF IInv
<1> QED BY <1>1, InitInv, NextInv, PTL DEF Spec
=============================================================================
