-------------------------- MODULE IoServiceProofs --------------------------
(***************************************************************************)
(* For any number of threads and operations: the reactor is in one place,  *)
(* in the io_service's queue or with one thread; outstanding_work_ is      *)
(* exact; and the service implements Executor.                             *)
(***************************************************************************)
EXTENDS IoService, TLAPS, FiniteSetTheorems, SequenceTheorems

Item == Op \cup {Task}

NoTask(q) == \A i \in 1 .. Len(q) : q[i] # Task
OneTask(q) == \E i \in 1 .. Len(q) : q[i] = Task /\ \A j \in 1 .. Len(q) : q[j] = Task => j = i

InReactor == {t \in Thread : pc[t] \in {"task", "reinsert"}}

(* What the places need to be typed for this; work is not among it.        *)
Typed ==
    /\ queue \in Seq(Item) /\ hasTask \in BOOLEAN
    /\ pc \in [Thread \cup {Owner} -> Place]
    /\ priv \in [Thread -> Seq(Op)]
    /\ counted \subseteq Op /\ ready \subseteq Op

Placed ==
    \/ ~hasTask /\ NoTask(queue) /\ InReactor = {}
    \/ hasTask /\ OneTask(queue) /\ InReactor = {}
    \/ hasTask /\ NoTask(queue) /\ \E t \in Thread : InReactor = {t}

(* A thread that waits for the event does nothing else.                    *)
Asleep ==
    /\ woken \subseteq waiting /\ waiting \subseteq Thread
    /\ \A t \in waiting : pc[t] = "wait"

IInv == Typed /\ Placed

(* Every operation is in one place: counted, ready, queued, in a thread's  *)
(* own queue, or run.                                                      *)
Own(t) == ToSet(priv[t])
Shared == counted \cup ready \cup Queued

Apart ==
    /\ IsInjective(queue) /\ \A t \in Thread : IsInjective(priv[t])
    /\ counted \cap ready = {} /\ (counted \cup ready) \cap Queued = {}
    /\ \A t \in Thread : Own(t) \cap Shared = {}
    /\ \A t, u \in Thread : t # u => Own(t) \cap Own(u) = {}

Handler == {t \in Thread : pc[t] = "handler"}

Distinct ==
    /\ \A t \in Handler : cur[t] \in Op /\ cur[t] \notin Todo
    /\ \A t, u \in Handler : cur[t] = cur[u] => t = u

(* What a running handler has posted is not in work yet; all else is.      *)
Unpaid == UNION {Own(t) : t \in Handler}
Paid == (Todo \cup Running) \ Unpaid

Accounts ==
    /\ work = Cardinality(Paid) + (IF held THEN 1 ELSE 0)
    /\ \A t \in Thread : privWork[t] = IF t \in Handler THEN Len(priv[t]) ELSE 0
    /\ \A t \in Thread :
          pc[t] \notin {"handler", "last", "flush", "reinsert"} => priv[t] = <<>>

(* A service that stops by itself has nothing left to run, and nobody who  *)
(* could add to it.                                                        *)
Empty == ~held /\ Todo \cup Running = {}

Leaving ==
    /\ pc[Owner] \in {"idle", "ask"} /\ \A t \in Thread : pc[t] # "ask"
    /\ pc[Owner] = "ask" => asked \/ Empty
    /\ \A t \in Thread : pc[t] \in {"last", "empty"} => Empty

(* The rest of the types.                                                  *)
Rest ==
    /\ stopped \in BOOLEAN /\ interrupted \in BOOLEAN /\ block \in BOOLEAN /\ wake \in BOOLEAN
    /\ lock \in Thread \cup {Nobody} /\ signalled \in BOOLEAN /\ waiting \subseteq Runner
    /\ cur \in [Thread -> Op \cup {Nobody}] /\ privWork \in [Thread -> Nat]
    /\ done \subseteq Op /\ held \in BOOLEAN /\ asked \in BOOLEAN

WInv == IInv /\ Asleep /\ Rest /\ Apart /\ Distinct /\ Accounts /\ Leaving
-----------------------------------------------------------------------------
(* The task in a sequence of operations.                                   *)
LEMMA OpsBehind ==
    ASSUME NEW q \in Seq(Item), NEW s \in Seq(Op)
    PROVE  /\ q \o s \in Seq(Item)
           /\ NoTask(q) => NoTask(q \o s)
           /\ OneTask(q) => OneTask(q \o s)
<1> DEFINE m == Len(q)
           n == Len(s)
           r == q \o s
<1>1. /\ m \in Nat /\ n \in Nat /\ Len(r) = m + n
      /\ \A i \in 1 .. m : r[i] = q[i]
      /\ \A i \in m + 1 .. m + n : r[i] = s[i - m] /\ i - m \in 1 .. n
  BY DEF Item
<1>2. \A i \in 1 .. n : s[i] # Task
  BY IoServiceAssumption
<1>3. r \in Seq(Item)
  <2>1. s \in Seq(Item)
    BY SeqMonotonic DEF Item
  <2> QED BY <2>1
<1> HIDE DEF m, n, r
<1>4. \A i \in 1 .. m + n : (i \in 1 .. m /\ r[i] = q[i]) \/ r[i] # Task
  <2> SUFFICES ASSUME NEW i \in 1 .. m + n, ~(i \in 1 .. m) PROVE r[i] # Task
    BY <1>1
  <2>1. i \in m + 1 .. m + n
    BY <1>1
  <2> QED BY <1>1, <1>2, <2>1
<1>5. NoTask(q) => NoTask(r)
  BY <1>1, <1>4 DEF NoTask, m
<1>6. OneTask(q) => OneTask(r)
  <2> SUFFICES ASSUME NEW i \in 1 .. m, q[i] = Task, \A j \in 1 .. m : q[j] = Task => j = i
               PROVE  OneTask(r)
    BY DEF OneTask, m
  <2>1. i \in 1 .. Len(r) /\ r[i] = Task
    BY <1>1
  <2>2. \A j \in 1 .. Len(r) : r[j] = Task => j = i
    BY <1>1, <1>4
  <2> QED BY <2>1, <2>2 DEF OneTask
<1> QED BY <1>3, <1>5, <1>6 DEF r

LEMMA OpBehind ==
    ASSUME NEW q \in Seq(Item), NEW o \in Op
    PROVE  /\ Append(q, o) \in Seq(Item)
           /\ NoTask(q) => NoTask(Append(q, o))
           /\ OneTask(q) => OneTask(Append(q, o))
<1> DEFINE s == <<o>>
<1>1. s \in Seq(Op) /\ Append(q, o) = q \o s
  OBVIOUS
<1> HIDE DEF s
<1> QED BY <1>1, OpsBehind

LEMMA TaskBehind ==
    ASSUME NEW q \in Seq(Item), NoTask(q)
    PROVE  Append(q, Task) \in Seq(Item) /\ OneTask(Append(q, Task))
<1> DEFINE m == Len(q)
           r == Append(q, Task)
<1>1. /\ m \in Nat /\ Len(r) = m + 1 /\ r[m + 1] = Task /\ r \in Seq(Item)
      /\ \A i \in 1 .. m : r[i] = q[i]
  BY DEF Item
<1>2. \A i \in 1 .. m : q[i] # Task
  BY DEF NoTask
<1> HIDE DEF m, r
<1>3. m + 1 \in 1 .. Len(r) /\ \A j \in 1 .. Len(r) : r[j] = Task => j = m + 1
  <2>1. \A j \in 1 .. m + 1 : j \in 1 .. m \/ j = m + 1
    BY <1>1
  <2> QED BY <1>1, <1>2, <2>1
<1> QED BY <1>1, <1>3 DEF OneTask, r

LEMMA FrontTaken ==
    ASSUME NEW q \in Seq(Item), q # <<>>
    PROVE  /\ Tail(q) \in Seq(Item)
           /\ NoTask(q) => NoTask(Tail(q)) /\ Head(q) # Task
           /\ OneTask(q) /\ Head(q) = Task => NoTask(Tail(q))
           /\ OneTask(q) /\ Head(q) # Task => OneTask(Tail(q))
<1> DEFINE l == Len(q)
           r == Tail(q)
<1>1. /\ l \in Nat \ {0} /\ Head(q) = q[1] /\ 1 \in 1 .. l /\ r \in Seq(Item) /\ Len(r) = l - 1
      /\ \A i \in 1 .. l - 1 : r[i] = q[i + 1] /\ i + 1 \in 1 .. l
  OBVIOUS
<1> HIDE DEF r
<1>2. NoTask(q) => NoTask(r) /\ Head(q) # Task
  BY <1>1 DEF NoTask
<1> HIDE DEF l
<1>3. ASSUME NEW i \in 1 .. l, q[i] = Task, \A j \in 1 .. l : q[j] = Task => j = i
      PROVE  /\ Head(q) = Task => NoTask(r)
             /\ Head(q) # Task => OneTask(r)
  <2>1. ASSUME Head(q) = Task PROVE NoTask(r)
    <3>1. i = 1
      BY <1>1, <1>3, <2>1
    <3>2. \A j \in 1 .. l - 1 : j + 1 # 1
      BY <1>1
    <3> QED BY <1>1, <1>3, <3>1, <3>2 DEF NoTask
  <2>2. ASSUME Head(q) # Task PROVE OneTask(r)
    <3>1. i - 1 \in 1 .. l - 1 /\ (i - 1) + 1 = i
      BY <1>1, <1>3, <2>2
    <3>2. r[i - 1] = Task
      BY <1>1, <1>3, <3>1
    <3>3. \A j \in 1 .. l - 1 : r[j] = Task => j = i - 1
      <4> SUFFICES ASSUME NEW j \in 1 .. l - 1, r[j] = Task PROVE j = i - 1
        OBVIOUS
      <4>1. j + 1 = i
        BY <1>1, <1>3
      <4> QED BY <1>1, <4>1
    <3> QED BY <1>1, <3>1, <3>2, <3>3 DEF OneTask
  <2> QED BY <2>1, <2>2
<1> QED BY <1>1, <1>2, <1>3 DEF OneTask, l, r

(* The operations the reactor returns, in some order.                      *)
LEMMA SomeOrder ==
    ASSUME NEW S \in SUBSET Op, NEW s \in SetToSeqs(S)
    PROVE  s \in Seq(Op)
<1> DEFINE n == Cardinality(S)
<1>1. IsFiniteSet(S)
  BY FS_Subset, IoServiceAssumption
<1>2. n \in Nat
  BY <1>1, FS_CardinalityType
<1>3. s \in [1 .. n -> S]
  BY DEF SetToSeqs
<1> HIDE DEF n
<1>4. s \in [1 .. n -> Op]
  BY <1>3
<1> QED BY <1>2, <1>4, SeqDef
-----------------------------------------------------------------------------
(* A thread that goes to l; the reactor's threads follow.                  *)
LEMMA Moves ==
    ASSUME Typed, NEW t \in Thread \cup {Owner}, NEW l \in Place, Goto(t, l)
    PROVE  /\ pc' \in [Thread \cup {Owner} -> Place]
           /\ (t \notin InReactor /\ l \notin {"task", "reinsert"}) => InReactor' = InReactor
           /\ (t \in Thread /\ l \in {"task", "reinsert"}) => InReactor' = InReactor \cup {t}
           /\ (l \notin {"task", "reinsert"}) => InReactor' = InReactor \ {t}
<1>1. pc \in [Thread \cup {Owner} -> Place] /\ pc' = [pc EXCEPT ![t] = l]
  BY DEF Typed, Goto
<1>2. \A u \in Thread : pc'[u] = IF u = t THEN l ELSE pc[u]
  BY <1>1
<1> QED BY <1>1, <1>2 DEF InReactor

(* Steps that leave the queue alone and nobody in or out of the reactor.   *)
LEMMA Quiet ==
    ASSUME IInv, Typed', UNCHANGED <<queue, hasTask>>, InReactor' = InReactor
    PROVE  IInv'
  BY DEF IInv, Placed, NoTask, OneTask

(* Steps that put operations behind the queue or take one from its front.  *)
LEMMA OpsOnly ==
    ASSUME IInv, Typed', UNCHANGED hasTask, InReactor' = InReactor,
           NoTask(queue) => NoTask(queue'), OneTask(queue) => OneTask(queue')
    PROVE  IInv'
<1>1. NoTask(queue)' = NoTask(queue') /\ OneTask(queue)' = OneTask(queue')
  BY DEF NoTask, OneTask
<1> QED BY <1>1 DEF IInv, Placed

(* Steps that do not let a thread that sleeps go on.                       *)
LEMMA SleepsOn ==
    ASSUME Typed, Asleep, waiting' = waiting, woken' \subseteq waiting,
           UNCHANGED pc \/ \E t \in Thread \cup {Owner}, l \in Place : Goto(t, l) /\ pc[t] # "wait"
    PROVE  Asleep'
<1>1. CASE UNCHANGED pc
  BY <1>1 DEF Asleep
<1>2. ASSUME NEW t \in Thread \cup {Owner}, NEW l \in Place, Goto(t, l), pc[t] # "wait"
      PROVE  Asleep'
  BY <1>2 DEF Asleep, Typed, Goto
<1> QED BY <1>1, <1>2

LEMMA Signals ==
    ASSUME Asleep, SignalOne \/ WakeOne \/ UNCHANGED event
    PROVE  waiting' = waiting /\ woken' \subseteq waiting
  BY DEF Asleep, SignalOne, WakeOne, event

LEMMA SleepStep == ASSUME Typed, Asleep, [Next]_vars PROVE Asleep'
<1>1. CASE InitTask \/ Release \/ Ask \/ Stop(Owner)
  <2>1. waiting' = waiting /\ woken' \subseteq waiting
    BY <1>1, Signals DEF InitTask, Release, Ask, Stop, Asleep
  <2>2. UNCHANGED pc \/ \E l \in Place : Goto(Owner, l) /\ pc[Owner] # "wait"
    BY <1>1, IoServiceAssumption DEF InitTask, Release, Ask, Stop, Place, Thread
  <2> QED BY <2>1, <2>2, SleepsOn
<1>2. ASSUME NEW o \in Op, Start(o) \/ Push(o) \/ Ready(o) PROVE Asleep'
  <2>1. waiting' = waiting /\ woken' \subseteq waiting
    BY <1>2, Signals DEF Start, Push, Ready
  <2>2. UNCHANGED pc
    BY <1>2 DEF Start, Push, Ready
  <2> QED BY <2>1, <2>2, SleepsOn
<1>3. ASSUME NEW t \in Thread, Step(t) PROVE Asleep'
  <2>1. CASE Wait(t)
    <3>1. /\ pc' = [pc EXCEPT ![t] = "wait"] /\ waiting' = waiting \cup {t} /\ woken' = woken
          /\ pc \in [Thread \cup {Owner} -> Place]
      BY <2>1 DEF Wait, Goto, Typed
    <3> QED BY <3>1 DEF Asleep
  <2>2. CASE Wake(t)
    <3>1. /\ woken' = woken \ {t} /\ pc \in [Thread \cup {Owner} -> Place]
          /\ \/ waiting' = waiting \ {t} /\ pc' = [pc EXCEPT ![t] = "loop"]
             \/ waiting' = waiting /\ pc' = pc
      BY <2>2 DEF Wake, Goto, Typed
    <3> QED BY <3>1 DEF Asleep
  <2>3. CASE Enter(t) \/ Acquire(t) \/ Return(t) \/ Finish(t) \/ Flush(t) \/ Stop(t)
    <3>1. waiting' = waiting /\ woken' \subseteq waiting
      BY <2>3 DEF Enter, Acquire, Return, Finish, Flush, Stop, event, Asleep
    <3>2. \E l \in Place : Goto(t, l) /\ pc[t] # "wait"
      BY <2>3 DEF Enter, Acquire, Return, Finish, Flush, Stop, Place
    <3> QED BY <3>1, <3>2, SleepsOn
  <2>4. CASE TakeTask(t) \/ RunTask(t) \/ CleanUpTask(t) \/ PolledNothing(t) \/ TakeOp(t)
    <3>1. SignalOne \/ WakeOne \/ UNCHANGED event
      BY <2>4 DEF TakeTask, RunTask, CleanUpTask, PolledNothing, TakeOp
    <3>2. waiting' = waiting /\ woken' \subseteq waiting
      BY <3>1, Signals
    <3>3. \E l \in Place : Goto(t, l) /\ pc[t] # "wait"
      BY <2>4 DEF TakeTask, RunTask, CleanUpTask, PolledNothing, TakeOp, Place
    <3> QED BY <3>2, <3>3, SleepsOn
  <2> QED BY <1>3, <2>1, <2>2, <2>3, <2>4 DEF Step
<1>4. ASSUME NEW t \in Thread, NEW o \in Op, Continue(t, o) PROVE Asleep'
  BY <1>4 DEF Continue, event, Asleep
<1>5. CASE UNCHANGED vars
  BY <1>5 DEF vars, event, Asleep
<1> QED BY <1>1, <1>2, <1>3, <1>4, <1>5 DEF Next

LEMMA InitInv == Init => IInv /\ Asleep
<1> SUFFICES ASSUME Init PROVE IInv /\ Asleep
  OBVIOUS
<1>1. Typed
  <2>1. pc \in [Thread \cup {Owner} -> Place]
    BY DEF Init, Place
  <2>2. priv \in [Thread -> Seq(Op)] /\ queue \in Seq(Item)
    BY DEF Init
  <2> QED BY <2>1, <2>2 DEF Init, Typed
<1>2. NoTask(queue)
  BY DEF Init, NoTask
<1>3. InReactor = {}
  BY IoServiceAssumption DEF Init, InReactor, Thread
<1>4. Asleep
  BY DEF Init, Asleep
<1> QED BY <1>1, <1>2, <1>3, <1>4 DEF Init, IInv, Placed

LEMMA OwnerStep == ASSUME IInv, InitTask \/ Release \/ Ask \/ Stop(Owner) PROVE IInv'
<1>0. Typed /\ Owner \notin InReactor
  BY IoServiceAssumption DEF IInv, InReactor, Thread
<1>1. CASE InitTask
  <2>1. /\ ~hasTask /\ hasTask' = TRUE /\ queue' = Append(queue, Task)
        /\ UNCHANGED <<pc, priv, counted, ready>>
    BY <1>1 DEF InitTask, ops
  <2>2. queue \in Seq(Item) /\ NoTask(queue) /\ InReactor = {} /\ InReactor' = InReactor
    BY <2>1 DEF IInv, Typed, Placed, InReactor
  <2>3. queue' \in Seq(Item) /\ OneTask(queue')
    BY <2>1, <2>2, TaskBehind
  <2> QED BY <1>0, <2>1, <2>2, <2>3 DEF IInv, Typed, Placed, OneTask
<1>2. CASE Release \/ Ask \/ Stop(Owner)
  <2>1. UNCHANGED <<queue, hasTask, priv, counted, ready>>
    BY <1>2 DEF Release, Ask, Stop, task, ops
  <2>2. Goto(Owner, "ask") \/ Goto(Owner, "idle") \/ Goto(Owner, "flush")
    BY <1>2, IoServiceAssumption DEF Release, Ask, Stop, Thread
  <2>3. "ask" \in Place /\ "idle" \in Place /\ "flush" \in Place
    BY DEF Place
  <2>4. pc' \in [Thread \cup {Owner} -> Place] /\ InReactor' = InReactor
    BY <1>0, <2>2, <2>3, Moves
  <2>5. Typed'
    BY <1>0, <2>1, <2>4 DEF Typed
  <2> QED BY <2>1, <2>4, <2>5, Quiet
<1> QED BY <1>1, <1>2

LEMMA OpStep == ASSUME IInv, NEW o \in Op, Start(o) \/ Push(o) \/ Ready(o) PROVE IInv'
<1>0. Typed
  BY DEF IInv
<1>1. UNCHANGED <<hasTask, pc, priv>>
  BY DEF Start, Push, Ready, task
<1>2. InReactor' = InReactor
  BY <1>1 DEF InReactor
<1>3. counted' \subseteq Op /\ ready' \subseteq Op
  BY <1>0 DEF Start, Push, Ready, Typed
<1>4. queue' \in {queue, Append(queue, o)}
  BY DEF Start, Push, Ready
<1>5. queue \in Seq(Item)
  BY <1>0 DEF Typed
<1>6. /\ queue' \in Seq(Item)
      /\ NoTask(queue) => NoTask(queue')
      /\ OneTask(queue) => OneTask(queue')
  BY <1>4, <1>5, OpBehind
<1>7. Typed'
  BY <1>0, <1>1, <1>3, <1>6 DEF Typed
<1> QED BY <1>1, <1>2, <1>6, <1>7, OpsOnly

(* A thread outside the reactor goes on outside.                           *)
LEMMA OutsideStep ==
    ASSUME IInv, Asleep, NEW t \in Thread,
           Enter(t) \/ Acquire(t) \/ Return(t) \/ Wait(t) \/ Wake(t) \/ PolledNothing(t)
               \/ Finish(t) \/ Stop(t)
    PROVE  IInv'
<1>0. Typed
  BY DEF IInv
<1>1. UNCHANGED <<queue, hasTask, priv, counted, ready>>
  BY DEF Enter, Acquire, Return, Wait, Wake, PolledNothing, Finish, Stop, task, ops
<1>2. UNCHANGED pc \/ \E l \in Place \ {"task", "reinsert"} : Goto(t, l)
  BY DEF Enter, Acquire, Return, Wait, Wake, PolledNothing, Finish, Stop, Place
<1>3. pc[t] \notin {"task", "reinsert"}
  BY DEF Asleep, Enter, Acquire, Return, Wait, Wake, PolledNothing, Finish, Stop
<1>4. pc' \in [Thread \cup {Owner} -> Place] /\ InReactor' = InReactor
  <2>1. CASE UNCHANGED pc
    BY <1>0, <2>1 DEF Typed, InReactor
  <2>2. CASE pc[t] \notin {"task", "reinsert"} /\ \E l \in Place \ {"task", "reinsert"} : Goto(t, l)
    <3>1. t \notin InReactor
      BY <2>2 DEF InReactor
    <3> QED BY <1>0, <2>2, <3>1, Moves
  <2> QED BY <1>2, <1>3, <2>1, <2>2
<1>5. Typed'
  BY <1>0, <1>1, <1>4 DEF Typed
<1> QED BY <1>1, <1>4, <1>5, Quiet

(* A thread takes an operation, adds one to its own queue, or puts that    *)
(* queue behind the shared one.                                            *)
LEMMA OpsStep ==
    ASSUME IInv, NEW t \in Thread, TakeOp(t) \/ Flush(t) \/ \E o \in Op : Continue(t, o)
    PROVE  IInv'
<1>0. Typed /\ queue \in Seq(Item) /\ priv \in [Thread -> Seq(Op)]
  BY DEF IInv, Typed
<1>1. UNCHANGED <<hasTask, counted, ready>>
  BY DEF TakeOp, Flush, Continue, task, ops
<1>2. /\ queue' \in Seq(Item) /\ priv' \in [Thread -> Seq(Op)]
      /\ NoTask(queue) => NoTask(queue')
      /\ OneTask(queue) => OneTask(queue')
  <2>1. CASE TakeOp(t)
    BY <1>0, <2>1, FrontTaken DEF TakeOp
  <2>2. CASE Flush(t)
    <3>1. queue' = queue \o priv[t] /\ priv' = [priv EXCEPT ![t] = <<>>] /\ priv[t] \in Seq(Op)
      BY <1>0, <2>2 DEF Flush
    <3> QED BY <1>0, <3>1, OpsBehind
  <2>3. CASE \E o \in Op : Continue(t, o)
    BY <1>0, <2>3 DEF Continue
  <2> QED BY <2>1, <2>2, <2>3
<1>3. /\ pc[t] \notin {"task", "reinsert"}
      /\ UNCHANGED pc \/ Goto(t, "handler") \/ Goto(t, "loop")
  BY DEF TakeOp, Flush, Continue
<1>4. pc' \in [Thread \cup {Owner} -> Place] /\ InReactor' = InReactor
  <2>1. t \notin InReactor
    BY <1>3 DEF InReactor
  <2>2. CASE UNCHANGED pc
    BY <1>0, <2>2 DEF Typed, InReactor
  <2>3. CASE Goto(t, "handler") \/ Goto(t, "loop")
    <3>1. "handler" \in Place /\ "loop" \in Place
      BY DEF Place
    <3> QED BY <1>0, <2>1, <2>3, <3>1, Moves
  <2> QED BY <1>3, <2>2, <2>3
<1>5. Typed'
  BY <1>0, <1>1, <1>2, <1>4 DEF Typed
<1> QED BY <1>1, <1>2, <1>4, <1>5, OpsOnly

(* The task leaves the queue with a thread ...                             *)
LEMMA TakeTaskStep == ASSUME IInv, NEW t \in Thread, TakeTask(t) PROVE IInv'
<1>0. Typed /\ queue \in Seq(Item) /\ "task" \in Place
  BY DEF IInv, Typed, Place
<1>1. /\ queue # <<>> /\ Head(queue) = Task /\ queue' = Tail(queue) /\ Goto(t, "task")
      /\ UNCHANGED <<hasTask, priv, counted, ready>>
  BY DEF TakeTask, ops
<1>2. hasTask /\ OneTask(queue) /\ InReactor = {}
  BY <1>0, <1>1, FrontTaken DEF IInv, Placed
<1>3. queue' \in Seq(Item) /\ NoTask(queue')
  BY <1>0, <1>1, <1>2, FrontTaken
<1>4. pc' \in [Thread \cup {Owner} -> Place] /\ InReactor' = {t}
  BY <1>0, <1>1, <1>2, Moves
<1> QED BY <1>0, <1>1, <1>2, <1>3, <1>4 DEF IInv, Typed, Placed, NoTask

(* ... which is the only one in the reactor ...                            *)
LEMMA RunTaskStep == ASSUME IInv, NEW t \in Thread, RunTask(t) PROVE IInv'
<1>0. Typed /\ priv \in [Thread -> Seq(Op)] /\ ready \subseteq Op /\ "reinsert" \in Place
  BY DEF IInv, Typed, Place
<1>1. /\ pc[t] = "task" /\ Goto(t, "reinsert") /\ ready' = {}
      /\ UNCHANGED <<queue, hasTask, counted>>
  BY DEF RunTask
<1>2. PICK s \in SetToSeqs(ready) : priv' = [priv EXCEPT ![t] = s]
  BY DEF RunTask
<1>3. priv' \in [Thread -> Seq(Op)]
  BY <1>0, <1>2, SomeOrder
<1>4. pc' \in [Thread \cup {Owner} -> Place] /\ InReactor' = InReactor \cup {t}
  BY <1>0, <1>1, Moves
<1>5. InReactor' = InReactor
  BY <1>1, <1>4 DEF InReactor
<1>6. Typed'
  BY <1>0, <1>1, <1>3, <1>4 DEF Typed
<1> QED BY <1>1, <1>5, <1>6, Quiet

(* ... and puts it back.                                                   *)
LEMMA CleanUpTaskStep == ASSUME IInv, NEW t \in Thread, CleanUpTask(t) PROVE IInv'
<1>0. /\ Typed /\ queue \in Seq(Item) /\ priv \in [Thread -> Seq(Op)]
      /\ "loop" \in Place /\ "polled" \in Place
  BY DEF IInv, Typed, Place
<1>1. /\ pc[t] = "reinsert" /\ queue' = queue \o Append(priv[t], Task)
      /\ priv' = [priv EXCEPT ![t] = <<>>] /\ (Goto(t, "loop") \/ Goto(t, "polled"))
      /\ UNCHANGED <<hasTask, counted, ready>>
  BY DEF CleanUpTask, ops
<1>2. t \in InReactor
  BY <1>1 DEF InReactor
<1>3. hasTask /\ NoTask(queue) /\ InReactor = {t}
  BY <1>2 DEF IInv, Placed
<1> DEFINE b == queue \o priv[t]
<1>4. priv[t] \in Seq(Op) /\ queue' = Append(b, Task)
  BY <1>0, <1>1 DEF Item
<1>5. b \in Seq(Item) /\ NoTask(b)
  BY <1>0, <1>3, <1>4, OpsBehind
<1> HIDE DEF b
<1>6. queue' \in Seq(Item) /\ OneTask(queue')
  BY <1>4, <1>5, TaskBehind
<1>7. pc' \in [Thread \cup {Owner} -> Place] /\ InReactor' = {}
  BY <1>0, <1>1, <1>3, Moves
<1>8. priv' \in [Thread -> Seq(Op)]
  BY <1>0, <1>1
<1> QED BY <1>0, <1>1, <1>3, <1>6, <1>7, <1>8 DEF IInv, Typed, Placed, OneTask
-----------------------------------------------------------------------------
LEMMA NextStep == ASSUME IInv, Asleep, [Next]_vars PROVE IInv'
<1>1. CASE InitTask \/ Release \/ Ask \/ Stop(Owner)
  BY <1>1, OwnerStep
<1>2. CASE \E o \in Op : Start(o) \/ Push(o) \/ Ready(o)
  BY <1>2, OpStep
<1>3. ASSUME NEW t \in Thread, Step(t) PROVE IInv'
  BY <1>3, OutsideStep, OpsStep, TakeTaskStep, RunTaskStep, CleanUpTaskStep DEF Step
<1>4. ASSUME NEW t \in Thread, \E o \in Op : Continue(t, o) PROVE IInv'
  BY <1>4, OpsStep
<1>5. CASE UNCHANGED vars
  <2>1. UNCHANGED <<queue, hasTask, pc, priv, counted, ready>>
    BY <1>5 DEF vars, task, ops
  <2>2. Typed' /\ InReactor' = InReactor
    BY <2>1 DEF IInv, Typed, InReactor
  <2> QED BY <2>1, <2>2, Quiet
<1> QED BY <1>1, <1>2, <1>3, <1>4, <1>5 DEF Next

(* The reactor, which is one of the operations in the queue, is in one     *)
(* place, whatever threads run, poll, post and stop: it is never lost, and *)
(* never in two threads, though nothing else keeps them out of it.         *)
THEOREM ReactorInOnePlace == Spec => []TaskOnce
<1>1. IInv => TaskOnce
  <2> SUFFICES ASSUME IInv PROVE TaskOnce
    OBVIOUS
  <2> DEFINE T == {i \in 1 .. Len(queue) : queue[i] = Task}
  <2>1. NoTask(queue) => Cardinality(T) = 0
    <3>1. NoTask(queue) => T = {}
      BY DEF NoTask
    <3> QED BY <3>1, FS_EmptySet
  <2>2. OneTask(queue) => Cardinality(T) = 1
    <3>1. OneTask(queue) => \E i : T = {i}
      BY DEF OneTask
    <3> QED BY <3>1, FS_Singleton
  <2>3. InReactor = {} => Cardinality(InReactor) = 0
    BY FS_EmptySet
  <2>4. (\E t \in Thread : InReactor = {t}) => Cardinality(InReactor) = 1
    BY FS_Singleton
  <2>5. Cardinality(T) + Cardinality(InReactor) = IF hasTask THEN 1 ELSE 0
    <3> HIDE DEF T
    <3> QED BY <2>1, <2>2, <2>3, <2>4 DEF IInv, Placed
  <2> QED BY <2>5 DEF TaskOnce, InReactor
<1>2. (IInv /\ Asleep) /\ [Next]_vars => (IInv /\ Asleep)'
  BY NextStep, SleepStep DEF IInv
<1> QED BY <1>1, <1>2, InitInv, PTL DEF Spec
-----------------------------------------------------------------------------
(* What a sequence without repetitions holds.                              *)
LEMMA HeldAppend ==
    ASSUME NEW S, NEW s \in Seq(S), NEW x \in S
    PROVE  /\ ToSet(Append(s, x)) = ToSet(s) \cup {x}
           /\ IsInjective(s) /\ x \notin ToSet(s) => IsInjective(Append(s, x))
<1> DEFINE n == Len(s)
           r == Append(s, x)
<1>1. /\ n \in Nat /\ DOMAIN s = 1 .. n /\ DOMAIN r = 1 .. n + 1 /\ r[n + 1] = x
      /\ \A i \in 1 .. n : r[i] = s[i]
  OBVIOUS
<1> HIDE DEF n, r
<1>2. /\ \A i \in 1 .. n + 1 : i \in 1 .. n \/ i = n + 1
      /\ n + 1 \in 1 .. n + 1 /\ \A i \in 1 .. n : i \in 1 .. n + 1
  BY <1>1
<1> QED BY <1>1, <1>2 DEF ToSet, IsInjective, r

LEMMA HeldConcat ==
    ASSUME NEW S, NEW s \in Seq(S), NEW q \in Seq(S)
    PROVE  /\ ToSet(s \o q) = ToSet(s) \cup ToSet(q)
           /\ IsInjective(s) /\ IsInjective(q) /\ ToSet(s) \cap ToSet(q) = {}
                => IsInjective(s \o q)
<1> DEFINE m == Len(s)
           n == Len(q)
           r == s \o q
<1>1. /\ m \in Nat /\ n \in Nat /\ DOMAIN s = 1 .. m /\ DOMAIN q = 1 .. n /\ DOMAIN r = 1 .. m + n
      /\ \A i \in 1 .. m : r[i] = s[i]
      /\ \A i \in m + 1 .. m + n : r[i] = q[i - m]
  OBVIOUS
<1> HIDE DEF m, n, r
<1>2. /\ \A i \in 1 .. m + n : i \in 1 .. m \/ (i \in m + 1 .. m + n /\ i - m \in 1 .. n)
      /\ \A i \in 1 .. m : i \in 1 .. m + n
      /\ \A i \in 1 .. n : i + m \in m + 1 .. m + n /\ i + m \in 1 .. m + n /\ (i + m) - m = i
      /\ \A i, j \in m + 1 .. m + n : i - m = j - m => i = j
  BY <1>1
<1>3. \A i \in 1 .. n : r[i + m] = q[i]
  BY <1>1, <1>2
<1>4. ToSet(r) = ToSet(s) \cup ToSet(q)
  <2>1. ASSUME NEW i \in 1 .. m + n PROVE r[i] \in ToSet(s) \cup ToSet(q)
    <3>1. CASE i \in 1 .. m
      BY <1>1, <3>1 DEF ToSet
    <3>2. CASE i \in m + 1 .. m + n /\ i - m \in 1 .. n
      <4>1. r[i] = q[i - m]
        BY <1>1, <3>2
      <4> QED BY <1>1, <3>2, <4>1 DEF ToSet
    <3> QED BY <1>2, <3>1, <3>2
  <2>2. ASSUME NEW i \in 1 .. m PROVE s[i] \in ToSet(r)
    BY <1>1, <1>2 DEF ToSet
  <2>3. ASSUME NEW i \in 1 .. n PROVE q[i] \in ToSet(r)
    BY <1>1, <1>2, <1>3 DEF ToSet
  <2> QED BY <1>1, <2>1, <2>2, <2>3, ZenonT(40) DEF ToSet
<1>5. ASSUME IsInjective(s), IsInjective(q), ToSet(s) \cap ToSet(q) = {} PROVE IsInjective(r)
  <2>1. \A i \in 1 .. m, j \in 1 .. n : s[i] # q[j]
    BY <1>1, <1>5 DEF ToSet
  <2> SUFFICES ASSUME NEW i \in 1 .. m + n, NEW j \in 1 .. m + n, r[i] = r[j] PROVE i = j
    BY <1>1 DEF IsInjective
  <2>2. CASE i \in 1 .. m /\ j \in 1 .. m
    BY <1>1, <1>5, <2>2 DEF IsInjective
  <2>3. CASE i \notin 1 .. m /\ j \notin 1 .. m
    <3>1. i \in m + 1 .. m + n /\ j \in m + 1 .. m + n /\ i - m \in 1 .. n /\ j - m \in 1 .. n
      BY <1>2, <2>3
    <3>2. q[i - m] = q[j - m]
      BY <1>1, <3>1
    <3>3. i - m = j - m
      BY <1>1, <1>5, <3>1, <3>2 DEF IsInjective
    <3> QED BY <1>2, <3>1, <3>3
  <2>4. (i \in 1 .. m) <=> (j \in 1 .. m)
    BY <1>1, <1>2, <2>1
  <2> QED BY <2>2, <2>3, <2>4
<1> QED BY <1>4, <1>5 DEF r

LEMMA HeldTail ==
    ASSUME NEW S, NEW s \in Seq(S), s # <<>>, IsInjective(s)
    PROVE  /\ Head(s) \in ToSet(s) /\ ToSet(Tail(s)) = ToSet(s) \ {Head(s)}
           /\ IsInjective(Tail(s))
<1> DEFINE n == Len(s)
           r == Tail(s)
<1>1. /\ n \in Nat \ {0} /\ DOMAIN s = 1 .. n /\ Head(s) = s[1] /\ 1 \in 1 .. n
      /\ r \in Seq(S) /\ Len(r) = n - 1
      /\ \A i \in 1 .. n - 1 : r[i] = s[i + 1] /\ i + 1 \in 1 .. n /\ i + 1 # 1
  OBVIOUS
<1>2. DOMAIN r = 1 .. n - 1
  <2> HIDE DEF n, r
  <2> QED BY <1>1
<1> HIDE DEF n, r
<1>3. \A i \in 1 .. n : i = 1 \/ (i - 1 \in 1 .. n - 1 /\ (i - 1) + 1 = i)
  BY <1>1
<1>4. \A i, j \in 1 .. n - 1 : i + 1 = j + 1 => i = j
  BY <1>1
<1>5. IsInjective(r)
  BY <1>1, <1>2, <1>4, SMTT(30) DEF IsInjective
<1>6. ASSUME NEW i \in 1 .. n - 1 PROVE r[i] \in ToSet(s) \ {Head(s)}
  <2>1. i + 1 \in 1 .. n /\ i + 1 # 1 /\ r[i] = s[i + 1]
    BY <1>1
  <2>2. s[i + 1] # s[1]
    BY <1>1, <2>1 DEF IsInjective
  <2> QED BY <1>1, <2>1, <2>2 DEF ToSet
<1>7. ASSUME NEW i \in 1 .. n, s[i] # Head(s) PROVE s[i] \in ToSet(r)
  <2>1. i - 1 \in 1 .. n - 1 /\ (i - 1) + 1 = i
    BY <1>1, <1>3, <1>7
  <2>2. r[i - 1] = s[i]
    BY <1>1, <2>1
  <2> QED BY <1>2, <2>1, <2>2 DEF ToSet
<1>8. ToSet(r) = ToSet(s) \ {Head(s)}
  <2>1. \A x \in ToSet(r) : x \in ToSet(s) \ {Head(s)}
    BY <1>2, <1>6 DEF ToSet
  <2>2. \A x \in ToSet(s) \ {Head(s)} : x \in ToSet(r)
    BY <1>1, <1>7 DEF ToSet
  <2> QED BY <2>1, <2>2
<1> QED BY <1>1, <1>5, <1>8 DEF ToSet, r

LEMMA HeldCount ==
    ASSUME NEW S, NEW s \in Seq(S), IsInjective(s)
    PROVE  IsFiniteSet(ToSet(s)) /\ Cardinality(ToSet(s)) = Len(s)
<1>1. Len(s) \in Nat /\ DOMAIN s = 1 .. Len(s) /\ s \in [1 .. Len(s) -> ToSet(s)]
  BY DEF ToSet
<1>2. s \in Bijection(1 .. Len(s), ToSet(s))
  BY <1>1 DEF Bijection, Injection, Surjection, IsInjective, ToSet
<1>3. ExistsBijection(1 .. Len(s), ToSet(s))
  BY <1>2 DEF ExistsBijection
<1> QED BY <1>1, <1>3, FS_CountingElements, FS_NatBijection

LEMMA HeldOrder ==
    ASSUME NEW S \in SUBSET Op, NEW s \in SetToSeqs(S)
    PROVE  ToSet(s) = S /\ IsInjective(s)
<1> DEFINE n == Cardinality(S)
<1>1. IsFiniteSet(S) /\ n \in Nat
  BY FS_Subset, FS_CardinalityType, IoServiceAssumption
<1>2. s \in [1 .. n -> S] /\ IsInjective(s)
  BY DEF SetToSeqs, IsInjective
<1>3. s \in Injection(1 .. n, S) /\ Cardinality(1 .. n) = n
  <2>1. Cardinality(1 .. n) = n
    BY <1>1, FS_Interval
  <2> HIDE DEF n
  <2> QED BY <1>2, <2>1 DEF Injection
<1>4. s \in Surjection(1 .. n, S)
  BY <1>1, <1>3, FS_Injection
<1>5. ToSet(s) = S
  <2> HIDE DEF n
  <2> QED BY <1>2, <1>4 DEF Surjection, ToSet
<1> QED BY <1>2, <1>5
-----------------------------------------------------------------------------
(* The same definitions, before and after a step, element by element.      *)
LEMMA Places ==
    /\ \A o : o \in Todo <=> o \in Shared \/ \E t \in Thread : o \in Own(t)
    /\ \A o : o \in Todo' <=> o \in Shared' \/ \E t \in Thread : o \in Own(t)'
    /\ IsInjective(queue)' = IsInjective(queue')
    /\ \A t \in Thread : IsInjective(priv[t])' = IsInjective(priv'[t]) /\ Own(t)' = ToSet(priv'[t])
    /\ Queued' = ToSet(queue') \ {Task}
<1>1. \A o : o \in Todo <=> o \in Shared \/ \E t \in Thread : o \in Own(t)
  BY DEF Todo, Private, Shared, Own
<1>2. \A o : o \in Todo' <=> o \in Shared' \/ \E t \in Thread : o \in Own(t)'
  BY DEF Todo, Private, Shared, Own
<1>3. IsInjective(queue)' = IsInjective(queue')
  BY DEF IsInjective
<1>4. ASSUME NEW t \in Thread
      PROVE  IsInjective(priv[t])' = IsInjective(priv'[t]) /\ Own(t)' = ToSet(priv'[t])
  BY DEF IsInjective, Own, ToSet
<1>5. Queued' = ToSet(queue') \ {Task}
  BY DEF Queued, ToSet
<1> QED BY <1>1, <1>2, <1>3, <1>4, <1>5

(* All of them are operations, so there are finitely many.                 *)
LEMMA OnlyOps ==
    ASSUME Typed, Distinct
    PROVE  /\ Queued \subseteq Op /\ \A t \in Thread : Own(t) \subseteq Op
           /\ Todo \subseteq Op /\ Running \subseteq Op
           /\ IsFiniteSet(Todo \cup Running) /\ IsFiniteSet(Paid) /\ Cardinality(Paid) \in Nat
<1>1. Queued \subseteq Op
  <2>1. \A i \in DOMAIN queue : queue[i] \in Item
    BY DEF Typed
  <2> QED BY <2>1 DEF Queued, ToSet, Item
<1>2. ASSUME NEW t \in Thread PROVE Own(t) \subseteq Op
  <2>1. priv[t] \in Seq(Op)
    BY DEF Typed
  <2>2. \A i \in DOMAIN priv[t] : priv[t][i] \in Op
    BY <2>1
  <2> QED BY <2>2 DEF Own, ToSet
<1>3. Todo \subseteq Op
  BY <1>1, <1>2, Places DEF Shared, Typed
<1>4. Running \subseteq Op
  BY DEF Running, Distinct, Handler
<1>5. Todo \cup Running \in SUBSET Op /\ Paid \in SUBSET Op
  BY <1>3, <1>4 DEF Paid
<1> QED BY <1>1, <1>2, <1>3, <1>4, <1>5, FS_Subset, FS_CardinalityType, IoServiceAssumption

(* Steps between handlers, or inside one, that count and run nothing new.  *)
LEMMA Same ==
    ASSUME Distinct, Todo' = Todo, Handler' = Handler, UNCHANGED cur,
           \A t \in Handler : priv'[t] = priv[t]
    PROVE  Distinct' /\ Running' = Running /\ Paid' = Paid
<1>1. Distinct'
  BY DEF Distinct
<1>2. Running' = Running
  BY DEF Running, Handler
<1>3. Unpaid' = Unpaid
  <2>1. \A t \in Handler : Own(t)' = Own(t)
    BY DEF Own, ToSet
  <2> QED BY <2>1 DEF Unpaid
<1> QED BY <1>1, <1>2, <1>3 DEF Paid

LEMMA SameAccounts ==
    ASSUME Accounts, Paid' = Paid, Handler' = Handler, UNCHANGED <<work, held, privWork>>,
           \A t \in Handler : priv'[t] = priv[t],
           \A t \in Thread :
               pc'[t] \notin {"handler", "last", "flush", "reinsert"} => priv'[t] = <<>>
    PROVE  Accounts'
<1>1. work' = Cardinality(Paid') + (IF held' THEN 1 ELSE 0)
  BY DEF Accounts
<1>2. ASSUME NEW t \in Thread PROVE privWork'[t] = IF t \in Handler' THEN Len(priv'[t]) ELSE 0
  BY DEF Accounts
<1> QED BY <1>1, <1>2 DEF Accounts

(* A thread that goes to l, and the threads that run a handler.            *)
LEMMA HandlerMoves ==
    ASSUME Typed, NEW t \in Thread \cup {Owner}, NEW l \in Place, Goto(t, l)
    PROVE  /\ pc' = [pc EXCEPT ![t] = l] /\ pc \in [Thread \cup {Owner} -> Place]
           /\ \A u \in Thread : pc'[u] = IF u = t THEN l ELSE pc[u]
           /\ (t \notin Handler /\ l # "handler") => Handler' = Handler
           /\ (t \in Thread /\ l = "handler") => Handler' = Handler \cup {t}
           /\ (l # "handler") => Handler' = Handler \ {t}
<1>1. pc \in [Thread \cup {Owner} -> Place] /\ pc' = [pc EXCEPT ![t] = l]
  BY DEF Typed, Goto
<1>2. \A u \in Thread : pc'[u] = IF u = t THEN l ELSE pc[u]
  BY <1>1
<1> QED BY <1>1, <1>2 DEF Handler
-----------------------------------------------------------------------------
(* Steps that leave the operations where they are; the task may come and   *)
(* go in the queue.                                                        *)
LEMMA OpsStay ==
    ASSUME Apart, UNCHANGED <<priv, counted, ready>>, Queued' = Queued, IsInjective(queue')
    PROVE  Apart' /\ Todo' = Todo
<1>1. Shared' = Shared /\ \A t \in Thread : Own(t)' = Own(t)
  BY DEF Shared, Own, ToSet
<1>2. Todo' = Todo
  BY <1>1, Places
<1>3. IsInjective(queue)' /\ \A t \in Thread : IsInjective(priv[t])'
  BY Places DEF Apart
<1>4. Apart'
  BY <1>1, <1>3 DEF Apart
<1> QED BY <1>2, <1>4

LEMMA TaskComes ==
    ASSUME Typed, Apart, NoTask(queue), queue' = Append(queue, Task)
    PROVE  Queued' = Queued /\ IsInjective(queue')
<1>1. queue \in Seq(Item) /\ Task \in Item
  BY DEF Typed, Item
<1>2. Task \notin ToSet(queue)
  <2>1. DOMAIN queue = 1 .. Len(queue)
    BY <1>1
  <2> QED BY <2>1 DEF NoTask, ToSet
<1> QED BY <1>1, <1>2, HeldAppend, Places DEF Apart, Queued

LEMMA TaskGoes ==
    ASSUME Typed, Apart, queue # <<>>, Head(queue) = Task, queue' = Tail(queue)
    PROVE  Queued' = Queued /\ IsInjective(queue')
<1>1. queue \in Seq(Item)
  BY DEF Typed
<1> QED BY <1>1, HeldTail, Places DEF Apart, Queued

(* Steps that take operations from one place to the next.                  *)
LEMMA PushMoves == ASSUME Typed, Apart, NEW o \in Op, Push(o) PROVE Apart' /\ Todo' = Todo
<1>1. /\ o \in counted /\ counted' = counted \ {o} /\ queue' = Append(queue, o)
      /\ UNCHANGED <<priv, ready>> /\ queue \in Seq(Item) /\ o \in Item /\ o # Task
  BY IoServiceAssumption DEF Push, Typed, Item
<1>2. o \notin ToSet(queue)
  BY <1>1 DEF Apart, Queued
<1>3. IsInjective(queue') /\ Queued' = Queued \cup {o}
  BY <1>1, <1>2, HeldAppend, Places DEF Apart, Queued
<1>4. \A t \in Thread : Own(t)' = Own(t)
  BY <1>1, Places DEF Own
<1>5. Shared' = Shared
  BY <1>1, <1>3 DEF Shared
<1>6. Todo' = Todo
  BY <1>4, <1>5, Places
<1>7. IsInjective(queue)' /\ \A t \in Thread : IsInjective(priv[t])'
  BY <1>1, <1>3, Places DEF Apart
<1>8. Apart'
  BY <1>1, <1>3, <1>4, <1>5, <1>7 DEF Apart
<1> QED BY <1>6, <1>8

LEMMA ReadyMoves == ASSUME Typed, Apart, NEW o \in Op, Ready(o) PROVE Apart' /\ Todo' = Todo
<1>1. /\ o \in counted /\ counted' = counted \ {o} /\ ready' = ready \cup {o}
      /\ UNCHANGED <<queue, priv>>
  BY DEF Ready
<1>2. Queued' = Queued /\ \A t \in Thread : Own(t)' = Own(t)
  BY <1>1, Places DEF Queued, Own
<1>3. Shared' = Shared
  BY <1>1, <1>2 DEF Shared
<1>4. Todo' = Todo
  BY <1>2, <1>3, Places
<1>5. IsInjective(queue)' /\ \A t \in Thread : IsInjective(priv[t])'
  BY <1>1, Places DEF Apart
<1>6. Apart'
  BY <1>1, <1>2, <1>3, <1>5 DEF Apart
<1> QED BY <1>4, <1>6

LEMMA RunTaskMoves ==
    ASSUME Typed, Apart, NEW t \in Thread, priv[t] = <<>>, RunTask(t)
    PROVE  Apart' /\ Todo' = Todo
<1>1. /\ ready' = {} /\ UNCHANGED <<queue, counted>> /\ ready \in SUBSET Op
      /\ priv \in [Thread -> Seq(Op)]
  BY DEF RunTask, Typed
<1>2. PICK s \in SetToSeqs(ready) : priv' = [priv EXCEPT ![t] = s]
  BY DEF RunTask
<1>3. ToSet(s) = ready /\ IsInjective(s)
  BY <1>1, HeldOrder
<1>4. Queued' = Queued /\ IsInjective(queue')
  BY <1>1, Places DEF Queued, Apart
<1>5. Own(t) = {}
  BY DEF Own, ToSet
<1>6. \A u \in Thread : Own(u)' = IF u = t THEN ready ELSE Own(u)
  BY <1>1, <1>2, <1>3, Places DEF Own
<1>7. Shared = Shared' \cup ready /\ Shared' \cap ready = {}
  BY <1>1, <1>4 DEF Shared, Apart
<1>8. Todo' = Todo
  <2>1. \A o \in Todo : o \in Todo'
    BY <1>5, <1>6, <1>7, Places
  <2>2. \A o \in Todo' : o \in Todo
    BY <1>6, <1>7, Places
  <2> QED BY <2>1, <2>2
<1>9. IsInjective(queue)' /\ \A u \in Thread : IsInjective(priv[u])'
  BY <1>1, <1>2, <1>3, <1>4, Places DEF Apart
<1>10. Apart'
  <2>1. \A u \in Thread : Own(u)' \cap Shared' = {}
    BY <1>6, <1>7 DEF Apart
  <2>2. \A u, v \in Thread : u # v => Own(u)' \cap Own(v)' = {}
    BY <1>6, <1>7 DEF Apart
  <2>3. (counted' \cup ready') \cap Queued' = {} /\ counted' \cap ready' = {}
    BY <1>1, <1>4 DEF Apart
  <2> QED BY <1>9, <2>1, <2>2, <2>3 DEF Apart
<1> QED BY <1>8, <1>10

(* A thread's own queue goes behind the shared one.                        *)
LEMMA OwnMoves ==
    ASSUME Typed, Apart, NEW t \in Thread, priv' = [priv EXCEPT ![t] = <<>>],
           UNCHANGED <<counted, ready>>, IsInjective(queue'), Queued' = Queued \cup Own(t)
    PROVE  Apart' /\ Todo' = Todo
<1>1. priv \in [Thread -> Seq(Op)] /\ ToSet(<<>>) = {} /\ IsInjective(<<>>)
  BY DEF Typed, ToSet, IsInjective
<1>2. \A u \in Thread : Own(u)' = IF u = t THEN {} ELSE Own(u)
  BY <1>1, Places DEF Own
<1>3. Shared' = Shared \cup Own(t)
  BY DEF Shared
<1>4. Todo' = Todo
  <2>1. \A o \in Todo : o \in Todo'
    BY <1>2, <1>3, Places
  <2>2. \A o \in Todo' : o \in Todo
    BY <1>2, <1>3, Places
  <2> QED BY <2>1, <2>2
<1>5. IsInjective(queue)' /\ \A u \in Thread : IsInjective(priv[u])'
  BY <1>1, Places DEF Apart
<1>6. (counted' \cup ready') \cap Queued' = {}
  BY DEF Apart, Shared
<1>7. \A u \in Thread : Own(u)' \cap Shared' = {}
  BY <1>2, <1>3 DEF Apart
<1>8. \A u, v \in Thread : u # v => Own(u)' \cap Own(v)' = {}
  BY <1>2 DEF Apart
<1>9. Apart'
  BY <1>5, <1>6, <1>7, <1>8 DEF Apart
<1> QED BY <1>4, <1>9

LEMMA OwnBehind ==
    ASSUME Typed, Apart, NEW t \in Thread
    PROVE  /\ ToSet(queue \o priv[t]) = ToSet(queue) \cup Own(t)
           /\ IsInjective(queue \o priv[t]) /\ Task \notin Own(t)
<1>1. queue \in Seq(Item) /\ priv[t] \in Seq(Op)
  BY DEF Typed
<1>2. priv[t] \in Seq(Item) /\ Task \notin ToSet(priv[t])
  <2>1. priv[t] \in Seq(Item)
    BY <1>1, SeqMonotonic DEF Item
  <2>2. \A i \in DOMAIN priv[t] : priv[t][i] \in Op
    BY <1>1
  <2> QED BY <2>1, <2>2, IoServiceAssumption DEF ToSet
<1>3. ToSet(queue) \cap ToSet(priv[t]) = {}
  BY <1>2 DEF Apart, Shared, Queued, Own
<1> QED BY <1>1, <1>2, <1>3, HeldConcat DEF Apart, Own

LEMMA FlushMoves == ASSUME Typed, Apart, NEW t \in Thread, Flush(t) PROVE Apart' /\ Todo' = Todo
<1>1. /\ queue' = queue \o priv[t] /\ priv' = [priv EXCEPT ![t] = <<>>]
      /\ UNCHANGED <<counted, ready>>
  BY DEF Flush, ops
<1>2. IsInjective(queue') /\ Queued' = Queued \cup Own(t)
  BY <1>1, OwnBehind, Places DEF Queued
<1> QED BY <1>1, <1>2, OwnMoves

LEMMA CleanUpMoves ==
    ASSUME Typed, Apart, NoTask(queue), NEW t \in Thread, CleanUpTask(t)
    PROVE  Apart' /\ Todo' = Todo
<1> DEFINE b == queue \o priv[t]
<1>1. /\ queue \in Seq(Item) /\ priv[t] \in Seq(Op) /\ Task \in Item
      /\ queue' = queue \o Append(priv[t], Task) /\ priv' = [priv EXCEPT ![t] = <<>>]
      /\ UNCHANGED <<counted, ready>>
  BY DEF Typed, Item, CleanUpTask, ops
<1>2. queue' = Append(b, Task) /\ b \in Seq(Item)
  <2>1. priv[t] \in Seq(Item)
    BY <1>1, SeqMonotonic DEF Item
  <2> QED BY <1>1, <2>1
<1>3. ToSet(b) = ToSet(queue) \cup Own(t) /\ IsInjective(b) /\ Task \notin Own(t)
  BY OwnBehind
<1> HIDE DEF b
<1>4. Task \notin ToSet(queue)
  <2>1. DOMAIN queue = 1 .. Len(queue)
    BY <1>1
  <2> QED BY <2>1 DEF NoTask, ToSet
<1>5. ToSet(queue') = ToSet(b) \cup {Task} /\ IsInjective(queue')
  BY <1>1, <1>2, <1>3, <1>4, HeldAppend
<1>6. Queued' = Queued \cup Own(t)
  BY <1>3, <1>5, Places DEF Queued
<1> QED BY <1>1, <1>5, <1>6, OwnMoves
-----------------------------------------------------------------------------
(* What handlers run and what they have posted.                            *)
LEMMA Handled ==
    /\ \A o : o \in Running <=> \E t \in Handler : o = cur[t]
    /\ \A o : o \in Running' <=> \E t \in Handler' : o = cur'[t]
    /\ \A o : o \in Unpaid <=> \E t \in Handler : o \in Own(t)
    /\ \A o : o \in Unpaid' <=> \E t \in Handler' : o \in Own(t)'
    /\ Unpaid \subseteq Todo /\ Handler \subseteq Thread /\ Handler' \subseteq Thread
<1>1. /\ \A o : o \in Running <=> \E t \in Handler : o = cur[t]
      /\ \A o : o \in Running' <=> \E t \in Handler' : o = cur'[t]
  BY DEF Running, Handler
<1>2. /\ \A o : o \in Unpaid <=> \E t \in Handler : o \in Own(t)
      /\ \A o : o \in Unpaid' <=> \E t \in Handler' : o \in Own(t)'
  BY DEF Unpaid
<1>3. Handler \subseteq Thread /\ Handler' \subseteq Thread
  BY DEF Handler
<1> QED BY <1>1, <1>2, <1>3, Places

(* A new operation, counted at once ...                                    *)
LEMMA StartMoves ==
    ASSUME Typed, Apart, Distinct, Accounts, NEW o \in Op, Start(o)
    PROVE  Apart' /\ Distinct' /\ Accounts' /\ Todo' = Todo \cup {o} /\ Running' = Running
<1>1. /\ counted' = counted \cup {o} /\ work' = work + 1
      /\ UNCHANGED <<queue, pc, cur, priv, privWork, ready, held>>
  BY DEF Start, owner
<1>2. o \notin Todo /\ o \notin Running
  BY DEF Start, Fresh
<1>3. /\ Queued' = Queued /\ \A t \in Thread : Own(t)' = Own(t)
      /\ Handler' = Handler
  BY <1>1, Places DEF Queued, Own, Handler
<1>4. Shared' = Shared \cup {o}
  BY <1>1, <1>3 DEF Shared
<1>5. Todo' = Todo \cup {o}
  <2>1. \A x \in Todo' : x \in Todo \cup {o}
    BY <1>3, <1>4, Places
  <2>2. \A x \in Todo \cup {o} : x \in Todo'
    BY <1>3, <1>4, Places
  <2> QED BY <2>1, <2>2
<1>6. Apart'
  <2>1. IsInjective(queue)' /\ \A t \in Thread : IsInjective(priv[t])'
    BY <1>1, Places DEF Apart
  <2>2. o \notin Shared /\ \A t \in Thread : o \notin Own(t)
    BY <1>2, Places
  <2>3. counted' \cap ready' = {} /\ (counted' \cup ready') \cap Queued' = {}
    BY <1>1, <1>3, <2>2 DEF Apart, Shared
  <2> QED BY <1>3, <1>4, <2>1, <2>2, <2>3 DEF Apart
<1>7. Running' = Running /\ Distinct'
  <2>1. \A t \in Handler : cur[t] # o
    BY <1>2, Handled
  <2> QED BY <1>1, <1>3, <1>5, <2>1 DEF Distinct, Running, Handler
<1>8. Paid' = Paid \cup {o} /\ o \notin Paid
  <2>1. Unpaid' = Unpaid
    BY <1>3, Handled DEF Unpaid
  <2>2. o \notin Unpaid
    BY <1>2, Handled
  <2> QED BY <1>2, <1>5, <1>7, <2>1, <2>2 DEF Paid
<1>9. Cardinality(Paid') = Cardinality(Paid) + 1
  <2>1. IsFiniteSet(Paid)
    BY OnlyOps
  <2> QED BY <1>8, <2>1, FS_AddElement
<1>10. work' = Cardinality(Paid') + IF held' THEN 1 ELSE 0
  <2>1. Cardinality(Paid) \in Nat
    BY OnlyOps
  <2> QED BY <1>1, <1>9, <2>1 DEF Accounts
<1>11. Accounts'
  BY <1>1, <1>3, <1>10 DEF Accounts
<1> QED BY <1>5, <1>6, <1>7, <1>11

(* ... or first in the queue of the handler that posts it.                 *)
LEMMA ContinueMoves ==
    ASSUME Typed, Rest, Apart, Distinct, Accounts, NEW t \in Thread, NEW o \in Op, Continue(t, o)
    PROVE  Apart' /\ Distinct' /\ Accounts' /\ Todo' = Todo \cup {o} /\ Running' = Running
<1>1. /\ t \in Handler /\ priv' = [priv EXCEPT ![t] = Append(priv[t], o)]
      /\ privWork' = [privWork EXCEPT ![t] = privWork[t] + 1]
      /\ UNCHANGED <<queue, work, pc, cur, counted, ready, held>>
      /\ priv \in [Thread -> Seq(Op)] /\ privWork \in [Thread -> Nat]
  BY DEF Continue, owner, ops, Handler, Typed, Rest
<1>2. o \notin Todo /\ o \notin Running
  BY DEF Continue, Fresh
<1>3. o \notin Shared /\ \A u \in Thread : o \notin Own(u)
  BY <1>2, Places
<1>4. /\ ToSet(Append(priv[t], o)) = Own(t) \cup {o} /\ IsInjective(Append(priv[t], o))
      /\ Len(Append(priv[t], o)) = Len(priv[t]) + 1
  <2>1. priv[t] \in Seq(Op) /\ IsInjective(priv[t]) /\ o \notin ToSet(priv[t])
    BY <1>1, <1>3 DEF Apart, Own
  <2> QED BY <2>1, HeldAppend DEF Own
<1>5. \A u \in Thread : Own(u)' = IF u = t THEN Own(t) \cup {o} ELSE Own(u)
  BY <1>1, <1>4, Places DEF Own
<1>6. Shared' = Shared /\ Queued' = Queued /\ Handler' = Handler
  BY <1>1 DEF Shared, Queued, ToSet, Handler
<1>7. Todo' = Todo \cup {o}
  <2>1. \A x \in Todo' : x \in Todo \cup {o}
    BY <1>5, <1>6, Places
  <2>2. \A x \in Todo \cup {o} : x \in Todo'
    BY <1>5, <1>6, Places
  <2> QED BY <2>1, <2>2
<1>8. Apart'
  <2>1. IsInjective(queue)' /\ \A u \in Thread : IsInjective(priv[u])'
    BY <1>1, <1>4, Places DEF Apart
  <2>2. \A u \in Thread : Own(u)' \cap Shared' = {}
    BY <1>3, <1>5, <1>6 DEF Apart
  <2>3. \A u, v \in Thread : u # v => Own(u)' \cap Own(v)' = {}
    BY <1>3, <1>5 DEF Apart
  <2> QED BY <1>1, <1>6, <2>1, <2>2, <2>3 DEF Apart
<1>9. Running' = Running /\ Distinct'
  <2>1. \A u \in Handler : cur[u] # o
    BY <1>2, Handled
  <2> QED BY <1>1, <1>6, <1>7, <2>1 DEF Distinct, Running, Handler
<1>10. Paid' = Paid
  <2>1. Unpaid' = Unpaid \cup {o}
    <3>1. \A x \in Unpaid' : x \in Unpaid \cup {o}
      BY <1>5, <1>6, Handled
    <3>2. \A x \in Unpaid \cup {o} : x \in Unpaid'
      BY <1>1, <1>5, <1>6, Handled
    <3> QED BY <3>1, <3>2
  <2> QED BY <1>2, <1>7, <1>9, <2>1 DEF Paid
<1>11. \A u \in Thread : privWork'[u] = IF u \in Handler' THEN Len(priv'[u]) ELSE 0
  <2> SUFFICES ASSUME NEW u \in Thread
               PROVE  privWork'[u] = IF u \in Handler' THEN Len(priv'[u]) ELSE 0
    OBVIOUS
  <2>1. CASE u # t
    BY <1>1, <1>6, <2>1 DEF Accounts
  <2>2. CASE u = t
    <3>1. privWork[t] = Len(priv[t])
      BY <1>1 DEF Accounts
    <3> QED BY <1>1, <1>4, <1>6, <2>2, <3>1
  <2> QED BY <2>1, <2>2
<1>12. Accounts'
  BY <1>1, <1>10, <1>11 DEF Accounts, Handler
<1> QED BY <1>7, <1>8, <1>9, <1>12
(* An operation leaves the queue and is run ...                            *)
LEMMA TakeOpMoves ==
    ASSUME Typed, Rest, Apart, Distinct, Accounts, NEW t \in Thread, TakeOp(t)
    PROVE  /\ Apart' /\ Distinct' /\ Accounts'
           /\ Head(queue) \in Todo \cap Op
           /\ Todo' = Todo \ {Head(queue)} /\ Running' = Running \cup {Head(queue)}
<1> DEFINE o == Head(queue)
<1>1. /\ queue # <<>> /\ o # Task /\ queue' = Tail(queue) /\ cur' = [cur EXCEPT ![t] = o]
      /\ Goto(t, "handler") /\ pc[t] \in {"loop", "polled"}
      /\ UNCHANGED <<work, priv, privWork, counted, ready, held>>
      /\ queue \in Seq(Item) /\ cur \in [Thread -> Op \cup {Nobody}]
      /\ "handler" \in Place
  BY DEF TakeOp, owner, ops, Typed, Rest, Place
<1>2. /\ o \in ToSet(queue) /\ o \in Op /\ ToSet(queue') = ToSet(queue) \ {o}
      /\ IsInjective(queue')
  <2>1. o \in Item
    BY <1>1
  <2> QED BY <1>1, <2>1, HeldTail DEF Apart, Item
<1>3. Handler' = Handler \cup {t} /\ t \notin Handler
  BY <1>1, HandlerMoves DEF Handler
<1>4. priv[t] = <<>> /\ privWork[t] = 0
  BY <1>1, <1>3 DEF Accounts
<1> HIDE DEF o
<1>5. Queued' = Queued \ {o} /\ o \in Queued /\ \A u \in Thread : Own(u)' = Own(u)
  BY <1>1, <1>2, Places DEF Queued, Own
<1>6. Shared' = Shared \ {o} /\ o \in Shared
  BY <1>1, <1>5 DEF Shared, Apart
<1>7. \A u \in Thread : o \notin Own(u)
  BY <1>6 DEF Apart
<1>8. Todo' = Todo \ {o} /\ o \in Todo
  <2>1. \A x \in Todo' : x \in Todo \ {o}
    BY <1>5, <1>6, <1>7, Places
  <2>2. \A x \in Todo \ {o} : x \in Todo'
    BY <1>5, <1>6, Places
  <2> QED BY <1>6, <2>1, <2>2, Places
<1>9. Apart'
  <2>1. IsInjective(queue)' /\ \A u \in Thread : IsInjective(priv[u])'
    BY <1>1, <1>2, Places DEF Apart
  <2> QED BY <1>1, <1>5, <1>6, <2>1 DEF Apart
<1>10. \A u \in Thread : cur'[u] = IF u = t THEN o ELSE cur[u]
  BY <1>1
<1>11. Running' = Running \cup {o}
  <2>1. \A x \in Running' : x \in Running \cup {o}
    BY <1>3, <1>10, Handled
  <2>2. \A x \in Running \cup {o} : x \in Running'
    BY <1>3, <1>10, Handled
  <2> QED BY <2>1, <2>2
<1>12. Distinct'
  <2>1. \A u \in Handler : cur[u] # o
    BY <1>8 DEF Distinct
  <2>2. \A u \in Handler' : cur'[u] \in Op /\ cur'[u] \notin Todo'
    BY <1>2, <1>3, <1>8, <1>10, Handled DEF Distinct
  <2>3. \A u, v \in Handler' : cur'[u] = cur'[v] => u = v
    BY <1>3, <1>10, <2>1, Handled DEF Distinct
  <2> QED BY <2>2, <2>3 DEF Distinct
<1>13. Paid' = Paid
  <2>1. Own(t) = {}
    BY <1>4 DEF Own, ToSet
  <2>2. Unpaid' = Unpaid
    <3>1. \A x \in Unpaid' : x \in Unpaid
      BY <1>3, <1>5, <2>1, Handled
    <3>2. \A x \in Unpaid : x \in Unpaid'
      BY <1>3, <1>5, Handled
    <3> QED BY <3>1, <3>2
  <2>3. o \notin Unpaid
    BY <1>7, Handled
  <2> QED BY <1>8, <1>11, <2>2, <2>3 DEF Paid
<1>14. Accounts'
  <2>1. \A u \in Thread : privWork'[u] = IF u \in Handler' THEN Len(priv'[u]) ELSE 0
    BY <1>1, <1>3, <1>4 DEF Accounts
  <2>2. \A u \in Thread :
            pc'[u] \notin {"handler", "last", "flush", "reinsert"} => priv'[u] = <<>>
    BY <1>1, HandlerMoves DEF Accounts
  <2> QED BY <1>1, <1>13, <2>1, <2>2 DEF Accounts
<1> QED BY <1>2, <1>8, <1>9, <1>11, <1>12, <1>14 DEF o

(* ... and what its handler has posted is added as it is taken off.        *)
LEMMA FinishMoves ==
    ASSUME Typed, Rest, Apart, Distinct, Accounts, NEW t \in Thread, Finish(t)
    PROVE  /\ Apart' /\ Distinct' /\ Accounts'
           /\ cur[t] \in Running \cap Op /\ Todo' = Todo /\ Running' = Running \ {cur[t]}
<1> DEFINE l == IF work' = 0 THEN "last" ELSE "flush"
<1>1. /\ t \in Handler /\ work' = work + privWork[t] - 1 /\ Goto(t, l)
      /\ privWork' = [privWork EXCEPT ![t] = 0] /\ cur' = [cur EXCEPT ![t] = Nobody]
      /\ UNCHANGED <<queue, priv, counted, ready, held>>
      /\ cur \in [Thread -> Op \cup {Nobody}] /\ privWork \in [Thread -> Nat]
  BY DEF Finish, owner, Typed, Rest, Handler
<1>2. l \in Place /\ l \in {"last", "flush"}
  BY DEF Place
<1> HIDE DEF l
<1>3. Handler' = Handler \ {t}
  BY <1>1, <1>2, HandlerMoves
<1>4. Shared' = Shared /\ Queued' = Queued /\ \A u \in Thread : Own(u)' = Own(u)
  BY <1>1 DEF Shared, Queued, Own, ToSet
<1>5. Todo' = Todo
  <2>1. \A x \in Todo' : x \in Todo
    BY <1>4, Places
  <2>2. \A x \in Todo : x \in Todo'
    BY <1>4, Places
  <2> QED BY <2>1, <2>2
<1>6. Apart'
  <2>1. IsInjective(queue)' /\ \A u \in Thread : IsInjective(priv[u])'
    BY <1>1, Places DEF Apart
  <2> QED BY <1>1, <1>4, <2>1 DEF Apart
<1>7. \A u \in Handler' : u \in Handler /\ u # t /\ cur'[u] = cur[u]
  BY <1>1, <1>3, Handled
<1>8. Running' = Running \ {cur[t]} /\ cur[t] \in Running /\ cur[t] \in Op
  <2>1. \A x \in Running' : x \in Running \ {cur[t]}
    BY <1>1, <1>7, Handled DEF Distinct
  <2>2. \A x \in Running \ {cur[t]} : x \in Running'
    BY <1>3, <1>7, Handled
  <2>3. cur[t] \in Running /\ cur[t] \in Op
    BY <1>1, Handled DEF Distinct
  <2> QED BY <2>1, <2>2, <2>3
<1>9. Distinct'
  BY <1>5, <1>7 DEF Distinct
<1>10. Own(t) \subseteq Todo /\ cur[t] \notin Todo
  BY <1>1, Places DEF Distinct, Handler
<1>11. Own(t) \subseteq Unpaid /\ Unpaid' = Unpaid \ Own(t)
  <2>1. \A x \in Unpaid' : x \in Unpaid \ Own(t)
    BY <1>4, <1>7, Handled DEF Apart
  <2>2. \A x \in Unpaid \ Own(t) : x \in Unpaid'
    BY <1>3, <1>4, Handled
  <2> QED BY <1>1, <2>1, <2>2, Handled
<1>12. /\ Paid' = (Paid \ {cur[t]}) \cup Own(t) /\ cur[t] \in Paid
       /\ (Paid \ {cur[t]}) \cap Own(t) = {}
  <2>1. cur[t] \in Paid
    BY <1>8, <1>10, Handled DEF Paid
  <2>2. Paid \cap Own(t) = {}
    BY <1>11 DEF Paid
  <2>3. Paid' = (Paid \ {cur[t]}) \cup Own(t)
    BY <1>5, <1>8, <1>10, <1>11, Handled DEF Paid
  <2> QED BY <2>1, <2>2, <2>3
<1>13. Cardinality(Paid') = Cardinality(Paid) - 1 + privWork[t] /\ Cardinality(Paid) \in Nat
  <2> DEFINE P == Paid \ {cur[t]}
  <2>1. IsFiniteSet(Paid) /\ Cardinality(Paid) \in Nat
    BY OnlyOps
  <2>2. IsFiniteSet(P) /\ Cardinality(P) = Cardinality(Paid) - 1
    BY <1>12, <2>1, FS_RemoveElement
  <2>3. IsFiniteSet(Own(t)) /\ Cardinality(Own(t)) = privWork[t]
    <3>1. priv[t] \in Seq(Op) /\ IsInjective(priv[t]) /\ privWork[t] = Len(priv[t])
      BY <1>1 DEF Typed, Apart, Accounts
    <3> QED BY <3>1, HeldCount DEF Own
  <2>4. Cardinality(P \cap Own(t)) = 0
    BY <1>12, FS_EmptySet
  <2> HIDE DEF P
  <2>5. Cardinality(P \cup Own(t)) = Cardinality(P) + Cardinality(Own(t)) - 0
    BY <2>2, <2>3, <2>4, FS_Union
  <2>6. privWork[t] \in Nat
    BY <1>1
  <2> QED BY <1>12, <2>1, <2>2, <2>3, <2>5, <2>6 DEF P
<1>14. work' = Cardinality(Paid') + IF held' THEN 1 ELSE 0
  <2> DEFINE c == Cardinality(Paid)
             d == Cardinality(Paid')
             h == IF held THEN 1 ELSE 0
  <2>1. privWork[t] \in Nat /\ c \in Nat /\ h \in Nat /\ d = c - 1 + privWork[t]
    BY <1>1, <1>13
  <2>2. work = c + h /\ work' = work + privWork[t] - 1
    BY <1>1 DEF Accounts
  <2>3. h = IF held' THEN 1 ELSE 0
    BY <1>1
  <2> HIDE DEF c, d, h
  <2>4. work' = d + h
    BY <2>1, <2>2
  <2> QED BY <2>3, <2>4 DEF d
<1>15. \A u \in Thread : privWork'[u] = IF u \in Handler' THEN Len(priv'[u]) ELSE 0
  BY <1>1, <1>3 DEF Accounts
<1>16. \A u \in Thread :
           pc'[u] \notin {"handler", "last", "flush", "reinsert"} => priv'[u] = <<>>
  BY <1>1, <1>2, HandlerMoves DEF Accounts
<1>17. Accounts'
  BY <1>14, <1>15, <1>16 DEF Accounts
<1> QED BY <1>5, <1>6, <1>8, <1>9, <1>17
-----------------------------------------------------------------------------
(* Every other step leaves the operations and the accounts as they are.    *)
Kept == Apart' /\ Distinct' /\ Accounts' /\ Todo' = Todo /\ Running' = Running

LEMMA ThreadKeeps ==
    ASSUME Typed, Asleep, Apart, Distinct, Accounts, NEW t \in Thread,
           Enter(t) \/ Acquire(t) \/ Return(t) \/ Wait(t) \/ Wake(t) \/ TakeTask(t)
               \/ PolledNothing(t) \/ Stop(t)
    PROVE  Kept
<1>1. UNCHANGED <<work, priv, privWork, counted, ready, cur, held>>
  BY DEF Enter, Acquire, Return, Wait, Wake, TakeTask, PolledNothing, Stop, ops, owner
<1>2. Queued' = Queued /\ IsInjective(queue')
  <2>1. CASE TakeTask(t)
    BY <2>1, TaskGoes DEF TakeTask
  <2>2. CASE UNCHANGED queue
    BY <2>2, Places DEF Queued, Apart
  <2> QED BY <2>1, <2>2 DEF Enter, Acquire, Return, Wait, Wake, PolledNothing, Stop
<1>3. Apart' /\ Todo' = Todo
  BY <1>1, <1>2, OpsStay
<1>4. /\ pc[t] # "handler"
      /\ UNCHANGED pc \/ \E l \in Place \ {"handler"} :
            Goto(t, l) /\ (l = "flush" \/ pc[t] \notin {"last", "flush", "reinsert"})
  BY DEF Enter, Acquire, Return, Wait, Wake, TakeTask, PolledNothing, Stop, Asleep, Place
<1>5. /\ Handler' = Handler
      /\ \A u \in Thread :
            pc'[u] \notin {"handler", "last", "flush", "reinsert"} => priv'[u] = <<>>
  <2>1. CASE UNCHANGED pc
    BY <1>1, <2>1 DEF Handler, Accounts
  <2>2. ASSUME NEW l \in Place \ {"handler"}, Goto(t, l),
               l = "flush" \/ pc[t] \notin {"last", "flush", "reinsert"}
        PROVE  /\ Handler' = Handler
               /\ \A u \in Thread :
                     pc'[u] \notin {"handler", "last", "flush", "reinsert"} => priv'[u] = <<>>
    BY <1>1, <1>4, <2>2, HandlerMoves DEF Handler, Accounts
  <2> QED BY <1>4, <2>1, <2>2
<1>6. \A u \in Handler : priv'[u] = priv[u]
  BY <1>1
<1>7. Distinct' /\ Running' = Running /\ Paid' = Paid
  BY <1>1, <1>3, <1>5, <1>6, Same
<1>8. Accounts'
  BY <1>1, <1>5, <1>6, <1>7, SameAccounts
<1> QED BY <1>3, <1>7, <1>8 DEF Kept

LEMMA ReactorKeeps ==
    ASSUME IInv, Apart, Distinct, Accounts, NEW t \in Thread,
           RunTask(t) \/ CleanUpTask(t) \/ Flush(t)
    PROVE  Kept
<1>0. Typed /\ priv \in [Thread -> Seq(Op)]
  BY DEF IInv, Typed
<1>1. UNCHANGED <<work, privWork, cur, held>>
  BY DEF RunTask, CleanUpTask, Flush, ops, owner
<1>2. Apart' /\ Todo' = Todo
  <2>1. CASE RunTask(t)
    <3>1. priv[t] = <<>>
      BY <2>1 DEF RunTask, Accounts
    <3> QED BY <1>0, <2>1, <3>1, RunTaskMoves
  <2>2. CASE CleanUpTask(t)
    <3>1. t \in InReactor
      BY <2>2 DEF CleanUpTask, InReactor
    <3>2. NoTask(queue)
      BY <3>1 DEF IInv, Placed
    <3> QED BY <1>0, <2>2, <3>2, CleanUpMoves
  <2>3. CASE Flush(t)
    BY <1>0, <2>3, FlushMoves
  <2> QED BY <2>1, <2>2, <2>3
<1>3. /\ t \notin Handler
      /\ \E l \in Place \ {"handler"} : Goto(t, l) /\ (l = "reinsert" \/ priv'[t] = <<>>)
      /\ \A u \in Thread : u # t => priv'[u] = priv[u]
  BY <1>0 DEF RunTask, CleanUpTask, Flush, Handler, Place
<1>4. /\ Handler' = Handler
      /\ \A u \in Thread :
            pc'[u] \notin {"handler", "last", "flush", "reinsert"} => priv'[u] = <<>>
  <2>1. PICK l \in Place \ {"handler"} : Goto(t, l) /\ (l = "reinsert" \/ priv'[t] = <<>>)
    BY <1>3
  <2> QED BY <1>0, <1>3, <2>1, HandlerMoves DEF Accounts
<1>5. \A u \in Handler : priv'[u] = priv[u]
  BY <1>3, Handled
<1>6. Distinct' /\ Running' = Running /\ Paid' = Paid
  BY <1>1, <1>2, <1>4, <1>5, Same
<1>7. Accounts'
  BY <1>1, <1>4, <1>5, <1>6, SameAccounts
<1> QED BY <1>2, <1>6, <1>7 DEF Kept

LEMMA OpKeeps ==
    ASSUME Typed, Apart, Distinct, Accounts, NEW o \in Op, Push(o) \/ Ready(o)
    PROVE  Kept
<1>1. UNCHANGED <<work, priv, privWork, cur, held, pc>>
  BY DEF Push, Ready, owner
<1>2. Apart' /\ Todo' = Todo
  BY PushMoves, ReadyMoves
<1>3. Handler' = Handler
  BY <1>1 DEF Handler
<1>4. Distinct' /\ Running' = Running /\ Paid' = Paid
  BY <1>1, <1>2, <1>3, Same
<1>5. Accounts'
  BY <1>1, <1>3, <1>4, SameAccounts DEF Accounts
<1> QED BY <1>2, <1>4, <1>5 DEF Kept

LEMMA OwnerKeeps ==
    ASSUME IInv, Apart, Distinct, Accounts, InitTask \/ Release \/ Ask \/ Stop(Owner)
    PROVE  Kept
<1>0. Typed
  BY DEF IInv
<1>1. UNCHANGED <<priv, privWork, counted, ready, cur>>
  BY DEF InitTask, Release, Ask, Stop, ops
<1>2. Queued' = Queued /\ IsInjective(queue')
  <2>1. CASE InitTask
    <3>1. NoTask(queue)
      BY <2>1 DEF InitTask, IInv, Placed
    <3> QED BY <1>0, <2>1, <3>1, TaskComes DEF InitTask
  <2>2. CASE UNCHANGED queue
    BY <2>2, Places DEF Queued, Apart
  <2> QED BY <2>1, <2>2 DEF Release, Ask, Stop
<1>3. Apart' /\ Todo' = Todo
  BY <1>1, <1>2, OpsStay
<1>4. \A u \in Thread : pc'[u] = pc[u]
  <2>1. \/ UNCHANGED pc
        \/ \E l : pc' = [pc EXCEPT ![Owner] = l]
    BY DEF InitTask, Release, Ask, Stop, Goto
  <2> QED BY <1>0, <2>1, IoServiceAssumption DEF Thread, Typed
<1>5. Handler' = Handler
  BY <1>4 DEF Handler
<1>6. Distinct' /\ Running' = Running /\ Paid' = Paid
  BY <1>1, <1>3, <1>5, Same
<1>7. work' = Cardinality(Paid') + IF held' THEN 1 ELSE 0
  <2>1. CASE Release
    <3>1. held /\ ~held' /\ work' = work - 1
      BY <2>1 DEF Release
    <3>2. Cardinality(Paid) \in Nat
      BY <1>0, OnlyOps
    <3> QED BY <1>6, <3>1, <3>2 DEF Accounts
  <2>2. CASE UNCHANGED <<work, held>>
    BY <1>6, <2>2 DEF Accounts
  <2> QED BY <2>1, <2>2 DEF InitTask, Ask, Stop, owner
<1>8. Accounts'
  BY <1>1, <1>4, <1>5, <1>7 DEF Accounts
<1> QED BY <1>3, <1>6, <1>8 DEF Kept

(* A count of zero means what it should.                                   *)
LEMMA NoWork == Typed /\ Distinct /\ Accounts /\ held \in BOOLEAN /\ work = 0 => Empty
<1> SUFFICES ASSUME Typed, Distinct, Accounts, held \in BOOLEAN, work = 0 PROVE Empty
  OBVIOUS
<1>1. IsFiniteSet(Paid) /\ Cardinality(Paid) \in Nat
  BY OnlyOps
<1>2. ~held /\ Cardinality(Paid) = 0
  BY <1>1 DEF Accounts
<1>3. Paid = {}
  BY <1>1, <1>2, FS_EmptySet
<1>4. Running = {}
  BY <1>3, Handled DEF Paid, Distinct
<1>5. Handler = {} /\ Unpaid = {}
  BY <1>4, Handled
<1> QED BY <1>2, <1>3, <1>4, <1>5 DEF Empty, Paid

LEMMA NoWorkNext == (Typed /\ Distinct /\ Accounts /\ held \in BOOLEAN /\ work = 0 => Empty)'
  BY NoWork, PTL
-----------------------------------------------------------------------------
(* Nobody begins to stop the service by itself before it is empty, and     *)
(* then it stays so.                                                       *)
LEMMA LeavingOn ==
    ASSUME Typed, Leaving, Todo' = Todo, Running' = Running, held' = held, asked' = asked,
           UNCHANGED pc
             \/ \E t \in Thread, l \in Place : Goto(t, l) /\ l # "ask" /\ (l \in {"last", "empty"} => Empty)
    PROVE  Leaving'
<1>1. Empty' = Empty
  BY DEF Empty
<1>2. CASE UNCHANGED pc
  BY <1>1, <1>2 DEF Leaving
<1>3. ASSUME NEW t \in Thread, NEW l \in Place, Goto(t, l), l # "ask",
             l \in {"last", "empty"} => Empty
      PROVE  Leaving'
  <2>1. /\ \A u \in Thread : pc'[u] = IF u = t THEN l ELSE pc[u]
        /\ pc'[Owner] = pc[Owner]
    BY <1>3, HandlerMoves, IoServiceAssumption DEF Thread
  <2> QED BY <1>1, <1>3, <2>1 DEF Leaving
<1> QED BY <1>2, <1>3

LEMMA LeavingBusy ==
    ASSUME Typed, Leaving, ~Empty, held' = held, asked' = asked,
           UNCHANGED pc \/ \E t \in Thread : Goto(t, "handler")
    PROVE  Leaving'
<1>1. (\A t \in Thread : pc[t] \notin {"last", "empty"}) /\ (pc[Owner] = "ask" => asked)
  BY DEF Leaving
<1>2. CASE UNCHANGED pc
  BY <1>1, <1>2 DEF Leaving
<1>3. ASSUME NEW t \in Thread, Goto(t, "handler") PROVE Leaving'
  <2>1. /\ \A u \in Thread : pc'[u] = IF u = t THEN "handler" ELSE pc[u]
        /\ pc'[Owner] = pc[Owner]
    BY <1>3, HandlerMoves, IoServiceAssumption DEF Thread, Place
  <2> QED BY <1>1, <2>1 DEF Leaving
<1> QED BY <1>2, <1>3

LEMMA ThreadLeaves ==
    ASSUME IInv, Rest, Distinct, Accounts, Leaving, Kept, NEW t \in Thread,
           Enter(t) \/ Acquire(t) \/ Return(t) \/ Wait(t) \/ Wake(t) \/ TakeTask(t)
               \/ PolledNothing(t) \/ Stop(t) \/ RunTask(t) \/ CleanUpTask(t) \/ Flush(t)
    PROVE  Leaving'
<1>1. Typed /\ Todo' = Todo /\ Running' = Running /\ held \in BOOLEAN
  BY DEF IInv, Kept, Rest
<1>2. held' = held /\ asked' = asked
  BY DEF Enter, Acquire, Return, Wait, Wake, TakeTask, PolledNothing, Stop, RunTask, CleanUpTask,
         Flush, owner
<1>3. \/ UNCHANGED pc
      \/ \E l \in Place : Goto(t, l) /\ l # "ask" /\ (l \in {"last", "empty"} => Empty)
  <2>1. CASE Enter(t)
    <3>1. work = 0 => Empty
      BY <1>1, NoWork
    <3> QED BY <2>1, <3>1 DEF Enter, Place
  <2>2. CASE ~Enter(t)
    BY <2>2 DEF Acquire, Return, Wait, Wake, TakeTask, PolledNothing, Stop, RunTask, CleanUpTask,
                Flush, Place
  <2> QED BY <2>1, <2>2
<1> QED BY <1>1, <1>2, <1>3, LeavingOn

LEMMA FinishLeaves ==
    ASSUME Typed, Typed', Rest, Apart, Distinct, Accounts, Leaving, NEW t \in Thread, Finish(t)
    PROVE  Leaving'
<1> DEFINE l == IF work' = 0 THEN "last" ELSE "flush"
<1>1. /\ Distinct' /\ Accounts' /\ cur[t] \in Running
      /\ held' = held /\ asked' = asked /\ held' \in BOOLEAN /\ Goto(t, l)
  BY FinishMoves DEF Finish, owner, Rest
<1>2. l \in Place
  BY DEF Place
<1>3. (\A u \in Thread : pc[u] \notin {"last", "empty"}) /\ (pc[Owner] = "ask" => asked)
  BY <1>1 DEF Leaving, Empty
<1>4. /\ \A u \in Thread : pc'[u] = IF u = t THEN l ELSE pc[u]
      /\ pc'[Owner] = pc[Owner]
  <2> HIDE DEF l
  <2> QED BY <1>1, <1>2, HandlerMoves, IoServiceAssumption DEF Thread
<1>5. l \in {"last", "empty"} => Empty'
  BY <1>1, NoWorkNext
<1>6. l # "ask"
  OBVIOUS
<1> HIDE DEF l
<1> QED BY <1>1, <1>3, <1>4, <1>5, <1>6 DEF Leaving

LEMMA OwnerLeaves ==
    ASSUME IInv, IInv', Rest, Rest', Leaving, Kept, InitTask \/ Release \/ Ask \/ Stop(Owner)
    PROVE  Leaving'
<1>1. /\ Typed /\ Typed' /\ Distinct' /\ Accounts' /\ Todo' = Todo /\ Running' = Running
      /\ held' \in BOOLEAN
  BY DEF IInv, Kept, Rest
<1>2. Empty => Empty'
  BY <1>1 DEF Empty, InitTask, Release, Ask, Stop, owner
<1>3. \A t \in Thread : pc'[t] = pc[t]
  <2>1. UNCHANGED pc \/ \E l : pc' = [pc EXCEPT ![Owner] = l]
    BY DEF InitTask, Release, Ask, Stop, Goto
  <2> QED BY <1>1, <2>1, IoServiceAssumption DEF Thread, Typed
<1>4. pc'[Owner] \in {"idle", "ask"} /\ (pc'[Owner] = "ask" => asked' \/ Empty')
  <2>0. pc \in [Thread \cup {Owner} -> Place] /\ Owner \notin Runner
    BY <1>1, IoServiceAssumption DEF Typed
  <2>1. CASE InitTask
    BY <1>2, <2>1 DEF InitTask, Leaving, owner
  <2>2. CASE Release
    <3>1. pc'[Owner] = IF work' = 0 THEN "ask" ELSE "idle"
      BY <2>0, <2>2 DEF Release, Goto
    <3> QED BY <1>1, <3>1, NoWorkNext
  <2>3. CASE Ask
    BY <2>0, <2>3 DEF Ask, Goto
  <2>4. CASE Stop(Owner)
    <3>1. pc[Owner] = "ask"
      BY <2>4 DEF Stop, Leaving
    <3> QED BY <2>0, <2>4, <3>1 DEF Stop, Goto
  <2> QED BY <2>1, <2>2, <2>3, <2>4
<1> QED BY <1>2, <1>3, <1>4 DEF Leaving
-----------------------------------------------------------------------------
LEMMA RestStep ==
    ASSUME Typed, Rest, Apart, Distinct, Accounts, [Next]_vars
    PROVE  Rest'
<1>1. CASE InitTask \/ Release \/ Ask \/ Stop(Owner)
  BY <1>1 DEF InitTask, Release, Ask, Stop, SignalOne, task, event, ops, owner, Rest
<1>2. ASSUME NEW o \in Op, Start(o) \/ Push(o) \/ Ready(o) PROVE Rest'
  BY <1>2 DEF Start, Push, Ready, WakeOne, SignalOne, task, event, owner, Rest
<1>3. ASSUME NEW t \in Thread, Step(t) PROVE Rest'
  <2>1. CASE Enter(t) \/ Acquire(t) \/ Return(t) \/ Wait(t) \/ Wake(t) \/ Stop(t) \/ Flush(t)
    BY <2>1 DEF Enter, Acquire, Return, Wait, Wake, Stop, Flush, task, event, ops, owner, Rest
  <2>2. CASE TakeTask(t) \/ RunTask(t) \/ CleanUpTask(t) \/ PolledNothing(t)
    BY <2>2 DEF TakeTask, RunTask, CleanUpTask, PolledNothing, SignalOne, task, event, ops, owner,
                Rest
  <2>3. CASE TakeOp(t)
    <3>1. cur' \in [Thread -> Op \cup {Nobody}]
      BY <2>3, TakeOpMoves DEF TakeOp, Rest
    <3> QED BY <2>3, <3>1 DEF TakeOp, WakeOne, SignalOne, event, ops, owner, Rest
  <2>4. CASE Finish(t)
    <3>1. cur' \in [Thread -> Op \cup {Nobody}] /\ privWork' \in [Thread -> Nat] /\ done' \subseteq Op
      BY <2>4, FinishMoves DEF Finish, Rest
    <3> QED BY <2>4, <3>1 DEF Finish, task, event, owner, Rest
  <2> QED BY <1>3, <2>1, <2>2, <2>3, <2>4 DEF Step
<1>4. ASSUME NEW t \in Thread, NEW o \in Op, Continue(t, o) PROVE Rest'
  BY <1>4 DEF Continue, task, event, ops, owner, Rest
<1>5. CASE UNCHANGED vars
  BY <1>5 DEF vars, task, event, ops, owner, Rest
<1> QED BY <1>1, <1>2, <1>3, <1>4, <1>5 DEF Next

LEMMA InitWork == Init => WInv
<1> SUFFICES ASSUME Init PROVE WInv
  OBVIOUS
<1>1. /\ queue = <<>> /\ counted = {} /\ ready = {} /\ priv = [t \in Thread |-> <<>>]
      /\ pc = [t \in Thread \cup {Owner} |-> IF t \in Runner THEN "enter" ELSE "idle"]
  BY DEF Init
<1>2. Queued = {} /\ \A t \in Thread : Own(t) = {} /\ priv[t] = <<>>
  BY <1>1 DEF Queued, Own, ToSet
<1>3. Todo = {}
  BY <1>1, <1>2, Places DEF Shared
<1>4. \A t \in Thread : pc[t] \in {"enter", "idle"}
  BY <1>1
<1>5. Handler = {} /\ Running = {} /\ Unpaid = {}
  BY <1>4 DEF Handler, Running, Unpaid
<1>6. IsInjective(<<>>)
  BY DEF IsInjective
<1>7. Apart
  BY <1>1, <1>2, <1>6 DEF Apart
<1>8. Accounts
  <2>1. Paid = {}
    BY <1>3, <1>5 DEF Paid
  <2> QED BY <1>2, <1>5, <2>1, FS_EmptySet DEF Init, Accounts
<1>9. Leaving
  <2>1. pc[Owner] = "idle"
    BY <1>1, IoServiceAssumption DEF Thread
  <2> QED BY <1>4, <2>1 DEF Leaving
<1>10. Rest
  BY DEF Init, Rest
<1> QED BY <1>5, <1>7, <1>8, <1>9, <1>10, InitInv DEF WInv, Distinct

LEMMA WorkStep == ASSUME WInv, [Next]_vars PROVE WInv'
<1>0. Typed /\ IInv /\ Asleep /\ Rest /\ Apart /\ Distinct /\ Accounts /\ Leaving
  BY DEF WInv, IInv
<1>1. IInv' /\ Typed' /\ Asleep' /\ Rest'
  BY <1>0, NextStep, SleepStep, RestStep DEF IInv
<1>2. CASE InitTask \/ Release \/ Ask \/ Stop(Owner)
  BY <1>0, <1>1, <1>2, OwnerKeeps, OwnerLeaves DEF WInv, Kept
<1>3. ASSUME NEW o \in Op, Start(o) \/ Push(o) \/ Ready(o) PROVE WInv'
  <2>1. CASE Start(o)
    <3>1. Apart' /\ Distinct' /\ Accounts'
      BY <1>0, <2>1, StartMoves
    <3>2. ~Empty /\ held' = held /\ asked' = asked /\ UNCHANGED pc
      BY <2>1 DEF Start, Empty, owner
    <3> QED BY <1>0, <1>1, <3>1, <3>2, LeavingBusy DEF WInv
  <2>2. CASE Push(o) \/ Ready(o)
    <3>1. Kept
      BY <1>0, <2>2, OpKeeps
    <3>2. held' = held /\ asked' = asked /\ UNCHANGED pc
      BY <2>2 DEF Push, Ready, owner
    <3>3. Leaving'
      BY <1>0, <3>1, <3>2, LeavingOn DEF Kept
    <3> QED BY <1>1, <3>1, <3>3 DEF WInv, Kept
  <2> QED BY <1>3, <2>1, <2>2
<1>4. ASSUME NEW t \in Thread, Step(t) PROVE WInv'
  <2>1. CASE TakeOp(t)
    <3>1. Apart' /\ Distinct' /\ Accounts' /\ Head(queue) \in Todo
      BY <1>0, <2>1, TakeOpMoves
    <3>2. ~Empty /\ held' = held /\ asked' = asked /\ Goto(t, "handler")
      BY <2>1, <3>1 DEF TakeOp, Empty, owner
    <3> QED BY <1>0, <1>1, <3>1, <3>2, LeavingBusy DEF WInv
  <2>2. CASE Finish(t)
    BY <1>0, <1>1, <2>2, FinishMoves, FinishLeaves DEF WInv
  <2>3. CASE Enter(t) \/ Acquire(t) \/ Return(t) \/ Wait(t) \/ Wake(t) \/ TakeTask(t)
                 \/ PolledNothing(t) \/ Stop(t)
    <3>1. Kept
      BY <1>0, <2>3, ThreadKeeps
    <3>2. Leaving'
      BY <1>0, <2>3, <3>1, ThreadLeaves
    <3> QED BY <1>1, <3>1, <3>2 DEF WInv, Kept
  <2>4. CASE RunTask(t) \/ CleanUpTask(t) \/ Flush(t)
    <3>1. Kept
      BY <1>0, <2>4, ReactorKeeps
    <3>2. Leaving'
      BY <1>0, <2>4, <3>1, ThreadLeaves
    <3> QED BY <1>1, <3>1, <3>2 DEF WInv, Kept
  <2> QED BY <1>4, <2>1, <2>2, <2>3, <2>4 DEF Step
<1>5. ASSUME NEW t \in Thread, NEW o \in Op, Continue(t, o) PROVE WInv'
  <2>1. Apart' /\ Distinct' /\ Accounts'
    BY <1>0, <1>5, ContinueMoves
  <2>2. Running # {} /\ held' = held /\ asked' = asked /\ UNCHANGED pc
    BY <1>5, Handled DEF Continue, Handler, owner
  <2> QED BY <1>0, <1>1, <2>1, <2>2, LeavingBusy DEF WInv, Empty
<1>6. CASE UNCHANGED vars
  <2>1. UNCHANGED <<queue, priv, counted, ready, cur, pc, work, privWork, held, asked>>
    BY <1>6 DEF vars, ops, owner
  <2>2. /\ Apart' /\ Todo' = Todo /\ Handler' = Handler
    BY <1>0, <2>1, OpsStay, Places DEF Queued, Apart, Handler
  <2>3. Distinct' /\ Running' = Running /\ Paid' = Paid
    BY <1>0, <2>1, <2>2, Same
  <2>4. Accounts'
    BY <1>0, <2>1, <2>2, <2>3, SameAccounts DEF Accounts
  <2>5. Leaving'
    BY <1>0, <2>1, <2>2, <2>3, LeavingOn
  <2> QED BY <1>1, <2>2, <2>3, <2>4, <2>5 DEF WInv
<1> QED BY <1>2, <1>3, <1>4, <1>5, <1>6 DEF Next

LEMMA WorkInvariant == Spec => []WInv
  BY InitWork, WorkStep, PTL DEF Spec

(* Whatever threads run, poll, post and stop: every variable of the        *)
(* service keeps its type; in particular outstanding_work_ never goes      *)
(* below zero, though threads change it without the mutex.                 *)
THEOREM TypeCorrect == Spec => []TypeOK
<1>1. ASSUME WInv PROVE TypeOK
  <2>1. Typed /\ Asleep /\ Rest /\ Distinct /\ Accounts
    BY <1>1 DEF WInv, IInv
  <2>2. work \in Nat
    <3>1. Cardinality(Paid) \in Nat
      BY <2>1, OnlyOps
    <3> QED BY <2>1, <3>1 DEF Accounts
  <2> QED BY <2>1, <2>2 DEF TypeOK, Typed, Asleep, Rest, Item
<1> QED BY <1>1, WorkInvariant, PTL

(* outstanding_work_, an atomic counter that threads and handlers change   *)
(* while others run, together with what handlers have counted privately is *)
(* at every moment the number of operations that are not finished.         *)
THEOREM WorkIsExact == Spec => []WorkExact
<1>1. ASSUME WInv PROVE WorkExact
  <2> DEFINE Owed == UNION {{t} \X (1 .. privWork[t]) : t \in Thread}
             f == [x \in Owed |-> priv[x[1]][x[2]]]
  <2>1. Typed /\ Rest /\ Apart /\ Distinct /\ Accounts
    BY <1>1 DEF WInv, IInv
  <2>2. \A t \in Thread : /\ priv[t] \in Seq(Op) /\ DOMAIN priv[t] = 1 .. Len(priv[t])
                          /\ t \in Handler => privWork[t] = Len(priv[t])
                          /\ t \notin Handler => privWork[t] = 0
    BY <2>1 DEF Typed, Accounts
  <2>3. \A x \in Owed : /\ x = <<x[1], x[2]>> /\ x[1] \in Handler
                        /\ x[2] \in DOMAIN priv[x[1]] /\ f[x] \in Own(x[1])
    <3> SUFFICES ASSUME NEW t \in Thread, NEW i \in 1 .. privWork[t]
                 PROVE  t \in Handler /\ i \in DOMAIN priv[t] /\ priv[t][i] \in Own(t)
      OBVIOUS
    <3>1. t \in Handler /\ i \in 1 .. Len(priv[t])
      BY <2>2
    <3> QED BY <2>2, <3>1 DEF Own, ToSet
  <2>4. ASSUME NEW t \in Handler, NEW i \in DOMAIN priv[t]
        PROVE  <<t, i>> \in Owed /\ f[<<t, i>>] = priv[t][i]
    <3>1. <<t, i>> \in Owed
      BY <2>2, Handled
    <3> QED BY <3>1
  <2>5. f \in [Owed -> Unpaid]
    BY <2>3, Handled
  <2>6. ASSUME NEW x \in Owed, NEW y \in Owed, f[x] = f[y] PROVE x = y
    <3>1. x[1] = y[1]
      BY <2>1, <2>3, <2>6, Handled DEF Apart
    <3>2. x[2] = y[2]
      <4>1. x[1] \in Thread /\ x[2] \in DOMAIN priv[x[1]] /\ y[2] \in DOMAIN priv[x[1]]
        BY <2>3, <3>1, Handled
      <4>2. IsInjective(priv[x[1]])
        BY <2>1, <4>1 DEF Apart
      <4>3. priv[x[1]][x[2]] = priv[x[1]][y[2]]
        BY <2>6, <3>1
      <4> QED BY <4>1, <4>2, <4>3 DEF IsInjective
    <3> QED BY <2>3, <3>1, <3>2
  <2>7. ASSUME NEW o \in Unpaid PROVE \E x \in Owed : f[x] = o
    <3>1. PICK t \in Handler : o \in Own(t)
      BY Handled
    <3>2. PICK i \in DOMAIN priv[t] : o = priv[t][i]
      BY <3>1 DEF Own, ToSet
    <3> QED BY <2>4, <3>1, <3>2
  <2>8. f \in Bijection(Owed, Unpaid)
    <3>1. DOMAIN f = Owed
      OBVIOUS
    <3> HIDE DEF Owed, f
    <3> QED BY <2>5, <2>6, <2>7, <3>1 DEF Bijection, Injection, Surjection, IsInjective
  <2> HIDE DEF Owed, f
  <2>9. /\ IsFiniteSet(Todo \cup Running) /\ Unpaid \in SUBSET (Todo \cup Running)
        /\ IsFiniteSet(Paid) /\ Cardinality(Paid) \in Nat
    BY <2>1, OnlyOps, Handled
  <2>10. IsFiniteSet(Unpaid) /\ Cardinality(Unpaid) \in Nat
    BY <2>9, FS_Subset, FS_CardinalityType
  <2>11. Cardinality(Owed) = Cardinality(Unpaid)
    <3>1. f \in Injection(Owed, Unpaid) /\ f \in Surjection(Owed, Unpaid)
      BY <2>8 DEF Bijection
    <3> QED BY <2>10, <3>1, FS_Injection
  <2>12. Cardinality(Todo \cup Running) = Cardinality(Paid) + Cardinality(Unpaid)
    <3>1. Paid \cup Unpaid = Todo \cup Running /\ Paid \cap Unpaid = {}
      BY <2>9 DEF Paid
    <3>2. Cardinality(Paid \cap Unpaid) = 0
      BY <3>1, FS_EmptySet
    <3>3. Cardinality(Paid \cup Unpaid) = Cardinality(Paid) + Cardinality(Unpaid) - 0
      BY <2>9, <2>10, <3>2, FS_Union
    <3>4. \A m, n \in Nat : m + n - 0 = m + n
      OBVIOUS
    <3>5. Cardinality(Paid \cup Unpaid) = Cardinality(Paid) + Cardinality(Unpaid)
      BY <2>9, <2>10, <3>3, <3>4, Zenon
    <3> QED BY <3>1, <3>5, Zenon
  <2>13. work = Cardinality(Paid) + IF held THEN 1 ELSE 0
    BY <2>1 DEF Accounts
  <2>14. work + Cardinality(Owed) = Cardinality(Todo \cup Running) + IF held THEN 1 ELSE 0
    <3> DEFINE p == Cardinality(Paid)
               u == Cardinality(Unpaid)
               h == IF held THEN 1 ELSE 0
    <3>1. p \in Nat /\ u \in Nat /\ h \in Nat
      BY <2>9, <2>10
    <3>2. work = p + h /\ Cardinality(Owed) = u /\ Cardinality(Todo \cup Running) = p + u
      BY <2>11, <2>12, <2>13
    <3> HIDE DEF p, u, h
    <3>3. work + Cardinality(Owed) = Cardinality(Todo \cup Running) + h
      BY <3>1, <3>2
    <3> QED BY <3>3 DEF h
  <2> QED BY <2>14 DEF WorkExact, Owed
<1> QED BY <1>1, WorkInvariant, PTL

(* A step of the service is a step of what it promises, or none: only      *)
(* counting, running and finishing an operation, and stopping, show.       *)
LEMMA PromisedStep == ASSUME WInv, [Next]_vars PROVE [E!Next]_(E!vars)
<1>0. Typed /\ IInv /\ Asleep /\ Rest /\ Apart /\ Distinct /\ Accounts /\ Leaving
  BY DEF WInv, IInv
<1> DEFINE Hidden == UNCHANGED <<Todo, Running, done, held, asked, stopped>>
<1>1. Hidden => [E!Next]_(E!vars)
  BY DEF E!vars
<1>2. ASSUME NEW t \in Thread \cup {Owner}, Stop(t), Kept PROVE E!Halt
  <2>1. asked \/ Empty
    <3>1. pc[t] \in {"empty", "last", "ask"}
      BY <1>2 DEF Stop
    <3>2. CASE t = Owner
      BY <1>0, <3>1, <3>2 DEF Leaving
    <3>3. CASE t \in Thread
      BY <1>0, <3>1, <3>3 DEF Leaving
    <3> QED BY <3>2, <3>3
  <2> QED BY <1>2, <2>1 DEF E!Halt, Stop, Kept, Empty, ops, owner
<1>3. CASE InitTask \/ Release \/ Ask \/ Stop(Owner)
  <2>1. Kept
    BY <1>0, <1>3, OwnerKeeps
  <2>2. InitTask => Hidden
    BY <2>1 DEF InitTask, ops, owner, Kept
  <2>3. Release => E!Release
    BY <2>1 DEF Release, ops, E!Release, Kept
  <2>4. Ask => E!Ask
    BY <2>1 DEF Ask, ops, E!Ask, Kept
  <2> QED BY <1>1, <1>2, <1>3, <2>1, <2>2, <2>3, <2>4 DEF E!Next
<1>4. ASSUME NEW o \in Op, Start(o) \/ Push(o) \/ Ready(o) PROVE [E!Next]_(E!vars)
  <2>1. CASE Start(o)
    <3>1. Todo' = Todo \cup {o} /\ Running' = Running
      BY <1>0, <2>1, StartMoves
    <3>2. E!Add(o)
      BY <2>1, <3>1 DEF Start, Fresh, owner, E!Add
    <3> QED BY <3>2 DEF E!Next
  <2>2. CASE Push(o) \/ Ready(o)
    <3>1. Kept
      BY <1>0, <2>2, OpKeeps
    <3> QED BY <1>1, <2>2, <3>1 DEF Push, Ready, owner, Kept
  <2> QED BY <1>4, <2>1, <2>2
<1>5. ASSUME NEW t \in Thread, Step(t) PROVE [E!Next]_(E!vars)
  <2>1. CASE TakeOp(t)
    <3> DEFINE o == Head(queue)
    <3>1. o \in Op /\ o \in Todo /\ Todo' = Todo \ {o} /\ Running' = Running \cup {o}
      BY <1>0, <2>1, TakeOpMoves
    <3> HIDE DEF o
    <3>2. E!Begin(o)
      BY <2>1, <3>1 DEF TakeOp, ops, owner, E!Begin
    <3> QED BY <3>1, <3>2 DEF E!Next
  <2>2. CASE Finish(t)
    <3>1. /\ cur[t] \in Op /\ cur[t] \in Running /\ Todo' = Todo
          /\ Running' = Running \ {cur[t]}
      BY <1>0, <2>2, FinishMoves
    <3>2. E!End(cur[t])
      BY <2>2, <3>1 DEF Finish, owner, E!End
    <3> QED BY <3>1, <3>2 DEF E!Next
  <2>3. CASE Stop(t)
    <3>1. Kept
      BY <1>0, <2>3, ThreadKeeps
    <3> QED BY <1>2, <2>3, <3>1 DEF E!Next
  <2>4. CASE Enter(t) \/ Acquire(t) \/ Return(t) \/ Wait(t) \/ Wake(t) \/ TakeTask(t)
                 \/ PolledNothing(t) \/ RunTask(t) \/ CleanUpTask(t) \/ Flush(t)
    <3>1. Kept
      BY <1>0, <2>4, ThreadKeeps, ReactorKeeps
    <3>2. UNCHANGED <<done, held, asked, stopped>>
      BY <2>4 DEF Enter, Acquire, Return, Wait, Wake, TakeTask, PolledNothing, RunTask,
                  CleanUpTask, Flush, ops, owner
    <3> QED BY <1>1, <3>1, <3>2 DEF Kept
  <2> QED BY <1>5, <2>1, <2>2, <2>3, <2>4 DEF Step
<1>6. ASSUME NEW t \in Thread, NEW o \in Op, Continue(t, o) PROVE [E!Next]_(E!vars)
  <2>1. Todo' = Todo \cup {o} /\ Running' = Running
    BY <1>0, <1>6, ContinueMoves
  <2>2. Running # {}
    BY <1>6, Handled DEF Continue, Handler
  <2>3. E!Add(o)
    BY <1>6, <2>1, <2>2 DEF Continue, Fresh, ops, owner, E!Add
  <2> QED BY <2>3 DEF E!Next
<1>7. CASE UNCHANGED vars
  <2>1. UNCHANGED <<queue, priv, counted, ready, cur, pc, done, held, asked, stopped>>
    BY <1>7 DEF vars, ops, owner
  <2>2. Todo' = Todo /\ Handler' = Handler
    BY <1>0, <2>1, OpsStay, Places DEF Queued, Apart, Handler
  <2>3. Running' = Running
    BY <1>0, <2>1, <2>2, Same
  <2> QED BY <1>1, <2>1, <2>2, <2>3
<1> QED BY <1>3, <1>4, <1>5, <1>6, <1>7 DEF Next

(* asio's scheduler keeps the promise of an io_service for any number of   *)
(* threads and operations: an operation that is counted is run once or not *)
(* at all, and the service stops by itself only when nothing is            *)
(* outstanding and nobody holds a work object.                             *)
THEOREM ServiceKeepsPromise == Spec => ImplementsExecutor
<1>1. Init => E!Init
  <2> SUFFICES ASSUME Init PROVE E!Init
    OBVIOUS
  <2>1. Queued = {} /\ \A t \in Thread : Own(t) = {}
    BY DEF Init, Queued, Own, ToSet
  <2>2. Todo = {}
    BY <2>1, Places DEF Shared, Init
  <2>3. Running = {}
    BY DEF Init, Running
  <2> QED BY <2>2, <2>3 DEF Init, E!Init
<1> QED BY <1>1, WorkInvariant, PromisedStep, PTL DEF Spec, ImplementsExecutor, E!Spec
=============================================================================
