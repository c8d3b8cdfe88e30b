--------------------------- MODULE ReactorProofs ---------------------------
(***************************************************************************)
(* The reactor's books are right for any number of sockets, descriptor     *)
(* states and operations: outstanding_work_ is exact, every operation is   *)
(* in one place, what waits in a state belongs to the socket that has it,  *)
(* and run() never queues a state that is queued already.                  *)
(*                                                                         *)
(* The last rests on the place of the task in the io_service's queue       *)
(* (TaskLast), the first on the operations being in one place.             *)
(***************************************************************************)
EXTENDS Reactor, TLAPS, FiniteSetTheorems, SequenceTheorems

Item == Op \cup State \cup {Task}

(* The task stands behind all states in the queue.                         *)
TaskLast(q) ==
    \E i \in DOMAIN q : q[i] = Task /\ \A j \in DOMAIN q : q[j] \in State => j < i

(* A socket has a state while it has a descriptor; the kernel knows only   *)
(* descriptors that are open.                                              *)
Opened ==
    /\ \A s \in Sock : fd[s] = Closed <=> data[s] = Nil
    /\ edge \subseteq InUse(fd)

Acts == cur # Nil <=> pc = "handler"

IInv ==
    /\ TypeOK /\ WorkExact /\ OnePlace /\ Attached /\ Opened /\ Acts
    /\ NoRepeats(queue) /\ TaskLast(queue)
-----------------------------------------------------------------------------
(* Sequences without repeats.                                              *)
LEMMA ConcatDistinct ==
    ASSUME NEW S, NEW s \in Seq(S), NEW t \in Seq(S), NoRepeats(s), NoRepeats(t),
           ToSet(s) \cap ToSet(t) = {}
    PROVE  /\ s \o t \in Seq(S) /\ NoRepeats(s \o t)
           /\ ToSet(s \o t) = ToSet(s) \cup ToSet(t)
<1> DEFINE st == s \o t
           m == Len(s)
           n == Len(t)
<1>1. /\ m \in Nat /\ n \in Nat /\ st \in Seq(S) /\ Len(st) = m + n
      /\ DOMAIN st = 1 .. m + n /\ DOMAIN s = 1 .. m /\ DOMAIN t = 1 .. n
  OBVIOUS
<1>2. /\ \A i \in 1 .. m : st[i] = s[i]
      /\ \A i \in m + 1 .. m + n : st[i] = t[i - m] /\ i - m \in 1 .. n
  BY <1>1
<1> HIDE DEF st, m, n
<1>3. \A i \in 1 .. m + n : (i \in 1 .. m /\ st[i] \in ToSet(s))
                            \/ (i \in m + 1 .. m + n /\ st[i] \in ToSet(t))
  <2> SUFFICES ASSUME NEW i \in 1 .. m + n
               PROVE  \/ i \in 1 .. m /\ st[i] \in ToSet(s)
                      \/ i \in m + 1 .. m + n /\ st[i] \in ToSet(t)
    OBVIOUS
  <2>1. i \in 1 .. m \/ i \in m + 1 .. m + n
    BY <1>1
  <2> QED BY <1>1, <1>2, <2>1 DEF ToSet
<1>4. NoRepeats(st)
  <2> SUFFICES ASSUME NEW i \in 1 .. m + n, NEW j \in 1 .. m + n, st[i] = st[j] PROVE i = j
    BY <1>1 DEF NoRepeats
  <2>1. CASE i \in 1 .. m /\ j \in 1 .. m
    BY <1>1, <1>2, <2>1 DEF NoRepeats
  <2>2. CASE i \in m + 1 .. m + n /\ j \in m + 1 .. m + n
    <3>1. i - m \in 1 .. n /\ j - m \in 1 .. n /\ t[i - m] = t[j - m]
      BY <1>2, <2>2
    <3>2. i - m = j - m
      BY <1>1, <3>1 DEF NoRepeats
    <3> QED BY <1>1, <3>2
  <2> QED BY <1>3, <2>1, <2>2
<1>5. ToSet(st) = ToSet(s) \cup ToSet(t)
  <2>1. ToSet(st) \subseteq ToSet(s) \cup ToSet(t)
    BY <1>1, <1>3 DEF ToSet
  <2>2. \A i \in 1 .. m : i \in 1 .. m + n /\ st[i] = s[i]
    BY <1>1, <1>2
  <2>3. \A i \in 1 .. n : m + i \in 1 .. m + n /\ st[m + i] = t[i]
    <3> SUFFICES ASSUME NEW i \in 1 .. n PROVE m + i \in 1 .. m + n /\ st[m + i] = t[i]
      OBVIOUS
    <3>1. m + i \in m + 1 .. m + n /\ (m + i) - m = i
      BY <1>1
    <3> QED BY <1>1, <1>2, <3>1
  <2>4. ToSet(s) \subseteq ToSet(st)
    BY <1>1, <2>2 DEF ToSet
  <2>5. ToSet(t) \subseteq ToSet(st)
    BY <1>1, <2>3 DEF ToSet
  <2> QED BY <2>1, <2>4, <2>5
<1> QED BY <1>1, <1>4, <1>5 DEF st

LEMMA SeqOver ==
    ASSUME NEW S, NEW s \in Seq(S), NEW T, \A x \in ToSet(s) : x \in T
    PROVE  s \in Seq(T)
<1> DEFINE n == Len(s)
<1>1. n \in Nat /\ s \in [1 .. n -> S] /\ DOMAIN s = 1 .. n
  OBVIOUS
<1> HIDE DEF n
<1>2. \A i \in 1 .. n : s[i] \in T
  BY <1>1 DEF ToSet
<1>3. s \in [1 .. n -> T]
  BY <1>1, <1>2
<1> QED BY <1>1, <1>3, SeqDef

LEMMA OneElement ==
    ASSUME NEW S, NEW x \in S
    PROVE  <<x>> \in Seq(S) /\ NoRepeats(<<x>>) /\ ToSet(<<x>>) = {x}
  BY DEF NoRepeats, ToSet

LEMMA AppendDistinct ==
    ASSUME NEW S, NEW s \in Seq(S), NoRepeats(s), NEW x \in S, x \notin ToSet(s)
    PROVE  /\ Append(s, x) \in Seq(S) /\ NoRepeats(Append(s, x))
           /\ ToSet(Append(s, x)) = ToSet(s) \cup {x}
<1>1. <<x>> \in Seq(S) /\ NoRepeats(<<x>>) /\ ToSet(<<x>>) = {x}
  BY OneElement
<1>2. ToSet(s) \cap ToSet(<<x>>) = {}
  BY <1>1
<1>3. /\ s \o <<x>> \in Seq(S) /\ NoRepeats(s \o <<x>>)
      /\ ToSet(s \o <<x>>) = ToSet(s) \cup ToSet(<<x>>)
  BY <1>1, <1>2, ConcatDistinct
<1>4. Append(s, x) = s \o <<x>>
  OBVIOUS
<1> QED BY <1>1, <1>3, <1>4

LEMMA SplitDistinct ==
    ASSUME NEW S, NEW s \in Seq(S), NoRepeats(s), NEW n \in 0 .. Len(s)
    PROVE  LET f == SubSeq(s, 1, n)
               b == SubSeq(s, n + 1, Len(s))
           IN  /\ f \in Seq(S) /\ NoRepeats(f) /\ Len(f) = n
               /\ b \in Seq(S) /\ NoRepeats(b)
               /\ ToSet(f) \cap ToSet(b) = {} /\ ToSet(f) \cup ToSet(b) = ToSet(s)
<1> DEFINE f == SubSeq(s, 1, n)
           b == SubSeq(s, n + 1, Len(s))
           l == Len(s)
<1>0. l \in Nat /\ n \in Nat /\ n <= l /\ DOMAIN s = 1 .. l
  OBVIOUS
<1>1. f \in Seq(S) /\ Len(f) = n /\ DOMAIN f = 1 .. n /\ \A i \in 1 .. n : f[i] = s[i]
  BY <1>0
<1>2. /\ b \in Seq(S) /\ Len(b) = l - n /\ DOMAIN b = 1 .. l - n
      /\ \A i \in 1 .. l - n : b[i] = s[n + i]
  <2>1. n + 1 \in Int /\ l \in Int /\ \A i \in n + 1 .. l : s[i] \in S
    BY <1>0
  <2> HIDE DEF l
  <2>2. /\ b \in Seq(S) /\ Len(b) = IF n + 1 <= l THEN l - (n + 1) + 1 ELSE 0
        /\ \A i \in 1 .. l - (n + 1) + 1 : b[i] = s[(n + 1) + i - 1]
    BY <2>1, SubSeqProperties DEF l
  <2>3. Len(b) = l - n
    BY <1>0, <2>2
  <2>4. \A i \in 1 .. l - n : i \in 1 .. l - (n + 1) + 1 /\ (n + 1) + i - 1 = n + i
    BY <1>0
  <2>5. DOMAIN b = 1 .. Len(b)
    BY <2>2
  <2> QED BY <2>2, <2>3, <2>4, <2>5
<1> HIDE DEF f, b, l
<1>3. NoRepeats(f)
  BY <1>0, <1>1 DEF NoRepeats
<1>4. NoRepeats(b)
  <2> SUFFICES ASSUME NEW i \in 1 .. l - n, NEW j \in 1 .. l - n, b[i] = b[j] PROVE i = j
    BY <1>2 DEF NoRepeats
  <2>1. n + i \in 1 .. l /\ n + j \in 1 .. l /\ s[n + i] = s[n + j]
    BY <1>0, <1>2
  <2>2. n + i = n + j
    BY <1>0, <2>1 DEF NoRepeats
  <2> QED BY <1>0, <2>2
<1>5. ToSet(f) \cap ToSet(b) = {}
  <2> SUFFICES ASSUME NEW i \in 1 .. n, NEW j \in 1 .. l - n, f[i] = b[j] PROVE FALSE
    BY <1>1, <1>2 DEF ToSet
  <2>1. i \in 1 .. l /\ n + j \in 1 .. l /\ s[i] = s[n + j] /\ i < n + j
    BY <1>0, <1>1, <1>2
  <2> QED BY <1>0, <2>1 DEF NoRepeats
<1>6. ToSet(f) \cup ToSet(b) = ToSet(s)
  <2>1. ToSet(f) \subseteq ToSet(s)
    BY <1>0, <1>1 DEF ToSet
  <2>2. ToSet(b) \subseteq ToSet(s)
    BY <1>0, <1>2 DEF ToSet
  <2>3. \A i \in 1 .. l : s[i] \in ToSet(f) \cup ToSet(b)
    <3> SUFFICES ASSUME NEW i \in 1 .. l PROVE s[i] \in ToSet(f) \cup ToSet(b)
      OBVIOUS
    <3>1. CASE i <= n
      BY <1>0, <1>1, <3>1 DEF ToSet
    <3>2. CASE ~(i <= n)
      <4>1. i - n \in 1 .. l - n /\ n + (i - n) = i
        BY <1>0, <3>2
      <4> QED BY <1>2, <4>1 DEF ToSet
    <3> QED BY <3>1, <3>2
  <2> QED BY <1>0, <2>1, <2>2, <2>3 DEF ToSet
<1> QED BY <1>1, <1>2, <1>3, <1>4, <1>5, <1>6 DEF f, b, l

LEMMA TailDistinct ==
    ASSUME NEW S, NEW s \in Seq(S), s # <<>>, NoRepeats(s)
    PROVE  /\ Head(s) \in S /\ Head(s) \in ToSet(s)
           /\ Tail(s) \in Seq(S) /\ NoRepeats(Tail(s))
           /\ ToSet(Tail(s)) = ToSet(s) \ {Head(s)}
<1> DEFINE l == Len(s)
           r == Tail(s)
<1>1. l \in Nat \ {0} /\ DOMAIN s = 1 .. l /\ Head(s) = s[1] /\ 1 \in 1 .. l /\ s[1] \in S
  OBVIOUS
<1>2. /\ r \in Seq(S) /\ Len(r) = l - 1 /\ DOMAIN r = 1 .. l - 1
      /\ \A i \in 1 .. l - 1 : r[i] = s[i + 1] /\ i + 1 \in 1 .. l
  BY <1>1
<1> HIDE DEF l, r
<1>3. NoRepeats(r)
  <2> SUFFICES ASSUME NEW i \in 1 .. l - 1, NEW j \in 1 .. l - 1, r[i] = r[j] PROVE i = j
    BY <1>2 DEF NoRepeats
  <2>1. i + 1 \in 1 .. l /\ j + 1 \in 1 .. l /\ s[i + 1] = s[j + 1]
    BY <1>2
  <2>2. i + 1 = j + 1
    BY <1>1, <2>1 DEF NoRepeats
  <2> QED BY <1>1, <2>2
<1>4. ToSet(r) = ToSet(s) \ {Head(s)}
  <2>1. \A i \in 1 .. l - 1 : r[i] \in ToSet(s) \ {s[1]}
    <3> SUFFICES ASSUME NEW i \in 1 .. l - 1 PROVE r[i] \in ToSet(s) \ {s[1]}
      OBVIOUS
    <3>1. i + 1 \in 1 .. l /\ i + 1 # 1 /\ r[i] = s[i + 1]
      BY <1>1, <1>2
    <3> QED BY <1>1, <3>1 DEF NoRepeats, ToSet
  <2>2. \A i \in 1 .. l : i = 1 \/ s[i] \in ToSet(r)
    <3> SUFFICES ASSUME NEW i \in 1 .. l, i # 1 PROVE s[i] \in ToSet(r)
      OBVIOUS
    <3>1. i - 1 \in 1 .. l - 1 /\ (i - 1) + 1 = i
      BY <1>1
    <3> QED BY <1>2, <3>1 DEF ToSet
  <2> QED BY <1>1, <1>2, <2>1, <2>2, SMTT(30) DEF ToSet
<1> QED BY <1>1, <1>2, <1>3, <1>4 DEF r, ToSet
-----------------------------------------------------------------------------
(* The io_service's queue.                                                 *)
LEMMA TaskKept ==
    ASSUME NEW q \in Seq(Item), TaskLast(q), NEW t \in Seq(Op)
    PROVE  TaskLast(q \o t)
<1>1. PICK i \in DOMAIN q : q[i] = Task /\ \A j \in DOMAIN q : q[j] \in State => j < i
  BY DEF TaskLast
<1> DEFINE m == Len(q)
           n == Len(t)
           qt == q \o t
<1>2. /\ m \in Nat /\ n \in Nat /\ DOMAIN q = 1 .. m /\ DOMAIN qt = 1 .. m + n
      /\ \A j \in 1 .. m : qt[j] = q[j]
      /\ \A j \in m + 1 .. m + n : qt[j] = t[j - m] /\ j - m \in 1 .. n
  BY DEF Item
<1>3. \A j \in 1 .. n : t[j] \in Op
  OBVIOUS
<1> HIDE DEF qt, m, n
<1>4. i \in DOMAIN qt /\ qt[i] = Task
  BY <1>1, <1>2
<1>5. \A j \in DOMAIN qt : qt[j] \in State => j < i
  <2> SUFFICES ASSUME NEW j \in 1 .. m + n, qt[j] \in State PROVE j < i
    BY <1>2
  <2>1. CASE j \in 1 .. m
    BY <1>1, <1>2, <2>1
  <2>2. CASE j \in m + 1 .. m + n
    BY <1>2, <1>3, <2>2, ReactorAssumption
  <2> QED BY <1>2, <2>1, <2>2
<1> QED BY <1>4, <1>5 DEF TaskLast, qt

LEMMA Enqueued ==
    ASSUME NEW q \in Seq(Item), NoRepeats(q), TaskLast(q),
           NEW t \in Seq(Op), NoRepeats(t), ToSet(t) \cap ToSet(q) = {}
    PROVE  /\ q \o t \in Seq(Item) /\ NoRepeats(q \o t) /\ TaskLast(q \o t)
           /\ ToSet(q \o t) = ToSet(q) \cup ToSet(t)
<1>1. t \in Seq(Item)
  <2> Op \subseteq Item
    BY DEF Item
  <2> QED BY SeqMonotonic
<1>2. TaskLast(q \o t)
  BY TaskKept
<1> QED BY <1>1, <1>2, ConcatDistinct

LEMMA Dequeued ==
    ASSUME NEW q \in Seq(Item), NoRepeats(q), TaskLast(q), Head(q) # Task
    PROVE  /\ q # <<>> /\ Head(q) \in ToSet(q) /\ Tail(q) \in Seq(Item)
           /\ NoRepeats(Tail(q)) /\ TaskLast(Tail(q)) /\ ToSet(Tail(q)) = ToSet(q) \ {Head(q)}
<1>1. PICK i \in DOMAIN q : q[i] = Task /\ \A j \in DOMAIN q : q[j] \in State => j < i
  BY DEF TaskLast
<1>2. q # <<>>
  BY <1>1
<1>3. /\ Head(q) \in ToSet(q) /\ Tail(q) \in Seq(Item)
      /\ NoRepeats(Tail(q)) /\ ToSet(Tail(q)) = ToSet(q) \ {Head(q)}
  BY <1>2, TailDistinct
<1> DEFINE l == Len(q)
           r == Tail(q)
<1>4. /\ l \in Nat \ {0} /\ DOMAIN q = 1 .. l /\ Head(q) = q[1] /\ DOMAIN r = 1 .. l - 1
      /\ \A j \in 1 .. l - 1 : r[j] = q[j + 1] /\ j + 1 \in 1 .. l
  BY <1>2
<1> HIDE DEF l, r
<1>5. i - 1 \in 1 .. l - 1 /\ (i - 1) + 1 = i
  BY <1>1, <1>4
<1>6. r[i - 1] = Task
  BY <1>1, <1>4, <1>5
<1>7. \A j \in 1 .. l - 1 : r[j] \in State => j < i - 1
  <2> SUFFICES ASSUME NEW j \in 1 .. l - 1, r[j] \in State PROVE j < i - 1
    OBVIOUS
  <2>1. j + 1 < i
    BY <1>1, <1>4
  <2> QED BY <1>1, <1>4, <2>1
<1>8. TaskLast(r)
  BY <1>4, <1>5, <1>6, <1>7 DEF TaskLast
<1> QED BY <1>2, <1>3, <1>8 DEF r

(* Where run() queues the states, none is left; this is what it relies on. *)
LEMMA TaskInFront ==
    ASSUME NEW q \in Seq(Item), NoRepeats(q), TaskLast(q), Head(q) = Task
    PROVE  /\ q # <<>> /\ ToSet(q) \cap State = {}
           /\ Tail(q) \in Seq(Op) /\ NoRepeats(Tail(q)) /\ ToSet(Tail(q)) = ToSet(q) \ {Task}
<1>1. PICK i \in DOMAIN q : q[i] = Task /\ \A j \in DOMAIN q : q[j] \in State => j < i
  BY DEF TaskLast
<1>2. q # <<>>
  BY <1>1
<1> DEFINE l == Len(q)
<1>3. l \in Nat \ {0} /\ DOMAIN q = 1 .. l /\ q[1] = Task /\ 1 \in 1 .. l
  BY <1>2
<1>4. i = 1
  BY <1>1, <1>3 DEF NoRepeats
<1>5. ToSet(q) \cap State = {}
  <2> SUFFICES ASSUME NEW j \in 1 .. l, q[j] \in State PROVE FALSE
    BY <1>3 DEF ToSet
  <2> QED BY <1>1, <1>3, <1>4
<1>6. NoRepeats(Tail(q)) /\ ToSet(Tail(q)) = ToSet(q) \ {Task} /\ Tail(q) \in Seq(Item)
  BY <1>2, TailDistinct
<1>7. \A x \in ToSet(q) : x \in Item
  BY <1>3 DEF ToSet
<1>8. \A x \in ToSet(Tail(q)) : x \in Op
  BY <1>5, <1>6, <1>7 DEF Item
<1>9. Tail(q) \in Seq(Op)
  BY <1>6, <1>8, SeqOver
<1> QED BY <1>2, <1>5, <1>6, <1>9

LEMMA Requeued ==
    ASSUME NEW q \in Seq(Item), NoRepeats(q), TaskLast(q), Head(q) = Task,
           NEW told \in Seq(State), NoRepeats(told)
    PROVE  LET r == Append(Tail(q) \o told, Task)
           IN  /\ r \in Seq(Item) /\ NoRepeats(r) /\ TaskLast(r)
               /\ ToSet(r) = ToSet(q) \cup ToSet(told)
<1> DEFINE s == Tail(q)
           b == s \o told
           r == Append(b, Task)
<1>1. q # <<>> /\ s \in Seq(Op) /\ NoRepeats(s) /\ ToSet(s) = ToSet(q) \ {Task}
  BY TaskInFront
<1> HIDE DEF s
<1>2. s \in Seq(Op \cup State) /\ told \in Seq(Op \cup State)
  BY <1>1, SeqMonotonic
<1>3. ToSet(s) \subseteq Op /\ ToSet(told) \subseteq State
  BY <1>1 DEF ToSet
<1>4. ToSet(s) \cap ToSet(told) = {}
  BY <1>3, ReactorAssumption
<1>5. /\ b \in Seq(Op \cup State) /\ NoRepeats(b)
      /\ ToSet(b) = ToSet(s) \cup ToSet(told)
  BY <1>1, <1>2, <1>4, ConcatDistinct
<1>6. b \in Seq(Item)
  <2> Op \cup State \subseteq Item
    BY DEF Item
  <2> QED BY <1>5, SeqMonotonic
<1>7. Task \notin ToSet(b) /\ Task \in Item
  BY <1>3, <1>5, ReactorAssumption DEF Item
<1> HIDE DEF b
<1>8. r \in Seq(Item) /\ NoRepeats(r) /\ ToSet(r) = ToSet(b) \cup {Task}
  BY <1>5, <1>6, <1>7, AppendDistinct
<1>9. /\ Len(b) \in Nat /\ DOMAIN r = 1 .. Len(b) + 1 /\ r[Len(b) + 1] = Task
  BY <1>6
<1>10. \A j \in DOMAIN r : r[j] \in State => j < Len(b) + 1
  <2> SUFFICES ASSUME NEW j \in 1 .. Len(b) + 1, j = Len(b) + 1 PROVE r[j] \notin State
    BY <1>9
  <2> QED BY <1>9, ReactorAssumption
<1>11. TaskLast(r)
  <2>1. Len(b) + 1 \in DOMAIN r
    BY <1>9
  <2> QED BY <1>9, <1>10, <2>1 DEF TaskLast
<1>12. Task \in ToSet(q)
  BY <1>1, TailDistinct DEF ToSet
<1> QED BY <1>1, <1>5, <1>8, <1>11, <1>12 DEF b, s
-----------------------------------------------------------------------------
(* What the io_service's count stands for.                                 *)
Busy == Pending \cup Queued \cup ({cur} \ {Nil})

BusyExact ==
    /\ Op \ Idle = Busy /\ Busy \subseteq Op /\ IsFiniteSet(Busy)
    /\ Pending \subseteq Op /\ Queued \subseteq Op

LEMMA BusyFacts == TypeOK => BusyExact
<1> SUFFICES ASSUME TypeOK PROVE BusyExact
  OBVIOUS
<1>1. \A d \in State, k \in Kind : ToSet(opq[d][k]) \subseteq Op
  BY DEF TypeOK, ToSet
<1>2. Pending \subseteq Op
  BY <1>1 DEF Pending
<1>3. Queued \subseteq Op
  BY DEF Queued
<1>4. cur \in Op \cup {Nil} /\ Nil \notin Op
  BY ReactorAssumption DEF TypeOK
<1>5. Busy \subseteq Op
  BY <1>2, <1>3, <1>4 DEF Busy
<1>6. Op \ Idle = Busy
  BY <1>2, <1>3, <1>4 DEF Busy, Idle
<1>7. IsFiniteSet(Busy)
  BY <1>5, FS_Subset, ReactorAssumption
<1> QED BY <1>2, <1>3, <1>5, <1>6, <1>7 DEF BusyExact

Waiting(f) == UNION {ToSet(f[d][k]) : d \in State, k \in Kind}

(* An operation that waits does so in one queue of one state.              *)
LEMMA Unique ==
    ASSUME TypeOK, Attached, NEW d \in State, NEW k \in Kind, NEW e \in State, NEW j \in Kind,
           NEW o \in ToSet(opq[d][k]), o \in ToSet(opq[e][j])
    PROVE  d = e /\ k = j
<1>1. Belongs(o, d, k) /\ Belongs(o, e, j)
  BY DEF Attached
<1> QED BY <1>1 DEF Belongs

Distinct(f) == \A d \in State, k \in Kind : NoRepeats(f[d][k])

(* Queues f without the operations of gone, which wait in opq.             *)
Lacks(f, gone) ==
    /\ f \in [State -> [Kind -> Seq(Op)]] /\ Distinct(f)
    /\ \A d \in State, k \in Kind : ToSet(f[d][k]) = ToSet(opq[d][k]) \ gone
    /\ Waiting(f) = Pending \ gone /\ gone \subseteq Pending

Rest(g, d, gone) ==
    /\ g \in [Kind -> Seq(Op)]
    /\ \A k \in Kind : NoRepeats(g[k]) /\ ToSet(g[k]) = ToSet(opq[d][k]) \ gone
    /\ gone \subseteq ToSet(opq[d]["read"]) \cup ToSet(opq[d]["write"])

LEMMA Removal ==
    ASSUME TypeOK, Attached, Distinct(opq), NEW d \in State, NEW g, NEW gone, Rest(g, d, gone),
           NEW f, f = [opq EXCEPT ![d] = g]
    PROVE  Lacks(f, gone)
<1>0. /\ g \in [Kind -> Seq(Op)]
      /\ \A k \in Kind : NoRepeats(g[k]) /\ ToSet(g[k]) = ToSet(opq[d][k]) \ gone
      /\ gone \subseteq ToSet(opq[d]["read"]) \cup ToSet(opq[d]["write"])
  BY DEF Rest
<1>1. opq \in [State -> [Kind -> Seq(Op)]]
  BY DEF TypeOK
<1>2. f \in [State -> [Kind -> Seq(Op)]]
  BY <1>0, <1>1
<1>3. f[d] = g /\ \A e \in State \ {d} : f[e] = opq[e]
  BY <1>1
<1>4. \A e \in State, k \in Kind : NoRepeats(f[e][k])
  BY <1>0, <1>3 DEF Distinct
<1>5. \A e \in State \ {d}, k \in Kind : ToSet(opq[e][k]) \cap gone = {}
  <2> SUFFICES ASSUME NEW e \in State \ {d}, NEW k \in Kind, NEW o \in gone, o \in ToSet(opq[e][k])
               PROVE  FALSE
    OBVIOUS
  <2>1. \E j \in Kind : o \in ToSet(opq[d][j])
    BY <1>0 DEF Kind
  <2> QED BY <2>1, Unique
<1>6. \A e \in State, k \in Kind : ToSet(f[e][k]) = ToSet(opq[e][k]) \ gone
  BY <1>0, <1>3, <1>5
<1>7. Waiting(f) = Pending \ gone
  BY <1>6 DEF Pending, Waiting
<1>8. gone \subseteq Pending
  BY <1>0 DEF Pending, Kind
<1> QED BY <1>2, <1>4, <1>6, <1>7, <1>8 DEF Lacks, Distinct

LEMMA SameOwners ==
    ASSUME IInv, UNCHANGED <<opq, made, fd, data>>
    PROVE  Attached' /\ (edge' \subseteq edge => Opened')
<1>1. Attached'
  <2> SUFFICES ASSUME NEW d \in State, NEW k \in Kind, NEW o \in ToSet(opq[d][k])
               PROVE  Belongs(o, d, k)'
    BY DEF Attached
  <2>1. Belongs(o, d, k)
    BY DEF IInv, Attached
  <2> QED BY <2>1 DEF Belongs
<1>2. InUse(fd)' = InUse(fd)
  BY DEF InUse
<1> QED BY <1>1, <1>2 DEF IInv, Opened

(* What only lets the invariant's variables alone, or the environment's    *)
(* part of them.                                                           *)
LEMMA SamePlaces ==
    ASSUME IInv, TypeOK', UNCHANGED <<opq, queue, cur, work, made, fd, data>>
    PROVE  /\ WorkExact' /\ OnePlace' /\ Attached' /\ NoRepeats(queue)' /\ TaskLast(queue)'
           /\ (edge' \subseteq edge => Opened')
<1>1. Pending' = Pending /\ Queued' = Queued /\ Idle' = Idle
  BY DEF Pending, Queued, Idle
<1>2. WorkExact'
  BY <1>1 DEF IInv, WorkExact
<1>3. OnePlace'
  BY <1>1 DEF IInv, OnePlace
<1>4. Attached' /\ (edge' \subseteq edge => Opened')
  BY SameOwners
<1>7. NoRepeats(queue)' /\ TaskLast(queue)'
  BY DEF IInv, TaskLast
<1> QED BY <1>2, <1>3, <1>4, <1>7

(* The count follows the operations.                                       *)
LEMMA OneMore ==
    ASSUME TypeOK, TypeOK', WorkExact, NEW o \in Op, o \notin Busy, Busy' = Busy \cup {o},
           work' = work + 1
    PROVE  WorkExact'
<1>1. Op \ Idle = Busy /\ IsFiniteSet(Busy)
  BY BusyFacts DEF BusyExact
<1>2. (Op \ Idle)' = Busy'
  <2>1. TypeOK'
    OBVIOUS
  <2>2. BusyExact'
    BY <2>1, BusyFacts, PTL
  <2> QED BY <2>2 DEF BusyExact
<1>3. Cardinality(Busy \cup {o}) = Cardinality(Busy) + 1
  BY <1>1, FS_AddElement
<1> QED BY <1>1, <1>2, <1>3 DEF WorkExact

LEMMA AsMany ==
    ASSUME TypeOK, TypeOK', WorkExact, Busy' = Busy, work' = work
    PROVE  WorkExact'
<1>1. Op \ Idle = Busy
  BY BusyFacts DEF BusyExact
<1>2. (Op \ Idle)' = Busy'
  <2>1. TypeOK'
    OBVIOUS
  <2>2. BusyExact'
    BY <2>1, BusyFacts, PTL
  <2> QED BY <2>2 DEF BusyExact
<1> QED BY <1>1, <1>2 DEF WorkExact

LEMMA OneLess ==
    ASSUME TypeOK, TypeOK', WorkExact, NEW o \in Busy, Busy' = Busy \ {o}, work' = work - 1
    PROVE  WorkExact'
<1>1. Op \ Idle = Busy /\ IsFiniteSet(Busy)
  BY BusyFacts DEF BusyExact
<1>2. (Op \ Idle)' = Busy'
  <2>1. TypeOK'
    OBVIOUS
  <2>2. BusyExact'
    BY <2>1, BusyFacts, PTL
  <2> QED BY <2>2 DEF BusyExact
<1>3. Cardinality(Busy \ {o}) = Cardinality(Busy) - 1
  BY <1>1, FS_RemoveElement
<1> QED BY <1>1, <1>2, <1>3 DEF WorkExact

LEMMA SomeWork ==
    ASSUME TypeOK, WorkExact, NEW o \in Busy
    PROVE  work \in Nat /\ work > 0
<1>1. Op \ Idle = Busy /\ IsFiniteSet(Busy)
  BY BusyFacts DEF BusyExact
<1>2. Cardinality(Busy) \in Nat /\ Cardinality(Busy) # 0
  BY <1>1, FS_CardinalityType, FS_EmptySet
<1> QED BY <1>1, <1>2 DEF WorkExact
-----------------------------------------------------------------------------
LEMMA InitInv == Init => IInv
<1> SUFFICES ASSUME Init PROVE IInv
  OBVIOUS
<1>1. TypeOK
  <2>1. fd \in [Sock -> Fd \cup {Closed}] /\ data \in [Sock -> State \cup {Nil}]
    BY DEF Init
  <2>2. opq \in [State -> [Kind -> Seq(Op)]] /\ mask \in [State -> SUBSET Kind]
    BY DEF Init
  <2>3. made \in [Op -> [sock : Sock, fd : Fd, kind : Kind] \cup {Unused}]
    BY DEF Init
  <2>4. queue \in Seq(Op \cup State \cup {Task})
    BY DEF Init
  <2> QED BY <2>1, <2>2, <2>3, <2>4 DEF Init, TypeOK
<1>2. /\ \A d \in State, k \in Kind : opq[d][k] = <<>>
      /\ DOMAIN queue = {1} /\ queue[1] = Task
  BY DEF Init
<1>3. Pending = {} /\ Queued = {}
  <2>1. ToSet(queue) = {Task}
    BY <1>2 DEF ToSet
  <2>2. \A d \in State, k \in Kind : ToSet(opq[d][k]) = {}
    BY <1>2 DEF ToSet
  <2> QED BY <2>1, <2>2, ReactorAssumption DEF Pending, Queued
<1>4. WorkExact
  <2>1. Busy = {}
    BY <1>3 DEF Init, Busy
  <2>2. Op \ Idle = {}
    BY <1>1, <2>1, BusyFacts DEF BusyExact
  <2> QED BY <2>2, FS_EmptySet DEF Init, WorkExact
<1>5. OnePlace /\ Attached
  BY <1>2, <1>3 DEF OnePlace, NoRepeats, Attached, ToSet
<1>6. Opened /\ Acts
  BY DEF Init, Opened, Acts
<1>7. NoRepeats(queue) /\ TaskLast(queue)
  BY <1>2, ReactorAssumption DEF NoRepeats, TaskLast
<1> QED BY <1>1, <1>4, <1>5, <1>6, <1>7 DEF IInv
-----------------------------------------------------------------------------
(* Steps that leave operations where they are.                             *)
LEMMA KernelStep == ASSUME IInv, NEW f \in Fd, Arrive(f) \/ Drain(f) PROVE IInv'
<1>1. f \in InUse(fd) /\ edge' \in {edge, edge \cup {f}}
  BY DEF Arrive, Drain
<1>2. TypeOK'
  BY <1>1 DEF IInv, TypeOK, Arrive, Drain, sockets, states, service
<1>3. UNCHANGED <<opq, queue, cur, work, made, fd, data, pc>>
  BY DEF Arrive, Drain, sockets, states, service
<1>4. WorkExact' /\ OnePlace' /\ Attached' /\ NoRepeats(queue)' /\ TaskLast(queue)'
  BY <1>2, <1>3, SamePlaces
<1>5. Opened'
  BY <1>1, <1>3 DEF IInv, Opened, InUse
<1>6. Acts'
  BY <1>3 DEF IInv, Acts
<1> QED BY <1>2, <1>4, <1>5, <1>6 DEF IInv

LEMMA PollStep == ASSUME IInv, Poll PROVE IInv'
<1>1. UNCHANGED <<opq, queue, cur, work, made, fd, data, edge>>
  BY DEF Poll, sockets, states, kernel
<1>2. TypeOK'
  BY DEF IInv, TypeOK, Poll, sockets, states, kernel
<1>3. WorkExact' /\ OnePlace' /\ Attached' /\ NoRepeats(queue)' /\ TaskLast(queue)' /\ Opened'
  BY <1>1, <1>2, SamePlaces
<1>4. Acts'
  BY DEF IInv, Acts, Poll
<1> QED BY <1>2, <1>3, <1>4 DEF IInv

LEMMA OpenStep == ASSUME IInv, NEW s \in Sock, Open(s) PROVE IInv'
<1>1. PICK f \in Lowest(Fd \ InUse(fd)), d \in State \ InUse(data) :
        /\ fd' = [fd EXCEPT ![s] = f] /\ data' = [data EXCEPT ![s] = d]
        /\ \/ rd' = rd /\ edge' = edge
           \/ rd' = rd \cup {f} /\ edge' = edge \cup {f}
        /\ wr' \in {wr, wr \cup {f}}
  BY DEF Open
<1>2. f \in Fd /\ f # Closed /\ d \in State /\ d # Nil /\ fd[s] = Closed /\ data[s] = Nil
  BY <1>1, ReactorAssumption DEF Lowest, Open, Closed, IInv, Opened
<1>3. UNCHANGED <<opq, queue, cur, work, made, pc>>
  BY DEF Open, states, service
<1>4. TypeOK'
  BY <1>1, <1>2 DEF IInv, TypeOK, Open, states, service
<1>5. OnePlace' /\ WorkExact'
  <2>1. Pending' = Pending /\ Queued' = Queued /\ Idle' = Idle
    BY <1>3 DEF Pending, Queued, Idle
  <2> QED BY <1>3, <2>1 DEF IInv, OnePlace, WorkExact
<1>6. Attached'
  <2> SUFFICES ASSUME NEW e \in State, NEW k \in Kind, NEW o \in ToSet(opq[e][k])
               PROVE  /\ data'[made[o].sock] = e /\ fd'[made[o].sock] = made[o].fd
                      /\ made[o].kind = k
    BY <1>3 DEF Attached, Belongs
  <2>1. Belongs(o, e, k)
    BY DEF IInv, Attached
  <2>4. data[made[o].sock] = e /\ fd[made[o].sock] = made[o].fd /\ made[o].kind = k
    BY <2>1 DEF Belongs
  <2>2. made[o].sock # s
    BY <1>2, <2>4, ReactorAssumption
  <2>3. fd \in [Sock -> Fd \cup {Closed}] /\ data \in [Sock -> State \cup {Nil}]
    BY DEF IInv, TypeOK
  <2> QED BY <1>1, <2>4, <2>2, <2>3
<1>7. Opened'
  <2>1. fd \in [Sock -> Fd \cup {Closed}] /\ data \in [Sock -> State \cup {Nil}]
    BY DEF IInv, TypeOK
  <2>2. \A t \in Sock : fd'[t] = Closed <=> data'[t] = Nil
    BY <1>1, <1>2, <2>1 DEF IInv, Opened
  <2>3. InUse(fd) \cup {f} \subseteq InUse(fd)'
    BY <1>1, <1>2, <2>1 DEF InUse
  <2> QED BY <1>1, <2>2, <2>3 DEF IInv, Opened
<1>8. Acts' /\ NoRepeats(queue)' /\ TaskLast(queue)'
  BY <1>3 DEF IInv, Acts, TaskLast
<1> QED BY <1>4, <1>5, <1>6, <1>7, <1>8 DEF IInv
-----------------------------------------------------------------------------
(* Steps that move operations.                                             *)
LEMMA PostFacts ==
    ASSUME IInv, NEW o \in Idle, Post(o), UNCHANGED <<opq, cur, pc>>, TypeOK'
    PROVE  WorkExact' /\ OnePlace' /\ Acts' /\ NoRepeats(queue)' /\ TaskLast(queue)'
<1>1. o \in Op /\ o \notin Pending /\ o \notin Queued /\ o # cur /\ o \notin Busy
  BY DEF Idle, Busy
<1>2. /\ queue \in Seq(Item) /\ NoRepeats(queue) /\ TaskLast(queue) /\ o \notin ToSet(queue)
      /\ queue' = queue \o <<o>>
  BY <1>1 DEF IInv, TypeOK, Item, Queued, Post
<1>3. <<o>> \in Seq(Op) /\ NoRepeats(<<o>>) /\ ToSet(<<o>>) = {o}
  BY <1>1, OneElement
<1>4. NoRepeats(queue') /\ TaskLast(queue') /\ ToSet(queue') = ToSet(queue) \cup {o}
  <2> DEFINE t == <<o>>
  <2> HIDE DEF t
  <2>1. t \in Seq(Op) /\ NoRepeats(t) /\ ToSet(t) = {o} /\ queue' = queue \o t
    BY <1>2, <1>3 DEF t
  <2>2. ToSet(t) \cap ToSet(queue) = {}
    BY <1>2, <2>1
  <2> QED BY <1>2, <2>1, <2>2, Enqueued
<1>5. Pending' = Pending /\ Queued' = Queued \cup {o} /\ Busy' = Busy \cup {o}
  BY <1>1, <1>4 DEF Pending, Queued, Busy
<1>6. WorkExact'
  <2>1. TypeOK /\ WorkExact /\ work' = work + 1
    BY DEF IInv, Post
  <2> QED BY <1>1, <1>5, <2>1, OneMore
<1>7. OnePlace'
  BY <1>1, <1>5 DEF IInv, OnePlace
<1>8. Acts'
  BY DEF IInv, Acts
<1> QED BY <1>4, <1>6, <1>7, <1>8 DEF TaskLast, NoRepeats

LEMMA StartClosedStep ==
    ASSUME IInv, NEW s \in Sock, NEW o \in Op, StartOpClosed(s, o) PROVE IInv'
<1>1. o \in Idle /\ Post(o) /\ UNCHANGED <<opq, out, mask, made, fd, data, rd, wr, edge, stopped, pc, cur>>
  BY DEF StartOpClosed, sockets, states, kernel
<1>2. TypeOK'
  BY <1>1 DEF IInv, TypeOK, Post
<1>3. WorkExact' /\ OnePlace' /\ Acts' /\ NoRepeats(queue)' /\ TaskLast(queue)'
  BY <1>1, <1>2, PostFacts
<1>4. Attached' /\ Opened'
  BY <1>1, SameOwners
<1> QED BY <1>2, <1>3, <1>4 DEF IInv

LEMMA StartStep ==
    ASSUME IInv, NEW s \in Sock, NEW k \in Kind, NEW o \in Op, NEW speculative \in BOOLEAN,
           StartOp(s, k, o, speculative)
    PROVE  IInv'
<1> DEFINE f == fd[s]
           d == data[s]
<1>1. o \in Idle /\ f # Closed /\ UNCHANGED <<fd, data, mask, stopped, pc, cur>>
  BY DEF StartOp, StartOn, sockets
<1>2. f \in Fd /\ d \in State /\ f \in InUse(fd)
  BY <1>1 DEF IInv, TypeOK, Opened, InUse
<1>3. o \in Op /\ o \notin Pending /\ o \notin Queued /\ o # cur /\ o \notin Busy
  BY <1>1 DEF Idle, Busy
<1>4. CASE Consume(f, k) /\ Post(o) /\ UNCHANGED <<opq, out, edge, made>>
  <2>1. rd' \subseteq rd /\ wr' \subseteq wr
    BY <1>4 DEF Consume
  <2>2. TypeOK'
    BY <1>1, <1>4, <2>1 DEF IInv, TypeOK, Post
  <2>3. WorkExact' /\ OnePlace' /\ Acts' /\ NoRepeats(queue)' /\ TaskLast(queue)'
    BY <1>1, <1>4, <2>2, PostFacts
  <2>4. Attached' /\ Opened'
    BY <1>1, <1>4, SameOwners
  <2> QED BY <2>2, <2>3, <2>4 DEF IInv
<1>5. CASE /\ opq' = [opq EXCEPT ![d][k] = Append(@, o)] /\ work' = work + 1
           /\ made' = [made EXCEPT ![o] = [sock |-> s, fd |-> f, kind |-> k]]
           /\ out' \in {out, out \cup {d}} /\ edge' \in {edge, edge \cup {f}}
           /\ UNCHANGED <<rd, wr, queue>>
  <2>1. opq \in [State -> [Kind -> Seq(Op)]]
    BY DEF IInv, TypeOK
  <2> DEFINE q == opq[d][k]
  <2>2. q \in Seq(Op) /\ NoRepeats(q) /\ o \notin ToSet(q)
    BY <1>2, <1>3, <2>1 DEF IInv, OnePlace, Pending
  <2>3. Append(q, o) \in Seq(Op) /\ NoRepeats(Append(q, o)) /\ ToSet(Append(q, o)) = ToSet(q) \cup {o}
    BY <2>2, AppendDistinct
  <2>4. /\ opq' \in [State -> [Kind -> Seq(Op)]] /\ opq'[d][k] = Append(q, o)
        /\ \A e \in State, j \in Kind : opq'[e][j] = opq[e][j] \/ (e = d /\ j = k)
    BY <1>2, <1>5, <2>1, <2>3
  <2>5. TypeOK'
    <3>1. made' \in [Op -> [sock : Sock, fd : Fd, kind : Kind] \cup {Unused}]
      BY <1>2, <1>5 DEF IInv, TypeOK
    <3> QED BY <1>1, <1>2, <1>5, <2>4, <3>1 DEF IInv, TypeOK
  <2> HIDE DEF q
  <2>6. \A e \in State, j \in Kind : NoRepeats(opq'[e][j])
    BY <2>3, <2>4 DEF IInv, OnePlace
  <2>7. \A e \in State, j \in Kind :
            ToSet(opq'[e][j]) = ToSet(opq[e][j]) \cup (IF e = d /\ j = k THEN {o} ELSE {})
    BY <2>3, <2>4 DEF q
  <2>8. Pending' = Pending \cup {o}
    <3>1. Pending' = UNION {ToSet(opq'[e][j]) : e \in State, j \in Kind}
      BY DEF Pending
    <3>2. \A x : x \in Pending' <=> \E e \in State, j \in Kind : x \in ToSet(opq'[e][j])
      BY <3>1
    <3>3. \A x : x \in Pending <=> \E e \in State, j \in Kind : x \in ToSet(opq[e][j])
      BY DEF Pending
    <3>4. \A x \in Pending' : x \in Pending \/ x = o
      BY <2>7, <3>2, <3>3
    <3>5. \A x \in Pending : x \in Pending'
      BY <2>7, <3>2, <3>3
    <3>6. o \in ToSet(opq'[d][k])
      BY <1>2, <2>7
    <3>7. o \in Pending'
      BY <1>2, <3>2, <3>6
    <3> QED BY <3>4, <3>5, <3>7
  <2>9. Queued' = Queued /\ Busy' = Busy \cup {o}
    BY <1>1, <1>5, <2>8 DEF Queued, Busy
  <2>10. WorkExact'
    <3>1. TypeOK /\ WorkExact /\ work' = work + 1
      BY <1>5 DEF IInv
    <3> QED BY <1>3, <2>5, <2>9, <3>1, OneMore
  <2>11. OnePlace'
    BY <1>1, <1>3, <2>6, <2>8, <2>9 DEF IInv, OnePlace
  <2>12. Attached'
    <3> SUFFICES ASSUME NEW e \in State, NEW j \in Kind, NEW p \in ToSet(opq'[e][j])
                 PROVE  Belongs(p, e, j)'
      BY DEF Attached
    <3>1. made \in [Op -> [sock : Sock, fd : Fd, kind : Kind] \cup {Unused}]
      BY DEF IInv, TypeOK
    <3>2. CASE p = o
      <4>1. e = d /\ j = k
        BY <1>3, <2>7, <3>2 DEF Pending
      <4>2. made'[o] = [sock |-> s, fd |-> f, kind |-> k]
        BY <1>5, <3>1
      <4> QED BY <1>1, <3>2, <4>1, <4>2 DEF Belongs
    <3>3. CASE p # o
      <4>1. p \in ToSet(opq[e][j])
        BY <2>7, <3>3
      <4>2. Belongs(p, e, j)
        BY <4>1 DEF IInv, Attached
      <4>3. p \in Op
        BY <2>1, <4>1 DEF ToSet
      <4>4. made'[p] = made[p]
        BY <1>5, <3>1, <3>3, <4>3
      <4> QED BY <1>1, <4>2, <4>4 DEF Belongs
    <3> QED BY <3>2, <3>3
  <2>13. Opened'
    BY <1>1, <1>2, <1>5 DEF IInv, Opened, InUse
  <2>14. Acts' /\ NoRepeats(queue)' /\ TaskLast(queue)'
    BY <1>1, <1>5 DEF IInv, Acts, TaskLast
  <2> QED BY <2>5, <2>10, <2>11, <2>12, <2>13, <2>14 DEF IInv
<1> QED BY <1>4, <1>5 DEF StartOp, StartOn, Rearmed

LEMMA CloseStep == ASSUME IInv, NEW s \in Sock, Close(s) PROVE IInv'
<1> DEFINE d == data[s]
           r == opq[d]["read"]
           w == opq[d]["write"]
           g == [k \in Kind |-> <<>>]
           gone == ToSet(r) \cup ToSet(w)
<1>1. /\ fd[s] # Closed /\ queue' = queue \o r \o w /\ opq' = [opq EXCEPT ![d] = g]
      /\ made' = Without(made, r \o w)
      /\ fd' = [fd EXCEPT ![s] = Closed] /\ data' = [data EXCEPT ![s] = Nil]
      /\ rd' = rd \ {fd[s]} /\ wr' = wr \ {fd[s]} /\ edge' = edge \ {fd[s]}
      /\ out' = out \ {d} /\ UNCHANGED <<mask, work, stopped, pc, cur>>
  BY DEF Close
<1>2. /\ fd \in [Sock -> Fd \cup {Closed}] /\ data \in [Sock -> State \cup {Nil}]
      /\ opq \in [State -> [Kind -> Seq(Op)]]
      /\ made \in [Op -> [sock : Sock, fd : Fd, kind : Kind] \cup {Unused}]
      /\ queue \in Seq(Item)
  BY DEF IInv, TypeOK, Item
<1>3. d \in State /\ "read" \in Kind /\ "write" \in Kind /\ Kind = {"read", "write"}
  BY <1>1, <1>2 DEF IInv, Opened, Kind
<1>4. r \in Seq(Op) /\ w \in Seq(Op) /\ NoRepeats(r) /\ NoRepeats(w)
  BY <1>2, <1>3 DEF IInv, OnePlace
<1>5. ToSet(r) \cap ToSet(w) = {}
  <2> SUFFICES ASSUME NEW o \in ToSet(r), o \in ToSet(w) PROVE FALSE
    OBVIOUS
  <2>1. TypeOK /\ Attached
    BY DEF IInv
  <2>2. "read" = "write"
    BY <1>3, <2>1, Unique
  <2> QED BY <2>2
<1>6. g \in [Kind -> Seq(Op)] /\ \A k \in Kind : NoRepeats(g[k]) /\ ToSet(g[k]) = {}
  BY DEF NoRepeats, ToSet
<1>7. \A k \in Kind : ToSet(g[k]) = ToSet(opq[d][k]) \ gone
  BY <1>3, <1>6
<1> HIDE DEF g
<1>8. /\ opq' \in [State -> [Kind -> Seq(Op)]]
      /\ \A e \in State, k \in Kind : NoRepeats(opq'[e][k])
      /\ \A e \in State, k \in Kind : ToSet(opq'[e][k]) = ToSet(opq[e][k]) \ gone
      /\ Waiting(opq') = Pending \ gone
      /\ gone \subseteq Pending
  <2>1. TypeOK /\ Attached /\ Distinct(opq)
    BY DEF IInv, OnePlace, Distinct
  <2>2. Rest(g, d, gone)
    BY <1>6, <1>7 DEF Rest
  <2>3. opq' = [opq EXCEPT ![d] = g] /\ d \in State
    BY <1>1, <1>3
  <2> HIDE DEF gone, d
  <2>4. Lacks(opq', gone)
    BY <2>1, <2>2, <2>3, Removal
  <2> QED BY <2>4 DEF Lacks, Distinct
<1> HIDE DEF d, r, w
<1>9. gone \subseteq Op /\ gone \cap ToSet(queue) = {}
  <2>1. gone \subseteq Op
    BY <1>4 DEF ToSet
  <2> QED BY <1>8, <2>1 DEF IInv, OnePlace, Queued
<1>10. /\ queue' \in Seq(Item) /\ NoRepeats(queue') /\ TaskLast(queue')
       /\ ToSet(queue') = ToSet(queue) \cup gone
  <2> DEFINE q == queue \o r
  <2>1. /\ q \in Seq(Item) /\ NoRepeats(q) /\ TaskLast(q) /\ ToSet(q) = ToSet(queue) \cup ToSet(r)
    <3>1. NoRepeats(queue) /\ TaskLast(queue) /\ ToSet(r) \cap ToSet(queue) = {}
      BY <1>9 DEF IInv
    <3> QED BY <1>2, <1>4, <3>1, Enqueued
  <2>2. ToSet(w) \cap ToSet(q) = {}
    BY <1>5, <1>9, <2>1
  <2>3. queue' = q \o w
    BY <1>1
  <2> HIDE DEF q
  <2> QED BY <1>4, <2>1, <2>2, <2>3, Enqueued
<1>11. ToSet(r \o w) = gone
  BY <1>4, <1>5, ConcatDistinct
<1>12. made' = [o \in Op |-> IF o \in gone THEN Unused ELSE made[o]]
  BY <1>1, <1>11 DEF Without
<1> HIDE DEF gone
<1>13. TypeOK'
  <2>1. made' \in [Op -> [sock : Sock, fd : Fd, kind : Kind] \cup {Unused}]
    BY <1>2, <1>12
  <2>2. fd' \in [Sock -> Fd \cup {Closed}] /\ data' \in [Sock -> State \cup {Nil}]
    BY <1>1, <1>2
  <2> QED BY <1>1, <1>8, <1>10, <2>1, <2>2 DEF IInv, TypeOK, Item
<1>14. Pending' = Pending \ gone /\ Queued' = Queued \cup gone
  <2>1. Pending' = Waiting(opq')
    BY DEF Pending, Waiting
  <2>2. Pending' = Pending \ gone
    BY <1>8, <2>1
  <2>3. Queued' = Queued \cup gone
    BY <1>9, <1>10 DEF Queued
  <2> QED BY <2>2, <2>3
<1>15. Busy' = Busy
  BY <1>1, <1>8, <1>14 DEF Busy
<1>16. WorkExact'
  <2>1. TypeOK /\ WorkExact
    BY DEF IInv
  <2> QED BY <1>1, <1>13, <1>15, <2>1, AsMany
<1>17. OnePlace'
  BY <1>1, <1>8, <1>14 DEF IInv, OnePlace
<1>18. Attached'
  <2> SUFFICES ASSUME NEW e \in State, NEW k \in Kind, NEW o \in ToSet(opq'[e][k])
               PROVE  Belongs(o, e, k)'
    BY DEF Attached
  <2>1. o \in ToSet(opq[e][k]) /\ o \notin gone
    BY <1>8
  <2>2. Belongs(o, e, k)
    BY <2>1 DEF IInv, Attached
  <2>3. o \in Op
    BY <1>2, <2>1 DEF ToSet
  <2>4. made'[o] = made[o]
    BY <1>12, <2>1, <2>3
  <2>5. e # d
    BY <1>3, <2>1 DEF gone, r, w
  <2>6. made[o].sock # s
    BY <2>2, <2>5 DEF Belongs, d
  <2> QED BY <1>1, <1>2, <2>2, <2>4, <2>6 DEF Belongs
<1>19. Opened'
  <2>1. \A t \in Sock : fd'[t] = Closed <=> data'[t] = Nil
    BY <1>1, <1>2 DEF IInv, Opened
  <2>2. \A t \in Sock : fd[t] # fd[s] => fd'[t] = fd[t]
    BY <1>1, <1>2
  <2>3. edge' \subseteq InUse(fd)'
    BY <1>1, <2>2 DEF IInv, Opened, InUse
  <2> QED BY <2>1, <2>3 DEF Opened
<1>20. Acts'
  BY <1>1 DEF IInv, Acts
<1>21. NoRepeats(queue)' /\ TaskLast(queue)'
  BY <1>10 DEF NoRepeats, TaskLast
<1> QED BY <1>13, <1>16, <1>17, <1>18, <1>19, <1>20, <1>21 DEF IInv

LEMMA RunOpStep == ASSUME IInv, RunOp PROVE IInv'
<1> DEFINE h == Head(queue)
<1>1. /\ pc = "poll" /\ h \in Op /\ queue' = Tail(queue) /\ cur' = h /\ pc' = "handler"
      /\ UNCHANGED <<fd, data, opq, out, mask, made, rd, wr, edge, work, stopped>>
  BY DEF RunOp, sockets, states, kernel
<1> HIDE DEF h
<1>2. cur = Nil /\ h # Nil /\ h # Task
  BY <1>1, ReactorAssumption DEF IInv, Acts
<1>3. /\ h \in ToSet(queue) /\ Tail(queue) \in Seq(Item) /\ NoRepeats(Tail(queue))
      /\ TaskLast(Tail(queue)) /\ ToSet(Tail(queue)) = ToSet(queue) \ {h}
  <2>1. queue \in Seq(Item) /\ NoRepeats(queue) /\ TaskLast(queue)
    BY DEF IInv, TypeOK, Item
  <2> QED BY <1>2, <2>1, Dequeued DEF h
<1>4. Queued' = Queued \ {h} /\ h \in Queued /\ Pending' = Pending
  BY <1>1, <1>3 DEF Queued, Pending
<1>5. Busy' = Busy
  BY <1>1, <1>2, <1>4 DEF Busy
<1>6. TypeOK'
  BY <1>1, <1>3 DEF IInv, TypeOK, Item
<1>7. WorkExact'
  <2>1. TypeOK /\ WorkExact
    BY DEF IInv
  <2> QED BY <1>1, <1>5, <1>6, <2>1, AsMany
<1>8. OnePlace'
  BY <1>1, <1>4 DEF IInv, OnePlace
<1>9. Attached' /\ Opened'
  BY <1>1, SameOwners
<1>10. Acts' /\ NoRepeats(queue)' /\ TaskLast(queue)'
  BY <1>1, <1>2, <1>3 DEF Acts, NoRepeats, TaskLast
<1> QED BY <1>6, <1>7, <1>8, <1>9, <1>10 DEF IInv

LEMMA FinishStep == ASSUME IInv, Finish PROVE IInv'
<1>1. /\ pc = "handler" /\ cur' = Nil /\ work' = work - 1
      /\ stopped' = (work' = 0) /\ pc' \in {"main", "poll"}
      /\ UNCHANGED <<fd, data, opq, out, mask, made, rd, wr, edge, queue>>
  BY DEF Finish, sockets, states, kernel
<1>2. cur # Nil /\ cur \in Busy /\ cur \notin Pending /\ cur \notin Queued
  BY <1>1 DEF IInv, Acts, Busy, OnePlace
<1>3. Pending' = Pending /\ Queued' = Queued
  BY <1>1 DEF Pending, Queued
<1>4. Busy' = Busy \ {cur}
  BY <1>1, <1>2, <1>3 DEF Busy
<1>5. TypeOK /\ WorkExact
  BY DEF IInv
<1>6. work \in Nat /\ work > 0
  BY <1>2, <1>5, SomeWork
<1>7. TypeOK'
  <2>1. work' \in Nat /\ stopped' \in BOOLEAN
    BY <1>1, <1>6
  <2> QED BY <1>1, <2>1 DEF IInv, TypeOK
<1>8. WorkExact'
  BY <1>1, <1>2, <1>4, <1>5, <1>7, OneLess
<1>9. OnePlace'
  <2>1. Nil \notin Pending \cup Queued
    BY <1>5, BusyFacts, ReactorAssumption DEF BusyExact
  <2> QED BY <1>1, <1>3, <2>1 DEF IInv, OnePlace
<1>10. Attached' /\ Opened'
  BY <1>1, SameOwners
<1>11. Acts' /\ NoRepeats(queue)' /\ TaskLast(queue)'
  BY <1>1 DEF IInv, Acts, TaskLast
<1> QED BY <1>7, <1>8, <1>9, <1>10, <1>11 DEF IInv

(* The states that events are told to, each once, in some order.           *)
LEMMA ToldOnce ==
    ASSUME NEW S \in SUBSET State, NEW told \in SetToSeqs(S)
    PROVE  told \in Seq(State) /\ NoRepeats(told) /\ ToSet(told) \subseteq State
<1> DEFINE n == Cardinality(S)
<1>1. IsFiniteSet(S)
  BY FS_Subset, ReactorAssumption
<1>2. n \in Nat
  BY <1>1, FS_CardinalityType
<1>3. told \in [1 .. n -> S] /\ \A i, j \in 1 .. n : i # j => told[i] # told[j]
  BY DEF SetToSeqs
<1> HIDE DEF n
<1>4. told \in [1 .. n -> State] /\ DOMAIN told = 1 .. n
  BY <1>3
<1>5. told \in Seq(State)
  BY <1>2, <1>4, SeqDef
<1> QED BY <1>3, <1>4, <1>5 DEF NoRepeats, ToSet

LEMMA RunTaskStep == ASSUME IInv, RunTask PROVE IInv'
<1> DEFINE S == {Registered(f) : f \in Told}
<1>1. /\ pc = "poll" /\ Head(queue) = Task
      /\ \E told \in SetToSeqs(S) : queue' = Append(Tail(queue) \o told, Task)
      /\ mask' = [d \in State |->
                    IF \E f \in Told : Registered(f) = d
                    THEN Events(CHOOSE f \in Told : Registered(f) = d) ELSE mask[d]]
      /\ edge' = {} /\ pc' \in {"main", "poll"}
      /\ UNCHANGED <<fd, data, opq, out, made, rd, wr, work, stopped, cur>>
  BY DEF RunTask, RunTaskThen, sockets
<1>2. S \subseteq State
  <2> SUFFICES ASSUME NEW f \in Told PROVE Registered(f) \in State
    OBVIOUS
  <2>1. \E s \in Sock : fd[s] = f /\ fd[s] # Closed
    BY DEF Told, IInv, Opened, InUse
  <2>2. Owner(f) \in Sock /\ fd[Owner(f)] = f /\ f # Closed
    BY <2>1 DEF Owner
  <2>3. data[Owner(f)] # Nil
    BY <2>2 DEF IInv, Opened
  <2> QED BY <2>2, <2>3 DEF IInv, TypeOK, Registered
<1> HIDE DEF S
<1>3. PICK told \in SetToSeqs(S) : queue' = Append(Tail(queue) \o told, Task)
  BY <1>1
<1>4. told \in Seq(State) /\ NoRepeats(told) /\ ToSet(told) \subseteq State
  BY <1>2, ToldOnce
<1>5. /\ queue' \in Seq(Item) /\ NoRepeats(queue') /\ TaskLast(queue')
      /\ ToSet(queue') = ToSet(queue) \cup ToSet(told)
  <2>1. queue \in Seq(Item) /\ NoRepeats(queue) /\ TaskLast(queue) /\ Head(queue) = Task
    BY <1>1 DEF IInv, TypeOK, Item
  <2> HIDE DEF Item
  <2> QED BY <1>3, <1>4, <2>1, Requeued
<1>6. Queued' = Queued /\ Pending' = Pending
  BY <1>1, <1>4, <1>5, ReactorAssumption DEF Queued, Pending
<1>7. Busy' = Busy
  BY <1>1, <1>6 DEF Busy
<1>8. TypeOK'
  <2>1. mask' \in [State -> SUBSET Kind]
    <3>1. \A f : Events(f) \subseteq Kind
      BY DEF Events
    <3> QED BY <1>1, <3>1 DEF IInv, TypeOK
  <2> QED BY <1>1, <1>5, <2>1 DEF IInv, TypeOK, Item
<1>9. WorkExact'
  <2>1. TypeOK /\ WorkExact
    BY DEF IInv
  <2> QED BY <1>1, <1>7, <1>8, <2>1, AsMany
<1>10. OnePlace'
  BY <1>1, <1>6 DEF IInv, OnePlace
<1>11. Attached' /\ Opened'
  BY <1>1, SameOwners
<1>12. Acts' /\ NoRepeats(queue)' /\ TaskLast(queue)'
  BY <1>1, <1>5 DEF IInv, Acts, NoRepeats, TaskLast
<1> QED BY <1>8, <1>9, <1>10, <1>11, <1>12 DEF IInv

(* A state is run.  None or some of its operations finish, those of each   *)
(* kind that wait longest.                                                 *)
Done(d, n, m) == SubSeq(opq[d]["write"], 1, n) \o SubSeq(opq[d]["read"], 1, m)
Remain(d, n, m) == [k \in Kind |-> LET i == IF k = "read" THEN m ELSE n
                                   IN  SubSeq(opq[d][k], i + 1, Len(opq[d][k]))]

LEMMA DoneFacts ==
    ASSUME IInv, NEW d \in State,
           NEW n \in 0 .. Len(opq[d]["write"]), NEW m \in 0 .. Len(opq[d]["read"]),
           opq' = [opq EXCEPT ![d] = Remain(d, n, m)]
    PROVE  /\ Done(d, n, m) \in Seq(Op) /\ NoRepeats(Done(d, n, m))
           /\ Lacks(opq', ToSet(Done(d, n, m)))
<1> DEFINE r == opq[d]["read"]
           w == opq[d]["write"]
           fr == SubSeq(r, 1, m)
           br == SubSeq(r, m + 1, Len(r))
           fw == SubSeq(w, 1, n)
           bw == SubSeq(w, n + 1, Len(w))
           g == Remain(d, n, m)
           finished == Done(d, n, m)
           gone == ToSet(finished)
<1>1. "read" \in Kind /\ "write" \in Kind /\ Kind = {"read", "write"}
  BY DEF Kind
<1>2. r \in Seq(Op) /\ w \in Seq(Op) /\ NoRepeats(r) /\ NoRepeats(w)
  BY <1>1 DEF IInv, OnePlace, TypeOK
<1>3. ToSet(r) \cap ToSet(w) = {}
  <2> SUFFICES ASSUME NEW o \in ToSet(r), o \in ToSet(w) PROVE FALSE
    OBVIOUS
  <2>1. TypeOK /\ Attached
    BY DEF IInv
  <2>2. "read" = "write"
    BY <1>1, <2>1, Unique
  <2> QED BY <2>2
<1>4. opq' = [opq EXCEPT ![d] = g] /\ finished = fw \o fr
  BY DEF Done
<1>5. g = [k \in Kind |-> IF k = "read" THEN br ELSE bw]
  BY <1>1 DEF Remain
<1> HIDE DEF g, finished
<1>6. n \in 0 .. Len(w) /\ m \in 0 .. Len(r)
  OBVIOUS
<1> HIDE DEF r, w
<1>7. /\ fr \in Seq(Op) /\ NoRepeats(fr) /\ br \in Seq(Op) /\ NoRepeats(br)
      /\ ToSet(fr) \cap ToSet(br) = {} /\ ToSet(fr) \cup ToSet(br) = ToSet(r)
  BY <1>2, <1>6, SplitDistinct
<1>8. /\ fw \in Seq(Op) /\ NoRepeats(fw) /\ bw \in Seq(Op) /\ NoRepeats(bw)
      /\ ToSet(fw) \cap ToSet(bw) = {} /\ ToSet(fw) \cup ToSet(bw) = ToSet(w)
  BY <1>2, <1>6, SplitDistinct
<1> HIDE DEF fr, br, fw, bw
<1>9. /\ finished \in Seq(Op) /\ NoRepeats(finished) /\ gone = ToSet(fw) \cup ToSet(fr)
  <2>1. ToSet(fw) \cap ToSet(fr) = {}
    BY <1>3, <1>7, <1>8
  <2>2. /\ fw \o fr \in Seq(Op) /\ NoRepeats(fw \o fr)
        /\ ToSet(fw \o fr) = ToSet(fw) \cup ToSet(fr)
    BY <1>7, <1>8, <2>1, ConcatDistinct
  <2> QED BY <1>4, <2>2
<1> HIDE DEF gone
<1>10. ToSet(br) = ToSet(r) \ gone /\ ToSet(bw) = ToSet(w) \ gone
  BY <1>3, <1>7, <1>8, <1>9
<1>11. g \in [Kind -> Seq(Op)]
  BY <1>5, <1>7, <1>8
<1>12. \A k \in Kind : NoRepeats(g[k]) /\ ToSet(g[k]) = ToSet(opq[d][k]) \ gone
  <2>1. g["read"] = br /\ g["write"] = bw
    BY <1>1, <1>5
  <2> QED BY <1>1, <1>7, <1>8, <1>10, <2>1 DEF r, w
<1>13. gone \subseteq ToSet(opq[d]["read"]) \cup ToSet(opq[d]["write"])
  BY <1>7, <1>8, <1>9 DEF r, w
<1>14. TypeOK /\ Attached /\ Distinct(opq)
  BY DEF IInv, OnePlace, Distinct
<1>15. Rest(g, d, gone)
  BY <1>11, <1>12, <1>13 DEF Rest
<1>16. Lacks(opq', gone)
  BY <1>4, <1>14, <1>15, Removal
<1> QED BY <1>9, <1>16 DEF gone, finished

LEMMA RunStateStep == ASSUME IInv, RunState PROVE IInv'
<1> DEFINE d == Head(queue)
           r == opq[d]["read"]
           w == opq[d]["write"]
           t == Tail(queue)
<1>1. /\ pc = "poll" /\ d \in State
      /\ \E n \in Performed(d, "write"), m \in Performed(d, "read") :
           LET finished == SubSeq(w, 1, n) \o SubSeq(r, 1, m)
           IN  /\ made' = Without(made, finished) /\ mask' = [mask EXCEPT ![d] = {}]
               /\ wr' \in Left(wr, w, n) /\ rd' \in Left(rd, r, m)
               /\ opq' = [opq EXCEPT ![d] = [k \in Kind |->
                               LET i == IF k = "read" THEN m ELSE n
                               IN  SubSeq(opq[d][k], i + 1, Len(opq[d][k]))]]
               /\ IF finished = <<>>
                  THEN /\ queue' = t
                       /\ work' = work + 0 /\ stopped' = (work' = 0)
                       /\ pc' = (IF stopped' THEN "main" ELSE "poll")
                       /\ UNCHANGED cur
                  ELSE /\ queue' = t \o Tail(finished) /\ cur' = Head(finished)
                       /\ pc' = "handler" /\ work' = work + 0 /\ UNCHANGED stopped
      /\ UNCHANGED <<fd, data, out, edge>>
  BY DEF RunState, PerformIo, sockets
<1>2. PICK n \in Performed(d, "write"), m \in Performed(d, "read") :
           LET finished == SubSeq(w, 1, n) \o SubSeq(r, 1, m)
           IN  /\ made' = Without(made, finished) /\ mask' = [mask EXCEPT ![d] = {}]
               /\ wr' \in Left(wr, w, n) /\ rd' \in Left(rd, r, m)
               /\ opq' = [opq EXCEPT ![d] = [k \in Kind |->
                               LET i == IF k = "read" THEN m ELSE n
                               IN  SubSeq(opq[d][k], i + 1, Len(opq[d][k]))]]
               /\ IF finished = <<>>
                  THEN /\ queue' = t
                       /\ work' = work + 0 /\ stopped' = (work' = 0)
                       /\ pc' = (IF stopped' THEN "main" ELSE "poll")
                       /\ UNCHANGED cur
                  ELSE /\ queue' = t \o Tail(finished) /\ cur' = Head(finished)
                       /\ pc' = "handler" /\ work' = work + 0 /\ UNCHANGED stopped
  BY <1>1
<1> DEFINE finished == SubSeq(w, 1, n) \o SubSeq(r, 1, m)
           gone == ToSet(finished)
<1>3. /\ n \in 0 .. Len(w) /\ m \in 0 .. Len(r)
  <2>1. w \in Seq(Op) /\ r \in Seq(Op)
    BY <1>1, SMTT(30) DEF IInv, TypeOK, Kind
  <2>2. Len(w) \in Nat /\ Len(r) \in Nat
    BY <2>1
  <2>3. n \in {0} \cup 1 .. Len(w) /\ m \in {0} \cup 1 .. Len(r)
    BY DEF Performed
  <2> HIDE DEF w, r
  <2> QED BY <2>2, <2>3
<1>4. /\ finished \in Seq(Op) /\ NoRepeats(finished)
      /\ gone \subseteq Pending /\ Pending' = Pending \ gone
      /\ opq' \in [State -> [Kind -> Seq(Op)]]
      /\ \A e \in State, k \in Kind : NoRepeats(opq'[e][k])
      /\ \A e \in State, k \in Kind : ToSet(opq'[e][k]) = ToSet(opq[e][k]) \ gone
  <2>1. finished = Done(d, n, m)
    BY DEF Done
  <2>2. opq' = [opq EXCEPT ![d] = Remain(d, n, m)]
    BY <1>2 DEF Remain
  <2>3. d \in State /\ n \in 0 .. Len(opq[d]["write"]) /\ m \in 0 .. Len(opq[d]["read"])
    BY <1>1, <1>3
  <2> HIDE DEF d, finished
  <2>4. /\ Done(d, n, m) \in Seq(Op) /\ NoRepeats(Done(d, n, m))
        /\ Lacks(opq', ToSet(Done(d, n, m)))
    BY <2>2, <2>3, DoneFacts
  <2>5. Pending' = Waiting(opq')
    BY DEF Pending, Waiting
  <2> QED BY <2>1, <2>4, <2>5 DEF Lacks, Distinct
<1>5. /\ made' = Without(made, finished) /\ mask' = [mask EXCEPT ![d] = {}]
      /\ wr' \in Left(wr, w, n) /\ rd' \in Left(rd, r, m) /\ work' = work + 0
      /\ \/ /\ finished = <<>> /\ queue' = t /\ stopped' = (work' = 0)
            /\ pc' \in {"main", "poll"} /\ cur' = cur
         \/ /\ finished # <<>> /\ queue' = t \o Tail(finished) /\ cur' = Head(finished)
            /\ pc' = "handler" /\ stopped' = stopped
      /\ UNCHANGED <<fd, data, out, edge>>
  BY <1>1, <1>2
<1> HIDE DEF finished
<1>6. cur = Nil /\ d # Task /\ d \notin Op
  BY <1>1, ReactorAssumption DEF IInv, Acts
<1>7. /\ t \in Seq(Item) /\ NoRepeats(t) /\ TaskLast(t) /\ ToSet(t) = ToSet(queue) \ {d}
  <2>1. queue \in Seq(Item) /\ NoRepeats(queue) /\ TaskLast(queue)
    BY DEF IInv, TypeOK, Item
  <2> QED BY <1>6, <2>1, Dequeued
<1> HIDE DEF d, r, w, t
<1>8. gone \subseteq Op /\ gone \cap ToSet(queue) = {} /\ gone \cap Queued = {}
  <2>1. gone \subseteq Op
    BY <1>4 DEF ToSet
  <2> QED BY <1>4, <2>1 DEF IInv, OnePlace, Queued
<1>9. /\ queue' \in Seq(Item) /\ NoRepeats(queue') /\ TaskLast(queue')
      /\ cur' \in Op \cup {Nil} /\ (cur' # Nil <=> pc' = "handler")
      /\ pc' \in {"main", "poll", "handler"}
      /\ gone = (ToSet(queue') \ ToSet(t)) \cup ({cur'} \ {Nil})
      /\ ToSet(t) \subseteq ToSet(queue') /\ cur' \notin ToSet(queue')
  <2>1. CASE finished = <<>>
    <3>1. gone = {}
      BY <2>1 DEF ToSet
    <3>2. queue' = t /\ cur' = Nil /\ pc' \in {"main", "poll"}
      BY <1>5, <1>6, <2>1
    <3>3. Nil \notin ToSet(queue')
      <4> Nil \notin Item
        BY ReactorAssumption DEF Item, Nil, Task
      <4> QED BY <1>7, <3>2 DEF ToSet
    <3> QED BY <1>7, <3>1, <3>2, <3>3
  <2>2. CASE finished # <<>>
    <3> DEFINE h == Head(finished)
               b == Tail(finished)
    <3>1. /\ h \in Op /\ h \in gone /\ b \in Seq(Op) /\ NoRepeats(b) /\ ToSet(b) = gone \ {h}
      BY <1>4, <2>2, TailDistinct
    <3>2. queue' = t \o b /\ cur' = h /\ pc' = "handler" /\ h # Nil
      BY <1>5, <2>2, <3>1, ReactorAssumption
    <3> HIDE DEF h, b
    <3>3. ToSet(b) \cap ToSet(t) = {}
      BY <1>7, <1>8, <3>1
    <3>4. /\ queue' \in Seq(Item) /\ NoRepeats(queue') /\ TaskLast(queue')
          /\ ToSet(queue') = ToSet(t) \cup ToSet(b)
      BY <1>7, <3>1, <3>2, <3>3, Enqueued
    <3> QED BY <1>7, <1>8, <3>1, <3>2, <3>3, <3>4
  <2> QED BY <2>1, <2>2
<1> HIDE DEF gone
<1>10. ToSet(t) \cap Op = Queued
  BY <1>6, <1>7 DEF Queued
<1>11. Queued' \cup ({cur'} \ {Nil}) = Queued \cup gone /\ Queued' \subseteq Queued \cup gone
  BY <1>8, <1>9, <1>10, ReactorAssumption DEF Queued
<1>12. Busy' = Busy
  BY <1>4, <1>6, <1>11 DEF Busy
<1>13. TypeOK'
  <2>1. made' \in [Op -> [sock : Sock, fd : Fd, kind : Kind] \cup {Unused}]
    BY <1>5 DEF IInv, TypeOK, Without
  <2>2. wr' \subseteq Fd /\ rd' \subseteq Fd
    BY <1>5 DEF IInv, TypeOK, Left
  <2>3. work' \in Nat /\ stopped' \in BOOLEAN
    <3>1. work \in Nat /\ stopped \in BOOLEAN /\ work' = work + 0
      BY <1>5 DEF IInv, TypeOK
    <3>2. stopped' = (work' = 0) \/ stopped' = stopped
      BY <1>5
    <3>3. stopped' \in BOOLEAN
      BY <3>1, <3>2
    <3> QED BY <3>1, <3>3
  <2>4. mask' \in [State -> SUBSET Kind]
    BY <1>5 DEF IInv, TypeOK
  <2> QED BY <1>4, <1>5, <1>9, <2>1, <2>2, <2>3, <2>4 DEF IInv, TypeOK, Item
<1>14. WorkExact'
  <2>1. TypeOK /\ WorkExact /\ work' = work
    BY <1>5 DEF IInv, TypeOK
  <2> QED BY <1>12, <1>13, <2>1, AsMany
<1>15. OnePlace'
  <2>1. Pending' \cap Queued' = {}
    BY <1>4, <1>11 DEF IInv, OnePlace
  <2>2. cur' \notin Queued'
    BY <1>9 DEF Queued
  <2>3. cur' \notin Pending'
    <3>1. Nil \notin Pending
      <4>1. TypeOK
        BY DEF IInv
      <4> QED BY <4>1, BusyFacts, ReactorAssumption DEF BusyExact
    <3> QED BY <1>4, <1>9, <3>1
  <2> QED BY <1>4, <2>1, <2>2, <2>3 DEF OnePlace
<1>16. Attached'
  <2> SUFFICES ASSUME NEW e \in State, NEW k \in Kind, NEW o \in ToSet(opq'[e][k])
               PROVE  Belongs(o, e, k)'
    BY DEF Attached
  <2>1. o \in ToSet(opq[e][k]) /\ o \notin ToSet(finished)
    BY <1>4 DEF gone
  <2>2. Belongs(o, e, k)
    BY <2>1 DEF IInv, Attached
  <2>3. o \in Op
    BY <2>1 DEF IInv, TypeOK, ToSet
  <2>4. made'[o] = made[o]
    BY <1>5, <2>1, <2>3 DEF Without
  <2> QED BY <1>5, <2>2, <2>4 DEF Belongs
<1>17. Opened'
  BY <1>5 DEF IInv, Opened, InUse
<1>18. Acts' /\ NoRepeats(queue)' /\ TaskLast(queue)'
  BY <1>9 DEF Acts, NoRepeats, TaskLast
<1> QED BY <1>13, <1>14, <1>15, <1>16, <1>17, <1>18 DEF IInv
-----------------------------------------------------------------------------
LEMMA NextStep == ASSUME IInv, [Next]_vars PROVE IInv'
<1>1. CASE \E f \in Fd : Arrive(f) \/ Drain(f)
  BY <1>1, KernelStep
<1>2. CASE \E s \in Sock : Open(s) \/ Close(s)
  BY <1>2, OpenStep, CloseStep
<1>3. CASE \E s \in Sock, k \in Kind, o \in Op :
            (\E speculative \in BOOLEAN : StartOp(s, k, o, speculative)) \/ StartOpClosed(s, o)
  BY <1>3, StartStep, StartClosedStep
<1>4. CASE Step
  BY <1>4, PollStep, RunTaskStep, RunOpStep, RunStateStep, FinishStep DEF Step
<1>5. CASE UNCHANGED vars
  <2>1. TypeOK'
    BY <1>5 DEF IInv, TypeOK, vars, sockets, states, kernel, service
  <2>2. UNCHANGED <<opq, queue, cur, work, made, fd, data, edge, pc>>
    BY <1>5 DEF vars, sockets, states, kernel, service
  <2>3. WorkExact' /\ OnePlace' /\ Attached' /\ NoRepeats(queue)' /\ TaskLast(queue)' /\ Opened'
    BY <2>1, <2>2, SamePlaces
  <2>4. Acts'
    BY <2>2 DEF IInv, Acts
  <2> QED BY <2>1, <2>3, <2>4 DEF IInv
<1> QED BY <1>1, <1>2, <1>3, <1>4, <1>5 DEF Next

LEMMA Invariant == Spec => []IInv
<1>1. Init => IInv
  BY InitInv
<1>2. IInv /\ [Next]_vars => IInv'
  BY NextStep
<1> QED BY <1>1, <1>2, PTL DEF Spec

(* Every variable of the reactor keeps its type; in particular the count   *)
(* of outstanding work never goes below zero.                              *)
THEOREM TypeCorrect == Spec => []TypeOK
<1>1. IInv => TypeOK
  BY DEF IInv
<1> QED BY <1>1, Invariant, PTL

(* outstanding_work_ is the number of operations that wait, are queued or  *)
(* run, whatever is opened, closed and started: the service stops neither  *)
(* early nor never.                                                        *)
THEOREM WorkIsExact == Spec => []WorkExact
<1>1. IInv => WorkExact
  BY DEF IInv
<1> QED BY <1>1, Invariant, PTL

(* No operation is lost or completed twice by close, event and start in    *)
(* any order.                                                              *)
THEOREM EachInOnePlace == Spec => []OnePlace
<1>1. IInv => OnePlace
  BY DEF IInv
<1> QED BY <1>1, Invariant, PTL

(* What epoll_reactor::run relies on without a check: no state it queues   *)
(* is in the queue.                                                        *)
THEOREM NoStateQueuedTwice == Spec => []QueuedOnce
<1>1. IInv => QueuedOnce
  <2> SUFFICES ASSUME IInv PROVE QueuedOnce
    OBVIOUS
  <2>1. queue \in Seq(Item) /\ NoRepeats(queue) /\ TaskLast(queue)
    BY DEF IInv, TypeOK, Item
  <2>2. Head(queue) = Task => ToSet(queue) \cap State = {}
    BY <2>1, TaskInFront
  <2> QED BY <2>1, <2>2 DEF QueuedOnce
<1> QED BY <1>1, Invariant, PTL

(* A descriptor or a descriptor_state that is used again does not perform  *)
(* the operations of the socket that had it before.                        *)
THEOREM NothingInherited == Spec => []Attached
<1>1. IInv => Attached
  BY DEF IInv
<1> QED BY <1>1, Invariant, PTL
=============================================================================
