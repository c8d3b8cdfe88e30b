----------------------------- MODULE IoService -----------------------------
(***************************************************************************)
(* asio's task_io_service with several threads: the queue of operations,   *)
(* the count of outstanding work, the event threads wait for, and the      *)
(* reactor, which is an operation in the queue like any other              *)
(* (task_io_service.ipp, posix_event.hpp).                                 *)
(*                                                                         *)
(* NSP has two such services: the one main polls, into which the           *)
(* resolver's thread puts the answer; and the one that thread runs, into   *)
(* which main puts the request, and which main stops when it ends.         *)
(*                                                                         *)
(* What a thread does while it holds mutex_ is one or more steps with      *)
(* lock = that thread.  outstanding_work_ is atomic and not under mutex_.  *)
(***************************************************************************)
EXTENDS Integers, Sequences, FiniteSets, SequencesExt

CONSTANTS
    Op,             (* operations                                          *)
    Runner,         (* threads that call run()                             *)
    Poller,         (* threads that call poll() again and again            *)
    Owner           (* the thread that holds the work object               *)

Task == "task"      \* task_operation_
Nobody == "nobody"

ASSUME IoServiceAssumption ==
    /\ Task \notin Op /\ IsFiniteSet(Op)
    /\ Runner \cap Poller = {} /\ Owner \notin Runner \cup Poller
    /\ Nobody \notin Runner \cup Poller \cup {Owner}

VARIABLES
    queue,          (* op_queue_                                           *)
    work,           (* outstanding_work_                                   *)
    stopped,        (* stopped_                                            *)
    hasTask,        (* task_ is set                                        *)
    interrupted,    (* task_interrupted_                                   *)
    lock,           (* the holder of mutex_                                *)
    signalled,      (* bit 0 of wakeup_event_.state_                       *)
    waiting,        (* the threads in wait(), the rest of state_           *)
    woken,          (* of those, the ones the condition variable has woken *)
    pc,             (* where each thread is                                *)
    cur,            (* the operation each thread runs                      *)
    priv,           (* private_op_queue                                    *)
    privWork,       (* private_outstanding_work                            *)
    block,          (* the reactor may block                               *)
    wake,           (* the reactor's interrupter is readable               *)
    counted,        (* operations that are work but in no queue: with the  *)
                    (* reactor, or with a thread that is about to post them *)
    ready,          (* of the reactor's, those whose event has come        *)
    held,           (* the work object exists                              *)
    asked,          (* Owner has called stop()                             *)
    done            (* history: operations whose handler has returned      *)

event == <<signalled, waiting, woken>>
task == <<hasTask, interrupted, block, wake>>
ops == <<counted, ready, done>>
owner == <<held, asked>>
vars == <<queue, work, stopped, task, lock, event, pc, cur, priv, privWork, ops, owner>>

Thread == Runner \cup Poller

Init ==
    /\ queue = <<>> /\ work = 1 /\ stopped = FALSE
    /\ hasTask = FALSE /\ interrupted = TRUE /\ block = FALSE /\ wake = FALSE
    /\ lock = Nobody
    /\ signalled = FALSE /\ waiting = {} /\ woken = {}
    /\ pc = [t \in Thread \cup {Owner} |-> IF t \in Runner THEN "enter" ELSE "idle"]
    /\ cur = [t \in Thread |-> Nobody]
    /\ priv = [t \in Thread |-> <<>>] /\ privWork = [t \in Thread |-> 0]
    /\ counted = {} /\ ready = {} /\ done = {}
    /\ held = TRUE /\ asked = FALSE

Goto(t, l) == pc' = [pc EXCEPT ![t] = l]

Queued == ToSet(queue) \ {Task}
Private == UNION {ToSet(priv[t]) : t \in Thread}
Running == {cur[t] : t \in {u \in Thread : pc[u] = "handler"}}
Todo == counted \cup ready \cup Queued \cup Private
Fresh == Op \ (Todo \cup Running \cup done)
-----------------------------------------------------------------------------
(* Defective variant: state_ > 3 for state_ > 1, a single waiter sleeps on.*)
SignalOneOfMany ==
    /\ signalled' = TRUE
    /\ IF Cardinality(waiting) < 2 \/ waiting = woken THEN UNCHANGED woken
       ELSE \E t \in waiting \ woken : woken' = woken \cup {t}
    /\ UNCHANGED waiting

(* unlock_and_signal_one, maybe_unlock_and_signal_one: the bit is set and  *)
(* one waiter woken.  pthread_cond_signal comes just after the unlock; as  *)
(* a waiter looks at the bit, it makes no difference.                      *)
SignalOne ==
    /\ signalled' = TRUE
    /\ IF waiting \ woken = {} THEN UNCHANGED woken
       ELSE \E t \in waiting \ woken : woken' = woken \cup {t}
    /\ UNCHANGED waiting

(* wake_one_thread_and_unlock: a waiter if there is one, or else the       *)
(* thread that is in the reactor.                                          *)
WakeOne ==
    /\ SignalOne
    /\ LET reactor == waiting = {} /\ ~interrupted /\ hasTask
       IN  interrupted' = (interrupted \/ reactor) /\ wake' = (wake \/ reactor)

(* The socket service creates the reactor: init_task.                      *)
InitTask ==
    /\ held /\ ~hasTask /\ lock = Nobody
    /\ hasTask' = TRUE
    /\ queue' = Append(queue, Task)
    /\ SignalOne
    /\ UNCHANGED <<work, stopped, interrupted, block, wake, lock, pc, cur,
                   priv, privWork, ops, owner>>

(* work_started for an operation that is posted or handed to the reactor.  *)
(* Who may do so keeps the service open: Owner, or a running handler.      *)
Start(o) ==
    /\ o \in Fresh
    /\ held \/ Running # {}
    /\ work' = work + 1 /\ counted' = counted \cup {o}
    /\ UNCHANGED <<queue, stopped, task, lock, event, pc, cur, priv, privWork, ready, done,
                   owner>>

(* The locked part of post_immediate_completion, post_deferred_completion. *)
Push(o) ==
    /\ o \in counted /\ lock = Nobody
    /\ counted' = counted \ {o}
    /\ queue' = Append(queue, o)
    /\ WakeOne
    /\ UNCHANGED <<work, stopped, hasTask, block, lock, pc, cur, priv, privWork, ready, done,
                   owner>>

(* The event of an operation that is with the reactor.                     *)
Ready(o) ==
    /\ o \in counted /\ hasTask
    /\ counted' = counted \ {o} /\ ready' = ready \cup {o}
    /\ UNCHANGED <<queue, work, stopped, task, lock, event, pc, cur, priv, privWork, done,
                   owner>>
-----------------------------------------------------------------------------
(* run() and poll(): without work the service is stopped at once.          *)
Enter(t) ==
    /\ pc[t] = IF t \in Runner THEN "enter" ELSE "idle"
    /\ Goto(t, IF work = 0 THEN "empty" ELSE "lock")
    /\ UNCHANGED <<queue, work, stopped, task, lock, event, cur, priv, privWork, ops, owner>>

Acquire(t) ==
    /\ pc[t] = "lock" /\ lock = Nobody
    /\ lock' = t /\ Goto(t, "loop")
    /\ UNCHANGED <<queue, work, stopped, task, event, cur, priv, privWork, ops, owner>>

(* do_run_one finds the service stopped; do_poll_one that, or nothing.     *)
Return(t) ==
    /\ pc[t] = "loop"
    /\ stopped \/ (t \in Poller /\ queue = <<>>)
    /\ lock' = Nobody /\ Goto(t, IF t \in Runner THEN "returned" ELSE "idle")
    /\ UNCHANGED <<queue, work, stopped, task, event, cur, priv, privWork, ops, owner>>

(* do_run_one with an empty queue: the event is cleared and waited for.    *)
Wait(t) ==
    /\ pc[t] = "loop" /\ t \in Runner /\ ~stopped /\ queue = <<>>
    /\ signalled' = FALSE /\ waiting' = waiting \cup {t}
    /\ lock' = Nobody /\ Goto(t, "wait")
    /\ UNCHANGED <<queue, work, stopped, task, woken, cur, priv, privWork, ops, owner>>

(* The condition variable lets go; without a signal the wait goes on.      *)
Wake(t) ==
    /\ t \in woken /\ lock = Nobody
    /\ woken' = woken \ {t}
    /\ IF signalled THEN waiting' = waiting \ {t} /\ lock' = t /\ Goto(t, "loop")
                    ELSE UNCHANGED <<waiting, lock, pc>>
    /\ UNCHANGED <<queue, work, stopped, task, signalled, cur, priv, privWork, ops, owner>>

(* The task is at the front.  do_run_one lets the reactor block when the   *)
(* queue has nothing else, and wakes a waiter when it has.                 *)
TakeTask(t) ==
    /\ pc[t] = "loop" /\ ~stopped /\ queue # <<>> /\ Head(queue) = Task
    /\ queue' = Tail(queue)
    /\ lock' = Nobody /\ Goto(t, "task")
    /\ LET more == Len(queue) > 1 /\ t \in Runner
       IN  /\ block' = (t \in Runner /\ ~more)
           /\ interrupted' = IF t \in Runner THEN more ELSE interrupted
           /\ IF more THEN SignalOne ELSE UNCHANGED event
    /\ UNCHANGED <<work, stopped, hasTask, wake, cur, priv, privWork, ops,
                   owner>>

(* The reactor returns the operations whose events have come; it blocks    *)
(* until there is one or it is interrupted.                                *)
RunTask(t) ==
    /\ pc[t] = "task"
    /\ ~block \/ wake \/ ready # {}
    /\ \E s \in SetToSeqs(ready) : priv' = [priv EXCEPT ![t] = s]
    /\ ready' = {} /\ wake' = FALSE /\ Goto(t, "reinsert")
    /\ UNCHANGED <<queue, work, stopped, hasTask, interrupted, block, lock, event, cur,
                   privWork, counted, done, owner>>

(* Defective variant: the task is not put back.                            *)
CleanUpTaskLost(t) ==
    /\ pc[t] = "reinsert" /\ lock = Nobody
    /\ interrupted' = TRUE
    /\ queue' = queue \o priv[t] /\ priv' = [priv EXCEPT ![t] = <<>>]
    /\ lock' = t /\ Goto(t, IF t \in Runner THEN "loop" ELSE "polled")
    /\ UNCHANGED <<work, stopped, hasTask, block, wake, event, cur, privWork, ops, owner>>

(* task_cleanup: the operations and the task go to the end of the queue.   *)
CleanUpTask(t) ==
    /\ pc[t] = "reinsert" /\ lock = Nobody
    /\ interrupted' = TRUE
    /\ queue' = queue \o Append(priv[t], Task) /\ priv' = [priv EXCEPT ![t] = <<>>]
    /\ lock' = t /\ Goto(t, IF t \in Runner THEN "loop" ELSE "polled")
    /\ UNCHANGED <<work, stopped, hasTask, block, wake, event, cur, privWork, ops, owner>>

(* do_poll_one after the task: with the task in front again it is over;    *)
(* otherwise the operation in front is run, even if stop() has come.       *)
PolledNothing(t) ==
    /\ pc[t] = "polled" /\ Head(queue) = Task
    /\ SignalOne
    /\ lock' = Nobody /\ Goto(t, "idle")
    /\ UNCHANGED <<queue, work, stopped, task, cur, priv, privWork, ops, owner>>

(* An operation is at the front: it is taken, and if there are more a      *)
(* thread is woken for them.                                               *)
TakeOp(t) ==
    /\ \/ pc[t] = "loop" /\ ~stopped
       \/ pc[t] = "polled"
    /\ queue # <<>> /\ Head(queue) # Task
    /\ queue' = Tail(queue) /\ cur' = [cur EXCEPT ![t] = Head(queue)]
    /\ lock' = Nobody /\ Goto(t, "handler")
    /\ IF Len(queue) > 1 THEN WakeOne ELSE UNCHANGED <<event, interrupted, wake>>
    /\ UNCHANGED <<work, stopped, hasTask, block, priv, privWork, ops, owner>>

(* A handler posts a continuation: it goes to the thread's own queue.      *)
Continue(t, o) ==
    /\ pc[t] = "handler" /\ o \in Fresh
    /\ priv' = [priv EXCEPT ![t] = Append(@, o)]
    /\ privWork' = [privWork EXCEPT ![t] = @ + 1]
    /\ UNCHANGED <<queue, work, stopped, task, lock, event, pc, cur, ops, owner>>

(* Defective variant: a continuation's own work is not added.              *)
FinishUnpaid(t) ==
    /\ pc[t] = "handler"
    /\ done' = done \cup {cur[t]}
    /\ work' = work - 1
    /\ privWork' = [privWork EXCEPT ![t] = 0]
    /\ cur' = [cur EXCEPT ![t] = Nobody]
    /\ Goto(t, IF work' = 0 THEN "last" ELSE "flush")
    /\ UNCHANGED <<queue, stopped, task, lock, event, priv, counted, ready, owner>>

(* Defective variant: the service is stopped before the private work is    *)
(* added.                                                                  *)
FinishEarly(t) ==
    /\ pc[t] = "handler"
    /\ done' = done \cup {cur[t]}
    /\ work' = work + privWork[t] - 1
    /\ privWork' = [privWork EXCEPT ![t] = 0]
    /\ cur' = [cur EXCEPT ![t] = Nobody]
    /\ Goto(t, IF work = 1 THEN "last" ELSE "flush")
    /\ UNCHANGED <<queue, stopped, task, lock, event, priv, counted, ready, owner>>

(* work_cleanup: the handler's own work is taken off, what it has added    *)
(* privately is added; the last one stops the service.                     *)
Finish(t) ==
    /\ pc[t] = "handler"
    /\ done' = done \cup {cur[t]}
    /\ work' = work + privWork[t] - 1
    /\ privWork' = [privWork EXCEPT ![t] = 0]
    /\ cur' = [cur EXCEPT ![t] = Nobody]
    /\ Goto(t, IF work' = 0 THEN "last" ELSE "flush")
    /\ UNCHANGED <<queue, stopped, task, lock, event, priv, counted, ready, owner>>

(* ... then its private queue goes to the shared one, and the next round   *)
(* begins with the lock held.                                              *)
Flush(t) ==
    /\ pc[t] = "flush" /\ lock = Nobody
    /\ queue' = queue \o priv[t] /\ priv' = [priv EXCEPT ![t] = <<>>]
    /\ lock' = t /\ Goto(t, "loop")
    /\ UNCHANGED <<work, stopped, task, event, cur, privWork, ops, owner>>

(* Defective variant: one waiter is woken.                                 *)
StopOne(t) ==
    /\ pc[t] \in {"empty", "last", "ask"} /\ lock = Nobody
    /\ stopped' = TRUE /\ SignalOne
    /\ LET reactor == ~interrupted /\ hasTask
       IN  interrupted' = (interrupted \/ reactor) /\ wake' = (wake \/ reactor)
    /\ Goto(t, CASE pc[t] = "last" -> "flush"
                 [] pc[t] = "empty" /\ t \in Runner -> "returned"
                 [] OTHER -> "idle")
    /\ UNCHANGED <<queue, work, hasTask, block, lock, cur, priv, privWork,
                   ops, owner>>

(* stop(): all waiters are woken, and the thread in the reactor.           *)
Stop(t) ==
    /\ pc[t] \in {"empty", "last", "ask"} /\ lock = Nobody
    /\ stopped' = TRUE /\ signalled' = TRUE /\ woken' = waiting
    /\ LET reactor == ~interrupted /\ hasTask
       IN  interrupted' = (interrupted \/ reactor) /\ wake' = (wake \/ reactor)
    /\ Goto(t, CASE pc[t] = "last" -> "flush"
                 [] pc[t] = "empty" /\ t \in Runner -> "returned"
                 [] OTHER -> "idle")
    /\ UNCHANGED <<queue, work, hasTask, block, lock, waiting, cur, priv, privWork,
                   ops, owner>>

(* Owner: the work object goes, and it may be the last work; then stop().  *)
Release ==
    /\ held /\ pc[Owner] = "idle"
    /\ held' = FALSE /\ work' = work - 1
    /\ Goto(Owner, IF work' = 0 THEN "ask" ELSE "idle")
    /\ UNCHANGED <<queue, stopped, task, lock, event, cur, priv, privWork, ops, asked>>

Ask ==
    /\ ~held /\ ~asked /\ pc[Owner] = "idle"
    /\ asked' = TRUE /\ Goto(Owner, "ask")
    /\ UNCHANGED <<queue, work, stopped, task, lock, event, cur, priv, privWork, ops, held>>

Step(t) ==
    \/ Enter(t) \/ Acquire(t) \/ Return(t) \/ Wait(t) \/ Wake(t)
    \/ TakeTask(t) \/ RunTask(t) \/ CleanUpTask(t) \/ PolledNothing(t)
    \/ TakeOp(t) \/ Finish(t) \/ Flush(t) \/ Stop(t)

Next ==
    \/ InitTask \/ Release \/ Ask \/ Stop(Owner)
    \/ \E o \in Op : Start(o) \/ Push(o) \/ Ready(o)
    \/ \E t \in Thread : Step(t) \/ \E o \in Op : Continue(t, o)

Spec == Init /\ [][Next]_vars

(* Threads run and handlers return; nobody has to call poll() again.  A    *)
(* thread gets the mutex in the end although others take it again and      *)
(* again: they leave it free while they sleep or run a handler.            *)
FairSpec ==
    /\ Spec
    /\ SF_vars(Stop(Owner))
    /\ \A t \in Runner : SF_vars(Step(t))
    /\ \A t \in Poller : SF_vars(pc[t] # "idle" /\ Step(t))
-----------------------------------------------------------------------------
Place == {"enter", "idle", "lock", "loop", "wait", "task", "reinsert", "polled", "handler",
          "last", "flush", "empty", "returned", "ask"}

TypeOK ==
    /\ queue \in Seq(Op \cup {Task}) /\ work \in Nat /\ stopped \in BOOLEAN
    /\ hasTask \in BOOLEAN /\ interrupted \in BOOLEAN /\ block \in BOOLEAN /\ wake \in BOOLEAN
    /\ lock \in Thread \cup {Nobody}
    /\ signalled \in BOOLEAN /\ woken \subseteq waiting /\ waiting \subseteq Runner
    /\ pc \in [Thread \cup {Owner} -> Place]
    /\ cur \in [Thread -> Op \cup {Nobody}]
    /\ priv \in [Thread -> Seq(Op)] /\ privWork \in [Thread -> Nat]
    /\ counted \subseteq Op /\ ready \subseteq Op /\ done \subseteq Op
    /\ held \in BOOLEAN /\ asked \in BOOLEAN

(* outstanding_work_, with what the threads have still to add privately,   *)
(* counts every operation that is not finished once, and the work object.  *)
WorkExact ==
    work + Cardinality(UNION {{t} \X (1 .. privWork[t]) : t \in Thread})
        = Cardinality(Todo \cup Running) + (IF held THEN 1 ELSE 0)

(* The reactor is in one place: in the queue or with one thread.  Lost, no *)
(* event would ever come in; there twice, two threads would be in it.      *)
TaskOnce ==
    Cardinality({i \in 1 .. Len(queue) : queue[i] = Task})
        + Cardinality({t \in Thread : pc[t] \in {"task", "reinsert"}})
    = IF hasTask THEN 1 ELSE 0

(* The service implements Executor: what is counted is run at most once,   *)
(* and only a stop() from outside ends it while there is work.             *)
E == INSTANCE Executor WITH todo <- Todo, running <- Running
ImplementsExecutor == E!Spec

(* No wakeup is lost: what is in the queue, or ready in the reactor, is    *)
(* run, unless the service is stopped.                                     *)
QueuedRuns == \A o \in Op : o \in Queued \cup ready ~> (o \in done \/ stopped)

(* stop() reaches every thread: all calls of run() return, so that the     *)
(* join of the resolver's thread does.                                     *)
StopEndsRuns == stopped ~> \A t \in Runner : pc[t] = "returned"
=============================================================================
