------------------------------ MODULE Executor ------------------------------
(***************************************************************************)
(* What an io_service promises: an operation that has been counted as work *)
(* is run once or not at all, and the service does not stop by itself as   *)
(* long as an operation is outstanding or somebody holds a work object.    *)
(***************************************************************************)
EXTENDS Integers

CONSTANT Op

VARIABLES
    todo,       (* counted, not yet begun                                  *)
    running,    (* handlers that are running                               *)
    done,       (* handlers that have returned                             *)
    held,       (* an io_service::work object exists                       *)
    asked,      (* stop() has been called from outside                     *)
    stopped     (* io_service::stopped()                                   *)

vars == <<todo, running, done, held, asked, stopped>>

Init ==
    /\ todo = {} /\ running = {} /\ done = {}
    /\ held = TRUE /\ asked = FALSE /\ stopped = FALSE

(* Only who holds the service open, or a handler, hands it new work.       *)
Add(o) ==
    /\ o \notin todo \cup running \cup done
    /\ held \/ running # {}
    /\ todo' = todo \cup {o}
    /\ UNCHANGED <<running, done, held, asked, stopped>>

Begin(o) ==
    /\ o \in todo
    /\ todo' = todo \ {o} /\ running' = running \cup {o}
    /\ UNCHANGED <<done, held, asked, stopped>>

End(o) ==
    /\ o \in running
    /\ running' = running \ {o} /\ done' = done \cup {o}
    /\ UNCHANGED <<todo, held, asked, stopped>>

Release == held /\ held' = FALSE /\ UNCHANGED <<todo, running, done, asked, stopped>>

Ask == asked' = TRUE /\ UNCHANGED <<todo, running, done, held, stopped>>

Halt ==
    /\ asked \/ (~held /\ todo \cup running = {})
    /\ stopped' = TRUE
    /\ UNCHANGED <<todo, running, done, held, asked>>

Next == (\E o \in Op : Add(o) \/ Begin(o) \/ End(o)) \/ Release \/ Ask \/ Halt

Spec == Init /\ [][Next]_vars
=============================================================================
