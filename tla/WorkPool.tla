------------------------------ MODULE WorkPool ------------------------------
(***************************************************************************)
(* What CqThreadScheduler promises: the work units it is given run, never  *)
(* more than MaxThreads of them at a time, and joinAll returns when all of *)
(* them have finished.                                                     *)
(***************************************************************************)
EXTENDS Naturals, FiniteSets

CONSTANTS Units, MaxThreads

VARIABLES running, finished, joined

vars == <<running, finished, joined>>

Init == running = {} /\ finished = {} /\ joined = FALSE

Start(u) == /\ u \notin running \cup finished
            /\ Cardinality(running) < MaxThreads
            /\ running' = running \cup {u}
            /\ UNCHANGED <<finished, joined>>

Finish(u) == /\ u \in running
             /\ running' = running \ {u}
             /\ finished' = finished \cup {u}
             /\ UNCHANGED joined

Join == /\ ~joined
        /\ finished = Units
        /\ joined' = TRUE
        /\ UNCHANGED <<running, finished>>

Next == (\E u \in Units : Start(u) \/ Finish(u)) \/ Join

Spec == Init /\ [][Next]_vars
=============================================================================
