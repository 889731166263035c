-------------------------- MODULE ThreadScheduler --------------------------
(***************************************************************************)
(* CqThreadScheduler, built with ENABLE_THREADING: one thread calls        *)
(* addWorkUnit for each of NumUnits work units and then joinAll, as        *)
(* CqImageBuffer::RenderImage does; every unit runs in a thread of its own *)
(* and reports its end with notifyWorkUnitFinished.  The two mutexes guard *)
(* different data: the counter is changed under m_mutexActiveThreads, the  *)
(* condition is waited for under m_mutexCondition, which no thread that    *)
(* notifies ever takes.                                                    *)
(***************************************************************************)
EXTENDS Naturals, FiniteSets

CONSTANTS NumUnits,      \* addWorkUnit calls before joinAll
          MaxThreads,    \* m_maxThreads
          SpuriousWakeups \* whether boost::condition::wait may return unasked

ASSUME UnitsAssumption == NumUnits \in Nat
ASSUME ThreadsAssumption == MaxThreads \in Nat \ {0}
ASSUME WakeupAssumption == SpuriousWakeups \in BOOLEAN

Units == 1 .. NumUnits

VARIABLES
  caller,   \* where the calling thread stands
  added,    \* units whose thread was created
  active,   \* m_activeThreads
  waiting,  \* the caller sleeps in m_threadsAvailable
  unit      \* where the thread of each unit stands

vars == <<caller, added, active, waiting, unit>>

TypeOK ==
  /\ caller \in {"check", "wait", "woken", "count", "create", "join", "done"}
  /\ added \in 0 .. NumUnits
  /\ active \in Nat
  /\ waiting \in BOOLEAN
  /\ unit \in [Units -> {"none", "running", "ended", "uncounted", "exited"}]

Init == /\ caller = IF NumUnits = 0 THEN "join" ELSE "check"
        /\ added = 0
        /\ active = 0
        /\ waiting = FALSE
        /\ unit = [u \in Units |-> "none"]

-----------------------------------------------------------------------------
\* Mutant: the comparison is off by one.
Check_Late == /\ caller = "check"
              /\ caller' = IF active > MaxThreads THEN "wait" ELSE "count"
              /\ UNCHANGED <<added, active, waiting, unit>>

\* addWorkUnit: the comparison, outside m_mutexActiveThreads.
Check == /\ caller = "check"
         /\ caller' = IF active >= MaxThreads THEN "wait" ELSE "count"
         /\ UNCHANGED <<added, active, waiting, unit>>

\* Going to sleep in the condition, later than the comparison.
Wait == /\ caller = "wait"
        /\ waiting' = TRUE
        /\ caller' = "woken"
        /\ UNCHANGED <<added, active, unit>>

\* Mutant: the caller does not sleep until it is notified.
Wake_Early == /\ caller = "woken"
              /\ caller' = "count" /\ waiting' = FALSE
              /\ UNCHANGED <<added, active, unit>>

\* wait returns, notified or not; the comparison is not made again.
Wake == /\ caller = "woken"
        /\ waiting => SpuriousWakeups
        /\ caller' = "count" /\ waiting' = FALSE
        /\ UNCHANGED <<added, active, unit>>

Count == /\ caller = "count"
         /\ active' = active + 1
         /\ caller' = "create"
         /\ UNCHANGED <<added, waiting, unit>>

\* create_thread; then the next addWorkUnit, or joinAll.
Create == /\ caller = "create"
          /\ added' = added + 1
          /\ unit' = [unit EXCEPT ![added + 1] = "running"]
          /\ caller' = IF added + 1 < NumUnits THEN "check" ELSE "join"
          /\ UNCHANGED <<active, waiting>>

\* Mutant: joins the threads without the last one.
JoinAll_ButLast == /\ caller = "join"
                   /\ \A u \in Units \ {NumUnits} : unit[u] = "exited"
                   /\ caller' = "done"
                   /\ UNCHANGED <<added, active, waiting, unit>>

\* joinAll.
JoinAll == /\ caller = "join"
           /\ \A u \in Units : unit[u] = "exited"
           /\ caller' = "done"
           /\ UNCHANGED <<added, active, waiting, unit>>

Caller == Check \/ Wait \/ Wake \/ Count \/ Create \/ JoinAll

\* CqUnitWrapper: the unit returns,
RunUnit(u) == /\ unit[u] = "running"
              /\ unit' = [unit EXCEPT ![u] = "ended"]
              /\ UNCHANGED <<caller, added, active, waiting>>

\* Mutant: the end of a unit is not counted.
Uncount_Forgotten(u) == /\ unit[u] = "ended"
                        /\ unit' = [unit EXCEPT ![u] = "uncounted"]
                        /\ UNCHANGED <<caller, added, active, waiting>>

\* notifyWorkUnitFinished counts it down,
Uncount(u) == /\ unit[u] = "ended"
              /\ active' = active - 1
              /\ unit' = [unit EXCEPT ![u] = "uncounted"]
              /\ UNCHANGED <<caller, added, waiting>>

\* Mutant: it is counted down here as well.
Notify_CountsDown(u) == /\ unit[u] = "uncounted"
                        /\ waiting' = FALSE /\ active' = active - 1
                        /\ unit' = [unit EXCEPT ![u] = "exited"]
                        /\ UNCHANGED <<caller, added>>

\* Mutant: the notification waits for someone to sleep.
Notify_Blocking(u) == /\ unit[u] = "uncounted" /\ waiting
                      /\ waiting' = FALSE
                      /\ unit' = [unit EXCEPT ![u] = "exited"]
                      /\ UNCHANGED <<caller, added, active>>

\* and notifies: a call while nobody sleeps is lost.
Notify(u) == /\ unit[u] = "uncounted"
             /\ waiting' = FALSE
             /\ unit' = [unit EXCEPT ![u] = "exited"]
             /\ UNCHANGED <<caller, added, active>>

Worker(u) == RunUnit(u) \/ Uncount(u) \/ Notify(u)

Next == Caller \/ \E u \in Units : Worker(u)

\* Every thread is scheduled; nothing forces a spurious wakeup.
Fairness == WF_vars(Caller) /\ \A u \in Units : WF_vars(Worker(u))

Spec == Init /\ [][Next]_vars /\ Fairness

-----------------------------------------------------------------------------
Running == {u \in Units : unit[u] = "running"}

(***************************************************************************)
(* "Maximum number of threads to run" (m_maxThreads): the units that run   *)
(* at the same time are never more.                                        *)
(***************************************************************************)
AtMostMaxThreads == Cardinality(Running) <= MaxThreads

(***************************************************************************)
(* The counter agrees with the threads: it counts the unit about to be     *)
(* created, those that run, and those that have returned but not yet       *)
(* reported it.  A unit counted twice or never down again would make       *)
(* addWorkUnit wait for a thread that does not exist.                      *)
(***************************************************************************)
Counted == {u \in Units : unit[u] \in {"running", "ended"}}
CountIsExact ==
  active = Cardinality(Counted) + (IF caller = "create" THEN 1 ELSE 0)

\* The order in which the caller creates the threads, and what it knows once
\* it has joined them: with CountIsExact, the inductive invariant.
CreatedInOrder ==
  /\ \A u \in Units : u > added <=> unit[u] = "none"
  /\ caller \in {"join", "done"} <=> added = NumUnits
  /\ caller = "done" => \A u \in Units : unit[u] = "exited"

IInv == TypeOK /\ CountIsExact /\ CreatedInOrder

(***************************************************************************)
(* Every addWorkUnit call returns and every unit is run and joined: nobody *)
(* sleeps through the last notification.                                   *)
(***************************************************************************)
AllUnitsJoined == <>(caller = "done")

(***************************************************************************)
(* The lost notification is the only way to hang: everything is joined or  *)
(* the caller gets to sleep when no unit is left to wake it.               *)
(***************************************************************************)
HangsOnlyAsleep ==
  <>(caller = "done" \/ (waiting /\ \A u \in Units : unit[u] \in {"none", "exited"}))

Finished == {u \in Units : unit[u] \in {"ended", "uncounted", "exited"}}

(***************************************************************************)
(* The scheduler implements WorkPool with its own limit as long as at most *)
(* one unit has to wait for a thread and no wakeup is spurious.            *)
(***************************************************************************)
Pool == INSTANCE WorkPool
          WITH running <- Running, finished <- Finished, joined <- (caller = "done")
IsWorkPool == Pool!Spec

(***************************************************************************)
(* However many units there are, and although the limit may be overrun,    *)
(* every unit runs once and joinAll returns only after all of them.        *)
(***************************************************************************)
UnlimitedPool == INSTANCE WorkPool
          WITH MaxThreads <- NumUnits,
               running <- Running, finished <- Finished, joined <- (caller = "done")
RunsEachUnitOnce == UnlimitedPool!Spec
=============================================================================
