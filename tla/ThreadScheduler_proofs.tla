----------------------- MODULE ThreadScheduler_proofs -----------------------
(***************************************************************************)
(* Theorems about CqThreadScheduler for any number of work units, any      *)
(* limit, with and without spurious wakeups.                               *)
(***************************************************************************)
EXTENDS ThreadScheduler, FiniteSetTheorems, TLAPS

(* Every set of units has a cardinality, at most NumUnits. *)
LEMMA UnitSets ==
  ASSUME NEW S \in SUBSET Units
  PROVE  IsFiniteSet(S) /\ Cardinality(S) \in Nat /\ Cardinality(S) <= NumUnits
<1>1. IsFiniteSet(Units) /\ Cardinality(Units) = NumUnits
  <2>1. IsFiniteSet(1 .. NumUnits)
        /\ Cardinality(1 .. NumUnits) = IF 1 > NumUnits THEN 0 ELSE NumUnits - 1 + 1
    BY UnitsAssumption, FS_Interval
  <2>. QED  BY <2>1, UnitsAssumption DEF Units
<1>2. IsFiniteSet(S) /\ Cardinality(S) <= Cardinality(Units)
  BY <1>1, FS_Subset
<1>. QED  BY <1>1, <1>2, FS_CardinalityType

(* The initial state satisfies the inductive invariant. *)
LEMMA InitIInv == Init => IInv
<1>. SUFFICES ASSUME Init PROVE IInv
  OBVIOUS
<1>1. Counted = {}
  BY DEF Init, Counted
<1>2. Cardinality(Counted) = 0
  BY <1>1, FS_EmptySet
<1>3. TypeOK
  <2>1. caller \in {"check", "join"} /\ waiting \in BOOLEAN
    BY DEF Init
  <2>2. added \in 0 .. NumUnits /\ active \in Nat
    BY UnitsAssumption DEF Init
  <2>3. unit \in [Units -> {"none"}]
    BY DEF Init
  <2>. QED  BY <2>1, <2>2, <2>3 DEF TypeOK
<1>4. CountIsExact
  BY <1>2 DEF Init, CountIsExact
<1>5. CreatedInOrder
  BY UnitsAssumption DEF Init, CreatedInOrder, Units
<1>. QED  BY <1>3, <1>4, <1>5 DEF IInv

(* A step of the calling thread preserves the inductive invariant. *)
LEMMA CallerIInv == IInv /\ Caller => IInv'
<1>. SUFFICES ASSUME IInv, Caller PROVE IInv'
  OBVIOUS
<1>. USE UnitsAssumption, ThreadsAssumption
<1>1. ASSUME UNCHANGED <<unit, active>>, (caller = "create") <=> (caller' = "create")
      PROVE  CountIsExact'
  BY <1>1 DEF IInv, CountIsExact, Counted, Units
<1>2. CASE Check
  BY <1>1, <1>2 DEF Check, IInv, TypeOK, CreatedInOrder, Units
<1>3. CASE Wait
  BY <1>1, <1>3 DEF Wait, IInv, TypeOK, CreatedInOrder, Units
<1>4. CASE Wake
  BY <1>1, <1>4 DEF Wake, IInv, TypeOK, CreatedInOrder, Units
<1>6. CASE JoinAll
  BY <1>1, <1>6 DEF JoinAll, IInv, TypeOK, CreatedInOrder, Units
<1>7. CASE Count
  <2>1. Counted' = Counted
    BY <1>7 DEF Count, Counted, Units
  <2>2. CountIsExact'
    BY <1>7, <2>1, UnitSets DEF Count, IInv, TypeOK, CountIsExact, Counted
  <2>. QED  BY <1>7, <2>2 DEF Count, IInv, TypeOK, CreatedInOrder, Units
<1>8. CASE Create
  <2>1. added + 1 \in Units /\ unit[added + 1] = "none"
    BY <1>8 DEF Create, IInv, TypeOK, CreatedInOrder, Units
  <2>2. Counted' = Counted \cup {added + 1} /\ added + 1 \notin Counted
    BY <1>8, <2>1 DEF Create, IInv, TypeOK, Counted
  <2>3. IsFiniteSet(Counted) /\ Cardinality(Counted) \in Nat
    BY UnitSets DEF Counted
  <2>4. Cardinality(Counted') = Cardinality(Counted) + 1
    BY <2>2, <2>3, FS_AddElement
  <2>5. CountIsExact'
    BY <1>8, <2>3, <2>4 DEF Create, IInv, CountIsExact
  <2>6. TypeOK'
    BY <1>8, <2>1 DEF Create, IInv, TypeOK, Units
  <2>7. CreatedInOrder'
    BY <1>8, <2>1 DEF Create, IInv, TypeOK, CreatedInOrder, Units
  <2>. QED  BY <2>5, <2>6, <2>7 DEF IInv
<1>. QED  BY <1>2, <1>3, <1>4, <1>6, <1>7, <1>8 DEF Caller

(* A step of a worker preserves the inductive invariant. *)
LEMMA WorkerIInv ==
  ASSUME IInv, NEW u \in Units, Worker(u)
  PROVE  IInv'
<1>. USE UnitsAssumption, ThreadsAssumption
<1>1. IsFiniteSet(Counted) /\ Cardinality(Counted) \in Nat
  BY UnitSets DEF Counted
<1>2. caller # "done" /\ unit[u] # "none" /\ added \in 0 .. NumUnits
  BY DEF Worker, RunUnit, Uncount, Notify, IInv, TypeOK, CreatedInOrder
<1>3. CASE RunUnit(u)
  <2>1. Counted' = Counted
    BY <1>3 DEF RunUnit, Counted, IInv, TypeOK
  <2>. QED  BY <1>2, <1>3, <2>1 DEF RunUnit, IInv, TypeOK, CountIsExact, CreatedInOrder
<1>4. CASE Uncount(u)
  <2>1. Counted' = Counted \ {u} /\ u \in Counted
    BY <1>4 DEF Uncount, Counted, IInv, TypeOK
  <2>2. Cardinality(Counted') = Cardinality(Counted) - 1
    BY <1>1, <2>1, FS_RemoveElement
  <2>3. Cardinality(Counted') \in Nat
    BY UnitSets, <2>1, FS_RemoveElement, <1>1, FS_CardinalityType
  <2>4. CountIsExact' /\ active' \in Nat
    BY <1>1, <1>4, <2>2, <2>3 DEF Uncount, IInv, TypeOK, CountIsExact
  <2>. QED  BY <1>2, <1>4, <2>4 DEF Uncount, IInv, TypeOK, CreatedInOrder
<1>5. CASE Notify(u)
  <2>1. Counted' = Counted
    BY <1>5 DEF Notify, Counted, IInv, TypeOK
  <2>. QED  BY <1>2, <1>5, <2>1 DEF Notify, IInv, TypeOK, CountIsExact, CreatedInOrder
<1>. QED  BY <1>3, <1>4, <1>5 DEF Worker

(* IInv is an invariant of the scheduler. *)
LEMMA Invariance == Spec => []IInv
<1>1. IInv /\ UNCHANGED vars => IInv'
  BY DEF IInv, vars, TypeOK, CountIsExact, Counted, CreatedInOrder
<1>2. IInv /\ [Next]_vars => IInv'
  BY <1>1, CallerIInv, WorkerIInv DEF Next
<1>. QED  BY InitIInv, <1>2, PTL DEF Spec

(* The variables of the scheduler keep their types; in particular          *)
(* m_activeThreads never becomes negative.                                 *)
THEOREM TypeCorrect == Spec => []TypeOK
BY Invariance, PTL DEF IInv

(* m_activeThreads is the number of units that were counted and have not   *)
(* reported their end, however the threads interleave.                     *)
THEOREM CounterCorrect == Spec => []CountIsExact
BY Invariance, PTL DEF IInv

-----------------------------------------------------------------------------
Done == caller = "done"

(* What a step of the scheduler is to a WorkPool: nothing, or the start, the *)
(* end or the joining of units.                                              *)
StartStep(u) == /\ u \notin Running \cup Finished
                /\ Cardinality(Running) < NumUnits /\ caller = "create"
                /\ Running' = Running \cup {u}
                /\ Finished' = Finished /\ Done' = Done
FinishStep(u) == /\ u \in Running
                 /\ Running' = Running \ {u}
                 /\ Finished' = Finished \cup {u} /\ Done' = Done
JoinStep == /\ ~Done /\ Done'
            /\ Finished = Units
            /\ Running' = Running /\ Finished' = Finished
Stutter == Running' = Running /\ Finished' = Finished /\ Done' = Done

(* Every step of the scheduler is one of them. *)
LEMMA PoolSteps ==
  ASSUME IInv, [Next]_vars
  PROVE  (\E u \in Units : StartStep(u) \/ FinishStep(u)) \/ JoinStep \/ Stutter
<1>. USE UnitsAssumption, ThreadsAssumption
<1>1. CASE Check \/ Wait \/ Wake \/ Count \/ UNCHANGED vars
  BY <1>1 DEF Check, Wait, Wake, Count, vars, Stutter, Running, Finished, Done
<1>2. CASE Create
  <2>1. added + 1 \in Units /\ unit[added + 1] = "none"
    BY <1>2 DEF Create, IInv, TypeOK, CreatedInOrder, Units
  <2>2. Running' = Running \cup {added + 1} /\ added + 1 \notin Running \cup Finished
    BY <1>2, <2>1 DEF Create, IInv, TypeOK, Running, Finished
  <2>3. Finished' = Finished
    BY <1>2, <2>1 DEF Create, IInv, TypeOK, Finished
  <2>4. Done' = Done
    BY <1>2 DEF Create, Done
  <2>5. IsFiniteSet(Running) /\ Cardinality(Running) \in Nat
    BY UnitSets DEF Running
  <2>6. Cardinality(Running \cup {added + 1}) = Cardinality(Running) + 1
    BY <2>2, <2>5, FS_AddElement
  <2>7. Running \cup {added + 1} \in SUBSET Units
    BY <2>1 DEF Running
  <2>8. Cardinality(Running) < NumUnits
    BY <2>5, <2>6, <2>7, UnitSets
  <2>. QED  BY <1>2, <2>1, <2>2, <2>3, <2>4, <2>8 DEF StartStep, Create
<1>3. CASE JoinAll
  <2>1. Finished = Units
    BY <1>3 DEF JoinAll, Finished
  <2>. QED  BY <1>3, <2>1 DEF JoinAll, JoinStep, Running, Finished, Done
<1>4. ASSUME NEW u \in Units, Worker(u)
      PROVE  FinishStep(u) \/ Stutter
  <2>1. CASE RunUnit(u)
    BY <1>4, <2>1 DEF RunUnit, FinishStep, Running, Finished, Done, IInv, TypeOK
  <2>2. CASE Uncount(u)
    BY <1>4, <2>2 DEF Uncount, Stutter, Running, Finished, Done, IInv, TypeOK
  <2>3. CASE Notify(u)
    BY <1>4, <2>3 DEF Notify, Stutter, Running, Finished, Done, IInv, TypeOK
  <2>. QED  BY <1>4, <2>1, <2>2, <2>3 DEF Worker
<1>. QED  BY <1>1, <1>2, <1>3, <1>4 DEF Next, Caller

(* At the start no unit runs, none has finished and nothing is joined. *)
LEMMA PoolStart == Init => Running = {} /\ Finished = {} /\ Done = FALSE
BY DEF Init, Running, Finished, Done

(* However many units there are, each runs once and joinAll returns after  *)
(* the last.                                                               *)
THEOREM EachUnitRunsOnce == Spec => RunsEachUnitOnce
<1>1. Init => UnlimitedPool!Init
  BY PoolStart DEF UnlimitedPool!Init, Done
<1>2. ASSUME IInv, [Next]_vars
      PROVE  [UnlimitedPool!Next]_(UnlimitedPool!vars)
  <2>1. UnlimitedPool!Cardinality(Running) = Cardinality(Running)
    BY DEF Cardinality, UnlimitedPool!Cardinality
  <2>2. ASSUME NEW u \in Units, StartStep(u)
        PROVE  UnlimitedPool!Start(u)
    BY <2>1, <2>2 DEF StartStep, Done, UnlimitedPool!Start
  <2>3. ASSUME NEW u \in Units, FinishStep(u)
        PROVE  UnlimitedPool!Finish(u)
    BY <2>3 DEF FinishStep, Done, UnlimitedPool!Finish
  <2>4. JoinStep => UnlimitedPool!Join
    BY DEF JoinStep, Done, UnlimitedPool!Join
  <2>5. Stutter => UNCHANGED UnlimitedPool!vars
    BY DEF Stutter, Done, UnlimitedPool!vars
  <2>. QED  BY <1>2, <2>2, <2>3, <2>4, <2>5, PoolSteps DEF UnlimitedPool!Next
<1>. QED  BY Invariance, <1>1, <1>2, PTL DEF Spec, RunsEachUnitOnce, UnlimitedPool!Spec

-----------------------------------------------------------------------------
(* A caller that was woken, or that has passed the comparison with as many  *)
(* units added as there are threads, has seen one of them end.              *)
RoomMade ==
  ~SpuriousWakeups =>
    /\ caller = "woken" /\ ~waiting => \E u \in Units : unit[u] = "exited"
    /\ caller \in {"count", "create"} /\ added >= MaxThreads =>
         \E u \in Units : unit[u] \notin {"none", "running"}

(* RoomMade holds initially and is preserved by every step. *)
LEMMA RoomInvariance == Spec => []RoomMade
<1>. USE UnitsAssumption, ThreadsAssumption, WakeupAssumption
<1>1. Init => RoomMade
  BY DEF Init, RoomMade
<1>2. ASSUME IInv, RoomMade, [Next]_vars
      PROVE  RoomMade'
  <2>1. SUFFICES ASSUME ~SpuriousWakeups
                 PROVE  /\ (caller = "woken" /\ ~waiting => \E u \in Units : unit[u] = "exited")'
                        /\ (caller \in {"count", "create"} /\ added >= MaxThreads =>
                              \E u \in Units : unit[u] \notin {"none", "running"})'
    BY DEF RoomMade
  <2>2. CASE Check
    <3>1. ASSUME active < MaxThreads, added >= MaxThreads
          PROVE  \E u \in Units : unit[u] \notin {"none", "running"}
      <4>1. SUFFICES ASSUME \A u \in Units : unit[u] \in {"none", "running"}
                     PROVE  FALSE
        OBVIOUS
      <4>2. added \in 0 .. NumUnits /\ \A u \in 1 .. added : u \in Counted
        BY <1>2, <4>1 DEF IInv, TypeOK, CreatedInOrder, Counted, Units
      <4>3. 1 .. added \subseteq Counted
        BY <4>2
      <4>4. IsFiniteSet(Counted) /\ Cardinality(Counted) \in Nat
        BY UnitSets DEF Counted
      <4>5. Cardinality(1 .. added) <= Cardinality(Counted)
        BY <4>3, <4>4, FS_Subset
      <4>6. Cardinality(1 .. added) = IF 1 > added THEN 0 ELSE added - 1 + 1
        BY <4>2, FS_Interval
      <4>7. active = Cardinality(Counted)
        BY <1>2, <2>2, <4>4 DEF Check, IInv, CountIsExact
      <4>. QED  BY <3>1, <4>2, <4>4, <4>5, <4>6, <4>7
    <3>. QED  BY <1>2, <2>2, <3>1 DEF Check, IInv, TypeOK
  <2>3. CASE Wait \/ Wake \/ Count \/ JoinAll \/ UNCHANGED vars
    BY <1>2, <2>1, <2>3 DEF Wait, Wake, Count, JoinAll, vars, RoomMade
  <2>5. CASE Create
    BY <2>1, <2>5 DEF Create
  <2>6. ASSUME NEW u \in Units, Worker(u)
        PROVE  RoomMade'
    <3>1. unit' = [unit EXCEPT ![u] = unit'[u]] /\ unit'[u] \notin {"none", "running"}
          /\ UNCHANGED <<caller, added>> /\ unit[u] # "exited"
      BY <1>2, <2>6 DEF Worker, RunUnit, Uncount, Notify, IInv, TypeOK
    <3>2. ~waiting' => ~waiting \/ unit'[u] = "exited"
      BY <1>2, <2>6 DEF Worker, RunUnit, Uncount, Notify, IInv, TypeOK
    <3>. QED  BY <1>2, <3>1, <3>2 DEF RoomMade, IInv, TypeOK
  <2>. QED  BY <1>2, <2>1, <2>2, <2>3, <2>5, <2>6 DEF Next, Caller, RoomMade
<1>. QED  BY Invariance, <1>1, <1>2, PTL DEF Spec

(* Room for one more: when a unit is about to be created, fewer than        *)
(* MaxThreads run, unless two of them had to wait.                          *)
LEMMA RoomForOne ==
  ASSUME IInv, RoomMade, NumUnits <= MaxThreads + 1, ~SpuriousWakeups, caller = "create"
  PROVE  Cardinality(Running) < MaxThreads
<1>. USE UnitsAssumption, ThreadsAssumption
<1>1. added \in Nat /\ added < NumUnits /\ Running \subseteq 1 .. added
  BY DEF IInv, TypeOK, CreatedInOrder, Running, Units
<1>2. IsFiniteSet(1 .. added) /\ Cardinality(1 .. added) = IF 1 > added THEN 0 ELSE added - 1 + 1
  BY <1>1, FS_Interval
<1>3. Cardinality(Running) \in Nat
  BY UnitSets DEF Running
<1>4. /\ Cardinality(1 .. added) = added /\ Cardinality(Running) <= added
      /\ Cardinality(Running) = added => Running = 1 .. added
  <2>1. Running \in SUBSET (1 .. added)
    BY <1>1
  <2>2. /\ Cardinality(Running) <= Cardinality(1 .. added)
        /\ Cardinality(1 .. added) = Cardinality(Running) => Running = 1 .. added
    BY <1>2, <2>1, FS_Subset
  <2>3. Cardinality(1 .. added) = added
    BY <1>1, <1>2
  <2>. QED  BY <2>2, <2>3
<1>5. ASSUME added >= MaxThreads
      PROVE  Cardinality(Running) < added
  <2>1. PICK u \in Units : unit[u] \notin {"none", "running"}
    BY <1>5 DEF RoomMade
  <2>2. u \in 1 .. added /\ u \notin Running
    BY <1>1, <2>1 DEF IInv, CreatedInOrder, Running, Units
  <2>3. Running # 1 .. added
    BY <2>2
  <2>. QED  BY <1>1, <1>3, <1>4, <2>3
<1>. QED  BY <1>1, <1>3, <1>4, <1>5

(* While at most one unit has to wait for a thread, the limit is kept.      *)
(* With two the caller may be woken by a notification that was meant for    *)
(* the first, and the limit is overrun.                                     *)
THEOREM LimitKept ==
  ASSUME NumUnits <= MaxThreads + 1, ~SpuriousWakeups
  PROVE  Spec => []AtMostMaxThreads
<1>. USE UnitsAssumption, ThreadsAssumption
<1>1. Init => AtMostMaxThreads
  BY PoolStart, FS_EmptySet DEF AtMostMaxThreads
<1>2. ASSUME IInv, RoomMade, AtMostMaxThreads, [Next]_vars
      PROVE  AtMostMaxThreads'
  <2>1. IsFiniteSet(Running) /\ Cardinality(Running) \in Nat
    BY UnitSets DEF Running
  <2>2. ASSUME NEW u \in Units, StartStep(u)
        PROVE  AtMostMaxThreads'
    <3>1. Cardinality(Running) < MaxThreads
      BY <1>2, <2>2, RoomForOne DEF StartStep
    <3>2. Cardinality(Running') = Cardinality(Running) + 1
      BY <2>1, <2>2, FS_AddElement DEF StartStep
    <3>. QED  BY <2>1, <3>1, <3>2 DEF AtMostMaxThreads
  <2>3. ASSUME NEW u \in Units, FinishStep(u)
        PROVE  AtMostMaxThreads'
    <3>1. Cardinality(Running') = Cardinality(Running) - 1
      BY <2>1, <2>3, FS_RemoveElement DEF FinishStep
    <3>. QED  BY <1>2, <2>1, <3>1 DEF AtMostMaxThreads
  <2>4. Running' = Running => AtMostMaxThreads'
    BY <1>2 DEF AtMostMaxThreads
  <2>. QED  BY <1>2, <2>2, <2>3, <2>4, PoolSteps DEF JoinStep, Stutter
<1>. QED  BY Invariance, RoomInvariance, <1>1, <1>2, PTL DEF Spec

(* Under the same conditions the scheduler implements the pool that keeps   *)
(* the limit.                                                               *)
THEOREM ImplementsWorkPool ==
  ASSUME NumUnits <= MaxThreads + 1, ~SpuriousWakeups
  PROVE  Spec => IsWorkPool
<1>1. Init => Pool!Init
  BY PoolStart DEF Pool!Init, Done
<1>2. ASSUME IInv, RoomMade, [Next]_vars
      PROVE  [Pool!Next]_(Pool!vars)
  <2>1. Pool!Cardinality(Running) = Cardinality(Running)
    BY DEF Cardinality, Pool!Cardinality
  <2>2. caller = "create" => Cardinality(Running) < MaxThreads
    BY <1>2, RoomForOne
  <2>3. ASSUME NEW u \in Units, StartStep(u)
        PROVE  Pool!Start(u)
    BY <2>1, <2>2, <2>3 DEF StartStep, Done, Pool!Start
  <2>4. ASSUME NEW u \in Units, FinishStep(u)
        PROVE  Pool!Finish(u)
    BY <2>4 DEF FinishStep, Done, Pool!Finish
  <2>5. JoinStep => Pool!Join
    BY DEF JoinStep, Done, Pool!Join
  <2>6. Stutter => UNCHANGED Pool!vars
    BY DEF Stutter, Done, Pool!vars
  <2>. QED  BY <1>2, <2>3, <2>4, <2>5, <2>6, PoolSteps DEF Pool!Next
<1>. QED  BY Invariance, RoomInvariance, <1>1, <1>2, PTL DEF Spec, IsWorkPool, Pool!Spec
=============================================================================
