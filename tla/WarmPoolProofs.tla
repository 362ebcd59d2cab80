--------------------------- MODULE WarmPoolProofs ---------------------------
(***************************************************************************)
(* Theorems about the warm pool, for every number of callers, workers,     *)
(* slots and CPU ranges and every bound.                                   *)
(***************************************************************************)
EXTENDS WarmPool, FiniteSetTheorems, TLAPS

-----------------------------------------------------------------------------
(* The inductive invariant.                                                *)

\* What a fill worker holds at each place.
WorkerShape ==
    \A w \in Workers :
        IF pc[w] \in {"launched", "push", "discard_kill"}
           THEN \E s \in Slots : hand[w] = {s}
           ELSE hand[w] = {}

\* What a caller holds at each place, and that only a lease survives a method.
CallerShape ==
    \A c \in Callers :
        /\ pc[c] \in {"idle", "refill", "spawn", "finish"} \/ lease[c] = "none"
        /\ pc[c] = "finish" => lease[c] = "live" /\ hand[c] = {}
        /\ pc[c] \in {"idle", "refill", "spawn"} =>
              IF lease[c] = "live" THEN \E s \in Slots : hand[c] = {s} ELSE hand[c] = {}
        /\ pc[c] \in {"lease_check", "fill_push"} => \E s \in Slots : hand[c] = {s}
        /\ pc[c] \in {"lease_pop", "lease_release", "fill_check", "fill_reserve", "fill_attempt",
                      "fill_launch"} => hand[c] = {}
        /\ pc[c] \in {"idle", "finish", "refill", "spawn"} \/ op[c] \in PoolOps

\* The workers a thread has counted and not yet spawned are its own.
SpawnShape ==
    /\ \A t \in Threads : spawns[t] # {} => pc[t] = "spawn"
    /\ \A t \in Threads : \A w \in spawns[t] : pc[w] = "reserved"
    /\ \A t, u \in Threads : t # u => spawns[t] \cap spawns[u] = {}

\* Dropping the pool stops pool methods and new fills, and keeps what it drained until it is killed.
DropShape ==
    /\ drop # "kill" => drained = {}
    /\ drop # "live" => shutdown /\ \A c \in Callers : op[c] \notin PoolOps
    /\ drop = "done" => ready = {} /\ filling = 0

Shape == WorkerShape /\ CallerShape /\ SpawnShape

IInv == TypeOK /\ Shape /\ SlotOwnership /\ CpusetExclusive /\ FillingExact /\ DropShape

-----------------------------------------------------------------------------
\* A finite set of slots, ranges or workers has a natural cardinality.
LEMMA CardinalityNat ==
    ASSUME NEW S, IsFiniteSet(S), NEW T \in SUBSET S
    PROVE  /\ IsFiniteSet(T)
           /\ Cardinality(T) \in Nat
           /\ Cardinality(T) <= Cardinality(S)
<1>1. IsFiniteSet(T)
    BY FS_Subset
<1>2. Cardinality(T) \in Nat
    BY <1>1, FS_CardinalityType
<1>3. Cardinality(T) <= Cardinality(S)
    BY FS_Subset
<1> QED
    BY <1>1, <1>2, <1>3

\* Facts about sizes that the steps of the pool compute with.
LEMMA Sizes ==
    ASSUME TypeOK
    PROVE  /\ Cardinality(ready) \in Nat
           /\ FillCount \in Nat
           /\ FillsReserved \in Nat
           /\ FillsReserved <= FillCount
           /\ filling + FillCount <= MaxFillThreads \/ FillCount = 0
<1>1. Cardinality(ready) \in Nat
    BY CardinalityNat, SlotsFinite DEF TypeOK
<1>2. Cardinality(free_cpuset_cpus) \in Nat
    BY CardinalityNat, RangesAssumption DEF TypeOK
<1>3. Deficit \in Nat
    BY <1>1 DEF TypeOK, Deficit, SaturatingSub
<1>4. FillCount \in Nat /\ (filling + FillCount <= MaxFillThreads \/ FillCount = 0)
    BY <1>3, BoundsAssumption DEF TypeOK, FillCount, SaturatingSub, Smaller
<1>5. FillsReserved \in Nat /\ FillsReserved <= FillCount
    BY <1>2, <1>4 DEF FillsReserved, Smaller
<1> QED
    BY <1>1, <1>4, <1>5

\* Types are kept by every step of a fill worker.
LEMMA WorkerType ==
    ASSUME TypeOK, NEW w \in Workers, Worker(w)
    PROVE  TypeOK'
<1> USE CallersWorkersDisjoint, RangesAssumption DEF TypeOK, Threads, FillingPlaces, WorkerPlaces,
        CallerPlaces, stateVars, vmVars, dropVars, Ops
<1>1. CASE WorkerStart(w)
    BY <1>1 DEF WorkerStart, Goto
<1>2. CASE WorkerLaunch(w)
    BY <1>2 DEF WorkerLaunch, Goto, LaunchSlot
<1>3. CASE WorkerFail(w)
    BY <1>3 DEF WorkerFail, Goto, ReleaseCpuset, SaturatingSub
<1>4. CASE WorkerLoadShutdown(w)
    BY <1>4 DEF WorkerLoadShutdown, Goto
<1>5. CASE WorkerPush(w)
    BY <1>5 DEF WorkerPush, Goto, SaturatingSub
<1>6. CASE WorkerDiscardKill(w)
    BY <1>6 DEF WorkerDiscardKill, Goto, DiscardSandbox, Kill
<1>7. CASE WorkerDiscard(w)
    BY <1>7 DEF WorkerDiscard, Goto, ReleaseCpuset, SaturatingSub
<1> QED
    BY <1>1, <1>2, <1>3, <1>4, <1>5, <1>6, <1>7 DEF Worker

\* Ownership is kept by every step of a fill worker.
LEMMA WorkerOwner ==
    ASSUME TypeOK, Shape, SlotOwnership, DropShape, NEW w \in Workers, Worker(w)
    PROVE  Shape' /\ SlotOwnership'
<1> USE CallersWorkersDisjoint DEF TypeOK, Threads, FillingPlaces, WorkerPlaces, CallerPlaces, stateVars,
        vmVars, dropVars, PoolOps, Shape, WorkerShape, CallerShape, SpawnShape, SlotOwnership
<1>1. CASE WorkerStart(w)
    BY <1>1 DEF WorkerStart, Goto
<1>2. CASE WorkerLaunch(w)
  <2>1. WorkerShape'
    BY <1>2 DEF WorkerLaunch, Goto, LaunchSlot
  <2>2. SpawnShape'
    BY <1>2 DEF WorkerLaunch, Goto, LaunchSlot
  <2>3. CallerShape'
    BY <1>2 DEF WorkerLaunch, Goto, LaunchSlot
  <2>4. SlotOwnership'
    BY <1>2 DEF WorkerLaunch, Goto, LaunchSlot
  <2> QED
    BY <2>1, <2>2, <2>3, <2>4
<1>3. CASE WorkerFail(w)
    BY <1>3 DEF WorkerFail, Goto, ReleaseCpuset, SaturatingSub
<1>4. CASE WorkerLoadShutdown(w)
    BY <1>4 DEF WorkerLoadShutdown, Goto
<1>5. CASE WorkerPush(w)
    BY <1>5 DEF WorkerPush, Goto, SaturatingSub
<1>6. CASE WorkerDiscardKill(w)
  <2>1. WorkerShape'
    BY <1>6 DEF WorkerDiscardKill, Goto, DiscardSandbox, Kill
  <2>2. SpawnShape'
    BY <1>6 DEF WorkerDiscardKill, Goto, DiscardSandbox, Kill
  <2>3. CallerShape'
    BY <1>6 DEF WorkerDiscardKill, Goto, DiscardSandbox, Kill
  <2>4. SlotOwnership'
    BY <1>6 DEF WorkerDiscardKill, Goto, DiscardSandbox, Kill
  <2> QED
    BY <2>1, <2>2, <2>3, <2>4
<1>7. CASE WorkerDiscard(w)
    BY <1>7 DEF WorkerDiscard, Goto, ReleaseCpuset, SaturatingSub
<1> QED
    BY <1>1, <1>2, <1>3, <1>4, <1>5, <1>6, <1>7 DEF Worker

\* CPU ranges stay exclusive through every step of a fill worker.
LEMMA WorkerCpuset ==
    ASSUME TypeOK, Shape, SlotOwnership, CpusetExclusive, NEW w \in Workers, Worker(w)
    PROVE  CpusetExclusive'
<1> USE RangesAssumption DEF TypeOK, Threads, stateVars, vmVars, dropVars, Shape, WorkerShape,
        CallerShape, SlotOwnership, CpusetExclusive
<1>1. CASE WorkerLaunch(w)
    BY <1>1 DEF WorkerLaunch, Goto, LaunchSlot
<1>2. CASE WorkerFail(w)
    BY <1>2 DEF WorkerFail, Goto, ReleaseCpuset, SaturatingSub
<1>3. CASE WorkerDiscardKill(w)
    BY <1>3 DEF WorkerDiscardKill, Goto, DiscardSandbox, Kill
<1>4. CASE WorkerDiscard(w)
    BY <1>4 DEF WorkerDiscard, Goto, ReleaseCpuset, SaturatingSub
<1>5. CASE UNCHANGED <<free_cpuset_cpus, cpu, vms, lost, range>>
    BY <1>5
<1> QED
    BY <1>1, <1>2, <1>3, <1>4, <1>5 DEF Worker, WorkerStart, WorkerLoadShutdown, WorkerPush

\* Types are kept by every step of start_background_fill.
LEMMA RefillType ==
    ASSUME TypeOK, NEW t \in Threads, Refill(t)
    PROVE  TypeOK'
<1> USE CallersWorkersDisjoint, RangesAssumption DEF TypeOK, Threads, FillingPlaces, WorkerPlaces,
        CallerPlaces, stateVars, vmVars, dropVars, Ops
<1>1. CASE StartBackgroundFillNone(t)
    BY <1>1 DEF StartBackgroundFillNone, Goto, AfterFill, OpAfterFill
<1>2. CASE StartBackgroundFill(t)
    BY <1>2, Sizes DEF StartBackgroundFill, Reservations
<1>3. CASE \E w \in Workers : SpawnFillWorker(t, w)
    BY <1>3 DEF SpawnFillWorker, AfterFill, OpAfterFill
<1> QED
    BY <1>1, <1>2, <1>3 DEF Refill

\* Ownership is kept by every step of start_background_fill.
LEMMA RefillOwner ==
    ASSUME TypeOK, Shape, SlotOwnership, DropShape, NEW t \in Threads, Refill(t)
    PROVE  Shape' /\ SlotOwnership'
<1> USE CallersWorkersDisjoint DEF TypeOK, Threads, FillingPlaces, WorkerPlaces, CallerPlaces, stateVars,
        vmVars, dropVars, PoolOps, Shape, WorkerShape, CallerShape, SpawnShape, SlotOwnership
<1>1. CASE StartBackgroundFillNone(t)
    BY <1>1 DEF StartBackgroundFillNone, Goto, AfterFill, OpAfterFill
<1>2. CASE StartBackgroundFill(t)
  <2>1. WorkerShape'
    BY <1>2 DEF StartBackgroundFill, Reservations
  <2>2. SpawnShape'
    BY <1>2 DEF StartBackgroundFill, Reservations
  <2>3. CallerShape'
    BY <1>2 DEF StartBackgroundFill, Reservations
  <2>4. SlotOwnership'
    BY <1>2 DEF StartBackgroundFill, Reservations
  <2> QED
    BY <2>1, <2>2, <2>3, <2>4
<1>3. CASE \E w \in Workers : SpawnFillWorker(t, w)
  <2>1. WorkerShape'
    BY <1>3 DEF SpawnFillWorker, AfterFill, OpAfterFill
  <2>2. SpawnShape'
    BY <1>3 DEF SpawnFillWorker, AfterFill, OpAfterFill
  <2>3. CallerShape'
    BY <1>3 DEF SpawnFillWorker, AfterFill, OpAfterFill
  <2>4. SlotOwnership'
    BY <1>3 DEF SpawnFillWorker, AfterFill, OpAfterFill
  <2> QED
    BY <2>1, <2>2, <2>3, <2>4
<1> QED
    BY <1>1, <1>2, <1>3 DEF Refill

\* CPU ranges stay exclusive through every step of start_background_fill.
LEMMA RefillCpuset ==
    ASSUME TypeOK, Shape, SlotOwnership, CpusetExclusive, NEW t \in Threads, Refill(t)
    PROVE  CpusetExclusive'
<1> USE RangesAssumption DEF TypeOK, Threads, stateVars, vmVars, dropVars, Shape, WorkerShape,
        CallerShape, SlotOwnership, CpusetExclusive
<1>1. CASE StartBackgroundFill(t)
    BY <1>1 DEF StartBackgroundFill, Reservations
<1>2. CASE UNCHANGED <<free_cpuset_cpus, cpu, vms, lost, range>>
    BY <1>2
<1> QED
    BY <1>1, <1>2 DEF Refill, StartBackgroundFillNone, SpawnFillWorker

\* Types are kept by every step inside a method of a caller.
LEMMA CallerStepType ==
    ASSUME TypeOK, NEW c \in Callers, CallerStep(c)
    PROVE  TypeOK'
<1> USE CallersWorkersDisjoint, RangesAssumption DEF TypeOK, Threads, FillingPlaces, WorkerPlaces,
        CallerPlaces, stateVars, vmVars, dropVars, Ops
<1>1. CASE TryLeaseNext(c)
    BY <1>1 DEF TryLeaseNext, PopReady, Goto
<1>2. CASE TryLeaseEmpty(c)
    BY <1>2 DEF TryLeaseEmpty, Goto
<1>3. CASE LeaseAcquire(c)
    BY <1>3 DEF LeaseAcquire, Goto
<1>4. CASE LeaseDiscardDead(c)
    BY <1>4 DEF LeaseDiscardDead, Goto, DiscardSandbox, Kill
<1>5. CASE LeaseReleaseDead(c)
    BY <1>5 DEF LeaseReleaseDead, Goto, ReleaseCpuset
<1>6. CASE LeaseFinished(c)
    BY <1>6 DEF LeaseFinished, Goto, ReleaseCpuset, SaturatingSub
<1>7. CASE ResizeKill(c)
    BY <1>7 DEF ResizeKill, Goto, DiscardSandbox, Kill
<1>8. CASE ResizeRelease(c)
    BY <1>8 DEF ResizeRelease, Goto, ReleaseCpuset
<1>9. CASE FillCheck(c)
    BY <1>9 DEF FillCheck, Goto, Return
<1>10. CASE FillNoCpuset(c)
    BY <1>10 DEF FillNoCpuset, Goto, Return
<1>11. CASE FillReserve(c)
    BY <1>11 DEF FillReserve, Goto, Reservations
<1>12. CASE FillAttempt(c)
    BY <1>12 DEF FillAttempt, Goto
<1>13. CASE FillLaunch(c)
    BY <1>13 DEF FillLaunch, Goto, LaunchSlot
<1>14. CASE FillFail(c)
    BY <1>14 DEF FillFail, Goto, Return, ReleaseCpuset
<1>15. CASE FillPush(c)
    BY <1>15 DEF FillPush, Goto
<1> QED
    BY <1>1, <1>2, <1>3, <1>4, <1>5, <1>6, <1>7, <1>8, <1>9, <1>10, <1>11, <1>12, <1>13, <1>14, <1>15 DEF
        CallerStep

\* Ownership is kept by every step inside a method of a caller.
LEMMA CallerStepOwner ==
    ASSUME TypeOK, Shape, SlotOwnership, DropShape, NEW c \in Callers, CallerStep(c)
    PROVE  Shape' /\ SlotOwnership'
<1> USE CallersWorkersDisjoint DEF TypeOK, Threads, FillingPlaces, WorkerPlaces, CallerPlaces, stateVars,
        vmVars, dropVars, PoolOps, Shape, WorkerShape, CallerShape, SpawnShape, SlotOwnership
<1>1. CASE TryLeaseNext(c)
  <2>1. WorkerShape'
    BY <1>1 DEF TryLeaseNext, PopReady, Goto
  <2>2. SpawnShape'
    BY <1>1 DEF TryLeaseNext, PopReady, Goto
  <2>3. CallerShape'
    BY <1>1 DEF TryLeaseNext, PopReady, Goto
  <2>4. SlotOwnership'
    BY <1>1 DEF TryLeaseNext, PopReady, Goto
  <2> QED
    BY <2>1, <2>2, <2>3, <2>4
<1>2. CASE TryLeaseEmpty(c)
    BY <1>2 DEF TryLeaseEmpty, Goto
<1>3. CASE LeaseAcquire(c)
    BY <1>3 DEF LeaseAcquire, Goto
<1>4. CASE LeaseDiscardDead(c)
  <2>1. WorkerShape'
    BY <1>4 DEF LeaseDiscardDead, Goto, DiscardSandbox, Kill
  <2>2. SpawnShape'
    BY <1>4 DEF LeaseDiscardDead, Goto, DiscardSandbox, Kill
  <2>3. CallerShape'
    BY <1>4 DEF LeaseDiscardDead, Goto, DiscardSandbox, Kill
  <2>4. SlotOwnership'
    BY <1>4 DEF LeaseDiscardDead, Goto, DiscardSandbox, Kill
  <2> QED
    BY <2>1, <2>2, <2>3, <2>4
<1>5. CASE LeaseReleaseDead(c)
    BY <1>5 DEF LeaseReleaseDead, Goto, ReleaseCpuset
<1>6. CASE LeaseFinished(c)
    BY <1>6 DEF LeaseFinished, Goto, ReleaseCpuset, SaturatingSub
<1>7. CASE ResizeKill(c)
  <2>1. WorkerShape'
    BY <1>7 DEF ResizeKill, Goto, DiscardSandbox, Kill
  <2>2. SpawnShape'
    BY <1>7 DEF ResizeKill, Goto, DiscardSandbox, Kill
  <2>3. CallerShape'
    BY <1>7 DEF ResizeKill, Goto, DiscardSandbox, Kill
  <2>4. SlotOwnership'
    BY <1>7 DEF ResizeKill, Goto, DiscardSandbox, Kill
  <2> QED
    BY <2>1, <2>2, <2>3, <2>4
<1>8. CASE ResizeRelease(c)
    BY <1>8 DEF ResizeRelease, Goto, ReleaseCpuset
<1>9. CASE FillCheck(c)
    BY <1>9 DEF FillCheck, Goto, Return
<1>10. CASE FillNoCpuset(c)
    BY <1>10 DEF FillNoCpuset, Goto, Return
<1>11. CASE FillReserve(c)
    BY <1>11 DEF FillReserve, Goto, Reservations
<1>12. CASE FillAttempt(c)
    BY <1>12 DEF FillAttempt, Goto
<1>13. CASE FillLaunch(c)
  <2>1. WorkerShape'
    BY <1>13 DEF FillLaunch, Goto, LaunchSlot
  <2>2. SpawnShape'
    BY <1>13 DEF FillLaunch, Goto, LaunchSlot
  <2>3. CallerShape'
    BY <1>13 DEF FillLaunch, Goto, LaunchSlot
  <2>4. SlotOwnership'
    BY <1>13 DEF FillLaunch, Goto, LaunchSlot
  <2> QED
    BY <2>1, <2>2, <2>3, <2>4
<1>14. CASE FillFail(c)
    BY <1>14 DEF FillFail, Goto, Return, ReleaseCpuset
<1>15. CASE FillPush(c)
    BY <1>15 DEF FillPush, Goto
<1> QED
    BY <1>1, <1>2, <1>3, <1>4, <1>5, <1>6, <1>7, <1>8, <1>9, <1>10, <1>11, <1>12, <1>13, <1>14, <1>15 DEF
        CallerStep

\* CPU ranges stay exclusive through every step inside a method of a caller.
LEMMA CallerStepCpuset ==
    ASSUME TypeOK, Shape, SlotOwnership, CpusetExclusive, NEW c \in Callers, CallerStep(c)
    PROVE  CpusetExclusive'
<1> USE RangesAssumption DEF TypeOK, Threads, stateVars, vmVars, dropVars, Shape, WorkerShape,
        CallerShape, SlotOwnership, CpusetExclusive
<1>1. CASE LeaseDiscardDead(c)
    BY <1>1 DEF LeaseDiscardDead, Goto, DiscardSandbox, Kill
<1>2. CASE LeaseReleaseDead(c)
    BY <1>2 DEF LeaseReleaseDead, Goto, ReleaseCpuset
<1>3. CASE LeaseFinished(c)
    BY <1>3 DEF LeaseFinished, Goto, ReleaseCpuset, SaturatingSub
<1>4. CASE ResizeKill(c)
    BY <1>4 DEF ResizeKill, Goto, DiscardSandbox, Kill
<1>5. CASE ResizeRelease(c)
    BY <1>5 DEF ResizeRelease, Goto, ReleaseCpuset
<1>6. CASE FillReserve(c)
    BY <1>6 DEF FillReserve, Goto, Reservations
<1>7. CASE FillLaunch(c)
    BY <1>7 DEF FillLaunch, Goto, LaunchSlot
<1>8. CASE FillFail(c)
    BY <1>8 DEF FillFail, Goto, Return, ReleaseCpuset
<1>9. CASE UNCHANGED <<free_cpuset_cpus, cpu, vms, lost, range>>
    BY <1>9
<1> QED
    BY <1>1, <1>2, <1>3, <1>4, <1>5, <1>6, <1>7, <1>8, <1>9 DEF CallerStep, TryLeaseNext, TryLeaseEmpty,
        LeaseAcquire, FillCheck, FillNoCpuset, FillAttempt, FillPush, PopReady

\* Types are kept by every call a caller makes.
LEMMA CallerCallType ==
    ASSUME TypeOK, NEW c \in Callers, CallerCall(c)
    PROVE  TypeOK'
<1> USE CallersWorkersDisjoint, RangesAssumption DEF TypeOK, Threads, FillingPlaces, WorkerPlaces,
        CallerPlaces, stateVars, vmVars, dropVars, Ops
<1>1. CASE TryLease(c)
    BY <1>1 DEF TryLease, Call, PopReady, Goto
<1>2. CASE LeaseExecAndDiscard(c)
    BY <1>2 DEF LeaseExecAndDiscard, LeaseKill, Goto, DiscardSandbox, Kill
<1>3. CASE LeaseDiscard(c)
    BY <1>3 DEF LeaseDiscard, LeaseKill, Goto, DiscardSandbox, Kill
<1>4. CASE LeaseDiscardReleased(c)
    BY <1>4 DEF LeaseDiscardReleased
<1>5. CASE \E n \in ResizeTargets : SetTargetReady(c, n)
    BY <1>5, Sizes, CardinalityNat, SlotsFinite, TargetAssumption DEF SetTargetReady, Call, Goto
<1>6. CASE PoolStartBackgroundFill(c)
    BY <1>6 DEF PoolStartBackgroundFill, Call, Goto
<1>7. CASE FillToTargetBlocking(c)
    BY <1>7 DEF FillToTargetBlocking, Call, Goto
<1> QED
    BY <1>1, <1>2, <1>3, <1>4, <1>5, <1>6, <1>7 DEF CallerCall

\* Ownership is kept when a lease is ended: its one slot leaves the caller's hand
\* and is deleted, or lost to a force_kill that failed.
LEMMA LeaseKillOwner ==
    ASSUME TypeOK, Shape, SlotOwnership, NEW c \in Callers, NEW method, LeaseKill(c, method)
    PROVE  SlotOwnership'
<1>1. PICK s \in hand[c] : DiscardSandbox(c, s)
    BY DEF LeaseKill
<1>2. c \in Threads /\ hand \in [Threads -> SUBSET Slots]
    BY DEF TypeOK, Threads
<1>3. hand[c] = {s}
    BY <1>1, <1>2 DEF LeaseKill, Shape, CallerShape
<1>4. vms' \ lost' = (vms \ lost) \ {s} /\ lost' \subseteq vms'
    BY <1>1, <1>2 DEF DiscardSandbox, Kill, SlotOwnership
<1>5. hand' = [hand EXCEPT ![c] = {}] /\ UNCHANGED <<ready, drained>>
    BY DEF LeaseKill, stateVars, dropVars
<1>6. \A t \in Threads : hand'[t] = IF t = c THEN {} ELSE hand[t]
    BY <1>2, <1>5
<1>7. \A t \in Threads : hand'[t] = hand[t] \ {s}
    BY <1>2, <1>3, <1>6 DEF SlotOwnership
<1> QED
    BY <1>2, <1>3, <1>4, <1>5, <1>6, <1>7 DEF SlotOwnership

\* Ownership is kept by every call a caller makes.
LEMMA CallerCallOwner ==
    ASSUME TypeOK, Shape, SlotOwnership, DropShape, NEW c \in Callers, CallerCall(c)
    PROVE  Shape' /\ SlotOwnership'
<1> USE CallersWorkersDisjoint DEF TypeOK, Threads, FillingPlaces, WorkerPlaces, CallerPlaces, stateVars,
        vmVars, dropVars, PoolOps, Shape, WorkerShape, CallerShape, SpawnShape, SlotOwnership
<1>1. CASE TryLease(c)
  <2>1. WorkerShape'
    BY <1>1, ZenonT(60) DEF TryLease, Call, PopReady, Goto
  <2>2. SpawnShape'
    BY <1>1 DEF TryLease, Call, PopReady, Goto
  <2>3. CallerShape'
    BY <1>1 DEF TryLease, Call, PopReady, Goto
  <2>4. SlotOwnership'
    BY <1>1 DEF TryLease, Call, PopReady, Goto
  <2> QED
    BY <2>1, <2>2, <2>3, <2>4
<1>2. CASE LeaseExecAndDiscard(c)
  <2>1. WorkerShape'
    BY <1>2 DEF LeaseExecAndDiscard, LeaseKill, Goto, DiscardSandbox, Kill
  <2>2. SpawnShape'
    BY <1>2 DEF LeaseExecAndDiscard, LeaseKill, Goto, DiscardSandbox, Kill
  <2>3. CallerShape'
    BY <1>2 DEF LeaseExecAndDiscard, LeaseKill, Goto, DiscardSandbox, Kill
  <2>4. SlotOwnership'
    BY <1>2, LeaseKillOwner DEF LeaseExecAndDiscard
  <2> QED
    BY <2>1, <2>2, <2>3, <2>4
<1>3. CASE LeaseDiscard(c)
  <2>1. WorkerShape'
    BY <1>3 DEF LeaseDiscard, LeaseKill, Goto, DiscardSandbox, Kill
  <2>2. SpawnShape'
    BY <1>3 DEF LeaseDiscard, LeaseKill, Goto, DiscardSandbox, Kill
  <2>3. CallerShape'
    BY <1>3 DEF LeaseDiscard, LeaseKill, Goto, DiscardSandbox, Kill
  <2>4. SlotOwnership'
    BY <1>3, LeaseKillOwner DEF LeaseDiscard
  <2> QED
    BY <2>1, <2>2, <2>3, <2>4
<1>4. CASE LeaseDiscardReleased(c)
    BY <1>4 DEF LeaseDiscardReleased
<1>5. CASE \E n \in ResizeTargets : SetTargetReady(c, n)
  <2>1. WorkerShape'
    BY <1>5 DEF SetTargetReady, Call, Goto
  <2>2. SpawnShape'
    BY <1>5 DEF SetTargetReady, Call, Goto
  <2>3. CallerShape'
    BY <1>5 DEF SetTargetReady, Call, Goto
  <2>4. SlotOwnership'
    BY <1>5 DEF SetTargetReady, Call, Goto
  <2> QED
    BY <2>1, <2>2, <2>3, <2>4
<1>6. CASE PoolStartBackgroundFill(c)
  <2>1. WorkerShape'
    BY <1>6 DEF PoolStartBackgroundFill, Call, Goto
  <2>2. SpawnShape'
    BY <1>6 DEF PoolStartBackgroundFill, Call, Goto
  <2>3. CallerShape'
    BY <1>6 DEF PoolStartBackgroundFill, Call, Goto
  <2>4. SlotOwnership'
    BY <1>6 DEF PoolStartBackgroundFill, Call, Goto
  <2> QED
    BY <2>1, <2>2, <2>3, <2>4
<1>7. CASE FillToTargetBlocking(c)
  <2>1. WorkerShape'
    BY <1>7 DEF FillToTargetBlocking, Call, Goto
  <2>2. SpawnShape'
    BY <1>7 DEF FillToTargetBlocking, Call, Goto
  <2>3. CallerShape'
    BY <1>7 DEF FillToTargetBlocking, Call, Goto
  <2>4. SlotOwnership'
    BY <1>7 DEF FillToTargetBlocking, Call, Goto
  <2> QED
    BY <2>1, <2>2, <2>3, <2>4
<1> QED
    BY <1>1, <1>2, <1>3, <1>4, <1>5, <1>6, <1>7 DEF CallerCall

\* CPU ranges stay exclusive through every call a caller makes.
LEMMA CallerCallCpuset ==
    ASSUME TypeOK, Shape, SlotOwnership, CpusetExclusive, NEW c \in Callers, CallerCall(c)
    PROVE  CpusetExclusive'
<1> USE RangesAssumption DEF TypeOK, Threads, stateVars, vmVars, dropVars, Shape, WorkerShape,
        CallerShape, SlotOwnership, CpusetExclusive
<1>1. CASE LeaseExecAndDiscard(c)
    BY <1>1 DEF LeaseExecAndDiscard, LeaseKill, Goto, DiscardSandbox, Kill
<1>2. CASE LeaseDiscard(c)
    BY <1>2 DEF LeaseDiscard, LeaseKill, Goto, DiscardSandbox, Kill
<1>3. CASE UNCHANGED <<free_cpuset_cpus, cpu, vms, lost, range>>
    BY <1>3
<1> QED
    BY <1>1, <1>2, <1>3 DEF CallerCall, TryLease, LeaseDiscardReleased, SetTargetReady,
        PoolStartBackgroundFill, FillToTargetBlocking, PopReady

\* Types are kept by every step of WarmPool::drop.
LEMMA DropStepType ==
    ASSUME TypeOK, DropStep
    PROVE  TypeOK'
<1> USE CallersWorkersDisjoint, RangesAssumption DEF TypeOK, Threads, FillingPlaces, WorkerPlaces,
        CallerPlaces, stateVars, vmVars, dropVars, Ops
<1>1. CASE DropReturn
    BY <1>1 DEF DropReturn
<1>2. CASE DropDrain
    BY <1>2, Sizes DEF DropDrain
<1>3. CASE \E s \in Slots : DropKill(s)
    BY <1>3 DEF DropKill, Kill
<1> QED
    BY <1>1, <1>2, <1>3 DEF DropStep

\* Ownership is kept by every step of WarmPool::drop.
LEMMA DropStepOwner ==
    ASSUME TypeOK, Shape, SlotOwnership, DropShape, DropStep
    PROVE  Shape' /\ SlotOwnership'
<1> USE CallersWorkersDisjoint DEF TypeOK, Threads, FillingPlaces, WorkerPlaces, CallerPlaces, stateVars,
        vmVars, dropVars, PoolOps, Shape, WorkerShape, CallerShape, SpawnShape, SlotOwnership
<1>1. CASE DropReturn
    BY <1>1 DEF DropReturn
<1>2. CASE DropDrain
    BY <1>2 DEF DropDrain, DropShape
<1>3. CASE \E s \in Slots : DropKill(s)
  <2>1. WorkerShape'
    BY <1>3 DEF DropKill, Kill
  <2>2. SpawnShape'
    BY <1>3 DEF DropKill, Kill
  <2>3. CallerShape'
    BY <1>3 DEF DropKill, Kill
  <2>4. SlotOwnership'
    BY <1>3 DEF DropKill, Kill
  <2> QED
    BY <2>1, <2>2, <2>3, <2>4
<1> QED
    BY <1>1, <1>2, <1>3 DEF DropStep

\* CPU ranges stay exclusive through every step of WarmPool::drop.
LEMMA DropStepCpuset ==
    ASSUME TypeOK, Shape, SlotOwnership, CpusetExclusive, DropStep
    PROVE  CpusetExclusive'
<1> USE RangesAssumption DEF TypeOK, Threads, stateVars, vmVars, dropVars, Shape, WorkerShape,
        CallerShape, SlotOwnership, CpusetExclusive
<1>1. CASE \E s \in Slots : DropKill(s)
    BY <1>1 DEF DropKill, Kill
<1>2. CASE UNCHANGED <<free_cpuset_cpus, cpu, vms, lost, range>>
    BY <1>2
<1> QED
    BY <1>1, <1>2 DEF DropStep, DropReturn, DropDrain

-----------------------------------------------------------------------------
(* `filling` counts the fill workers.                                      *)

Fillers == {w \in Workers : pc[w] \in FillingPlaces}

\* With nothing counted no worker is filling.
LEMMA NoFillers ==
    ASSUME TypeOK, FillingExact, filling = 0
    PROVE  \A w \in Workers : pc[w] \notin FillingPlaces
<1>1. IsFiniteSet(Fillers) /\ Cardinality(Fillers) = 0
    BY CardinalityNat, WorkersFinite DEF FillingExact, Fillers
<1>2. Fillers = {}
    BY <1>1, FS_EmptySet
<1> QED
    BY <1>2 DEF Fillers

\* A step that moves no worker into or out of a counted place.
LEMMA FillersStay ==
    ASSUME FillingExact, filling' = filling,
           \A w \in Workers : pc'[w] \in FillingPlaces <=> pc[w] \in FillingPlaces
    PROVE  FillingExact'
<1>1. Fillers' = Fillers
    BY DEF Fillers
<1> QED
    BY <1>1 DEF FillingExact, Fillers

\* A worker that reports its fill.
LEMMA FillerLeaves ==
    ASSUME TypeOK, FillingExact, NEW w \in Workers,
           pc[w] \in FillingPlaces, pc'[w] \notin FillingPlaces,
           \A v \in Workers \ {w} : pc'[v] = pc[v], filling' = SaturatingSub(filling, 1)
    PROVE  FillingExact'
<1>1. Fillers' = Fillers \ {w} /\ w \in Fillers
    BY DEF Fillers, TypeOK, Threads
<1>2. IsFiniteSet(Fillers) /\ Cardinality(Fillers) \in Nat
    BY CardinalityNat, WorkersFinite DEF Fillers
<1>3. Cardinality(Fillers') = Cardinality(Fillers) - 1 /\ Cardinality(Fillers') \in Nat
    BY <1>1, <1>2, FS_RemoveElement, FS_CardinalityType
<1>4. Cardinality(Fillers) = filling /\ filling <= MaxFillThreads
    BY DEF FillingExact, Fillers
<1>5. filling' = Cardinality(Fillers') /\ filling' <= MaxFillThreads
    BY <1>2, <1>3, <1>4, BoundsAssumption DEF SaturatingSub
<1> QED
    BY <1>5 DEF FillingExact, Fillers

\* start_background_fill counts the workers it reserves.
LEMMA FillersJoin ==
    ASSUME TypeOK, FillingExact, NEW t \in Threads, StartBackgroundFill(t)
    PROVE  FillingExact'
<1>1. PICK new \in SUBSET {w \in Workers : pc[w] = "none"} :
         /\ Cardinality(new) = FillsReserved
         /\ filling' = filling + FillsReserved
         /\ pc' = [u \in Threads |-> IF u \in new THEN "reserved" ELSE IF u = t THEN "spawn" ELSE pc[u]]
    BY DEF StartBackgroundFill
<1>2. Fillers' = Fillers \cup new /\ Fillers \cap new = {}
    BY <1>1 DEF Fillers, FillingPlaces, Threads, StartBackgroundFill
<1>3. IsFiniteSet(Fillers) /\ IsFiniteSet(new) /\ Cardinality(Fillers) \in Nat
    BY CardinalityNat, WorkersFinite DEF Fillers
<1>4. Cardinality(Fillers') = Cardinality(Fillers) + Cardinality(new)
  <2>1. Cardinality(Fillers \cap new) = 0
    BY <1>2, FS_EmptySet
  <2>2. Cardinality(Fillers \cup new) = Cardinality(Fillers) + Cardinality(new) - Cardinality(Fillers \cap new)
    BY <1>3, FS_Union
  <2>3. Cardinality(new) \in Nat
    BY <1>3, FS_CardinalityType
  <2> QED
    BY <1>2, <1>3, <2>1, <2>2, <2>3
<1>5. Cardinality(Fillers) = filling /\ filling <= MaxFillThreads
    BY DEF FillingExact, Fillers
<1>6. filling' = Cardinality(Fillers')
    BY <1>1, <1>4, <1>5
<1>7. filling' <= MaxFillThreads
    BY <1>1, <1>5, Sizes, BoundsAssumption DEF StartBackgroundFill, TypeOK
<1> QED
    BY <1>6, <1>7 DEF FillingExact, Fillers

\* `filling` stays exact, and WarmPool::drop stays final, through every step of a fill worker.
LEMMA WorkerFill ==
    ASSUME IInv, NEW w \in Workers, Worker(w)
    PROVE  FillingExact' /\ DropShape'
<1> USE CallersWorkersDisjoint DEF IInv, TypeOK, Threads, FillingPlaces, stateVars, vmVars, dropVars
<1>1. CASE WorkerStart(w)
  <2>1. FillingExact'
    BY <1>1, FillersStay DEF WorkerStart, Goto
  <2>2. DropShape'
    BY <1>1, NoFillers DEF WorkerStart, Goto, DropShape, Shape, CallerShape, PoolOps
  <2> QED
    BY <2>1, <2>2
<1>2. CASE WorkerLaunch(w)
  <2>1. FillingExact'
    BY <1>2, FillersStay DEF WorkerLaunch, Goto, LaunchSlot
  <2>2. DropShape'
    BY <1>2, NoFillers DEF WorkerLaunch, Goto, LaunchSlot, DropShape, Shape, CallerShape, PoolOps
  <2> QED
    BY <2>1, <2>2
<1>3. CASE WorkerFail(w)
  <2>1. FillingExact'
    BY <1>3, FillerLeaves DEF WorkerFail, Goto
  <2>2. DropShape'
    BY <1>3, NoFillers DEF WorkerFail, Goto, ReleaseCpuset, SaturatingSub, DropShape, Shape, CallerShape,
        PoolOps
  <2> QED
    BY <2>1, <2>2
<1>4. CASE WorkerLoadShutdown(w)
  <2>1. FillingExact'
    BY <1>4, FillersStay DEF WorkerLoadShutdown, Goto
  <2>2. DropShape'
    BY <1>4, NoFillers DEF WorkerLoadShutdown, Goto, DropShape, Shape, CallerShape, PoolOps
  <2> QED
    BY <2>1, <2>2
<1>5. CASE WorkerPush(w)
  <2>1. FillingExact'
    BY <1>5, FillerLeaves DEF WorkerPush, Goto
  <2>2. DropShape'
    BY <1>5, NoFillers DEF WorkerPush, Goto, SaturatingSub, DropShape, Shape, CallerShape, PoolOps
  <2> QED
    BY <2>1, <2>2
<1>6. CASE WorkerDiscardKill(w)
  <2>1. FillingExact'
    BY <1>6, FillersStay DEF WorkerDiscardKill, Goto, DiscardSandbox, Kill
  <2>2. DropShape'
    BY <1>6, NoFillers DEF WorkerDiscardKill, Goto, DiscardSandbox, Kill, DropShape, Shape, CallerShape,
        PoolOps
  <2> QED
    BY <2>1, <2>2
<1>7. CASE WorkerDiscard(w)
  <2>1. FillingExact'
    BY <1>7, FillerLeaves DEF WorkerDiscard, Goto
  <2>2. DropShape'
    BY <1>7, NoFillers DEF WorkerDiscard, Goto, ReleaseCpuset, SaturatingSub, DropShape, Shape,
        CallerShape, PoolOps
  <2> QED
    BY <2>1, <2>2
<1> QED
    BY <1>1, <1>2, <1>3, <1>4, <1>5, <1>6, <1>7 DEF Worker

\* `filling` stays exact, and WarmPool::drop stays final, through every step of start_background_fill.
LEMMA RefillFill ==
    ASSUME IInv, NEW t \in Threads, Refill(t)
    PROVE  FillingExact' /\ DropShape'
<1> USE CallersWorkersDisjoint DEF IInv, TypeOK, Threads, FillingPlaces, stateVars, vmVars, dropVars
<1>1. CASE StartBackgroundFillNone(t)
  <2>1. FillingExact'
    BY <1>1, FillersStay DEF StartBackgroundFillNone, Goto, AfterFill, OpAfterFill
  <2>2. DropShape'
    BY <1>1, NoFillers DEF StartBackgroundFillNone, Goto, AfterFill, OpAfterFill, DropShape, Shape,
        CallerShape, PoolOps
  <2> QED
    BY <2>1, <2>2
<1>2. CASE StartBackgroundFill(t)
  <2>1. FillingExact'
    BY <1>2, FillersJoin
  <2>2. DropShape'
    BY <1>2, NoFillers DEF StartBackgroundFill, Reservations, DropShape, Shape, CallerShape, PoolOps
  <2> QED
    BY <2>1, <2>2
<1>3. CASE \E w \in Workers : SpawnFillWorker(t, w)
  <2>1. FillingExact'
    BY <1>3, FillersStay DEF SpawnFillWorker, AfterFill, OpAfterFill, Shape, SpawnShape
  <2>2. DropShape'
    BY <1>3, NoFillers DEF SpawnFillWorker, AfterFill, OpAfterFill, DropShape, Shape, CallerShape,
        PoolOps
  <2> QED
    BY <2>1, <2>2
<1> QED
    BY <1>1, <1>2, <1>3 DEF Refill

\* `filling` stays exact, and WarmPool::drop stays final, through every step inside a method of a caller.
LEMMA CallerStepFill ==
    ASSUME IInv, NEW c \in Callers, CallerStep(c)
    PROVE  FillingExact' /\ DropShape'
<1> USE CallersWorkersDisjoint DEF IInv, TypeOK, Threads, FillingPlaces, stateVars, vmVars, dropVars
<1>1. CASE TryLeaseNext(c)
  <2>1. FillingExact'
    BY <1>1, FillersStay DEF TryLeaseNext, PopReady, Goto
  <2>2. DropShape'
    BY <1>1, NoFillers DEF TryLeaseNext, PopReady, Goto, DropShape, Shape, CallerShape, PoolOps
  <2> QED
    BY <2>1, <2>2
<1>2. CASE TryLeaseEmpty(c)
  <2>1. FillingExact'
    BY <1>2, FillersStay DEF TryLeaseEmpty, Goto
  <2>2. DropShape'
    BY <1>2, NoFillers DEF TryLeaseEmpty, Goto, DropShape, Shape, CallerShape, PoolOps
  <2> QED
    BY <2>1, <2>2
<1>3. CASE LeaseAcquire(c)
  <2>1. FillingExact'
    BY <1>3, FillersStay DEF LeaseAcquire, Goto
  <2>2. DropShape'
    BY <1>3, NoFillers DEF LeaseAcquire, Goto, DropShape, Shape, CallerShape, PoolOps
  <2> QED
    BY <2>1, <2>2
<1>4. CASE LeaseDiscardDead(c)
  <2>1. FillingExact'
    BY <1>4, FillersStay DEF LeaseDiscardDead, Goto, DiscardSandbox, Kill
  <2>2. DropShape'
    BY <1>4, NoFillers DEF LeaseDiscardDead, Goto, DiscardSandbox, Kill, DropShape, Shape, CallerShape,
        PoolOps
  <2> QED
    BY <2>1, <2>2
<1>5. CASE LeaseReleaseDead(c)
  <2>1. FillingExact'
    BY <1>5, FillersStay DEF LeaseReleaseDead, Goto, ReleaseCpuset
  <2>2. DropShape'
    BY <1>5, NoFillers DEF LeaseReleaseDead, Goto, ReleaseCpuset, DropShape, Shape, CallerShape, PoolOps
  <2> QED
    BY <2>1, <2>2
<1>6. CASE LeaseFinished(c)
  <2>1. FillingExact'
    BY <1>6, FillersStay DEF LeaseFinished, Goto, ReleaseCpuset, SaturatingSub
  <2>2. DropShape'
    BY <1>6, NoFillers DEF LeaseFinished, Goto, ReleaseCpuset, SaturatingSub, DropShape, Shape,
        CallerShape, PoolOps
  <2> QED
    BY <2>1, <2>2
<1>7. CASE ResizeKill(c)
  <2>1. FillingExact'
    BY <1>7, FillersStay DEF ResizeKill, Goto, DiscardSandbox, Kill
  <2>2. DropShape'
    BY <1>7, NoFillers DEF ResizeKill, Goto, DiscardSandbox, Kill, DropShape, Shape, CallerShape, PoolOps
  <2> QED
    BY <2>1, <2>2
<1>8. CASE ResizeRelease(c)
  <2>1. FillingExact'
    BY <1>8, FillersStay DEF ResizeRelease, Goto, ReleaseCpuset
  <2>2. DropShape'
    BY <1>8, NoFillers DEF ResizeRelease, Goto, ReleaseCpuset, DropShape, Shape, CallerShape, PoolOps
  <2> QED
    BY <2>1, <2>2
<1>9. CASE FillCheck(c)
  <2>1. FillingExact'
    BY <1>9, FillersStay DEF FillCheck, Goto, Return
  <2>2. DropShape'
    BY <1>9, NoFillers DEF FillCheck, Goto, Return, DropShape, Shape, CallerShape, PoolOps
  <2> QED
    BY <2>1, <2>2
<1>10. CASE FillNoCpuset(c)
  <2>1. FillingExact'
    BY <1>10, FillersStay DEF FillNoCpuset, Goto, Return
  <2>2. DropShape'
    BY <1>10, NoFillers DEF FillNoCpuset, Goto, Return, DropShape, Shape, CallerShape, PoolOps
  <2> QED
    BY <2>1, <2>2
<1>11. CASE FillReserve(c)
  <2>1. FillingExact'
    BY <1>11, FillersStay DEF FillReserve, Goto, Reservations
  <2>2. DropShape'
    BY <1>11, NoFillers DEF FillReserve, Goto, Reservations, DropShape, Shape, CallerShape, PoolOps
  <2> QED
    BY <2>1, <2>2
<1>12. CASE FillAttempt(c)
  <2>1. FillingExact'
    BY <1>12, FillersStay DEF FillAttempt, Goto
  <2>2. DropShape'
    BY <1>12, NoFillers DEF FillAttempt, Goto, DropShape, Shape, CallerShape, PoolOps
  <2> QED
    BY <2>1, <2>2
<1>13. CASE FillLaunch(c)
  <2>1. FillingExact'
    BY <1>13, FillersStay DEF FillLaunch, Goto, LaunchSlot
  <2>2. DropShape'
    BY <1>13, NoFillers DEF FillLaunch, Goto, LaunchSlot, DropShape, Shape, CallerShape, PoolOps
  <2> QED
    BY <2>1, <2>2
<1>14. CASE FillFail(c)
  <2>1. FillingExact'
    BY <1>14, FillersStay DEF FillFail, Goto, Return, ReleaseCpuset
  <2>2. DropShape'
    BY <1>14, NoFillers DEF FillFail, Goto, Return, ReleaseCpuset, DropShape, Shape, CallerShape, PoolOps
  <2> QED
    BY <2>1, <2>2
<1>15. CASE FillPush(c)
  <2>1. FillingExact'
    BY <1>15, FillersStay DEF FillPush, Goto
  <2>2. DropShape'
    BY <1>15, NoFillers DEF FillPush, Goto, DropShape, Shape, CallerShape, PoolOps
  <2> QED
    BY <2>1, <2>2
<1> QED
    BY <1>1, <1>2, <1>3, <1>4, <1>5, <1>6, <1>7, <1>8, <1>9, <1>10, <1>11, <1>12, <1>13, <1>14, <1>15 DEF
        CallerStep

\* `filling` stays exact, and WarmPool::drop stays final, through every call a caller makes.
LEMMA CallerCallFill ==
    ASSUME IInv, NEW c \in Callers, CallerCall(c)
    PROVE  FillingExact' /\ DropShape'
<1> USE CallersWorkersDisjoint DEF IInv, TypeOK, Threads, FillingPlaces, stateVars, vmVars, dropVars
<1>1. CASE TryLease(c)
  <2>1. FillingExact'
    BY <1>1, FillersStay DEF TryLease, Call, PopReady, Goto
  <2>2. DropShape'
    BY <1>1, NoFillers DEF TryLease, Call, PopReady, Goto, DropShape, Shape, CallerShape, PoolOps
  <2> QED
    BY <2>1, <2>2
<1>2. CASE LeaseExecAndDiscard(c)
  <2>1. FillingExact'
    BY <1>2, FillersStay DEF LeaseExecAndDiscard, LeaseKill, Goto, DiscardSandbox, Kill
  <2>2. DropShape'
    BY <1>2, NoFillers DEF LeaseExecAndDiscard, LeaseKill, Goto, DiscardSandbox, Kill, DropShape, Shape,
        CallerShape, PoolOps
  <2> QED
    BY <2>1, <2>2
<1>3. CASE LeaseDiscard(c)
  <2>1. FillingExact'
    BY <1>3, FillersStay DEF LeaseDiscard, LeaseKill, Goto, DiscardSandbox, Kill
  <2>2. DropShape'
    BY <1>3, NoFillers DEF LeaseDiscard, LeaseKill, Goto, DiscardSandbox, Kill, DropShape, Shape,
        CallerShape, PoolOps
  <2> QED
    BY <2>1, <2>2
<1>4. CASE LeaseDiscardReleased(c)
  <2>1. FillingExact'
    BY <1>4, FillersStay DEF LeaseDiscardReleased
  <2>2. DropShape'
    BY <1>4, NoFillers DEF LeaseDiscardReleased, DropShape, Shape, CallerShape, PoolOps
  <2> QED
    BY <2>1, <2>2
<1>5. CASE \E n \in ResizeTargets : SetTargetReady(c, n)
  <2>1. FillingExact'
    BY <1>5, FillersStay DEF SetTargetReady, Call, Goto
  <2>2. DropShape'
    BY <1>5, NoFillers DEF SetTargetReady, Call, Goto, DropShape, Shape, CallerShape, PoolOps
  <2> QED
    BY <2>1, <2>2
<1>6. CASE PoolStartBackgroundFill(c)
  <2>1. FillingExact'
    BY <1>6, FillersStay DEF PoolStartBackgroundFill, Call, Goto
  <2>2. DropShape'
    BY <1>6, NoFillers DEF PoolStartBackgroundFill, Call, Goto, DropShape, Shape, CallerShape, PoolOps
  <2> QED
    BY <2>1, <2>2
<1>7. CASE FillToTargetBlocking(c)
  <2>1. FillingExact'
    BY <1>7, FillersStay DEF FillToTargetBlocking, Call, Goto
  <2>2. DropShape'
    BY <1>7, NoFillers DEF FillToTargetBlocking, Call, Goto, DropShape, Shape, CallerShape, PoolOps
  <2> QED
    BY <2>1, <2>2
<1> QED
    BY <1>1, <1>2, <1>3, <1>4, <1>5, <1>6, <1>7 DEF CallerCall

\* `filling` stays exact, and WarmPool::drop stays final, through every step of WarmPool::drop.
LEMMA DropStepFill ==
    ASSUME IInv, DropStep
    PROVE  FillingExact' /\ DropShape'
<1> USE CallersWorkersDisjoint DEF IInv, TypeOK, Threads, FillingPlaces, stateVars, vmVars, dropVars
<1>1. CASE DropReturn
  <2>1. FillingExact'
    BY <1>1, FillersStay DEF DropReturn
  <2>2. DropShape'
    BY <1>1, NoFillers DEF DropReturn, DropShape, Shape, CallerShape, PoolOps
  <2> QED
    BY <2>1, <2>2
<1>2. CASE DropDrain
  <2>1. FillingExact'
    BY <1>2, FillersStay DEF DropDrain
  <2>2. DropShape'
    BY <1>2, NoFillers DEF DropDrain, DropShape, Shape, CallerShape, PoolOps
  <2> QED
    BY <2>1, <2>2
<1>3. CASE \E s \in Slots : DropKill(s)
  <2>1. FillingExact'
    BY <1>3, FillersStay DEF DropKill, Kill
  <2>2. DropShape'
    BY <1>3, NoFillers DEF DropKill, Kill, DropShape, Shape, CallerShape, PoolOps
  <2> QED
    BY <2>1, <2>2
<1> QED
    BY <1>1, <1>2, <1>3 DEF DropStep

-----------------------------------------------------------------------------
(* The invariant is inductive.                                             *)

\* A new pool (WarmPool::new) satisfies the inductive invariant.
LEMMA InitIInv == Init => IInv
<1> SUFFICES ASSUME Init PROVE IInv
    OBVIOUS
<1> USE DEF Init, Threads
<1>1. TypeOK
  <2>1. /\ \A w \in Workers : pc[w] \in WorkerPlaces
        /\ \A c \in Callers : pc[c] \in CallerPlaces
        /\ pc \in [Threads -> WorkerPlaces \cup CallerPlaces]
    BY CallersWorkersDisjoint DEF WorkerPlaces, CallerPlaces
  <2>2. op \in [Callers -> Ops] /\ target_ready \in Nat \ {0}
    BY TargetAssumption DEF Ops
  <2>3. /\ range \in [Slots -> Ranges \cup {NoRange}]
        /\ cpu \in [Threads -> Ranges \cup {NoRange}]
        /\ hand \in [Threads -> SUBSET Slots]
        /\ spawns \in [Threads -> SUBSET Workers]
        /\ lease \in [Callers -> {"none", "live", "released"}]
    OBVIOUS
  <2>4. shutdown \in BOOLEAN
    OBVIOUS
  <2>5. /\ filling \in Nat /\ leased \in Nat /\ ledger \in Int
        /\ ready \subseteq Slots /\ free_cpuset_cpus \subseteq Ranges
        /\ vms \subseteq Slots /\ dead \subseteq Slots /\ lost \subseteq Slots /\ drained \subseteq Slots
        /\ drop \in {"live", "loop", "kill", "done"}
    OBVIOUS
  <2> HIDE DEF Init, Threads
  <2> QED
    BY <2>1, <2>2, <2>3, <2>4, <2>5 DEF TypeOK
<1>2. Shape
  <2>1. WorkerShape
    BY CallersWorkersDisjoint DEF WorkerShape
  <2>2. CallerShape
    BY CallersWorkersDisjoint DEF CallerShape
  <2>3. SpawnShape
    BY DEF SpawnShape
  <2> QED
    BY <2>1, <2>2, <2>3 DEF Shape
<1>3. SlotOwnership
    BY DEF SlotOwnership
<1>4. CpusetExclusive
    BY RangesAssumption DEF CpusetExclusive
<1>5. FillingExact
  <2>1. Fillers = {}
    BY CallersWorkersDisjoint DEF Fillers, FillingPlaces
  <2> QED
    BY SMTT(40), <2>1, FS_EmptySet, BoundsAssumption DEF FillingExact, Fillers
<1>6. DropShape
    BY DEF DropShape
<1> QED
    BY <1>1, <1>2, <1>3, <1>4, <1>5, <1>6 DEF IInv

\* Every step of a worker, a caller, a refill or the drop keeps the inductive invariant.
LEMMA NextIInv == IInv /\ [Next]_vars => IInv'
<1> SUFFICES ASSUME IInv, [Next]_vars PROVE IInv'
    OBVIOUS
<1> USE DEF IInv
<1>1. CASE \E w \in Workers : Worker(w)
    BY <1>1, WorkerType, WorkerOwner, WorkerCpuset, WorkerFill
<1>2. CASE \E t \in Threads : Refill(t)
    BY <1>2, RefillType, RefillOwner, RefillCpuset, RefillFill
<1>3. CASE \E c \in Callers : CallerStep(c)
    BY <1>3, CallerStepType, CallerStepOwner, CallerStepCpuset, CallerStepFill
<1>4. CASE \E c \in Callers : CallerCall(c)
    BY <1>4, CallerCallType, CallerCallOwner, CallerCallCpuset, CallerCallFill
<1>5. CASE DropStep
    BY <1>5, DropStepType, DropStepOwner, DropStepCpuset, DropStepFill
<1>6. CASE DropStart
    BY <1>6 DEF DropStart, stateVars, vmVars, TypeOK, Shape, WorkerShape, CallerShape, SpawnShape,
            SlotOwnership, CpusetExclusive, FillingExact, DropShape
<1>7. CASE \E s \in Slots : VmDies(s)
    BY <1>7 DEF VmDies, stateVars, dropVars, TypeOK, Shape, WorkerShape, CallerShape, SpawnShape,
            SlotOwnership, CpusetExclusive, FillingExact, DropShape
<1>8. CASE Terminated \/ UNCHANGED vars
  <2>1. UNCHANGED vars
    BY <1>8 DEF Terminated
  <2> USE <2>1 DEF vars, stateVars, vmVars, dropVars
  <2>2. TypeOK'
    BY DEF TypeOK
  <2>3. Shape'
    BY DEF Shape, WorkerShape, CallerShape, SpawnShape
  <2>4. SlotOwnership' /\ CpusetExclusive'
    BY DEF SlotOwnership, CpusetExclusive
  <2>5. FillingExact' /\ DropShape'
    BY DEF FillingExact, DropShape
  <2> QED
    BY <2>2, <2>3, <2>4, <2>5
<1> QED
    BY <1>1, <1>2, <1>3, <1>4, <1>5, <1>6, <1>7, <1>8 DEF Next

\* The inductive invariant holds throughout the life of a pool.
LEMMA Inductive == Spec => []IInv
<1> QED
    BY InitIInv, NextIInv, PTL DEF Spec

\* The counters, sets and per-thread places of the pool never leave their
\* types, in particular no count goes below zero.
THEOREM TypeCorrect == Spec => []TypeOK
<1>1. IInv => TypeOK
    BY DEF IInv
<1> QED
    BY <1>1, Inductive, PTL

\* Every booted VM has exactly one owner: the ready queue, one thread or the
\* drop loop; the owners change hands outside and inside the mutex.
THEOREM SingleOwner == Spec => []SlotOwnership
<1>1. IInv => SlotOwnership
    BY DEF IInv
<1> QED
    BY <1>1, Inductive, PTL

\* release_cpuset_cpus and reserve_cpuset_cpus never give one CPU range to two VMs of the pool.
THEOREM ExclusiveCpusets == Spec => []CpusetExclusive
<1>1. IInv => CpusetExclusive
    BY DEF IInv
<1> QED
    BY <1>1, Inductive, PTL

\* `filling` is exactly the number of unreported fills, and at most MAX_FILL_THREADS.
THEOREM ExactFilling == Spec => []FillingExact
<1>1. IInv => FillingExact
    BY DEF IInv
<1> QED
    BY <1>1, Inductive, PTL

\* After WarmPool::drop returned, only live leases own VMs.
THEOREM CompleteDrop == Spec => []DropComplete
<1>1. IInv => DropComplete
  <2> SUFFICES ASSUME IInv, drop = "done" PROVE DropComplete
    BY DEF DropComplete
  <2>1. ready = {} /\ filling = 0 /\ drained = {}
    BY DEF IInv, DropShape
  <2>2. \A w \in Workers : hand[w] = {}
    BY <2>1, NoFillers DEF IInv, Shape, WorkerShape, FillingPlaces
  <2>3. \A c \in Callers : lease[c] # "live" => hand[c] = {}
    BY DEF IInv, Shape, CallerShape, DropShape, TypeOK, CallerPlaces
  <2> QED
    BY <2>1, <2>2, <2>3 DEF IInv, SlotOwnership, DropComplete, Threads
<1> QED
    BY <1>1, Inductive, PTL

-----------------------------------------------------------------------------
(* The counters of the snapshot, and the CPU ranges, are conserved. Both    *)
(* need IInv and one thing more: leases are counted exactly, and a thread   *)
(* keeps a range only between reserving or killing and releasing.           *)

LiveLeases == {c \in Callers : lease[c] = "live"}

InFlight == {t \in Threads : pc[t] \in InFlightPlaces}

LeasedExact == leased = Cardinality(LiveLeases)

RangePlaces == {"reserved", "starting", "launching", "discard", "lease_release", "resize_release",
                "fill_attempt", "fill_launch", "finish"}

CpuShape == \A t \in Threads : pc[t] \notin RangePlaces => cpu[t] = NoRange

\* CpusetConserved by elements.
Kept(r) ==
    \/ r \in free_cpuset_cpus
    \/ \E t \in Threads : cpu[t] = r
    \/ \E s \in vms \ lost : range[s] = r

RangeInv == CpuShape /\ (~shutdown => \A r \in Ranges : Kept(r))

LedgerInv == LeasedExact /\ LedgerBalance

\* The sets that are counted are finite.
LEMMA CountsNat ==
    ASSUME TypeOK
    PROVE  /\ IsFiniteSet(ready) /\ Cardinality(ready) \in Nat
           /\ IsFiniteSet(InFlight) /\ Cardinality(InFlight) \in Nat
           /\ IsFiniteSet(LiveLeases) /\ Cardinality(LiveLeases) \in Nat
<1>1. IsFiniteSet(ready) /\ Cardinality(ready) \in Nat
    BY CardinalityNat, SlotsFinite DEF TypeOK
<1>2. IsFiniteSet(Threads)
    BY CallersFinite, WorkersFinite, FS_Union DEF Threads
<1>3. IsFiniteSet(InFlight) /\ Cardinality(InFlight) \in Nat
    BY <1>2, CardinalityNat DEF InFlight
<1>4. IsFiniteSet(LiveLeases) /\ Cardinality(LiveLeases) \in Nat
    BY CallersFinite, CardinalityNat DEF LiveLeases
<1> QED
    BY <1>1, <1>3, <1>4

\* What one thread's move does to the number of fills and slots in flight.
LEMMA FlightStep ==
    ASSUME TypeOK, NEW t \in Threads,
           \A u \in Threads \ {t} : pc'[u] \in InFlightPlaces <=> pc[u] \in InFlightPlaces
    PROVE  /\ (pc'[t] \in InFlightPlaces <=> pc[t] \in InFlightPlaces) =>
                 Cardinality(InFlight') = Cardinality(InFlight)
           /\ pc[t] \notin InFlightPlaces /\ pc'[t] \in InFlightPlaces =>
                 Cardinality(InFlight') = Cardinality(InFlight) + 1
           /\ pc[t] \in InFlightPlaces /\ pc'[t] \notin InFlightPlaces =>
                 Cardinality(InFlight') = Cardinality(InFlight) - 1
<1>1. IsFiniteSet(InFlight)
    BY CountsNat
<1>2. ASSUME pc'[t] \in InFlightPlaces <=> pc[t] \in InFlightPlaces
      PROVE  InFlight' = InFlight
    BY <1>2 DEF InFlight
<1>3. ASSUME pc[t] \notin InFlightPlaces, pc'[t] \in InFlightPlaces
      PROVE  Cardinality(InFlight') = Cardinality(InFlight) + 1
  <2>1. InFlight' = InFlight \cup {t} /\ t \notin InFlight
    BY <1>3 DEF InFlight
  <2> QED
    BY <1>1, <2>1, FS_AddElement
<1>4. ASSUME pc[t] \in InFlightPlaces, pc'[t] \notin InFlightPlaces
      PROVE  Cardinality(InFlight') = Cardinality(InFlight) - 1
  <2>1. InFlight' = InFlight \ {t} /\ t \in InFlight
    BY <1>4 DEF InFlight
  <2> QED
    BY <1>1, <2>1, FS_RemoveElement
<1> QED
    BY <1>2, <1>3, <1>4

\* One slot joins or leaves the ready queue.
LEMMA ReadyStep ==
    ASSUME TypeOK, NEW s
    PROVE  /\ s \notin ready => Cardinality(ready \cup {s}) = Cardinality(ready) + 1
           /\ s \in ready => Cardinality(ready \ {s}) = Cardinality(ready) - 1
<1>1. IsFiniteSet(ready)
    BY CountsNat
<1> QED
    BY <1>1, FS_AddElement, FS_RemoveElement

\* A step that leaves queue, leases and counters alone, and nobody in or out of flight.
LEMMA LedgerKept ==
    ASSUME LedgerInv, UNCHANGED <<ready, leased, ledger, lease>>,
           \A u \in Threads : pc'[u] \in InFlightPlaces <=> pc[u] \in InFlightPlaces
    PROVE  LedgerInv'
<1>1. InFlight' = InFlight /\ LiveLeases' = LiveLeases
    BY DEF InFlight, LiveLeases
<1> QED
    BY <1>1 DEF LedgerInv, LeasedExact, LedgerBalance, InFlight

\* A step that changes the counters as it changes queue and flights.
LEMMA LedgerMoves ==
    ASSUME TypeOK, LedgerInv, UNCHANGED <<leased, lease>>,
           ledger' - ledger = (Cardinality(ready') - Cardinality(ready))
                                + (Cardinality(InFlight') - Cardinality(InFlight)),
           ledger' \in Int, Cardinality(ready') \in Int, Cardinality(InFlight') \in Int
    PROVE  LedgerInv'
<1>1. LiveLeases' = LiveLeases
    BY DEF LiveLeases
<1>2. ledger = Cardinality(ready) + leased + Cardinality(InFlight)
    BY DEF LedgerInv, LedgerBalance, InFlight
<1>3. ledger' = Cardinality(ready') + leased' + Cardinality(InFlight')
    BY <1>2, CountsNat DEF TypeOK
<1> QED
    BY <1>1, <1>3 DEF LedgerInv, LeasedExact, LedgerBalance, InFlight

\* Every step of a fill worker keeps the balance.
LEMMA WorkerLedger ==
    ASSUME IInv, LedgerInv, NEW w \in Workers, Worker(w)
    PROVE  LedgerInv'
<1> USE CallersWorkersDisjoint 
    DEF IInv, TypeOK, Threads, FillingPlaces, WorkerPlaces, CallerPlaces, InFlightPlaces, stateVars,
        vmVars, dropVars, Goto, Return, Call, AfterFill
<1>1. CASE WorkerStart(w)
  <2>1. pc[w] \notin InFlightPlaces /\ pc'[w] \in InFlightPlaces
    BY <1>1 DEF WorkerStart
  <2>2. \A u \in Threads \ {w} : pc'[u] = pc[u]
    BY <1>1 DEF WorkerStart
  <2>3. Cardinality(InFlight') = Cardinality(InFlight) + 1
    BY <2>1, <2>2, FlightStep DEF Threads
  <2>5. ready' = ready
    BY <1>1 DEF WorkerStart
  <2>6. ledger' = ledger + 1 /\ UNCHANGED <<leased, lease>>
    BY <1>1 DEF WorkerStart
  <2> QED
    BY <2>3, <2>5, <2>6, CountsNat, LedgerMoves
<1>2. CASE WorkerLaunch(w)
    BY <1>2, LedgerKept DEF WorkerLaunch
<1>3. CASE WorkerFail(w)
  <2>1. pc[w] \in InFlightPlaces /\ pc'[w] \notin InFlightPlaces
    BY <1>3 DEF WorkerFail
  <2>2. \A u \in Threads \ {w} : pc'[u] = pc[u]
    BY <1>3 DEF WorkerFail
  <2>3. Cardinality(InFlight') = Cardinality(InFlight) - 1
    BY <2>1, <2>2, FlightStep DEF Threads
  <2>5. ready' = ready
    BY <1>3 DEF WorkerFail
  <2>6. ledger' = ledger - 1 /\ UNCHANGED <<leased, lease>>
    BY <1>3 DEF WorkerFail
  <2> QED
    BY <2>3, <2>5, <2>6, CountsNat, LedgerMoves
<1>4. CASE WorkerLoadShutdown(w)
    BY <1>4, LedgerKept DEF WorkerLoadShutdown
<1>5. CASE WorkerPush(w)
  <2>1. pc[w] \in InFlightPlaces /\ pc'[w] \notin InFlightPlaces
    BY <1>5 DEF WorkerPush
  <2>2. \A u \in Threads \ {w} : pc'[u] = pc[u]
    BY <1>5 DEF WorkerPush
  <2>3. Cardinality(InFlight') = Cardinality(InFlight) - 1
    BY <2>1, <2>2, FlightStep DEF Threads
  <2>4. PICK s : s \notin ready /\ ready' = ready \cup {s}
    BY <1>5 DEF WorkerPush, Shape, WorkerShape, CallerShape, SlotOwnership
  <2>5. Cardinality(ready') = Cardinality(ready) + 1
    BY <2>4, ReadyStep
  <2>6. ledger' = ledger /\ UNCHANGED <<leased, lease>>
    BY <1>5 DEF WorkerPush
  <2> QED
    BY <2>3, <2>5, <2>6, CountsNat, LedgerMoves
<1>6. CASE WorkerDiscardKill(w)
    BY <1>6, LedgerKept DEF WorkerDiscardKill
<1>7. CASE WorkerDiscard(w)
  <2>1. pc[w] \in InFlightPlaces /\ pc'[w] \notin InFlightPlaces
    BY <1>7 DEF WorkerDiscard
  <2>2. \A u \in Threads \ {w} : pc'[u] = pc[u]
    BY <1>7 DEF WorkerDiscard
  <2>3. Cardinality(InFlight') = Cardinality(InFlight) - 1
    BY <2>1, <2>2, FlightStep DEF Threads
  <2>5. ready' = ready
    BY <1>7 DEF WorkerDiscard
  <2>6. ledger' = ledger - 1 /\ UNCHANGED <<leased, lease>>
    BY <1>7 DEF WorkerDiscard
  <2> QED
    BY <2>3, <2>5, <2>6, CountsNat, LedgerMoves
<1> QED
    BY <1>1, <1>2, <1>3, <1>4, <1>5, <1>6, <1>7 DEF Worker

\* start_background_fill reserves; the attempt is counted only when its worker starts.
LEMMA RefillLedger ==
    ASSUME IInv, LedgerInv, NEW t \in Threads, Refill(t)
    PROVE  LedgerInv'
<1> USE CallersWorkersDisjoint 
    DEF IInv, TypeOK, Threads, FillingPlaces, WorkerPlaces, CallerPlaces, InFlightPlaces, stateVars,
        vmVars, dropVars, Goto, Return, Call, AfterFill
<1>1. CASE StartBackgroundFillNone(t)
    BY <1>1, LedgerKept DEF StartBackgroundFillNone
<1>2. CASE StartBackgroundFill(t)
    BY <1>2, LedgerKept DEF StartBackgroundFill
<1>3. CASE \E w \in Workers : SpawnFillWorker(t, w)
  <2>1. PICK w \in Workers : SpawnFillWorker(t, w)
    BY <1>3
  <2>2. pc[w] = "reserved" /\ pc[t] = "spawn"
    BY <2>1 DEF SpawnFillWorker, Shape, SpawnShape
  <2>3. \A u \in Threads : pc'[u] \in InFlightPlaces <=> pc[u] \in InFlightPlaces
    BY <2>1, <2>2 DEF SpawnFillWorker
  <2> QED
    BY <2>1, <2>3, LedgerKept DEF SpawnFillWorker
<1> QED
    BY <1>1, <1>2, <1>3 DEF Refill

\* Every step inside a method keeps the balance: a slot is counted out once, by the thread
\* that discards it or by its lease.
LEMMA CallerStepLedger ==
    ASSUME IInv, LedgerInv, NEW c \in Callers, CallerStep(c)
    PROVE  LedgerInv'
<1> USE CallersWorkersDisjoint 
    DEF IInv, TypeOK, Threads, FillingPlaces, WorkerPlaces, CallerPlaces, InFlightPlaces, stateVars,
        vmVars, dropVars, Goto, Return, Call, AfterFill
<1>1. CASE TryLeaseNext(c)
  <2>1. pc[c] \notin InFlightPlaces /\ pc'[c] \in InFlightPlaces
    BY <1>1 DEF TryLeaseNext
  <2>2. \A u \in Threads \ {c} : pc'[u] = pc[u]
    BY <1>1 DEF TryLeaseNext
  <2>3. Cardinality(InFlight') = Cardinality(InFlight) + 1
    BY <2>1, <2>2, FlightStep DEF Threads
  <2>4. PICK s : s \in ready /\ ready' = ready \ {s}
    BY <1>1 DEF TryLeaseNext, PopReady
  <2>5. Cardinality(ready') = Cardinality(ready) - 1
    BY <2>4, ReadyStep
  <2>6. ledger' = ledger /\ UNCHANGED <<leased, lease>>
    BY <1>1 DEF TryLeaseNext, PopReady
  <2> QED
    BY <2>3, <2>5, <2>6, CountsNat, LedgerMoves
<1>2. CASE TryLeaseEmpty(c)
    BY <1>2, LedgerKept DEF TryLeaseEmpty
<1>3. CASE LeaseAcquire(c)
  <2>1. pc[c] \in InFlightPlaces /\ pc'[c] \notin InFlightPlaces
    BY <1>3 DEF LeaseAcquire
  <2>2. \A u \in Threads \ {c} : pc'[u] = pc[u]
    BY <1>3 DEF LeaseAcquire
  <2>3. Cardinality(InFlight') = Cardinality(InFlight) - 1
    BY <2>1, <2>2, FlightStep DEF Threads
  <2>4. c \notin LiveLeases /\ LiveLeases' = LiveLeases \cup {c}
    BY <1>3 DEF LeaseAcquire, LiveLeases, Shape, CallerShape
  <2>5. Cardinality(LiveLeases') = Cardinality(LiveLeases) + 1
    BY <2>4, CountsNat, FS_AddElement
  <2>6. leased' = leased + 1 /\ UNCHANGED <<ready, ledger>>
    BY <1>3 DEF LeaseAcquire
  <2> QED
    BY <2>3, <2>5, <2>6, CountsNat DEF LedgerInv, LeasedExact, LedgerBalance, InFlight
<1>4. CASE LeaseDiscardDead(c)
    BY <1>4, LedgerKept DEF LeaseDiscardDead
<1>5. CASE LeaseReleaseDead(c)
  <2>1. pc[c] \in InFlightPlaces /\ pc'[c] \notin InFlightPlaces
    BY <1>5 DEF LeaseReleaseDead
  <2>2. \A u \in Threads \ {c} : pc'[u] = pc[u]
    BY <1>5 DEF LeaseReleaseDead
  <2>3. Cardinality(InFlight') = Cardinality(InFlight) - 1
    BY <2>1, <2>2, FlightStep DEF Threads
  <2>5. ready' = ready
    BY <1>5 DEF LeaseReleaseDead
  <2>6. ledger' = ledger - 1 /\ UNCHANGED <<leased, lease>>
    BY <1>5 DEF LeaseReleaseDead
  <2> QED
    BY <2>3, <2>5, <2>6, CountsNat, LedgerMoves
<1>6. CASE LeaseFinished(c)
  <2>1. c \in LiveLeases /\ LiveLeases' = LiveLeases \ {c}
    BY <1>6 DEF LeaseFinished, LiveLeases, Shape, CallerShape
  <2>2. Cardinality(LiveLeases') = Cardinality(LiveLeases) - 1 /\ Cardinality(LiveLeases') \in Nat
    BY <2>1, CountsNat, FS_RemoveElement, FS_CardinalityType
  <2>3. leased' = leased - 1
    BY <1>6, <2>2, CountsNat DEF LeaseFinished, SaturatingSub, LedgerInv, LeasedExact
  <2>4. ledger' = ledger - 1 /\ ready' = ready
    BY <1>6 DEF LeaseFinished
  <2>5. InFlight' = InFlight
    BY <1>6 DEF LeaseFinished, InFlight
  <2>6. leased = Cardinality(LiveLeases) /\ ledger = Cardinality(ready) + leased + Cardinality(InFlight)
    BY DEF LedgerInv, LeasedExact, LedgerBalance, InFlight
  <2>7. leased' = Cardinality(LiveLeases') /\ ledger' = Cardinality(ready') + leased' + Cardinality(InFlight')
    BY <2>2, <2>3, <2>4, <2>5, <2>6, CountsNat
  <2> QED
    BY <2>7 DEF LedgerInv, LeasedExact, LedgerBalance, InFlight
<1>7. CASE ResizeKill(c)
    BY <1>7, LedgerKept DEF ResizeKill
<1>8. CASE ResizeRelease(c)
    BY <1>8, LedgerKept DEF ResizeRelease
<1>9. CASE FillCheck(c)
    BY <1>9, LedgerKept DEF FillCheck
<1>10. CASE FillNoCpuset(c)
    BY <1>10, LedgerKept DEF FillNoCpuset
<1>11. CASE FillReserve(c)
    BY <1>11, LedgerKept DEF FillReserve
<1>12. CASE FillAttempt(c)
  <2>1. pc[c] \notin InFlightPlaces /\ pc'[c] \in InFlightPlaces
    BY <1>12 DEF FillAttempt
  <2>2. \A u \in Threads \ {c} : pc'[u] = pc[u]
    BY <1>12 DEF FillAttempt
  <2>3. Cardinality(InFlight') = Cardinality(InFlight) + 1
    BY <2>1, <2>2, FlightStep DEF Threads
  <2>5. ready' = ready
    BY <1>12 DEF FillAttempt
  <2>6. ledger' = ledger + 1 /\ UNCHANGED <<leased, lease>>
    BY <1>12 DEF FillAttempt
  <2> QED
    BY <2>3, <2>5, <2>6, CountsNat, LedgerMoves
<1>13. CASE FillLaunch(c)
    BY <1>13, LedgerKept DEF FillLaunch
<1>14. CASE FillFail(c)
  <2>1. pc[c] \in InFlightPlaces /\ pc'[c] \notin InFlightPlaces
    BY <1>14 DEF FillFail
  <2>2. \A u \in Threads \ {c} : pc'[u] = pc[u]
    BY <1>14 DEF FillFail
  <2>3. Cardinality(InFlight') = Cardinality(InFlight) - 1
    BY <2>1, <2>2, FlightStep DEF Threads
  <2>5. ready' = ready
    BY <1>14 DEF FillFail
  <2>6. ledger' = ledger - 1 /\ UNCHANGED <<leased, lease>>
    BY <1>14 DEF FillFail
  <2> QED
    BY <2>3, <2>5, <2>6, CountsNat, LedgerMoves
<1>15. CASE FillPush(c)
  <2>1. pc[c] \in InFlightPlaces /\ pc'[c] \notin InFlightPlaces
    BY <1>15 DEF FillPush
  <2>2. \A u \in Threads \ {c} : pc'[u] = pc[u]
    BY <1>15 DEF FillPush
  <2>3. Cardinality(InFlight') = Cardinality(InFlight) - 1
    BY <2>1, <2>2, FlightStep DEF Threads
  <2>4. PICK s : s \notin ready /\ ready' = ready \cup {s}
    BY <1>15 DEF FillPush, Shape, WorkerShape, CallerShape, SlotOwnership
  <2>5. Cardinality(ready') = Cardinality(ready) + 1
    BY <2>4, ReadyStep
  <2>6. ledger' = ledger /\ UNCHANGED <<leased, lease>>
    BY <1>15 DEF FillPush
  <2> QED
    BY <2>3, <2>5, <2>6, CountsNat, LedgerMoves
<1> QED
    BY <1>1, <1>2, <1>3, <1>4, <1>5, <1>6, <1>7, <1>8, <1>9, <1>10, <1>11, <1>12, <1>13, <1>14,
       <1>15 DEF CallerStep

\* Slots taken out of the ready queue together.
LEMMA DiscardCount ==
    ASSUME NEW S, IsFiniteSet(S), NEW T \in SUBSET S
    PROVE  Cardinality(S \ T) = Cardinality(S) - Cardinality(T) /\ Cardinality(T) \in Nat
<1>1. IsFiniteSet(T) /\ IsFiniteSet(S \ T)
    BY FS_Subset
<1>2. Cardinality(T) \in Nat /\ Cardinality(S \ T) \in Nat
    BY <1>1, FS_CardinalityType
<1>3. (S \ T) \cup T = S /\ (S \ T) \cap T = {}
    OBVIOUS
<1>4. Cardinality({}) = 0
    BY FS_EmptySet
<1>5. Cardinality((S \ T) \cup T)
         = Cardinality(S \ T) + Cardinality(T) - Cardinality((S \ T) \cap T)
    BY <1>1, FS_Union
<1>6. Cardinality(S) = Cardinality(S \ T) + Cardinality(T) - 0
    BY <1>3, <1>4, <1>5
<1> QED
    BY <1>2, <1>6

\* Every call keeps the balance; set_target_ready counts the surplus out when it pops it.
LEMMA CallerCallLedger ==
    ASSUME IInv, LedgerInv, NEW c \in Callers, CallerCall(c)
    PROVE  LedgerInv'
<1> USE CallersWorkersDisjoint 
    DEF IInv, TypeOK, Threads, FillingPlaces, WorkerPlaces, CallerPlaces, InFlightPlaces, stateVars,
        vmVars, dropVars, Goto, Return, Call, AfterFill
<1>1. CASE TryLease(c)
  <2>1. pc[c] \notin InFlightPlaces /\ pc'[c] \in InFlightPlaces
    BY <1>1 DEF TryLease
  <2>2. \A u \in Threads \ {c} : pc'[u] = pc[u]
    BY <1>1 DEF TryLease
  <2>3. Cardinality(InFlight') = Cardinality(InFlight) + 1
    BY <2>1, <2>2, FlightStep DEF Threads
  <2>4. PICK s : s \in ready /\ ready' = ready \ {s}
    BY <1>1 DEF TryLease, PopReady
  <2>5. Cardinality(ready') = Cardinality(ready) - 1
    BY <2>4, ReadyStep
  <2>6. ledger' = ledger /\ UNCHANGED <<leased, lease>>
    BY <1>1 DEF TryLease, PopReady
  <2> QED
    BY <2>3, <2>5, <2>6, CountsNat, LedgerMoves
<1>2. CASE LeaseExecAndDiscard(c) \/ LeaseDiscard(c)
    BY <1>2, LedgerKept DEF LeaseExecAndDiscard, LeaseDiscard, LeaseKill
<1>3. CASE LeaseDiscardReleased(c)
  <2>1. LiveLeases' = LiveLeases /\ InFlight' = InFlight
    BY <1>3 DEF LeaseDiscardReleased, LiveLeases, InFlight
  <2> QED
    BY <1>3, <2>1 DEF LeaseDiscardReleased, LedgerInv, LeasedExact, LedgerBalance, InFlight
<1>4. CASE \E n \in ResizeTargets : SetTargetReady(c, n)
  <2>1. PICK k \in ResizeTargets : SetTargetReady(c, k)
    BY <1>4
  <2>2. PICK discard \in SUBSET ready :
           ready' = ready \ discard /\ ledger' = ledger - Cardinality(discard)
    BY <2>1 DEF SetTargetReady
  <2>3. Cardinality(ready \ discard) = Cardinality(ready) - Cardinality(discard)
        /\ Cardinality(discard) \in Nat
    BY <2>2, CountsNat, DiscardCount
  <2>4. InFlight' = InFlight
    BY <2>1 DEF SetTargetReady, InFlight
  <2>5. UNCHANGED <<leased, lease>>
    BY <2>1 DEF SetTargetReady
  <2> QED
    BY <2>2, <2>3, <2>4, <2>5, CountsNat, LedgerMoves
<1>5. CASE PoolStartBackgroundFill(c)
    BY <1>5, LedgerKept DEF PoolStartBackgroundFill
<1>6. CASE FillToTargetBlocking(c)
    BY <1>6, LedgerKept DEF FillToTargetBlocking
<1> QED
    BY <1>1, <1>2, <1>3, <1>4, <1>5, <1>6 DEF CallerCall

\* So do the rest: WarmPool::drop counts out what it drains.
LEMMA DropLedger ==
    ASSUME IInv, LedgerInv,
           DropStart \/ DropStep \/ (\E s \in Slots : VmDies(s)) \/ Terminated \/ UNCHANGED vars
    PROVE  LedgerInv'
<1>1. CASE DropDrain
  <2>1. ready' = {} /\ ledger' = ledger - Cardinality(ready) /\ UNCHANGED <<leased, lease>>
    BY <1>1 DEF DropDrain
  <2>2. InFlight' = InFlight
    BY <1>1 DEF DropDrain, InFlight
  <2>3. Cardinality({}) = 0
    BY FS_EmptySet
  <2> QED
    BY <2>1, <2>2, <2>3, CountsNat, LedgerMoves DEF IInv, TypeOK
<1>2. CASE UNCHANGED <<ready, leased, ledger, lease, pc>>
    BY <1>2, LedgerKept
<1> QED
    BY <1>1, <1>2 DEF DropStart, DropStep, DropReturn, DropKill, VmDies, Terminated, vars, stateVars

\* The thread that kills a slot takes over its range, and had none.
LEMMA RangeTaken ==
    ASSUME IInv, RangeInv, NEW t \in Threads, NEW s \in hand[t], DiscardSandbox(t, s),
           UNCHANGED <<free_cpuset_cpus, shutdown>>, pc[t] \notin RangePlaces,
           pc'[t] \in RangePlaces, \A u \in Threads \ {t} : pc'[u] = pc[u]
    PROVE  RangeInv'
<1>1. cpu[t] = NoRange /\ cpu' = [cpu EXCEPT ![t] = range[s]]
    BY DEF RangeInv, CpuShape, DiscardSandbox
<1>2. cpu'[t] = range[s] /\ \A u \in Threads \ {t} : cpu'[u] = cpu[u]
    BY <1>1 DEF IInv, TypeOK
<1>3. CpuShape'
    BY <1>2 DEF RangeInv, CpuShape
<1>4. \A r \in (vms \ lost) \ {s} : r \in vms' \ lost' /\ range'[r] = range[r]
    BY DEF DiscardSandbox, Kill, IInv, TypeOK
<1>5. ASSUME NEW r \in Ranges, Kept(r) PROVE Kept(r)'
  <2>1. CASE r \in free_cpuset_cpus
    BY <2>1 DEF Kept
  <2>2. CASE \E u \in Threads : cpu[u] = r
    BY <2>2, <1>1, <1>2, RangesAssumption DEF Kept
  <2>3. CASE \E v \in vms \ lost : range[v] = r
    BY <2>3, <1>2, <1>4 DEF Kept
  <2> QED
    BY <1>5, <2>1, <2>2, <2>3 DEF Kept
<1> QED
    BY <1>3, <1>5 DEF RangeInv

\* launch_slot pins the range of its thread to the new VM.
LEMMA RangePinned ==
    ASSUME IInv, RangeInv, NEW t \in Threads, NEW s \in Slots, LaunchSlot(t, s),
           UNCHANGED <<free_cpuset_cpus, shutdown>>, \A u \in Threads \ {t} : pc'[u] = pc[u]
    PROVE  RangeInv'
<1>1. cpu'[t] = NoRange /\ \A u \in Threads \ {t} : cpu'[u] = cpu[u]
    BY DEF LaunchSlot, IInv, TypeOK
<1>2. CpuShape'
    BY <1>1 DEF RangeInv, CpuShape
<1>3. s \in vms' \ lost' /\ range'[s] = cpu[t]
    BY DEF LaunchSlot, IInv, TypeOK, SlotOwnership
<1>4. \A r \in vms \ lost : r \in vms' \ lost' /\ range'[r] = range[r]
    BY DEF LaunchSlot, IInv, TypeOK
<1>5. \A r \in Ranges : Kept(r) => Kept(r)'
    BY <1>1, <1>3, <1>4 DEF Kept
<1> QED
    BY <1>2, <1>5 DEF RangeInv

\* The new workers of start_background_fill take the ranges they are given, and had none.
LEMMA RangesReserved ==
    ASSUME IInv, RangeInv, NEW t \in Threads, StartBackgroundFill(t)
    PROVE  RangeInv'
<1>1. PICK new \in SUBSET {w \in Workers : pc[w] = "none"} :
         /\ \E f \in Reservations(new) :
              /\ cpu' = [u \in Threads |-> IF u \in new THEN f[u] ELSE cpu[u]]
              /\ free_cpuset_cpus' = free_cpuset_cpus \ {f[w] : w \in new}
         /\ pc' = [u \in Threads |-> IF u \in new THEN "reserved" ELSE IF u = t THEN "spawn" ELSE pc[u]]
    BY DEF StartBackgroundFill
<1>2. PICK f \in Reservations(new) :
         /\ cpu' = [u \in Threads |-> IF u \in new THEN f[u] ELSE cpu[u]]
         /\ free_cpuset_cpus' = free_cpuset_cpus \ {f[w] : w \in new}
    BY <1>1
<1>3. \A w \in new : cpu[w] = NoRange /\ w \in Threads
    BY <1>1 DEF RangeInv, CpuShape, RangePlaces, Threads
<1>4. cpu[t] = NoRange
    BY DEF RangeInv, CpuShape, RangePlaces, StartBackgroundFill
<1>5. CpuShape'
    BY <1>1, <1>2, <1>4 DEF RangeInv, CpuShape, RangePlaces
<1>6. UNCHANGED <<vms, lost, range, shutdown>>
    BY DEF StartBackgroundFill, vmVars, dropVars
<1>7. ASSUME NEW r \in Ranges, Kept(r) PROVE Kept(r)'
  <2>1. CASE r \in free_cpuset_cpus
    <3>1. CASE \E w \in new : f[w] = r
      BY <3>1, <1>2, <1>3 DEF Kept
    <3>2. CASE ~\E w \in new : f[w] = r
      BY <3>2, <2>1, <1>2 DEF Kept
    <3> QED
      BY <3>1, <3>2
  <2>2. CASE \E u \in Threads : cpu[u] = r
    BY <2>2, <1>2, <1>3, RangesAssumption DEF Kept
  <2>3. CASE \E v \in vms \ lost : range[v] = r
    BY <2>3, <1>6 DEF Kept
  <2> QED
    BY <1>7, <2>1, <2>2, <2>3 DEF Kept
<1> QED
    BY <1>5, <1>6, <1>7 DEF RangeInv

\* No CPU range leaks before shutdown: whoever takes over a range has none.
LEMMA RangeStep ==
    ASSUME IInv, RangeInv, [Next]_vars
    PROVE  RangeInv'
<1> USE CallersWorkersDisjoint, RangesAssumption
    DEF IInv, TypeOK, Shape, WorkerShape, CallerShape, SpawnShape, SlotOwnership, DropShape,
        RangeInv, CpuShape, Kept, RangePlaces, Threads, FillingPlaces, WorkerPlaces,
        CallerPlaces, PoolOps, stateVars, vmVars, dropVars, Goto, Return, Call, AfterFill,
        ReleaseCpuset, Kill, DiscardSandbox, LaunchSlot, Reservations, PopReady, LeaseKill
<1>1. ASSUME NEW w \in Workers, WorkerStart(w) PROVE RangeInv'
    BY <1>1 DEF WorkerStart
<1>2. ASSUME NEW w \in Workers, WorkerLaunch(w) PROVE RangeInv'
  <2>1. PICK s \in Slots : LaunchSlot(w, s)
    BY <1>2 DEF WorkerLaunch
  <2> QED
    BY <1>2, <2>1, RangePinned DEF WorkerLaunch
<1>3. ASSUME NEW w \in Workers, WorkerFail(w) PROVE RangeInv'
    BY <1>3 DEF WorkerFail
<1>4. ASSUME NEW w \in Workers, WorkerLoadShutdown(w) PROVE RangeInv'
    BY <1>4 DEF WorkerLoadShutdown
<1>5. ASSUME NEW w \in Workers, WorkerPush(w) PROVE RangeInv'
    BY <1>5 DEF WorkerPush
<1>6. ASSUME NEW w \in Workers, WorkerDiscardKill(w) PROVE RangeInv'
  <2>1. PICK s \in hand[w] : DiscardSandbox(w, s)
    BY <1>6 DEF WorkerDiscardKill
  <2> QED
    BY <1>6, <2>1, RangeTaken DEF WorkerDiscardKill
<1>7. ASSUME NEW w \in Workers, WorkerDiscard(w) PROVE RangeInv'
    BY <1>7 DEF WorkerDiscard
<1>8. ASSUME NEW t \in Threads, StartBackgroundFillNone(t) PROVE RangeInv'
    BY <1>8 DEF StartBackgroundFillNone
<1>9. ASSUME NEW t \in Threads, StartBackgroundFill(t) PROVE RangeInv'
    BY <1>9, RangesReserved
<1>10. ASSUME NEW t \in Threads, NEW w \in Workers, SpawnFillWorker(t, w) PROVE RangeInv'
    BY <1>10 DEF SpawnFillWorker
<1>11. ASSUME NEW c \in Callers, TryLeaseNext(c) PROVE RangeInv'
    BY <1>11 DEF TryLeaseNext
<1>12. ASSUME NEW c \in Callers, TryLeaseEmpty(c) PROVE RangeInv'
    BY <1>12 DEF TryLeaseEmpty
<1>13. ASSUME NEW c \in Callers, LeaseAcquire(c) PROVE RangeInv'
    BY <1>13 DEF LeaseAcquire
<1>14. ASSUME NEW c \in Callers, LeaseDiscardDead(c) PROVE RangeInv'
  <2>1. PICK s \in hand[c] : DiscardSandbox(c, s)
    BY <1>14 DEF LeaseDiscardDead
  <2> QED
    BY <1>14, <2>1, RangeTaken DEF LeaseDiscardDead
<1>15. ASSUME NEW c \in Callers, LeaseReleaseDead(c) PROVE RangeInv'
    BY <1>15 DEF LeaseReleaseDead
<1>16. ASSUME NEW c \in Callers, LeaseFinished(c) PROVE RangeInv'
    BY <1>16 DEF LeaseFinished
<1>17. ASSUME NEW c \in Callers, ResizeKill(c) PROVE RangeInv'
  <2>1. PICK s \in hand[c] : DiscardSandbox(c, s)
    BY <1>17 DEF ResizeKill
  <2> QED
    BY <1>17, <2>1, RangeTaken DEF ResizeKill
<1>18. ASSUME NEW c \in Callers, ResizeRelease(c) PROVE RangeInv'
    BY <1>18 DEF ResizeRelease
<1>19. ASSUME NEW c \in Callers, FillCheck(c) PROVE RangeInv'
    BY <1>19 DEF FillCheck
<1>20. ASSUME NEW c \in Callers, FillNoCpuset(c) PROVE RangeInv'
    BY <1>20 DEF FillNoCpuset
<1>21. ASSUME NEW c \in Callers, FillReserve(c) PROVE RangeInv'
    BY <1>21 DEF FillReserve
<1>22. ASSUME NEW c \in Callers, FillAttempt(c) PROVE RangeInv'
    BY <1>22 DEF FillAttempt
<1>23. ASSUME NEW c \in Callers, FillLaunch(c) PROVE RangeInv'
  <2>1. PICK s \in Slots : LaunchSlot(c, s)
    BY <1>23 DEF FillLaunch
  <2> QED
    BY <1>23, <2>1, RangePinned DEF FillLaunch
<1>24. ASSUME NEW c \in Callers, FillFail(c) PROVE RangeInv'
    BY <1>24 DEF FillFail
<1>25. ASSUME NEW c \in Callers, FillPush(c) PROVE RangeInv'
    BY <1>25 DEF FillPush
<1>26. ASSUME NEW c \in Callers, TryLease(c) PROVE RangeInv'
    BY <1>26 DEF TryLease
<1>27. ASSUME NEW c \in Callers, LeaseExecAndDiscard(c) PROVE RangeInv'
  <2>1. PICK s \in hand[c] : DiscardSandbox(c, s)
    BY <1>27 DEF LeaseExecAndDiscard
  <2> QED
    BY <1>27, <2>1, RangeTaken DEF LeaseExecAndDiscard
<1>28. ASSUME NEW c \in Callers, LeaseDiscard(c) PROVE RangeInv'
  <2>1. PICK s \in hand[c] : DiscardSandbox(c, s)
    BY <1>28 DEF LeaseDiscard
  <2> QED
    BY <1>28, <2>1, RangeTaken DEF LeaseDiscard
<1>29. ASSUME NEW c \in Callers, LeaseDiscardReleased(c) PROVE RangeInv'
    BY <1>29 DEF LeaseDiscardReleased
<1>30. ASSUME NEW c \in Callers, NEW k \in ResizeTargets, SetTargetReady(c, k) PROVE RangeInv'
    BY <1>30 DEF SetTargetReady
<1>31. ASSUME NEW c \in Callers, PoolStartBackgroundFill(c) PROVE RangeInv'
    BY <1>31 DEF PoolStartBackgroundFill
<1>32. ASSUME NEW c \in Callers, FillToTargetBlocking(c) PROVE RangeInv'
    BY <1>32 DEF FillToTargetBlocking
<1>33. ASSUME DropStart \/ DropStep \/ (\E s \in Slots : VmDies(s)) \/ Terminated \/ UNCHANGED vars
       PROVE  RangeInv'
    BY <1>33 DEF DropStart, DropStep, DropReturn, DropDrain, DropKill, VmDies, Terminated, vars
<1> HIDE DEF IInv, TypeOK, Shape, WorkerShape, CallerShape, SpawnShape, SlotOwnership,
             DropShape, RangeInv, CpuShape, Kept, RangePlaces, Threads, FillingPlaces,
             WorkerPlaces, CallerPlaces, PoolOps, stateVars, vmVars, dropVars, Goto, Return,
             Call, AfterFill, ReleaseCpuset, Kill, DiscardSandbox, LaunchSlot, Reservations,
             PopReady, LeaseKill
<1>34. ASSUME NEW w \in Workers, Worker(w) PROVE RangeInv'
    BY <1>34, <1>1, <1>2, <1>3, <1>4, <1>5, <1>6, <1>7 DEF Worker
<1>35. ASSUME NEW t \in Threads, Refill(t) PROVE RangeInv'
    BY <1>35, <1>8, <1>9, <1>10 DEF Refill
<1>36. ASSUME NEW c \in Callers, CallerStep(c) PROVE RangeInv'
    BY <1>36, <1>11, <1>12, <1>13, <1>14, <1>15, <1>16, <1>17, <1>18, <1>19, <1>20, <1>21,
       <1>22, <1>23, <1>24, <1>25 DEF CallerStep
<1>37. ASSUME NEW c \in Callers, CallerCall(c) PROVE RangeInv'
    BY <1>37, <1>26, <1>27, <1>28, <1>29, <1>30, <1>31, <1>32 DEF CallerCall
<1> QED
    BY <1>33, <1>34, <1>35, <1>36, <1>37 DEF Next

\* At the start every range is free and nothing is counted.
LEMMA InitLedger == Init => LedgerInv /\ RangeInv
<1> SUFFICES ASSUME Init PROVE LedgerInv /\ RangeInv
    OBVIOUS
<1>1. ready = {} /\ LiveLeases = {} /\ InFlight = {}
    BY DEF Init, LiveLeases, InFlight, InFlightPlaces
<1>2. Cardinality({}) = 0
    BY FS_EmptySet
<1>3. LedgerInv
    BY <1>1, <1>2 DEF Init, LedgerInv, LeasedExact, LedgerBalance, InFlight
<1>4. RangeInv
    BY DEF Init, RangeInv, CpuShape, Kept
<1> QED
    BY <1>3, <1>4

\* Both invariants are inductive relative to IInv.
LEMMA Conserved == Spec => [](LedgerInv /\ RangeInv)
<1>1. IInv /\ LedgerInv /\ [Next]_vars => LedgerInv'
    BY WorkerLedger, RefillLedger, CallerStepLedger, CallerCallLedger, DropLedger DEF Next
<1> QED
    BY <1>1, RangeStep, InitLedger, Inductive, PTL DEF Spec

\* Every fill attempt is in flight, ready, leased or counted once in `discarded`,
\* whichever way fills, leases, resizes and drop interleave; so no lease is counted out
\* twice, and lease_finished never saturates.
THEOREM BalancedLedger == Spec => []LedgerBalance
<1>1. LedgerInv => LedgerBalance
    BY DEF LedgerInv
<1> QED
    BY <1>1, Conserved, PTL

\* No CPU range leaks before shutdown: each is free, held by a thread that will launch
\* with it or release it, or pinned by a VM of the pool.
THEOREM CpusetsConserved == Spec => []CpusetConserved
<1>1. RangeInv => CpusetConserved
    BY DEF RangeInv, Kept, CpusetConserved
<1> QED
    BY <1>1, Conserved, PTL

-----------------------------------------------------------------------------
(* No deficit is forgotten. As in the run, for pools without CPU allocator  *)
(* and with targets that the fill threads can meet at once.                 *)

WithinCap ==
    /\ Ranges = {}
    /\ InitTarget <= MaxFillThreads
    /\ \A n \in ResizeTargets : n <= MaxFillThreads

\* A worker gives its fill up only because it saw `shutdown`.
CoverInv ==
    /\ target_ready <= MaxFillThreads
    /\ \A w \in Workers : pc[w] \in {"discard_kill", "discard"} => shutdown

HandedOver == Covered \/ TriggerPending \/ shutdown

\* The target stays within the cap, and the flag is never taken back.
LEMMA CoverStep ==
    ASSUME WithinCap, IInv, CoverInv, [Next]_vars
    PROVE  CoverInv'
<1> USE CallersWorkersDisjoint DEF CoverInv, IInv, TypeOK, Threads, WorkerPlaces, FillingPlaces,
        CallerPlaces, stateVars, vmVars, dropVars, Goto, Return, Call, AfterFill
<1>1. ASSUME NEW w \in Workers, Worker(w) PROVE CoverInv'
    BY <1>1 DEF Worker, WorkerStart, WorkerLaunch, WorkerFail, WorkerLoadShutdown, WorkerPush,
            WorkerDiscardKill, WorkerDiscard
<1>2. ASSUME NEW t \in Threads, Refill(t) PROVE CoverInv'
    BY <1>2 DEF Refill, StartBackgroundFillNone, StartBackgroundFill, SpawnFillWorker
<1>3. ASSUME NEW c \in Callers, CallerStep(c) PROVE CoverInv'
  <2>1. \A w \in Workers : pc'[w] = pc[w]
    BY <1>3 DEF CallerStep, TryLeaseNext, TryLeaseEmpty, LeaseAcquire, LeaseDiscardDead,
            LeaseReleaseDead, LeaseFinished, ResizeKill, ResizeRelease, FillCheck, FillNoCpuset,
            FillReserve, FillAttempt, FillLaunch, FillFail, FillPush
  <2>2. UNCHANGED <<target_ready, shutdown>>
    BY <1>3 DEF CallerStep, TryLeaseNext, PopReady, TryLeaseEmpty, LeaseAcquire, LeaseDiscardDead,
            LeaseReleaseDead, LeaseFinished, ResizeKill, ResizeRelease, FillCheck, FillNoCpuset,
            FillReserve, FillAttempt, FillLaunch, FillFail, FillPush
  <2> QED
    BY <2>1, <2>2
<1>4. ASSUME NEW c \in Callers, CallerCall(c) PROVE CoverInv'
  <2>1. \A w \in Workers : pc'[w] = pc[w]
    BY <1>4 DEF CallerCall, TryLease, LeaseExecAndDiscard, LeaseDiscard, LeaseKill,
            LeaseDiscardReleased, SetTargetReady, PoolStartBackgroundFill, FillToTargetBlocking
  <2>2. target_ready' <= MaxFillThreads /\ shutdown' = shutdown
    BY <1>4 DEF CallerCall, TryLease, PopReady, LeaseExecAndDiscard, LeaseDiscard, LeaseKill,
            LeaseDiscardReleased, SetTargetReady, PoolStartBackgroundFill, FillToTargetBlocking, WithinCap
  <2> QED
    BY <2>1, <2>2
<1>5. ASSUME DropStart \/ DropStep \/ (\E s \in Slots : VmDies(s)) \/ Terminated \/ UNCHANGED vars
      PROVE  CoverInv'
    BY <1>5 DEF DropStart, DropStep, DropReturn, DropDrain, DropKill, VmDies, Terminated, vars
<1> HIDE DEF CoverInv
<1> QED
    BY <1>1, <1>2, <1>3, <1>4, <1>5 DEF Next

\* A thread that is on its way to start_background_fill has the deficit.
LEMMA Pending ==
    ASSUME NEW t \in Threads, pc'[t] \in TriggerPlaces
    PROVE  HandedOver'
BY DEF HandedOver, TriggerPending

\* A step that changes neither the size of the pool nor who is on the way.
LEMMA StillCovered ==
    ASSUME Covered \/ TriggerPending, UNCHANGED <<ready, filling, target_ready>>,
           \A t \in Threads : pc[t] \in TriggerPlaces => pc'[t] \in TriggerPlaces
    PROVE  HandedOver'
BY DEF HandedOver, Covered, TriggerPending

\* A slot that is published: no smaller pool.
LEMMA PushCovers ==
    ASSUME IInv, Covered \/ TriggerPending, target_ready' = target_ready,
           NEW s, s \notin ready, ready' = ready \cup {s},
           filling' \in Nat, filling' + 1 >= filling,
           \A t \in Threads : pc[t] \in TriggerPlaces => pc'[t] \in TriggerPlaces
    PROVE  HandedOver'
<1>1. Cardinality(ready') = Cardinality(ready) + 1 /\ Cardinality(ready) \in Nat
    BY ReadyStep, CountsNat DEF IInv
<1>2. ASSUME Covered PROVE Covered'
  <2>1. Cardinality(ready) + filling >= target_ready /\ filling \in Nat /\ target_ready \in Nat
    BY <1>2 DEF Covered, IInv, TypeOK
  <2>2. Cardinality(ready) + 1 + filling' >= target_ready
    BY <1>1, <2>1
  <2> QED
    BY <1>1, <2>2 DEF Covered
<1> QED
    BY <1>2 DEF HandedOver, TriggerPending

\* start_background_fill returns only when the deficit is filled or being filled.
LEMMA RefillCovers ==
    ASSUME WithinCap, IInv, CoverInv, NEW t \in Threads, pc[t] \in {"refill", "backoff"}
    PROVE  /\ FillsReserved = 0 => Covered
           /\ Cardinality(ready) + filling + FillsReserved >= target_ready
<1>1. Cardinality(ready) \in Nat /\ filling \in Nat /\ target_ready \in Nat
    BY CountsNat DEF IInv, TypeOK
<1>2. FillsReserved = FillCount
    BY DEF FillsReserved, WithinCap
<1>3. MaxFillThreads \in Nat /\ target_ready <= MaxFillThreads
    BY BoundsAssumption DEF CoverInv
<1>4. Cardinality(ready) + filling + FillCount >= target_ready
    BY <1>1, <1>3 DEF FillCount, Deficit, SaturatingSub, Smaller
<1> QED
    BY <1>1, <1>2, <1>4 DEF Covered

\* Every step hands a deficit on: to a fill, to a thread on its way, or to shutdown.
LEMMA HandOver ==
    ASSUME WithinCap, IInv, CoverInv, Covered \/ TriggerPending, [Next]_vars
    PROVE  HandedOver'
<1> USE CallersWorkersDisjoint DEF IInv, TypeOK, Threads, WorkerPlaces, FillingPlaces, CallerPlaces, TriggerPlaces,
        stateVars, vmVars, dropVars, Goto, Return, Call, AfterFill, LeaseKill
<1>1. ASSUME NEW w \in Workers, WorkerStart(w) PROVE HandedOver'
    BY <1>1, StillCovered DEF WorkerStart
<1>2. ASSUME NEW w \in Workers, WorkerLaunch(w) PROVE HandedOver'
    BY <1>2, StillCovered DEF WorkerLaunch
<1>3. ASSUME NEW w \in Workers, WorkerFail(w) PROVE HandedOver'
    BY <1>3, Pending DEF WorkerFail
<1>4. ASSUME NEW w \in Workers, WorkerLoadShutdown(w) PROVE HandedOver'
    BY <1>4, StillCovered DEF WorkerLoadShutdown
<1>5. ASSUME NEW w \in Workers, WorkerPush(w) PROVE HandedOver'
  <2>1. PICK s : s \notin ready /\ ready' = ready \cup {s}
    BY <1>5 DEF WorkerPush, Shape, WorkerShape, CallerShape, SlotOwnership
  <2> QED
    BY <1>5, <2>1, PushCovers DEF WorkerPush, SaturatingSub
<1>6. ASSUME NEW w \in Workers, WorkerDiscardKill(w) PROVE HandedOver'
    BY <1>6, StillCovered DEF WorkerDiscardKill
<1>7. ASSUME NEW w \in Workers, WorkerDiscard(w) PROVE HandedOver'
    BY <1>7 DEF WorkerDiscard, CoverInv, HandedOver
<1>8. ASSUME NEW t \in Threads, StartBackgroundFillNone(t) PROVE HandedOver'
    BY <1>8, StillCovered, RefillCovers DEF StartBackgroundFillNone, HandedOver, Covered
<1>9. ASSUME NEW t \in Threads, StartBackgroundFill(t) PROVE HandedOver'
  <2>1. filling' = filling + FillsReserved /\ UNCHANGED <<ready, target_ready>>
    BY <1>9 DEF StartBackgroundFill
  <2>2. Cardinality(ready) + filling + FillsReserved >= target_ready
    BY <1>9, RefillCovers DEF StartBackgroundFill
  <2>3. FillsReserved \in Nat /\ Cardinality(ready) \in Nat
    BY Sizes
  <2> QED
    BY <2>1, <2>2, <2>3 DEF HandedOver, Covered
<1>10. ASSUME NEW t \in Threads, NEW w \in Workers, SpawnFillWorker(t, w) PROVE HandedOver'
  <2>1. pc[w] = "reserved" /\ pc[t] = "spawn"
    BY <1>10 DEF SpawnFillWorker, Shape, SpawnShape
  <2> QED
    BY <1>10, <2>1, StillCovered DEF SpawnFillWorker
<1>11. ASSUME NEW c \in Callers, TryLeaseNext(c) PROVE HandedOver'
    BY <1>11, Pending DEF TryLeaseNext
<1>12. ASSUME NEW c \in Callers, TryLeaseEmpty(c) PROVE HandedOver'
    BY <1>12, Pending DEF TryLeaseEmpty
<1>13. ASSUME NEW c \in Callers, LeaseAcquire(c) PROVE HandedOver'
    BY <1>13, Pending DEF LeaseAcquire
<1>14. ASSUME NEW c \in Callers, LeaseDiscardDead(c) PROVE HandedOver'
    BY <1>14, Pending DEF LeaseDiscardDead
<1>15. ASSUME NEW c \in Callers, LeaseReleaseDead(c) PROVE HandedOver'
    BY <1>15, Pending DEF LeaseReleaseDead
<1>16. ASSUME NEW c \in Callers, LeaseFinished(c) PROVE HandedOver'
    BY <1>16, Pending DEF LeaseFinished
<1>17. ASSUME NEW c \in Callers, ResizeKill(c) PROVE HandedOver'
    BY <1>17, Pending DEF ResizeKill
<1>18. ASSUME NEW c \in Callers, ResizeRelease(c) PROVE HandedOver'
    BY <1>18, Pending DEF ResizeRelease
<1>19. ASSUME NEW c \in Callers, FillCheck(c) PROVE HandedOver'
    BY <1>19, StillCovered DEF FillCheck
<1>20. ASSUME NEW c \in Callers, FillNoCpuset(c) PROVE HandedOver'
    BY <1>20, StillCovered DEF FillNoCpuset
<1>21. ASSUME NEW c \in Callers, FillReserve(c) PROVE HandedOver'
    BY <1>21, StillCovered DEF FillReserve
<1>22. ASSUME NEW c \in Callers, FillAttempt(c) PROVE HandedOver'
    BY <1>22, StillCovered DEF FillAttempt
<1>23. ASSUME NEW c \in Callers, FillLaunch(c) PROVE HandedOver'
    BY <1>23, StillCovered DEF FillLaunch
<1>24. ASSUME NEW c \in Callers, FillFail(c) PROVE HandedOver'
    BY <1>24, StillCovered DEF FillFail
<1>25. ASSUME NEW c \in Callers, FillPush(c) PROVE HandedOver'
  <2>1. PICK s : s \notin ready /\ ready' = ready \cup {s}
    BY <1>25 DEF FillPush, Shape, WorkerShape, CallerShape, SlotOwnership
  <2> QED
    BY <1>25, <2>1, PushCovers DEF FillPush, SaturatingSub
<1>26. ASSUME NEW c \in Callers, TryLease(c) PROVE HandedOver'
    BY <1>26, Pending DEF TryLease
<1>27. ASSUME NEW c \in Callers, LeaseExecAndDiscard(c) PROVE HandedOver'
    BY <1>27, Pending DEF LeaseExecAndDiscard
<1>28. ASSUME NEW c \in Callers, LeaseDiscard(c) PROVE HandedOver'
    BY <1>28, Pending DEF LeaseDiscard
<1>29. ASSUME NEW c \in Callers, LeaseDiscardReleased(c) PROVE HandedOver'
    BY <1>29, StillCovered DEF LeaseDiscardReleased
<1>30. ASSUME NEW c \in Callers, NEW k \in ResizeTargets, SetTargetReady(c, k) PROVE HandedOver'
    BY <1>30, Pending DEF SetTargetReady
<1>31. ASSUME NEW c \in Callers, PoolStartBackgroundFill(c) PROVE HandedOver'
    BY <1>31, Pending DEF PoolStartBackgroundFill
<1>32. ASSUME NEW c \in Callers, FillToTargetBlocking(c) PROVE HandedOver'
    BY <1>32, StillCovered DEF FillToTargetBlocking
<1>33. ASSUME DropStart \/ DropStep PROVE HandedOver'
    BY <1>33 DEF DropStart, DropStep, DropReturn, DropDrain, DropKill, DropShape, HandedOver
<1>34. ASSUME (\E s \in Slots : VmDies(s)) \/ Terminated \/ UNCHANGED vars PROVE HandedOver'
    BY <1>34, StillCovered DEF VmDies, Terminated, vars
<1> HIDE DEF IInv, TypeOK, Threads, WorkerPlaces, FillingPlaces, CallerPlaces, TriggerPlaces,
             stateVars, vmVars, dropVars, Goto, Return, Call, AfterFill, LeaseKill
<1>35. ASSUME NEW w \in Workers, Worker(w) PROVE HandedOver'
    BY <1>35, <1>1, <1>2, <1>3, <1>4, <1>5, <1>6, <1>7 DEF Worker
<1>36. ASSUME NEW t \in Threads, Refill(t) PROVE HandedOver'
    BY <1>36, <1>8, <1>9, <1>10 DEF Refill
<1>37. ASSUME NEW c \in Callers, CallerStep(c) PROVE HandedOver'
    BY <1>37, <1>11, <1>12, <1>13, <1>14, <1>15, <1>16, <1>17, <1>18, <1>19, <1>20, <1>21,
       <1>22, <1>23, <1>24, <1>25 DEF CallerStep
<1>38. ASSUME NEW c \in Callers, CallerCall(c) PROVE HandedOver'
    BY <1>38, <1>26, <1>27, <1>28, <1>29, <1>30, <1>31, <1>32 DEF CallerCall
<1> QED
    BY <1>33, <1>34, <1>35, <1>36, <1>37, <1>38 DEF Next

\* No interleaving of leases, failed fills and resizes leaves the pool short with nobody
\* about to call start_background_fill.
THEOREM DeficitIsHandedOver ==
    ASSUME WithinCap
    PROVE  Spec => DeficitHandedOver
<1>1. Init => CoverInv
    BY CallersWorkersDisjoint DEF Init, CoverInv, WithinCap, Threads
<1>2. Spec => []CoverInv
    BY <1>1, CoverStep, Inductive, PTL DEF Spec
<1>3. IInv /\ CoverInv /\ [Next]_vars =>
         [Covered \/ TriggerPending => (Covered \/ TriggerPending \/ shutdown)']_vars
    BY HandOver DEF HandedOver
<1> QED
    BY <1>2, <1>3, Inductive, PTL DEF Spec, DeficitHandedOver
=============================================================================
