---------------------------- MODULE RunRootProofs ----------------------------
(***************************************************************************)
(* Proofs about the run directory of a vm_id, for every number of launches *)
(* and m80 processes. In every configuration: TypeOK, PermitsExact and     *)
(* FailedLaunchLeavesNoVm. If a vm_id is launched again only once its last *)
(* handle is gone: LeafSingle. If also one m80 process at a time uses the  *)
(* run root and recovery runs only when it starts (Resident):              *)
(* OwnerKeepsDir, VmTraceable and RecoveryKeepsEvidence.                   *)
(***************************************************************************)
EXTENDS RunRoot, FiniteSetTheorems, TLAPS

\* How the m80 commands use a run root: see SharedId, Overlap and ExplicitRecovery.
Resident == ~SharedId /\ ~Overlap /\ ~ExplicitRecovery

-----------------------------------------------------------------------------
(* In every configuration.                                                 *)

\* TypeOK but for the range of the semaphores, which takes PermitsExact.
Types ==
    /\ dir \in Handles \cup {None}
    /\ lock \in Procs \cup {None, Torn}
    /\ pids \in Handles \cup {None, Unset}
    /\ marker \in Handles \cup {None}
    /\ fc \subseteq Handles
    /\ leaf \subseteq Handles
    /\ proc \in [Procs -> {"new", "starting", "up", "dead"}]
    /\ rec \in [Procs -> {"idle", "inspect", "kill", "stop_unit", "reap", "remove"}]
    /\ pc \in [Handles -> Places]
    /\ at \in [Handles -> Procs \cup {None}]
    /\ home \in [Handles -> Handles \cup {None}]
    /\ detached \subseteq Handles
    /\ failures \in 0..MaxFailures

\* Handles, detached removals and recovery passes are in living processes.
LiveInv ==
    /\ \A h \in Handles : pc[h] # "gone" => at[h] \in Procs /\ proc[at[h]] = "up"
    /\ \A h \in detached : at[h] \in Procs /\ proc[at[h]] = "up"
    /\ \A p \in Procs : rec[p] # "idle" => proc[p] \in {"starting", "up"}

\* Dead processes are in no leaf; a launch that has not come to Spawn has no process.
VmInv ==
    /\ leaf \subseteq fc
    /\ \A h \in Handles : pc[h] \in {"admitted", "leased", "jailed"} \cup Unleased => h \notin fc
    /\ FailedLaunchLeavesNoVm

PermitInv == avail \in [Procs -> 0..MaxVms] /\ PermitsExact

Inv == Types /\ LiveInv /\ VmInv /\ PermitInv

-----------------------------------------------------------------------------
(* One handle at a time.                                                   *)

SoleInv ==
    /\ \A g, h \in Handles : pc[g] # "gone" /\ pc[h] # "gone" => g = h
    /\ \A h \in Handles : pc[h] # "gone" => detached = {}

\* The leaf that was found empty stays so until the handle enrolls its own process.
LeafInv ==
    /\ \A g, h \in leaf : g = h
    /\ \A h \in Handles : pc[h] = "leaf_ok" => CgroupV2 /\ leaf = {}
    /\ ~CgroupV2 => leaf = {}

-----------------------------------------------------------------------------
(* One process at a time, which recovers when it starts.                   *)

StartupInv ==
    /\ \A p, q \in Procs : PidIsAlive(p) /\ PidIsAlive(q) => p = q
    /\ \A p \in Procs : rec[p] # "idle" => proc[p] = "starting"

OwnerInv ==
    /\ \A h \in Handles : pc[h] = "torn" => dir = home[h] /\ dir # None /\ lock = Torn
    /\ \A h \in Handles : pc[h] \in Leased => Owns(h) /\ dir # None

\* As long as no kill failed, the pids of a process with a leaf are recorded, and if
\* its handle is gone, nothing is launched before recovery has killed it.
TraceInv ==
    failures = 0 =>
        /\ \A h \in Handles :
              pc[h] \in {"recorded", "leaf_ok", "enrolled", "prepared", "running"} => pids = h
        /\ \A h \in leaf :
              \/ pc[h] \in {"enrolled", "prepared", "running"}
              \/ /\ dir # None /\ pids = h
                 /\ lock \in Procs /\ proc[lock] = "dead"
                 /\ \A p \in Procs : proc[p] # "up" /\ rec[p] \in {"idle", "inspect", "kill"}

ResidentInv == SoleInv /\ LeafInv /\ StartupInv /\ OwnerInv /\ TraceInv /\ RecoveryKeepsEvidence

-----------------------------------------------------------------------------
(* Permits.                                                                *)

\* The handles that hold a permit of p.
Held(p) == {h \in Handles : at[h] = p /\ pc[h] \in HoldsPermit}

\* PermitsExact counts what Held names.
LEMMA PermitsAreHeld ==
    PermitsExact <=> \A p \in Procs : proc[p] # "dead" => avail[p] + Cardinality(Held(p)) = MaxVms
BY DEF PermitsExact, Held

\* A step that takes and returns no permit.
LEMMA PermitKept ==
    ASSUME PermitInv, avail' = avail, at' = at,
           \A p \in Procs : proc'[p] # "dead" => proc[p] # "dead",
           \A h \in Handles : pc'[h] \in HoldsPermit <=> pc[h] \in HoldsPermit
    PROVE  PermitInv'
<1>1. ASSUME NEW p \in Procs PROVE Held(p)' = Held(p)
  BY DEF Held
<1> QED BY <1>1 DEF PermitInv, PermitsExact, Held

\* A step that returns the permit of one handle.
LEMMA PermitBack ==
    ASSUME Types, LiveInv, PermitInv, NEW h \in Handles, pc[h] \in HoldsPermit,
           \E s \in Places \ HoldsPermit : Goto(h, s),
           ReturnPermit(h), at' = at, proc' = proc
    PROVE  PermitInv'
<1> DEFINE q == at[h]
<1>1. q \in Procs /\ proc[q] = "up"
  BY DEF LiveInv, HoldsPermit
<1>2. h \in Held(q) /\ Held(q)' = Held(q) \ {h}
  BY DEF Held, Goto, Types
<1>3. \A p \in Procs \ {q} : Held(p)' = Held(p)
  BY DEF Held, Goto, Types
<1>4. \A p \in Procs : IsFiniteSet(Held(p))
  BY FiniteAssumption, FS_Subset DEF Held
<1>5. Cardinality(Held(q)') = Cardinality(Held(q)) - 1
  BY <1>1, <1>2, <1>4, FS_RemoveElement
<1>6. Cardinality(Held(q)') \in Nat /\ Cardinality(Held(q)) \in Nat
  BY <1>1, <1>2, <1>4, FS_RemoveElement, FS_CardinalityType
<1>7. avail[q] + Cardinality(Held(q)) = MaxVms
  BY <1>1, PermitsAreHeld DEF PermitInv
<1>8. avail[q] + 1 \in 0..MaxVms
  BY <1>1, <1>5, <1>6, <1>7, BoundAssumption DEF PermitInv
<1>9. avail' \in [Procs -> 0..MaxVms]
  BY <1>1, <1>8 DEF PermitInv, ReturnPermit
<1>10. ASSUME NEW p \in Procs, proc[p] # "dead"
       PROVE  avail'[p] + Cardinality(Held(p)') = MaxVms
  <2>1. CASE p = q
    BY <2>1, <1>1, <1>5, <1>6, <1>7 DEF PermitInv, ReturnPermit
  <2>2. CASE p # q
    <3>1. avail[p] + Cardinality(Held(p)) = MaxVms
      BY <1>10, PermitsAreHeld DEF PermitInv
    <3>2. avail'[p] = avail[p]
      BY <2>2, <1>1 DEF PermitInv, ReturnPermit
    <3> QED BY <3>1, <3>2, <2>2, <1>3
  <2> QED BY <2>1, <2>2
<1> QED BY <1>9, <1>10 DEF PermitInv, PermitsExact, Held

\* A handle that is admitted takes one of the permits that are left.
LEMMA PermitTaken ==
    ASSUME Types, PermitInv, NEW h \in Handles, NEW q \in Procs, Admit(h, q)
    PROVE  PermitInv'
<1>1. pc[h] = "gone" /\ pc' = [pc EXCEPT ![h] = "admitted"] /\ at' = [at EXCEPT ![h] = q]
  BY DEF Admit, Move, Goto
<1>2. avail[q] > 0 /\ avail' = [avail EXCEPT ![q] = @ - 1] /\ proc' = proc
  BY DEF Admit, procVars
<1>3. h \notin Held(q) /\ Held(q)' = Held(q) \cup {h}
  BY <1>1 DEF Held, Types, HoldsPermit, Places
<1>4. \A p \in Procs \ {q} : Held(p)' = Held(p)
  BY <1>1 DEF Held, Types, HoldsPermit, Places
<1>5. \A p \in Procs : IsFiniteSet(Held(p))
  BY FiniteAssumption, FS_Subset DEF Held
<1>6. Cardinality(Held(q)') = Cardinality(Held(q)) + 1 /\ Cardinality(Held(q)) \in Nat
  BY <1>3, <1>5, FS_AddElement, FS_CardinalityType
<1>7. avail' \in [Procs -> 0..MaxVms]
  BY <1>2, BoundAssumption DEF PermitInv
<1>8. ASSUME NEW p \in Procs, proc[p] # "dead"
      PROVE  avail'[p] + Cardinality(Held(p)') = MaxVms
  <2>1. avail[p] + Cardinality(Held(p)) = MaxVms
    BY <1>8, PermitsAreHeld DEF PermitInv
  <2>2. CASE p = q
    BY <2>1, <2>2, <1>2, <1>6 DEF PermitInv
  <2>3. CASE p # q
    <3>1. avail'[p] = avail[p]
      BY <2>3, <1>2 DEF PermitInv
    <3> QED BY <2>1, <2>3, <3>1, <1>4
  <2> QED BY <2>2, <2>3
<1> QED BY <1>2, <1>7, <1>8 DEF PermitInv, PermitsExact, Held

\* The permits of a process that dies no longer count, and those of others stay.
LEMMA PermitLost ==
    ASSUME Types, PermitInv, NEW q \in Procs, Crash(q)
    PROVE  PermitInv'
<1>1. \A p \in Procs \ {q} : Held(p)' = Held(p)
  BY DEF Held, Crash, Types
<1>2. avail' = avail /\ proc' = [proc EXCEPT ![q] = "dead"]
  BY DEF Crash
<1>3. \A p \in Procs : proc'[p] # "dead" => p # q /\ proc[p] # "dead"
  BY <1>2 DEF Types
<1> QED BY <1>1, <1>2, <1>3 DEF PermitInv, PermitsExact, Held

-----------------------------------------------------------------------------
(* Every step keeps every part.                                            *)

\* Every step keeps the types.
LEMMA TypesStep ==
    ASSUME Types, [Next]_vars
    PROVE  Types'
<1> USE NoneAssumption, BoundAssumption
    DEF Types, dirVars, vmVars, procVars, Goto, Move, ClearPath, ReturnPermit, Unlock,
        KillSucceeds, KillFails, KillBestEffort, HasSubtree, Abandon, RecoveryReturns,
        RecStep, Recovering, LockAvailable, PidIsAlive, Torn, Unset, Places, Unleased,
        Leased, Tails
<1>1. ASSUME NEW h \in Handles, NEW p \in Procs, Admit(h, p) PROVE Types'
  BY <1>1 DEF Admit
<1>2. ASSUME NEW h \in Handles, Launch(h) PROVE Types'
  BY <1>2 DEF Launch, RunRootPrep, PrepFails, CheckLock, LeaseRefused, TruncateLock, WriteLock,
         LeaseIoError, Materialize, Spawn, PidFileTimeout, TruncateState, RecordLiveState,
         RecordFails, CheckLeaf, Enroll, Prepared, LaunchFails, LaunchFailsKill
<1>3. ASSUME NEW h \in Handles, Unwind(h) PROVE Types'
  BY <1>3 DEF Unwind, FailUnlock, FailDir, StartFailDir, UnlockLast, PreparedKill, PreparedDir,
         DetachedRemove
<1>4. ASSUME NEW h \in Handles, Use(h) PROVE Types'
  BY <1>4 DEF Use, DropSandbox, Start, StartFails, DropPrepared, Stop, StopFails, StopPmemFails,
         ForceKillFails, DropRunning, Delete, DropStopped, DeleteTimesOut
<1>5. ASSUME NEW p \in Procs, Recover(p) PROVE Types'
  BY <1>5 DEF Recover, RecoverSkip, RecoverScan, RecoverInspect, RecoverKill, RecoverStopUnit,
         RecoverPreserve, RecoverLeaf, RecoverLeafError, RecoverStaleLeaf, RecoverRemove
<1>6. ASSUME NEW h \in Handles, FirecrackerExits(h) PROVE Types'
  BY <1>6 DEF FirecrackerExits
<1>7. ASSUME NEW p \in Procs, StartProcess(p) PROVE Types'
  BY <1>7 DEF StartProcess
<1>8. ASSUME NEW p \in Procs, Crash(p) PROVE Types'
  BY <1>8 DEF Crash
<1>9. ASSUME AllDead \/ UNCHANGED vars PROVE Types'
  BY <1>9 DEF AllDead, vars
<1> HIDE DEF Types, dirVars, vmVars, procVars, Goto, Move, ClearPath, ReturnPermit, Unlock,
             KillSucceeds, KillFails, KillBestEffort, HasSubtree, Abandon, RecoveryReturns,
             RecStep, Recovering, LockAvailable, PidIsAlive, Torn, Unset, Places, Unleased,
             Leased, Tails
<1> QED BY <1>1, <1>2, <1>3, <1>4, <1>5, <1>6, <1>7, <1>8, <1>9 DEF Next


\* A crash takes the handles, removals and passes of its process along.
LEMMA LiveStep ==
    ASSUME Types, LiveInv, [Next]_vars
    PROVE  LiveInv'
<1> USE NoneAssumption, BoundAssumption
    DEF Types, LiveInv, dirVars, vmVars, procVars, Goto, Move, ClearPath, ReturnPermit,
        Unlock, KillSucceeds, KillFails, KillBestEffort, HasSubtree, Abandon,
        RecoveryReturns, RecStep, Recovering, LockAvailable, PidIsAlive, Torn, Unset,
        Places, Unleased, Leased, Tails
<1>1. ASSUME NEW h \in Handles, NEW p \in Procs, Admit(h, p) PROVE LiveInv'
  BY <1>1 DEF Admit
<1>2. ASSUME NEW h \in Handles, Launch(h) PROVE LiveInv'
  BY <1>2 DEF Launch, RunRootPrep, PrepFails, CheckLock, LeaseRefused, TruncateLock, WriteLock,
         LeaseIoError, Materialize, Spawn, PidFileTimeout, TruncateState, RecordLiveState,
         RecordFails, CheckLeaf, Enroll, Prepared, LaunchFails, LaunchFailsKill
<1>3. ASSUME NEW h \in Handles, Unwind(h) PROVE LiveInv'
  BY <1>3 DEF Unwind, FailUnlock, FailDir, StartFailDir, UnlockLast, PreparedKill, PreparedDir,
         DetachedRemove
<1>4. ASSUME NEW h \in Handles, Use(h) PROVE LiveInv'
  BY <1>4 DEF Use, DropSandbox, Start, StartFails, DropPrepared, Stop, StopFails, StopPmemFails,
         ForceKillFails, DropRunning, Delete, DropStopped, DeleteTimesOut
<1>5. ASSUME NEW p \in Procs, Recover(p) PROVE LiveInv'
  BY <1>5 DEF Recover, RecoverSkip, RecoverScan, RecoverInspect, RecoverKill, RecoverStopUnit,
         RecoverPreserve, RecoverLeaf, RecoverLeafError, RecoverStaleLeaf, RecoverRemove
<1>6. ASSUME NEW h \in Handles, FirecrackerExits(h) PROVE LiveInv'
  BY <1>6 DEF FirecrackerExits
<1>7. ASSUME NEW p \in Procs, StartProcess(p) PROVE LiveInv'
  BY <1>7 DEF StartProcess
<1>8. ASSUME NEW p \in Procs, Crash(p) PROVE LiveInv'
  BY <1>8 DEF Crash
<1>9. ASSUME AllDead \/ UNCHANGED vars PROVE LiveInv'
  BY <1>9 DEF AllDead, vars
<1> HIDE DEF Types, LiveInv, dirVars, vmVars, procVars, Goto, Move, ClearPath, ReturnPermit,
             Unlock, KillSucceeds, KillFails, KillBestEffort, HasSubtree, Abandon,
             RecoveryReturns, RecStep, Recovering, LockAvailable, PidIsAlive, Torn, Unset,
             Places, Unleased, Leased, Tails
<1> QED BY <1>1, <1>2, <1>3, <1>4, <1>5, <1>6, <1>7, <1>8, <1>9 DEF Next


\* Every exit of a launch after Spawn kills the process or counts a failed kill; on the
\* systemd path RecordFails does, too.
LEMMA VmStep ==
    ASSUME Types, VmInv, [Next]_vars
    PROVE  VmInv'
<1> USE NoneAssumption, BoundAssumption
    DEF Types, VmInv, FailedLaunchLeavesNoVm, dirVars, vmVars, procVars, Goto, Move,
        ClearPath, ReturnPermit, Unlock, KillSucceeds, KillFails, KillBestEffort,
        HasSubtree, Abandon, RecoveryReturns, RecStep, Recovering, LockAvailable,
        PidIsAlive, Torn, Unset, Places, Unleased, Leased, Tails
<1>1. ASSUME NEW h \in Handles, NEW p \in Procs, Admit(h, p) PROVE VmInv'
  BY <1>1 DEF Admit
<1>2. ASSUME NEW h \in Handles, RunRootPrep(h) PROVE VmInv'
  BY <1>2 DEF RunRootPrep
<1>3. ASSUME NEW h \in Handles, PrepFails(h) PROVE VmInv'
  BY <1>3 DEF PrepFails
<1>4. ASSUME NEW h \in Handles, CheckLock(h) PROVE VmInv'
  BY <1>4 DEF CheckLock
<1>5. ASSUME NEW h \in Handles, LeaseRefused(h) PROVE VmInv'
  BY <1>5 DEF LeaseRefused
<1>6. ASSUME NEW h \in Handles, TruncateLock(h) PROVE VmInv'
  BY <1>6 DEF TruncateLock
<1>7. ASSUME NEW h \in Handles, WriteLock(h) PROVE VmInv'
  BY <1>7 DEF WriteLock
<1>8. ASSUME NEW h \in Handles, LeaseIoError(h) PROVE VmInv'
  BY <1>8 DEF LeaseIoError
<1>9. ASSUME NEW h \in Handles, Materialize(h) PROVE VmInv'
  BY <1>9 DEF Materialize
<1>10. ASSUME NEW h \in Handles, Spawn(h) PROVE VmInv'
  BY <1>10 DEF Spawn
<1>11. ASSUME NEW h \in Handles, PidFileTimeout(h) PROVE VmInv'
  BY <1>11 DEF PidFileTimeout
<1>12. ASSUME NEW h \in Handles, TruncateState(h) PROVE VmInv'
  BY <1>12 DEF TruncateState
<1>13. ASSUME NEW h \in Handles, RecordLiveState(h) PROVE VmInv'
  BY <1>13 DEF RecordLiveState
<1>14. ASSUME NEW h \in Handles, RecordFails(h) PROVE VmInv'
  BY <1>14 DEF RecordFails
<1>15. ASSUME NEW h \in Handles, CheckLeaf(h) PROVE VmInv'
  BY <1>15 DEF CheckLeaf
<1>16. ASSUME NEW h \in Handles, Enroll(h) PROVE VmInv'
  BY <1>16 DEF Enroll
<1>17. ASSUME NEW h \in Handles, Prepared(h) PROVE VmInv'
  BY <1>17 DEF Prepared
<1>18. ASSUME NEW h \in Handles, LaunchFails(h) PROVE VmInv'
  BY <1>18 DEF LaunchFails
<1>19. ASSUME NEW h \in Handles, LaunchFailsKill(h) PROVE VmInv'
  BY <1>19 DEF LaunchFailsKill
<1>20. ASSUME NEW h \in Handles, FailUnlock(h) PROVE VmInv'
  BY <1>20 DEF FailUnlock
<1>21. ASSUME NEW h \in Handles, FailDir(h) PROVE VmInv'
  BY <1>21 DEF FailDir
<1>22. ASSUME NEW h \in Handles, StartFailDir(h) PROVE VmInv'
  BY <1>22 DEF StartFailDir
<1>23. ASSUME NEW h \in Handles, UnlockLast(h) PROVE VmInv'
  BY <1>23 DEF UnlockLast
<1>24. ASSUME NEW h \in Handles, PreparedKill(h) PROVE VmInv'
  BY <1>24 DEF PreparedKill
<1>25. ASSUME NEW h \in Handles, PreparedDir(h) PROVE VmInv'
  BY <1>25 DEF PreparedDir
<1>26. ASSUME NEW h \in Handles, DetachedRemove(h) PROVE VmInv'
  BY <1>26 DEF DetachedRemove
<1>27. ASSUME NEW h \in Handles, DropSandbox(h) PROVE VmInv'
  BY <1>27 DEF DropSandbox
<1>28. ASSUME NEW h \in Handles, Start(h) PROVE VmInv'
  BY <1>28 DEF Start
<1>29. ASSUME NEW h \in Handles, StartFails(h) PROVE VmInv'
  BY <1>29 DEF StartFails
<1>30. ASSUME NEW h \in Handles, DropPrepared(h) PROVE VmInv'
  BY <1>30 DEF DropPrepared
<1>31. ASSUME NEW h \in Handles, Stop(h) PROVE VmInv'
  BY <1>31 DEF Stop
<1>32. ASSUME NEW h \in Handles, StopFails(h) PROVE VmInv'
  BY <1>32 DEF StopFails
<1>33. ASSUME NEW h \in Handles, StopPmemFails(h) PROVE VmInv'
  BY <1>33 DEF StopPmemFails
<1>34. ASSUME NEW h \in Handles, ForceKillFails(h) PROVE VmInv'
  BY <1>34 DEF ForceKillFails
<1>35. ASSUME NEW h \in Handles, DropRunning(h) PROVE VmInv'
  BY <1>35 DEF DropRunning
<1>36. ASSUME NEW h \in Handles, Delete(h) PROVE VmInv'
  BY <1>36 DEF Delete
<1>37. ASSUME NEW h \in Handles, DropStopped(h) PROVE VmInv'
  BY <1>37 DEF DropStopped
<1>38. ASSUME NEW h \in Handles, DeleteTimesOut(h) PROVE VmInv'
  BY <1>38 DEF DeleteTimesOut
<1>39. ASSUME NEW p \in Procs, Recover(p) PROVE VmInv'
  BY <1>39 DEF Recover, RecoverSkip, RecoverScan, RecoverInspect, RecoverKill, RecoverStopUnit,
         RecoverPreserve, RecoverLeaf, RecoverLeafError, RecoverStaleLeaf, RecoverRemove
<1>40. ASSUME NEW h \in Handles, FirecrackerExits(h) PROVE VmInv'
  BY <1>40 DEF FirecrackerExits
<1>41. ASSUME NEW p \in Procs, StartProcess(p) PROVE VmInv'
  BY <1>41 DEF StartProcess
<1>42. ASSUME NEW p \in Procs, Crash(p) PROVE VmInv'
  BY <1>42 DEF Crash
<1>43. ASSUME AllDead \/ UNCHANGED vars PROVE VmInv'
  BY <1>43 DEF AllDead, vars
<1> HIDE DEF Types, VmInv, FailedLaunchLeavesNoVm, dirVars, vmVars, procVars, Goto, Move,
             ClearPath, ReturnPermit, Unlock, KillSucceeds, KillFails, KillBestEffort,
             HasSubtree, Abandon, RecoveryReturns, RecStep, Recovering, LockAvailable,
             PidIsAlive, Torn, Unset, Places, Unleased, Leased, Tails
<1>44. ASSUME NEW h \in Handles, Launch(h) PROVE VmInv'
  BY <1>44, <1>2, <1>3, <1>4, <1>5, <1>6, <1>7, <1>8, <1>9, <1>10, <1>11, <1>12, <1>13,
     <1>14, <1>15, <1>16, <1>17, <1>18, <1>19 DEF Launch
<1>45. ASSUME NEW h \in Handles, Unwind(h) PROVE VmInv'
  BY <1>45, <1>20, <1>21, <1>22, <1>23, <1>24, <1>25, <1>26 DEF Unwind
<1>46. ASSUME NEW h \in Handles, Use(h) PROVE VmInv'
  BY <1>46, <1>27, <1>28, <1>29, <1>30, <1>31, <1>32, <1>33, <1>34, <1>35, <1>36, <1>37,
     <1>38 DEF Use
<1> QED BY <1>1, <1>39, <1>40, <1>41, <1>42, <1>43, <1>44, <1>45, <1>46 DEF Next


\* Each return of a permit moves its handle out of HoldsPermit, and nothing else does.
LEMMA PermitStep ==
    ASSUME Types, LiveInv, PermitInv, [Next]_vars
    PROVE  PermitInv'
<1> USE NoneAssumption, BoundAssumption
    DEF HoldsPermit, dirVars, vmVars, procVars, Goto, Move, ClearPath, ReturnPermit, Unlock,
        KillSucceeds, KillFails, KillBestEffort, HasSubtree, Abandon, RecoveryReturns,
        RecStep, Recovering, LockAvailable, PidIsAlive, Torn, Unset, Places, Unleased,
        Leased, Tails
<1>1. ASSUME NEW h \in Handles, NEW p \in Procs, Admit(h, p) PROVE PermitInv'
  BY <1>1, PermitTaken
<1>2. ASSUME NEW h \in Handles, RunRootPrep(h) PROVE PermitInv'
  BY <1>2, PermitKept DEF RunRootPrep, Types
<1>3. ASSUME NEW h \in Handles, PrepFails(h) PROVE PermitInv'
  <2>1. pc[h] \in HoldsPermit /\ (\E s \in Places \ HoldsPermit : Goto(h, s))
    BY <1>3 DEF PrepFails, Types
  <2>2. ReturnPermit(h) /\ at' = at /\ proc' = proc
    BY <1>3 DEF PrepFails
  <2> QED BY <2>1, <2>2, PermitBack
<1>4. ASSUME NEW h \in Handles, CheckLock(h) PROVE PermitInv'
  BY <1>4, PermitKept DEF CheckLock, Types
<1>5. ASSUME NEW h \in Handles, LeaseRefused(h) PROVE PermitInv'
  <2>1. pc[h] \in HoldsPermit /\ (\E s \in Places \ HoldsPermit : Goto(h, s))
    BY <1>5 DEF LeaseRefused, Types
  <2>2. ReturnPermit(h) /\ at' = at /\ proc' = proc
    BY <1>5 DEF LeaseRefused
  <2> QED BY <2>1, <2>2, PermitBack
<1>6. ASSUME NEW h \in Handles, TruncateLock(h) PROVE PermitInv'
  BY <1>6, PermitKept DEF TruncateLock, Types
<1>7. ASSUME NEW h \in Handles, WriteLock(h) PROVE PermitInv'
  BY <1>7, PermitKept DEF WriteLock, Types
<1>8. ASSUME NEW h \in Handles, LeaseIoError(h) PROVE PermitInv'
  <2>1. pc[h] \in HoldsPermit /\ (\E s \in Places \ HoldsPermit : Goto(h, s))
    BY <1>8 DEF LeaseIoError, Types
  <2>2. ReturnPermit(h) /\ at' = at /\ proc' = proc
    BY <1>8 DEF LeaseIoError
  <2> QED BY <2>1, <2>2, PermitBack
<1>9. ASSUME NEW h \in Handles, Materialize(h) PROVE PermitInv'
  BY <1>9, PermitKept DEF Materialize, Types
<1>10. ASSUME NEW h \in Handles, Spawn(h) PROVE PermitInv'
  BY <1>10, PermitKept DEF Spawn, Types
<1>11. ASSUME NEW h \in Handles, PidFileTimeout(h) PROVE PermitInv'
  BY <1>11, PermitKept DEF PidFileTimeout, Types
<1>12. ASSUME NEW h \in Handles, TruncateState(h) PROVE PermitInv'
  BY <1>12, PermitKept DEF TruncateState, Types
<1>13. ASSUME NEW h \in Handles, RecordLiveState(h) PROVE PermitInv'
  BY <1>13, PermitKept DEF RecordLiveState, Types
<1>14. ASSUME NEW h \in Handles, RecordFails(h) PROVE PermitInv'
  BY <1>14, PermitKept DEF RecordFails, Types
<1>15. ASSUME NEW h \in Handles, CheckLeaf(h) PROVE PermitInv'
  BY <1>15, PermitKept DEF CheckLeaf, Types
<1>16. ASSUME NEW h \in Handles, Enroll(h) PROVE PermitInv'
  BY <1>16, PermitKept DEF Enroll, Types
<1>17. ASSUME NEW h \in Handles, Prepared(h) PROVE PermitInv'
  BY <1>17, PermitKept DEF Prepared, Types
<1>18. ASSUME NEW h \in Handles, LaunchFails(h) PROVE PermitInv'
  BY <1>18, PermitKept DEF LaunchFails, Types
<1>19. ASSUME NEW h \in Handles, LaunchFailsKill(h) PROVE PermitInv'
  BY <1>19, PermitKept DEF LaunchFailsKill, Types
<1>20. ASSUME NEW h \in Handles, FailUnlock(h) PROVE PermitInv'
  <2>1. pc[h] \in HoldsPermit /\ (\E s \in Places \ HoldsPermit : Goto(h, s))
    BY <1>20 DEF FailUnlock, Types
  <2>2. ReturnPermit(h) /\ at' = at /\ proc' = proc
    BY <1>20 DEF FailUnlock
  <2> QED BY <2>1, <2>2, PermitBack
<1>21. ASSUME NEW h \in Handles, FailDir(h) PROVE PermitInv'
  BY <1>21, PermitKept DEF FailDir, Types
<1>22. ASSUME NEW h \in Handles, StartFailDir(h) PROVE PermitInv'
  BY <1>22, PermitKept DEF StartFailDir, Types
<1>23. ASSUME NEW h \in Handles, UnlockLast(h) PROVE PermitInv'
  <2>1. pc[h] \in HoldsPermit /\ (\E s \in Places \ HoldsPermit : Goto(h, s))
    BY <1>23 DEF UnlockLast, Types
  <2>2. ReturnPermit(h) /\ at' = at /\ proc' = proc
    BY <1>23 DEF UnlockLast
  <2> QED BY <2>1, <2>2, PermitBack
<1>24. ASSUME NEW h \in Handles, PreparedKill(h) PROVE PermitInv'
  BY <1>24, PermitKept DEF PreparedKill, Types
<1>25. ASSUME NEW h \in Handles, PreparedDir(h) PROVE PermitInv'
  BY <1>25, PermitKept DEF PreparedDir, Types
<1>26. ASSUME NEW h \in Handles, DetachedRemove(h) PROVE PermitInv'
  BY <1>26, PermitKept DEF DetachedRemove, Types
<1>27. ASSUME NEW h \in Handles, DropSandbox(h) PROVE PermitInv'
  <2>1. pc[h] \in HoldsPermit /\ (\E s \in Places \ HoldsPermit : Goto(h, s))
    BY <1>27 DEF DropSandbox, Types
  <2>2. ReturnPermit(h) /\ at' = at /\ proc' = proc
    BY <1>27 DEF DropSandbox
  <2> QED BY <2>1, <2>2, PermitBack
<1>28. ASSUME NEW h \in Handles, Start(h) PROVE PermitInv'
  BY <1>28, PermitKept DEF Start, Types
<1>29. ASSUME NEW h \in Handles, StartFails(h) PROVE PermitInv'
  BY <1>29, PermitKept DEF StartFails, Types
<1>30. ASSUME NEW h \in Handles, DropPrepared(h) PROVE PermitInv'
  <2>1. pc[h] \in HoldsPermit /\ (\E s \in Places \ HoldsPermit : Goto(h, s))
    BY <1>30 DEF DropPrepared, Types
  <2>2. ReturnPermit(h) /\ at' = at /\ proc' = proc
    BY <1>30 DEF DropPrepared
  <2> QED BY <2>1, <2>2, PermitBack
<1>31. ASSUME NEW h \in Handles, Stop(h) PROVE PermitInv'
  BY <1>31, PermitKept DEF Stop, Types
<1>32. ASSUME NEW h \in Handles, StopFails(h) PROVE PermitInv'
  <2>1. pc[h] \in HoldsPermit /\ (\E s \in Places \ HoldsPermit : Goto(h, s))
    BY <1>32 DEF StopFails, Types
  <2>2. ReturnPermit(h) /\ at' = at /\ proc' = proc
    BY <1>32 DEF StopFails
  <2> QED BY <2>1, <2>2, PermitBack
<1>33. ASSUME NEW h \in Handles, StopPmemFails(h) PROVE PermitInv'
  <2>1. pc[h] \in HoldsPermit /\ (\E s \in Places \ HoldsPermit : Goto(h, s))
    BY <1>33 DEF StopPmemFails, Types
  <2>2. ReturnPermit(h) /\ at' = at /\ proc' = proc
    BY <1>33 DEF StopPmemFails
  <2> QED BY <2>1, <2>2, PermitBack
<1>34. ASSUME NEW h \in Handles, ForceKillFails(h) PROVE PermitInv'
  BY <1>34, PermitKept DEF ForceKillFails, Types
<1>35. ASSUME NEW h \in Handles, DropRunning(h) PROVE PermitInv'
  <2>1. pc[h] \in HoldsPermit /\ (\E s \in Places \ HoldsPermit : Goto(h, s))
    BY <1>35 DEF DropRunning, Types
  <2>2. ReturnPermit(h) /\ at' = at /\ proc' = proc
    BY <1>35 DEF DropRunning
  <2> QED BY <2>1, <2>2, PermitBack
<1>36. ASSUME NEW h \in Handles, Delete(h) PROVE PermitInv'
  BY <1>36, PermitKept DEF Delete, Types
<1>37. ASSUME NEW h \in Handles, DropStopped(h) PROVE PermitInv'
  <2>1. pc[h] \in HoldsPermit /\ (\E s \in Places \ HoldsPermit : Goto(h, s))
    BY <1>37 DEF DropStopped, Types
  <2>2. ReturnPermit(h) /\ at' = at /\ proc' = proc
    BY <1>37 DEF DropStopped
  <2> QED BY <2>1, <2>2, PermitBack
<1>38. ASSUME NEW h \in Handles, DeleteTimesOut(h) PROVE PermitInv'
  <2>1. pc[h] \in HoldsPermit /\ (\E s \in Places \ HoldsPermit : Goto(h, s))
    BY <1>38 DEF DeleteTimesOut, Types
  <2>2. ReturnPermit(h) /\ at' = at /\ proc' = proc
    BY <1>38 DEF DeleteTimesOut
  <2> QED BY <2>1, <2>2, PermitBack
<1>39. ASSUME NEW p \in Procs, RecoverSkip(p) PROVE PermitInv'
  BY <1>39, PermitKept DEF RecoverSkip, Types, LiveInv
<1>40. ASSUME NEW p \in Procs, RecoverScan(p) PROVE PermitInv'
  BY <1>40, PermitKept DEF RecoverScan, Types, LiveInv
<1>41. ASSUME NEW p \in Procs, RecoverInspect(p) PROVE PermitInv'
  BY <1>41, PermitKept DEF RecoverInspect, Types, LiveInv
<1>42. ASSUME NEW p \in Procs, RecoverKill(p) PROVE PermitInv'
  BY <1>42, PermitKept DEF RecoverKill, Types, LiveInv
<1>43. ASSUME NEW p \in Procs, RecoverStopUnit(p) PROVE PermitInv'
  BY <1>43, PermitKept DEF RecoverStopUnit, Types, LiveInv
<1>44. ASSUME NEW p \in Procs, RecoverPreserve(p) PROVE PermitInv'
  BY <1>44, PermitKept DEF RecoverPreserve, Types, LiveInv
<1>45. ASSUME NEW p \in Procs, RecoverLeaf(p) PROVE PermitInv'
  BY <1>45, PermitKept DEF RecoverLeaf, Types, LiveInv
<1>46. ASSUME NEW p \in Procs, RecoverLeafError(p) PROVE PermitInv'
  BY <1>46, PermitKept DEF RecoverLeafError, Types, LiveInv
<1>47. ASSUME NEW p \in Procs, RecoverStaleLeaf(p) PROVE PermitInv'
  BY <1>47, PermitKept DEF RecoverStaleLeaf, Types, LiveInv
<1>48. ASSUME NEW p \in Procs, RecoverRemove(p) PROVE PermitInv'
  BY <1>48, PermitKept DEF RecoverRemove, Types, LiveInv
<1>49. ASSUME NEW h \in Handles, FirecrackerExits(h) PROVE PermitInv'
  BY <1>49, PermitKept DEF FirecrackerExits
<1>50. ASSUME NEW p \in Procs, StartProcess(p) PROVE PermitInv'
  BY <1>50, PermitKept DEF StartProcess, Types
<1>51. ASSUME NEW p \in Procs, Crash(p) PROVE PermitInv'
  BY <1>51, PermitLost
<1>52. ASSUME AllDead \/ UNCHANGED vars PROVE PermitInv'
  BY <1>52, PermitKept DEF AllDead, vars
<1> HIDE DEF HoldsPermit, dirVars, vmVars, procVars, Goto, Move, ClearPath, ReturnPermit,
             Unlock, KillSucceeds, KillFails, KillBestEffort, HasSubtree, Abandon,
             RecoveryReturns, RecStep, Recovering, LockAvailable, PidIsAlive, Torn, Unset,
             Places, Unleased, Leased, Tails
<1>53. ASSUME NEW h \in Handles, Launch(h) PROVE PermitInv'
  BY <1>53, <1>2, <1>3, <1>4, <1>5, <1>6, <1>7, <1>8, <1>9, <1>10, <1>11, <1>12, <1>13,
     <1>14, <1>15, <1>16, <1>17, <1>18, <1>19 DEF Launch
<1>54. ASSUME NEW h \in Handles, Unwind(h) PROVE PermitInv'
  BY <1>54, <1>20, <1>21, <1>22, <1>23, <1>24, <1>25, <1>26 DEF Unwind
<1>55. ASSUME NEW h \in Handles, Use(h) PROVE PermitInv'
  BY <1>55, <1>27, <1>28, <1>29, <1>30, <1>31, <1>32, <1>33, <1>34, <1>35, <1>36, <1>37,
     <1>38 DEF Use
<1>56. ASSUME NEW p \in Procs, Recover(p) PROVE PermitInv'
  BY <1>56, <1>39, <1>40, <1>41, <1>42, <1>43, <1>44, <1>45, <1>46, <1>47, <1>48 DEF Recover
<1> QED BY <1>1, <1>49, <1>50, <1>51, <1>52, <1>53, <1>54, <1>55, <1>56 DEF Next


\* Admit waits for the last handle and its detached removal.
LEMMA SoleStep ==
    ASSUME ~SharedId, Types, SoleInv, [Next]_vars
    PROVE  SoleInv'
<1> USE NoneAssumption, BoundAssumption
    DEF Types, SoleInv, dirVars, vmVars, procVars, Goto, Move, ClearPath, ReturnPermit,
        Unlock, KillSucceeds, KillFails, KillBestEffort, HasSubtree, Abandon,
        RecoveryReturns, RecStep, Recovering, LockAvailable, PidIsAlive, Torn, Unset,
        Places, Unleased, Leased, Tails
<1>1. ASSUME NEW h \in Handles, NEW p \in Procs, Admit(h, p) PROVE SoleInv'
  BY <1>1 DEF Admit
<1>2. ASSUME NEW h \in Handles, Launch(h) PROVE SoleInv'
  BY <1>2 DEF Launch, RunRootPrep, PrepFails, CheckLock, LeaseRefused, TruncateLock, WriteLock,
         LeaseIoError, Materialize, Spawn, PidFileTimeout, TruncateState, RecordLiveState,
         RecordFails, CheckLeaf, Enroll, Prepared, LaunchFails, LaunchFailsKill
<1>3. ASSUME NEW h \in Handles, Unwind(h) PROVE SoleInv'
  BY <1>3 DEF Unwind, FailUnlock, FailDir, StartFailDir, UnlockLast, PreparedKill, PreparedDir,
         DetachedRemove
<1>4. ASSUME NEW h \in Handles, Use(h) PROVE SoleInv'
  BY <1>4 DEF Use, DropSandbox, Start, StartFails, DropPrepared, Stop, StopFails, StopPmemFails,
         ForceKillFails, DropRunning, Delete, DropStopped, DeleteTimesOut
<1>5. ASSUME NEW p \in Procs, Recover(p) PROVE SoleInv'
  BY <1>5 DEF Recover, RecoverSkip, RecoverScan, RecoverInspect, RecoverKill, RecoverStopUnit,
         RecoverPreserve, RecoverLeaf, RecoverLeafError, RecoverStaleLeaf, RecoverRemove
<1>6. ASSUME NEW h \in Handles, FirecrackerExits(h) PROVE SoleInv'
  BY <1>6 DEF FirecrackerExits
<1>7. ASSUME NEW p \in Procs, StartProcess(p) PROVE SoleInv'
  BY <1>7 DEF StartProcess
<1>8. ASSUME NEW p \in Procs, Crash(p) PROVE SoleInv'
  BY <1>8 DEF Crash
<1>9. ASSUME AllDead \/ UNCHANGED vars PROVE SoleInv'
  BY <1>9 DEF AllDead, vars
<1> HIDE DEF Types, SoleInv, dirVars, vmVars, procVars, Goto, Move, ClearPath, ReturnPermit,
             Unlock, KillSucceeds, KillFails, KillBestEffort, HasSubtree, Abandon,
             RecoveryReturns, RecStep, Recovering, LockAvailable, PidIsAlive, Torn, Unset,
             Places, Unleased, Leased, Tails
<1> QED BY <1>1, <1>2, <1>3, <1>4, <1>5, <1>6, <1>7, <1>8, <1>9 DEF Next


\* Only the sole handle enrolls, into the leaf that CheckLeaf found empty.
LEMMA LeafStep ==
    ASSUME Types, VmInv, SoleInv, LeafInv, [Next]_vars
    PROVE  LeafInv'
<1> USE NoneAssumption, BoundAssumption
    DEF Types, VmInv, SoleInv, LeafInv, dirVars, vmVars, procVars, Goto, Move, ClearPath,
        ReturnPermit, Unlock, KillSucceeds, KillFails, KillBestEffort, HasSubtree, Abandon,
        RecoveryReturns, RecStep, Recovering, LockAvailable, PidIsAlive, Torn, Unset,
        Places, Unleased, Leased, Tails
<1>1. ASSUME NEW h \in Handles, NEW p \in Procs, Admit(h, p) PROVE LeafInv'
  BY <1>1 DEF Admit
<1>2. ASSUME NEW h \in Handles, Launch(h) PROVE LeafInv'
  BY <1>2 DEF Launch, RunRootPrep, PrepFails, CheckLock, LeaseRefused, TruncateLock, WriteLock,
         LeaseIoError, Materialize, Spawn, PidFileTimeout, TruncateState, RecordLiveState,
         RecordFails, CheckLeaf, Enroll, Prepared, LaunchFails, LaunchFailsKill
<1>3. ASSUME NEW h \in Handles, Unwind(h) PROVE LeafInv'
  BY <1>3 DEF Unwind, FailUnlock, FailDir, StartFailDir, UnlockLast, PreparedKill, PreparedDir,
         DetachedRemove
<1>4. ASSUME NEW h \in Handles, Use(h) PROVE LeafInv'
  BY <1>4 DEF Use, DropSandbox, Start, StartFails, DropPrepared, Stop, StopFails, StopPmemFails,
         ForceKillFails, DropRunning, Delete, DropStopped, DeleteTimesOut
<1>5. ASSUME NEW p \in Procs, Recover(p) PROVE LeafInv'
  BY <1>5 DEF Recover, RecoverSkip, RecoverScan, RecoverInspect, RecoverKill, RecoverStopUnit,
         RecoverPreserve, RecoverLeaf, RecoverLeafError, RecoverStaleLeaf, RecoverRemove
<1>6. ASSUME NEW h \in Handles, FirecrackerExits(h) PROVE LeafInv'
  BY <1>6 DEF FirecrackerExits
<1>7. ASSUME NEW p \in Procs, StartProcess(p) PROVE LeafInv'
  BY <1>7 DEF StartProcess
<1>8. ASSUME NEW p \in Procs, Crash(p) PROVE LeafInv'
  BY <1>8 DEF Crash
<1>9. ASSUME AllDead \/ UNCHANGED vars PROVE LeafInv'
  BY <1>9 DEF AllDead, vars
<1> HIDE DEF Types, VmInv, SoleInv, LeafInv, dirVars, vmVars, procVars, Goto, Move,
             ClearPath, ReturnPermit, Unlock, KillSucceeds, KillFails, KillBestEffort,
             HasSubtree, Abandon, RecoveryReturns, RecStep, Recovering, LockAvailable,
             PidIsAlive, Torn, Unset, Places, Unleased, Leased, Tails
<1> QED BY <1>1, <1>2, <1>3, <1>4, <1>5, <1>6, <1>7, <1>8, <1>9 DEF Next


\* One process is alive, and a recovery pass means that it is still starting.
LEMMA StartupStep ==
    ASSUME Resident, Types, LiveInv, StartupInv, [Next]_vars
    PROVE  StartupInv'
<1> USE NoneAssumption, BoundAssumption
    DEF Resident, Types, StartupInv, dirVars, vmVars, procVars, Goto, Move, ClearPath,
        ReturnPermit, Unlock, KillSucceeds, KillFails, KillBestEffort, HasSubtree, Abandon,
        RecoveryReturns, RecStep, Recovering, LockAvailable, PidIsAlive, Torn, Unset,
        Places, Unleased, Leased, Tails
<1>1. ASSUME NEW h \in Handles, NEW p \in Procs, Admit(h, p) PROVE StartupInv'
  BY <1>1 DEF Admit
<1>2. ASSUME NEW h \in Handles, Launch(h) PROVE StartupInv'
  BY <1>2 DEF Launch, RunRootPrep, PrepFails, CheckLock, LeaseRefused, TruncateLock, WriteLock,
         LeaseIoError, Materialize, Spawn, PidFileTimeout, TruncateState, RecordLiveState,
         RecordFails, CheckLeaf, Enroll, Prepared, LaunchFails, LaunchFailsKill
<1>3. ASSUME NEW h \in Handles, Unwind(h) PROVE StartupInv'
  BY <1>3 DEF Unwind, FailUnlock, FailDir, StartFailDir, UnlockLast, PreparedKill, PreparedDir,
         DetachedRemove
<1>4. ASSUME NEW h \in Handles, Use(h) PROVE StartupInv'
  BY <1>4 DEF Use, DropSandbox, Start, StartFails, DropPrepared, Stop, StopFails, StopPmemFails,
         ForceKillFails, DropRunning, Delete, DropStopped, DeleteTimesOut
<1>5. ASSUME NEW p \in Procs, Recover(p) PROVE StartupInv'
  BY <1>5 DEF Recover, RecoverSkip, RecoverScan, RecoverInspect, RecoverKill, RecoverStopUnit,
         RecoverPreserve, RecoverLeaf, RecoverLeafError, RecoverStaleLeaf, RecoverRemove
<1>6. ASSUME NEW h \in Handles, FirecrackerExits(h) PROVE StartupInv'
  BY <1>6 DEF FirecrackerExits
<1>7. ASSUME NEW p \in Procs, StartProcess(p) PROVE StartupInv'
  BY <1>7 DEF StartProcess
<1>8. ASSUME NEW p \in Procs, Crash(p) PROVE StartupInv'
  BY <1>8 DEF Crash
<1>9. ASSUME AllDead \/ UNCHANGED vars PROVE StartupInv'
  BY <1>9 DEF AllDead, vars
<1> HIDE DEF Resident, Types, StartupInv, dirVars, vmVars, procVars, Goto, Move, ClearPath,
             ReturnPermit, Unlock, KillSucceeds, KillFails, KillBestEffort, HasSubtree,
             Abandon, RecoveryReturns, RecStep, Recovering, LockAvailable, PidIsAlive, Torn,
             Unset, Places, Unleased, Leased, Tails
<1> QED BY <1>1, <1>2, <1>3, <1>4, <1>5, <1>6, <1>7, <1>8, <1>9 DEF Next


\* Removals belong to the sole handle or to a pass, and during a pass there is no handle.
LEMMA OwnerStep ==
    ASSUME Resident, Types, LiveInv, SoleInv, StartupInv, OwnerInv, [Next]_vars
    PROVE  OwnerInv'
<1> USE NoneAssumption, BoundAssumption
    DEF Types, LiveInv, SoleInv, StartupInv, OwnerInv, Owns, dirVars, vmVars, procVars,
        Goto, Move, ClearPath, ReturnPermit, Unlock, KillSucceeds, KillFails,
        KillBestEffort, HasSubtree, Abandon, RecoveryReturns, RecStep, Recovering,
        LockAvailable, PidIsAlive, Torn, Unset, Places, Unleased, Leased, Tails
<1>1. ASSUME NEW h \in Handles, NEW p \in Procs, Admit(h, p) PROVE OwnerInv'
  BY <1>1 DEF Admit
<1>2. ASSUME NEW h \in Handles, RunRootPrep(h) PROVE OwnerInv'
  BY <1>2 DEF RunRootPrep
<1>3. ASSUME NEW h \in Handles, PrepFails(h) PROVE OwnerInv'
  BY <1>3 DEF PrepFails
<1>4. ASSUME NEW h \in Handles, CheckLock(h) PROVE OwnerInv'
  BY <1>4 DEF CheckLock
<1>5. ASSUME NEW h \in Handles, LeaseRefused(h) PROVE OwnerInv'
  BY <1>5 DEF LeaseRefused
<1>6. ASSUME NEW h \in Handles, TruncateLock(h) PROVE OwnerInv'
  BY <1>6 DEF TruncateLock
<1>7. ASSUME NEW h \in Handles, WriteLock(h) PROVE OwnerInv'
  BY <1>7 DEF WriteLock
<1>8. ASSUME NEW h \in Handles, LeaseIoError(h) PROVE OwnerInv'
  BY <1>8 DEF LeaseIoError
<1>9. ASSUME NEW h \in Handles, Materialize(h) PROVE OwnerInv'
  BY <1>9 DEF Materialize
<1>10. ASSUME NEW h \in Handles, Spawn(h) PROVE OwnerInv'
  BY <1>10 DEF Spawn
<1>11. ASSUME NEW h \in Handles, PidFileTimeout(h) PROVE OwnerInv'
  BY <1>11 DEF PidFileTimeout
<1>12. ASSUME NEW h \in Handles, TruncateState(h) PROVE OwnerInv'
  BY <1>12 DEF TruncateState
<1>13. ASSUME NEW h \in Handles, RecordLiveState(h) PROVE OwnerInv'
  BY <1>13 DEF RecordLiveState
<1>14. ASSUME NEW h \in Handles, RecordFails(h) PROVE OwnerInv'
  BY <1>14 DEF RecordFails
<1>15. ASSUME NEW h \in Handles, CheckLeaf(h) PROVE OwnerInv'
  BY <1>15 DEF CheckLeaf
<1>16. ASSUME NEW h \in Handles, Enroll(h) PROVE OwnerInv'
  BY <1>16 DEF Enroll
<1>17. ASSUME NEW h \in Handles, Prepared(h) PROVE OwnerInv'
  BY <1>17 DEF Prepared
<1>18. ASSUME NEW h \in Handles, LaunchFails(h) PROVE OwnerInv'
  BY <1>18 DEF LaunchFails
<1>19. ASSUME NEW h \in Handles, LaunchFailsKill(h) PROVE OwnerInv'
  BY <1>19 DEF LaunchFailsKill
<1>20. ASSUME NEW h \in Handles, FailUnlock(h) PROVE OwnerInv'
  BY <1>20 DEF FailUnlock
<1>21. ASSUME NEW h \in Handles, FailDir(h) PROVE OwnerInv'
  BY <1>21 DEF FailDir
<1>22. ASSUME NEW h \in Handles, StartFailDir(h) PROVE OwnerInv'
  BY <1>22 DEF StartFailDir
<1>23. ASSUME NEW h \in Handles, UnlockLast(h) PROVE OwnerInv'
  BY <1>23 DEF UnlockLast
<1>24. ASSUME NEW h \in Handles, PreparedKill(h) PROVE OwnerInv'
  BY <1>24 DEF PreparedKill
<1>25. ASSUME NEW h \in Handles, PreparedDir(h) PROVE OwnerInv'
  BY <1>25 DEF PreparedDir
<1>26. ASSUME NEW h \in Handles, DetachedRemove(h) PROVE OwnerInv'
  BY <1>26 DEF DetachedRemove
<1>27. ASSUME NEW h \in Handles, DropSandbox(h) PROVE OwnerInv'
  BY <1>27 DEF DropSandbox
<1>28. ASSUME NEW h \in Handles, Start(h) PROVE OwnerInv'
  BY <1>28 DEF Start
<1>29. ASSUME NEW h \in Handles, StartFails(h) PROVE OwnerInv'
  BY <1>29 DEF StartFails
<1>30. ASSUME NEW h \in Handles, DropPrepared(h) PROVE OwnerInv'
  BY <1>30 DEF DropPrepared
<1>31. ASSUME NEW h \in Handles, Stop(h) PROVE OwnerInv'
  BY <1>31 DEF Stop
<1>32. ASSUME NEW h \in Handles, StopFails(h) PROVE OwnerInv'
  BY <1>32 DEF StopFails
<1>33. ASSUME NEW h \in Handles, StopPmemFails(h) PROVE OwnerInv'
  BY <1>33 DEF StopPmemFails
<1>34. ASSUME NEW h \in Handles, ForceKillFails(h) PROVE OwnerInv'
  BY <1>34 DEF ForceKillFails
<1>35. ASSUME NEW h \in Handles, DropRunning(h) PROVE OwnerInv'
  BY <1>35 DEF DropRunning
<1>36. ASSUME NEW h \in Handles, Delete(h) PROVE OwnerInv'
  BY <1>36 DEF Delete
<1>37. ASSUME NEW h \in Handles, DropStopped(h) PROVE OwnerInv'
  BY <1>37 DEF DropStopped
<1>38. ASSUME NEW h \in Handles, DeleteTimesOut(h) PROVE OwnerInv'
  BY <1>38 DEF DeleteTimesOut
<1>39. ASSUME NEW p \in Procs, RecoverSkip(p) PROVE OwnerInv'
  BY <1>39 DEF RecoverSkip
<1>40. ASSUME NEW p \in Procs, RecoverScan(p) PROVE OwnerInv'
  BY <1>40 DEF RecoverScan
<1>41. ASSUME NEW p \in Procs, RecoverInspect(p) PROVE OwnerInv'
  BY <1>41 DEF RecoverInspect
<1>42. ASSUME NEW p \in Procs, RecoverKill(p) PROVE OwnerInv'
  BY <1>42 DEF RecoverKill
<1>43. ASSUME NEW p \in Procs, RecoverStopUnit(p) PROVE OwnerInv'
  BY <1>43 DEF RecoverStopUnit
<1>44. ASSUME NEW p \in Procs, RecoverPreserve(p) PROVE OwnerInv'
  BY <1>44 DEF RecoverPreserve
<1>45. ASSUME NEW p \in Procs, RecoverLeaf(p) PROVE OwnerInv'
  BY <1>45 DEF RecoverLeaf
<1>46. ASSUME NEW p \in Procs, RecoverLeafError(p) PROVE OwnerInv'
  BY <1>46 DEF RecoverLeafError
<1>47. ASSUME NEW p \in Procs, RecoverStaleLeaf(p) PROVE OwnerInv'
  BY <1>47 DEF RecoverStaleLeaf
<1>48. ASSUME NEW p \in Procs, RecoverRemove(p) PROVE OwnerInv'
  BY <1>48 DEF RecoverRemove
<1>49. ASSUME NEW h \in Handles, FirecrackerExits(h) PROVE OwnerInv'
  BY <1>49 DEF FirecrackerExits
<1>50. ASSUME NEW p \in Procs, StartProcess(p) PROVE OwnerInv'
  BY <1>50 DEF StartProcess
<1>51. ASSUME NEW p \in Procs, Crash(p) PROVE OwnerInv'
  BY <1>51 DEF Crash
<1>52. ASSUME AllDead \/ UNCHANGED vars PROVE OwnerInv'
  BY <1>52 DEF AllDead, vars
<1> HIDE DEF Types, LiveInv, SoleInv, StartupInv, OwnerInv, Owns, dirVars, vmVars, procVars,
             Goto, Move, ClearPath, ReturnPermit, Unlock, KillSucceeds, KillFails,
             KillBestEffort, HasSubtree, Abandon, RecoveryReturns, RecStep, Recovering,
             LockAvailable, PidIsAlive, Torn, Unset, Places, Unleased, Leased, Tails
<1>53. ASSUME NEW h \in Handles, Launch(h) PROVE OwnerInv'
  BY <1>53, <1>2, <1>3, <1>4, <1>5, <1>6, <1>7, <1>8, <1>9, <1>10, <1>11, <1>12, <1>13,
     <1>14, <1>15, <1>16, <1>17, <1>18, <1>19 DEF Launch
<1>54. ASSUME NEW h \in Handles, Unwind(h) PROVE OwnerInv'
  BY <1>54, <1>20, <1>21, <1>22, <1>23, <1>24, <1>25, <1>26 DEF Unwind
<1>55. ASSUME NEW h \in Handles, Use(h) PROVE OwnerInv'
  BY <1>55, <1>27, <1>28, <1>29, <1>30, <1>31, <1>32, <1>33, <1>34, <1>35, <1>36, <1>37,
     <1>38 DEF Use
<1>56. ASSUME NEW p \in Procs, Recover(p) PROVE OwnerInv'
  BY <1>56, <1>39, <1>40, <1>41, <1>42, <1>43, <1>44, <1>45, <1>46, <1>47, <1>48 DEF Recover
<1> QED BY <1>1, <1>49, <1>50, <1>51, <1>52, <1>53, <1>54, <1>55, <1>56 DEF Next


\* A crash leaves an enrolled process with its recorded pids behind the lock of a dead
\* process; the startup pass does not skip it, and kills it before it goes on.
LEMMA TraceStep ==
    ASSUME Resident, Types, LiveInv, VmInv, SoleInv, LeafInv, StartupInv, OwnerInv,
           TraceInv, [Next]_vars
    PROVE  TraceInv'
<1> USE NoneAssumption, BoundAssumption
    DEF Types, LiveInv, VmInv, SoleInv, LeafInv, StartupInv, OwnerInv, Owns, TraceInv,
        dirVars, vmVars, procVars, Goto, Move, ClearPath, ReturnPermit, Unlock,
        KillSucceeds, KillFails, KillBestEffort, HasSubtree, Abandon, RecoveryReturns,
        RecStep, Recovering, LockAvailable, PidIsAlive, Torn, Unset, Places, Unleased,
        Leased, Tails
<1>1. ASSUME NEW h \in Handles, NEW p \in Procs, Admit(h, p) PROVE TraceInv'
  BY <1>1 DEF Admit
<1>2. ASSUME NEW h \in Handles, RunRootPrep(h) PROVE TraceInv'
  BY <1>2 DEF RunRootPrep
<1>3. ASSUME NEW h \in Handles, PrepFails(h) PROVE TraceInv'
  BY <1>3 DEF PrepFails
<1>4. ASSUME NEW h \in Handles, CheckLock(h) PROVE TraceInv'
  BY <1>4 DEF CheckLock
<1>5. ASSUME NEW h \in Handles, LeaseRefused(h) PROVE TraceInv'
  BY <1>5 DEF LeaseRefused
<1>6. ASSUME NEW h \in Handles, TruncateLock(h) PROVE TraceInv'
  BY <1>6 DEF TruncateLock
<1>7. ASSUME NEW h \in Handles, WriteLock(h) PROVE TraceInv'
  BY <1>7 DEF WriteLock
<1>8. ASSUME NEW h \in Handles, LeaseIoError(h) PROVE TraceInv'
  BY <1>8 DEF LeaseIoError
<1>9. ASSUME NEW h \in Handles, Materialize(h) PROVE TraceInv'
  BY <1>9 DEF Materialize
<1>10. ASSUME NEW h \in Handles, Spawn(h) PROVE TraceInv'
  BY <1>10 DEF Spawn
<1>11. ASSUME NEW h \in Handles, PidFileTimeout(h) PROVE TraceInv'
  BY <1>11 DEF PidFileTimeout
<1>12. ASSUME NEW h \in Handles, TruncateState(h) PROVE TraceInv'
  BY <1>12 DEF TruncateState
<1>13. ASSUME NEW h \in Handles, RecordLiveState(h) PROVE TraceInv'
  BY <1>13 DEF RecordLiveState
<1>14. ASSUME NEW h \in Handles, RecordFails(h) PROVE TraceInv'
  BY <1>14 DEF RecordFails
<1>15. ASSUME NEW h \in Handles, CheckLeaf(h) PROVE TraceInv'
  BY <1>15 DEF CheckLeaf
<1>16. ASSUME NEW h \in Handles, Enroll(h) PROVE TraceInv'
  BY <1>16 DEF Enroll
<1>17. ASSUME NEW h \in Handles, Prepared(h) PROVE TraceInv'
  BY <1>17 DEF Prepared
<1>18. ASSUME NEW h \in Handles, LaunchFails(h) PROVE TraceInv'
  BY <1>18 DEF LaunchFails
<1>19. ASSUME NEW h \in Handles, LaunchFailsKill(h) PROVE TraceInv'
  BY <1>19 DEF LaunchFailsKill
<1>20. ASSUME NEW h \in Handles, FailUnlock(h) PROVE TraceInv'
  BY <1>20 DEF FailUnlock
<1>21. ASSUME NEW h \in Handles, FailDir(h) PROVE TraceInv'
  BY <1>21 DEF FailDir
<1>22. ASSUME NEW h \in Handles, StartFailDir(h) PROVE TraceInv'
  BY <1>22 DEF StartFailDir
<1>23. ASSUME NEW h \in Handles, UnlockLast(h) PROVE TraceInv'
  BY <1>23 DEF UnlockLast
<1>24. ASSUME NEW h \in Handles, PreparedKill(h) PROVE TraceInv'
  BY <1>24 DEF PreparedKill
<1>25. ASSUME NEW h \in Handles, PreparedDir(h) PROVE TraceInv'
  BY <1>25 DEF PreparedDir
<1>26. ASSUME NEW h \in Handles, DetachedRemove(h) PROVE TraceInv'
  BY <1>26 DEF DetachedRemove
<1>27. ASSUME NEW h \in Handles, DropSandbox(h) PROVE TraceInv'
  BY <1>27 DEF DropSandbox
<1>28. ASSUME NEW h \in Handles, Start(h) PROVE TraceInv'
  BY <1>28 DEF Start
<1>29. ASSUME NEW h \in Handles, StartFails(h) PROVE TraceInv'
  BY <1>29 DEF StartFails
<1>30. ASSUME NEW h \in Handles, DropPrepared(h) PROVE TraceInv'
  BY <1>30 DEF DropPrepared
<1>31. ASSUME NEW h \in Handles, Stop(h) PROVE TraceInv'
  BY <1>31 DEF Stop
<1>32. ASSUME NEW h \in Handles, StopFails(h) PROVE TraceInv'
  BY <1>32 DEF StopFails
<1>33. ASSUME NEW h \in Handles, StopPmemFails(h) PROVE TraceInv'
  BY <1>33 DEF StopPmemFails
<1>34. ASSUME NEW h \in Handles, ForceKillFails(h) PROVE TraceInv'
  BY <1>34 DEF ForceKillFails
<1>35. ASSUME NEW h \in Handles, DropRunning(h) PROVE TraceInv'
  BY <1>35 DEF DropRunning
<1>36. ASSUME NEW h \in Handles, Delete(h) PROVE TraceInv'
  BY <1>36 DEF Delete
<1>37. ASSUME NEW h \in Handles, DropStopped(h) PROVE TraceInv'
  BY <1>37 DEF DropStopped
<1>38. ASSUME NEW h \in Handles, DeleteTimesOut(h) PROVE TraceInv'
  BY <1>38 DEF DeleteTimesOut
<1>39. ASSUME NEW p \in Procs, RecoverSkip(p) PROVE TraceInv'
  BY <1>39 DEF RecoverSkip
<1>40. ASSUME NEW p \in Procs, RecoverScan(p) PROVE TraceInv'
  BY <1>40 DEF RecoverScan
<1>41. ASSUME NEW p \in Procs, RecoverInspect(p) PROVE TraceInv'
  BY <1>41 DEF RecoverInspect
<1>42. ASSUME NEW p \in Procs, RecoverKill(p) PROVE TraceInv'
  BY <1>42 DEF RecoverKill
<1>43. ASSUME NEW p \in Procs, RecoverStopUnit(p) PROVE TraceInv'
  BY <1>43 DEF RecoverStopUnit
<1>44. ASSUME NEW p \in Procs, RecoverPreserve(p) PROVE TraceInv'
  BY <1>44 DEF RecoverPreserve
<1>45. ASSUME NEW p \in Procs, RecoverLeaf(p) PROVE TraceInv'
  BY <1>45 DEF RecoverLeaf
<1>46. ASSUME NEW p \in Procs, RecoverLeafError(p) PROVE TraceInv'
  BY <1>46 DEF RecoverLeafError
<1>47. ASSUME NEW p \in Procs, RecoverStaleLeaf(p) PROVE TraceInv'
  BY <1>47 DEF RecoverStaleLeaf
<1>48. ASSUME NEW p \in Procs, RecoverRemove(p) PROVE TraceInv'
  BY <1>48 DEF RecoverRemove
<1>49. ASSUME NEW h \in Handles, FirecrackerExits(h) PROVE TraceInv'
  BY <1>49 DEF FirecrackerExits
<1>50. ASSUME NEW p \in Procs, StartProcess(p) PROVE TraceInv'
  BY <1>50 DEF StartProcess
<1>51. ASSUME NEW p \in Procs, Crash(p) PROVE TraceInv'
  BY <1>51 DEF Crash
<1>52. ASSUME AllDead \/ UNCHANGED vars PROVE TraceInv'
  BY <1>52 DEF AllDead, vars
<1> HIDE DEF Types, LiveInv, VmInv, SoleInv, LeafInv, StartupInv, OwnerInv, Owns, TraceInv,
             dirVars, vmVars, procVars, Goto, Move, ClearPath, ReturnPermit, Unlock,
             KillSucceeds, KillFails, KillBestEffort, HasSubtree, Abandon, RecoveryReturns,
             RecStep, Recovering, LockAvailable, PidIsAlive, Torn, Unset, Places, Unleased,
             Leased, Tails
<1>53. ASSUME NEW h \in Handles, Launch(h) PROVE TraceInv'
  BY <1>53, <1>2, <1>3, <1>4, <1>5, <1>6, <1>7, <1>8, <1>9, <1>10, <1>11, <1>12, <1>13,
     <1>14, <1>15, <1>16, <1>17, <1>18, <1>19 DEF Launch
<1>54. ASSUME NEW h \in Handles, Unwind(h) PROVE TraceInv'
  BY <1>54, <1>20, <1>21, <1>22, <1>23, <1>24, <1>25, <1>26 DEF Unwind
<1>55. ASSUME NEW h \in Handles, Use(h) PROVE TraceInv'
  BY <1>55, <1>27, <1>28, <1>29, <1>30, <1>31, <1>32, <1>33, <1>34, <1>35, <1>36, <1>37,
     <1>38 DEF Use
<1>56. ASSUME NEW p \in Procs, Recover(p) PROVE TraceInv'
  BY <1>56, <1>39, <1>40, <1>41, <1>42, <1>43, <1>44, <1>45, <1>46, <1>47, <1>48 DEF Recover
<1> QED BY <1>1, <1>49, <1>50, <1>51, <1>52, <1>53, <1>54, <1>55, <1>56 DEF Next


\* A pass gets past a leaf with live processes only after a failed kill and an unreadable
\* leaf, which are two failures.
LEMMA EvidenceStep ==
    ASSUME Types, LiveInv, VmInv, StartupInv, TraceInv, RecoveryKeepsEvidence, [Next]_vars
    PROVE  RecoveryKeepsEvidence'
<1> USE NoneAssumption, BoundAssumption
    DEF Types, LiveInv, VmInv, StartupInv, TraceInv, RecoveryKeepsEvidence, dirVars, vmVars,
        procVars, Goto, Move, ClearPath, ReturnPermit, Unlock, KillSucceeds, KillFails,
        KillBestEffort, HasSubtree, Abandon, RecoveryReturns, RecStep, Recovering,
        LockAvailable, PidIsAlive, Torn, Unset, Places, Unleased, Leased, Tails
<1>1. ASSUME NEW h \in Handles, NEW p \in Procs, Admit(h, p) PROVE RecoveryKeepsEvidence'
  BY <1>1 DEF Admit
<1>2. ASSUME NEW h \in Handles, Launch(h) PROVE RecoveryKeepsEvidence'
  BY <1>2 DEF Launch, RunRootPrep, PrepFails, CheckLock, LeaseRefused, TruncateLock, WriteLock,
         LeaseIoError, Materialize, Spawn, PidFileTimeout, TruncateState, RecordLiveState,
         RecordFails, CheckLeaf, Enroll, Prepared, LaunchFails, LaunchFailsKill
<1>3. ASSUME NEW h \in Handles, Unwind(h) PROVE RecoveryKeepsEvidence'
  BY <1>3 DEF Unwind, FailUnlock, FailDir, StartFailDir, UnlockLast, PreparedKill, PreparedDir,
         DetachedRemove
<1>4. ASSUME NEW h \in Handles, Use(h) PROVE RecoveryKeepsEvidence'
  BY <1>4 DEF Use, DropSandbox, Start, StartFails, DropPrepared, Stop, StopFails, StopPmemFails,
         ForceKillFails, DropRunning, Delete, DropStopped, DeleteTimesOut
<1>5. ASSUME NEW p \in Procs, RecoverSkip(p) PROVE RecoveryKeepsEvidence'
  BY <1>5 DEF RecoverSkip
<1>6. ASSUME NEW p \in Procs, RecoverScan(p) PROVE RecoveryKeepsEvidence'
  BY <1>6 DEF RecoverScan
<1>7. ASSUME NEW p \in Procs, RecoverInspect(p) PROVE RecoveryKeepsEvidence'
  BY <1>7 DEF RecoverInspect
<1>8. ASSUME NEW p \in Procs, RecoverKill(p) PROVE RecoveryKeepsEvidence'
  BY <1>8 DEF RecoverKill
<1>9. ASSUME NEW p \in Procs, RecoverStopUnit(p) PROVE RecoveryKeepsEvidence'
  BY <1>9 DEF RecoverStopUnit
<1>10. ASSUME NEW p \in Procs, RecoverPreserve(p) PROVE RecoveryKeepsEvidence'
  BY <1>10 DEF RecoverPreserve
<1>11. ASSUME NEW p \in Procs, RecoverLeaf(p) PROVE RecoveryKeepsEvidence'
  BY <1>11 DEF RecoverLeaf
<1>12. ASSUME NEW p \in Procs, RecoverLeafError(p) PROVE RecoveryKeepsEvidence'
  BY <1>12 DEF RecoverLeafError
<1>13. ASSUME NEW p \in Procs, RecoverStaleLeaf(p) PROVE RecoveryKeepsEvidence'
  BY <1>13 DEF RecoverStaleLeaf
<1>14. ASSUME NEW p \in Procs, RecoverRemove(p) PROVE RecoveryKeepsEvidence'
  BY <1>14 DEF RecoverRemove
<1>15. ASSUME NEW h \in Handles, FirecrackerExits(h) PROVE RecoveryKeepsEvidence'
  BY <1>15 DEF FirecrackerExits
<1>16. ASSUME NEW p \in Procs, StartProcess(p) PROVE RecoveryKeepsEvidence'
  BY <1>16 DEF StartProcess
<1>17. ASSUME NEW p \in Procs, Crash(p) PROVE RecoveryKeepsEvidence'
  BY <1>17 DEF Crash
<1>18. ASSUME AllDead \/ UNCHANGED vars PROVE RecoveryKeepsEvidence'
  BY <1>18 DEF AllDead, vars
<1> HIDE DEF Types, LiveInv, VmInv, StartupInv, TraceInv, RecoveryKeepsEvidence, dirVars,
             vmVars, procVars, Goto, Move, ClearPath, ReturnPermit, Unlock, KillSucceeds,
             KillFails, KillBestEffort, HasSubtree, Abandon, RecoveryReturns, RecStep,
             Recovering, LockAvailable, PidIsAlive, Torn, Unset, Places, Unleased, Leased,
             Tails
<1>19. ASSUME NEW p \in Procs, Recover(p) PROVE RecoveryKeepsEvidence'
  BY <1>19, <1>5, <1>6, <1>7, <1>8, <1>9, <1>10, <1>11, <1>12, <1>13, <1>14 DEF Recover
<1> QED BY <1>1, <1>2, <1>3, <1>4, <1>15, <1>16, <1>17, <1>18, <1>19 DEF Next


-----------------------------------------------------------------------------
(* The theorems.                                                           *)

\* At the start there is no directory, no handle and no process.
LEMMA InitInv == Init => Inv /\ ResidentInv
<1> SUFFICES ASSUME Init PROVE Inv /\ ResidentInv
    OBVIOUS
<1> USE NoneAssumption, BoundAssumption DEF Init
<1>1. Types /\ LiveInv /\ VmInv
  BY DEF Types, LiveInv, VmInv, FailedLaunchLeavesNoVm, Places, Unleased, Tails
<1>2. PermitInv
  <2>1. \A p \in Procs : Held(p) = {}
    BY DEF Held, HoldsPermit
  <2>2. Cardinality({}) = 0
    BY FS_EmptySet
  <2> QED BY <2>1, <2>2, PermitsAreHeld DEF PermitInv
<1>3. SoleInv /\ LeafInv /\ StartupInv
  BY DEF SoleInv, LeafInv, StartupInv, PidIsAlive
<1>4. OwnerInv /\ TraceInv /\ RecoveryKeepsEvidence
  BY DEF OwnerInv, TraceInv, RecoveryKeepsEvidence, Leased
<1> QED BY <1>1, <1>2, <1>3, <1>4 DEF Inv, ResidentInv

\* Inv is inductive in every configuration.
LEMMA Invariance == Spec => []Inv
<1>1. Inv /\ [Next]_vars => Inv'
  BY TypesStep, LiveStep, VmStep, PermitStep DEF Inv
<1> QED BY InitInv, <1>1, PTL DEF Spec

\* The shapes of files, processes and handles, and the range of the semaphores: no
\* sequence of failed launches, drops and deletes returns more permits than were taken.
THEOREM TypeCorrect == Spec => []TypeOK
<1>1. Inv => TypeOK
  BY DEF Inv, Types, PermitInv, TypeOK
<1> QED BY <1>1, Invariance, PTL

\* Every path out of launch, stop, drop and delete returns the admission permit once,
\* and a leaked handle keeps its own, in every configuration.
THEOREM PermitsReturned == Spec => []PermitsExact
<1>1. Inv => PermitsExact
  BY DEF Inv, PermitInv
<1> QED BY <1>1, Invariance, PTL

\* A launch that fails on the systemd path leaves no process behind unless a kill failed.
THEOREM FailedLaunchIsClean == Spec => []FailedLaunchLeavesNoVm
<1>1. Inv => FailedLaunchLeavesNoVm
  BY DEF Inv, VmInv
<1> QED BY <1>1, Invariance, PTL

\* Two live processes never share the cgroup leaf of a vm_id whose launches do not
\* overlap, whatever survived recovery and however many m80 processes there are.
THEOREM LeafIsSingle ==
    ASSUME ~SharedId
    PROVE  Spec => []LeafSingle
<1>1. Init => Inv /\ SoleInv /\ LeafInv
  BY InitInv DEF ResidentInv
<1>2. Inv /\ SoleInv /\ LeafInv /\ [Next]_vars => (SoleInv /\ LeafInv)'
  BY SoleStep, LeafStep DEF Inv
<1>3. Inv /\ LeafInv => LeafSingle
  <2> SUFFICES ASSUME Inv, LeafInv PROVE LeafSingle
    OBVIOUS
  <2>1. CASE leaf \cap fc = {}
    BY <2>1, FS_EmptySet DEF LeafSingle
  <2>2. CASE leaf \cap fc # {}
    <3>1. PICK h \in leaf : leaf \cap fc = {h}
      BY <2>2 DEF LeafInv
    <3>2. Cardinality({h}) = 1
      BY FS_Singleton
    <3> QED BY <3>1, <3>2 DEF LeafSingle
  <2> QED BY <2>1, <2>2
<1> QED BY <1>1, <1>2, <1>3, Invariance, PTL DEF Spec

\* With Resident the second invariant is inductive relative to the first.
LEMMA ResidentInvariance ==
    ASSUME Resident
    PROVE  Spec => []ResidentInv
<1>1. ~SharedId
  BY DEF Resident
<1>2. Inv /\ ResidentInv /\ [Next]_vars => ResidentInv'
  BY <1>1, SoleStep, LeafStep, StartupStep, OwnerStep, TraceStep, EvidenceStep DEF Inv, ResidentInv
<1> QED BY InitInv, <1>2, Invariance, PTL DEF Spec

\* From its written ownership.lock to the end of StoppedSandbox a handle keeps its
\* directory and the lock: no destructor, detached removal or recovery takes them away.
THEOREM OwnerKeeps ==
    ASSUME Resident
    PROVE  Spec => []OwnerKeepsDir
<1>1. ResidentInv => OwnerKeepsDir
  BY DEF ResidentInv, OwnerInv, OwnerKeepsDir
<1> QED BY <1>1, ResidentInvariance, PTL

\* An enrolled Firecracker process is held by a handle or recorded where the next
\* startup pass finds it, as long as kills succeed: no crash loses it.
THEOREM EnrolledIsTraceable ==
    ASSUME Resident
    PROVE  Spec => []VmTraceable
<1>1. ResidentInv => VmTraceable
  BY DEF ResidentInv, TraceInv, VmTraceable, Leased
<1> QED BY <1>1, ResidentInvariance, PTL

\* A startup pass does not get to removing the directory while a process lives in the
\* leaf, even after one failed kill.
THEOREM EvidenceIsKept ==
    ASSUME Resident
    PROVE  Spec => []RecoveryKeepsEvidence
<1>1. ResidentInv => RecoveryKeepsEvidence
  BY DEF ResidentInv
<1> QED BY <1>1, ResidentInvariance, PTL
=============================================================================
