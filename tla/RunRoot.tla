------------------------------ MODULE RunRoot ------------------------------
(***************************************************************************)
(* The life of one run directory <run_root>/<vm_id> of m80-firecracker: it *)
(* is created, leased with ownership.lock, used by a Firecracker process,  *)
(* removed or preserved, and reaped by recover_stale_run_root after the    *)
(* m80 process that owned it died.                                         *)
(*                                                                         *)
(* Sources: crates/m80-firecracker/src/{backend,runroot,launch,lifecycle,  *)
(* types}.rs, launch/{prepared,failure_cleanup}.rs, lifecycle/{stopped,    *)
(* cleanup_deadline}.rs, crates/m80-jailer/src/{materialized,recover}.rs   *)
(* and crates/m80-cgroup/src/lib.rs.                                       *)
(*                                                                         *)
(* A handle is one value of the type-state chain Sandbox -> PreparedSandbox *)
(* -> RunningSandbox -> StoppedSandbox; all handles here name one vm_id.   *)
(* File operations name the path, so they act on whatever directory is     *)
(* there; `home` remembers the directory a handle put its lock into.       *)
(* Contents of the directory that no decision reads are left out, and so   *)
(* are the admission permits' error texts, diagnostics and metrics.        *)
(***************************************************************************)
EXTENDS Integers, FiniteSets

CONSTANTS
    Handles,           \* launches of this vm_id; also names their Firecracker processes
    Procs,             \* m80 processes using the run root; a restart is a new process
    None,              \* no directory, no lock, no pids
    MaxVms,            \* max_concurrent_vms
    CgroupV2,          \* cgroup_mode = UnifiedV2
    Systemd,           \* chosen_launch_path = Systemd
    Overlap,           \* two m80 processes may use the run root at one time
    SharedId,          \* a caller may launch a vm_id while a handle or its removal is pending
    ExplicitRecovery,  \* callers call recover_stale_run_root after startup
    ForceRecovery,     \* ... and pass force = true
    MaxFailures        \* bound: kills and recovery probes that fail

ASSUME NoneAssumption ==
    /\ None \notin Handles \cup Procs
    /\ {"torn", "unset"} \cap (Handles \cup Procs \cup {None}) = {}
ASSUME FiniteAssumption == IsFiniteSet(Handles) /\ IsFiniteSet(Procs)
ASSUME BoundAssumption == MaxVms \in Nat \ {0} /\ MaxFailures \in Nat
ASSUME FlagAssumption == {CgroupV2, Systemd, Overlap, SharedId, ExplicitRecovery, ForceRecovery} \subseteq BOOLEAN

VARIABLES
    dir,       \* the directory at the path, named by the handle that created it
    lock,      \* ownership.lock: the pid in it, or Torn
    pids,      \* jailer-state.json: whose pids, or Unset; None also for an unreadable one
    marker,    \* jailer-systemd-unit: whose unit
    fc,        \* handles whose Firecracker process is alive
    leaf,      \* handles whose process is enrolled in the cgroup leaf of vm_id
    proc,      \* state of each m80 process
    rec,       \* where each process is in recover_stale_run_root
    avail,     \* the admission semaphore of each process
    pc,        \* where each handle is
    at,        \* the process a handle lives in
    home,      \* the directory a handle wrote its lock into
    detached,  \* handles whose remove_dir_all goes on after its deadline
    failures   \* kills and probes that failed so far

dirVars  == <<dir, lock, pids, marker>>
vmVars   == <<fc, leaf, failures>>
procVars == <<proc, rec>>
vars == <<dirVars, vmVars, procVars, avail, pc, at, home, detached>>

Torn  == "torn"
Unset == "unset"

-----------------------------------------------------------------------------
\* Places before the handle has a lock; it already has its cleanup guard.
Unleased == {"dir_made", "checked", "torn"}

\* Places from the written lock to the end of StoppedSandbox.
Leased == {"leased", "jailed", "spawned", "recording", "recorded", "leaf_ok", "enrolled", "prepared", "running", "stopped"}

\* Tails of a failed prepare, a failed start, a dropped PreparedSandbox and a delete.
Tails == {"f_unlock", "f_dir", "s_dir", "s_unlock", "p_kill", "p_dir", "d_unlock"}

Places == {"gone", "admitted", "leaked"} \cup Unleased \cup Leased \cup Tails

\* Places at which the handle's admission permit is not yet returned.
HoldsPermit == Places \ {"gone", "f_dir", "p_kill", "p_dir"}

TypeOK ==
    /\ dir \in Handles \cup {None}
    /\ lock \in Procs \cup {None, Torn}
    /\ pids \in Handles \cup {None, Unset}
    /\ marker \in Handles \cup {None}
    /\ fc \subseteq Handles
    /\ leaf \subseteq Handles
    /\ proc \in [Procs -> {"new", "starting", "up", "dead"}]
    /\ rec \in [Procs -> {"idle", "inspect", "kill", "stop_unit", "reap", "remove"}]
    /\ avail \in [Procs -> 0..MaxVms]
    /\ pc \in [Handles -> Places]
    /\ at \in [Handles -> Procs \cup {None}]
    /\ home \in [Handles -> Handles \cup {None}]
    /\ detached \subseteq Handles
    /\ failures \in 0..MaxFailures

Init ==
    /\ dir = None
    /\ lock = None
    /\ pids = None
    /\ marker = None
    /\ fc = {}
    /\ leaf = {}
    /\ proc = [p \in Procs |-> "new"]
    /\ rec = [p \in Procs |-> "idle"]
    /\ avail = [p \in Procs |-> MaxVms]
    /\ pc = [h \in Handles |-> "gone"]
    /\ at = [h \in Handles |-> None]
    /\ home = [h \in Handles |-> None]
    /\ detached = {}
    /\ failures = 0

-----------------------------------------------------------------------------
(* Helpers.                                                                *)

Goto(h, place) == pc' = [pc EXCEPT ![h] = place]

Move(h, from, to) == pc[h] = from /\ Goto(h, to)

\* remove_dir_all of the path, or its rename into .preserved: nothing is left
\* at the path; or the call fails, and a removal may have got half way.
ClearPath ==
    \/ /\ dir' = None
       /\ lock' = None
       /\ pids' = None
       /\ marker' = None
    \/ /\ dir' = dir
       /\ lock' \in {lock, None}
       /\ pids' \in {pids, None}
       /\ marker' \in {marker, None}

\* AdmissionPermit::drop
ReturnPermit(h) == avail' = [avail EXCEPT ![at[h]] = @ + 1]

\* LeaseGuard::drop unlinks the path, whoever wrote the file there.
Unlock == lock' = None

\* The handle holds the Subtree of the leaf.
HasSubtree(h) == CgroupV2 /\ pc[h] \in {"leaf_ok", "enrolled", "prepared", "running"}

\* kill_and_reap_pid, and Subtree::drop, which kills what is in the leaf.
KillSucceeds(h) ==
    /\ fc' = fc \ ({h} \cup IF HasSubtree(h) THEN leaf ELSE {})
    /\ leaf' = IF HasSubtree(h) THEN {} ELSE leaf \ {h}
    /\ UNCHANGED failures

\* kill_and_reap_pid gave up (twice REAP_TIMEOUT); cgroup.kill cannot help either.
KillFails(h) ==
    /\ h \in fc
    /\ failures < MaxFailures
    /\ failures' = failures + 1
    /\ UNCHANGED <<fc, leaf>>

\* A kill in a Drop impl: a failure is only logged.
KillBestEffort(h) == KillSucceeds(h) \/ KillFails(h)

PidIsAlive(p) == proc[p] \in {"starting", "up"}

-----------------------------------------------------------------------------
(* admit and Sandbox::prepare.                                             *)

Admit(h, p) ==
    /\ Move(h, "gone", "admitted")
    /\ h \notin fc \cup detached
    /\ proc[p] = "up"
    /\ avail[p] > 0
    /\ SharedId \/ (detached = {} /\ \A g \in Handles : pc[g] = "gone")
    /\ avail' = [avail EXCEPT ![p] = @ - 1]
    /\ at' = [at EXCEPT ![h] = p]
    /\ UNCHANGED <<dirVars, vmVars, procVars, home, detached>>

\* Phase 1: create_dir succeeds on an existing directory.
RunRootPrep(h) ==
    /\ Move(h, "admitted", "dir_made")
    /\ dir' = IF dir = None THEN h ELSE dir
    /\ UNCHANGED <<lock, pids, marker, vmVars, procVars, avail, at, home, detached>>

\* Phase 1 fails, and what is at the path goes too; the Sandbox is consumed.
PrepFails(h) ==
    /\ Move(h, "admitted", "gone")
    /\ ClearPath
    /\ ReturnPermit(h)
    /\ UNCHANGED <<vmVars, procVars, at, home, detached>>

\* A Sandbox dropped before prepare.
DropSandbox(h) ==
    /\ Move(h, "admitted", "gone")
    /\ ReturnPermit(h)
    /\ UNCHANGED <<dirVars, vmVars, procVars, at, home, detached>>

\* Phase 2, the check: no lock, or a lock whose pid is dead.
LockAvailable == lock = None \/ (lock \in Procs /\ ~PidIsAlive(lock))

CheckLock(h) ==
    /\ Move(h, "dir_made", "checked")
    /\ LockAvailable
    /\ UNCHANGED <<dirVars, vmVars, procVars, avail, at, home, detached>>

\* RunDirAlreadyOwned or RunDirOwnershipAmbiguous: no lock is held, the
\* permit returns, and the cleanup guard is still armed.
LeaseRefused(h) ==
    /\ Move(h, "dir_made", "f_dir")
    /\ ~LockAvailable
    /\ ReturnPermit(h)
    /\ UNCHANGED <<dirVars, vmVars, procVars, at, home, detached>>

\* fs::write opens (creates, truncates) the lock, then writes it.
TruncateLock(h) ==
    /\ Move(h, "checked", "torn")
    /\ dir # None
    /\ lock' = Torn
    /\ home' = [home EXCEPT ![h] = dir]
    /\ UNCHANGED <<dir, pids, marker, vmVars, procVars, avail, at, detached>>

\* Mutant: the guard is bound to a bare `_` and dropped at once.
WriteLockDropped(h) ==
    /\ Move(h, "torn", "leased")
    /\ lock' = None
    /\ UNCHANGED <<dir, pids, marker, vmVars, procVars, avail, at, home, detached>>

WriteLock(h) ==
    /\ Move(h, "torn", "leased")
    /\ lock' = IF dir = home[h] /\ lock # None THEN at[h] ELSE lock
    /\ UNCHANGED <<dir, pids, marker, vmVars, procVars, avail, at, home, detached>>

\* fs::write failed: the same exit as a refused lease.
LeaseIoError(h) ==
    /\ pc[h] \in {"checked", "torn"}
    /\ Goto(h, "f_dir")
    /\ ReturnPermit(h)
    /\ UNCHANGED <<dirVars, vmVars, procVars, at, home, detached>>

\* Phases 3 to 8; the jail's plan and a jailer-state.json without pids are
\* written, and on the systemd path the unit marker.
Materialize(h) ==
    /\ Move(h, "leased", "jailed")
    /\ dir # None
    /\ pids' = Unset
    /\ marker' = IF Systemd THEN h ELSE marker
    /\ UNCHANGED <<dir, lock, vmVars, procVars, avail, at, home, detached>>

\* Phase 9: Firecracker runs; its pids are not yet recorded.
Spawn(h) ==
    /\ Move(h, "jailed", "spawned")
    /\ dir # None
    /\ fc' = fc \cup {h}
    /\ UNCHANGED <<dirVars, leaf, failures, procVars, avail, at, home, detached>>

\* The pid file never appears: the child is killed, or its unit stopped.
PidFileTimeout(h) ==
    /\ Move(h, "spawned", "f_unlock")
    /\ KillBestEffort(h)
    /\ UNCHANGED <<dirVars, procVars, avail, at, home, detached>>

\* record_live_state truncates jailer-state.json ...
TruncateState(h) ==
    /\ Move(h, "spawned", "recording")
    /\ dir # None
    /\ pids' = None
    /\ UNCHANGED <<dir, lock, marker, vmVars, procVars, avail, at, home, detached>>

\* ... and writes the pids into the file it opened.
RecordLiveState(h) ==
    /\ Move(h, "recording", "recorded")
    /\ pids' = IF dir = home[h] THEN h ELSE pids
    /\ UNCHANGED <<dir, lock, marker, vmVars, procVars, avail, at, home, detached>>

\* record_live_state fails: the systemd path stops its unit, the wrapper
\* path returns with the child forgotten.
RecordFails(h) ==
    /\ pc[h] \in {"spawned", "recording"}
    /\ Goto(h, "f_unlock")
    /\ IF Systemd THEN KillBestEffort(h) ELSE UNCHANGED vmVars
    /\ UNCHANGED <<dirVars, procVars, avail, at, home, detached>>

\* Mutant: an occupied leaf is adopted.
LeafUnchecked(h) ==
    /\ Move(h, "recorded", IF CgroupV2 THEN "leaf_ok" ELSE "enrolled")
    /\ UNCHANGED <<dirVars, vmVars, procVars, avail, at, home, detached>>

\* Phase 5b, reject_existing_live_pids.
CheckLeaf(h) ==
    /\ CgroupV2 => leaf \cap fc = {}
    /\ Move(h, "recorded", IF CgroupV2 THEN "leaf_ok" ELSE "enrolled")
    /\ UNCHANGED <<dirVars, vmVars, procVars, avail, at, home, detached>>

Enroll(h) ==
    /\ Move(h, "leaf_ok", "enrolled")
    /\ h \in fc
    /\ leaf' = leaf \cup {h}
    /\ UNCHANGED <<dirVars, fc, failures, procVars, avail, at, home, detached>>

\* Phases 10 to 11c.
Prepared(h) ==
    /\ Move(h, "enrolled", "prepared")
    /\ UNCHANGED <<dirVars, vmVars, procVars, avail, at, home, detached>>

\* A phase before the Firecracker process exists fails.
LaunchFails(h) ==
    /\ pc[h] \in {"leased", "jailed"}
    /\ Goto(h, "f_unlock")
    /\ UNCHANGED <<dirVars, vmVars, procVars, avail, at, home, detached>>

\* Mutant: no process guard: the child is left running.
LaunchFailsForgets(h) ==
    /\ pc[h] \in {"recorded", "leaf_ok", "enrolled"}
    /\ Goto(h, "f_unlock")
    /\ UNCHANGED <<dirVars, vmVars, procVars, avail, at, home, detached>>

\* A later phase fails: locals drop in reverse order, the process guard first.
LaunchFailsKill(h) ==
    /\ pc[h] \in {"recorded", "leaf_ok", "enrolled"}
    /\ Goto(h, "f_unlock")
    /\ KillBestEffort(h)
    /\ UNCHANGED <<dirVars, procVars, avail, at, home, detached>>

\* The lease guard, then the captured permit are dropped ...
FailUnlock(h) ==
    /\ Move(h, "f_unlock", "f_dir")
    /\ Unlock
    /\ ReturnPermit(h)
    /\ UNCHANGED <<dir, pids, marker, vmVars, procVars, at, home, detached>>

\* Mutant: the directory guard returns the permit once more.
FailDirReturnsPermit(h) ==
    /\ Move(h, "f_dir", "gone")
    /\ ClearPath
    /\ ReturnPermit(h)
    /\ UNCHANGED <<vmVars, procVars, at, home, detached>>

\* ... and last the captured LaunchRunDirCleanupGuard.
FailDir(h) ==
    /\ Move(h, "f_dir", "gone")
    /\ ClearPath
    /\ UNCHANGED <<vmVars, procVars, avail, at, home, detached>>

-----------------------------------------------------------------------------
(* PreparedSandbox.                                                        *)

Start(h) ==
    /\ Move(h, "prepared", "running")
    /\ UNCHANGED <<dirVars, vmVars, procVars, avail, at, home, detached>>

\* Mutant: the process guard is disarmed before start has succeeded.
StartFailsForgets(h) ==
    /\ Move(h, "prepared", "s_dir")
    /\ UNCHANGED <<dirVars, vmVars, procVars, avail, at, home, detached>>

\* start fails: the closure's captures drop: process guard, directory guard,
\* then permit and lease guard.
StartFails(h) ==
    /\ Move(h, "prepared", "s_dir")
    /\ KillBestEffort(h)
    /\ UNCHANGED <<dirVars, procVars, avail, at, home, detached>>

StartFailDir(h) ==
    /\ Move(h, "s_dir", "s_unlock")
    /\ ClearPath
    /\ UNCHANGED <<vmVars, procVars, avail, at, home, detached>>

\* The permit and the lease guard drop last, after start's or delete's
\* removal of the directory.
UnlockLast(h) ==
    /\ pc[h] \in {"s_unlock", "d_unlock"}
    /\ Goto(h, "gone")
    /\ Unlock
    /\ ReturnPermit(h)
    /\ UNCHANGED <<dir, pids, marker, vmVars, procVars, at, home, detached>>

\* abort, or a plain drop: fields drop in declaration order, so the cgroup
\* leaf goes first, then permit and lock, then the process guard.
DropPrepared(h) ==
    /\ Move(h, "prepared", "p_kill")
    /\ IF CgroupV2 THEN KillBestEffort(h) ELSE UNCHANGED vmVars
    /\ Unlock
    /\ ReturnPermit(h)
    /\ UNCHANGED <<dir, pids, marker, procVars, at, home, detached>>

PreparedKill(h) ==
    /\ Move(h, "p_kill", "p_dir")
    /\ KillBestEffort(h)
    /\ UNCHANGED <<dirVars, procVars, avail, at, home, detached>>

\* abort removes the directory; a plain drop preserves it.
PreparedDir(h) ==
    /\ Move(h, "p_dir", "gone")
    /\ ClearPath
    /\ UNCHANGED <<vmVars, procVars, avail, at, home, detached>>

-----------------------------------------------------------------------------
(* RunningSandbox and StoppedSandbox.                                      *)

\* stop and force_kill when the kill succeeds.
Stop(h) ==
    /\ Move(h, "running", "stopped")
    /\ KillSucceeds(h)
    /\ UNCHANGED <<dirVars, procVars, avail, at, home, detached>>

\* The handle is dropped with its directory left in place.
Abandon(h) ==
    /\ Goto(h, "gone")
    /\ Unlock
    /\ ReturnPermit(h)
    /\ UNCHANGED <<dir, pids, marker, procVars, at, home, detached>>

\* bounded_stop's kill fails after the kill guard was disarmed.
StopFails(h) ==
    /\ pc[h] = "running"
    /\ KillFails(h)
    /\ Abandon(h)

\* release_shared_pmem_refs fails after a successful kill.
StopPmemFails(h) ==
    /\ pc[h] = "running"
    /\ KillSucceeds(h)
    /\ Abandon(h)

\* Mutant: the permit is released although the sandbox is leaked.
ForceKillFailsReturns(h) ==
    /\ Move(h, "running", "leaked")
    /\ KillFails(h)
    /\ ReturnPermit(h)
    /\ UNCHANGED <<dirVars, procVars, at, home, detached>>

\* force_kill's kill fails: mem::forget keeps permit, lock and directory.
ForceKillFails(h) ==
    /\ Move(h, "running", "leaked")
    /\ KillFails(h)
    /\ UNCHANGED <<dirVars, procVars, avail, at, home, detached>>

\* ForceKillGuard::drop, then permit and lock.
DropRunning(h) ==
    /\ pc[h] = "running"
    /\ KillBestEffort(h)
    /\ Abandon(h)

\* delete (and preserve_for_triage): the directory goes before the lease guard.
Delete(h) ==
    /\ Move(h, "stopped", "d_unlock")
    /\ ClearPath
    /\ UNCHANGED <<vmVars, procVars, avail, at, home, detached>>

\* A failed network cleanup, rename or removal, or a plain drop.
DropStopped(h) ==
    /\ pc[h] = "stopped"
    /\ Abandon(h)
    /\ UNCHANGED vmVars

\* RUN_DIR_DELETE_TIMEOUT: the removal goes on in its own thread.
DeleteTimesOut(h) ==
    /\ Move(h, "stopped", "gone")
    /\ detached' = detached \cup {h}
    /\ Unlock
    /\ ReturnPermit(h)
    /\ UNCHANGED <<dir, pids, marker, vmVars, procVars, at, home>>

DetachedRemove(h) ==
    /\ h \in detached
    /\ detached' = detached \ {h}
    /\ ClearPath
    /\ UNCHANGED <<vmVars, procVars, avail, pc, at, home>>

-----------------------------------------------------------------------------
(* m80 processes and recovery.                                             *)

\* Backend::new begins with a recovery pass.
StartProcess(p) ==
    /\ proc[p] = "new"
    /\ Overlap \/ \A q \in Procs : proc[q] \in {"new", "dead"}
    /\ proc' = [proc EXCEPT ![p] = "starting"]
    /\ UNCHANGED <<dirVars, vmVars, rec, avail, pc, at, home, detached>>

\* The process dies: its handles vanish without running any destructor.
Crash(p) ==
    /\ proc[p] \in {"starting", "up"}
    /\ proc' = [proc EXCEPT ![p] = "dead"]
    /\ rec' = [rec EXCEPT ![p] = "idle"]
    /\ pc' = [h \in Handles |-> IF at[h] = p THEN "gone" ELSE pc[h]]
    /\ detached' = {h \in detached : at[h] # p}
    /\ UNCHANGED <<dirVars, vmVars, avail, at, home>>

\* The startup pass ends, in success or with a logged error.
RecoveryReturns(p) ==
    /\ rec' = [rec EXCEPT ![p] = "idle"]
    /\ proc' = [proc EXCEPT ![p] = "up"]

Recovering(p) == proc[p] = "starting" \/ (proc[p] = "up" /\ ExplicitRecovery)

RecStep(p, from, to) ==
    /\ rec[p] = from
    /\ rec' = [rec EXCEPT ![p] = to]
    /\ UNCHANGED proc

\* run_dir_liveness: a live or torn lock (or no directory) ends the pass.
RecoverSkip(p) ==
    /\ proc[p] = "starting"
    /\ rec[p] = "idle"
    /\ dir = None \/ ~LockAvailable
    /\ RecoveryReturns(p)
    /\ UNCHANGED <<dirVars, vmVars, avail, pc, at, home, detached>>

RecoverScan(p) ==
    /\ Recovering(p)
    /\ dir # None
    /\ LockAvailable \/ (lock = Torn /\ proc[p] = "up" /\ ForceRecovery)
    /\ RecStep(p, "idle", "inspect")
    /\ UNCHANGED <<dirVars, vmVars, avail, pc, at, home, detached>>

\* Mutant: recorded pids are not probed.
RecoverInspectBlind(p) ==
    /\ RecStep(p, "inspect", "reap")
    /\ UNCHANGED <<dirVars, vmVars, avail, pc, at, home, detached>>

\* inspect_run_dir: recorded live pids; else, only without a state file, a
\* live systemd unit; else an orphan jail or no jail.
RecoverInspect(p) ==
    /\ RecStep(p, "inspect", IF pids \in fc THEN "kill"
                             ELSE IF pids = None /\ marker \in fc THEN "stop_unit"
                             ELSE "reap")
    /\ UNCHANGED <<dirVars, vmVars, avail, pc, at, home, detached>>

\* kill_orphan_pids on the inspected pids: after two seconds it goes on whatever happened.
RecoverKill(p) ==
    /\ RecStep(p, "kill", "reap")
    /\ \/ /\ fc' = fc \ {pids} /\ leaf' = leaf \ {pids}
          /\ UNCHANGED failures
       \/ pids \in fc /\ KillFails(pids)
    /\ UNCHANGED <<dirVars, avail, pc, at, home, detached>>

\* systemctl stop on the inspected unit ...
RecoverStopUnit(p) ==
    /\ RecStep(p, "stop_unit", "reap")
    /\ fc' = fc \ {marker} /\ leaf' = leaf \ {marker}
    /\ UNCHANGED <<dirVars, failures, avail, pc, at, home, detached>>

\* ... or its failure, or a failed probe of the directory: it is preserved.
RecoverPreserve(p) ==
    /\ rec[p] \in {"inspect", "stop_unit"}
    /\ failures < MaxFailures
    /\ failures' = failures + 1
    /\ RecoveryReturns(p)
    /\ UNCHANGED <<dirVars, fc, leaf, avail, pc, at, home, detached>>

\* Mutant: the run directory goes although the leaf still has live pids.
RecoverLeafIgnored(p) ==
    /\ RecStep(p, "reap", "remove")
    /\ leaf' = leaf \cap fc
    /\ UNCHANGED <<dirVars, fc, failures, avail, pc, at, home, detached>>

\* cleanup_orphan_subtree removes an empty leaf ...
RecoverLeaf(p) ==
    /\ RecStep(p, "reap", "remove")
    /\ leaf \cap fc = {}
    /\ leaf' = {}
    /\ UNCHANGED <<dirVars, fc, failures, avail, pc, at, home, detached>>

\* ... goes on with a warning when the leaf cannot be read or removed ...
RecoverLeafError(p) ==
    /\ RecStep(p, "reap", "remove")
    /\ failures < MaxFailures
    /\ failures' = failures + 1
    /\ UNCHANGED <<dirVars, fc, leaf, avail, pc, at, home, detached>>

\* ... and refuses one with live pids: StaleCgroupLeaf ends the pass.
RecoverStaleLeaf(p) ==
    /\ rec[p] = "reap"
    /\ leaf \cap fc # {}
    /\ RecoveryReturns(p)
    /\ UNCHANGED <<dirVars, vmVars, avail, pc, at, home, detached>>

\* Mounts and network state go, then the directory; the scan is over.
RecoverRemove(p) ==
    /\ rec[p] = "remove"
    /\ ClearPath
    /\ RecoveryReturns(p)
    /\ UNCHANGED <<vmVars, avail, pc, at, home, detached>>

\* A Firecracker process exits by itself.
FirecrackerExits(h) ==
    /\ h \in fc
    /\ fc' = fc \ {h}
    /\ leaf' = leaf \ {h}
    /\ UNCHANGED <<dirVars, failures, procVars, avail, pc, at, home, detached>>

-----------------------------------------------------------------------------
Launch(h) ==
    \/ RunRootPrep(h) \/ PrepFails(h) \/ CheckLock(h) \/ LeaseRefused(h) \/ TruncateLock(h) \/ WriteLock(h) \/ LeaseIoError(h)
    \/ Materialize(h) \/ Spawn(h) \/ PidFileTimeout(h) \/ TruncateState(h) \/ RecordLiveState(h) \/ RecordFails(h)
    \/ CheckLeaf(h) \/ Enroll(h) \/ Prepared(h) \/ LaunchFails(h) \/ LaunchFailsKill(h)

\* Destructors that run once a call has failed or a handle was dropped.
Unwind(h) ==
    \/ FailUnlock(h) \/ FailDir(h)
    \/ StartFailDir(h) \/ UnlockLast(h)
    \/ PreparedKill(h) \/ PreparedDir(h)
    \/ DetachedRemove(h)

\* Methods on the handle and its drops.
Use(h) ==
    \/ DropSandbox(h)
    \/ Start(h) \/ StartFails(h) \/ DropPrepared(h)
    \/ Stop(h) \/ StopFails(h) \/ StopPmemFails(h) \/ ForceKillFails(h) \/ DropRunning(h)
    \/ Delete(h) \/ DropStopped(h) \/ DeleteTimesOut(h)

Recover(p) ==
    \/ RecoverSkip(p) \/ RecoverScan(p) \/ RecoverInspect(p) \/ RecoverKill(p) \/ RecoverStopUnit(p)
    \/ RecoverPreserve(p)
    \/ RecoverLeaf(p) \/ RecoverLeafError(p) \/ RecoverStaleLeaf(p) \/ RecoverRemove(p)

\* Every process has died.
AllDead ==
    /\ \A p \in Procs : proc[p] = "dead"
    /\ UNCHANGED vars

Next ==
    \/ \E h \in Handles, p \in Procs : Admit(h, p)
    \/ \E h \in Handles : Launch(h)
    \/ \E h \in Handles : Unwind(h)
    \/ \E h \in Handles : Use(h)
    \/ \E h \in Handles : FirecrackerExits(h)
    \/ \E p \in Procs : StartProcess(p)
    \/ \E p \in Procs : Crash(p)
    \/ \E p \in Procs : Recover(p)
    \/ AllDead

Spec == Init /\ [][Next]_vars

\* A process that is not killed keeps running its startup pass and its destructors.
Fairness ==
    /\ \A p \in Procs : WF_vars(proc[p] = "starting" /\ Recover(p))
    /\ \A h \in Handles : WF_vars(Unwind(h))

FairSpec == Spec /\ Fairness
-----------------------------------------------------------------------------
(* Properties.                                                             *)

\* The handle's directory is at the path, with the lock it wrote.
Owns(h) == pc[h] \in Leased /\ dir = home[h] /\ lock = at[h]

\* From the written ownership.lock to the end of StoppedSandbox the directory
\* of the handle is at its path and the lock in it names its process: no
\* destructor, detached removal or recovery of another handle takes them away.
OwnerKeepsDir ==
    \A h \in Handles : pc[h] \in Leased => Owns(h)

\* Whatever path a launch, stop, drop or delete ends on, each admission permit
\* is returned exactly once (AdmissionPermit::drop), and the handle leaked by
\* a failed force_kill keeps its own.
PermitsExact ==
    \A p \in Procs : proc[p] # "dead" =>
        avail[p] + Cardinality({h \in Handles : at[h] = p /\ pc[h] \in HoldsPermit}) = MaxVms

\* Two live Firecracker processes never share the cgroup leaf of the vm_id,
\* even when an orphan survived recovery (reject_existing_live_pids).
LeafSingle == Cardinality(leaf \cap fc) <= 1

\* Startup recovery never gets to removing a run directory while processes
\* are alive in its leaf (cleanup_orphan_subtree, StaleCgroupLeaf), also when
\* the orphan could not be killed, but not if the leaf is unreadable as well.
RecoveryKeepsEvidence ==
    failures <= 1 => \A p \in Procs : rec[p] = "remove" => leaf \cap fc = {}

\* As long as kills succeed, an enrolled Firecracker process is either held by
\* a handle of a living m80 process or recorded in jailer-state.json at the
\* path, where the next recovery finds it: no crash and no failed call loses it.
VmTraceable ==
    failures = 0 => \A h \in leaf \cap fc : pc[h] \in Leased \/ (dir # None /\ pids = h)

\* A recorded orphan that a starting process may reap dies: the startup pass
\* always gets to the kill, unless the process dies or the kill fails. (With one
\* process at a time, a process died when none is left.)
OrphanReaped ==
    \A h \in Handles :
        (/\ \E p \in Procs : proc[p] = "starting" /\ rec[p] = "idle"
         /\ dir # None /\ LockAvailable /\ pids = h /\ h \in fc)
            ~> (h \notin fc \/ failures > 0 \/ \A p \in Procs : proc[p] \in {"new", "dead"})

\* A launch that failed after Firecracker came to life leaves no process behind,
\* kill failures aside (systemd path; on the wrapper path RecordFails does leave
\* one).
FailedLaunchLeavesNoVm ==
    Systemd /\ failures = 0 => \A h \in Handles : pc[h] \in {"f_unlock", "f_dir"} => h \notin fc

\* docs/behaviors/launch/path-selection.md:24-26: the unit marker closes the
\* window between unit creation and pid-state persistence, so recovery does
\* not remove the directory of a unit that runs.
MarkerClosesWindow ==
    [][\A p \in Procs : failures = 0 /\ RecoverRemove(p) /\ marker \in fc => dir' = dir]_vars
=============================================================================
