# TLA+ models of m80

m80 runs untrusted work in Firecracker microVMs. A host library
(`crates/m80-firecracker`) takes a VM through admission, launch, use, stop and
deletion; it keeps warm pools of booted VMs, enforces idle and lifetime limits,
and, after a crash of the host process, finds and reaps what the crash left
behind. A daemon in the guest runs the work and streams its output back. Images,
snapshot templates, networks and m80 itself are files and host settings that
several processes change. This directory models those parts, checks them with
TLC and proves the central invariants with TLAPS. Paths below are relative to
`crates/m80-firecracker/src/` unless they name another crate.

## 1. Inventory

| Part | State it keeps | Operations | What is hard |
|---|---|---|---|
| Warm pool (`warm_pool.rs`, `warm_pool/`) | `WarmPoolState` behind one mutex: ready queue, `filling`, `leased`, totals, free CPU ranges; atomics `target_ready`, `shutdown` | `try_lease`, lease methods and drop, `set_target_ready`, `start_background_fill`, `fill_to_target_blocking`, fill workers, `drop` | VMs are launched and killed outside the mutex; workers retry with backoff; drop waits for them |
| Run root (`backend.rs`, `runroot.rs`, `launch.rs`, `launch/`, `lifecycle.rs`, `lifecycle/stopped.rs`, `m80-jailer`, `m80-cgroup`) | run directory, `ownership.lock`, `jailer-state.json`, unit marker, Firecracker process, cgroup leaf, admission semaphore | `admit`, `prepare`, `start`, `stop`, `force_kill`, `delete`, `preserve_for_triage`, drops, `recover_stale_run_root` | crash anywhere, check-then-act on files, guards that clean up by path, kills that fail, detached removal |
| Lifecycle watcher (`lifecycle.rs`, `lifecycle/exec.rs`) | `last_activity_ns`, `active_execs`, `idle_timed_out`, `lifetime_expired`, `watcher_stop` | `idle_watcher_loop`, `begin_exec_activity`, `ExecActivityGuard::drop`, `ensure_lifecycle_accepts_work`, `stop` | a thread that decides on values loaded several steps ago |
| Host exec and PTY streams (`lifecycle/exec.rs`) and the guest daemon's handlers (`m80-guestd/src/connection/`) | host: expected sequence numbers, forwarder thread, deadline; guest: child and its group, pipes, capture threads, a channel of one frame, cancel and deadline | `exec_streaming*`, `exec_pty`, `handle_streaming_exec`, `handle_pty_exec` | cancel racing the exit, a full connection, output after the exit, processes the child left behind, sequence wrap |
| Guest daemon hotplug (`m80-guestd`) | uevent registry | hotplug, waiters | uevent before its waiter |
| Image store (`m80-image-store`) | content-addressed entries, shared-reference markers, store lock | import, resolve, acquire, release, sweep, remove, gc | a death in the middle of an operation, sweep against a reference acquired meanwhile |
| Template store (`m80-snapshot-template`) and template build | template directories, index file, process-local pins, coordination lock | lookup, build, commit, pin, evict, remove | index rewritten without a lock, gc deciding on templates another process is building |
| Network (`network_helper.rs`, `m80-net-outbound`, `m80-cli/src/cmds/net.rs`) | shared bridge and its record; per VM: address claim, links, rules, `network-state.json`; allocation lock | realize, policy, cleanup, rollback, recovery, `m80 net cleanup` | allocation is locked and cleanup is not; helpers outlive their process; partial failure |
| Install (`m80-cli/src/cmds/install*`) | install-state lock, version directories, flat projection, profile, config, PATH link, active pointer | install, repair of a stale lock, rollback, `install-cleanup` | a failure or a kill at each of about ten steps |
| Warm owner (`m80-cli/src/cmds/warm`) | a pool, a control socket | run, status, shutdown | request racing shutdown |
| Storage, jailer hardening, preflight, protocol framing, CLI, observability | files and host settings | straight-line I/O | nothing concurrent |

How they interact. A pool launches slots through the run-root path and kills
them with `force_kill`; a running slot has a watcher of its own. Leases and
sandboxes are used by one thread at a time (`&mut self`). An exec is counted by
the watcher and served by the one connection the guest daemon accepts at a time.
A launch acquires a shared image reference, and asks a helper process for its
network; recovery gives both back. A template build holds images in the image
store by naming them in its manifest. Two processes of m80 meet only in the file
system and in the host's network: run root, image store, template store, install
root, bridge and iptables.

What makes each part correct:

* warm pool: every booted VM has exactly one owner that will kill it; counters
  agree with what they count; CPU ranges are exclusive and never leak; drop
  ends, and ends with nothing left; a deficit always has someone to fill it;
* run root: nobody but the owner removes a leased directory; permits are
  returned once; two live VMs never share a leaf; no crash makes a VM
  untraceable; a failed launch leaves no VM; a recorded orphan is reaped at the
  next start;
* watcher: once an expiry flag is up nothing new reaches the guest; the limits
  are enforced whatever the owner does; an exec the watcher could see is not
  cut off;
* exec: the caller gets all output in order and one outcome after it;
  "cancelled" means that nothing of the group runs; the daemon leaves no child
  and always gets back to accept;
* stores: an image stays as long as a VM or a template uses it;
* network: running VMs have distinct addresses, all their rules and a bridge;
  a deleted VM leaves nothing behind;
* install: one writer; the active release is always complete; success means the
  release is selected everywhere and failure that nothing changed.

`PROJECT.json` lists every component and every hazard with its line.

## 2. Modules

| Module | Models |
|---|---|
| `WarmPool` | the warm pool, one action per critical section or per step outside it |
| `MCWarmPool` | symmetry sets for TLC |
| `WarmPoolProofs` | theorems about `WarmPool` |
| `RunRoot` | one `vm_id`: directory, lock, jailer state, process, leaf, permits, crashes, recovery |
| `MCRunRoot` | symmetry sets for TLC |
| `RunRootProofs` | theorems about `RunRoot` |
| `LifecycleWatcher` | the watcher thread against the operations of the owner |
| `LifecycleWatcherProofs` | theorems about `LifecycleWatcher` |
| `ExecContract` | abstract specification: what an exec or PTY call promises its caller |
| `ExecStream` | the host call, its forwarder, the connection, the guest handler and its threads; implements `ExecContract` |
| `ExecStreamProofs` | theorems about `ExecStream`, the refinement among them |
| `ArtifactStores` | image store and template store with VMs, builders, removers, gc and sweep composed |
| `MCArtifactStores` | which image a VM and a template use, and the constraint of the run |
| `ArtifactStoresProofs` | theorems about `ArtifactStores` |
| `Install` | the install transaction, the repair of its lock, rollback and `install-cleanup` |
| `InstallProofs` | theorems about `Install` |
| `NetOutbound` | bridge, claims, links, rules, helpers, launch, crash, recovery and `m80 net cleanup` |
| `MCNetOutbound` | symmetry sets for TLC |
| `NetOutboundProofs` | theorems about `NetOutbound` |

### WarmPool

State: the fields of `WarmPoolState` under their own names (`ready`, `filling`,
`leased`, `free_cpuset_cpus`), the two atomics, and for each thread where it is
(`pc`), which method it is in (`op`), which slots (`hand`), CPU range (`cpu`)
and unspawned fills (`spawns`) it holds outside the mutex. `lease` is the
`WarmLease` of a caller. `ledger` is `fill_attempts_total - discarded`.

Correspondence: `TryLease`..`LeaseReleaseDead` are `try_lease`;
`LeaseKill`, `LeaseFinished`, `LeaseDiscardReleased` are the four ways a lease
ends (`exec_and_discard`, failed attach, `discard`, drop);
`StartBackgroundFill` and `SpawnFillWorker` are `start_background_fill`;
`Worker*` are the closure of `spawn_fill_worker`, with its guard; `Fill*` are
`fill_to_target_blocking`; `SetTargetReady`, `ResizeKill`, `ResizeRelease` are
`set_target_ready`; `Drop*` are `WarmPool::drop`. `VmDies` is a VM exiting by
itself, which `WarmSlot::is_live` notices later.

Abstractions: a slot is named by its admission permit, so a launch without a
free permit fails; deques are sets (no property depends on the order); error
texts, samples and the length of a backoff are left out; the guest work done
through a lease is one step.

### RunRoot

A handle stands for one value of the chain `Sandbox` - `PreparedSandbox` -
`RunningSandbox` - `StoppedSandbox`, and for the Firecracker process it starts.
All handles name one `vm_id`. File operations go by path, as in the code: they
act on whatever directory is there, while `home` remembers into which directory
the handle wrote its lock. Writing `ownership.lock` and `jailer-state.json` is
truncation and then content, so a crash in between leaves a torn file.

Every early return of `prepare` and `start` is an action, followed by the drops
of the guards in Rust's order (`FailUnlock` before `FailDir` and so on). `Crash`
kills a process at any point; `StartProcess` starts the next one, which runs
the startup recovery before it admits. Recovery is the sequence
`RecoverScan` (`run_dir_liveness`), `RecoverInspect` (`inspect_run_dir`),
`RecoverKill` / `RecoverStopUnit`, `RecoverLeaf`, `RecoverRemove`.

Switches: `Systemd` selects the launch path, `CgroupV2` the cgroup mode,
`SharedId` allows two launches of one id, `ExplicitRecovery` and `ForceRecovery`
allow callers to run recovery while VMs launch, `Overlap` allows two processes
at once (no run uses it yet).

Left out: mounts and several `vm_id`s; network state and shared image references
are in `NetOutbound` and `ArtifactStores`.
A removal that went on after its deadline cannot meet a new launch of its own
id unless `SharedId` is set.

### LifecycleWatcher

Every load and store of a shared atomic is a step; the clock advances on its
own. Operations are `exec` (counted in `active_execs`) or `other` (file
operations, ping, metrics, hotplug, which only touch `last_activity_ns`).
Atomics are sequentially consistent in the model; the code's `Relaxed` counter
and `Acquire`/`Release` flags allow more, which for `CountedExecSpared` means that
"counted" is to be read as "visible to the watcher's load". `GateShut` is about flags an operation finds set when it
begins; the two loads of the gate are one thread's reads of atomics that only
go up, and need no ordering between different atomics.

`late` and `raced` are history: the operation began with a flag already up, or
was counted only after the watcher had loaded `active_execs` in its current pass
(`Deciding`). `CountedExecSpared` is about the execs that are not `raced`.

### ExecContract and ExecStream

`ExecContract` knows only chunks written, chunks delivered, whether the caller
asked to cancel, and the outcome. `ExecStream` adds everything between:

* host: `Recv*` are the receive loop of `exec_streaming_inner` and `exec_pty`
  with its sequence check and deadline; `TakeEvent`, `ForwardSend`,
  `ForwarderEnds` are the forwarder thread (cancel and PTY input);
* wire: two bounded queues of frames, so a side may block in a send;
* guest: the handler's loop (`RecvFrame`, `TryWait`, `CheckDeadline`, `Poll*`,
  `Join`, `Finish*`, `AbortExec`), the capture threads (`Capture*`) and the
  channel of one frame between them;
* workload: writes, exits, may fork a process that keeps the pipes open inside
  or outside the process group, may or may not read its input.

The refinement is `C == INSTANCE ExecContract WITH Streams <- AllStreams` (the
other names agree), and `Contract == C!Spec`.

Abstractions: a chunk is its number; a request is modelled from the accepted
frame on; the buffered `handle_exec` and the PTY controls resize, eof and signal
are left out. The daemon serves one connection at a time, so one request is
enough.

### ArtifactStores

An operation of the image store runs under the store's `flock` and is one step,
but its process may die in the middle, which leaves the prefix it had done: an
entry without metadata (`dir`), metadata without artifact (`torn`). The template
store has no lock of its own: rename, reading and writing the index, pinning and
removing are separate steps (`CommitRename`, `ReadIndex`, `WriteIndex`, `Pin`,
`Evict`, `RemoveTemplate`). `Lookup`..`Unlock` is a build under the shared
coordination lock, which `gc` takes exclusively. `ListRunDirs` and
`SweepSharedRefs` are the two halves of the sweep of `Backend::new`.

`exposed` (VMs whose directory was made between these halves) and `clean` (no
index entry was lost, no build died between rename and index, no `image rm`
overlapped a build) are history: the code gives no guarantee in these cases.

### Install

Releases are numbers in the order of their tags. `Plan` and `Verify` come before
the lock, as in the code. `CreateLock` and `WriteRecord` are two steps, so a
kill between them leaves a lock without a record. Then staging, version
directory, flat projection (one step per managed path), profile, config, smoke
gate, the two renames of the PATH link, its verification, and the active
pointer. `Fail`, `LinkFails` and `FailLate` are the error returns, which run the
rollbacks in the order of the code; `Die` is a kill at any step.
`CleanupCheck`..`CleanupRemove` is `install-cleanup` for a version directory.

Assumptions: `bin_dir` is not the install root's own `bin`;
`CleanupAlone`: `install-cleanup`, which takes no lock, is not run during an
install; one installer repairs stale locks.

### NetOutbound

`pc`, `op`, `job` are the helper process each m80 process has: it serves one
request at a time and finishes it even if its m80 process dies.
`RejectCollision`..`RecordReady` are `realize_bridge_and_tap`, with the
allocation lock from `LockAllocation` to `RecordPlanned`; `CleanupVm`..
`RemoveState` are `cleanup_vm`, and `DeleteLinks`..`OrphanBridge` also the
rollback of a failed realize; `ApplyOutboundNatPolicy` is the policy request.
`RealizeFails`, `PolicyFails`, `TeardownFails` are the error returns. `Launch`..
`Recover` are phases 6 to 9 of the launch, stop and delete, crash and recovery.
`TakeInventory`, `RemoveOrphanRules`, `CleanupEnds` are `m80 net cleanup`.

Two assumptions keep a `vm_id` to one helper at a time: it is launched again
only when its directory is gone, and recovery does not meet a helper that is
still serving the last request of a dead process for it (`Settled`).

`undercut` (state file written while a cleanup that had found no other user was about
to delete the bridge),
`exposed` (state file written after `net cleanup` had found none) and
`abandoned` (a teardown step failed) are history; see Network below.

## 3. Runs

Passing runs.

| Run | Shows | Instance |
|---|---|---|
| `warm_pool_safety` | `SlotOwnership`, `LedgerBalance`, `DropComplete`, `CpusetExclusive`, `CpusetConserved`, `FillingExact` | 2 callers, 3 workers, 3 permits, 3 CPU ranges, target 3 or 1, cap 2, one failing kill, failing launches, dying VMs; 184,723 states |
| `warm_pool_liveness` | `TypeOK`, `DeficitHandedOver`, `DropTerminates`, `PoolServes` | 1 caller, 3 workers, 2 permits, no CPU allocator, target 2 or 1, cap 2; 59,109 states |
| `run_root_resident` | `TypeOK`, `OwnerKeepsDir`, `LeafSingle`, `RecoveryKeepsEvidence`, `VmTraceable`, `FailedLaunchLeavesNoVm`, `OrphanReaped` | 2 launches, 3 successive processes, one failing kill or probe, systemd path; 898,052 states |
| `run_root_permits` | `PermitsExact` | two launches of one id racing, explicit forced recovery; 177,492 states |
| `watcher_limits` | `TypeOK`, `GateShut`, `LifetimeCloses`, `IdleExpires`, `CountedExecSpared` | idle 1, lifetime 2, clock to 4; 40,014 states |
| `exec_contract` | `CancelledMeansDead`, `NoChildLeft`, `SequenceAgrees`, `Contract` | exec and PTY, 2 chunks per stream, numbers to 1 (so that they wrap), 2 frames to the host, pipes and input of 1, 2 inputs, a background process; 2,520,874 states |
| `exec_returns` | `HandlerReturns` | 1 chunk per stream, connection of 1 frame; 336,344 states |
| `artifact_stores` | `SharedImageStays`, `TemplateImageStays` | 2 images, a VM, 2 builders of different templates, one template remover, one `image rm`, gc, sweep, one death; 3,144,858 states |
| `install` | `TypeOK`, `OneWriter`, `ActiveComplete`, `SuccessMeansSelected`, `FailureRestores` | 3 installers (2 of official bundles, one repairing, one adopting), 2 releases, one kill, failures at every step; 1,789,928 states |
| `net_outbound` | `TypeOK`, `AddressUnique`, `FilteredWhileUp`, `BridgeUnderVm`, `NoResidue` | 2 VMs, 2 processes, equal or different addresses, one crash, one failure, net cleanup any number of times; 2,216,053 states |

Why the bounds are enough. Three workers with a cap of two let a worker sleep in
backoff while the cap is filled again; a target above the cap makes the cap
bind, and a resize from three to one leaves two surplus slots; two permits for a
target of two let a launch fail for want of a permit; two callers let a lease
end while another method or drop runs. Two launches suffice for
"the one that was there and the one that came"; three processes give a crash
during a recovery that follows a crash. A clock of 4 lets each deadline pass
before, with and after the other, with activity in between. Two chunks with one
frame in the channel and one in the pipe fill every buffer between the child and
the host, and a largest number of 1 makes both sides pass the wrap. Two builders
and a remover are the least that lose an index entry. Three installers allow a
dead one, the one that repairs after it and one that waits. Two VMs with one
address are the least that can collide, and two with different ones the least
that share a bridge. `artifact_stores` follows a behaviour only up to the first
lost index entry (`StopAtLoss`): after it `TemplateImageStays` promises nothing,
and VMs do not use the index. `TypeOK` of `Install` and `NetOutbound` also says who
may hold the lock or a staging directory at which step.

Runs that contradict what the repository says of itself. Each checks one
statement, and TLC finds a behaviour of the code that breaks it.

| Run | Statement | What happens |
|---|---|---|
| `unit_window` | the marker closes the crash window (`docs/behaviors/launch/path-selection.md`) | the pid-less state file hides the marker |
| `exec_stdin_stall` | `MAX_TIMEOUT_MS` bounds how long a guest process holds a handler (`m80-guestd/src/connection.rs:69`) | the deadline is computed after all of stdin was written, and a child that does not read blocks that write |

Every property of a passing run has a mutant in `PROJECT.json`: a plausible slip
in one definition under which TLC reports that property violated.

Fairness. `WarmPool!FairSpec`: a thread inside a method and a worker keep taking
steps, because the OS schedules threads and every wait in the code has a
timeout; callers need not call anything. `PoolServes` is conditional on
`LaunchesSucceed`: a launch tried again and again succeeds some time, without
which no pool can serve.
`RunRoot!FairSpec`: a process that is not killed goes on with its startup pass
and its destructors. `LifecycleWatcher!FairSpec`: the watcher is scheduled;
the owner is not obliged to do anything, so the limits hold against an exec
that never returns. `ExecStream!FairSpec`: the host's call, the handler, the
capture threads and a forwarder in the middle of a send are scheduled, the
guest's clock advances, and the forwarder sees the stop flag after the call has
returned. It asks nothing of the workload. `TameSpec`, used by `exec_returns`, adds
that the child reads its input and that a background process ends: without the
first `exec_stdin_stall` shows the stall, and the second is needed because the
joins of the capture threads wait for the end of file.

A panic of `thread::spawn` is not modelled: the release profile aborts on panic.
Deadlock is checked in every run. `RunRoot`, `LifecycleWatcher` and `ExecStream` say
where they may stop (`AllDead`, `Ended`, `Over`).

### Behaviours the models contain and no property forbids

A reader of the passing runs should know of them. Some were found by TLC as
counterexamples to a stronger form of a property; the form that is checked says
which case it excludes.

**Warm pool.**

* Demand above `MAX_FILL_THREADS` is not triggered again by a completing worker,
  as `warm_pool.rs:30` says it is: a worker that succeeds triggers nothing.
* Workers asleep in backoff are not counted in `filling`, so more than
  `MAX_FILL_THREADS` worker threads may exist.
* `fill_to_target_blocking` returns `Ok` below the target when no CPU range is free.
* The CPU range of a VM that `force_kill` could not kill goes to the next slot
  (`warm_pool/inner.rs:130`); `CpusetExclusive` is about the VMs the pool still owns.

**Run root.**

* The guard of a launch exists before the lease (`launch.rs:168`), so a second launch
  of an id that is refused moves the owner's directory away;
  `docs/behaviors/concurrency/stop-launch.md:11` says it cannot. With overlapping
  launches of one id, `delete` unlinks the lock of the next launch (`UnlockLast` with
  `SharedId`).
* An explicit recovery pass that looks at a directory before its lock is written
  removes it under its owner (`backend.rs:204`;
  `docs/behaviors/concurrency/recovery-loop.md:50` says live owners are spared). The
  startup pass cannot meet a launch of its own process.
* On the wrapper path, a failing `record_live_state` (`m80-jailer/src/materialized.rs:312`)
  leaves Firecracker running after the launch has failed, contrary to
  `docs/behaviors/lifecycle/launch-failure-cleanup.md:5`.
* `stop` whose kill fails drops permit and `ownership.lock` with the VM alive
  (`StopFails`), where `force_kill` leaks the sandbox (`ForceKillFails`).
* One directory whose leaf cannot be removed ends the recovery pass with an error
  (`backend.rs:238`), so that later directories wait for the next pass. The model has
  one `vm_id`.

**Watcher.**

* An exec counted after the watcher has loaded `active_execs` is cut off
  (`lifecycle.rs:719`), where `docs/behaviors/lifecycle/idle-timeout.md:89` excludes it.
* File operations, ping, metrics and hotplug in flight do not hold back the shutdown
  request.
* `lifetime_expired` is stored before it is decided which deadline was first, so a
  caller may be told of the lifetime when the watcher goes on to report idleness.
* A watcher that outlives `WATCHER_JOIN_TIMEOUT` may still send its request.

**Stores.**

* A failed or killed import leaves an entry directory without metadata, a killed
  remove metadata without an artifact; `list` and `gc` then fail for the whole store
  until that image is imported again.
* A failed launch leaves its shared-reference marker until the next sweep.
* The sweep's list of run directories is read before the store lock is taken: a VM
  launched in between loses its marker, contrary to
  `docs/behaviors/rootfs/pmem-shared.md:57`. `SharedImageStays` excludes it (`exposed`).
* The template index is read, changed and written without a lock, a builder may die
  between rename and index, pins are known only to their process, and `image rm`
  takes no coordination lock. In each case a template may lose its image;
  `TemplateImageStays` excludes them (`clean`).

**Install.**

* The release policy is judged before the lock is taken (`install.rs:458`,
  `layout.rs:148`), so of two installs planned over the same active release the older
  may end active; `docs/behaviors/install/transaction.md:47` says downgrades are refused.
* A killed install leaves projection, profile or link of the new release with the old
  active pointer, until the next install.
* A kill between the creation of the lock and its record leaves a lock that
  `--repair-stale-install-lock` refuses; two concurrent repairs may both end up with
  the lock.
* An error in finding the previous active release, and one in the second rename of the
  PATH handoff, do not restore link and selectors. `FailureRestores` excludes these
  (`late`).
* `install-cleanup` takes no lock; `CleanupAlone` is an assumption about the operator.
* A bundle without a proof cache leaves the older flat `release-proof-cache`; "already
  installed" does not look at the PATH link.

**Network.**

* Cleanup and rollback take no allocation lock: the bridge may be deleted under a VM of
  another process that wrote its state file after the look for other users (`undercut`;
  `docs/behaviors/network-outbound-nat/ownership.md:8`). What remains may be a bridge
  without a record, which one failed launch repairs, or a ready record without a
  bridge, with which every launch is refused; the client's `cleanup_orphan_bridge` has
  no caller.
* `m80 net cleanup` removes the rules of a VM whose state file is younger than its
  inventory (`exposed`; `docs/behaviors/network/orphan-cleanup.md:3`), and does not find
  an empty chain.
* A failed network cleanup in a launch guard or in recovery is logged, and the
  directory removed all the same (`abandoned`).
* A helper that died is not started again. A slow helper of a dead process may leave a
  rule behind after recovery has cleaned up (excluded by `Settled`).

## 4. Proofs

The theorems hold for every value of the constants: every number of processes,
handles, installers, VMs, chunks and permits. They use the named assumptions of the
modules (finite sets where a cardinality is counted, disjoint names, bounds that are
natural numbers, `None` and the other marks are no handle and no process) and, where a
theorem says `ASSUME`, the condition stated with it below. Every invariant and action
property of the passing runs and the refinement is proved. Each proof module has the
same layout: the parts of the invariant, one lemma per part with one case per action,
then the theorems.

**`WarmPoolProofs`**: `TypeCorrect`, `SingleOwner` (`SlotOwnership`),
`ExclusiveCpusets` (`CpusetExclusive`), `ExactFilling` (`FillingExact`),
`CompleteDrop` (`DropComplete`). The inductive invariant is

    IInv == TypeOK /\ Shape /\ SlotOwnership /\ CpusetExclusive /\ FillingExact /\ DropShape

`SlotOwnership` alone is not inductive: a step that takes "the slot in my hand"
keeps ownership only if that hand is what the thread's place says
(`WorkerShape`, `CallerShape`), the unspawned fills of two threads must be
disjoint for a spawn to count once (`SpawnShape`), and a completed drop stays
complete only because no pool method runs and no fill is counted after it
(`DropShape`).

Relative to `IInv`, three more. `BalancedLedger` (`LedgerBalance`) adds
`LedgerInv`: the field `leased` is the number of live leases, and each step moves one
slot between two counted sets or changes the ledger with it. `CpusetsConserved`
(`CpusetConserved`) adds `RangeInv`: a thread has a CPU range in hand only between the
step that reserves it, or kills the slot it came with, and the step that stores or
releases it. `DeficitIsHandedOver` (`DeficitHandedOver`) adds `CoverInv` and assumes

    WithinCap == Ranges = {} /\ InitTarget <= MaxFillThreads /\ \A n \in ResizeTargets : n <= MaxFillThreads

no CPU allocator, and targets within `MAX_FILL_THREADS`. Outside it the code hands over
less by design: one call starts at most that many fills, and a fill that finds no free
range gives up.

**`LifecycleWatcherProofs`**: `ExpiredGateIsShut` (`GateShut`),
`ShutdownFollowsFlag` (`ClosedBeforeShutdown`, stated only as a theorem), from
`IInv == FlagInv /\ GateInv /\ SendInv`: between the two loads of the gate a late
operation knows that the flag it has not looked at yet is up, flags never come
down, and a watcher about to send has set one. `TypeCorrect` rests on
`CountInv`: the counter is one exactly while an exec is between its `fetch_add`
and its `fetch_sub`. `WatcherSparesCountedExecs` (`CountedExecSpared`) needs both
`CountInv` and `SpareInv`: an exec that was counted before the watcher's load made
the loaded value one, and a watcher that goes on after its look has loaded zero; so
an exec in flight when it fires was counted since and is marked `raced`.

**`RunRootProofs`**. In every configuration: `TypeCorrect`, `PermitsReturned`
(`PermitsExact`), `FailedLaunchIsClean` (`FailedLaunchLeavesNoVm`), from

    Inv == Types /\ LiveInv /\ VmInv /\ PermitInv

`LiveInv` ties a handle that is not gone to a living process, so that a crash gives back
exactly what its handles held; `VmInv` says that a process in the leaf lives and that a
handle before its spawn has none. The range of the semaphores follows from
`PermitsExact`, not the other way round: a handle that is about to return a permit is one
of those counted.

With `~SharedId` (launches of one `vm_id` do not overlap): `LeafIsSingle` (`LeafSingle`),
from `SoleInv` and `LeafInv`. With

    Resident == ~SharedId /\ ~Overlap /\ ~ExplicitRecovery

(one m80 process at a time and recovery only at its start, the deployment of the run
`run_root_resident`): `OwnerKeeps` (`OwnerKeepsDir`), `EnrolledIsTraceable`
(`VmTraceable`), `EvidenceIsKept` (`RecoveryKeepsEvidence`), from
`ResidentInv == SoleInv /\ LeafInv /\ StartupInv /\ OwnerInv /\ TraceInv /\ RecoveryKeepsEvidence`.
The argument: while a startup pass runs there is no handle (`StartupInv`), so what it
removes is nobody's; the directory a handle wrote its lock into has that lock until the
handle itself removes it (`OwnerInv`); and as long as no kill failed a process in the leaf
belongs to a handle, or it is recorded in `jailer-state.json` under the lock of a dead owner
and no process gets past its startup pass before it is killed (`TraceInv`). The violation
run `unit_window` shows what lies outside: the window before the pids are written.

**`ExecStreamProofs`**: `ChildReaped` (`NoChildLeft`), `CancelledIsDead`
(`CancelledMeansDead`), `SequencesAgree` (`SequenceAgrees`), and `ImplementsContract`:
`Spec => Contract`, the host call with its forwarder, the connection and the guest
handler implements `ExecContract`. The invariant is

    Inv == Types /\ FrameTypes /\ ChildInv /\ StreamInv /\ CancelInv /\ ExitInv
           /\ FlowInv /\ SequenceInv /\ MessageInv

`FlowInv` is conservation: for each stream, what the child wrote is what was delivered,
plus what is in the connection, the queue and the pipe, until the call drops frames.
`ExitInv` puts the exit message behind the last output frame, so at a return with an exit
status the parts in between are empty and `delivered = written`, which is the step of the
contract that is hard. `SequenceInv` says that the numbers of the frames in transit
continue the number the host expects without a gap, modulo the size of the number; the host
refuses before its own wraps. `MessageInv`: the handler's own message on the error stream
comes before any output. `ChildInv`, `StreamInv` and `CancelInv` say what the handler knows
of the child, its group and its capture threads at each place.

**`ArtifactStoresProofs`**: `SharedImageKept` (`SharedImageStays`), from `VmInv`: an
active VM has its directory and its reference marker, and a sweep under way has the VM's
directory in its list, except for one made in the window that the property names.
`TemplateImageKept` (`TemplateImageStays`), from
`BuildInv == BuildTypes /\ LockInv /\ (clean => CleanInv)`: builders hold the coordination
lock shared and gc holds it alone (`LockInv`), so while no entry was lost and no build died
unindexed every template body has its index entry, and a gc that has looked has seen it.

**`InstallProofs`**. With `OneRepairer` (no two installers repair a dead owner's lock at
the same time; section 3 describes what two do): `SingleWriter` (`OneWriter`) and
`TypeCorrect`, from `BaseInv`. With `CleanupAlone` as well (the operator runs
`install-cleanup` while no installer runs; it takes no lock): `ActiveIsComplete`
(`ActiveComplete`), `SuccessIsSelection` (`SuccessMeansSelected`), `FailureIsRollback`
(`FailureRestores`), from

    IInv == BaseInv /\ CleanInv /\ ActiveComplete /\ RootInv

`RootInv` says for each place in the transaction which of pointer, version directory, flat
parts, selectors and link are already at the new release and which are still what the
snapshot recorded, forwards and during the rollback; the part counter of `CountInv` splits
the flat parts. It can be stated of one installer because of `OneWriter`.

**`NetOutboundProofs`**: `TypeCorrect` (with the exclusion of the allocation lock),
`AddressesUnique` (`AddressUnique`), `FilterHolds` (`FilteredWhileUp`), `BridgeStays`
(`BridgeUnderVm`), `NothingLeft` (`NoResidue`), from

    Inv == Types /\ LockInv /\ JobInv /\ StateInv /\ ClaimInv /\ BridgeInv /\ FilterInv /\ ResidueInv

`JobInv` is what the others rest on: a `vm_id` has at most one helper, in a place that fits
the state of its VM, so no cleanup runs against a VM that is up. `ClaimInv` gives a wired VM
the claim of its address, although cleanup and rollback take no lock: they remove only the
claim that their own VM made. `BridgeInv`: a helper that goes on to delete the bridge saw
no other state file, so a wired VM wrote its file later and is `undercut`. `FilterInv`:
`net cleanup` removes rules only of suspects, and a VM that is up and suspected is
`exposed`. `ResidueInv`: each teardown step has removed what it is responsible for when the
next begins, or the VM is `abandoned`.

Only model-checked: the liveness properties (`DropTerminates`, `PoolServes`,
`OrphanReaped`, `LifetimeCloses`, `IdleExpires`, `HandlerReturns`), because fairness and
`ENABLED` are out of the prover's reach; and the two violation runs, which are
counterexamples.

## 5. Plan

Done: warm pool, run root, watcher, exec and PTY streams with their contract, the
stores, the install transaction and the network, each with its proofs. Next, in this
order:

1. `RunRoot` with several `vm_id`s (one failed removal ends the pass for all), with
   `Overlap`, and composed with the watcher's late shutdown request.
2. `Uevents`: the guest's registry and its waiters; `WarmOwner`: control socket and
   shutdown.
3. The buffered exec and the remaining PTY controls.

## 6. Not modelled

* Guest boot and sandboxing, jailer hardening, storage preparation: a straight line of
  mounts, copies and system calls without shared state; where they fail, the models
  take it as a failed launch.
* CPU allocator: a pure partition of CPUs; `WarmPool` takes the ranges as a constant.
* Wire framing and the Firecracker client: formats of bytes and HTTP requests. The
  models take frames and requests as delivered whole.
* Preflight, image building, observability, command line: probing, formatting and
  rendering, on which no state of the models depends. An update ends in the install
  transaction, which is modelled.
