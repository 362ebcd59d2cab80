------------------------------ MODULE WarmPool ------------------------------
(***************************************************************************)
(* The warm pool of m80-firecracker: a set of booted VMs ("slots") kept    *)
(* ready for lease, refilled by background fill workers, resized at run    *)
(* time, and torn down by WarmPool::drop.                                  *)
(*                                                                         *)
(* Sources: crates/m80-firecracker/src/warm_pool.rs and warm_pool/         *)
(* {inner,fill_worker,lease}.rs.  WarmPoolState lives behind one mutex;    *)
(* every action below is one critical section of that mutex, or one step   *)
(* the code takes between two critical sections (launching a VM, killing   *)
(* one, spawning a thread, reading or storing the `shutdown` atomic).      *)
(*                                                                         *)
(* Abstractions of data:                                                   *)
(*  - A slot is named by the admission permit it holds, so a launch that   *)
(*    finds no unused member of Slots is Backend::admit refusing.          *)
(*  - `ready` and `free_cpuset_cpus` are deques in the code; no property   *)
(*    here depends on their order, so a pop takes any element.             *)
(*  - fill_attempts_total and discarded only ever grow; what a reader of   *)
(*    WarmPoolSnapshot can rely on is their difference, kept in `ledger`.  *)
(*  - last_fill_error, consecutive_fill_errors and the duration samples    *)
(*    select an error text, a sleep and a metric; they guard nothing.      *)
(***************************************************************************)
EXTENDS Integers, FiniteSets

CONSTANTS
    Callers,          \* threads that hold a &WarmPool, a WarmLease, or both in turn
    Workers,          \* identities of fill-worker threads (reused once a worker exits)
    Slots,            \* admission permits of the backend (max_concurrent_vms of them)
    Ranges,           \* CPU ranges of the WarmPoolCpuAllocator; {} when it is not configured
    NoRange,          \* Option::None for a cpuset
    MaxFillThreads,   \* MAX_FILL_THREADS
    InitTarget,       \* WarmPoolConfig::target_ready
    ResizeTargets,    \* arguments callers pass to set_target_ready
    MaxBackoff,       \* bound: failed fill workers that sleep in backoff at one time
    MaxKillFailures   \* bound: force_kill calls that fail and leak their sandbox

ASSUME CallersWorkersDisjoint == Callers \cap Workers = {}
ASSUME WorkersFinite == IsFiniteSet(Workers)
ASSUME CallersFinite == IsFiniteSet(Callers)
ASSUME SlotsFinite == IsFiniteSet(Slots)
ASSUME RangesAssumption == IsFiniteSet(Ranges) /\ NoRange \notin Ranges
ASSUME BoundsAssumption ==
    /\ MaxFillThreads \in Nat \ {0}
    /\ MaxBackoff \in Nat
    /\ MaxKillFailures \in Nat
\* WarmPool::new: target_ready > 0, at most max_concurrent_vms, and one CPU
\* range per slot of the initial target when an allocator is configured.
ASSUME TargetAssumption ==
    /\ InitTarget \in Nat \ {0}
    /\ InitTarget <= Cardinality(Slots)
    /\ Ranges # {} => Cardinality(Ranges) = InitTarget
    /\ ResizeTargets \subseteq Nat \ {0}

Threads == Callers \cup Workers

VARIABLES
    ready,             \* WarmPoolState::ready
    filling,           \* WarmPoolState::filling
    leased,            \* WarmPoolState::leased
    ledger,            \* fill_attempts_total - discarded
    free_cpuset_cpus,  \* WarmPoolState::free_cpuset_cpus
    target_ready,      \* WarmPoolInner::target_ready
    shutdown,          \* WarmPoolInner::shutdown
    vms,               \* slots whose sandbox exists (its permit is taken)
    dead,              \* slots of vms whose Firecracker process has exited by itself
    lost,              \* slots of vms that force_kill could not kill (mem::forget)
    range,             \* the cpuset a slot's VM is pinned to
    pc,                \* where each thread is
    op,                \* the pool or lease method a caller is in
    hand,              \* slots a thread holds outside the mutex
    cpu,               \* the cpuset a thread holds outside the mutex, not yet or no longer a slot's
    spawns,            \* fills_to_spawn of a thread in start_background_fill
    lease,             \* the WarmLease a caller owns: none, live, or released
    drop,              \* progress of WarmPool::drop
    drained            \* slots WarmPool::drop has taken out of ready and not yet killed

stateVars == <<ready, filling, leased, ledger, free_cpuset_cpus>>
vmVars    == <<vms, dead, lost, range>>
dropVars  == <<shutdown, drop, drained>>
vars == <<stateVars, vmVars, dropVars, target_ready, pc, op, hand, cpu, spawns, lease>>

-----------------------------------------------------------------------------
(* Places of a fill worker that are counted in `filling`.                  *)
FillingPlaces == {"reserved", "starting", "launching", "launched", "push", "discard_kill", "discard"}

\* Places of a fill worker; "backoff" and "spawn" are past its own fill.
WorkerPlaces == FillingPlaces \cup {"none", "backoff", "spawn"}

CallerPlaces == {"idle", "lease_pop", "lease_check", "lease_release", "resize_kill", "resize_release",
                 "fill_check", "fill_reserve", "fill_attempt", "fill_launch", "fill_push",
                 "finish", "refill", "spawn"}

Ops == {"none", "lease", "resize", "fill", "refill", "exec", "discard"}

\* Methods of WarmPool; the caller borrows the pool, so WarmPool::drop cannot have started.
PoolOps == {"lease", "resize", "fill", "refill"}

TypeOK ==
    /\ ready \subseteq Slots
    /\ filling \in Nat
    /\ leased \in Nat
    /\ ledger \in Int
    /\ free_cpuset_cpus \subseteq Ranges
    /\ target_ready \in Nat \ {0}
    /\ shutdown \in BOOLEAN
    /\ vms \subseteq Slots
    /\ dead \subseteq Slots
    /\ lost \subseteq Slots
    /\ range \in [Slots -> Ranges \cup {NoRange}]
    /\ pc \in [Threads -> WorkerPlaces \cup CallerPlaces]
    /\ \A w \in Workers : pc[w] \in WorkerPlaces
    /\ \A c \in Callers : pc[c] \in CallerPlaces
    /\ op \in [Callers -> Ops]
    /\ hand \in [Threads -> SUBSET Slots]
    /\ cpu \in [Threads -> Ranges \cup {NoRange}]
    /\ spawns \in [Threads -> SUBSET Workers]
    /\ lease \in [Callers -> {"none", "live", "released"}]
    /\ drop \in {"live", "loop", "kill", "done"}
    /\ drained \subseteq Slots

Init ==
    /\ ready = {}
    /\ filling = 0
    /\ leased = 0
    /\ ledger = 0
    /\ free_cpuset_cpus = Ranges
    /\ target_ready = InitTarget
    /\ shutdown = FALSE
    /\ vms = {}
    /\ dead = {}
    /\ lost = {}
    /\ range = [s \in Slots |-> NoRange]
    /\ pc = [t \in Threads |-> IF t \in Workers THEN "none" ELSE "idle"]
    /\ op = [c \in Callers |-> "none"]
    /\ hand = [t \in Threads |-> {}]
    /\ cpu = [t \in Threads |-> NoRange]
    /\ spawns = [t \in Threads |-> {}]
    /\ lease = [c \in Callers |-> "none"]
    /\ drop = "live"
    /\ drained = {}

-----------------------------------------------------------------------------
(* Helpers shared by the actions.                                          *)

SaturatingSub(a, b) == IF a > b THEN a - b ELSE 0

Smaller(a, b) == IF a < b THEN a ELSE b

Goto(t, place) == pc' = [pc EXCEPT ![t] = place]

\* Mutant: pushes the Option without looking into it.
ReleaseCpusetUnchecked(t) ==
    /\ free_cpuset_cpus' = free_cpuset_cpus \cup {cpu[t]}
    /\ cpu' = [cpu EXCEPT ![t] = NoRange]

\* Mutant: the cpuset string is dropped instead of pushed back.
ReleaseCpusetDropped(t) ==
    /\ cpu' = [cpu EXCEPT ![t] = NoRange]
    /\ UNCHANGED free_cpuset_cpus

\* WarmPoolState::release_cpuset_cpus on the cpuset thread t holds.
ReleaseCpuset(t) ==
    /\ free_cpuset_cpus' = free_cpuset_cpus \cup ({cpu[t]} \ {NoRange})
    /\ cpu' = [cpu EXCEPT ![t] = NoRange]

\* force_kill then delete on one sandbox.  When force_kill fails it forgets
\* the sandbox: process, permit and cgroup stay, and nobody owns them.
Kill(s) ==
    \/ /\ vms' = vms \ {s}
       /\ dead' = dead \ {s}
       /\ range' = [range EXCEPT ![s] = NoRange]
       /\ UNCHANGED lost
    \/ /\ s \notin dead
       /\ Cardinality(lost) < MaxKillFailures
       /\ lost' = lost \cup {s}
       /\ UNCHANGED <<vms, dead, range>>

\* discard_sandbox by thread t.  An error is only logged, so either way the
\* slot's cpuset string is now the thread's to release.
DiscardSandbox(t, s) ==
    /\ Kill(s)
    /\ cpu' = [cpu EXCEPT ![t] = range[s]]

\* Mutant: the slot takes a copy of the cpuset and the launcher still owns it.
LaunchSlotCloned(t, s) ==
    /\ s \in Slots \ vms
    /\ vms' = vms \cup {s}
    /\ range' = [range EXCEPT ![s] = cpu[t]]
    /\ hand' = [hand EXCEPT ![t] = {s}]
    /\ UNCHANGED <<cpu, dead, lost>>

\* launch_slot succeeds: a permit was free, the VM restored and passed its ready probe.
LaunchSlot(t, s) ==
    /\ s \in Slots \ vms
    /\ vms' = vms \cup {s}
    /\ range' = [range EXCEPT ![s] = cpu[t]]
    /\ cpu' = [cpu EXCEPT ![t] = NoRange]
    /\ hand' = [hand EXCEPT ![t] = {s}]
    /\ UNCHANGED <<dead, lost>>

\* A caller's method returns.
Return(c) ==
    /\ Goto(c, "idle")
    /\ op' = [op EXCEPT ![c] = "none"]

\* A caller with nothing in progress calls a method of the pool.
Call(c, method, place) ==
    /\ pc[c] = "idle"
    /\ lease[c] = "none"
    /\ drop = "live"
    /\ op' = [op EXCEPT ![c] = method]
    /\ Goto(c, place)

-----------------------------------------------------------------------------
(* start_background_fill.                                                  *)

Deficit == SaturatingSub(target_ready, Cardinality(ready) + filling)

\* Mutant: the cap on fill threads is not applied.
FillCountUncapped == Deficit

FillCount == Smaller(Deficit, SaturatingSub(MaxFillThreads, filling))

\* Fills the reservation loop really makes: it breaks at the first missing cpuset.
FillsReserved == IF Ranges = {} THEN FillCount ELSE Smaller(FillCount, Cardinality(free_cpuset_cpus))

\* The cpusets reserve_cpuset_cpus hands to the new workers: one each, all different.
Reservations(new) ==
    IF Ranges = {} THEN {[w \in new |-> NoRange]}
    ELSE {f \in [new -> free_cpuset_cpus] : \A v, w \in new : f[v] = f[w] => v = w}

\* Where a thread goes when its start_background_fill call is over: a worker
\* exits, a caller's method returns.
AfterFill(t) == IF t \in Workers THEN "none" ELSE "idle"

OpAfterFill(t) == [c \in Callers |-> IF c = t THEN "none" ELSE op[c]]

StartBackgroundFillNone(t) ==
    /\ pc[t] \in {"refill", "backoff"}
    /\ shutdown \/ FillsReserved = 0
    /\ Goto(t, AfterFill(t))
    /\ op' = OpAfterFill(t)
    /\ UNCHANGED <<stateVars, vmVars, dropVars, target_ready, hand, cpu, spawns, lease>>

StartBackgroundFill(t) ==
    /\ pc[t] \in {"refill", "backoff"}
    /\ ~shutdown
    /\ FillsReserved > 0
    /\ \E new \in SUBSET {w \in Workers : pc[w] = "none"} :
        /\ Cardinality(new) = FillsReserved
        /\ \E reserved \in Reservations(new) :
            /\ cpu' = [u \in Threads |-> IF u \in new THEN reserved[u] ELSE cpu[u]]
            /\ free_cpuset_cpus' = free_cpuset_cpus \ {reserved[w] : w \in new}
        /\ filling' = filling + FillsReserved
        /\ pc' = [u \in Threads |-> IF u \in new THEN "reserved" ELSE IF u = t THEN "spawn" ELSE pc[u]]
        /\ spawns' = [spawns EXCEPT ![t] = new]
    /\ UNCHANGED <<ready, leased, ledger, vmVars, dropVars, target_ready, op, hand, lease>>

\* spawn_fill_worker: thread::spawn starts one reserved worker.
SpawnFillWorker(t, w) ==
    /\ pc[t] = "spawn"
    /\ w \in spawns[t]
    /\ spawns' = [spawns EXCEPT ![t] = @ \ {w}]
    /\ pc' = [u \in Threads |->
                 CASE u = w -> "starting"
                   [] u = t /\ spawns[t] = {w} -> AfterFill(t)
                   [] OTHER -> pc[u]]
    /\ op' = IF spawns[t] = {w} THEN OpAfterFill(t) ELSE op
    /\ UNCHANGED <<stateVars, vmVars, dropVars, target_ready, hand, cpu, lease>>

-----------------------------------------------------------------------------
(* The fill worker.                                                        *)

\* record_fill_attempt
WorkerStart(w) ==
    /\ pc[w] = "starting"
    /\ ledger' = ledger + 1
    /\ Goto(w, "launching")
    /\ UNCHANGED <<ready, filling, leased, free_cpuset_cpus, vmVars, dropVars, target_ready, op, hand, cpu, spawns, lease>>

WorkerLaunch(w) ==
    /\ pc[w] = "launching"
    /\ \E s \in Slots : LaunchSlot(w, s)
    /\ Goto(w, "launched")
    /\ UNCHANGED <<stateVars, dropVars, target_ready, op, spawns, lease>>

\* Mutant: a failed worker exits without arranging a retry.
WorkerFailNoRetry(w) ==
    /\ pc[w] = "launching"
    /\ filling' = SaturatingSub(filling, 1)
    /\ ReleaseCpuset(w)
    /\ ledger' = ledger - 1
    /\ Goto(w, "none")
    /\ UNCHANGED <<ready, leased, vmVars, dropVars, target_ready, op, hand, spawns, lease>>

\* launch_slot returned an error or panicked (caught): uncount, release the
\* cpuset, record the failure, then sleep before calling start_background_fill.
WorkerFail(w) ==
    /\ pc[w] = "launching"
    /\ Cardinality({v \in Workers : pc[v] \in {"backoff", "spawn"}}) < MaxBackoff
    /\ filling' = SaturatingSub(filling, 1)
    /\ ReleaseCpuset(w)
    /\ ledger' = ledger - 1
    /\ Goto(w, "backoff")
    /\ UNCHANGED <<ready, leased, vmVars, dropVars, target_ready, op, hand, spawns, lease>>

\* The worker loads `shutdown` outside the mutex and commits to one arm.
WorkerLoadShutdown(w) ==
    /\ pc[w] = "launched"
    /\ Goto(w, IF shutdown THEN "discard_kill" ELSE "push")
    /\ UNCHANGED <<stateVars, vmVars, dropVars, target_ready, op, hand, cpu, spawns, lease>>

\* Success: the slot joins ready; the worker exits without another refill.
WorkerPush(w) ==
    /\ pc[w] = "push"
    /\ filling' = SaturatingSub(filling, 1)
    /\ ready' = ready \cup hand[w]
    /\ hand' = [hand EXCEPT ![w] = {}]
    /\ Goto(w, "none")
    /\ UNCHANGED <<leased, ledger, free_cpuset_cpus, vmVars, dropVars, target_ready, op, cpu, spawns, lease>>

WorkerDiscardKill(w) ==
    /\ pc[w] = "discard_kill"
    /\ \E s \in hand[w] : DiscardSandbox(w, s)
    /\ hand' = [hand EXCEPT ![w] = {}]
    /\ Goto(w, "discard")
    /\ UNCHANGED <<stateVars, dropVars, target_ready, op, spawns, lease>>

\* Mutant: the shutdown arm forgets to uncount its fill.
WorkerDiscardCounted(w) ==
    /\ pc[w] = "discard"
    /\ ReleaseCpuset(w)
    /\ ledger' = ledger - 1
    /\ Goto(w, "none")
    /\ UNCHANGED <<ready, filling, leased, vmVars, dropVars, target_ready, op, hand, spawns, lease>>

WorkerDiscard(w) ==
    /\ pc[w] = "discard"
    /\ filling' = SaturatingSub(filling, 1)
    /\ ReleaseCpuset(w)
    /\ ledger' = ledger - 1
    /\ Goto(w, "none")
    /\ UNCHANGED <<ready, leased, vmVars, dropVars, target_ready, op, hand, spawns, lease>>

-----------------------------------------------------------------------------
(* try_lease.                                                              *)

\* Mutant: the slot is handed out but stays in the queue.
PeekReady(c) ==
    /\ \E s \in ready : hand' = [hand EXCEPT ![c] = {s}]
    /\ UNCHANGED <<stateVars, vmVars, dropVars, target_ready, cpu, spawns, lease>>

\* ready.pop_front(): the slot leaves the pool and is checked outside the mutex.
PopReady(c) ==
    /\ \E s \in ready :
        /\ ready' = ready \ {s}
        /\ hand' = [hand EXCEPT ![c] = {s}]
    /\ UNCHANGED <<filling, leased, ledger, free_cpuset_cpus, vmVars, dropVars, target_ready, cpu, spawns, lease>>

\* On an empty pool the first iteration returns PoolEmpty and changes nothing.
TryLease(c) ==
    /\ Call(c, "lease", "lease_check")
    /\ PopReady(c)

\* A later iteration, after a dead slot was discarded.
TryLeaseNext(c) ==
    /\ pc[c] = "lease_pop"
    /\ PopReady(c)
    /\ Goto(c, "lease_check")
    /\ UNCHANGED op

\* Mutant: returns PoolEmpty without the refill.
TryLeaseEmptyNoRefill(c) ==
    /\ pc[c] = "lease_pop"
    /\ ready = {}
    /\ Return(c)
    /\ UNCHANGED <<stateVars, vmVars, dropVars, target_ready, hand, cpu, spawns, lease>>

\* PoolEmpty after dead slots were discarded: refill before returning.
TryLeaseEmpty(c) ==
    /\ pc[c] = "lease_pop"
    /\ ready = {}
    /\ Goto(c, "refill")
    /\ UNCHANGED <<stateVars, vmVars, dropVars, target_ready, op, hand, cpu, spawns, lease>>

\* is_live: the slot is leased and its replacement requested.
LeaseAcquire(c) ==
    /\ pc[c] = "lease_check"
    /\ hand[c] \cap dead = {}
    /\ leased' = leased + 1
    /\ lease' = [lease EXCEPT ![c] = "live"]
    /\ Goto(c, "refill")
    /\ UNCHANGED <<ready, filling, ledger, free_cpuset_cpus, vmVars, dropVars, target_ready, op, hand, cpu, spawns>>

\* discard_unleased_slot, the part outside the mutex.
LeaseDiscardDead(c) ==
    /\ pc[c] = "lease_check"
    /\ \E s \in hand[c] \cap dead : DiscardSandbox(c, s)
    /\ hand' = [hand EXCEPT ![c] = {}]
    /\ Goto(c, "lease_release")
    /\ UNCHANGED <<stateVars, dropVars, target_ready, op, spawns, lease>>

\* Mutant: a dead ready slot is not counted in `discarded`.
LeaseReleaseDeadUncounted(c) ==
    /\ pc[c] = "lease_release"
    /\ ReleaseCpuset(c)
    /\ Goto(c, "lease_pop")
    /\ UNCHANGED <<ready, filling, leased, ledger, vmVars, dropVars, target_ready, op, hand, spawns, lease>>

\* discard_unleased_slot, the critical section; try_lease loops.
LeaseReleaseDead(c) ==
    /\ pc[c] = "lease_release"
    /\ ledger' = ledger - 1
    /\ ReleaseCpuset(c)
    /\ Goto(c, "lease_pop")
    /\ UNCHANGED <<ready, filling, leased, vmVars, dropVars, target_ready, op, hand, spawns, lease>>

-----------------------------------------------------------------------------
(* WarmLease.  exec on a one-shot slot, and a failed attach_drive_verified *)
(* or detach_drive, discard the VM and leave a released lease behind;      *)
(* discard and drop consume the lease.  Exec on a reusable slot and the    *)
(* file operations change nothing the pool can see.                        *)

LeaseKill(c, method) ==
    /\ pc[c] = "idle"
    /\ lease[c] = "live"
    /\ \E s \in hand[c] : DiscardSandbox(c, s)
    /\ hand' = [hand EXCEPT ![c] = {}]
    /\ op' = [op EXCEPT ![c] = method]
    /\ Goto(c, "finish")
    /\ UNCHANGED <<stateVars, dropVars, target_ready, spawns, lease>>

LeaseExecAndDiscard(c) == LeaseKill(c, "exec")

LeaseDiscard(c) == LeaseKill(c, "discard")

\* release_and_refill on a lease that is not yet released: lease_finished.
LeaseFinished(c) ==
    /\ pc[c] = "finish"
    /\ leased' = SaturatingSub(leased, 1)
    /\ ledger' = ledger - 1
    /\ ReleaseCpuset(c)
    /\ lease' = [lease EXCEPT ![c] = IF op[c] = "exec" THEN "released" ELSE "none"]
    /\ Goto(c, "refill")
    /\ UNCHANGED <<ready, filling, vmVars, dropVars, target_ready, op, hand, spawns>>

\* discard or drop of a lease whose slot is gone: `released` makes
\* release_and_refill return at once.
LeaseDiscardReleased(c) ==
    /\ pc[c] = "idle"
    /\ lease[c] = "released"
    /\ lease' = [lease EXCEPT ![c] = "none"]
    /\ UNCHANGED <<stateVars, vmVars, dropVars, target_ready, pc, op, hand, cpu, spawns>>

-----------------------------------------------------------------------------
(* set_target_ready and the public start_background_fill.                  *)

\* validate_target_ready_against_backend and the allocator's capacity.
ValidTarget(n) == n <= Cardinality(Slots) /\ (Ranges # {} => n <= Cardinality(Ranges))

\* One critical section stores the target and pops the surplus ready slots.
SetTargetReady(c, n) ==
    /\ ValidTarget(n)
    /\ target_ready' = n
    /\ \E discard \in SUBSET ready :
        /\ Cardinality(discard) = SaturatingSub(Cardinality(ready), n)
        /\ ready' = ready \ discard
        /\ hand' = [hand EXCEPT ![c] = discard]
        /\ ledger' = ledger - Cardinality(discard)
        /\ Call(c, "resize", IF discard = {} THEN "refill" ELSE "resize_kill")
    /\ UNCHANGED <<filling, leased, free_cpuset_cpus, vmVars, dropVars, cpu, spawns, lease>>

ResizeKill(c) ==
    /\ pc[c] = "resize_kill"
    /\ \E s \in hand[c] :
        /\ DiscardSandbox(c, s)
        /\ hand' = [hand EXCEPT ![c] = @ \ {s}]
    /\ Goto(c, "resize_release")
    /\ UNCHANGED <<stateVars, dropVars, target_ready, op, spawns, lease>>

ResizeRelease(c) ==
    /\ pc[c] = "resize_release"
    /\ ReleaseCpuset(c)
    /\ Goto(c, IF hand[c] = {} THEN "refill" ELSE "resize_kill")
    /\ UNCHANGED <<ready, filling, leased, ledger, vmVars, dropVars, target_ready, op, hand, spawns, lease>>

PoolStartBackgroundFill(c) ==
    /\ Call(c, "refill", "refill")
    /\ UNCHANGED <<stateVars, vmVars, dropVars, target_ready, hand, cpu, spawns, lease>>

-----------------------------------------------------------------------------
(* fill_to_target_blocking: one loop iteration is five critical sections.  *)

FillToTargetBlocking(c) ==
    /\ Call(c, "fill", "fill_check")
    /\ UNCHANGED <<stateVars, vmVars, dropVars, target_ready, hand, cpu, spawns, lease>>

\* The loop head returns Ok once enough slots are ready.
FillCheck(c) ==
    /\ pc[c] = "fill_check"
    /\ IF Cardinality(ready) >= target_ready
          THEN Return(c)
          ELSE Goto(c, "fill_reserve") /\ UNCHANGED op
    /\ UNCHANGED <<stateVars, vmVars, dropVars, target_ready, hand, cpu, spawns, lease>>

\* No cpuset left: the call returns Ok.
FillNoCpuset(c) ==
    /\ pc[c] = "fill_reserve"
    /\ Ranges # {}
    /\ free_cpuset_cpus = {}
    /\ Return(c)
    /\ UNCHANGED <<stateVars, vmVars, dropVars, target_ready, hand, cpu, spawns, lease>>

FillReserve(c) ==
    /\ pc[c] = "fill_reserve"
    /\ \E reserved \in Reservations({c}) :
        /\ cpu' = [cpu EXCEPT ![c] = reserved[c]]
        /\ free_cpuset_cpus' = free_cpuset_cpus \ {reserved[c]}
    /\ Goto(c, "fill_attempt")
    /\ UNCHANGED <<ready, filling, leased, ledger, vmVars, dropVars, target_ready, op, hand, spawns, lease>>

FillAttempt(c) ==
    /\ pc[c] = "fill_attempt"
    /\ ledger' = ledger + 1
    /\ Goto(c, "fill_launch")
    /\ UNCHANGED <<ready, filling, leased, free_cpuset_cpus, vmVars, dropVars, target_ready, op, hand, cpu, spawns, lease>>

FillLaunch(c) ==
    /\ pc[c] = "fill_launch"
    /\ \E s \in Slots : LaunchSlot(c, s)
    /\ Goto(c, "fill_push")
    /\ UNCHANGED <<stateVars, dropVars, target_ready, op, spawns, lease>>

\* launch_slot failed: the call returns the error, with no refill.
FillFail(c) ==
    /\ pc[c] = "fill_launch"
    /\ ReleaseCpuset(c)
    /\ ledger' = ledger - 1
    /\ Return(c)
    /\ UNCHANGED <<ready, filling, leased, vmVars, dropVars, target_ready, hand, spawns, lease>>

FillPush(c) ==
    /\ pc[c] = "fill_push"
    /\ ready' = ready \cup hand[c]
    /\ hand' = [hand EXCEPT ![c] = {}]
    /\ Goto(c, "fill_check")
    /\ UNCHANGED <<filling, leased, ledger, free_cpuset_cpus, vmVars, dropVars, target_ready, op, cpu, spawns, lease>>

-----------------------------------------------------------------------------
(* WarmPool::drop.  It needs the pool by value, so no caller is inside a   *)
(* pool method; leases hold their own Arc and may outlive it.              *)

\* shutdown.store(true), outside the mutex
DropStart ==
    /\ drop = "live"
    /\ \A c \in Callers : op[c] \notin PoolOps
    /\ shutdown' = TRUE
    /\ drop' = "loop"
    /\ UNCHANGED <<stateVars, vmVars, drained, target_ready, pc, op, hand, cpu, spawns, lease>>

\* Mutant: drop does not wait for fills in progress.
DropReturnEarly ==
    /\ drop = "loop"
    /\ ready = {}
    /\ drop' = "done"
    /\ UNCHANGED <<stateVars, vmVars, shutdown, drained, target_ready, pc, op, hand, cpu, spawns, lease>>

\* Returns once nothing is ready and nothing is filling; while something is
\* filling and nothing is ready it waits on the condition variable.
DropReturn ==
    /\ drop = "loop"
    /\ ready = {}
    /\ filling = 0
    /\ drop' = "done"
    /\ UNCHANGED <<stateVars, vmVars, shutdown, drained, target_ready, pc, op, hand, cpu, spawns, lease>>

DropDrain ==
    /\ drop = "loop"
    /\ ready # {}
    /\ drained' = ready
    /\ ready' = {}
    /\ ledger' = ledger - Cardinality(ready)
    /\ drop' = "kill"
    /\ UNCHANGED <<filling, leased, free_cpuset_cpus, vmVars, shutdown, target_ready, pc, op, hand, cpu, spawns, lease>>

\* discard_sandbox on one drained slot; its cpuset string is dropped with it.
DropKill(s) ==
    /\ drop = "kill"
    /\ s \in drained
    /\ drained' = drained \ {s}
    /\ drop' = IF drained = {s} THEN "loop" ELSE "kill"
    /\ Kill(s)
    /\ UNCHANGED <<stateVars, shutdown, target_ready, pc, op, hand, cpu, spawns, lease>>

\* The Firecracker process of a ready slot exits by itself.
VmDies(s) ==
    /\ s \in ready \ dead
    /\ dead' = dead \cup {s}
    /\ UNCHANGED <<stateVars, vms, lost, range, dropVars, target_ready, pc, op, hand, cpu, spawns, lease>>

-----------------------------------------------------------------------------
Worker(w) ==
    \/ WorkerStart(w)
    \/ WorkerLaunch(w)
    \/ WorkerFail(w)
    \/ WorkerLoadShutdown(w)
    \/ WorkerPush(w)
    \/ WorkerDiscardKill(w)
    \/ WorkerDiscard(w)

Refill(t) ==
    \/ StartBackgroundFillNone(t)
    \/ StartBackgroundFill(t)
    \/ \E w \in Workers : SpawnFillWorker(t, w)

\* The steps of a method a caller is already in.
CallerStep(c) ==
    \/ TryLeaseNext(c)
    \/ TryLeaseEmpty(c)
    \/ LeaseAcquire(c)
    \/ LeaseDiscardDead(c)
    \/ LeaseReleaseDead(c)
    \/ LeaseFinished(c)
    \/ ResizeKill(c)
    \/ ResizeRelease(c)
    \/ FillCheck(c)
    \/ FillNoCpuset(c)
    \/ FillReserve(c)
    \/ FillAttempt(c)
    \/ FillLaunch(c)
    \/ FillFail(c)
    \/ FillPush(c)

\* The calls a caller may make.
CallerCall(c) ==
    \/ TryLease(c)
    \/ LeaseExecAndDiscard(c)
    \/ LeaseDiscard(c)
    \/ LeaseDiscardReleased(c)
    \/ \E n \in ResizeTargets : SetTargetReady(c, n)
    \/ PoolStartBackgroundFill(c)
    \/ FillToTargetBlocking(c)

DropStep ==
    \/ DropReturn
    \/ DropDrain
    \/ \E s \in Slots : DropKill(s)

\* The pool is gone and every thread is at rest.
Terminated ==
    /\ drop = "done"
    /\ \A w \in Workers : pc[w] = "none"
    /\ \A c \in Callers : pc[c] = "idle" /\ lease[c] = "none"
    /\ UNCHANGED vars

Next ==
    \/ \E w \in Workers : Worker(w)
    \/ \E t \in Threads : Refill(t)
    \/ \E c \in Callers : CallerStep(c)
    \/ \E c \in Callers : CallerCall(c)
    \/ DropStart
    \/ DropStep
    \/ \E s \in Slots : VmDies(s)
    \/ Terminated

Spec == Init /\ [][Next]_vars

(***************************************************************************)
(* Fairness.  Threads are scheduled by the OS, so a thread inside a method *)
(* or a worker keeps taking steps.  Callers need not call anything.        *)
(***************************************************************************)
Fairness ==
    /\ \A w \in Workers : WF_vars(Worker(w))
    /\ \A t \in Threads : WF_vars(Refill(t))
    /\ \A c \in Callers : WF_vars(CallerStep(c))
    /\ WF_vars(DropStep)

FairSpec == Spec /\ Fairness

\* A launch that is attempted again and again succeeds some time.
LaunchesSucceed == \A w \in Workers : SF_vars(WorkerLaunch(w))

-----------------------------------------------------------------------------
(* Safety.                                                                 *)

\* Every VM the pool booted and has not deleted has exactly one owner that
\* will kill it: the ready queue, one thread (a fill worker, a caller or its
\* lease), or WarmPool::drop; only VMs that force_kill gave up on have none.
SlotOwnership ==
    /\ vms \ lost = ready \cup drained \cup UNION {hand[t] : t \in Threads}
    /\ lost \subseteq vms
    /\ ready \cap drained = {}
    /\ \A t \in Threads : hand[t] \cap (ready \cup drained) = {}
    /\ \A t, u \in Threads : t # u => hand[t] \cap hand[u] = {}

\* A CPU range is never in two places: free, reserved by a thread, or pinned
\* by a VM the pool still owns.
CpusetExclusive ==
    /\ \A t \in Threads : cpu[t] \notin free_cpuset_cpus
    /\ \A s \in vms \ lost : range[s] \notin free_cpuset_cpus
    /\ \A t, u \in Threads : t # u /\ cpu[t] = cpu[u] => cpu[t] = NoRange
    /\ \A s, r \in vms \ lost : s # r /\ range[s] = range[r] => range[s] = NoRange
    /\ \A t \in Threads, s \in vms \ lost : cpu[t] = range[s] => cpu[t] = NoRange

\* Until the pool shuts down no CPU range leaks: each is free, reserved or pinned.
CpusetConserved ==
    ~shutdown => Ranges \subseteq free_cpuset_cpus \cup {cpu[t] : t \in Threads}
                                                  \cup {range[s] : s \in vms \ lost}

\* `filling` counts exactly the workers that have not yet reported their
\* fill, and never exceeds MAX_FILL_THREADS.
FillingExact ==
    /\ filling = Cardinality({w \in Workers : pc[w] \in FillingPlaces})
    /\ filling <= MaxFillThreads

\* Places of a thread between recording its fill attempt and publishing or
\* discarding the slot, or between popping a ready slot and leasing or discarding it.
InFlightPlaces == {"launching", "launched", "push", "discard_kill", "discard",
                   "fill_launch", "fill_push", "lease_check", "lease_release"}

\* The counters of WarmPoolSnapshot balance: every fill attempt is in flight,
\* ready, leased, or counted exactly once in `discarded`.
LedgerBalance ==
    ledger = Cardinality(ready) + leased + Cardinality({t \in Threads : pc[t] \in InFlightPlaces})

\* Once WarmPool::drop has returned, nothing is ready or being filled, and
\* the only VMs left belong to leases (or could not be killed).
DropComplete ==
    drop = "done" =>
        /\ ready = {}
        /\ filling = 0
        /\ vms \ lost = UNION {hand[c] : c \in {d \in Callers : lease[d] = "live"}}

-----------------------------------------------------------------------------
(* Action and liveness properties.                                         *)

Covered == Cardinality(ready) + filling >= target_ready

\* Places from which a thread always goes on to start_background_fill.
TriggerPlaces == {"refill", "backoff", "lease_check", "lease_release", "lease_pop",
                  "resize_kill", "resize_release", "finish"}

TriggerPending == \E t \in Threads : pc[t] \in TriggerPlaces

\* Without a CPU allocator and with target_ready <= MAX_FILL_THREADS, no step
\* orphans a deficit: while the pool is covered by ready plus filling slots,
\* or some thread still has to call start_background_fill, that stays so.
DeficitHandedOver ==
    [][Covered \/ TriggerPending => (Covered \/ TriggerPending \/ shutdown)']_vars

\* WarmPool::drop terminates: it never waits for a fill that nobody reports.
DropTerminates == drop = "loop" ~> drop = "done"

\* If launches succeed some time, a pool that was asked to fill gets a ready
\* slot again (or is shut down).
PoolServes == LaunchesSucceed => (TriggerPending ~> (ready # {} \/ shutdown))
=============================================================================
