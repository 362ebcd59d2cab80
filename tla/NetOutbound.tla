----------------------------- MODULE NetOutbound -----------------------------
(***************************************************************************)
(* Outbound networking of one run root: the bridge all its VMs share, the  *)
(* address claims, the network-state file, links and iptables rules of     *)
(* each VM, and the helper process every m80 process has for changing      *)
(* them. A helper serves one request at a time and finishes it even if its *)
(* m80 process dies. realize_bridge_and_tap allocates under a file lock;   *)
(* rollback and cleanup_vm take no lock. Files are written atomically.     *)
(*                                                                         *)
(* Two assumptions keep a vm_id to one helper at a time: it is launched    *)
(* again only once its run directory is gone, and recovery does not meet a *)
(* helper that still serves the last request of a dead process for it      *)
(* (Settled). What touches only one VM may then be one step.               *)
(***************************************************************************)
EXTENDS Naturals

CONSTANTS
    Vms, Procs,
    Addrs,       \* guest addresses of the bridge network
    None,
    MaxCrashes,  \* bound: m80 processes that die
    MaxFailures  \* bound: netlink, iptables or file operations that fail

ASSUME NetAssumption ==
    /\ None \notin Vms \cup Procs
    /\ MaxCrashes \in Nat /\ MaxFailures \in Nat

Rules == {"chain", "forward", "nat"}

\* Positions of a helper: allocation under the lock, links, teardown.
AllocationSteps == {"make", "address", "promote", "claim", "record"}
LinkSteps == {"links", "ready"}
TeardownSteps == {"rules", "unlink", "del_bridge", "del_record", "unclaim", "state",
                  "orphan_bridge", "orphan_record"}

VARIABLES
    addr,     \* the address derived from a vm_id
    bridge,   \* the bridge link: "none", "bare" (no address), "up"
    record,   \* outbound-bridge-state.json: "none", "planned", "ready"
    claim,    \* the claim file of an address
    state,    \* network-state.json: "none", "planned", "ready", "configured"
    topo,     \* namespace and veth pair: "none", "loose", "joined" to the bridge
    rules,    \* iptables objects of a VM
    lock,     \* the helper that holds the allocation lock
    pc, op, job,   \* a helper: position, request and its vm_id
    vm,       \* what m80 is doing with a vm_id
    owner,    \* the process that does it
    up,       \* VMs whose Firecracker runs
    alive,    \* m80 processes
    suspects, \* `m80 net cleanup`: the vm_ids without a state file in its inventory
    failures, crashes,
    undercut, \* history: they wrote a state file while a cleanup that had found no
              \* other user was about to delete the bridge
    exposed,  \* history: they wrote a state file after net cleanup had missed it
    abandoned \* history: a teardown step of theirs failed

netVars == <<addr, bridge, record, claim, state, topo, rules>>
helperVars == <<pc, op, job>>
vmVars == <<vm, owner, up, alive>>
bounds == <<failures, crashes>>
history == <<undercut, exposed, abandoned>>
vars == <<netVars, lock, helperVars, vmVars, suspects, bounds, history>>

Init ==
    /\ addr \in [Vms -> Addrs]
    /\ bridge = "none" /\ record = "none"
    /\ claim = [a \in Addrs |-> None]
    /\ state = [v \in Vms |-> "none"] /\ topo = [v \in Vms |-> "none"]
    /\ rules = [v \in Vms |-> {}]
    /\ lock = None
    /\ pc = [p \in Procs |-> "idle"] /\ op = [p \in Procs |-> "none"]
    /\ job = [p \in Procs |-> None]
    /\ vm = [v \in Vms |-> "absent"] /\ owner = [v \in Vms |-> None]
    /\ up = {} /\ alive = Procs /\ suspects = {}
    /\ failures = 0 /\ crashes = 0
    /\ undercut = {} /\ exposed = {} /\ abandoned = {}

-----------------------------------------------------------------------------
(* The helper: realize_bridge_and_tap.                                      *)

\* The m80 thread holds the client's mutex until the reply.
Request(p, v, o, first) ==
    /\ p \in alive /\ pc[p] = "idle"
    /\ pc' = [pc EXCEPT ![p] = first]
    /\ op' = [op EXCEPT ![p] = o]
    /\ job' = [job EXCEPT ![p] = v]

Goto(p, l) == pc' = [pc EXCEPT ![p] = l] /\ UNCHANGED <<op, job>>

Step(p, from, to) ==
    /\ pc[p] = from
    /\ Goto(p, to)
    /\ UNCHANGED <<addr, vmVars, suspects, bounds>>

HelperWorks(v) == \E p \in Procs : job[p] = v

\* A state file of another VM in the run root.
Peers(v) == \E w \in Vms \ {v} : state[w] # "none"

\* reject_guest_ipv4_collision, before the lock is taken.
RejectCollision(p) ==
    LET v == job[p]
        taken == \E w \in Vms \ {v} : state[w] # "none" /\ addr[w] = addr[v]
    IN  /\ Step(p, "check", IF taken THEN "err" ELSE "lock")
        /\ UNCHANGED <<netVars, lock, history>>

LockAllocation(p) ==
    /\ lock = None
    /\ lock' = p
    /\ Step(p, "lock", "bridge")
    /\ UNCHANGED <<netVars, history>>

\* An early return of realize lets the lock go.
AllocationFails(p, from) ==
    /\ Step(p, from, "err")
    /\ lock' = None
    /\ UNCHANGED <<netVars, history>>

\* ensure_bridge_ready and recover_planned_bridge decide what is missing.
EnsureBridge(p) ==
    \/ /\ record = "ready" /\ bridge = "up"
       /\ Step(p, "bridge", "claim")
       /\ UNCHANGED <<netVars, lock, history>>
    \/ /\ record = "ready" /\ bridge # "up"
       /\ AllocationFails(p, "bridge")
    \/ /\ record # "ready" /\ (record = "none" \/ bridge = "none")
       /\ record' = "planned"
       /\ Step(p, "bridge", "make")
       /\ UNCHANGED <<bridge, claim, state, topo, rules, lock, history>>
    \/ /\ record = "planned" /\ bridge # "none"
       /\ Step(p, "bridge", IF bridge = "bare" THEN "address" ELSE "promote")
       /\ UNCHANGED <<netVars, lock, history>>

CreateBridge(p) ==
    \/ /\ bridge = "none" /\ bridge' = "bare"
       /\ Step(p, "make", "address")
       /\ UNCHANGED <<record, claim, state, topo, rules, lock, history>>
    \/ bridge # "none" /\ AllocationFails(p, "make")

\* add_ipv4_address and set_link_up; both need the link.
AddAddress(p) ==
    \/ /\ bridge = "bare" /\ bridge' = "up"
       /\ Step(p, "address", "promote")
       /\ UNCHANGED <<record, claim, state, topo, rules, lock, history>>
    \/ bridge # "bare" /\ AllocationFails(p, "address")

WriteBridgeReady(p) ==
    /\ record' = "ready"
    /\ Step(p, "promote", "claim")
    /\ UNCHANGED <<bridge, claim, state, topo, rules, lock, history>>

\* Mutant: a claim is overwritten whoever holds it.
ClaimableAny(v) == TRUE

\* A claim is free, one's own, or its owner has no state file any more.
Claimable(v) == claim[addr[v]] \in {None, v} \cup {w \in Vms : state[w] = "none"}

\* read_bridge_state, which fails if the record is gone again, and the claim.
ClaimGuestIpv4(p) ==
    LET v == job[p]
    IN  \/ /\ record # "none" /\ Claimable(v)
           /\ claim' = [claim EXCEPT ![addr[v]] = v]
           /\ Step(p, "claim", "record")
           /\ UNCHANGED <<bridge, record, state, topo, rules, lock, history>>
        \/ record = "none" /\ AllocationFails(p, "claim")
        \/ record # "none" /\ ~Claimable(v) /\ AllocationFails(p, "claim")

\* A helper has found no user of the bridge and not yet deleted it.
BridgeCondemned == \E p \in Procs : pc[p] \in {"del_bridge", "orphan_bridge"}

\* Mutant: the lock is dropped before the state file is written.
RecordUnlocked(p) ==
    \/ /\ lock = p /\ pc[p] = "record" /\ lock' = None
       /\ UNCHANGED <<netVars, helperVars, vmVars, suspects, bounds, history>>
    \/ /\ lock # p
       /\ state' = [state EXCEPT ![job[p]] = "planned"]
       /\ Step(p, "record", "links")
       /\ UNCHANGED <<bridge, record, claim, topo, rules, lock, history>>

\* The state file is written before the allocation lock is dropped.
RecordPlanned(p) ==
    LET v == job[p]
    IN  /\ lock' = None
        /\ state' = [state EXCEPT ![v] = "planned"]
        /\ Step(p, "record", "links")
        /\ undercut' = IF BridgeCondemned THEN undercut \cup {v} ELSE undercut
        /\ exposed' = exposed \cup ({v} \cap suspects)
        /\ UNCHANGED <<bridge, record, claim, topo, rules, abandoned>>

\* create_private_netns_tap_topology: namespace and veth pair, which must be new,
\* and the attachment to the bridge, which must exist.
CreateLinks(p) ==
    LET new == topo[job[p]] = "none"
        joined == new /\ bridge # "none"
    IN  /\ Step(p, "links", IF joined THEN "ready" ELSE "unlink")
        /\ topo' = [topo EXCEPT ![job[p]] =
                       IF joined THEN "joined" ELSE IF new THEN "loose" ELSE @]
        /\ UNCHANGED <<bridge, record, claim, state, rules, lock, history>>

\* The namespace side, the isolation of the bridge port, and the ready record.
RecordReady(p) ==
    LET joined == topo[job[p]] = "joined"
    IN  /\ Step(p, "ready", IF joined THEN "ok" ELSE "unlink")
        /\ state' = [state EXCEPT ![job[p]] = IF joined THEN "ready" ELSE @]
        /\ UNCHANGED <<bridge, record, claim, topo, rules, lock, history>>

-----------------------------------------------------------------------------
(* The helper: rollback of a failed realize, and cleanup_vm.                *)

\* cleanup_vm: without a state file there is no policy to remove.
CleanupVm(p, v) ==
    IF state[v] = "none" THEN Request(p, v, "bare", "unlink")
                         ELSE Request(p, v, "cleanup", "rules")

\* Mutant: the chain and its rules stay.
DeletePolicyEntries(p) ==
    /\ Step(p, "rules", "unlink")
    /\ rules' = [rules EXCEPT ![job[p]] = @ \cap {"chain"}]
    /\ UNCHANGED <<bridge, record, claim, state, topo, lock, history>>

\* cleanup_outbound_nat_policy: FORWARD entries, NAT rule, chain.
DeletePolicy(p) ==
    /\ Step(p, "rules", "unlink")
    /\ rules' = [rules EXCEPT ![job[p]] = {}]
    /\ UNCHANGED <<bridge, record, claim, state, topo, lock, history>>

\* Mutant: the bridge is deleted whoever else uses it.
OtherUsersIgnored(p) == FALSE

\* other_bridge_users_exist: only a cleanup without other users takes the bridge down.
OtherUsers(p) == op[p] # "cleanup" \/ Peers(job[p])

\* teardown_private_netns_tap_topology.
DeleteLinks(p) ==
    /\ Step(p, "unlink", IF OtherUsers(p) THEN "unclaim" ELSE "del_bridge")
    /\ topo' = [topo EXCEPT ![job[p]] = "none"]
    /\ UNCHANGED <<bridge, record, claim, state, rules, lock, history>>

\* The ports of a deleted bridge stay behind, attached to nothing.
DeleteBridge(p) ==
    /\ \/ Step(p, "del_bridge", "del_record")
       \/ Step(p, "orphan_bridge", "orphan_record")
    /\ bridge' = "none"
    /\ topo' = [v \in Vms |-> IF topo[v] = "joined" THEN "loose" ELSE topo[v]]
    /\ UNCHANGED <<record, claim, state, rules, lock, history>>

Reply(p) == IF op[p] = "realize" THEN "err" ELSE "ok"

RemoveBridgeRecord(p) ==
    /\ \/ Step(p, "del_record", "unclaim")
       \/ Step(p, "orphan_record", Reply(p))
    /\ record' = "none"
    /\ UNCHANGED <<bridge, claim, state, topo, rules, lock, history>>

AfterClaim(p) == IF op[p] = "bare" THEN "orphan" ELSE "state"

\* remove_guest_ipv4_claim takes only one's own claim.
RemoveClaim(p) ==
    LET v == job[p]
    IN  /\ Step(p, "unclaim", AfterClaim(p))
        /\ claim' = [claim EXCEPT ![addr[v]] = IF @ = v THEN None ELSE @]
        /\ UNCHANGED <<bridge, record, state, topo, rules, lock, history>>

RemoveState(p) ==
    /\ Step(p, "state", IF op[p] = "cleanup" THEN "ok" ELSE "orphan")
    /\ state' = [state EXCEPT ![job[p]] = "none"]
    /\ UNCHANGED <<bridge, record, claim, topo, rules, lock, history>>

\* cleanup_orphan_bridge.
OrphanBridge(p) ==
    LET keep == record = "none" \/ \E w \in Vms : state[w] # "none"
    IN  /\ Step(p, "orphan", IF keep THEN Reply(p) ELSE "orphan_bridge")
        /\ UNCHANGED <<netVars, lock, history>>

-----------------------------------------------------------------------------
(* The helper: apply_outbound_nat_policy.                                   *)

\* The chain, then the filter and nat tables by iptables-restore.
ApplyOutboundNatPolicy(p) ==
    LET v == job[p]
        good == state[v] = "configured"
    IN  /\ Step(p, "policy", IF good THEN "ok" ELSE "err")
        /\ rules' = [rules EXCEPT ![v] = IF good THEN Rules ELSE @]
        /\ UNCHANGED <<bridge, record, claim, state, topo, lock, history>>

-----------------------------------------------------------------------------
(* A netlink, iptables or file operation fails.                             *)

Fails == failures < MaxFailures /\ failures' = failures + 1

\* A state file that cannot be written takes the claim back.
RealizeFails(p) ==
    LET v == job[p]
    IN  /\ Fails
        /\ \/ pc[p] \in AllocationSteps /\ Goto(p, "err") /\ lock' = None
           \/ pc[p] \in LinkSteps /\ Goto(p, "unlink") /\ UNCHANGED lock
        /\ claim' = [claim EXCEPT ![addr[v]] = IF pc[p] = "record" /\ @ = v THEN None ELSE @]
        /\ UNCHANGED <<addr, bridge, record, state, topo, rules, vmVars, suspects, crashes, history>>

\* The policy is installed in part.
PolicyFails(p) ==
    /\ Fails
    /\ pc[p] = "policy" /\ Goto(p, "err")
    /\ \E part \in {{}, {"chain"}, {"chain", "forward"}} :
         rules' = [rules EXCEPT ![job[p]] = @ \cup part]
    /\ UNCHANGED <<addr, bridge, record, claim, state, topo, lock, vmVars, suspects, crashes, history>>

\* The rest of the teardown is skipped.
TeardownFails(p) ==
    /\ Fails
    /\ pc[p] \in TeardownSteps /\ Goto(p, "err")
    /\ abandoned' = abandoned \cup {job[p]}
    /\ UNCHANGED <<netVars, lock, vmVars, suspects, crashes, undercut, exposed>>

-----------------------------------------------------------------------------
(* m80: launch, stop, delete, crash and recovery of a VM.                   *)

Become(v, s) == vm' = [vm EXCEPT ![v] = s]

\* The reply arrives and the client's mutex is free.
TakeReply(p, v, reply) ==
    /\ p \in alive /\ job[p] = v /\ owner[v] = p
    /\ pc[p] = reply
    /\ pc' = [pc EXCEPT ![p] = "idle"]
    /\ op' = [op EXCEPT ![p] = "none"] /\ job' = [job EXCEPT ![p] = None]

\* The run directory is deleted or moved to .preserved, and the state file with it.
ClearDir(v) ==
    /\ state' = [state EXCEPT ![v] = "none"]
    /\ undercut' = undercut \ {v} /\ exposed' = exposed \ {v}
    /\ Become(v, "absent")
    /\ owner' = [owner EXCEPT ![v] = None]

\* Phase 6.
Launch(p, v) ==
    /\ vm[v] = "absent"
    /\ Request(p, v, "realize", "check")
    /\ Become(v, "realize")
    /\ owner' = [owner EXCEPT ![v] = p]
    /\ UNCHANGED <<netVars, lock, up, alive, suspects, bounds, history>>

\* No network guard exists before phase 6 has succeeded: after a failure only
\* the run directory is removed.
Realized(p, v) ==
    /\ vm[v] = "realize"
    /\ \/ TakeReply(p, v, "ok") /\ Become(v, "realized") /\ UNCHANGED <<state, owner, undercut, exposed>>
       \/ TakeReply(p, v, "err") /\ ClearDir(v)
    /\ UNCHANGED <<addr, bridge, record, claim, topo, rules, lock, up, alive, suspects, bounds, abandoned>>

\* Phase 7: m80 completes the state file and asks for the policy.
Configure(p, v) ==
    /\ owner[v] = p /\ vm[v] = "realized" /\ state[v] = "ready"
    /\ state' = [state EXCEPT ![v] = "configured"]
    /\ Request(p, v, "policy", "policy")
    /\ Become(v, "policy")
    /\ UNCHANGED <<addr, bridge, record, claim, topo, rules, lock, owner, up, alive, suspects, bounds, history>>

\* Mutant: a failed policy request is not looked at.
BootAnyway(p, v) ==
    /\ vm[v] = "policy"
    /\ TakeReply(p, v, "ok") \/ TakeReply(p, v, "err")
    /\ Become(v, "running") /\ up' = up \cup {v}
    /\ UNCHANGED <<netVars, lock, owner, alive, suspects, bounds, history>>

\* Phase 9 boots the VM only with the policy in place.
Boot(p, v) ==
    /\ vm[v] = "policy"
    /\ \/ TakeReply(p, v, "ok") /\ Become(v, "running") /\ up' = up \cup {v}
       \/ TakeReply(p, v, "err") /\ Become(v, "failed") /\ UNCHANGED up
    /\ UNCHANGED <<netVars, lock, owner, alive, suspects, bounds, history>>

\* Firecracker is killed and cleanup_vm requested: by the guards of a launch
\* that failed, or by stop and delete.
Unwind(p, v) ==
    /\ owner[v] = p
    /\ CleanupVm(p, v)
    /\ \/ vm[v] \in {"realized", "failed", "running"} /\ Become(v, "unwind")
       \/ vm[v] = "running" /\ Become(v, "delete")
    /\ up' = up \ {v}
    /\ UNCHANGED <<netVars, lock, owner, alive, suspects, bounds, history>>

\* A failed launch and recovery log an error and remove the directory all the
\* same; delete returns it and leaves the directory, no longer locked.
CleanupReplied(p, v) ==
    /\ \/ /\ vm[v] \in {"unwind", "reap"}
          /\ TakeReply(p, v, "ok") \/ TakeReply(p, v, "err")
          /\ ClearDir(v)
       \/ vm[v] = "delete" /\ TakeReply(p, v, "ok") /\ ClearDir(v)
       \/ /\ vm[v] = "delete" /\ TakeReply(p, v, "err")
          /\ Become(v, "left") /\ owner' = [owner EXCEPT ![v] = None]
          /\ UNCHANGED <<state, undercut, exposed>>
    /\ UNCHANGED <<addr, bridge, record, claim, topo, rules, lock, up, alive, suspects, bounds, abandoned>>

\* RUN_DIR_DELETE_TIMEOUT: the request goes on without anyone waiting for it.
DeleteTimesOut(p, v) ==
    /\ p \in alive /\ owner[v] = p /\ vm[v] = "delete"
    /\ Become(v, "left")
    /\ owner' = [owner EXCEPT ![v] = None]
    /\ UNCHANGED <<netVars, lock, helperVars, up, alive, suspects, bounds, history>>

\* A reply nobody waits for; the helper of a dead process ends.
ReplyUnread(p) ==
    /\ pc[p] \in {"ok", "err"}
    /\ p \notin alive \/ owner[job[p]] # p
    /\ pc' = [pc EXCEPT ![p] = IF p \in alive THEN "idle" ELSE "gone"]
    /\ op' = [op EXCEPT ![p] = "none"] /\ job' = [job EXCEPT ![p] = None]
    /\ UNCHANGED <<netVars, lock, vmVars, suspects, bounds, history>>

\* The m80 process dies; its VMs run on and its helper finishes what it does.
Crash(p) ==
    /\ p \in alive /\ crashes < MaxCrashes
    /\ alive' = alive \ {p}
    /\ crashes' = crashes + 1
    /\ vm' = [v \in Vms |-> IF owner[v] = p THEN "orphan" ELSE vm[v]]
    /\ owner' = [v \in Vms |-> IF owner[v] = p THEN None ELSE owner[v]]
    /\ UNCHANGED <<netVars, lock, helperVars, up, suspects, failures, history>>

Settled(v) == ~HelperWorks(v)

\* Killing the orphan comes before its network is cleaned up.
KillOrphan(v) == up' = up \ {v}

\* recover_stale_run_root: the network is cleaned up if there is a state file,
\* and the directory is removed.
Recover(p, v) ==
    /\ vm[v] \in {"orphan", "left"} /\ Settled(v)
    /\ KillOrphan(v)
    /\ \/ /\ state[v] # "none"
          /\ CleanupVm(p, v)
          /\ Become(v, "reap") /\ owner' = [owner EXCEPT ![v] = p]
          /\ UNCHANGED <<state, undercut, exposed>>
       \/ /\ state[v] = "none" /\ p \in alive
          /\ ClearDir(v)
          /\ UNCHANGED helperVars
    /\ UNCHANGED <<addr, bridge, record, claim, topo, rules, lock, alive, suspects, bounds, abandoned>>

-----------------------------------------------------------------------------
(* m80 net cleanup.                                                         *)

TakeInventory ==
    /\ suspects = {}
    /\ suspects' = {v \in Vms : state[v] = "none"}
    /\ UNCHANGED <<netVars, lock, helperVars, vmVars, bounds, history>>

\* Rules are orphans if their VM had no state file when the inventory was taken.
\* They go by table, and last the chains those rules name: an empty chain that no
\* rule jumps to is not found.
RemoveOrphanRules(v) ==
    /\ v \in suspects /\ rules[v] \ {"chain"} # {}
    /\ rules' = [rules EXCEPT ![v] = {}]
    /\ UNCHANGED <<addr, bridge, record, claim, state, topo, lock, helperVars, vmVars, suspects, bounds, history>>

CleanupEnds ==
    /\ suspects # {}
    /\ suspects' = {}
    /\ UNCHANGED <<netVars, lock, helperVars, vmVars, bounds, history>>

-----------------------------------------------------------------------------
HelperStep(p) ==
    /\ job[p] # None
    /\ \/ RejectCollision(p) \/ LockAllocation(p) \/ EnsureBridge(p) \/ CreateBridge(p) \/ AddAddress(p)
       \/ WriteBridgeReady(p) \/ ClaimGuestIpv4(p) \/ RecordPlanned(p)
       \/ CreateLinks(p) \/ RecordReady(p)
       \/ DeletePolicy(p) \/ DeleteLinks(p) \/ DeleteBridge(p)
       \/ RemoveBridgeRecord(p) \/ RemoveClaim(p) \/ RemoveState(p) \/ OrphanBridge(p)
       \/ ApplyOutboundNatPolicy(p)
       \/ RealizeFails(p) \/ PolicyFails(p) \/ TeardownFails(p)

VmStep(p, v) ==
    \/ Launch(p, v) \/ Realized(p, v) \/ Configure(p, v) \/ Boot(p, v) \/ Unwind(p, v)
    \/ CleanupReplied(p, v) \/ DeleteTimesOut(p, v) \/ Recover(p, v)

Next ==
    \/ \E p \in Procs : HelperStep(p) \/ ReplyUnread(p) \/ Crash(p)
    \/ \E p \in Procs, v \in Vms : VmStep(p, v)
    \/ TakeInventory \/ (\E v \in Vms : RemoveOrphanRules(v)) \/ CleanupEnds

Spec == Init /\ [][Next]_vars

-----------------------------------------------------------------------------
\* The shared files, links, rules and helpers have their shapes; the lock is held
\* by the helper that is allocating, and by no other.
TypeOK ==
    /\ bridge \in {"none", "bare", "up"} /\ record \in {"none", "planned", "ready"}
    /\ claim \in [Addrs -> Vms \cup {None}]
    /\ state \in [Vms -> {"none", "planned", "ready", "configured"}]
    /\ topo \in [Vms -> {"none", "loose", "joined"}] /\ rules \in [Vms -> SUBSET Rules]
    /\ job \in [Procs -> Vms \cup {None}] /\ up \subseteq Vms /\ alive \subseteq Procs
    /\ \A p \in Procs : lock = p <=> pc[p] \in AllocationSteps \cup {"bridge"}

\* No two running VMs have the same address: the check before the lock, the claim
\* and the state file keep it, although cleanup removes both without the lock.
AddressUnique == \A v, w \in up : v # w => addr[v] # addr[w]

\* A running VM keeps all its firewall rules, through failures, crashes, recovery
\* and `m80 net cleanup`, unless the inventory of that command was older than its
\* state file.
FilteredWhileUp == \A v \in up \ exposed : rules[v] = Rules

\* A running VM is connected to the bridge: nobody deletes it under a VM whose
\* state file was there when the users were looked for.
BridgeUnderVm ==
    \A v \in up \ undercut : topo[v] = "joined" /\ bridge # "none"

\* A VM whose directory is gone leaves no links, no rules and no claim behind,
\* unless a teardown step failed.
NoResidue ==
    \A v \in Vms \ abandoned :
        vm[v] = "absent" => topo[v] = "none" /\ rules[v] = {} /\ claim[addr[v]] # v
=============================================================================
