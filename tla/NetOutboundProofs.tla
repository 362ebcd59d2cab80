-------------------------- MODULE NetOutboundProofs --------------------------
(***************************************************************************)
(* Proofs about the shared network state of a run root, for every number   *)
(* of VMs, processes and addresses: TypeOK with the exclusion of the       *)
(* allocation lock, AddressUnique, FilteredWhileUp, BridgeUnderVm and      *)
(* NoResidue. A vm_id has at most one helper (JobInv), so what a helper    *)
(* has done so far for its vm_id can be read off its position; the rest is *)
(* about what one vm_id's helper may do to another's claim and bridge.     *)
(***************************************************************************)
EXTENDS NetOutbound, TLAPS

VmStates == {"absent", "realize", "realized", "policy", "failed", "running", "unwind", "delete",
             "reap", "left", "orphan"}

\* The positions of a request that is being served. A cleanup without a state file
\* ("bare") is never asked for.
RealizeSteps ==
    {"check", "lock", "bridge"} \cup AllocationSteps \cup LinkSteps
      \cup {"unlink", "unclaim", "state", "orphan", "orphan_bridge", "orphan_record", "ok", "err"}
CleanupSteps == {"rules", "unlink", "del_bridge", "del_record", "unclaim", "state", "ok", "err"}

Types ==
    /\ addr \in [Vms -> Addrs]
    /\ bridge \in {"none", "bare", "up"} /\ record \in {"none", "planned", "ready"}
    /\ claim \in [Addrs -> Vms \cup {None}]
    /\ state \in [Vms -> {"none", "planned", "ready", "configured"}]
    /\ topo \in [Vms -> {"none", "loose", "joined"}] /\ rules \in [Vms -> SUBSET Rules]
    /\ pc \in [Procs -> {"idle", "gone", "policy"} \cup RealizeSteps \cup CleanupSteps]
    /\ op \in [Procs -> {"none", "realize", "policy", "cleanup"}]
    /\ job \in [Procs -> Vms \cup {None}]
    /\ vm \in [Vms -> VmStates] /\ owner \in [Vms -> Procs \cup {None}]
    /\ up \subseteq Vms /\ alive \subseteq Procs /\ suspects \subseteq Vms

\* The allocation lock is held by the helper that allocates, and by no other.
LockInv == \A p \in Procs : lock = p <=> pc[p] \in AllocationSteps \cup {"bridge"}

\* The request a helper serves is the one m80 waits for, unless nobody waits.
Serves(p) ==
    \/ op[p] = "realize" /\ pc[p] \in RealizeSteps /\ vm[job[p]] \in {"realize", "orphan", "left"}
    \/ op[p] = "policy" /\ pc[p] \in {"policy", "ok", "err"} /\ vm[job[p]] \in {"policy", "orphan", "left"}
    \/ /\ op[p] = "cleanup" /\ pc[p] \in CleanupSteps
       /\ vm[job[p]] \in {"unwind", "delete", "reap", "orphan", "left"}

JobInv ==
    /\ \A p \in Procs : job[p] = None <=> pc[p] \in {"idle", "gone"}
    /\ \A p, q \in Procs : job[p] = job[q] /\ job[p] # None => p = q
    /\ \A p \in Procs : job[p] # None => Serves(p)

\* What the state file says at each point of a VM's life.
StateInv ==
    /\ \A v \in Vms : vm[v] = "absent" => state[v] = "none"
    /\ \A v \in Vms : vm[v] \in {"realized", "failed", "running"} => state[v] # "none"
    /\ \A v \in up : vm[v] \in {"running", "orphan"} /\ ~HelperWorks(v) /\ state[v] = "configured"
    /\ \A p \in Procs : job[p] # None =>
          /\ op[p] = "policy" => state[job[p]] = "configured"
          /\ op[p] = "realize" /\ pc[p] \in LinkSteps \cup {"ok"} => state[job[p]] # "none"

\* A VM that runs or may still get to run on what its helper has set up.
Wired(v) ==
    \/ v \in up \/ vm[v] \in {"realized", "running"}
    \/ \E p \in Procs : job[p] = v /\ (op[p] = "policy" \/ (op[p] = "realize" /\ pc[p] \in {"ready", "ok"}))

\* Such a VM, and one whose helper is on the way there, owns the claim of its address.
Claiming(v) ==
    Wired(v) \/ \E p \in Procs : job[p] = v /\ op[p] = "realize" /\ pc[p] \in {"record", "links"}

ClaimInv == \A v \in Vms : Claiming(v) => claim[addr[v]] = v

\* A helper that is about to delete the bridge has seen no other state file, and
\* whoever wrote one since is undercut.
BridgeInv ==
    /\ \A p \in Procs : pc[p] \in {"del_bridge", "orphan_bridge"} =>
          \A v \in Vms \ {job[p]} : state[v] = "none" \/ v \in undercut
    /\ \A v \in Vms \ undercut : Wired(v) => topo[v] = "joined" /\ bridge # "none"

\* Net cleanup suspects only VMs that have no state file, or are exposed; the
\* rules of a VM that booted, or is about to, are complete.
FilterInv ==
    /\ \A v \in suspects \ exposed : state[v] = "none"
    /\ \A v \in up \ exposed : rules[v] = Rules
    /\ \A p \in Procs : job[p] # None /\ op[p] = "policy" /\ pc[p] = "ok" /\ job[p] \notin exposed
          => rules[job[p]] = Rules

Unclaimed(v) == claim[addr[v]] # v
Clean(v) == topo[v] = "none" /\ rules[v] = {} /\ Unclaimed(v)

\* What is left of a VM at each position of its helper.
Left(p) ==
    LET v == job[p]
    IN  /\ op[p] = "realize" =>
              /\ pc[p] \notin LinkSteps \cup {"unlink", "unclaim", "state", "ok"} => state[v] = "none"
              /\ rules[v] = {}
              /\ pc[p] \notin {"ready", "ok", "unlink"} => topo[v] = "none"
              /\ pc[p] \notin LinkSteps \cup {"record", "ok", "unlink", "unclaim"} => Unclaimed(v)
        /\ op[p] = "cleanup" =>
              /\ pc[p] # "err"
              /\ pc[p] # "rules" => rules[v] = {}
              /\ pc[p] \notin {"rules", "unlink"} => topo[v] = "none"
              /\ pc[p] \in {"state", "ok"} => Unclaimed(v)
              /\ pc[p] = "ok" => state[v] = "none"

\* A VM without state file and helper has left nothing behind.
ResidueInv ==
    \A v \in Vms \ abandoned :
        /\ state[v] = "none" /\ ~HelperWorks(v) => Clean(v)
        /\ \A p \in Procs : job[p] = v => Left(p)

Inv == Types /\ LockInv /\ JobInv /\ StateInv /\ ClaimInv /\ BridgeInv /\ FilterInv /\ ResidueInv

\* Every step keeps the types; StateInv is needed where m80 asks for a cleanup, which is
\* never the one without a state file.
LEMMA TypesStep ==
    ASSUME Types, JobInv, StateInv, [Next]_vars
    PROVE  Types'
<1> USE NetAssumption
    DEF Types, netVars, helperVars, vmVars, bounds, history, Step, Goto, Request,
        AllocationFails, TakeReply, ClearDir, Become, KillOrphan, Fails, Settled, Reply,
        AfterClaim, OtherUsers, Peers, Claimable, BridgeCondemned, AllocationSteps,
        LinkSteps, TeardownSteps, RealizeSteps, CleanupSteps, VmStates, Rules
<1>1. ASSUME NEW p \in Procs, job[p] # None, RejectCollision(p) PROVE Types'
  BY <1>1 DEF RejectCollision
<1>2. ASSUME NEW p \in Procs, job[p] # None, LockAllocation(p) PROVE Types'
  BY <1>2 DEF LockAllocation
<1>3. ASSUME NEW p \in Procs, job[p] # None, EnsureBridge(p) PROVE Types'
  BY <1>3 DEF EnsureBridge
<1>4. ASSUME NEW p \in Procs, job[p] # None, CreateBridge(p) PROVE Types'
  BY <1>4 DEF CreateBridge
<1>5. ASSUME NEW p \in Procs, job[p] # None, AddAddress(p) PROVE Types'
  BY <1>5 DEF AddAddress
<1>6. ASSUME NEW p \in Procs, job[p] # None, WriteBridgeReady(p) PROVE Types'
  BY <1>6 DEF WriteBridgeReady
<1>7. ASSUME NEW p \in Procs, job[p] # None, ClaimGuestIpv4(p) PROVE Types'
  BY <1>7 DEF ClaimGuestIpv4
<1>8. ASSUME NEW p \in Procs, job[p] # None, RecordPlanned(p) PROVE Types'
  BY <1>8 DEF RecordPlanned
<1>9. ASSUME NEW p \in Procs, job[p] # None, CreateLinks(p) PROVE Types'
  BY <1>9 DEF CreateLinks
<1>10. ASSUME NEW p \in Procs, job[p] # None, RecordReady(p) PROVE Types'
  BY <1>10 DEF RecordReady
<1>11. ASSUME NEW p \in Procs, job[p] # None, DeletePolicy(p) PROVE Types'
  BY <1>11 DEF DeletePolicy
<1>12. ASSUME NEW p \in Procs, job[p] # None, DeleteLinks(p) PROVE Types'
  BY <1>12 DEF DeleteLinks
<1>13. ASSUME NEW p \in Procs, job[p] # None, DeleteBridge(p) PROVE Types'
  BY <1>13 DEF DeleteBridge
<1>14. ASSUME NEW p \in Procs, job[p] # None, RemoveBridgeRecord(p) PROVE Types'
  BY <1>14 DEF RemoveBridgeRecord
<1>15. ASSUME NEW p \in Procs, job[p] # None, RemoveClaim(p) PROVE Types'
  BY <1>15 DEF RemoveClaim
<1>16. ASSUME NEW p \in Procs, job[p] # None, RemoveState(p) PROVE Types'
  BY <1>16 DEF RemoveState
<1>17. ASSUME NEW p \in Procs, job[p] # None, OrphanBridge(p) PROVE Types'
  BY <1>17 DEF OrphanBridge
<1>18. ASSUME NEW p \in Procs, job[p] # None, ApplyOutboundNatPolicy(p) PROVE Types'
  BY <1>18 DEF ApplyOutboundNatPolicy
<1>19. ASSUME NEW p \in Procs, job[p] # None, RealizeFails(p) PROVE Types'
  BY <1>19 DEF RealizeFails
<1>20. ASSUME NEW p \in Procs, job[p] # None, PolicyFails(p) PROVE Types'
  BY <1>20 DEF PolicyFails
<1>21. ASSUME NEW p \in Procs, job[p] # None, TeardownFails(p) PROVE Types'
  BY <1>21 DEF TeardownFails
<1>22. ASSUME NEW p \in Procs, NEW v \in Vms, Launch(p, v) PROVE Types'
  BY <1>22 DEF Launch
<1>23. ASSUME NEW p \in Procs, NEW v \in Vms, Realized(p, v) PROVE Types'
  <2>1. CASE TakeReply(p, v, "ok")
    BY <1>23, <2>1 DEF Realized
  <2>2. CASE TakeReply(p, v, "err")
    BY <1>23, <2>2 DEF Realized
  <2> QED BY <1>23, <2>1, <2>2 DEF Realized
<1>24. ASSUME NEW p \in Procs, NEW v \in Vms, Configure(p, v) PROVE Types'
  BY <1>24 DEF Configure
<1>25. ASSUME NEW p \in Procs, NEW v \in Vms, Boot(p, v) PROVE Types'
  <2>1. CASE TakeReply(p, v, "ok")
    BY <1>25, <2>1 DEF Boot
  <2>2. CASE TakeReply(p, v, "err")
    BY <1>25, <2>2 DEF Boot
  <2> QED BY <1>25, <2>1, <2>2 DEF Boot
<1>26. ASSUME NEW p \in Procs, NEW v \in Vms, Unwind(p, v) PROVE Types'
  <2>1. Request(p, v, "cleanup", "rules") /\ state[v] # "none"
    BY <1>26 DEF Unwind, CleanupVm, StateInv
  <2>2. CASE Become(v, "unwind")
    BY <1>26, <2>1, <2>2 DEF Unwind
  <2>3. CASE Become(v, "delete")
    BY <1>26, <2>1, <2>3 DEF Unwind
  <2> QED BY <1>26, <2>2, <2>3 DEF Unwind
<1>27. ASSUME NEW p \in Procs, NEW v \in Vms, CleanupReplied(p, v) PROVE Types'
  <2>1. CASE vm[v] = "delete" /\ TakeReply(p, v, "err")
    BY <1>27, <2>1 DEF CleanupReplied
  <2>2. CASE vm[v] # "delete" /\ TakeReply(p, v, "err")
    BY <1>27, <2>2 DEF CleanupReplied
  <2>3. CASE TakeReply(p, v, "ok")
    BY <1>27, <2>3 DEF CleanupReplied
  <2> QED BY <1>27, <2>1, <2>2, <2>3 DEF CleanupReplied
<1>28. ASSUME NEW p \in Procs, NEW v \in Vms, DeleteTimesOut(p, v) PROVE Types'
  BY <1>28 DEF DeleteTimesOut
<1>29. ASSUME NEW p \in Procs, NEW v \in Vms, Recover(p, v) PROVE Types'
  <2>1. CASE state[v] = "none"
    BY <1>29, <2>1 DEF Recover
  <2>2. CASE state[v] # "none"
    <3>1. Request(p, v, "cleanup", "rules")
      BY <1>29, <2>2 DEF Recover, CleanupVm
    <3> QED BY <1>29, <2>2, <3>1 DEF Recover
  <2> QED BY <2>1, <2>2
<1>30. ASSUME NEW p \in Procs, ReplyUnread(p) PROVE Types'
  BY <1>30 DEF ReplyUnread
<1>31. ASSUME NEW p \in Procs, Crash(p) PROVE Types'
  BY <1>31 DEF Crash
<1>32. ASSUME NEW v \in Vms, RemoveOrphanRules(v) PROVE Types'
  BY <1>32 DEF RemoveOrphanRules
<1>33. ASSUME TakeInventory \/ CleanupEnds \/ UNCHANGED vars PROVE Types'
  BY <1>33 DEF TakeInventory, CleanupEnds, vars
<1> HIDE DEF Types, netVars, helperVars, vmVars, bounds, history, Step, Goto, Request,
             AllocationFails, TakeReply, ClearDir, Become, KillOrphan, Fails, Settled,
             Reply, AfterClaim, OtherUsers, Peers, Claimable, BridgeCondemned,
             AllocationSteps, LinkSteps, TeardownSteps, RealizeSteps, CleanupSteps,
             VmStates, Rules
<1>34. ASSUME NEW p \in Procs, HelperStep(p) PROVE Types'
  BY <1>34, <1>1, <1>2, <1>3, <1>4, <1>5, <1>6, <1>7, <1>8, <1>9, <1>10, <1>11, <1>12, <1>13,
     <1>14, <1>15, <1>16, <1>17, <1>18, <1>19, <1>20, <1>21 DEF HelperStep
<1>35. ASSUME NEW p \in Procs, NEW v \in Vms, VmStep(p, v) PROVE Types'
  BY <1>35, <1>22, <1>23, <1>24, <1>25, <1>26, <1>27, <1>28, <1>29 DEF VmStep
<1> QED BY <1>30, <1>31, <1>32, <1>33, <1>34, <1>35 DEF Next


\* The allocation lock: only LockAllocation enters the section, and every way out of it,
\* a failure included, drops the lock.
LEMMA LockStep ==
    ASSUME Types, LockInv, [Next]_vars
    PROVE  LockInv'
<1> USE NetAssumption
    DEF Types, LockInv, netVars, helperVars, vmVars, bounds, history, Step, Goto, Request,
        AllocationFails, TakeReply, ClearDir, Become, KillOrphan, Fails, Settled, Reply,
        AfterClaim, OtherUsers, Peers, Claimable, BridgeCondemned, AllocationSteps,
        LinkSteps, TeardownSteps, RealizeSteps, CleanupSteps, VmStates, Rules
<1>1. ASSUME NEW p \in Procs, job[p] # None, RejectCollision(p) PROVE LockInv'
  BY <1>1 DEF RejectCollision
<1>2. ASSUME NEW p \in Procs, job[p] # None, LockAllocation(p) PROVE LockInv'
  BY <1>2 DEF LockAllocation
<1>3. ASSUME NEW p \in Procs, job[p] # None, EnsureBridge(p) PROVE LockInv'
  BY <1>3 DEF EnsureBridge
<1>4. ASSUME NEW p \in Procs, job[p] # None, CreateBridge(p) PROVE LockInv'
  BY <1>4 DEF CreateBridge
<1>5. ASSUME NEW p \in Procs, job[p] # None, AddAddress(p) PROVE LockInv'
  BY <1>5 DEF AddAddress
<1>6. ASSUME NEW p \in Procs, job[p] # None, WriteBridgeReady(p) PROVE LockInv'
  BY <1>6 DEF WriteBridgeReady
<1>7. ASSUME NEW p \in Procs, job[p] # None, ClaimGuestIpv4(p) PROVE LockInv'
  BY <1>7 DEF ClaimGuestIpv4
<1>8. ASSUME NEW p \in Procs, job[p] # None, RecordPlanned(p) PROVE LockInv'
  BY <1>8 DEF RecordPlanned
<1>9. ASSUME NEW p \in Procs, job[p] # None, CreateLinks(p) PROVE LockInv'
  BY <1>9 DEF CreateLinks
<1>10. ASSUME NEW p \in Procs, job[p] # None, RecordReady(p) PROVE LockInv'
  BY <1>10 DEF RecordReady
<1>11. ASSUME NEW p \in Procs, job[p] # None, DeletePolicy(p) PROVE LockInv'
  BY <1>11 DEF DeletePolicy
<1>12. ASSUME NEW p \in Procs, job[p] # None, DeleteLinks(p) PROVE LockInv'
  BY <1>12 DEF DeleteLinks
<1>13. ASSUME NEW p \in Procs, job[p] # None, DeleteBridge(p) PROVE LockInv'
  BY <1>13 DEF DeleteBridge
<1>14. ASSUME NEW p \in Procs, job[p] # None, RemoveBridgeRecord(p) PROVE LockInv'
  BY <1>14 DEF RemoveBridgeRecord
<1>15. ASSUME NEW p \in Procs, job[p] # None, RemoveClaim(p) PROVE LockInv'
  BY <1>15 DEF RemoveClaim
<1>16. ASSUME NEW p \in Procs, job[p] # None, RemoveState(p) PROVE LockInv'
  BY <1>16 DEF RemoveState
<1>17. ASSUME NEW p \in Procs, job[p] # None, OrphanBridge(p) PROVE LockInv'
  BY <1>17 DEF OrphanBridge
<1>18. ASSUME NEW p \in Procs, job[p] # None, ApplyOutboundNatPolicy(p) PROVE LockInv'
  BY <1>18 DEF ApplyOutboundNatPolicy
<1>19. ASSUME NEW p \in Procs, job[p] # None, RealizeFails(p) PROVE LockInv'
  BY <1>19 DEF RealizeFails
<1>20. ASSUME NEW p \in Procs, job[p] # None, PolicyFails(p) PROVE LockInv'
  BY <1>20 DEF PolicyFails
<1>21. ASSUME NEW p \in Procs, job[p] # None, TeardownFails(p) PROVE LockInv'
  BY <1>21 DEF TeardownFails
<1>22. ASSUME NEW p \in Procs, NEW v \in Vms, Launch(p, v) PROVE LockInv'
  BY <1>22 DEF Launch
<1>23. ASSUME NEW p \in Procs, NEW v \in Vms, Realized(p, v) PROVE LockInv'
  BY <1>23 DEF Realized
<1>24. ASSUME NEW p \in Procs, NEW v \in Vms, Configure(p, v) PROVE LockInv'
  BY <1>24 DEF Configure
<1>25. ASSUME NEW p \in Procs, NEW v \in Vms, Boot(p, v) PROVE LockInv'
  BY <1>25 DEF Boot
<1>26. ASSUME NEW p \in Procs, NEW v \in Vms, Unwind(p, v) PROVE LockInv'
  BY <1>26 DEF Unwind, CleanupVm
<1>27. ASSUME NEW p \in Procs, NEW v \in Vms, CleanupReplied(p, v) PROVE LockInv'
  BY <1>27 DEF CleanupReplied
<1>28. ASSUME NEW p \in Procs, NEW v \in Vms, DeleteTimesOut(p, v) PROVE LockInv'
  BY <1>28 DEF DeleteTimesOut
<1>29. ASSUME NEW p \in Procs, NEW v \in Vms, Recover(p, v) PROVE LockInv'
  BY <1>29 DEF Recover, CleanupVm
<1>30. ASSUME NEW p \in Procs, ReplyUnread(p) PROVE LockInv'
  BY <1>30 DEF ReplyUnread
<1>31. ASSUME NEW p \in Procs, Crash(p) PROVE LockInv'
  BY <1>31 DEF Crash
<1>32. ASSUME NEW v \in Vms, RemoveOrphanRules(v) PROVE LockInv'
  BY <1>32 DEF RemoveOrphanRules
<1>33. ASSUME TakeInventory \/ CleanupEnds \/ UNCHANGED vars PROVE LockInv'
  BY <1>33 DEF TakeInventory, CleanupEnds, vars
<1> HIDE DEF Types, LockInv, netVars, helperVars, vmVars, bounds, history, Step, Goto,
             Request, AllocationFails, TakeReply, ClearDir, Become, KillOrphan, Fails,
             Settled, Reply, AfterClaim, OtherUsers, Peers, Claimable, BridgeCondemned,
             AllocationSteps, LinkSteps, TeardownSteps, RealizeSteps, CleanupSteps,
             VmStates, Rules
<1>34. ASSUME NEW p \in Procs, HelperStep(p) PROVE LockInv'
  BY <1>34, <1>1, <1>2, <1>3, <1>4, <1>5, <1>6, <1>7, <1>8, <1>9, <1>10, <1>11, <1>12, <1>13,
     <1>14, <1>15, <1>16, <1>17, <1>18, <1>19, <1>20, <1>21 DEF HelperStep
<1>35. ASSUME NEW p \in Procs, NEW v \in Vms, VmStep(p, v) PROVE LockInv'
  BY <1>35, <1>22, <1>23, <1>24, <1>25, <1>26, <1>27, <1>28, <1>29 DEF VmStep
<1> QED BY <1>30, <1>31, <1>32, <1>33, <1>34, <1>35 DEF Next


\* A vm_id has one helper: Launch and Recover find none (the directory was absent, or
\* Settled), and the other requests come from the owner, whose last one was answered.
LEMMA JobStep ==
    ASSUME Types, JobInv, StateInv, [Next]_vars
    PROVE  JobInv'
<1> USE NetAssumption
    DEF Types, JobInv, StateInv, Serves, HelperWorks, netVars, helperVars, vmVars, bounds,
        history, Step, Goto, Request, AllocationFails, TakeReply, ClearDir, Become,
        KillOrphan, Fails, Settled, Reply, AfterClaim, OtherUsers, Peers, Claimable,
        BridgeCondemned, AllocationSteps, LinkSteps, TeardownSteps, RealizeSteps,
        CleanupSteps, VmStates, Rules
<1>1. ASSUME NEW p \in Procs, job[p] # None, RejectCollision(p) PROVE JobInv'
  BY <1>1 DEF RejectCollision
<1>2. ASSUME NEW p \in Procs, job[p] # None, LockAllocation(p) PROVE JobInv'
  BY <1>2 DEF LockAllocation
<1>3. ASSUME NEW p \in Procs, job[p] # None, EnsureBridge(p) PROVE JobInv'
  BY <1>3 DEF EnsureBridge
<1>4. ASSUME NEW p \in Procs, job[p] # None, CreateBridge(p) PROVE JobInv'
  BY <1>4 DEF CreateBridge
<1>5. ASSUME NEW p \in Procs, job[p] # None, AddAddress(p) PROVE JobInv'
  BY <1>5 DEF AddAddress
<1>6. ASSUME NEW p \in Procs, job[p] # None, WriteBridgeReady(p) PROVE JobInv'
  BY <1>6 DEF WriteBridgeReady
<1>7. ASSUME NEW p \in Procs, job[p] # None, ClaimGuestIpv4(p) PROVE JobInv'
  BY <1>7 DEF ClaimGuestIpv4
<1>8. ASSUME NEW p \in Procs, job[p] # None, RecordPlanned(p) PROVE JobInv'
  BY <1>8 DEF RecordPlanned
<1>9. ASSUME NEW p \in Procs, job[p] # None, CreateLinks(p) PROVE JobInv'
  BY <1>9 DEF CreateLinks
<1>10. ASSUME NEW p \in Procs, job[p] # None, RecordReady(p) PROVE JobInv'
  BY <1>10 DEF RecordReady
<1>11. ASSUME NEW p \in Procs, job[p] # None, DeletePolicy(p) PROVE JobInv'
  BY <1>11 DEF DeletePolicy
<1>12. ASSUME NEW p \in Procs, job[p] # None, DeleteLinks(p) PROVE JobInv'
  BY <1>12 DEF DeleteLinks
<1>13. ASSUME NEW p \in Procs, job[p] # None, DeleteBridge(p) PROVE JobInv'
  BY <1>13 DEF DeleteBridge
<1>14. ASSUME NEW p \in Procs, job[p] # None, RemoveBridgeRecord(p) PROVE JobInv'
  BY <1>14 DEF RemoveBridgeRecord
<1>15. ASSUME NEW p \in Procs, job[p] # None, RemoveClaim(p) PROVE JobInv'
  BY <1>15 DEF RemoveClaim
<1>16. ASSUME NEW p \in Procs, job[p] # None, RemoveState(p) PROVE JobInv'
  BY <1>16 DEF RemoveState
<1>17. ASSUME NEW p \in Procs, job[p] # None, OrphanBridge(p) PROVE JobInv'
  BY <1>17 DEF OrphanBridge
<1>18. ASSUME NEW p \in Procs, job[p] # None, ApplyOutboundNatPolicy(p) PROVE JobInv'
  BY <1>18 DEF ApplyOutboundNatPolicy
<1>19. ASSUME NEW p \in Procs, job[p] # None, RealizeFails(p) PROVE JobInv'
  BY <1>19 DEF RealizeFails
<1>20. ASSUME NEW p \in Procs, job[p] # None, PolicyFails(p) PROVE JobInv'
  BY <1>20 DEF PolicyFails
<1>21. ASSUME NEW p \in Procs, job[p] # None, TeardownFails(p) PROVE JobInv'
  BY <1>21 DEF TeardownFails
<1>22. ASSUME NEW p \in Procs, NEW v \in Vms, Launch(p, v) PROVE JobInv'
  BY <1>22 DEF Launch
<1>23. ASSUME NEW p \in Procs, NEW v \in Vms, Realized(p, v) PROVE JobInv'
  <2>1. CASE TakeReply(p, v, "ok")
    BY <1>23, <2>1 DEF Realized
  <2>2. CASE TakeReply(p, v, "err")
    BY <1>23, <2>2 DEF Realized
  <2> QED BY <1>23, <2>1, <2>2 DEF Realized
<1>24. ASSUME NEW p \in Procs, NEW v \in Vms, Configure(p, v) PROVE JobInv'
  <2>1. \A q \in Procs : job[q] # v
    BY <1>24 DEF Configure
  <2> QED BY <1>24, <2>1 DEF Configure
<1>25. ASSUME NEW p \in Procs, NEW v \in Vms, Boot(p, v) PROVE JobInv'
  BY <1>25 DEF Boot
<1>26. ASSUME NEW p \in Procs, NEW v \in Vms, Unwind(p, v) PROVE JobInv'
  <2>1. Request(p, v, "cleanup", "rules") /\ state[v] # "none"
    BY <1>26 DEF Unwind, CleanupVm, StateInv
  <2>2. CASE Become(v, "unwind")
    BY <1>26, <2>1, <2>2 DEF Unwind
  <2>3. CASE Become(v, "delete")
    BY <1>26, <2>1, <2>3 DEF Unwind
  <2> QED BY <1>26, <2>2, <2>3 DEF Unwind
<1>27. ASSUME NEW p \in Procs, NEW v \in Vms, CleanupReplied(p, v) PROVE JobInv'
  BY <1>27 DEF CleanupReplied
<1>28. ASSUME NEW p \in Procs, NEW v \in Vms, DeleteTimesOut(p, v) PROVE JobInv'
  BY <1>28 DEF DeleteTimesOut
<1>29. ASSUME NEW p \in Procs, NEW v \in Vms, Recover(p, v) PROVE JobInv'
  <2>1. CASE state[v] = "none"
    BY <1>29, <2>1 DEF Recover
  <2>2. CASE state[v] # "none"
    <3>1. Request(p, v, "cleanup", "rules")
      BY <1>29, <2>2 DEF Recover, CleanupVm
    <3> QED BY <1>29, <2>2, <3>1 DEF Recover
  <2> QED BY <2>1, <2>2
<1>30. ASSUME NEW p \in Procs, ReplyUnread(p) PROVE JobInv'
  BY <1>30 DEF ReplyUnread
<1>31. ASSUME NEW p \in Procs, Crash(p) PROVE JobInv'
  BY <1>31 DEF Crash
<1>32. ASSUME NEW v \in Vms, RemoveOrphanRules(v) PROVE JobInv'
  BY <1>32 DEF RemoveOrphanRules
<1>33. ASSUME TakeInventory \/ CleanupEnds \/ UNCHANGED vars PROVE JobInv'
  BY <1>33 DEF TakeInventory, CleanupEnds, vars
<1> HIDE DEF Types, JobInv, StateInv, Serves, HelperWorks, netVars, helperVars, vmVars,
             bounds, history, Step, Goto, Request, AllocationFails, TakeReply, ClearDir,
             Become, KillOrphan, Fails, Settled, Reply, AfterClaim, OtherUsers, Peers,
             Claimable, BridgeCondemned, AllocationSteps, LinkSteps, TeardownSteps,
             RealizeSteps, CleanupSteps, VmStates, Rules
<1>34. ASSUME NEW p \in Procs, HelperStep(p) PROVE JobInv'
  BY <1>34, <1>1, <1>2, <1>3, <1>4, <1>5, <1>6, <1>7, <1>8, <1>9, <1>10, <1>11, <1>12, <1>13,
     <1>14, <1>15, <1>16, <1>17, <1>18, <1>19, <1>20, <1>21 DEF HelperStep
<1>35. ASSUME NEW p \in Procs, NEW v \in Vms, VmStep(p, v) PROVE JobInv'
  BY <1>35, <1>22, <1>23, <1>24, <1>25, <1>26, <1>27, <1>28, <1>29 DEF VmStep
<1> QED BY <1>30, <1>31, <1>32, <1>33, <1>34, <1>35 DEF Next


\* The state file follows the life of its VM.
LEMMA StateStep ==
    ASSUME Types, JobInv, StateInv, [Next]_vars
    PROVE  StateInv'
<1> USE NetAssumption
    DEF Types, JobInv, StateInv, Serves, HelperWorks, netVars, helperVars, vmVars, bounds,
        history, Step, Goto, Request, AllocationFails, TakeReply, ClearDir, Become,
        KillOrphan, Fails, Settled, Reply, AfterClaim, OtherUsers, Peers, Claimable,
        BridgeCondemned, AllocationSteps, LinkSteps, TeardownSteps, RealizeSteps,
        CleanupSteps, VmStates, Rules
<1>1. ASSUME NEW p \in Procs, job[p] # None, RejectCollision(p) PROVE StateInv'
  BY <1>1 DEF RejectCollision
<1>2. ASSUME NEW p \in Procs, job[p] # None, LockAllocation(p) PROVE StateInv'
  BY <1>2 DEF LockAllocation
<1>3. ASSUME NEW p \in Procs, job[p] # None, EnsureBridge(p) PROVE StateInv'
  BY <1>3 DEF EnsureBridge
<1>4. ASSUME NEW p \in Procs, job[p] # None, CreateBridge(p) PROVE StateInv'
  BY <1>4 DEF CreateBridge
<1>5. ASSUME NEW p \in Procs, job[p] # None, AddAddress(p) PROVE StateInv'
  BY <1>5 DEF AddAddress
<1>6. ASSUME NEW p \in Procs, job[p] # None, WriteBridgeReady(p) PROVE StateInv'
  BY <1>6 DEF WriteBridgeReady
<1>7. ASSUME NEW p \in Procs, job[p] # None, ClaimGuestIpv4(p) PROVE StateInv'
  BY <1>7 DEF ClaimGuestIpv4
<1>8. ASSUME NEW p \in Procs, job[p] # None, RecordPlanned(p) PROVE StateInv'
  BY <1>8 DEF RecordPlanned
<1>9. ASSUME NEW p \in Procs, job[p] # None, CreateLinks(p) PROVE StateInv'
  BY <1>9 DEF CreateLinks
<1>10. ASSUME NEW p \in Procs, job[p] # None, RecordReady(p) PROVE StateInv'
  BY <1>10 DEF RecordReady
<1>11. ASSUME NEW p \in Procs, job[p] # None, DeletePolicy(p) PROVE StateInv'
  BY <1>11 DEF DeletePolicy
<1>12. ASSUME NEW p \in Procs, job[p] # None, DeleteLinks(p) PROVE StateInv'
  BY <1>12 DEF DeleteLinks
<1>13. ASSUME NEW p \in Procs, job[p] # None, DeleteBridge(p) PROVE StateInv'
  BY <1>13 DEF DeleteBridge
<1>14. ASSUME NEW p \in Procs, job[p] # None, RemoveBridgeRecord(p) PROVE StateInv'
  BY <1>14 DEF RemoveBridgeRecord
<1>15. ASSUME NEW p \in Procs, job[p] # None, RemoveClaim(p) PROVE StateInv'
  BY <1>15 DEF RemoveClaim
<1>16. ASSUME NEW p \in Procs, job[p] # None, RemoveState(p) PROVE StateInv'
  BY <1>16 DEF RemoveState
<1>17. ASSUME NEW p \in Procs, job[p] # None, OrphanBridge(p) PROVE StateInv'
  BY <1>17 DEF OrphanBridge
<1>18. ASSUME NEW p \in Procs, job[p] # None, ApplyOutboundNatPolicy(p) PROVE StateInv'
  BY <1>18 DEF ApplyOutboundNatPolicy
<1>19. ASSUME NEW p \in Procs, job[p] # None, RealizeFails(p) PROVE StateInv'
  BY <1>19 DEF RealizeFails
<1>20. ASSUME NEW p \in Procs, job[p] # None, PolicyFails(p) PROVE StateInv'
  BY <1>20 DEF PolicyFails
<1>21. ASSUME NEW p \in Procs, job[p] # None, TeardownFails(p) PROVE StateInv'
  BY <1>21 DEF TeardownFails
<1>22. ASSUME NEW p \in Procs, NEW v \in Vms, Launch(p, v) PROVE StateInv'
  BY <1>22 DEF Launch
<1>23. ASSUME NEW p \in Procs, NEW v \in Vms, Realized(p, v) PROVE StateInv'
  BY <1>23 DEF Realized
<1>24. ASSUME NEW p \in Procs, NEW v \in Vms, Configure(p, v) PROVE StateInv'
  BY <1>24 DEF Configure
<1>25. ASSUME NEW p \in Procs, NEW v \in Vms, Boot(p, v) PROVE StateInv'
  BY <1>25 DEF Boot
<1>26. ASSUME NEW p \in Procs, NEW v \in Vms, Unwind(p, v) PROVE StateInv'
  <2>1. Request(p, v, "cleanup", "rules") /\ state[v] # "none"
    BY <1>26 DEF Unwind, CleanupVm, StateInv
  <2>2. CASE Become(v, "unwind")
    BY <1>26, <2>1, <2>2 DEF Unwind
  <2>3. CASE Become(v, "delete")
    BY <1>26, <2>1, <2>3 DEF Unwind
  <2> QED BY <1>26, <2>2, <2>3 DEF Unwind
<1>27. ASSUME NEW p \in Procs, NEW v \in Vms, CleanupReplied(p, v) PROVE StateInv'
  BY <1>27 DEF CleanupReplied
<1>28. ASSUME NEW p \in Procs, NEW v \in Vms, DeleteTimesOut(p, v) PROVE StateInv'
  BY <1>28 DEF DeleteTimesOut
<1>29. ASSUME NEW p \in Procs, NEW v \in Vms, Recover(p, v) PROVE StateInv'
  <2>1. CASE state[v] = "none"
    BY <1>29, <2>1 DEF Recover
  <2>2. CASE state[v] # "none"
    <3>1. Request(p, v, "cleanup", "rules")
      BY <1>29, <2>2 DEF Recover, CleanupVm
    <3> QED BY <1>29, <2>2, <3>1 DEF Recover
  <2> QED BY <2>1, <2>2
<1>30. ASSUME NEW p \in Procs, ReplyUnread(p) PROVE StateInv'
  BY <1>30 DEF ReplyUnread
<1>31. ASSUME NEW p \in Procs, Crash(p) PROVE StateInv'
  BY <1>31 DEF Crash
<1>32. ASSUME NEW v \in Vms, RemoveOrphanRules(v) PROVE StateInv'
  BY <1>32 DEF RemoveOrphanRules
<1>33. ASSUME TakeInventory \/ CleanupEnds \/ UNCHANGED vars PROVE StateInv'
  BY <1>33 DEF TakeInventory, CleanupEnds, vars
<1> HIDE DEF Types, JobInv, StateInv, Serves, HelperWorks, netVars, helperVars, vmVars,
             bounds, history, Step, Goto, Request, AllocationFails, TakeReply, ClearDir,
             Become, KillOrphan, Fails, Settled, Reply, AfterClaim, OtherUsers, Peers,
             Claimable, BridgeCondemned, AllocationSteps, LinkSteps, TeardownSteps,
             RealizeSteps, CleanupSteps, VmStates, Rules
<1>34. ASSUME NEW p \in Procs, HelperStep(p) PROVE StateInv'
  BY <1>34, <1>1, <1>2, <1>3, <1>4, <1>5, <1>6, <1>7, <1>8, <1>9, <1>10, <1>11, <1>12, <1>13,
     <1>14, <1>15, <1>16, <1>17, <1>18, <1>19, <1>20, <1>21 DEF HelperStep
<1>35. ASSUME NEW p \in Procs, NEW v \in Vms, VmStep(p, v) PROVE StateInv'
  BY <1>35, <1>22, <1>23, <1>24, <1>25, <1>26, <1>27, <1>28, <1>29 DEF VmStep
<1> QED BY <1>30, <1>31, <1>32, <1>33, <1>34, <1>35 DEF Next


\* Nobody takes the claim of a VM that has its state file, and between claim and state
\* file the lock keeps the other allocations out.
LEMMA ClaimStep ==
    ASSUME Types, LockInv, JobInv, StateInv, ClaimInv, [Next]_vars
    PROVE  ClaimInv'
<1> USE NetAssumption
    DEF Types, LockInv, JobInv, StateInv, ClaimInv, Serves, Claiming, Wired, HelperWorks,
        netVars, helperVars, vmVars, bounds, history, Step, Goto, Request, AllocationFails,
        TakeReply, ClearDir, Become, KillOrphan, Fails, Settled, Reply, AfterClaim,
        OtherUsers, Peers, Claimable, BridgeCondemned, AllocationSteps, LinkSteps,
        TeardownSteps, RealizeSteps, CleanupSteps, VmStates, Rules
<1>1. ASSUME NEW p \in Procs, job[p] # None, RejectCollision(p) PROVE ClaimInv'
  BY <1>1 DEF RejectCollision
<1>2. ASSUME NEW p \in Procs, job[p] # None, LockAllocation(p) PROVE ClaimInv'
  BY <1>2 DEF LockAllocation
<1>3. ASSUME NEW p \in Procs, job[p] # None, EnsureBridge(p) PROVE ClaimInv'
  BY <1>3 DEF EnsureBridge
<1>4. ASSUME NEW p \in Procs, job[p] # None, CreateBridge(p) PROVE ClaimInv'
  BY <1>4 DEF CreateBridge
<1>5. ASSUME NEW p \in Procs, job[p] # None, AddAddress(p) PROVE ClaimInv'
  BY <1>5 DEF AddAddress
<1>6. ASSUME NEW p \in Procs, job[p] # None, WriteBridgeReady(p) PROVE ClaimInv'
  BY <1>6 DEF WriteBridgeReady
<1>7. ASSUME NEW p \in Procs, job[p] # None, ClaimGuestIpv4(p) PROVE ClaimInv'
  BY <1>7 DEF ClaimGuestIpv4
<1>8. ASSUME NEW p \in Procs, job[p] # None, RecordPlanned(p) PROVE ClaimInv'
  BY <1>8 DEF RecordPlanned
<1>9. ASSUME NEW p \in Procs, job[p] # None, CreateLinks(p) PROVE ClaimInv'
  BY <1>9 DEF CreateLinks
<1>10. ASSUME NEW p \in Procs, job[p] # None, RecordReady(p) PROVE ClaimInv'
  BY <1>10 DEF RecordReady
<1>11. ASSUME NEW p \in Procs, job[p] # None, DeletePolicy(p) PROVE ClaimInv'
  BY <1>11 DEF DeletePolicy
<1>12. ASSUME NEW p \in Procs, job[p] # None, DeleteLinks(p) PROVE ClaimInv'
  BY <1>12 DEF DeleteLinks
<1>13. ASSUME NEW p \in Procs, job[p] # None, DeleteBridge(p) PROVE ClaimInv'
  BY <1>13 DEF DeleteBridge
<1>14. ASSUME NEW p \in Procs, job[p] # None, RemoveBridgeRecord(p) PROVE ClaimInv'
  BY <1>14 DEF RemoveBridgeRecord
<1>15. ASSUME NEW p \in Procs, job[p] # None, RemoveClaim(p) PROVE ClaimInv'
  BY <1>15 DEF RemoveClaim
<1>16. ASSUME NEW p \in Procs, job[p] # None, RemoveState(p) PROVE ClaimInv'
  BY <1>16 DEF RemoveState
<1>17. ASSUME NEW p \in Procs, job[p] # None, OrphanBridge(p) PROVE ClaimInv'
  BY <1>17 DEF OrphanBridge
<1>18. ASSUME NEW p \in Procs, job[p] # None, ApplyOutboundNatPolicy(p) PROVE ClaimInv'
  BY <1>18 DEF ApplyOutboundNatPolicy
<1>19. ASSUME NEW p \in Procs, job[p] # None, RealizeFails(p) PROVE ClaimInv'
  BY <1>19 DEF RealizeFails
<1>20. ASSUME NEW p \in Procs, job[p] # None, PolicyFails(p) PROVE ClaimInv'
  BY <1>20 DEF PolicyFails
<1>21. ASSUME NEW p \in Procs, job[p] # None, TeardownFails(p) PROVE ClaimInv'
  BY <1>21 DEF TeardownFails
<1>22. ASSUME NEW p \in Procs, NEW v \in Vms, Launch(p, v) PROVE ClaimInv'
  BY <1>22 DEF Launch
<1>23. ASSUME NEW p \in Procs, NEW v \in Vms, Realized(p, v) PROVE ClaimInv'
  <2>1. CASE TakeReply(p, v, "ok")
    BY <1>23, <2>1 DEF Realized
  <2>2. CASE TakeReply(p, v, "err")
    BY <1>23, <2>2 DEF Realized
  <2> QED BY <1>23, <2>1, <2>2 DEF Realized
<1>24. ASSUME NEW p \in Procs, NEW v \in Vms, Configure(p, v) PROVE ClaimInv'
  BY <1>24 DEF Configure
<1>25. ASSUME NEW p \in Procs, NEW v \in Vms, Boot(p, v) PROVE ClaimInv'
  BY <1>25 DEF Boot
<1>26. ASSUME NEW p \in Procs, NEW v \in Vms, Unwind(p, v) PROVE ClaimInv'
  <2>1. Request(p, v, "cleanup", "rules") /\ state[v] # "none"
    BY <1>26 DEF Unwind, CleanupVm, StateInv
  <2>2. CASE Become(v, "unwind")
    BY <1>26, <2>1, <2>2 DEF Unwind
  <2>3. CASE Become(v, "delete")
    BY <1>26, <2>1, <2>3 DEF Unwind
  <2> QED BY <1>26, <2>2, <2>3 DEF Unwind
<1>27. ASSUME NEW p \in Procs, NEW v \in Vms, CleanupReplied(p, v) PROVE ClaimInv'
  <2>1. CASE vm[v] = "delete" /\ TakeReply(p, v, "err")
    BY <1>27, <2>1 DEF CleanupReplied
  <2>2. CASE vm[v] # "delete" /\ TakeReply(p, v, "err")
    BY <1>27, <2>2 DEF CleanupReplied
  <2>3. CASE TakeReply(p, v, "ok")
    BY <1>27, <2>3 DEF CleanupReplied
  <2> QED BY <1>27, <2>1, <2>2, <2>3 DEF CleanupReplied
<1>28. ASSUME NEW p \in Procs, NEW v \in Vms, DeleteTimesOut(p, v) PROVE ClaimInv'
  BY <1>28 DEF DeleteTimesOut
<1>29. ASSUME NEW p \in Procs, NEW v \in Vms, Recover(p, v) PROVE ClaimInv'
  <2>1. CASE state[v] = "none"
    BY <1>29, <2>1 DEF Recover
  <2>2. CASE state[v] # "none"
    <3>1. Request(p, v, "cleanup", "rules")
      BY <1>29, <2>2 DEF Recover, CleanupVm
    <3> QED BY <1>29, <2>2, <3>1 DEF Recover
  <2> QED BY <2>1, <2>2
<1>30. ASSUME NEW p \in Procs, ReplyUnread(p) PROVE ClaimInv'
  BY <1>30 DEF ReplyUnread
<1>31. ASSUME NEW p \in Procs, Crash(p) PROVE ClaimInv'
  BY <1>31 DEF Crash
<1>32. ASSUME NEW v \in Vms, RemoveOrphanRules(v) PROVE ClaimInv'
  BY <1>32 DEF RemoveOrphanRules
<1>33. ASSUME TakeInventory \/ CleanupEnds \/ UNCHANGED vars PROVE ClaimInv'
  BY <1>33 DEF TakeInventory, CleanupEnds, vars
<1> HIDE DEF Types, LockInv, JobInv, StateInv, ClaimInv, Serves, Claiming, Wired,
             HelperWorks, netVars, helperVars, vmVars, bounds, history, Step, Goto, Request,
             AllocationFails, TakeReply, ClearDir, Become, KillOrphan, Fails, Settled,
             Reply, AfterClaim, OtherUsers, Peers, Claimable, BridgeCondemned,
             AllocationSteps, LinkSteps, TeardownSteps, RealizeSteps, CleanupSteps,
             VmStates, Rules
<1>34. ASSUME NEW p \in Procs, HelperStep(p) PROVE ClaimInv'
  BY <1>34, <1>1, <1>2, <1>3, <1>4, <1>5, <1>6, <1>7, <1>8, <1>9, <1>10, <1>11, <1>12, <1>13,
     <1>14, <1>15, <1>16, <1>17, <1>18, <1>19, <1>20, <1>21 DEF HelperStep
<1>35. ASSUME NEW p \in Procs, NEW v \in Vms, VmStep(p, v) PROVE ClaimInv'
  BY <1>35, <1>22, <1>23, <1>24, <1>25, <1>26, <1>27, <1>28, <1>29 DEF VmStep
<1> QED BY <1>30, <1>31, <1>32, <1>33, <1>34, <1>35 DEF Next


\* The bridge is deleted only under VMs that wrote their state file too late.
LEMMA BridgeStep ==
    ASSUME Types, JobInv, StateInv, BridgeInv, [Next]_vars
    PROVE  BridgeInv'
<1> USE NetAssumption
    DEF Types, JobInv, StateInv, BridgeInv, Serves, Wired, HelperWorks, netVars, helperVars,
        vmVars, bounds, history, Step, Goto, Request, AllocationFails, TakeReply, ClearDir,
        Become, KillOrphan, Fails, Settled, Reply, AfterClaim, OtherUsers, Peers, Claimable,
        BridgeCondemned, AllocationSteps, LinkSteps, TeardownSteps, RealizeSteps,
        CleanupSteps, VmStates, Rules
<1>1. ASSUME NEW p \in Procs, job[p] # None, RejectCollision(p) PROVE BridgeInv'
  BY <1>1 DEF RejectCollision
<1>2. ASSUME NEW p \in Procs, job[p] # None, LockAllocation(p) PROVE BridgeInv'
  BY <1>2 DEF LockAllocation
<1>3. ASSUME NEW p \in Procs, job[p] # None, EnsureBridge(p) PROVE BridgeInv'
  BY <1>3 DEF EnsureBridge
<1>4. ASSUME NEW p \in Procs, job[p] # None, CreateBridge(p) PROVE BridgeInv'
  BY <1>4 DEF CreateBridge
<1>5. ASSUME NEW p \in Procs, job[p] # None, AddAddress(p) PROVE BridgeInv'
  BY <1>5 DEF AddAddress
<1>6. ASSUME NEW p \in Procs, job[p] # None, WriteBridgeReady(p) PROVE BridgeInv'
  BY <1>6 DEF WriteBridgeReady
<1>7. ASSUME NEW p \in Procs, job[p] # None, ClaimGuestIpv4(p) PROVE BridgeInv'
  BY <1>7 DEF ClaimGuestIpv4
<1>8. ASSUME NEW p \in Procs, job[p] # None, RecordPlanned(p) PROVE BridgeInv'
  BY <1>8 DEF RecordPlanned
<1>9. ASSUME NEW p \in Procs, job[p] # None, CreateLinks(p) PROVE BridgeInv'
  BY <1>9 DEF CreateLinks
<1>10. ASSUME NEW p \in Procs, job[p] # None, RecordReady(p) PROVE BridgeInv'
  BY <1>10 DEF RecordReady
<1>11. ASSUME NEW p \in Procs, job[p] # None, DeletePolicy(p) PROVE BridgeInv'
  BY <1>11 DEF DeletePolicy
<1>12. ASSUME NEW p \in Procs, job[p] # None, DeleteLinks(p) PROVE BridgeInv'
  BY <1>12 DEF DeleteLinks
<1>13. ASSUME NEW p \in Procs, job[p] # None, DeleteBridge(p) PROVE BridgeInv'
  BY <1>13 DEF DeleteBridge
<1>14. ASSUME NEW p \in Procs, job[p] # None, RemoveBridgeRecord(p) PROVE BridgeInv'
  BY <1>14 DEF RemoveBridgeRecord
<1>15. ASSUME NEW p \in Procs, job[p] # None, RemoveClaim(p) PROVE BridgeInv'
  BY <1>15 DEF RemoveClaim
<1>16. ASSUME NEW p \in Procs, job[p] # None, RemoveState(p) PROVE BridgeInv'
  BY <1>16 DEF RemoveState
<1>17. ASSUME NEW p \in Procs, job[p] # None, OrphanBridge(p) PROVE BridgeInv'
  BY <1>17 DEF OrphanBridge
<1>18. ASSUME NEW p \in Procs, job[p] # None, ApplyOutboundNatPolicy(p) PROVE BridgeInv'
  BY <1>18 DEF ApplyOutboundNatPolicy
<1>19. ASSUME NEW p \in Procs, job[p] # None, RealizeFails(p) PROVE BridgeInv'
  BY <1>19 DEF RealizeFails
<1>20. ASSUME NEW p \in Procs, job[p] # None, PolicyFails(p) PROVE BridgeInv'
  BY <1>20 DEF PolicyFails
<1>21. ASSUME NEW p \in Procs, job[p] # None, TeardownFails(p) PROVE BridgeInv'
  BY <1>21 DEF TeardownFails
<1>22. ASSUME NEW p \in Procs, NEW v \in Vms, Launch(p, v) PROVE BridgeInv'
  BY <1>22 DEF Launch
<1>23. ASSUME NEW p \in Procs, NEW v \in Vms, Realized(p, v) PROVE BridgeInv'
  BY <1>23 DEF Realized
<1>24. ASSUME NEW p \in Procs, NEW v \in Vms, Configure(p, v) PROVE BridgeInv'
  BY <1>24 DEF Configure
<1>25. ASSUME NEW p \in Procs, NEW v \in Vms, Boot(p, v) PROVE BridgeInv'
  BY <1>25 DEF Boot
<1>26. ASSUME NEW p \in Procs, NEW v \in Vms, Unwind(p, v) PROVE BridgeInv'
  <2>1. Request(p, v, "cleanup", "rules") /\ state[v] # "none"
    BY <1>26 DEF Unwind, CleanupVm, StateInv
  <2>2. CASE Become(v, "unwind")
    BY <1>26, <2>1, <2>2 DEF Unwind
  <2>3. CASE Become(v, "delete")
    BY <1>26, <2>1, <2>3 DEF Unwind
  <2> QED BY <1>26, <2>2, <2>3 DEF Unwind
<1>27. ASSUME NEW p \in Procs, NEW v \in Vms, CleanupReplied(p, v) PROVE BridgeInv'
  <2>1. CASE vm[v] = "delete" /\ TakeReply(p, v, "err")
    BY <1>27, <2>1 DEF CleanupReplied
  <2>2. CASE vm[v] # "delete" /\ TakeReply(p, v, "err")
    BY <1>27, <2>2 DEF CleanupReplied
  <2>3. CASE TakeReply(p, v, "ok")
    BY <1>27, <2>3 DEF CleanupReplied
  <2> QED BY <1>27, <2>1, <2>2, <2>3 DEF CleanupReplied
<1>28. ASSUME NEW p \in Procs, NEW v \in Vms, DeleteTimesOut(p, v) PROVE BridgeInv'
  BY <1>28 DEF DeleteTimesOut
<1>29. ASSUME NEW p \in Procs, NEW v \in Vms, Recover(p, v) PROVE BridgeInv'
  <2>1. CASE state[v] = "none"
    BY <1>29, <2>1 DEF Recover
  <2>2. CASE state[v] # "none"
    <3>1. Request(p, v, "cleanup", "rules")
      BY <1>29, <2>2 DEF Recover, CleanupVm
    <3> QED BY <1>29, <2>2, <3>1 DEF Recover
  <2> QED BY <2>1, <2>2
<1>30. ASSUME NEW p \in Procs, ReplyUnread(p) PROVE BridgeInv'
  BY <1>30 DEF ReplyUnread
<1>31. ASSUME NEW p \in Procs, Crash(p) PROVE BridgeInv'
  BY <1>31 DEF Crash
<1>32. ASSUME NEW v \in Vms, RemoveOrphanRules(v) PROVE BridgeInv'
  BY <1>32 DEF RemoveOrphanRules
<1>33. ASSUME TakeInventory \/ CleanupEnds \/ UNCHANGED vars PROVE BridgeInv'
  BY <1>33 DEF TakeInventory, CleanupEnds, vars
<1> HIDE DEF Types, JobInv, StateInv, BridgeInv, Serves, Wired, HelperWorks, netVars,
             helperVars, vmVars, bounds, history, Step, Goto, Request, AllocationFails,
             TakeReply, ClearDir, Become, KillOrphan, Fails, Settled, Reply, AfterClaim,
             OtherUsers, Peers, Claimable, BridgeCondemned, AllocationSteps, LinkSteps,
             TeardownSteps, RealizeSteps, CleanupSteps, VmStates, Rules
<1>34. ASSUME NEW p \in Procs, HelperStep(p) PROVE BridgeInv'
  BY <1>34, <1>1, <1>2, <1>3, <1>4, <1>5, <1>6, <1>7, <1>8, <1>9, <1>10, <1>11, <1>12, <1>13,
     <1>14, <1>15, <1>16, <1>17, <1>18, <1>19, <1>20, <1>21 DEF HelperStep
<1>35. ASSUME NEW p \in Procs, NEW v \in Vms, VmStep(p, v) PROVE BridgeInv'
  BY <1>35, <1>22, <1>23, <1>24, <1>25, <1>26, <1>27, <1>28, <1>29 DEF VmStep
<1> QED BY <1>30, <1>31, <1>32, <1>33, <1>34, <1>35 DEF Next


\* Rules of a running VM are removed by nobody but net cleanup, from those it suspects.
LEMMA FilterStep ==
    ASSUME Types, JobInv, StateInv, FilterInv, [Next]_vars
    PROVE  FilterInv'
<1> USE NetAssumption
    DEF Types, JobInv, StateInv, FilterInv, Serves, HelperWorks, netVars, helperVars,
        vmVars, bounds, history, Step, Goto, Request, AllocationFails, TakeReply, ClearDir,
        Become, KillOrphan, Fails, Settled, Reply, AfterClaim, OtherUsers, Peers, Claimable,
        BridgeCondemned, AllocationSteps, LinkSteps, TeardownSteps, RealizeSteps,
        CleanupSteps, VmStates, Rules
<1>1. ASSUME NEW p \in Procs, job[p] # None, RejectCollision(p) PROVE FilterInv'
  BY <1>1 DEF RejectCollision
<1>2. ASSUME NEW p \in Procs, job[p] # None, LockAllocation(p) PROVE FilterInv'
  BY <1>2 DEF LockAllocation
<1>3. ASSUME NEW p \in Procs, job[p] # None, EnsureBridge(p) PROVE FilterInv'
  BY <1>3 DEF EnsureBridge
<1>4. ASSUME NEW p \in Procs, job[p] # None, CreateBridge(p) PROVE FilterInv'
  BY <1>4 DEF CreateBridge
<1>5. ASSUME NEW p \in Procs, job[p] # None, AddAddress(p) PROVE FilterInv'
  BY <1>5 DEF AddAddress
<1>6. ASSUME NEW p \in Procs, job[p] # None, WriteBridgeReady(p) PROVE FilterInv'
  BY <1>6 DEF WriteBridgeReady
<1>7. ASSUME NEW p \in Procs, job[p] # None, ClaimGuestIpv4(p) PROVE FilterInv'
  BY <1>7 DEF ClaimGuestIpv4
<1>8. ASSUME NEW p \in Procs, job[p] # None, RecordPlanned(p) PROVE FilterInv'
  BY <1>8 DEF RecordPlanned
<1>9. ASSUME NEW p \in Procs, job[p] # None, CreateLinks(p) PROVE FilterInv'
  BY <1>9 DEF CreateLinks
<1>10. ASSUME NEW p \in Procs, job[p] # None, RecordReady(p) PROVE FilterInv'
  BY <1>10 DEF RecordReady
<1>11. ASSUME NEW p \in Procs, job[p] # None, DeletePolicy(p) PROVE FilterInv'
  BY <1>11 DEF DeletePolicy
<1>12. ASSUME NEW p \in Procs, job[p] # None, DeleteLinks(p) PROVE FilterInv'
  BY <1>12 DEF DeleteLinks
<1>13. ASSUME NEW p \in Procs, job[p] # None, DeleteBridge(p) PROVE FilterInv'
  BY <1>13 DEF DeleteBridge
<1>14. ASSUME NEW p \in Procs, job[p] # None, RemoveBridgeRecord(p) PROVE FilterInv'
  BY <1>14 DEF RemoveBridgeRecord
<1>15. ASSUME NEW p \in Procs, job[p] # None, RemoveClaim(p) PROVE FilterInv'
  BY <1>15 DEF RemoveClaim
<1>16. ASSUME NEW p \in Procs, job[p] # None, RemoveState(p) PROVE FilterInv'
  BY <1>16 DEF RemoveState
<1>17. ASSUME NEW p \in Procs, job[p] # None, OrphanBridge(p) PROVE FilterInv'
  BY <1>17 DEF OrphanBridge
<1>18. ASSUME NEW p \in Procs, job[p] # None, ApplyOutboundNatPolicy(p) PROVE FilterInv'
  BY <1>18 DEF ApplyOutboundNatPolicy
<1>19. ASSUME NEW p \in Procs, job[p] # None, RealizeFails(p) PROVE FilterInv'
  BY <1>19 DEF RealizeFails
<1>20. ASSUME NEW p \in Procs, job[p] # None, PolicyFails(p) PROVE FilterInv'
  BY <1>20 DEF PolicyFails
<1>21. ASSUME NEW p \in Procs, job[p] # None, TeardownFails(p) PROVE FilterInv'
  BY <1>21 DEF TeardownFails
<1>22. ASSUME NEW p \in Procs, NEW v \in Vms, Launch(p, v) PROVE FilterInv'
  BY <1>22 DEF Launch
<1>23. ASSUME NEW p \in Procs, NEW v \in Vms, Realized(p, v) PROVE FilterInv'
  BY <1>23 DEF Realized
<1>24. ASSUME NEW p \in Procs, NEW v \in Vms, Configure(p, v) PROVE FilterInv'
  BY <1>24 DEF Configure
<1>25. ASSUME NEW p \in Procs, NEW v \in Vms, Boot(p, v) PROVE FilterInv'
  BY <1>25 DEF Boot
<1>26. ASSUME NEW p \in Procs, NEW v \in Vms, Unwind(p, v) PROVE FilterInv'
  <2>1. Request(p, v, "cleanup", "rules") /\ state[v] # "none"
    BY <1>26 DEF Unwind, CleanupVm, StateInv
  <2>2. CASE Become(v, "unwind")
    BY <1>26, <2>1, <2>2 DEF Unwind
  <2>3. CASE Become(v, "delete")
    BY <1>26, <2>1, <2>3 DEF Unwind
  <2> QED BY <1>26, <2>2, <2>3 DEF Unwind
<1>27. ASSUME NEW p \in Procs, NEW v \in Vms, CleanupReplied(p, v) PROVE FilterInv'
  BY <1>27 DEF CleanupReplied
<1>28. ASSUME NEW p \in Procs, NEW v \in Vms, DeleteTimesOut(p, v) PROVE FilterInv'
  BY <1>28 DEF DeleteTimesOut
<1>29. ASSUME NEW p \in Procs, NEW v \in Vms, Recover(p, v) PROVE FilterInv'
  <2>1. CASE state[v] = "none"
    BY <1>29, <2>1 DEF Recover
  <2>2. CASE state[v] # "none"
    <3>1. Request(p, v, "cleanup", "rules")
      BY <1>29, <2>2 DEF Recover, CleanupVm
    <3> QED BY <1>29, <2>2, <3>1 DEF Recover
  <2> QED BY <2>1, <2>2
<1>30. ASSUME NEW p \in Procs, ReplyUnread(p) PROVE FilterInv'
  BY <1>30 DEF ReplyUnread
<1>31. ASSUME NEW p \in Procs, Crash(p) PROVE FilterInv'
  BY <1>31 DEF Crash
<1>32. ASSUME NEW v \in Vms, RemoveOrphanRules(v) PROVE FilterInv'
  BY <1>32 DEF RemoveOrphanRules
<1>33. ASSUME TakeInventory \/ CleanupEnds \/ UNCHANGED vars PROVE FilterInv'
  BY <1>33 DEF TakeInventory, CleanupEnds, vars
<1> HIDE DEF Types, JobInv, StateInv, FilterInv, Serves, HelperWorks, netVars, helperVars,
             vmVars, bounds, history, Step, Goto, Request, AllocationFails, TakeReply,
             ClearDir, Become, KillOrphan, Fails, Settled, Reply, AfterClaim, OtherUsers,
             Peers, Claimable, BridgeCondemned, AllocationSteps, LinkSteps, TeardownSteps,
             RealizeSteps, CleanupSteps, VmStates, Rules
<1>34. ASSUME NEW p \in Procs, HelperStep(p) PROVE FilterInv'
  BY <1>34, <1>1, <1>2, <1>3, <1>4, <1>5, <1>6, <1>7, <1>8, <1>9, <1>10, <1>11, <1>12, <1>13,
     <1>14, <1>15, <1>16, <1>17, <1>18, <1>19, <1>20, <1>21 DEF HelperStep
<1>35. ASSUME NEW p \in Procs, NEW v \in Vms, VmStep(p, v) PROVE FilterInv'
  BY <1>35, <1>22, <1>23, <1>24, <1>25, <1>26, <1>27, <1>28, <1>29 DEF VmStep
<1> QED BY <1>30, <1>31, <1>32, <1>33, <1>34, <1>35 DEF Next


\* Every teardown step that does not fail leaves less behind.
LEMMA ResidueStep ==
    ASSUME Types, JobInv, StateInv, ResidueInv, [Next]_vars
    PROVE  ResidueInv'
<1> USE NetAssumption
    DEF Types, JobInv, StateInv, ResidueInv, Serves, Left, Clean, Unclaimed, HelperWorks,
        netVars, helperVars, vmVars, bounds, history, Step, Goto, Request, AllocationFails,
        TakeReply, ClearDir, Become, KillOrphan, Fails, Settled, Reply, AfterClaim,
        OtherUsers, Peers, Claimable, BridgeCondemned, AllocationSteps, LinkSteps,
        TeardownSteps, RealizeSteps, CleanupSteps, VmStates, Rules
<1>1. ASSUME NEW p \in Procs, job[p] # None, RejectCollision(p) PROVE ResidueInv'
  BY <1>1 DEF RejectCollision
<1>2. ASSUME NEW p \in Procs, job[p] # None, LockAllocation(p) PROVE ResidueInv'
  BY <1>2 DEF LockAllocation
<1>3. ASSUME NEW p \in Procs, job[p] # None, EnsureBridge(p) PROVE ResidueInv'
  BY <1>3 DEF EnsureBridge
<1>4. ASSUME NEW p \in Procs, job[p] # None, CreateBridge(p) PROVE ResidueInv'
  BY <1>4 DEF CreateBridge
<1>5. ASSUME NEW p \in Procs, job[p] # None, AddAddress(p) PROVE ResidueInv'
  BY <1>5 DEF AddAddress
<1>6. ASSUME NEW p \in Procs, job[p] # None, WriteBridgeReady(p) PROVE ResidueInv'
  BY <1>6 DEF WriteBridgeReady
<1>7. ASSUME NEW p \in Procs, job[p] # None, ClaimGuestIpv4(p) PROVE ResidueInv'
  BY <1>7 DEF ClaimGuestIpv4
<1>8. ASSUME NEW p \in Procs, job[p] # None, RecordPlanned(p) PROVE ResidueInv'
  BY <1>8 DEF RecordPlanned
<1>9. ASSUME NEW p \in Procs, job[p] # None, CreateLinks(p) PROVE ResidueInv'
  BY <1>9 DEF CreateLinks
<1>10. ASSUME NEW p \in Procs, job[p] # None, RecordReady(p) PROVE ResidueInv'
  BY <1>10 DEF RecordReady
<1>11. ASSUME NEW p \in Procs, job[p] # None, DeletePolicy(p) PROVE ResidueInv'
  BY <1>11 DEF DeletePolicy
<1>12. ASSUME NEW p \in Procs, job[p] # None, DeleteLinks(p) PROVE ResidueInv'
  BY <1>12 DEF DeleteLinks
<1>13. ASSUME NEW p \in Procs, job[p] # None, DeleteBridge(p) PROVE ResidueInv'
  BY <1>13 DEF DeleteBridge
<1>14. ASSUME NEW p \in Procs, job[p] # None, RemoveBridgeRecord(p) PROVE ResidueInv'
  BY <1>14 DEF RemoveBridgeRecord
<1>15. ASSUME NEW p \in Procs, job[p] # None, RemoveClaim(p) PROVE ResidueInv'
  BY <1>15 DEF RemoveClaim
<1>16. ASSUME NEW p \in Procs, job[p] # None, RemoveState(p) PROVE ResidueInv'
  BY <1>16 DEF RemoveState
<1>17. ASSUME NEW p \in Procs, job[p] # None, OrphanBridge(p) PROVE ResidueInv'
  BY <1>17 DEF OrphanBridge
<1>18. ASSUME NEW p \in Procs, job[p] # None, ApplyOutboundNatPolicy(p) PROVE ResidueInv'
  BY <1>18 DEF ApplyOutboundNatPolicy
<1>19. ASSUME NEW p \in Procs, job[p] # None, RealizeFails(p) PROVE ResidueInv'
  BY <1>19 DEF RealizeFails
<1>20. ASSUME NEW p \in Procs, job[p] # None, PolicyFails(p) PROVE ResidueInv'
  BY <1>20 DEF PolicyFails
<1>21. ASSUME NEW p \in Procs, job[p] # None, TeardownFails(p) PROVE ResidueInv'
  BY <1>21 DEF TeardownFails
<1>22. ASSUME NEW p \in Procs, NEW v \in Vms, Launch(p, v) PROVE ResidueInv'
  BY <1>22 DEF Launch
<1>23. ASSUME NEW p \in Procs, NEW v \in Vms, Realized(p, v) PROVE ResidueInv'
  BY <1>23 DEF Realized
<1>24. ASSUME NEW p \in Procs, NEW v \in Vms, Configure(p, v) PROVE ResidueInv'
  BY <1>24 DEF Configure
<1>25. ASSUME NEW p \in Procs, NEW v \in Vms, Boot(p, v) PROVE ResidueInv'
  BY <1>25 DEF Boot
<1>26. ASSUME NEW p \in Procs, NEW v \in Vms, Unwind(p, v) PROVE ResidueInv'
  <2>1. Request(p, v, "cleanup", "rules") /\ state[v] # "none"
    BY <1>26 DEF Unwind, CleanupVm, StateInv
  <2>2. CASE Become(v, "unwind")
    BY <1>26, <2>1, <2>2 DEF Unwind
  <2>3. CASE Become(v, "delete")
    BY <1>26, <2>1, <2>3 DEF Unwind
  <2> QED BY <1>26, <2>2, <2>3 DEF Unwind
<1>27. ASSUME NEW p \in Procs, NEW v \in Vms, CleanupReplied(p, v) PROVE ResidueInv'
  BY <1>27 DEF CleanupReplied
<1>28. ASSUME NEW p \in Procs, NEW v \in Vms, DeleteTimesOut(p, v) PROVE ResidueInv'
  BY <1>28 DEF DeleteTimesOut
<1>29. ASSUME NEW p \in Procs, NEW v \in Vms, Recover(p, v) PROVE ResidueInv'
  <2>1. CASE state[v] = "none"
    BY <1>29, <2>1 DEF Recover
  <2>2. CASE state[v] # "none"
    <3>1. Request(p, v, "cleanup", "rules")
      BY <1>29, <2>2 DEF Recover, CleanupVm
    <3> QED BY <1>29, <2>2, <3>1 DEF Recover
  <2> QED BY <2>1, <2>2
<1>30. ASSUME NEW p \in Procs, ReplyUnread(p) PROVE ResidueInv'
  BY <1>30 DEF ReplyUnread
<1>31. ASSUME NEW p \in Procs, Crash(p) PROVE ResidueInv'
  BY <1>31 DEF Crash
<1>32. ASSUME NEW v \in Vms, RemoveOrphanRules(v) PROVE ResidueInv'
  BY <1>32 DEF RemoveOrphanRules
<1>33. ASSUME TakeInventory \/ CleanupEnds \/ UNCHANGED vars PROVE ResidueInv'
  BY <1>33 DEF TakeInventory, CleanupEnds, vars
<1> HIDE DEF Types, JobInv, StateInv, ResidueInv, Serves, Left, Clean, Unclaimed,
             HelperWorks, netVars, helperVars, vmVars, bounds, history, Step, Goto, Request,
             AllocationFails, TakeReply, ClearDir, Become, KillOrphan, Fails, Settled,
             Reply, AfterClaim, OtherUsers, Peers, Claimable, BridgeCondemned,
             AllocationSteps, LinkSteps, TeardownSteps, RealizeSteps, CleanupSteps,
             VmStates, Rules
<1>34. ASSUME NEW p \in Procs, HelperStep(p) PROVE ResidueInv'
  BY <1>34, <1>1, <1>2, <1>3, <1>4, <1>5, <1>6, <1>7, <1>8, <1>9, <1>10, <1>11, <1>12, <1>13,
     <1>14, <1>15, <1>16, <1>17, <1>18, <1>19, <1>20, <1>21 DEF HelperStep
<1>35. ASSUME NEW p \in Procs, NEW v \in Vms, VmStep(p, v) PROVE ResidueInv'
  BY <1>35, <1>22, <1>23, <1>24, <1>25, <1>26, <1>27, <1>28, <1>29 DEF VmStep
<1> QED BY <1>30, <1>31, <1>32, <1>33, <1>34, <1>35 DEF Next


-----------------------------------------------------------------------------
\* At the start there is neither file, link nor rule, and every helper is idle.
LEMMA InitInv == Init => Inv
<1> SUFFICES ASSUME Init PROVE Inv
    OBVIOUS
<1> USE NetAssumption DEF Init
<1>1. Types
  BY DEF Types, VmStates, Rules
<1>2. LockInv
  BY DEF LockInv, AllocationSteps
<1>3. JobInv
  BY DEF JobInv
<1>4. StateInv
  BY DEF StateInv
<1>5. ClaimInv
  BY DEF ClaimInv, Claiming, Wired
<1>6. BridgeInv
  BY DEF BridgeInv, Wired
<1>7. FilterInv
  BY DEF FilterInv
<1>8. ResidueInv
  BY DEF ResidueInv, Clean, Unclaimed, HelperWorks
<1> QED BY <1>1, <1>2, <1>3, <1>4, <1>5, <1>6, <1>7, <1>8 DEF Inv

\* The conjunction is inductive.
LEMMA Invariance == Spec => []Inv
<1>1. Inv /\ [Next]_vars => Inv'
  BY TypesStep, LockStep, JobStep, StateStep, ClaimStep, BridgeStep, FilterStep, ResidueStep DEF Inv
<1> QED BY InitInv, <1>1, PTL DEF Spec

\* The shapes of files, links, rules and helpers, and the exclusion of the allocation
\* lock: realize_bridge_and_tap holds it in every allocation step and drops it on
\* every way out.
THEOREM TypeCorrect == Spec => []TypeOK
<1>1. Inv => TypeOK
  BY DEF Inv, Types, LockInv, TypeOK
<1> QED BY <1>1, Invariance, PTL

\* Two running VMs never have the same address, although cleanup and rollback remove
\* claims and state files without the lock: the claim of an address has one owner.
THEOREM AddressesUnique == Spec => []AddressUnique
<1>1. Inv => AddressUnique
  BY DEF Inv, Types, ClaimInv, Claiming, Wired, AddressUnique
<1> QED BY <1>1, Invariance, PTL

\* A running VM keeps its firewall rules through failures, crashes, recovery and net
\* cleanup, unless the inventory of that command was older than its state file.
THEOREM FilterHolds == Spec => []FilteredWhileUp
<1>1. Inv => FilteredWhileUp
  BY DEF Inv, FilterInv, FilteredWhileUp
<1> QED BY <1>1, Invariance, PTL

\* No cleanup and no rollback deletes the bridge under a running VM, unless the VM
\* wrote its state file between the look for other users and the deletion.
THEOREM BridgeStays == Spec => []BridgeUnderVm
<1>1. Inv => BridgeUnderVm
  BY DEF Inv, Types, BridgeInv, Wired, BridgeUnderVm
<1> QED BY <1>1, Invariance, PTL

\* When the directory of a VM is gone, so are its links, rules and claim, unless a
\* step of its teardown failed.
THEOREM NothingLeft == Spec => []NoResidue
<1>1. Inv => NoResidue
  <2> SUFFICES ASSUME Inv, NEW v \in Vms \ abandoned, vm[v] = "absent"
               PROVE  Clean(v)
    BY DEF NoResidue, Clean, Unclaimed
  <2>1. state[v] = "none"
    BY DEF Inv, StateInv
  <2>2. ~HelperWorks(v)
    BY NetAssumption DEF Inv, JobInv, Serves, HelperWorks
  <2> QED BY <2>1, <2>2 DEF Inv, ResidueInv
<1> QED BY <1>1, Invariance, PTL
=============================================================================
