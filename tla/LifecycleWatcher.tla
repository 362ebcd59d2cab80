-------------------------- MODULE LifecycleWatcher --------------------------
(***************************************************************************)
(* The lifecycle watcher thread of a RunningSandbox and the operations it  *)
(* races with: idle_watcher_loop in crates/m80-firecracker/src/lifecycle.rs *)
(* against begin_exec_activity, ExecActivityGuard and the operations that   *)
(* only touch last_activity_ns (file operations, ping, metrics, hotplug),   *)
(* and stop, force_kill and drop.                                          *)
(*                                                                         *)
(* Every load and store of a shared atomic is a step.  The methods take    *)
(* &mut self, so one operation is in flight at a time.  monotonic_ns is a  *)
(* clock that the environment advances; poll intervals are abstracted to   *)
(* the watcher waking up whenever it likes.                                *)
(***************************************************************************)
EXTENDS Integers

CONSTANTS
    None,         \* an Option::None
    IdleTimeout,  \* idle_timeout, in ticks, or None
    MaxLifetime,  \* max_lifetime, in ticks, or None
    MaxTime       \* bound: the clock stops here

ASSUME TimeoutAssumption ==
    /\ IdleTimeout \in (Nat \ {0}) \cup {None}
    /\ MaxLifetime \in (Nat \ {0}) \cup {None}
    /\ None \notin Nat
    /\ MaxTime \in Nat

VARIABLES
    now,              \* monotonic_ns
    last_activity,    \* last_activity_ns
    active_execs,
    idle_timed_out,
    lifetime_expired,
    watcher_stop,
    vm,               \* "up", "shutdown" when guestd took the request, or "killed"
    client,           \* where the operation in flight is
    op,               \* "exec" (counted in active_execs) or "other"
    late,             \* history: the operation began after an expiry flag was set
    raced,            \* history: the exec was counted after the watcher had last read active_execs
    watcher,          \* where the watcher thread is
    w                 \* its locals: now_ns, active_execs, lifetime_expired_now

flags == <<idle_timed_out, lifetime_expired, watcher_stop>>
clientVars == <<client, op, late, raced>>
watcherVars == <<watcher, w>>
vars == <<now, last_activity, active_execs, flags, vm, clientVars, watcherVars>>

\* The watcher has read active_execs and not yet gone back to sleep.
Deciding == {"looked", "judged", "fire_idle", "fire_life", "send"}

Gated == {"gate_idle", "gate_life", "touch", "busy", "ending"}

TypeOK ==
    /\ now \in 0..MaxTime
    /\ last_activity \in 0..MaxTime
    /\ active_execs \in 0..1
    /\ idle_timed_out \in BOOLEAN
    /\ lifetime_expired \in BOOLEAN
    /\ watcher_stop \in BOOLEAN
    /\ vm \in {"up", "shutdown", "killed"}
    /\ client \in Gated \cup {"free", "kill", "join", "done"}
    /\ op \in {"exec", "other"}
    /\ late \in BOOLEAN
    /\ raced \in BOOLEAN
    /\ watcher \in {"asleep", "woke", "looked", "judged", "fire_idle", "fire_life", "send", "exited"}
    /\ w \in [now : 0..MaxTime, active : 0..1, life : BOOLEAN]

\* The watcher is spawned only if one of the two limits is configured.
Init ==
    /\ now = 0
    /\ last_activity = 0
    /\ active_execs = 0
    /\ idle_timed_out = FALSE
    /\ lifetime_expired = FALSE
    /\ watcher_stop = FALSE
    /\ vm = "up"
    /\ client = "free"
    /\ op = "exec"
    /\ late = FALSE
    /\ raced = FALSE
    /\ watcher = IF IdleTimeout = None /\ MaxLifetime = None THEN "exited" ELSE "asleep"
    /\ w = [now |-> 0, active |-> 0, life |-> FALSE]

Step(from, to) == client = from /\ client' = to

-----------------------------------------------------------------------------
(* Operations of the owner of the sandbox.                                 *)

\* begin_exec_activity counts the exec before it looks at the flags.
BeginExec ==
    /\ Step("free", "gate_idle")
    /\ op' = "exec"
    /\ late' = (idle_timed_out \/ lifetime_expired)
    /\ raced' = (watcher \in Deciding)
    /\ active_execs' = active_execs + 1
    /\ UNCHANGED <<now, last_activity, flags, vm, watcherVars>>

\* File operations, ping, metrics and hotplug are not counted.
BeginOther ==
    /\ Step("free", "gate_idle")
    /\ op' = "other"
    /\ late' = (idle_timed_out \/ lifetime_expired)
    /\ UNCHANGED <<now, last_activity, active_execs, flags, vm, raced, watcherVars>>

Uncount == active_execs' = IF op = "exec" THEN active_execs - 1 ELSE active_execs

\* Mutant: the error path keeps the exec counted.
RejectCounted ==
    /\ client' = "free"
    /\ UNCHANGED <<now, last_activity, active_execs, flags, vm, op, late, raced, watcherVars>>

Reject ==
    /\ client' = "free"
    /\ Uncount
    /\ UNCHANGED <<now, last_activity, flags, vm, op, late, raced, watcherVars>>

Pass(from, to) ==
    /\ Step(from, to)
    /\ UNCHANGED <<now, last_activity, active_execs, flags, vm, op, late, raced, watcherVars>>

\* ensure_lifecycle_accepts_work loads idle_timed_out (Err(IdleTimedOut)) ...
GateIdle ==
    /\ client = "gate_idle"
    /\ IF idle_timed_out THEN Reject ELSE Pass("gate_idle", "gate_life")

\* Mutant: only the idle flag is looked at.
GateOpen == Pass("gate_life", "touch")

\* ... and then lifetime_expired (Err(LifetimeExpired)).
GateLifetime ==
    /\ client = "gate_life"
    /\ IF lifetime_expired THEN Reject ELSE Pass("gate_life", "touch")

\* The clock is read and stored; from here on the request is in flight.
Touch ==
    /\ Step("touch", "busy")
    /\ last_activity' = now
    /\ UNCHANGED <<now, active_execs, flags, vm, op, late, raced, watcherVars>>

\* The operation returns: a terminal frame, or an error, which for an
\* uncounted operation leaves last_activity_ns alone.
Return ==
    /\ Step("busy", IF op = "exec" THEN "ending" ELSE "free")
    /\ \/ last_activity' = now
       \/ op = "other" /\ UNCHANGED last_activity
    /\ UNCHANGED <<now, active_execs, flags, vm, op, late, raced, watcherVars>>

\* Mutant: ExecActivityGuard::drop forgets fetch_sub.
EndsCounted ==
    /\ Step("ending", "free")
    /\ UNCHANGED <<now, last_activity, active_execs, flags, vm, op, late, raced, watcherVars>>

\* ExecActivityGuard::drop has stored the time and gives up its count.
ExecEnds ==
    /\ Step("ending", "free")
    /\ Uncount
    /\ UNCHANGED <<now, last_activity, flags, vm, op, late, raced, watcherVars>>

\* stop, force_kill and ForceKillGuard::drop signal the watcher first ...
Stop ==
    /\ Step("free", "kill")
    /\ watcher_stop' = TRUE
    /\ UNCHANGED <<now, last_activity, active_execs, idle_timed_out, lifetime_expired, vm, op, late, raced, watcherVars>>

\* ... then ask guestd to shut down (stop only) and SIGKILL, which may fail ...
Kill ==
    /\ Step("kill", "join")
    /\ vm' \in {"killed", "shutdown", vm}
    /\ UNCHANGED <<now, last_activity, active_execs, flags, op, late, raced, watcherVars>>

\* ... and join it last, or give up after WATCHER_JOIN_TIMEOUT (drop does not join).
Join == Pass("join", "done")

-----------------------------------------------------------------------------
(* idle_watcher_loop.                                                      *)

WStep(from, to) == watcher = from /\ watcher' = to

Wake ==
    /\ WStep("asleep", IF watcher_stop THEN "exited" ELSE "woke")
    /\ w' = [w EXCEPT !.now = now]
    /\ UNCHANGED <<now, last_activity, active_execs, flags, vm, clientVars>>

LoadActive ==
    /\ WStep("woke", "looked")
    /\ w' = [w EXCEPT !.active = active_execs]
    /\ UNCHANGED <<now, last_activity, active_execs, flags, vm, clientVars>>

LifetimeDue == lifetime_expired \/ (MaxLifetime # None /\ w.now >= MaxLifetime)

\* Mutant: an exec in flight also keeps the flag from being published.
JudgeLifetimeLater ==
    /\ WStep("looked", IF w.active > 0 THEN "asleep" ELSE "judged")
    /\ lifetime_expired' = (LifetimeDue /\ (w.active = 0 \/ lifetime_expired))
    /\ w' = [w EXCEPT !.life = LifetimeDue]
    /\ UNCHANGED <<now, last_activity, active_execs, idle_timed_out, watcher_stop, vm, clientVars>>

\* Mutant: the watcher fires over an exec in flight.
JudgeLifetimeOver ==
    /\ WStep("looked", "judged")
    /\ lifetime_expired' = LifetimeDue
    /\ w' = [w EXCEPT !.life = LifetimeDue]
    /\ UNCHANGED <<now, last_activity, active_execs, idle_timed_out, watcher_stop, vm, clientVars>>

\* The lifetime flag is published even when an exec is in flight.
JudgeLifetime ==
    /\ WStep("looked", IF w.active > 0 THEN "asleep" ELSE "judged")
    /\ lifetime_expired' = LifetimeDue
    /\ w' = [w EXCEPT !.life = LifetimeDue]
    /\ UNCHANGED <<now, last_activity, active_execs, idle_timed_out, watcher_stop, vm, clientVars>>

IdleDue == IdleTimeout # None /\ w.now >= last_activity + IdleTimeout

\* Option's order puts None before Some: idle_deadline_ns <= lifetime_deadline_ns.
IdleFirst == MaxLifetime # None /\ last_activity + IdleTimeout <= MaxLifetime

JudgeIdle ==
    /\ WStep("judged", IF IdleDue /\ (~w.life \/ IdleFirst) THEN "fire_idle"
                       ELSE IF w.life THEN "fire_life"
                       ELSE "asleep")
    /\ UNCHANGED <<now, last_activity, active_execs, flags, vm, clientVars, w>>

\* expire_idle_timeout, expire_max_lifetime: the flag first ...
ExpireIdle ==
    /\ WStep("fire_idle", "send")
    /\ idle_timed_out' = TRUE
    /\ UNCHANGED <<now, last_activity, active_execs, lifetime_expired, watcher_stop, vm, clientVars, w>>

ExpireLifetime ==
    /\ WStep("fire_life", "send")
    /\ lifetime_expired' = TRUE
    /\ UNCHANGED <<now, last_activity, active_execs, idle_timed_out, watcher_stop, vm, clientVars, w>>

\* ... then the shutdown request, best effort, and the thread ends.
SendShutdown ==
    /\ WStep("send", "exited")
    /\ vm' \in {vm, IF vm = "up" THEN "shutdown" ELSE vm}
    /\ UNCHANGED <<now, last_activity, active_execs, flags, clientVars, w>>

-----------------------------------------------------------------------------
Tick ==
    /\ now < MaxTime
    /\ now' = now + 1
    /\ UNCHANGED <<last_activity, active_execs, flags, vm, clientVars, watcherVars>>

Client ==
    \/ BeginExec \/ BeginOther \/ GateIdle \/ GateLifetime \/ Touch
    \/ Return \/ ExecEnds \/ Stop \/ Kill \/ Join

Watcher ==
    \/ Wake \/ LoadActive \/ JudgeLifetime \/ JudgeIdle
    \/ ExpireIdle \/ ExpireLifetime \/ SendShutdown

\* The sandbox is gone and its watcher with it.
Ended ==
    /\ client = "done"
    /\ watcher = "exited"
    /\ UNCHANGED vars

Next == Client \/ Watcher \/ Tick \/ Ended

Spec == Init /\ [][Next]_vars

\* The watcher thread keeps being scheduled; nothing makes the owner call anything.
FairSpec == Spec /\ WF_vars(Watcher)

-----------------------------------------------------------------------------
(* Properties.                                                             *)

\* An operation that began after an expiry flag was published never reaches
\* the guest, whichever of the two flags it was.
GateShut == late => client \notin {"touch", "busy", "ending"}

\* guestd is asked to shut down only after the gate is closed (an expiry flag,
\* or stop, which consumes the sandbox): no operation begins on a sandbox that
\* is being shut down.
ClosedBeforeShutdown == vm = "shutdown" => idle_timed_out \/ lifetime_expired \/ watcher_stop

\* max_lifetime is absolute: once it has passed, further operations are
\* refused, even while one exec never returns.
LifetimeCloses ==
    (MaxLifetime # None /\ now >= MaxLifetime) ~> (lifetime_expired \/ idle_timed_out \/ watcher_stop)

\* A sandbox that is left alone past idle_timeout is expired: no exec that
\* ended or was refused keeps it alive through a stale count.
IdleExpires ==
    (IdleTimeout # None /\ client = "free" /\ now >= last_activity + IdleTimeout)
        ~> (idle_timed_out \/ lifetime_expired \/ client # "free")

\* An exec that was counted before the watcher last read active_execs is never
\* shut down under: "their request is allowed to complete" (lifecycle.rs:630-631)
\* holds but for an exec that begins while the watcher is making up its mind.
CountedExecSpared ==
    [][SendShutdown /\ vm' = "shutdown" /\ client = "busy" /\ op = "exec" => raced]_vars
=============================================================================
