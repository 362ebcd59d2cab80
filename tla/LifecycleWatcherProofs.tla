----------------------- MODULE LifecycleWatcherProofs -----------------------
(***************************************************************************)
(* Proofs that the expiry gate of a RunningSandbox is race-free in the one *)
(* direction it has to be: for every pair of limits, whatever the watcher  *)
(* and the owner of the sandbox do in between, an operation that begins    *)
(* after a flag was published is refused, and the shutdown request follows *)
(* the flag.                                                               *)
(***************************************************************************)
EXTENDS LifecycleWatcher, TLAPS

\* What the two gate steps know about an operation that began too late: a
\* flag is up, and past the first step it must be the lifetime flag, for the
\* idle flag would have been seen.
GateInv ==
    /\ late /\ client = "gate_idle" => idle_timed_out \/ lifetime_expired
    /\ late /\ client = "gate_life" => lifetime_expired
    /\ GateShut

\* The watcher holds its shutdown request only with a flag up, and the owner
\* sends its own only with the watcher told to stop.
SendInv ==
    /\ watcher = "send" => idle_timed_out \/ lifetime_expired
    /\ client = "kill" => watcher_stop
    /\ ClosedBeforeShutdown

\* The flags are booleans, so that a flag that is up stays up.
FlagInv ==
    /\ idle_timed_out \in BOOLEAN
    /\ lifetime_expired \in BOOLEAN
    /\ watcher_stop \in BOOLEAN

IInv == FlagInv /\ GateInv /\ SendInv

\* No step of the owner or the watcher takes a flag down again.
LEMMA FlagsStay ==
    ASSUME FlagInv, [Next]_vars
    PROVE  /\ FlagInv'
           /\ idle_timed_out => idle_timed_out'
           /\ lifetime_expired => lifetime_expired'
           /\ watcher_stop => watcher_stop'
<1> USE DEF FlagInv, vars, flags
<1>1. CASE Client
  BY <1>1 DEF Client, BeginExec, BeginOther, GateIdle, GateLifetime, Touch, Return, ExecEnds, Stop, Kill, Join,
              Reject, Pass, Step
<1>2. CASE Watcher
  BY <1>2 DEF Watcher, Wake, LoadActive, JudgeLifetime, JudgeIdle, ExpireIdle, ExpireLifetime, SendShutdown,
              LifetimeDue, WStep
<1>3. CASE Tick
  BY <1>3 DEF Tick
<1>4. CASE Ended \/ UNCHANGED vars
  BY <1>4 DEF Ended
<1> QED
  BY <1>1, <1>2, <1>3, <1>4 DEF Next

\* The gate: only the owner's steps move an operation through it, and the
\* flags it has or has not seen are still what they were.
LEMMA GateStep ==
    ASSUME FlagInv, GateInv, [Next]_vars
    PROVE  GateInv'
<1> USE DEF GateInv, GateShut, FlagInv, vars, flags, clientVars
<1>0. /\ idle_timed_out => idle_timed_out'
      /\ lifetime_expired => lifetime_expired'
  BY FlagsStay
<1>1. CASE BeginExec \/ BeginOther
  BY <1>1 DEF BeginExec, BeginOther, Step
<1>2. CASE GateIdle
  BY <1>2 DEF GateIdle, Reject, Pass, Step
<1>3. CASE GateLifetime
  BY <1>3 DEF GateLifetime, Reject, Pass, Step
<1>4. CASE Touch \/ Return \/ ExecEnds
  BY <1>4 DEF Touch, Return, ExecEnds, Step
<1>5. CASE Stop \/ Kill \/ Join
  BY <1>5 DEF Stop, Kill, Join, Pass, Step
<1>6. CASE Watcher \/ Tick \/ Ended \/ UNCHANGED vars
  <2>1. UNCHANGED <<client, late>>
    BY <1>6 DEF Watcher, Wake, LoadActive, JudgeLifetime, JudgeIdle, ExpireIdle, ExpireLifetime, SendShutdown,
                Tick, Ended
  <2> QED
    BY <1>0, <2>1
<1> QED
  BY <1>1, <1>2, <1>3, <1>4, <1>5, <1>6 DEF Next, Client

\* The watcher moves only in its own steps, the owner asks for a shutdown only
\* past Stop, and no flag comes down.
LEMMA SendStep ==
    ASSUME FlagInv, SendInv, [Next]_vars
    PROVE  SendInv'
<1> USE DEF SendInv, ClosedBeforeShutdown, FlagInv, vars, flags, clientVars, watcherVars
<1>0. /\ idle_timed_out => idle_timed_out'
      /\ lifetime_expired => lifetime_expired'
      /\ watcher_stop => watcher_stop'
  BY FlagsStay
<1>1. CASE Watcher
  <2>1. CASE Wake \/ LoadActive \/ JudgeLifetime \/ JudgeIdle
    <3>1. watcher' # "send" /\ vm' = vm /\ client' = client
      BY <2>1 DEF Wake, LoadActive, JudgeLifetime, JudgeIdle, WStep
    <3> QED
      BY <1>0, <3>1
  <2>2. CASE ExpireIdle \/ ExpireLifetime
    BY <2>2 DEF ExpireIdle, ExpireLifetime, WStep
  <2>3. CASE SendShutdown
    BY <2>3 DEF SendShutdown, WStep
  <2> QED
    BY <1>1, <2>1, <2>2, <2>3 DEF Watcher
<1>2. CASE Client
  <2>1. CASE Stop
    BY <1>0, <2>1 DEF Stop, Step
  <2>2. CASE Kill
    BY <1>0, <2>2 DEF Kill, Step
  <2>3. CASE ~Stop /\ ~Kill
    <3>1. watcher' = watcher /\ vm' = vm /\ client' # "kill"
      BY <1>2, <2>3 DEF Client, BeginExec, BeginOther, GateIdle, GateLifetime, Touch, Return, ExecEnds, Join,
                        Reject, Pass, Step
    <3> QED
      BY <1>0, <3>1
  <2> QED
    BY <2>1, <2>2, <2>3
<1>3. CASE Tick \/ Ended \/ UNCHANGED vars
  BY <1>0, <1>3 DEF Tick, Ended
<1> QED
  BY <1>1, <1>2, <1>3 DEF Next

\* The inductive invariant holds throughout.
LEMMA Inductive == Spec => []IInv
<1>1. Init => IInv
  BY DEF Init, IInv, FlagInv, GateInv, GateShut, SendInv, ClosedBeforeShutdown
<1>2. IInv /\ [Next]_vars => IInv'
  BY FlagsStay, GateStep, SendStep DEF IInv
<1> QED
  BY <1>1, <1>2, PTL DEF Spec

\* An operation begun after idle_timed_out or lifetime_expired was published
\* never gets past ensure_lifecycle_accepts_work, whatever the interleaving
\* of its two loads with the watcher's stores.
THEOREM ExpiredGateIsShut == Spec => []GateShut
<1>1. IInv => GateShut
  BY DEF IInv, GateInv
<1> QED
  BY Inductive, <1>1, PTL

\* expire_idle_timeout and expire_max_lifetime close the gate before guestd is
\* asked to shut down, and nothing opens it again.
THEOREM ShutdownFollowsFlag == Spec => []ClosedBeforeShutdown
<1>1. IInv => ClosedBeforeShutdown
  BY DEF IInv, SendInv
<1> QED
  BY Inductive, <1>1, PTL

\* The counter of execs is one exactly from begin_exec_activity to the drop of
\* the guard; every value has its type.  Without the first part a fetch_sub
\* might take the counter below zero.
CountInv ==
    /\ TypeOK
    /\ active_execs = IF op = "exec" /\ client \in Gated THEN 1 ELSE 0

\* What an operation notes when it begins is a truth value.
LEMMA HistoryTyped ==
    ASSUME raced \in BOOLEAN, BeginExec \/ BeginOther
    PROVE  raced' \in BOOLEAN /\ late' \in BOOLEAN
<1>1. ASSUME BeginExec PROVE raced' \in BOOLEAN /\ late' \in BOOLEAN
  <2>1. raced' = (watcher \in Deciding)
    BY <1>1 DEF BeginExec
  <2>2. raced' = TRUE \/ raced' = FALSE
    <3>1. CASE watcher \in Deciding
      BY <2>1, <3>1, SMT
    <3>2. CASE ~(watcher \in Deciding)
      BY <2>1, <3>2, SMT
    <3> QED
      BY <3>1, <3>2
  <2> QED
    BY <1>1, <2>2 DEF BeginExec
<1>2. ASSUME BeginOther PROVE raced' \in BOOLEAN /\ late' \in BOOLEAN
  BY <1>2 DEF BeginOther
<1> QED
  BY <1>1, <1>2

\* Every step of the owner counts an exec once and uncounts it once.
LEMMA CountClient ==
    ASSUME CountInv, Client
    PROVE  CountInv'
<1> USE TimeoutAssumption DEF CountInv, TypeOK, Gated, Step, flags, watcherVars
<1>1. CASE BeginExec \/ BeginOther
  <2>1. raced' \in BOOLEAN /\ late' \in BOOLEAN
    BY <1>1, HistoryTyped
  <2>2. /\ client = "free" /\ client' = "gate_idle"
        /\ \/ op' = "exec" /\ active_execs' = active_execs + 1
           \/ op' = "other" /\ active_execs' = active_execs
        /\ UNCHANGED <<now, last_activity, flags, vm, watcherVars>>
    BY <1>1 DEF BeginExec, BeginOther
  <2>3. now' \in 0..MaxTime /\ last_activity' \in 0..MaxTime /\ active_execs' \in 0..1
    BY <2>2
  <2> QED
    BY <2>1, <2>2, <2>3
<1>2. CASE GateIdle
  BY <1>2 DEF GateIdle, Reject, Pass, Uncount
<1>3. CASE GateLifetime
  BY <1>3 DEF GateLifetime, Reject, Pass, Uncount
<1>4. CASE Touch \/ Return
  BY <1>4 DEF Touch, Return
<1>5. CASE ExecEnds
  BY <1>5 DEF ExecEnds, Uncount
<1>6. CASE Stop
  <2>1. watcher_stop' \in BOOLEAN
    BY <1>6 DEF Stop
  <2> QED
    BY <1>6, <2>1 DEF Stop
<1>7. CASE Kill
  <2>1. vm' \in {"up", "shutdown", "killed"}
    BY <1>7 DEF Kill
  <2> QED
    BY <1>7, <2>1 DEF Kill
<1>8. CASE Join
  BY <1>8 DEF Join, Pass
<1> QED
  BY <1>1, <1>2, <1>3, <1>4, <1>5, <1>6, <1>7, <1>8 DEF Client

\* The watcher only reads the counter.
LEMMA CountWatcher ==
    ASSUME CountInv, Watcher
    PROVE  CountInv'
<1> USE TimeoutAssumption DEF CountInv, TypeOK, Gated, WStep, flags, clientVars
<1>1. CASE Wake \/ LoadActive
  BY <1>1 DEF Wake, LoadActive
<1>2. CASE JudgeLifetime
  BY <1>2, ZenonT(60) DEF JudgeLifetime, LifetimeDue
<1>3. CASE JudgeIdle
  BY <1>3 DEF JudgeIdle
<1>4. CASE ExpireIdle \/ ExpireLifetime
  <2>1. idle_timed_out' \in BOOLEAN /\ lifetime_expired' \in BOOLEAN
    BY <1>4 DEF ExpireIdle, ExpireLifetime
  <2> QED
    BY <1>4, <2>1 DEF ExpireIdle, ExpireLifetime
<1>5. CASE SendShutdown
  <2>1. vm' \in {"up", "shutdown", "killed"}
    BY <1>5 DEF SendShutdown
  <2> QED
    BY <1>5, <2>1 DEF SendShutdown
<1> QED
  BY <1>1, <1>2, <1>3, <1>4, <1>5 DEF Watcher

\* CountInv holds throughout.
LEMMA Counted == Spec => []CountInv
<1>1. Init => CountInv
  <2> SUFFICES ASSUME Init PROVE CountInv
    OBVIOUS
  <2>1. 0 \in 0..MaxTime
    BY TimeoutAssumption
  <2>2. w \in [now : 0..MaxTime, active : 0..1, life : BOOLEAN]
    BY <2>1 DEF Init
  <2> QED
    BY <2>1, <2>2 DEF Init, CountInv, TypeOK, Gated
<1>2. CountInv /\ [Next]_vars => CountInv'
  <2> SUFFICES ASSUME CountInv, [Next]_vars
               PROVE  CountInv'
    OBVIOUS
  <2>1. CASE Tick
    BY <2>1, TimeoutAssumption DEF Tick, CountInv, TypeOK, Gated, flags, clientVars, watcherVars
  <2>2. CASE Ended \/ UNCHANGED vars
    BY <2>2 DEF Ended, CountInv, TypeOK, Gated, vars, flags, clientVars, watcherVars
  <2> QED
    BY <2>1, <2>2, CountClient, CountWatcher DEF Next
<1> QED
  BY <1>1, <1>2, PTL DEF Spec

\* No interleaving of begin_exec_activity, its error path, the guard's drop and
\* the watcher takes active_execs out of {0, 1}, for any limits and any clock.
THEOREM TypeCorrect == Spec => []TypeOK
<1>1. CountInv => TypeOK
  BY DEF CountInv
<1> QED
  BY Counted, <1>1, PTL

\* What the watcher has read of an exec in flight: an exec that was there when
\* it looked is in its copy of the counter, and with such a copy it never gets
\* past JudgeLifetime.
SpareInv ==
    /\ watcher \in Deciding \ {"looked"} => w.active = 0
    /\ watcher \in Deciding /\ op = "exec" /\ client \in Gated /\ ~raced => w.active = 1

\* Only BeginExec puts an exec in flight, and it notes what the watcher is doing.
LEMMA SpareClient ==
    ASSUME CountInv, SpareInv, Client
    PROVE  SpareInv'
<1> USE DEF SpareInv, CountInv, TypeOK, Gated, Deciding, Step, watcherVars
<1>1. CASE BeginExec
  BY <1>1 DEF BeginExec
<1>2. CASE BeginOther
  BY <1>2 DEF BeginOther
<1>3. CASE GateIdle \/ GateLifetime
  BY <1>3 DEF GateIdle, GateLifetime, Reject, Pass
<1>4. CASE Touch \/ Return \/ ExecEnds
  BY <1>4 DEF Touch, Return, ExecEnds
<1>5. CASE Stop \/ Kill \/ Join
  BY <1>5 DEF Stop, Kill, Join, Pass
<1> QED
  BY <1>1, <1>2, <1>3, <1>4, <1>5 DEF Client

\* LoadActive copies the exact counter and JudgeLifetime acts on the copy.
LEMMA SpareWatcher ==
    ASSUME CountInv, SpareInv, Watcher
    PROVE  SpareInv'
<1> USE DEF SpareInv, CountInv, TypeOK, Deciding, WStep, clientVars
<1>1. CASE Wake
  BY <1>1 DEF Wake
<1>2. CASE LoadActive
  BY <1>2 DEF LoadActive, Gated
<1>3. CASE JudgeLifetime
  BY <1>3 DEF JudgeLifetime
<1>4. CASE JudgeIdle
  BY <1>4 DEF JudgeIdle
<1>5. CASE ExpireIdle \/ ExpireLifetime
  BY <1>5 DEF ExpireIdle, ExpireLifetime
<1>6. CASE SendShutdown
  BY <1>6 DEF SendShutdown
<1> QED
  BY <1>1, <1>2, <1>3, <1>4, <1>5, <1>6 DEF Watcher

\* For every pair of limits, an exec that was in flight when the watcher read
\* active_execs is not shut down under: the only execs the watcher's request can
\* reach are those counted between that load and the request.
THEOREM WatcherSparesCountedExecs == Spec => CountedExecSpared
<1>1. Init => SpareInv
  BY DEF Init, SpareInv, Deciding
<1>2. CountInv /\ SpareInv /\ [Next]_vars => SpareInv'
  <2> SUFFICES ASSUME CountInv, SpareInv, [Next]_vars
               PROVE  SpareInv'
    OBVIOUS
  <2>1. CASE Tick
    BY <2>1 DEF Tick, SpareInv, clientVars, watcherVars
  <2>2. CASE Ended \/ UNCHANGED vars
    BY <2>2 DEF Ended, SpareInv, vars, clientVars, watcherVars
  <2> QED
    BY <2>1, <2>2, SpareClient, SpareWatcher DEF Next
<1>3. SpareInv => [SendShutdown /\ vm' = "shutdown" /\ client = "busy" /\ op = "exec" => raced]_vars
  BY DEF SpareInv, SendShutdown, WStep, Deciding, Gated
<1> QED
  BY Counted, <1>1, <1>2, <1>3, PTL DEF Spec, CountedExecSpared
=============================================================================
