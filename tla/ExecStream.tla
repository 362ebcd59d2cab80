----------------------------- MODULE ExecStream -----------------------------
(***************************************************************************)
(* One exec or PTY request: the host call (exec_streaming_inner, exec_pty) *)
(* with its forwarder thread, the connection, and the guest daemon's       *)
(* handler (handle_streaming_exec, handle_pty_exec) with its child, the    *)
(* capture threads and the channel of one frame between them.              *)
(*                                                                         *)
(* A frame is a tuple: <<stream, seq>> for output, <<"exit", status>>,     *)
(* <<"ack", status>>, and from the host <<"cancel">> and <<"input", seq>>. *)
(* The child may leave a background process behind that keeps its output   *)
(* pipes open; `group` says whether that process stayed in the group.      *)
(***************************************************************************)
EXTENDS Naturals, Sequences, FiniteSets

CONSTANTS
    MaxChunks,  \* bound: chunks written to one stream
    MaxSeq,     \* largest sequence number (u32::MAX in the code)
    SockCap,    \* frames the connection holds towards the host
    PipeCap,    \* chunks a pipe holds
    InCap,      \* frames the connection holds towards the guest
    MaxInputs,  \* bound: PTY input frames the caller sends
    Kinds,      \* the requests made: "exec", "pty"
    Background  \* may the child leave a process behind

ASSUME BoundsAssumption ==
    /\ {MaxChunks, MaxSeq, SockCap, PipeCap, InCap, MaxInputs} \subseteq Nat
    /\ SockCap > 0 /\ PipeCap > 0 /\ InCap > 0
    /\ Kinds \subseteq {"exec", "pty"}
    /\ Background \in BOOLEAN

VARIABLES
    kind,       \* "exec" or "pty"
    host,       \* the call: "recv", "returned" (guards run), "closed"
    outcome,    \* what the call returned
    expected,   \* expected_*_seq of the host, per stream
    delivered,  \* chunks passed to on_chunk / on_output
    fwd,        \* forwarder thread: "on", in a send of "input" or "cancel", "gone"
    asked,      \* the caller asked to cancel
    inputs,     \* PTY input frames the forwarder sent
    to_guest,   \* frames from host to guest
    to_host,    \* frames from guest to host
    g,          \* where the guest handler is
    after,      \* what follows the join of the capture threads
    exit_status,\* "none", "code" or "signal"
    timed_out,
    streams_done,
    expired,    \* the sides whose deadline has passed
    input_seq,  \* expected_input_seq of the guest
    child,      \* "running", "zombie_code", "zombie_signal", "reaped"
    group,      \* background process: "none", "inside", "outside"
    pipe,       \* chunks in the pipe, per stream
    written,    \* chunks written so far, per stream
    capture,    \* capture thread: "read", "send", "done"
    seq,        \* its next sequence number
    chan,       \* the channel: at most one frame
    rx          \* the handler still holds the receiver

hostVars == <<host, outcome, expected, delivered>>
fwdVars == <<fwd, asked, inputs>>
wireVars == <<to_guest, to_host>>
loopVars == <<g, after, exit_status, timed_out, streams_done, input_seq>>
childVars == <<child, group>>
outVars == <<pipe, written>>
capVars == <<capture, seq, chan>>
vars == <<kind, hostVars, fwdVars, wireVars, loopVars, expired, childVars, outVars, capVars, rx>>

AllStreams == {"out", "err"}
Streams == IF kind = "exec" THEN AllStreams ELSE {"out"}

\* The request has been sent and accepted. A daemon that cannot spawn answers
\* with one message and a failed exit, a daemon with stdin to pass on begins
\* with that, any other enters its loop.
Init ==
    /\ kind \in Kinds
    /\ host = "recv" /\ outcome = "none"
    /\ expected = [s \in AllStreams |-> 0]
    /\ delivered = [s \in AllStreams |-> 0]
    /\ fwd = "on" /\ asked = FALSE /\ inputs = 0
    /\ to_guest = <<>>
    /\ exit_status = "none" /\ timed_out = FALSE /\ streams_done = FALSE
    /\ expired = {} /\ input_seq = 0
    /\ group = "none"
    /\ pipe = [s \in AllStreams |-> 0]
    /\ written = [s \in AllStreams |-> 0]
    /\ seq = [s \in AllStreams |-> 0]
    /\ chan = <<>> /\ rx = TRUE
    /\ after = "none"
    /\ \/ /\ g \in (IF kind = "exec" THEN {"stdin", "recv"} ELSE {"recv"})
          /\ child = "running" /\ to_host = <<>>
          /\ capture = [s \in AllStreams |-> IF s \in Streams THEN "read" ELSE "done"]
       \/ /\ g = "return" /\ child = "reaped"
          /\ to_host = <<<<"message", 0>>, <<"exit", "failed">>>>
          /\ capture = [s \in AllStreams |-> "done"]

-----------------------------------------------------------------------------
(* The child, its group and the pipes.                                      *)

Alive == child = "running"
PipeOpen == Alive \/ group # "none"

ChildWrite(s) ==
    /\ s \in Streams /\ PipeOpen
    /\ written[s] < MaxChunks /\ pipe[s] < PipeCap
    /\ written' = [written EXCEPT ![s] = @ + 1]
    /\ pipe' = [pipe EXCEPT ![s] = @ + 1]
    /\ UNCHANGED <<kind, hostVars, fwdVars, wireVars, loopVars, expired, childVars, capVars, rx>>

ChildForks ==
    /\ Background /\ Alive /\ group = "none"
    /\ group' \in {"inside", "outside"}
    /\ UNCHANGED <<kind, hostVars, fwdVars, wireVars, loopVars, expired, child, outVars, capVars, rx>>

BackgroundExits ==
    /\ group # "none"
    /\ group' = "none"
    /\ UNCHANGED <<kind, hostVars, fwdVars, wireVars, loopVars, expired, child, outVars, capVars, rx>>

ChildExits ==
    /\ Alive
    /\ child' \in {"zombie_code", "zombie_signal"}
    /\ UNCHANGED <<kind, hostVars, fwdVars, wireVars, loopVars, expired, group, outVars, capVars, rx>>

\* Mutant: only the child is signalled, not its group.
KillChildOnly ==
    /\ child' = "reaped"
    /\ group' = group

\* terminate_child_group: SIGTERM, a grace, SIGKILL to the group, wait.
KillChild ==
    /\ child' = "reaped"
    /\ group' = IF group = "inside" THEN "none" ELSE group

-----------------------------------------------------------------------------
(* Capture threads.                                                         *)

CaptureRead(s) ==
    /\ capture[s] = "read" /\ pipe[s] > 0
    /\ pipe' = [pipe EXCEPT ![s] = @ - 1]
    /\ capture' = [capture EXCEPT ![s] = "send"]
    /\ UNCHANGED <<kind, hostVars, fwdVars, wireVars, loopVars, expired, childVars, written, seq, chan, rx>>

CaptureEof(s) ==
    /\ capture[s] = "read" /\ pipe[s] = 0 /\ ~PipeOpen
    /\ capture' = [capture EXCEPT ![s] = "done"]
    /\ UNCHANGED <<kind, hostVars, fwdVars, wireVars, loopVars, expired, childVars, outVars, seq, chan, rx>>

\* Mutant: both streams count with one sequence number.
CaptureSendSharedSeq(s) ==
    /\ capture[s] = "send"
    /\ rx => chan = <<>>
    /\ chan' = IF rx THEN <<<<s, seq[s]>>>> ELSE chan
    /\ seq' = [q \in AllStreams |-> (seq[q] + 1) % (MaxSeq + 1)]
    /\ capture' = [capture EXCEPT ![s] = IF rx THEN "read" ELSE "done"]
    /\ UNCHANGED <<kind, hostVars, fwdVars, wireVars, loopVars, expired, childVars, outVars, rx>>

\* tx.send waits for room; it fails once the receiver is dropped.
CaptureSend(s) ==
    /\ capture[s] = "send"
    /\ \/ /\ rx /\ chan = <<>>
          /\ chan' = <<<<s, seq[s]>>>>
          /\ seq' = [seq EXCEPT ![s] = (@ + 1) % (MaxSeq + 1)]
          /\ capture' = [capture EXCEPT ![s] = "read"]
       \/ /\ ~rx
          /\ capture' = [capture EXCEPT ![s] = "done"]
          /\ UNCHANGED <<chan, seq>>
    /\ UNCHANGED <<kind, hostVars, fwdVars, wireVars, loopVars, expired, childVars, outVars, rx>>

-----------------------------------------------------------------------------
(* The handler's loop in the guest.                                         *)

HostGone == host = "closed" /\ fwd = "gone"
Captured == \A s \in AllStreams : capture[s] = "done"

\* The receiver is dropped and the capture threads are joined.
Leave(next) ==
    /\ g' = "join" /\ after' = next
    /\ rx' = FALSE

\* The child is terminated and the connection given up without an exit frame.
AbortExec(next) ==
    /\ KillChild
    /\ Leave(next)

\* write_all to the child returns once the child has read.
ChildReads ==
    /\ g = "stdin" /\ PipeOpen
    /\ g' = "recv"
    /\ UNCHANGED <<kind, hostVars, fwdVars, wireVars, after, exit_status, timed_out, streams_done,
                   input_seq, expired, childVars, outVars, capVars, rx>>

\* write_all fails when nobody is left to read. For stdin the failure is
\* answered; for a terminal the session just ends. The child is killed.
WriteInputFails ==
    /\ g = "stdin" /\ ~PipeOpen
    /\ IF kind = "pty" \/ HostGone
       THEN UNCHANGED to_host
       ELSE /\ Len(to_host) < SockCap
            /\ to_host' = to_host \o <<<<"message", 0>>, <<"exit", "failed">>>>
    /\ AbortExec("return")
    /\ UNCHANGED <<kind, hostVars, fwdVars, to_guest, exit_status, timed_out, streams_done,
                   input_seq, expired, outVars, capVars>>

\* rx.try_recv: a frame is written to the host, which waits while the
\* connection is full and fails when it is closed.
RecvFrame ==
    /\ g = "recv"
    /\ \/ /\ ~streams_done /\ chan # <<>> /\ ~HostGone
          /\ Len(to_host) < SockCap
          /\ to_host' = Append(to_host, Head(chan))
          /\ chan' = <<>>
          /\ g' = "wait"
          /\ UNCHANGED <<childVars, after, rx, streams_done>>
       \/ /\ ~streams_done /\ chan # <<>> /\ HostGone
          /\ chan' = <<>>
          /\ AbortExec("return")
          /\ UNCHANGED <<to_host, streams_done>>
       \/ /\ ~streams_done => chan = <<>>
          /\ streams_done' = (streams_done \/ Captured)
          /\ g' = "wait"
          /\ UNCHANGED <<to_host, childVars, after, rx, chan>>
    /\ UNCHANGED <<kind, hostVars, fwdVars, to_guest, exit_status, timed_out, input_seq,
                   expired, outVars, capture, seq>>

\* child.try_wait, and the writer of a terminal is dropped with the child.
TryWait ==
    /\ g = "wait"
    /\ g' = "deadline"
    /\ IF exit_status = "none" /\ ~timed_out /\ child \in {"zombie_code", "zombie_signal"}
       THEN /\ exit_status' = IF child = "zombie_code" THEN "code" ELSE "signal"
            /\ child' = "reaped"
       ELSE UNCHANGED <<exit_status, child>>
    /\ UNCHANGED <<kind, hostVars, fwdVars, wireVars, after, timed_out, streams_done, input_seq,
                   expired, group, outVars, capVars, rx>>

\* Mutant: a request without a timeout has no ceiling.
CheckDeadlineNever ==
    /\ g = "deadline"
    /\ g' = "poll"
    /\ UNCHANGED <<kind, hostVars, fwdVars, wireVars, after, exit_status, timed_out, streams_done,
                   input_seq, expired, childVars, outVars, capVars, rx>>

CheckDeadline ==
    /\ g = "deadline"
    /\ g' = "poll"
    /\ IF exit_status = "none" /\ ~timed_out /\ "guest" \in expired
       THEN /\ timed_out' = TRUE
            /\ exit_status' = "signal"
            /\ KillChild
       ELSE UNCHANGED <<timed_out, exit_status, childVars>>
    /\ UNCHANGED <<kind, hostVars, fwdVars, wireVars, after, streams_done, input_seq,
                   expired, outVars, capVars, rx>>

PollNothing ==
    /\ g = "poll"
    /\ to_guest = <<>> /\ ~HostGone
    /\ g' = "finish"
    /\ UNCHANGED <<kind, hostVars, fwdVars, wireVars, after, exit_status, timed_out, streams_done,
                   input_seq, expired, childVars, outVars, capVars, rx>>

\* Mutant: on a disconnect the child is left running.
PollDisconnectSpares ==
    /\ g = "poll"
    /\ to_guest = <<>> /\ HostGone
    /\ Leave("return")
    /\ UNCHANGED <<kind, hostVars, fwdVars, wireVars, exit_status, timed_out, streams_done,
                   input_seq, expired, childVars, outVars, capVars>>

PollDisconnect ==
    /\ g = "poll"
    /\ to_guest = <<>> /\ HostGone
    /\ IF exit_status = "none" THEN KillChild ELSE UNCHANGED childVars
    /\ Leave("return")
    /\ UNCHANGED <<kind, hostVars, fwdVars, wireVars, exit_status, timed_out, streams_done,
                   input_seq, expired, outVars, capVars>>

\* A cancel of a child that has exited is acknowledged and the loop goes on;
\* otherwise the child is killed and the acknowledgement is the last frame.
PollCancel ==
    /\ g = "poll"
    /\ to_guest # <<>> /\ Head(to_guest) = <<"cancel">>
    /\ to_guest' = Tail(to_guest)
    /\ IF exit_status # "none"
       THEN IF HostGone
            THEN /\ Leave("return")
                 /\ UNCHANGED <<to_host, childVars>>
            ELSE /\ Len(to_host) < SockCap
                 /\ to_host' = Append(to_host, <<"ack", "already_exited">>)
                 /\ g' = "recv"
                 /\ UNCHANGED <<childVars, after, rx>>
       ELSE /\ AbortExec("ack")
            /\ UNCHANGED to_host
    /\ UNCHANGED <<kind, hostVars, fwdVars, exit_status, timed_out, streams_done, input_seq,
                   expired, outVars, capVars>>

\* accept_host_sequence, and the bytes go to the terminal while its writer lives.
PollInput ==
    /\ g = "poll"
    /\ to_guest # <<>> /\ Head(to_guest)[1] = "input"
    /\ to_guest' = Tail(to_guest)
    /\ IF Head(to_guest)[2] # input_seq \/ input_seq = MaxSeq
       THEN /\ IF exit_status = "none" THEN KillChild ELSE UNCHANGED childVars
            /\ Leave("return")
            /\ UNCHANGED input_seq
       ELSE /\ input_seq' = input_seq + 1
            /\ g' = IF exit_status = "none" THEN "stdin" ELSE "finish"
            /\ UNCHANGED <<childVars, after, rx>>
    /\ UNCHANGED <<kind, hostVars, fwdVars, to_host, exit_status, timed_out, streams_done,
                   expired, outVars, capVars>>

\* threads.join after the receiver is gone.
Join ==
    /\ g = "join" /\ Captured
    /\ \/ /\ after = "return" \/ HostGone
          /\ UNCHANGED to_host
       \/ /\ after = "ack" /\ ~HostGone
          /\ Len(to_host) < SockCap
          /\ to_host' = Append(to_host, <<"ack", "cancelled">>)
    /\ g' = "return"
    /\ UNCHANGED <<kind, hostVars, fwdVars, to_guest, after, exit_status, timed_out, streams_done,
                   input_seq, expired, childVars, outVars, capVars, rx>>

\* A death by signal travels as ExecStatus::Failed, like a request that could
\* not be run; the two are told apart here for the contract.
TerminalStatus ==
    IF timed_out THEN "timed_out" ELSE IF exit_status = "code" THEN "completed" ELSE "signal"

\* Mutant: the exit frame does not wait for the capture threads.
FinishEarly ==
    /\ g = "finish"
    /\ IF exit_status # "none"
       THEN /\ HostGone \/ Len(to_host) < SockCap
            /\ to_host' = IF HostGone THEN to_host ELSE Append(to_host, <<"exit", TerminalStatus>>)
            /\ g' = "return"
       ELSE g' = "recv" /\ UNCHANGED to_host
    /\ UNCHANGED <<kind, hostVars, fwdVars, to_guest, after, exit_status, timed_out, streams_done,
                   input_seq, expired, childVars, outVars, capVars, rx>>

FinishExec ==
    /\ g = "finish"
    /\ IF streams_done /\ exit_status # "none"
       THEN /\ HostGone \/ Len(to_host) < SockCap
            /\ to_host' = IF HostGone THEN to_host ELSE Append(to_host, <<"exit", TerminalStatus>>)
            /\ g' = "return"
       ELSE g' = "recv" /\ UNCHANGED to_host
    /\ UNCHANGED <<kind, hostVars, fwdVars, to_guest, after, exit_status, timed_out, streams_done,
                   input_seq, expired, childVars, outVars, capVars, rx>>

\* The daemon's deadline (timeout_ms, or its ceiling) and the budget of the call.
Tick(side) ==
    /\ side \notin expired
    /\ expired' = expired \cup {side}
    /\ UNCHANGED <<kind, hostVars, fwdVars, wireVars, loopVars, childVars, outVars, capVars, rx>>

-----------------------------------------------------------------------------
(* The host call.                                                           *)

GuestClosed == g = "return"

HostReturn(o) ==
    /\ host' = "returned"
    /\ outcome' = o

Read == to_host' = Tail(to_host)

\* check_stream_sequence, then on_chunk, which may fail.
RecvChunk(s) ==
    /\ host = "recv" /\ to_host # <<>> /\ Head(to_host)[1] = s
    /\ Read
    /\ \/ /\ Head(to_host)[2] = expected[s] /\ expected[s] < MaxSeq
          /\ expected' = [expected EXCEPT ![s] = @ + 1]
          /\ delivered' = [delivered EXCEPT ![s] = @ + 1]
          /\ UNCHANGED <<host, outcome>>
       \/ /\ HostReturn("error")
          /\ UNCHANGED <<expected, delivered>>
    /\ UNCHANGED <<kind, fwdVars, to_guest, loopVars, expired, childVars, outVars, capVars, rx>>

\* The daemon's own message about a request it could not run.
RecvMessage ==
    /\ host = "recv" /\ to_host # <<>> /\ Head(to_host)[1] = "message"
    /\ Read
    /\ UNCHANGED <<kind, hostVars, fwdVars, to_guest, loopVars, expired, childVars, outVars, capVars, rx>>

RecvExit ==
    /\ host = "recv" /\ to_host # <<>> /\ Head(to_host)[1] = "exit"
    /\ Read
    /\ HostReturn(Head(to_host)[2])
    /\ UNCHANGED <<kind, expected, delivered, fwdVars, to_guest, loopVars, expired, childVars,
                   outVars, capVars, rx>>

\* decode_cancel_ack: a cancel that came too late is skipped over.
RecvAck ==
    /\ host = "recv" /\ to_host # <<>> /\ Head(to_host)[1] = "ack"
    /\ Read
    /\ IF Head(to_host)[2] = "cancelled" THEN HostReturn("cancelled") ELSE UNCHANGED <<host, outcome>>
    /\ UNCHANGED <<kind, expected, delivered, fwdVars, to_guest, loopVars, expired, childVars,
                   outVars, capVars, rx>>

RecvEof ==
    /\ host = "recv" /\ to_host = <<>> /\ GuestClosed
    /\ HostReturn("error")
    /\ UNCHANGED <<kind, expected, delivered, fwdVars, wireVars, loopVars, expired, childVars,
                   outVars, capVars, rx>>

\* recv_raw_with_deadline; only exec takes a budget.
RecvDeadline ==
    /\ host = "recv" /\ kind = "exec" /\ "host" \in expired
    /\ HostReturn("timeout_host")
    /\ UNCHANGED <<kind, expected, delivered, fwdVars, wireVars, loopVars, expired, childVars,
                   outVars, capVars, rx>>

\* CancelForwarder::drop joins the forwarder, or detaches it after a timeout;
\* then the channel is dropped. The forwarder has a clone of the connection.
DropForwarder ==
    /\ host = "returned"
    /\ host' = "closed"
    /\ UNCHANGED <<kind, outcome, expected, delivered, fwdVars, wireVars, loopVars, expired,
                   childVars, outVars, capVars, rx>>

\* The forwarder takes an event of the caller: a cancel, or terminal input.
TakeEvent ==
    /\ fwd = "on"
    /\ \/ fwd' = "cancel" /\ asked' = TRUE
       \/ kind = "pty" /\ inputs < MaxInputs /\ fwd' = "input" /\ UNCHANGED asked
    /\ UNCHANGED <<kind, hostVars, inputs, wireVars, loopVars, expired, childVars, outVars, capVars, rx>>

\* Its send waits while the connection is full. It ends after a cancel, and
\* after a send when the returned call has set the stop flag.
ForwardSend ==
    /\ fwd \in {"cancel", "input"}
    /\ GuestClosed \/ Len(to_guest) < InCap
    /\ to_guest' = IF GuestClosed THEN to_guest
                   ELSE Append(to_guest, IF fwd = "cancel" THEN <<"cancel">>
                                         ELSE <<"input", inputs % (MaxSeq + 1)>>)
    /\ inputs' = IF fwd = "input" THEN inputs + 1 ELSE inputs
    /\ fwd' = IF fwd = "input" /\ host = "recv" THEN "on" ELSE "gone"
    /\ UNCHANGED <<kind, hostVars, asked, to_host, loopVars, expired, childVars, outVars, capVars, rx>>

\* The forwarder sees the stop flag, or its caller hung up.
ForwarderEnds ==
    /\ fwd = "on"
    /\ fwd' = "gone"
    /\ UNCHANGED <<kind, hostVars, asked, inputs, wireVars, loopVars, expired, childVars, outVars, capVars, rx>>

-----------------------------------------------------------------------------
Handler ==
    \/ WriteInputFails \/ RecvFrame \/ TryWait \/ CheckDeadline
    \/ PollNothing \/ PollDisconnect \/ PollCancel \/ PollInput
    \/ Join \/ FinishExec

Call ==
    \/ \E s \in AllStreams : RecvChunk(s)
    \/ RecvMessage \/ RecvExit \/ RecvAck \/ RecvEof \/ RecvDeadline \/ DropForwarder

Capture == \E s \in AllStreams : CaptureRead(s) \/ CaptureEof(s) \/ CaptureSend(s)

Workload ==
    \/ \E s \in AllStreams : ChildWrite(s)
    \/ ChildReads \/ ChildForks \/ BackgroundExits \/ ChildExits

\* The call has returned and the daemon is back at accept.
Over == host = "closed" /\ fwd = "gone" /\ g = "return" /\ UNCHANGED vars

Next ==
    \/ Handler \/ Call \/ Capture \/ Workload
    \/ \E side \in {"host", "guest"} : Tick(side)
    \/ TakeEvent \/ ForwardSend \/ ForwarderEnds
    \/ Over

Spec == Init /\ [][Next]_vars

\* Threads are scheduled and time passes; the forwarder of a call that has
\* returned sees its stop flag. The workload owes nothing.
Fairness ==
    /\ WF_vars(Handler) /\ WF_vars(Call) /\ WF_vars(Tick("guest"))
    /\ WF_vars(ForwardSend)
    /\ \A s \in AllStreams : WF_vars(CaptureRead(s) \/ CaptureEof(s) \/ CaptureSend(s))
    /\ WF_vars(host # "recv" /\ ForwarderEnds)

FairSpec == Spec /\ Fairness

\* With a workload that reads its input and whose background processes end.
TameSpec == FairSpec /\ WF_vars(BackgroundExits) /\ WF_vars(ChildReads)

-----------------------------------------------------------------------------
(* Properties.                                                              *)

\* The call as its caller sees it. A request that is refused before it has a
\* child writes nothing.
C == INSTANCE ExecContract WITH Streams <- AllStreams

\* exec_streaming_inner and exec_pty with the daemon's handler implement the
\* contract: whatever the capture threads, the channel of one frame, the
\* cancel, the timeout and a process left behind do, output is delivered in
\* order, all of it before an exit that reports the end of the process, and
\* "cancelled" answers a cancel.
Contract == C!Spec

\* A call that returned cancelled has no process of its group left: the child
\* is reaped and the capture threads have ended (terminate_child_group and
\* the joins come before the acknowledgement).
CancelledMeansDead ==
    outcome = "cancelled" => child = "reaped" /\ group # "inside" /\ Captured

\* The handler never goes back to accept with its child still running or not
\* waited for, on any path: exit, timeout, cancel, disconnect, failed writes
\* (streaming.rs and pty.rs have about ten returns each).
NoChildLeft == g = "return" => child = "reaped"

\* The numbers of the capture threads and of the host's check never disagree,
\* although one side wraps and the other refuses to: no call fails with a
\* sequence mismatch.
SequenceAgrees ==
    host = "recv" /\ to_host # <<>> =>
        /\ Head(to_host)[1] \in AllStreams => Head(to_host)[2] = expected[Head(to_host)[1]]
        /\ Head(to_host)[1] = "message" => expected["err"] = 0

\* The daemon, which serves one connection at a time, gets back to accept
\* after every request: capture threads, full connection, cancel and
\* forwarder never wait for each other in a circle.
HandlerReturns == <>(g = "return")
=============================================================================
