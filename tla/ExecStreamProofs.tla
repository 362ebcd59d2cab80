-------------------------- MODULE ExecStreamProofs --------------------------
(***************************************************************************)
(* Proofs about one exec or PTY request, for every bound on output, input, *)
(* sequence numbers and buffers: no child is left behind (NoChildLeft), a  *)
(* cancelled call has no process left (CancelledMeansDead), the sequence   *)
(* numbers of the two sides agree (SequenceAgrees), and the host call with *)
(* the guest's handler implements the contract of its caller (Contract).   *)
(***************************************************************************)
EXTENDS ExecStream, FiniteSetTheorems, TLAPS

Chunks == AllStreams \X (0..MaxSeq)
Statuses == {"completed", "timed_out", "signal", "failed"}
HostFrames ==
    Chunks \cup ({"exit"} \X Statuses) \cup ({"ack"} \X {"cancelled", "already_exited"})
           \cup {<<"message", 0>>}
GuestFrames == {<<"cancel">>} \cup ({"input"} \X Nat)

-----------------------------------------------------------------------------
(* Frames of a stream in a queue.                                           *)

Positions(q, s) == {i \in 1..Len(q) : q[i][1] = s}
Count(q, s) == Cardinality(Positions(q, s))

\* The positions are finitely many.
LEMMA CountType ==
    ASSUME NEW F, NEW q \in Seq(F), NEW s
    PROVE  IsFiniteSet(Positions(q, s)) /\ Count(q, s) \in Nat
<1>1. IsFiniteSet(1..Len(q)) BY FS_Interval
<1>2. IsFiniteSet(Positions(q, s)) BY <1>1, FS_Subset DEF Positions
<1> QED BY <1>2, FS_CardinalityType DEF Count

\* An empty queue holds none.
LEMMA CountEmpty == ASSUME NEW s PROVE Count(<<>>, s) = 0
<1>1. Positions(<<>>, s) = {} BY DEF Positions
<1> QED BY <1>1, FS_EmptySet DEF Count

\* A frame put at the end counts for its own stream.
LEMMA CountAppend ==
    ASSUME NEW F, NEW q \in Seq(F), NEW f \in F, NEW s
    PROVE  Count(Append(q, f), s) = IF f[1] = s THEN Count(q, s) + 1 ELSE Count(q, s)
<1>1. Positions(Append(q, f), s) =
        IF f[1] = s THEN Positions(q, s) \cup {Len(q) + 1} ELSE Positions(q, s)
  BY DEF Positions
<1>2. Len(q) + 1 \notin Positions(q, s) BY DEF Positions
<1> QED BY <1>1, <1>2, CountType, FS_AddElement DEF Count

\* Taking the head takes one frame of its stream.
LEMMA CountTail ==
    ASSUME NEW F, NEW q \in Seq(F), q # <<>>, NEW s
    PROVE  Count(q, s) = IF q[1][1] = s THEN Count(Tail(q), s) + 1 ELSE Count(Tail(q), s)
<1> DEFINE T == Positions(Tail(q), s)
           S == Positions(q, s) \ {1}
           shift == [i \in T |-> i + 1]
<1>1. Tail(q) \in Seq(F) /\ Len(Tail(q)) = Len(q) - 1 /\ Len(q) \in Nat \ {0} OBVIOUS
<1>2. \A i \in 1..Len(Tail(q)) : Tail(q)[i] = q[i + 1] OBVIOUS
<1>3. \A i \in T : i + 1 \in S BY <1>1, <1>2 DEF Positions
<1>4. \A j \in S : j - 1 \in T /\ (j - 1) + 1 = j BY <1>1, <1>2 DEF Positions
<1>5. shift \in Bijection(T, S)
  <2>1. shift \in [T -> S] BY <1>3
  <2>2. \A a, b \in T : shift[a] = shift[b] => a = b BY DEF Positions
  <2>3. \A j \in S : \E i \in T : shift[i] = j BY <1>4
  <2> QED BY <2>1, <2>2, <2>3 DEF Bijection, Injection, Surjection, IsInjective
<1>6. IsFiniteSet(T) BY <1>1, CountType
<1>7. Cardinality(S) = Cardinality(T) /\ IsFiniteSet(S)
  BY <1>5, <1>6, FS_Bijection DEF ExistsBijection
<1>8. Positions(q, s) = IF q[1][1] = s THEN S \cup {1} ELSE S
  BY <1>1 DEF Positions
<1>9. Cardinality(S \cup {1}) = Cardinality(S) + 1 BY <1>7, FS_AddElement
<1> QED BY <1>7, <1>8, <1>9 DEF Count

\* The queue after a send.
LEMMA AppendType ==
    ASSUME NEW F, NEW q \in Seq(F), NEW f \in F
    PROVE  /\ Append(q, f) \in Seq(F) /\ Len(Append(q, f)) = Len(q) + 1
           /\ \A i \in 1..Len(q) : Append(q, f)[i] = q[i]
           /\ Append(q, f)[Len(q) + 1] = f
OBVIOUS

\* The queue after two sends in one step.
LEMMA PairType ==
    ASSUME NEW F, NEW q \in Seq(F), NEW a \in F, NEW b \in F
    PROVE  /\ q \o <<a, b>> \in Seq(F) /\ Len(q \o <<a, b>>) = Len(q) + 2
           /\ \A i \in 1..Len(q) : (q \o <<a, b>>)[i] = q[i]
           /\ (q \o <<a, b>>)[Len(q) + 1] = a /\ (q \o <<a, b>>)[Len(q) + 2] = b
OBVIOUS

\* The queue after a receive.
LEMMA TailType ==
    ASSUME NEW F, NEW q \in Seq(F), q # <<>>
    PROVE  /\ Tail(q) \in Seq(F) /\ Len(q) \in Nat \ {0} /\ Len(Tail(q)) = Len(q) - 1
           /\ \A i \in 1..Len(Tail(q)) : i + 1 \in 1..Len(q) /\ Tail(q)[i] = q[i + 1]
           /\ Head(q) = q[1] /\ Head(q) \in F
OBVIOUS

-----------------------------------------------------------------------------
(* The invariant.                                                           *)

Types ==
    /\ kind \in {"exec", "pty"}
    /\ host \in {"recv", "returned", "closed"}
    /\ host = "recv" => outcome = "none"
    /\ expected \in [AllStreams -> 0..MaxSeq]
    /\ delivered \in [AllStreams -> Nat] /\ written \in [AllStreams -> Nat]
    /\ pipe \in [AllStreams -> Nat]
    /\ capture \in [AllStreams -> {"read", "send", "done"}]
    /\ seq \in [AllStreams -> 0..MaxSeq]
    /\ inputs \in Nat
    /\ child \in {"running", "zombie_code", "zombie_signal", "reaped"}

FrameTypes ==
    /\ to_host \in Seq(HostFrames) /\ to_guest \in Seq(GuestFrames)
    /\ chan \in Seq(Chunks) /\ Len(chan) <= 1

\* The handler is past its loop.
Left == g \in {"join", "return"}

\* Once the handler knows a status or has left its loop the child is reaped; a
\* cancelled one has no process of its group either. The receiver is kept in the loop.
ChildInv ==
    /\ exit_status # "none" \/ Left => child = "reaped"
    /\ g = "join" /\ after = "ack" => group # "inside"
    /\ ~Left => rx

\* A capture thread that ended by itself has seen the end of its pipe.
Drained(s) == pipe[s] = 0 /\ (s \in Streams => ~PipeOpen)

StreamInv ==
    /\ rx => \A s \in AllStreams : capture[s] = "done" => Drained(s)
    /\ streams_done => Captured /\ chan = <<>>

\* What a cancel leaves.
Dead == g = "return" /\ child = "reaped" /\ group # "inside" /\ Captured

CancelInv ==
    /\ \A i \in 1..Len(to_host) : to_host[i] = <<"ack", "cancelled">> => Dead /\ asked
    /\ outcome = "cancelled" => Dead
    /\ after = "ack" \/ fwd = "cancel" => asked
    /\ \A i \in 1..Len(to_guest) : to_guest[i] = <<"cancel">> => asked

\* Nothing is left to deliver when the end of the process has been reported.
Ended ==
    /\ g = "return" /\ rx /\ Captured /\ chan = <<>>
    /\ \A s \in AllStreams : Drained(s)

ExitInv ==
    \A i \in 1..Len(to_host) :
        to_host[i][1] = "exit" /\ to_host[i][2] \in C!Reported => i = Len(to_host) /\ Ended

\* Chunks on their way from the process to the caller.
InChan(s) == IF chan # <<>> /\ chan[1][1] = s THEN 1 ELSE 0
Sending(s) == IF capture[s] = "send" THEN 1 ELSE 0
Flow(s) == delivered[s] + Count(to_host, s) + InChan(s) + Sending(s) + pipe[s]

\* While the call listens no chunk appears from nowhere, and while the handler
\* has its receiver none is lost.
FlowInv ==
    host = "recv" => \A s \in AllStreams :
        /\ Flow(s) <= written[s]
        /\ rx => Flow(s) = written[s]

\* The number after n.
Succ(n) == IF n = MaxSeq THEN 0 ELSE n + 1

\* The number of the next chunk of s that enters the connection.
Entering(s) == IF InChan(s) = 1 THEN chan[1][2] ELSE seq[s]

\* The chunks of s in q are numbered without a gap from first up to the number
\* before next.
Chained(q, s, first, next) ==
    /\ \A i \in Positions(q, s) :
          (\A j \in Positions(q, s) : i <= j) => q[i][2] = first
    /\ \A i, j \in Positions(q, s) :
          i < j /\ (\A k \in Positions(q, s) : k <= i \/ j <= k) => q[j][2] = Succ(q[i][2])
    /\ \A i \in Positions(q, s) :
          (\A j \in Positions(q, s) : j <= i) => next = Succ(q[i][2])
    /\ Positions(q, s) = {} => next = first

\* The connection holds the numbers from the one the host expects to the one that
\* enters next.
SequenceInv ==
    /\ \A s \in AllStreams : InChan(s) = 1 => seq[s] = Succ(chan[1][2])
    /\ host = "recv" => \A s \in AllStreams : Chained(to_host, s, expected[s], Entering(s))

\* The daemon's own message goes out before any output.
NoOutput ==
    \A s \in AllStreams : expected[s] = 0 /\ Positions(to_host, s) = {}

MessageInv ==
    /\ g = "stdin" /\ kind = "exec" => NoOutput /\ to_host = <<>>
    /\ \A i \in 1..Len(to_host) :
          to_host[i][1] = "message" => NoOutput /\ Left /\ (g = "join" => after = "return")
    /\ fwd = "input" => kind = "pty"
    /\ \A i \in 1..Len(to_guest) : to_guest[i][1] = "input" => kind = "pty"

Inv ==
    /\ Types /\ FrameTypes /\ ChildInv /\ StreamInv /\ CancelInv /\ ExitInv
    /\ FlowInv /\ SequenceInv /\ MessageInv

-----------------------------------------------------------------------------
(* Types.                                                                   *)

\* Frames the handler sends are frames the host knows.
LEMMA FramesKnown ==
    /\ <<"message", 0>> \in HostFrames
    /\ \A st \in Statuses : <<"exit", st>> \in HostFrames
    /\ <<"ack", "cancelled">> \in HostFrames /\ <<"ack", "already_exited">> \in HostFrames
    /\ Chunks \subseteq HostFrames
    /\ <<"cancel">> \in GuestFrames
    /\ \A n \in Nat : <<"input", n>> \in GuestFrames
BY DEF HostFrames, GuestFrames, Statuses

\* The next sequence number stays in range, and is the successor.
LEMMA SuccMod == \A n \in 0..MaxSeq : (n + 1) % (MaxSeq + 1) = Succ(n) /\ Succ(n) \in 0..MaxSeq
<1> SUFFICES ASSUME NEW n \in 0..MaxSeq PROVE (n + 1) % (MaxSeq + 1) = Succ(n) /\ Succ(n) \in 0..MaxSeq
    OBVIOUS
<1>1. MaxSeq \in Nat BY BoundsAssumption
<1>2. CASE n = MaxSeq BY <1>1, <1>2 DEF Succ
<1>3. CASE n < MaxSeq BY <1>1, <1>3 DEF Succ
<1> QED BY <1>1, <1>2, <1>3

\* Every step keeps the types.
LEMMA TypesStep ==
    ASSUME Types, [Next]_vars
    PROVE  Types'
<1> USE DEF Types, hostVars, fwdVars, childVars, outVars, capVars
<1>1. CASE \E s \in AllStreams : ChildWrite(s)
  BY <1>1 DEF ChildWrite, outVars
<1>2. CASE ChildForks \/ BackgroundExits \/ ChildReads
  BY <1>2 DEF ChildForks, BackgroundExits, ChildReads
<1>3. CASE ChildExits
  BY <1>3 DEF ChildExits
<1>4. CASE \E s \in AllStreams : CaptureRead(s) \/ CaptureEof(s)
  BY <1>4 DEF CaptureRead, CaptureEof
<1>5. CASE \E s \in AllStreams : CaptureSend(s)
  <2>1. PICK s \in AllStreams : CaptureSend(s) BY <1>5
  <2>2. (seq[s] + 1) % (MaxSeq + 1) \in 0..MaxSeq BY SuccMod
  <2>3. seq' \in [AllStreams -> 0..MaxSeq] BY <2>1, <2>2 DEF CaptureSend
  <2> QED BY <2>1, <2>3 DEF CaptureSend
<1>6. CASE WriteInputFails
  BY <1>6 DEF WriteInputFails, AbortExec, KillChild
<1>7. CASE RecvFrame
  BY <1>7 DEF RecvFrame, AbortExec, KillChild
<1>8. CASE TryWait \/ CheckDeadline
  BY <1>8 DEF TryWait, CheckDeadline, KillChild
<1>9. CASE PollNothing \/ PollDisconnect
  BY <1>9 DEF PollNothing, PollDisconnect, KillChild
<1>10. CASE PollCancel
  BY <1>10 DEF PollCancel, AbortExec, KillChild
<1>11. CASE PollInput
  BY <1>11 DEF PollInput, KillChild
<1>12. CASE Join
  BY <1>12 DEF Join
<1>13. CASE FinishExec
  BY <1>13 DEF FinishExec
<1>14. CASE \E side \in {"host", "guest"} : Tick(side)
  BY <1>14 DEF Tick
<1>15. CASE \E s \in AllStreams : RecvChunk(s)
  <2>1. PICK s \in AllStreams : RecvChunk(s) BY <1>15
  <2>2. expected' \in [AllStreams -> 0..MaxSeq] /\ delivered' \in [AllStreams -> Nat]
    <3>1. MaxSeq \in Nat BY BoundsAssumption
    <3>2. expected[s] < MaxSeq => expected[s] + 1 \in 0..MaxSeq BY <3>1
    <3>3. CASE UNCHANGED <<expected, delivered>> BY <3>3
    <3>4. CASE /\ expected[s] < MaxSeq
               /\ expected' = [expected EXCEPT ![s] = @ + 1]
               /\ delivered' = [delivered EXCEPT ![s] = @ + 1]
      <4>1. expected' \in [AllStreams -> 0..MaxSeq] BY <3>2, <3>4
      <4>2. delivered' \in [AllStreams -> Nat] BY <3>4
      <4> QED BY <4>1, <4>2
    <3> QED BY <2>1, <3>3, <3>4 DEF RecvChunk
  <2> QED BY <2>1, <2>2 DEF RecvChunk, HostReturn
<1>16. CASE RecvMessage \/ RecvExit \/ RecvAck
  BY <1>16 DEF RecvMessage, RecvExit, RecvAck, HostReturn
<1>17. CASE RecvEof \/ RecvDeadline \/ DropForwarder
  BY <1>17 DEF RecvEof, RecvDeadline, DropForwarder, HostReturn
<1>18. CASE TakeEvent \/ ForwarderEnds
  BY <1>18 DEF TakeEvent, ForwarderEnds
<1>19. CASE ForwardSend
  BY <1>19 DEF ForwardSend
<1>20. CASE UNCHANGED vars
  BY <1>20 DEF vars
<1> QED BY <1>1, <1>2, <1>3, <1>4, <1>5, <1>6, <1>7, <1>8, <1>9, <1>10, <1>11, <1>12, <1>13,
   <1>14, <1>15, <1>16, <1>17, <1>18, <1>19, <1>20
    DEF Next, Handler, Call, Capture, Workload, Over

-----------------------------------------------------------------------------
(* Who changes what.                                                        *)

\* The steps of the host call, its forwarder and the clocks.
HostSide ==
    \/ Call \/ TakeEvent \/ ForwardSend \/ ForwarderEnds
    \/ \E side \in {"host", "guest"} : Tick(side)
    \/ UNCHANGED vars

\* The host side leaves the handler, the child and the capture threads alone.
LEMMA HostLeavesGuest ==
    ASSUME HostSide
    PROVE  UNCHANGED <<kind, loopVars, childVars, outVars, capVars, rx>>
BY DEF HostSide, Call, RecvChunk, RecvMessage, RecvExit, RecvAck, RecvEof, RecvDeadline,
       DropForwarder, TakeEvent, ForwardSend, ForwarderEnds, Tick, vars

\* The guest side leaves the call and its forwarder alone.
LEMMA GuestLeavesHost ==
    ASSUME Handler \/ Capture \/ Workload
    PROVE  UNCHANGED <<kind, hostVars, fwdVars>>
BY DEF Handler, WriteInputFails, RecvFrame, TryWait, CheckDeadline, PollNothing, PollDisconnect,
       PollCancel, PollInput, Join, FinishExec, Capture, CaptureRead, CaptureEof, CaptureSend,
       Workload, ChildWrite, ChildReads, ChildForks, BackgroundExits, ChildExits

\* Capture threads and workload do not touch the connection.
LEMMA WorkLeavesWire ==
    ASSUME Capture \/ Workload
    PROVE  UNCHANGED wireVars
BY DEF Capture, CaptureRead, CaptureEof, CaptureSend,
       Workload, ChildWrite, ChildReads, ChildForks, BackgroundExits, ChildExits

\* Every step is one of a side.
LEMMA Sides ==
    ASSUME [Next]_vars
    PROVE  HostSide \/ Handler \/ Capture \/ Workload
BY DEF Next, HostSide, Over

\* A handler that has returned takes no further step.
LEMMA HandlerRuns ==
    ASSUME Handler \/ ChildReads
    PROVE  g # "return"
BY DEF Handler, WriteInputFails, RecvFrame, TryWait, CheckDeadline, PollNothing, PollDisconnect,
       PollCancel, PollInput, Join, FinishExec, ChildReads

\* Nothing but the handler and the child's reading moves the handler or drops the
\* receiver.
LEMMA HandlerStays ==
    ASSUME Capture \/ Workload
    PROVE  /\ UNCHANGED <<after, exit_status, timed_out, streams_done, input_seq, rx>>
           /\ ChildReads \/ UNCHANGED g
BY DEF Capture, CaptureRead, CaptureEof, CaptureSend, loopVars,
       Workload, ChildWrite, ChildReads, ChildForks, BackgroundExits, ChildExits

\* The queues hold frames.
LEMMA FrameTypesStep ==
    ASSUME Types, FrameTypes, [Next]_vars
    PROVE  FrameTypes'
<1>1. CASE HostSide
  <2>1. UNCHANGED chan BY <1>1, HostLeavesGuest DEF capVars
  <2>2. \/ UNCHANGED to_host
        \/ to_host # <<>> /\ to_host' = Tail(to_host)
    BY <1>1 DEF HostSide, Call, RecvChunk, RecvMessage, RecvExit, RecvAck, RecvEof, RecvDeadline,
                DropForwarder, TakeEvent, ForwardSend, ForwarderEnds, Tick, vars, wireVars, Read
  <2>3. \/ UNCHANGED to_guest
        \/ to_guest' = Append(to_guest, <<"cancel">>)
        \/ to_guest' = Append(to_guest, <<"input", inputs % (MaxSeq + 1)>>)
    BY <1>1 DEF HostSide, Call, RecvChunk, RecvMessage, RecvExit, RecvAck, RecvEof, RecvDeadline,
                DropForwarder, TakeEvent, ForwardSend, ForwarderEnds, Tick, vars, wireVars
  <2>4. inputs % (MaxSeq + 1) \in Nat BY BoundsAssumption DEF Types
  <2>5. to_guest' \in Seq(GuestFrames)
    <3>1. /\ <<"input", inputs % (MaxSeq + 1)>> \in GuestFrames
          /\ <<"cancel">> \in GuestFrames
      BY <2>4, FramesKnown
    <3>2. ASSUME NEW f \in GuestFrames, to_guest' = Append(to_guest, f)
          PROVE  to_guest' \in Seq(GuestFrames)
      BY <3>2, AppendType DEF FrameTypes
    <3>3. CASE UNCHANGED to_guest BY <3>3 DEF FrameTypes
    <3> QED BY <2>3, <3>1, <3>2, <3>3
  <2> QED BY <2>1, <2>2, <2>5, TailType DEF FrameTypes
<1>2. CASE Capture
  <2>1. UNCHANGED <<to_host, to_guest>> BY <1>2, WorkLeavesWire DEF wireVars
  <2>2. UNCHANGED chan \/ \E s \in AllStreams : chan' = <<<<s, seq[s]>>>>
    BY <1>2 DEF Capture, CaptureRead, CaptureEof, CaptureSend, capVars
  <2>3. \A s \in AllStreams : <<s, seq[s]>> \in Chunks BY DEF Chunks, Types
  <2>4. \A f \in Chunks : <<f>> \in Seq(Chunks) /\ Len(<<f>>) = 1 OBVIOUS
  <2>5. chan' \in Seq(Chunks) /\ Len(chan') <= 1
    <3>1. CASE UNCHANGED chan BY <3>1 DEF FrameTypes
    <3>2. CASE \E s \in AllStreams : chan' = <<<<s, seq[s]>>>>
      BY <2>3, <2>4, <3>2
    <3> QED BY <2>2, <3>1, <3>2
  <2> QED BY <2>1, <2>5 DEF FrameTypes
<1>3. CASE Workload
  <2>1. UNCHANGED chan
    BY <1>3 DEF Workload, ChildWrite, ChildReads, ChildForks, BackgroundExits, ChildExits, capVars
  <2> QED BY <1>3, <2>1, WorkLeavesWire DEF FrameTypes, wireVars
<1>4. CASE Handler
  <2>1. UNCHANGED chan \/ chan' = <<>>
    BY <1>4 DEF Handler, WriteInputFails, RecvFrame, TryWait, CheckDeadline, PollNothing,
                PollDisconnect, PollCancel, PollInput, Join, FinishExec, capVars
  <2>2. \/ UNCHANGED to_guest
        \/ to_guest # <<>> /\ to_guest' = Tail(to_guest)
    BY <1>4 DEF Handler, WriteInputFails, RecvFrame, TryWait, CheckDeadline, PollNothing,
                PollDisconnect, PollCancel, PollInput, Join, FinishExec, wireVars
  <2>3. to_host' \in Seq(HostFrames)
    <3>1. CASE WriteInputFails
      <4>1. <<<<"message", 0>>, <<"exit", "failed">>>> \in Seq(HostFrames)
        BY FramesKnown DEF Statuses
      <4>2. \A q \in Seq(HostFrames) : to_host \o q \in Seq(HostFrames)
        BY DEF FrameTypes
      <4> QED BY <3>1, <4>1, <4>2 DEF WriteInputFails, FrameTypes
    <3>2. CASE RecvFrame
      <4>1. chan # <<>> => Head(chan) \in HostFrames BY FramesKnown, TailType DEF FrameTypes
      <4> QED BY <3>2, <4>1, AppendType DEF RecvFrame, FrameTypes
    <3>3. CASE PollCancel BY <3>3, FramesKnown, AppendType DEF PollCancel, FrameTypes
    <3>4. CASE Join BY <3>4, FramesKnown, AppendType DEF Join, FrameTypes
    <3>5. CASE FinishExec
      <4>1. <<"exit", TerminalStatus>> \in HostFrames BY FramesKnown DEF TerminalStatus, Statuses
      <4> QED BY <3>5, <4>1, AppendType DEF FinishExec, FrameTypes
    <3>6. CASE TryWait \/ CheckDeadline \/ PollNothing \/ PollDisconnect \/ PollInput
      BY <3>6 DEF TryWait, CheckDeadline, PollNothing, PollDisconnect, PollInput, wireVars, FrameTypes
    <3> QED BY <1>4, <3>1, <3>2, <3>3, <3>4, <3>5, <3>6 DEF Handler
  <2>4. chan' \in Seq(Chunks) /\ Len(chan') <= 1
    <3>1. CASE UNCHANGED chan BY <3>1 DEF FrameTypes
    <3>2. CASE chan' = <<>> BY <3>2
    <3> QED BY <2>1, <3>1, <3>2
  <2>5. to_guest' \in Seq(GuestFrames) BY <2>2, TailType DEF FrameTypes
  <2> QED BY <2>3, <2>4, <2>5 DEF FrameTypes
<1> QED BY <1>1, <1>2, <1>3, <1>4, Sides

-----------------------------------------------------------------------------
(* The child and the capture threads.                                       *)

\* Every step keeps ChildInv.
LEMMA ChildStep ==
    ASSUME Types, ChildInv, [Next]_vars
    PROVE  ChildInv'
<1> USE DEF ChildInv, Left
<1>1. CASE HostSide BY <1>1, HostLeavesGuest DEF loopVars, childVars
<1>2. CASE Capture \/ \E s \in AllStreams : ChildWrite(s)
  BY <1>2 DEF Capture, CaptureRead, CaptureEof, CaptureSend, ChildWrite, loopVars, childVars
<1>3. CASE ChildReads \/ ChildForks \/ BackgroundExits \/ ChildExits
  BY <1>3 DEF ChildReads, ChildForks, BackgroundExits, ChildExits, Alive, loopVars, childVars
<1>4. CASE Handler
  <2> USE DEF KillChild, AbortExec, Leave, childVars
  <2>1. CASE WriteInputFails BY <2>1 DEF WriteInputFails
  <2>2. CASE RecvFrame BY <2>2 DEF RecvFrame
  <2>3. CASE TryWait \/ CheckDeadline BY <2>3 DEF TryWait, CheckDeadline
  <2>4. CASE PollNothing \/ PollDisconnect BY <2>4 DEF PollNothing, PollDisconnect
  <2>5. CASE PollCancel BY <2>5 DEF PollCancel
  <2>6. CASE PollInput BY <2>6 DEF PollInput
  <2>7. CASE Join \/ FinishExec BY <2>7 DEF Join, FinishExec
  <2> QED BY <1>4, <2>1, <2>2, <2>3, <2>4, <2>5, <2>6, <2>7 DEF Handler
<1> QED BY <1>1, <1>2, <1>3, <1>4, Sides DEF Workload

\* A closed pipe stays closed.
LEMMA ClosedStays ==
    ASSUME Types, ~PipeOpen, [Next]_vars
    PROVE  ~PipeOpen'
<1>1. CASE HostSide BY <1>1, HostLeavesGuest DEF childVars, PipeOpen, Alive
<1>2. CASE Capture \/ Workload
  BY <1>2 DEF Capture, CaptureRead, CaptureEof, CaptureSend, Workload, ChildWrite, ChildReads,
              ChildForks, BackgroundExits, ChildExits, childVars, PipeOpen, Alive
<1>3. CASE Handler
  BY <1>3 DEF Handler, WriteInputFails, RecvFrame, TryWait, CheckDeadline, PollNothing,
              PollDisconnect, PollCancel, PollInput, Join, FinishExec, KillChild, AbortExec,
              childVars, PipeOpen, Alive
<1> QED BY <1>1, <1>2, <1>3, Sides

\* A capture thread that has ended stays ended.
LEMMA CapturedStays ==
    ASSUME Types, NEW s \in AllStreams, capture[s] = "done", [Next]_vars
    PROVE  capture'[s] = "done"
<1>1. CASE HostSide BY <1>1, HostLeavesGuest DEF capVars
<1>2. CASE Capture
  BY <1>2 DEF Capture, CaptureRead, CaptureEof, CaptureSend, Types
<1>3. CASE Workload
  BY <1>3 DEF Workload, ChildWrite, ChildReads, ChildForks, BackgroundExits, ChildExits, capVars
<1>4. CASE Handler
  BY <1>4 DEF Handler, WriteInputFails, RecvFrame, TryWait, CheckDeadline, PollNothing,
              PollDisconnect, PollCancel, PollInput, Join, FinishExec, capVars
<1> QED BY <1>1, <1>2, <1>3, <1>4, Sides

\* A drained pipe stays drained: nobody is left to write to it.
LEMMA DrainedStays ==
    ASSUME Types, NEW s \in AllStreams, capture[s] = "done", Drained(s), [Next]_vars
    PROVE  Drained(s)'
<1>1. s \in Streams' <=> s \in Streams
  BY Sides, HostLeavesGuest, GuestLeavesHost DEF Streams
<1>2. pipe'[s] = 0
  <2>1. CASE HostSide BY <2>1, HostLeavesGuest DEF outVars, Drained
  <2>2. CASE Capture
    BY <2>2 DEF Capture, CaptureRead, CaptureEof, CaptureSend, outVars, Drained, Types
  <2>3. CASE Workload
    BY <2>3 DEF Workload, ChildWrite, ChildReads, ChildForks, BackgroundExits, ChildExits, outVars,
                Drained, Types
  <2>4. CASE Handler
    BY <2>4 DEF Handler, WriteInputFails, RecvFrame, TryWait, CheckDeadline, PollNothing,
                PollDisconnect, PollCancel, PollInput, Join, FinishExec, outVars, Drained
  <2> QED BY <2>1, <2>2, <2>3, <2>4, Sides
<1> QED BY <1>1, <1>2, ClosedStays DEF Drained

\* Every step keeps StreamInv.
LEMMA StreamStep ==
    ASSUME Types, FrameTypes, ChildInv, StreamInv, [Next]_vars
    PROVE  StreamInv'
<1>1. rx' => rx
  BY Sides, HostLeavesGuest, HandlerStays
  DEF Handler, WriteInputFails, RecvFrame, TryWait, CheckDeadline, PollNothing, PollDisconnect,
      PollCancel, PollInput, Join, FinishExec, AbortExec, Leave
<1>2. ASSUME NEW s \in AllStreams, rx', capture'[s] = "done" PROVE Drained(s)'
  <2>1. CASE capture[s] = "done" BY <1>1, <1>2, <2>1, DrainedStays DEF StreamInv
  <2>2. CASE capture[s] # "done"
    <3>1. CaptureEof(s)
      <4>1. Capture
        BY <1>2, <2>2, Sides, HostLeavesGuest
        DEF capVars, Workload, ChildWrite, ChildReads, ChildForks, BackgroundExits, ChildExits,
            Handler, WriteInputFails, RecvFrame, TryWait, CheckDeadline, PollNothing,
            PollDisconnect, PollCancel, PollInput, Join, FinishExec
      <4> QED BY <1>1, <1>2, <2>2, <4>1 DEF Capture, CaptureRead, CaptureEof, CaptureSend, Types
    <3> QED BY <3>1 DEF CaptureEof, Drained, outVars, childVars, PipeOpen, Alive
  <2> QED BY <2>1, <2>2
<1>3. CASE streams_done
  <2>1. Captured' BY <1>3, CapturedStays DEF StreamInv, Captured
  <2>2. chan' = <<>>
    BY <1>3, Sides, HostLeavesGuest
    DEF capVars, StreamInv, Captured, Capture, CaptureRead, CaptureEof, CaptureSend,
        Workload, ChildWrite, ChildReads, ChildForks, BackgroundExits, ChildExits,
        Handler, WriteInputFails, RecvFrame, TryWait, CheckDeadline, PollNothing,
        PollDisconnect, PollCancel, PollInput, Join, FinishExec
  <2> QED BY <1>2, <2>1, <2>2 DEF StreamInv
<1>4. CASE ~streams_done /\ streams_done'
  <2>1. RecvFrame
    BY <1>4, Sides, HostLeavesGuest, HandlerStays
    DEF loopVars, Handler, WriteInputFails, TryWait, CheckDeadline, PollNothing,
        PollDisconnect, PollCancel, PollInput, Join, FinishExec
  <2>2. Captured /\ chan' = <<>> BY <1>4, <2>1 DEF RecvFrame
  <2>3. Captured' BY <2>2, CapturedStays DEF Captured
  <2> QED BY <1>2, <2>2, <2>3 DEF StreamInv
<1> QED BY <1>2, <1>3, <1>4 DEF StreamInv

-----------------------------------------------------------------------------
(* What the frames in the connection stand for.                             *)

\* What a queue may do in a step: nothing, lose its head or get frames at its end.
Kept(q, q2) == \A j \in 1..Len(q2) : \E i \in 1..Len(q) : q2[j] = q[i]

\* The host only takes frames.
LEMMA HostTakes ==
    ASSUME FrameTypes, HostSide
    PROVE  Kept(to_host, to_host')
<1>1. \/ UNCHANGED to_host
      \/ to_host # <<>> /\ to_host' = Tail(to_host)
  BY DEF HostSide, Call, RecvChunk, RecvMessage, RecvExit, RecvAck, RecvEof, RecvDeadline,
         DropForwarder, TakeEvent, ForwardSend, ForwarderEnds, Tick, vars, wireVars, Read
<1>2. CASE UNCHANGED to_host BY <1>2 DEF Kept
<1>3. CASE to_host # <<>> /\ to_host' = Tail(to_host)
  BY <1>3, TailType DEF Kept, FrameTypes
<1> QED BY <1>1, <1>2, <1>3

\* What a cancel leaves lasts.
LEMMA DeadStays ==
    ASSUME Types, Dead, [Next]_vars
    PROVE  Dead'
<1>1. ~Handler /\ ~ChildReads BY HandlerRuns DEF Dead
<1>2. UNCHANGED g BY <1>1, Sides, HostLeavesGuest, HandlerStays DEF loopVars
<1>3. child' = "reaped" /\ group' # "inside"
  BY <1>1, Sides, HostLeavesGuest
  DEF Dead, childVars, Capture, CaptureRead, CaptureEof, CaptureSend, Workload, ChildWrite,
      ChildForks, BackgroundExits, ChildExits, Alive
<1>4. Captured' BY CapturedStays DEF Dead, Captured
<1> QED BY <1>2, <1>3, <1>4 DEF Dead

\* The end of a process lasts.
LEMMA EndedStays ==
    ASSUME Types, Ended, [Next]_vars
    PROVE  Ended'
<1>1. ~Handler /\ ~ChildReads BY HandlerRuns DEF Ended
<1>2. UNCHANGED <<g, rx>> BY <1>1, Sides, HostLeavesGuest, HandlerStays DEF loopVars
<1>3. Captured' BY CapturedStays DEF Ended, Captured
<1>4. UNCHANGED chan
  BY <1>1, Sides, HostLeavesGuest
  DEF Ended, Captured, capVars, Capture, CaptureRead, CaptureEof, CaptureSend, Workload, ChildWrite,
      ChildForks, BackgroundExits, ChildExits
<1>5. \A s \in AllStreams : Drained(s)' BY DrainedStays DEF Ended, Captured
<1> QED BY <1>2, <1>3, <1>4, <1>5 DEF Ended

\* The frames the handler adds.
LEMMA HandlerSends ==
    ASSUME Types, Handler
    PROVE  \/ UNCHANGED to_host
           \/ /\ WriteInputFails /\ kind = "exec"
              /\ to_host' = to_host \o <<<<"message", 0>>, <<"exit", "failed">>>>
           \/ /\ RecvFrame /\ g' = "wait" /\ ~HostGone
              /\ chan # <<>> /\ chan' = <<>>
              /\ to_host' = Append(to_host, Head(chan))
           \/ /\ PollCancel /\ g' = "recv"
              /\ to_host' = Append(to_host, <<"ack", "already_exited">>)
           \/ /\ Join /\ g' = "return" /\ after = "ack"
              /\ to_host' = Append(to_host, <<"ack", "cancelled">>)
           \/ /\ FinishExec /\ g' = "return" /\ streams_done /\ exit_status # "none"
              /\ to_host' = Append(to_host, <<"exit", TerminalStatus>>)
<1>1. CASE WriteInputFails BY <1>1 DEF WriteInputFails, Types
<1>2. CASE RecvFrame BY <1>2 DEF RecvFrame
<1>3. CASE PollCancel BY <1>3 DEF PollCancel
<1>4. CASE Join BY <1>4 DEF Join
<1>5. CASE FinishExec BY <1>5 DEF FinishExec
<1>6. CASE TryWait \/ CheckDeadline \/ PollNothing \/ PollDisconnect \/ PollInput
  BY <1>6 DEF TryWait, CheckDeadline, PollNothing, PollDisconnect, PollInput, wireVars
<1> QED BY <1>1, <1>2, <1>3, <1>4, <1>5, <1>6 DEF Handler

\* "cancelled" is on its way, or returned, only when a cancel was asked for and
\* carried out.
LEMMA CancelStep ==
    ASSUME Types, FrameTypes, ChildInv, CancelInv, [Next]_vars
    PROVE  CancelInv'
<1>1. asked => asked'
  BY Sides, GuestLeavesHost
  DEF fwdVars, HostSide, Call, RecvChunk, RecvMessage, RecvExit, RecvAck, RecvEof, RecvDeadline,
      DropForwarder, TakeEvent, ForwardSend, ForwarderEnds, Tick, vars
<1>2. \A i \in 1..Len(to_host') : to_host'[i] = <<"ack", "cancelled">> => Dead' /\ asked'
  <2>1. CASE HostSide
    BY <1>1, <2>1, HostTakes, DeadStays DEF CancelInv, Kept
  <2>2. CASE Capture \/ Workload
    BY <1>1, <2>2, WorkLeavesWire, DeadStays DEF CancelInv, wireVars
  <2>3. CASE Handler
    <3>1. \A i \in 1..Len(to_host) : to_host[i] # <<"ack", "cancelled">>
      BY <2>3, HandlerRuns DEF CancelInv, Dead
    <3>2. CASE UNCHANGED to_host BY <3>1, <3>2
    <3>3. ASSUME NEW f \in HostFrames, f # <<"ack", "cancelled">>, to_host' = Append(to_host, f)
          PROVE \A i \in 1..Len(to_host') : to_host'[i] # <<"ack", "cancelled">>
      <4>1. Len(to_host') = Len(to_host) + 1 /\ Len(to_host) \in Nat
        BY <3>3, AppendType DEF FrameTypes
      <4>2. \A i \in 1..Len(to_host) : to_host'[i] = to_host[i]
        BY <3>3, AppendType DEF FrameTypes
      <4>3. to_host'[Len(to_host) + 1] = f
        BY <3>3, AppendType DEF FrameTypes
      <4>4. \A i \in 1..Len(to_host') : i \in 1..Len(to_host) \/ i = Len(to_host) + 1
        BY <4>1
      <4> QED BY <3>1, <3>3, <4>2, <4>3, <4>4
    <3>4. CASE Join /\ g' = "return" /\ after = "ack"
      <4>1. Dead' BY <3>4 DEF Join, Dead, ChildInv, Left, childVars, capVars, Captured
      <4> QED BY <1>1, <3>4, <4>1 DEF CancelInv
    <3>5. CASE to_host' = Append(to_host, <<"ack", "already_exited">>)
      BY <3>3, <3>5, FramesKnown
    <3>6. CASE to_host' = Append(to_host, <<"exit", TerminalStatus>>)
      BY <3>3, <3>6, FramesKnown DEF TerminalStatus, Statuses
    <3>7. CASE chan # <<>> /\ to_host' = Append(to_host, Head(chan))
      <4>1. Head(chan) \in Chunks BY <3>7, TailType DEF FrameTypes
      <4>2. Head(chan) # <<"ack", "cancelled">> BY <4>1 DEF Chunks, AllStreams
      <4> QED BY <3>3, <3>7, <4>1, <4>2, FramesKnown
    <3>8. CASE to_host' = to_host \o <<<<"message", 0>>, <<"exit", "failed">>>>
      <4>1. \A i \in 1..Len(to_host') : to_host'[i] # <<"ack", "cancelled">>
        <5>1. Len(to_host') = Len(to_host) + 2 /\ Len(to_host) \in Nat
          BY <3>8, FramesKnown, PairType DEF FrameTypes, Statuses
        <5>2. \A i \in 1..Len(to_host) : to_host'[i] = to_host[i]
          BY <3>8, FramesKnown, PairType DEF FrameTypes, Statuses
        <5>3. to_host'[Len(to_host) + 1] = <<"message", 0>> /\ to_host'[Len(to_host) + 2] = <<"exit", "failed">>
          BY <3>8, FramesKnown, PairType DEF FrameTypes, Statuses
        <5> QED BY <3>1, <5>1, <5>2, <5>3
      <4> QED BY <4>1
    <3> QED BY <2>3, <3>2, <3>4, <3>5, <3>6, <3>7, <3>8, HandlerSends
  <2> QED BY <2>1, <2>2, <2>3, Sides
<1>3. outcome' = "cancelled" => Dead'
  <2>1. CASE outcome = "cancelled" BY <2>1, DeadStays DEF CancelInv
  <2>2. CASE outcome # "cancelled" /\ outcome' = "cancelled"
    <3>1. to_host # <<>> /\ (RecvAck \/ RecvExit)
      BY <2>2, Sides, GuestLeavesHost
      DEF hostVars, HostSide, Call, RecvChunk, RecvMessage, RecvExit, RecvAck, RecvEof,
          RecvDeadline, DropForwarder, TakeEvent, ForwardSend, ForwarderEnds, Tick, vars, HostReturn
    <3>2. Head(to_host) = to_host[1] /\ 1 \in 1..Len(to_host) /\ to_host[1] \in HostFrames
      BY <3>1, TailType DEF FrameTypes
    <3>3. to_host[1] = <<"ack", "cancelled">>
      BY <2>2, <3>1, <3>2 DEF RecvAck, RecvExit, HostReturn, HostFrames, Chunks, AllStreams, Statuses
    <3> QED BY <3>2, <3>3, DeadStays DEF CancelInv
  <2> QED BY <2>1, <2>2
<1>4. after' = "ack" \/ fwd' = "cancel" => asked'
  <2>1. CASE HostSide
    BY <1>1, <2>1, HostLeavesGuest
    DEF CancelInv, loopVars, fwdVars, HostSide, Call, RecvChunk, RecvMessage, RecvExit, RecvAck,
        RecvEof, RecvDeadline, DropForwarder, TakeEvent, ForwardSend, ForwarderEnds, Tick, vars
  <2>2. CASE Capture \/ Workload
    BY <2>2, GuestLeavesHost, HandlerStays DEF CancelInv, fwdVars
  <2>3. CASE Handler
    <3>1. UNCHANGED <<fwd, asked>> BY <2>3, GuestLeavesHost DEF fwdVars
    <3>2. CASE PollCancel
      <4>1. to_guest[1] = <<"cancel">> /\ 1 \in 1..Len(to_guest)
        BY <3>2, TailType DEF PollCancel, FrameTypes
      <4> QED BY <3>1, <4>1 DEF CancelInv
    <3>3. CASE ~PollCancel
      BY <2>3, <3>1, <3>3
      DEF CancelInv, Handler, WriteInputFails, RecvFrame, TryWait, CheckDeadline, PollNothing,
          PollDisconnect, PollInput, Join, FinishExec, AbortExec, Leave
    <3> QED BY <3>2, <3>3
  <2> QED BY <2>1, <2>2, <2>3, Sides
<1>5. \A i \in 1..Len(to_guest') : to_guest'[i] = <<"cancel">> => asked'
  <2>1. CASE UNCHANGED to_guest BY <1>1, <2>1 DEF CancelInv
  <2>2. CASE to_guest # <<>> /\ to_guest' = Tail(to_guest)
    BY <1>1, <2>2, TailType DEF CancelInv, FrameTypes
  <2>3. CASE ForwardSend
    <3>1. CASE UNCHANGED to_guest BY <1>1, <3>1 DEF CancelInv
    <3>2. CASE fwd = "cancel" BY <1>1, <3>2 DEF CancelInv
    <3>3. CASE to_guest' = Append(to_guest, <<"input", inputs % (MaxSeq + 1)>>)
      <4>1. inputs % (MaxSeq + 1) \in Nat BY BoundsAssumption DEF Types
      <4>2. <<"input", inputs % (MaxSeq + 1)>> \in GuestFrames BY <4>1, FramesKnown
      <4>3. <<"input", inputs % (MaxSeq + 1)>> # <<"cancel">> OBVIOUS
      <4>4. ASSUME NEW i \in 1..Len(to_guest'), to_guest'[i] = <<"cancel">>
            PROVE  i \in 1..Len(to_guest) /\ to_guest[i] = <<"cancel">>
        BY <3>3, <4>2, <4>3, <4>4, AppendType DEF FrameTypes
      <4> QED BY <1>1, <4>4 DEF CancelInv
    <3> QED BY <2>3, <3>1, <3>2, <3>3 DEF ForwardSend
  <2> QED BY <2>1, <2>2, <2>3, Sides, WorkLeavesWire
      DEF wireVars, HostSide, Call, RecvChunk, RecvMessage, RecvExit, RecvAck, RecvEof,
          RecvDeadline, DropForwarder, TakeEvent, ForwarderEnds, Tick, vars,
          Handler, WriteInputFails, RecvFrame, TryWait, CheckDeadline, PollNothing,
          PollDisconnect, PollCancel, PollInput, Join, FinishExec
<1> QED BY <1>2, <1>3, <1>4, <1>5 DEF CancelInv

\* An exit that reports the end of the process is the last frame, and everything
\* the process wrote is before it.
LEMMA ExitStep ==
    ASSUME Types, FrameTypes, ChildInv, StreamInv, ExitInv, [Next]_vars
    PROVE  ExitInv'
<1> DEFINE Reports(f) == f[1] = "exit" /\ f[2] \in C!Reported
<1>1. CASE UNCHANGED to_host BY <1>1, EndedStays DEF ExitInv
<1>2. CASE to_host # <<>> /\ to_host' = Tail(to_host)
  <2>1. ASSUME NEW i \in 1..Len(to_host'), Reports(to_host'[i])
        PROVE  i = Len(to_host') /\ Ended'
    <3>1. i + 1 \in 1..Len(to_host) /\ to_host'[i] = to_host[i + 1] /\ Len(to_host') = Len(to_host) - 1
      BY <1>2, <2>1, TailType DEF FrameTypes
    <3>2. i + 1 = Len(to_host) /\ Ended BY <2>1, <3>1 DEF ExitInv
    <3> QED BY <3>1, <3>2, EndedStays
  <2> QED BY <2>1 DEF ExitInv
<1>3. CASE Handler
  <2>1. \A i \in 1..Len(to_host) : ~Reports(to_host[i])
    BY <1>3, HandlerRuns DEF ExitInv, Ended
  <2>2. ASSUME NEW f \in HostFrames, ~Reports(f), to_host' = Append(to_host, f)
        PROVE  ExitInv'
    <3>1. \A i \in 1..Len(to_host') : ~Reports(to_host'[i])
      BY <2>1, <2>2, AppendType DEF FrameTypes
    <3> QED BY <3>1 DEF ExitInv
  <2>3. CASE /\ FinishExec /\ g' = "return" /\ streams_done
             /\ to_host' = Append(to_host, <<"exit", TerminalStatus>>)
    <3>1. Ended
          \/ /\ rx /\ Captured /\ chan = <<>> /\ UNCHANGED <<rx, capture, chan, kind, pipe, child, group>>
             /\ \A s \in AllStreams : Drained(s)
      BY <2>3 DEF FinishExec, ChildInv, Left, StreamInv, Captured, capVars, outVars, childVars
    <3>2. Ended' BY <2>3, <3>1, EndedStays DEF Ended, Captured, Drained, Streams, PipeOpen, Alive
    <3>3. <<"exit", TerminalStatus>> \in HostFrames BY FramesKnown DEF TerminalStatus, Statuses
    <3>4. ASSUME NEW i \in 1..Len(to_host'), Reports(to_host'[i])
          PROVE  i = Len(to_host')
      BY <2>1, <2>3, <3>3, <3>4, AppendType DEF FrameTypes
    <3> QED BY <3>2, <3>4 DEF ExitInv
  <2>4. CASE \/ to_host' = Append(to_host, <<"ack", "already_exited">>)
             \/ to_host' = Append(to_host, <<"ack", "cancelled">>)
    BY <2>2, <2>4, FramesKnown
  <2>5. CASE chan # <<>> /\ to_host' = Append(to_host, Head(chan))
    <3>1. Head(chan) \in Chunks BY <2>5, TailType DEF FrameTypes
    <3>2. ~Reports(Head(chan)) BY <3>1 DEF Chunks, AllStreams
    <3> QED BY <2>2, <2>5, <3>1, <3>2, FramesKnown
  <2>6. CASE to_host' = to_host \o <<<<"message", 0>>, <<"exit", "failed">>>>
    <3>1. \A i \in 1..Len(to_host') : ~Reports(to_host'[i])
      <4>1. Len(to_host') = Len(to_host) + 2 /\ Len(to_host) \in Nat
        BY <2>6, FramesKnown, PairType DEF FrameTypes, Statuses
      <4>2. \A i \in 1..Len(to_host) : to_host'[i] = to_host[i]
        BY <2>6, FramesKnown, PairType DEF FrameTypes, Statuses
      <4>3. to_host'[Len(to_host) + 1] = <<"message", 0>> /\ to_host'[Len(to_host) + 2] = <<"exit", "failed">>
        BY <2>6, FramesKnown, PairType DEF FrameTypes, Statuses
      <4> QED BY <2>1, <4>1, <4>2, <4>3 DEF C!Reported
    <3> QED BY <3>1 DEF ExitInv
  <2> QED BY <1>1, <1>3, <2>3, <2>4, <2>5, <2>6, HandlerSends
<1> QED BY <1>1, <1>2, <1>3, Sides, WorkLeavesWire
    DEF wireVars, HostSide, Call, RecvChunk, RecvMessage, RecvExit, RecvAck, RecvEof, RecvDeadline,
        DropForwarder, TakeEvent, ForwardSend, ForwarderEnds, Tick, vars, Read

-----------------------------------------------------------------------------
(* Sequence numbers.                                                        *)

\* A chunk with the number that was due extends the chain.
LEMMA ChainAppendSame ==
    ASSUME NEW F, NEW q \in Seq(F), NEW f \in F, NEW s, NEW first, NEW next,
           Chained(q, s, first, next), f[1] = s, f[2] = next
    PROVE  Chained(Append(q, f), s, first, Succ(next))
<1> DEFINE r == Append(q, f)
           n == Len(q) + 1
<1>1. /\ Len(q) \in Nat /\ r[n] = f
      /\ \A i \in 1..Len(q) : r[i] = q[i]
  BY AppendType
<1>2. Positions(r, s) = Positions(q, s) \cup {n} BY DEF Positions
<1>3. \A i \in Positions(q, s) : i \in Nat /\ i < n /\ r[i] = q[i] BY <1>1 DEF Positions
<1>4. ASSUME NEW i \in Positions(r, s), \A j \in Positions(r, s) : i <= j
      PROVE  r[i][2] = first
  <2>1. CASE i \in Positions(q, s)
    <3>1. \A j \in Positions(q, s) : i <= j BY <1>2, <1>4
    <3>2. q[i][2] = first BY <2>1, <3>1 DEF Chained
    <3> QED BY <1>3, <2>1, <3>2
  <2>2. CASE i = n
    <3>1. ASSUME NEW k \in Positions(q, s) PROVE FALSE
      <4>1. n <= k BY <1>2, <1>4, <2>2
      <4> QED BY <1>1, <1>3, <4>1
    <3> QED BY <1>1, <2>2, <3>1 DEF Chained
  <2> QED BY <1>2, <1>4, <2>1, <2>2
<1>5. ASSUME NEW i \in Positions(r, s), NEW j \in Positions(r, s), i < j,
             \A k \in Positions(r, s) : k <= i \/ j <= k
      PROVE  r[j][2] = Succ(r[i][2])
  <2>1. i \in Positions(q, s) BY <1>2, <1>3, <1>5 DEF Positions
  <2>2. CASE j \in Positions(q, s)
    <3>1. \A k \in Positions(q, s) : k <= i \/ j <= k BY <1>2, <1>5
    <3>2. q[j][2] = Succ(q[i][2]) BY <1>5, <2>1, <2>2, <3>1 DEF Chained
    <3> QED BY <1>3, <2>1, <2>2, <3>2
  <2>3. CASE j = n
    <3>1. \A k \in Positions(q, s) : k <= i BY <1>2, <1>3, <1>5, <2>3
    <3>2. next = Succ(q[i][2]) BY <2>1, <3>1 DEF Chained
    <3> QED BY <1>1, <1>3, <2>1, <2>3, <3>2
  <2> QED BY <1>2, <1>5, <2>2, <2>3
<1>6. ASSUME NEW i \in Positions(r, s), \A j \in Positions(r, s) : j <= i
      PROVE  Succ(next) = Succ(r[i][2])
  BY <1>1, <1>2, <1>3, <1>6
<1>7. Positions(r, s) # {} BY <1>2
<1> HIDE DEF r
<1>8. Chained(r, s, first, Succ(next)) BY <1>4, <1>5, <1>6, <1>7 DEF Chained
<1> QED BY <1>8 DEF r

\* A frame of another stream does not matter.
LEMMA ChainAppendOther ==
    ASSUME NEW F, NEW q \in Seq(F), NEW f \in F, NEW s, NEW first, NEW next,
           Chained(q, s, first, next), f[1] # s
    PROVE  Chained(Append(q, f), s, first, next)
<1> DEFINE r == Append(q, f)
<1>1. Positions(r, s) = Positions(q, s) BY DEF Positions
<1>2. \A i \in Positions(q, s) : r[i] = q[i] BY AppendType DEF Positions
<1> HIDE DEF r
<1>3. Chained(r, s, first, next) BY <1>1, <1>2 DEF Chained
<1> QED BY <1>3 DEF r

\* The first chunk has the expected number; the rest is a chain from its successor.
LEMMA ChainTailSame ==
    ASSUME NEW F, NEW q \in Seq(F), q # <<>>, NEW s, NEW first, NEW next,
           Chained(q, s, first, next), q[1][1] = s
    PROVE  q[1][2] = first /\ Chained(Tail(q), s, Succ(first), next)
<1> DEFINE r == Tail(q)
           S == Positions(q, s)
           T == Positions(r, s)
<1>1. /\ \A i \in T : i \in Nat \ {0} /\ i + 1 \in S /\ r[i] = q[i + 1]
      /\ \A j \in S : j \in Nat \ {0} /\ (j # 1 => j - 1 \in T)
      /\ 1 \in S
  BY TailType DEF Positions
<1>2. q[1][2] = first BY <1>1 DEF Chained
<1> HIDE DEF r, S, T
<1>3. ASSUME NEW i \in T, \A j \in T : i <= j PROVE r[i][2] = Succ(first)
  <2>1. \A k \in S : k <= 1 \/ i + 1 <= k BY <1>1, <1>3
  <2>2. i + 1 \in S /\ 1 < i + 1 BY <1>1
  <2> QED BY <1>1, <1>2, <2>1, <2>2 DEF Chained, S
<1>4. ASSUME NEW i \in T, NEW j \in T, i < j, \A k \in T : k <= i \/ j <= k
      PROVE  r[j][2] = Succ(r[i][2])
  <2>1. ASSUME NEW k \in S PROVE k <= i + 1 \/ j + 1 <= k
    <3>1. k = 1 \/ k - 1 \in T BY <1>1
    <3>2. k - 1 \in T => k - 1 <= i \/ j <= k - 1 BY <1>4
    <3> QED BY <1>1, <3>1, <3>2
  <2>2. i + 1 \in S /\ j + 1 \in S /\ i + 1 < j + 1 BY <1>1, <1>4
  <2>3. q[j + 1][2] = Succ(q[i + 1][2]) BY <2>1, <2>2 DEF Chained, S
  <2> QED BY <1>1, <2>3
<1>5. ASSUME NEW i \in T, \A j \in T : j <= i PROVE next = Succ(r[i][2])
  <2>1. \A k \in S : k <= i + 1 BY <1>1, <1>5
  <2>2. i + 1 \in S BY <1>1
  <2> QED BY <1>1, <2>1, <2>2 DEF Chained, S
<1>6. ASSUME T = {} PROVE next = Succ(first)
  <2>1. \A k \in S : k <= 1 BY <1>1, <1>6
  <2> QED BY <1>1, <1>2, <2>1 DEF Chained, S
<1>7. Chained(r, s, Succ(first), next) BY <1>3, <1>4, <1>5, <1>6 DEF Chained, T
<1> QED BY <1>2, <1>7 DEF r

\* A head of another stream does not matter.
LEMMA ChainTailOther ==
    ASSUME NEW F, NEW q \in Seq(F), q # <<>>, NEW s, NEW first, NEW next,
           Chained(q, s, first, next), q[1][1] # s
    PROVE  Chained(Tail(q), s, first, next)
<1> DEFINE r == Tail(q)
           S == Positions(q, s)
           T == Positions(r, s)
<1>1. /\ \A i \in T : i \in Nat \ {0} /\ i + 1 \in S /\ r[i] = q[i + 1]
      /\ \A j \in S : j \in Nat \ {0} /\ j - 1 \in T
  BY TailType DEF Positions
<1> HIDE DEF r, S, T
<1>3. ASSUME NEW i \in T, \A j \in T : i <= j PROVE r[i][2] = first
  <2>1. \A k \in S : i + 1 <= k BY <1>1, <1>3
  <2>2. i + 1 \in S BY <1>1
  <2> QED BY <1>1, <2>1, <2>2 DEF Chained, S
<1>4. ASSUME NEW i \in T, NEW j \in T, i < j, \A k \in T : k <= i \/ j <= k
      PROVE  r[j][2] = Succ(r[i][2])
  <2>1. ASSUME NEW k \in S PROVE k <= i + 1 \/ j + 1 <= k
    <3>1. k = 1 \/ k - 1 \in T BY <1>1
    <3>2. k - 1 \in T => k - 1 <= i \/ j <= k - 1 BY <1>4
    <3> QED BY <1>1, <3>1, <3>2
  <2>2. i + 1 \in S /\ j + 1 \in S /\ i + 1 < j + 1 BY <1>1, <1>4
  <2>3. q[j + 1][2] = Succ(q[i + 1][2]) BY <2>1, <2>2 DEF Chained, S
  <2> QED BY <1>1, <2>3
<1>5. ASSUME NEW i \in T, \A j \in T : j <= i PROVE next = Succ(r[i][2])
  <2>1. \A k \in S : k <= i + 1 BY <1>1, <1>5
  <2>2. i + 1 \in S BY <1>1
  <2> QED BY <1>1, <2>1, <2>2 DEF Chained, S
<1>6. ASSUME T = {} PROVE next = first
  BY <1>1, <1>6 DEF Chained, S
<1>7. Chained(r, s, first, next) BY <1>3, <1>4, <1>5, <1>6 DEF Chained, T
<1> QED BY <1>7 DEF r

\* The host call only ever leaves its receive loop.
LEMMA HostListens ==
    ASSUME [Next]_vars, host' = "recv"
    PROVE  host = "recv"
BY Sides, GuestLeavesHost
   DEF hostVars, HostSide, Call, RecvChunk, RecvMessage, RecvExit, RecvAck, RecvEof, RecvDeadline,
       DropForwarder, TakeEvent, ForwardSend, ForwarderEnds, Tick, vars, HostReturn

\* The steps that change the channel and the numbers of the capture threads.
LEMMA ChannelCases ==
    ASSUME Types, FrameTypes, [Next]_vars
    PROVE  \/ UNCHANGED <<chan, seq>>
           \/ \E t \in AllStreams : /\ CaptureSend(t) /\ rx /\ chan = <<>> /\ chan' = <<<<t, seq[t]>>>>
                                    /\ seq' = [seq EXCEPT ![t] = Succ(seq[t])]
           \/ RecvFrame /\ chan # <<>> /\ chan' = <<>> /\ UNCHANGED seq
<1>1. CASE HostSide BY <1>1, HostLeavesGuest DEF capVars
<1>2. CASE Capture
  <2>1. \A t \in AllStreams : (seq[t] + 1) % (MaxSeq + 1) = Succ(seq[t]) BY SuccMod DEF Types
  <2> QED BY <1>2, <2>1 DEF Capture, CaptureRead, CaptureEof, CaptureSend, capVars
<1>3. CASE Workload
  BY <1>3 DEF Workload, ChildWrite, ChildReads, ChildForks, BackgroundExits, ChildExits, capVars
<1>4. CASE Handler
  BY <1>4 DEF Handler, WriteInputFails, RecvFrame, TryWait, CheckDeadline, PollNothing,
              PollDisconnect, PollCancel, PollInput, Join, FinishExec, capVars
<1> QED BY <1>1, <1>2, <1>3, <1>4, Sides

\* What a listening host does to the connection and its counters.
LEMMA HostCases ==
    ASSUME FrameTypes, HostSide, host' = "recv"
    PROVE  \/ UNCHANGED <<to_host, expected, delivered>>
           \/ /\ to_host # <<>> /\ to_host' = Tail(to_host) /\ UNCHANGED <<expected, delivered>>
              /\ to_host[1][1] \notin AllStreams
           \/ \E t \in AllStreams :
                 /\ to_host # <<>> /\ to_host' = Tail(to_host)
                 /\ to_host[1][1] = t /\ to_host[1][2] = expected[t] /\ expected[t] < MaxSeq
                 /\ expected' = [expected EXCEPT ![t] = @ + 1]
                 /\ delivered' = [delivered EXCEPT ![t] = @ + 1]
<1>1. to_host # <<>> => Head(to_host) = to_host[1] BY TailType DEF FrameTypes
<1>2. CASE \E t \in AllStreams : RecvChunk(t)
  BY <1>1, <1>2 DEF RecvChunk, Read, HostReturn
<1>3. CASE RecvMessage \/ RecvExit \/ RecvAck
  BY <1>1, <1>3 DEF RecvMessage, RecvExit, RecvAck, Read, HostReturn, hostVars, AllStreams
<1>4. CASE ~Call \/ RecvEof \/ RecvDeadline \/ DropForwarder
  BY <1>4 DEF HostSide, RecvEof, RecvDeadline, DropForwarder, TakeEvent, ForwardSend, ForwarderEnds,
              Tick, vars, hostVars, wireVars
<1> QED BY <1>2, <1>3, <1>4 DEF Call

\* Two frames added at once are two frames added.
LEMMA PairIsAppend ==
    ASSUME NEW F, NEW q \in Seq(F), NEW a \in F, NEW b \in F
    PROVE  q \o <<a, b>> = Append(Append(q, a), b)
OBVIOUS

\* Every step keeps the chains.
LEMMA SequenceStep ==
    ASSUME Types, FrameTypes, SequenceInv, [Next]_vars
    PROVE  SequenceInv'
<1>1. \A s \in AllStreams : (InChan(s) = 1 => seq[s] = Succ(chan[1][2]))'
  <2>1. CASE UNCHANGED <<chan, seq>> BY <2>1 DEF SequenceInv, InChan
  <2>2. CASE chan' = <<>> BY <2>2 DEF InChan
  <2>3. ASSUME NEW t \in AllStreams, chan' = <<<<t, seq[t]>>>>, seq' = [seq EXCEPT ![t] = Succ(seq[t])]
        PROVE  \A s \in AllStreams : (InChan(s) = 1 => seq[s] = Succ(chan[1][2]))'
    BY <2>3 DEF InChan, Types
  <2> QED BY <2>1, <2>2, <2>3, ChannelCases
<1>2. ASSUME host' = "recv", NEW s \in AllStreams
      PROVE  Chained(to_host', s, expected'[s], Entering(s)')
  <2>1. host = "recv" BY <1>2, HostListens
  <2>2. Chained(to_host, s, expected[s], Entering(s)) BY <2>1 DEF SequenceInv
  <2>3. to_host \in Seq(HostFrames) /\ chan \in Seq(Chunks) BY DEF FrameTypes
  <2>4. CASE HostSide
    <3>1. Entering(s)' = Entering(s) BY <2>4, HostLeavesGuest DEF Entering, InChan, capVars
    <3>2. CASE UNCHANGED <<to_host, expected>> BY <2>2, <3>1, <3>2
    <3>3. CASE /\ to_host # <<>> /\ to_host' = Tail(to_host) /\ UNCHANGED expected
               /\ to_host[1][1] # s
      BY <2>2, <2>3, <3>1, <3>3, ChainTailOther
    <3>4. ASSUME NEW t \in AllStreams,
                 to_host # <<>>, to_host' = Tail(to_host), to_host[1][1] = t,
                 expected[t] < MaxSeq, expected' = [expected EXCEPT ![t] = @ + 1]
          PROVE  Chained(to_host', s, expected'[s], Entering(s)')
      <4>1. CASE s = t
        <5>1. expected'[s] = Succ(expected[s])
          BY <3>4, <4>1, BoundsAssumption DEF Types, Succ
        <5>2. to_host[1][1] = s /\ to_host # <<>> BY <3>4, <4>1
        <5>3. Chained(Tail(to_host), s, Succ(expected[s]), Entering(s))
          BY <2>2, <2>3, <5>2, ChainTailSame
        <5> QED BY <3>1, <3>4, <5>1, <5>3
      <4>2. CASE s # t
        <5>1. expected'[s] = expected[s] BY <3>4, <4>2 DEF Types
        <5> QED BY <2>2, <2>3, <3>1, <3>4, <4>2, <5>1, ChainTailOther
      <4> QED BY <4>1, <4>2
    <3> QED BY <1>2, <2>4, <3>2, <3>3, <3>4, HostCases
  <2>5. CASE Capture \/ Workload
    <3>1. UNCHANGED <<to_host, expected>>
      BY <2>5, WorkLeavesWire, GuestLeavesHost DEF wireVars, hostVars
    <3>2. Entering(s)' = Entering(s)
      <4>1. CASE UNCHANGED <<chan, seq>> BY <4>1 DEF Entering, InChan
      <4>2. ASSUME NEW t \in AllStreams, chan = <<>>, chan' = <<<<t, seq[t]>>>>,
                   seq' = [seq EXCEPT ![t] = Succ(seq[t])]
            PROVE  Entering(s)' = Entering(s)
        BY <4>2 DEF Entering, InChan, Types
      <4>3. ~RecvFrame \/ UNCHANGED chan
        BY <2>5 DEF Capture, CaptureRead, CaptureEof, CaptureSend, Workload, ChildWrite, ChildReads,
                    ChildForks, BackgroundExits, ChildExits, RecvFrame, capVars, loopVars
      <4> QED BY <4>1, <4>2, <4>3, ChannelCases
    <3> QED BY <2>2, <3>1, <3>2
  <2>6. CASE Handler
    <3>1. UNCHANGED expected BY <2>6, GuestLeavesHost DEF hostVars
    <3>2. ASSUME NEW f \in HostFrames, f[1] \notin AllStreams, to_host' = Append(to_host, f),
                 UNCHANGED <<chan, seq>>
          PROVE  Chained(to_host', s, expected'[s], Entering(s)')
      BY <2>2, <2>3, <3>1, <3>2, ChainAppendOther DEF Entering, InChan
    <3>3. CASE RecvFrame /\ chan # <<>> /\ chan' = <<>> /\ to_host' = Append(to_host, Head(chan))
      <4>1. Head(chan) = chan[1] /\ chan[1] \in HostFrames
        BY <2>3, <3>3, TailType, FramesKnown
      <4>2. UNCHANGED seq BY <3>3 DEF RecvFrame
      <4>3. CASE chan[1][1] = s
        <5>1. Entering(s) = chan[1][2] /\ Entering(s)' = Succ(chan[1][2])
          BY <3>3, <4>2, <4>3 DEF Entering, InChan, SequenceInv
        <5> QED BY <2>2, <2>3, <3>1, <3>3, <4>1, <4>3, <5>1, ChainAppendSame
      <4>4. CASE chan[1][1] # s
        <5>1. Entering(s)' = Entering(s) BY <3>3, <4>2, <4>4 DEF Entering, InChan
        <5> QED BY <2>2, <2>3, <3>1, <3>3, <4>1, <4>4, <5>1, ChainAppendOther
      <4> QED BY <4>3, <4>4
    <3>4. CASE RecvFrame /\ UNCHANGED to_host
      <4>1. UNCHANGED <<chan, seq>> BY <1>2, <2>1, <3>4 DEF RecvFrame, HostGone
      <4> QED BY <2>2, <3>1, <3>4, <4>1 DEF Entering, InChan
    <3>5. CASE ~RecvFrame
      <4>1. UNCHANGED <<chan, seq>>
        BY <2>6, <3>5 DEF Handler, WriteInputFails, TryWait, CheckDeadline, PollNothing,
                          PollDisconnect, PollCancel, PollInput, Join, FinishExec, capVars
      <4>2. CASE UNCHANGED to_host BY <2>2, <3>1, <4>1, <4>2 DEF Entering, InChan
      <4>3. CASE \/ to_host' = Append(to_host, <<"ack", "already_exited">>)
                 \/ to_host' = Append(to_host, <<"ack", "cancelled">>)
                 \/ to_host' = Append(to_host, <<"exit", TerminalStatus>>)
        <5>1. <<"exit", TerminalStatus>> \in HostFrames BY FramesKnown DEF TerminalStatus, Statuses
        <5> QED BY <3>2, <4>1, <4>3, <5>1, FramesKnown DEF AllStreams
      <4>4. CASE to_host' = to_host \o <<<<"message", 0>>, <<"exit", "failed">>>>
        <5> DEFINE m == <<"message", 0>>
                   e == <<"exit", "failed">>
        <5>1. m \in HostFrames /\ e \in HostFrames /\ m[1] # s /\ e[1] # s
          BY FramesKnown DEF Statuses, AllStreams
        <5> HIDE DEF m, e
        <5>2. to_host' = Append(Append(to_host, m), e)
          <6>1. to_host \o <<m, e>> = Append(Append(to_host, m), e) BY <2>3, <5>1, PairIsAppend
          <6> QED BY <4>4, <6>1 DEF m, e
        <5>3. Append(to_host, m) \in Seq(HostFrames) BY <2>3, <5>1, AppendType
        <5>4. Chained(Append(to_host, m), s, expected[s], Entering(s))
          BY <2>2, <2>3, <5>1, ChainAppendOther
        <5>5. Chained(to_host', s, expected[s], Entering(s))
          BY <5>1, <5>2, <5>3, <5>4, ChainAppendOther
        <5> QED BY <3>1, <4>1, <5>5 DEF Entering, InChan
      <4> QED BY <2>6, <3>5, <4>2, <4>3, <4>4, HandlerSends
    <3> QED BY <3>3, <3>4, <3>5 DEF RecvFrame
  <2> QED BY <2>4, <2>5, <2>6, Sides
<1> QED BY <1>1, <1>2 DEF SequenceInv

-----------------------------------------------------------------------------
(* The flow of output.                                                      *)

\* Where a chunk of the flow can be, as numbers.
LEMMA FlowType ==
    ASSUME Types, FrameTypes, NEW s \in AllStreams
    PROVE  /\ delivered[s] \in Nat /\ pipe[s] \in Nat /\ written[s] \in Nat
           /\ Count(to_host, s) \in Nat /\ InChan(s) \in {0, 1} /\ Sending(s) \in {0, 1}
BY CountType DEF Types, FrameTypes, InChan, Sending

\* A frame of no stream adds nothing to a count.
LEMMA CountOther ==
    ASSUME FrameTypes, NEW s \in AllStreams, NEW f \in HostFrames, f[1] \notin AllStreams
    PROVE  Count(Append(to_host, f), s) = Count(to_host, s)
BY CountAppend DEF FrameTypes

\* No step of the handler changes the output on its way, except that the frame in
\* the channel goes out.
LEMMA HandlerFlow ==
    ASSUME Types, FrameTypes, Handler, host = "recv", NEW s \in AllStreams
    PROVE  Count(to_host, s)' + InChan(s)' = Count(to_host, s) + InChan(s)
<1>1. to_host \in Seq(HostFrames) /\ chan \in Seq(Chunks) BY DEF FrameTypes
<1>2. Count(to_host, s) \in Nat BY <1>1, CountType
<1>3. CASE RecvFrame /\ chan # <<>> /\ chan' = <<>> /\ to_host' = Append(to_host, Head(chan))
  <2>1. Head(chan) = chan[1] /\ chan[1] \in HostFrames BY <1>1, <1>3, TailType, FramesKnown
  <2>2. Count(to_host, s)' = IF chan[1][1] = s THEN Count(to_host, s) + 1 ELSE Count(to_host, s)
    BY <1>1, <1>3, <2>1, CountAppend
  <2>3. InChan(s)' = 0 BY <1>3 DEF InChan
  <2>4. InChan(s) = IF chan[1][1] = s THEN 1 ELSE 0 BY <1>3 DEF InChan
  <2> QED BY <1>2, <2>2, <2>3, <2>4
<1>4. CASE RecvFrame /\ UNCHANGED to_host
  <2>1. UNCHANGED chan BY <1>4 DEF RecvFrame, HostGone
  <2> QED BY <1>4, <2>1 DEF InChan
<1>5. CASE ~RecvFrame
  <2>1. UNCHANGED chan
    BY <1>5 DEF Handler, WriteInputFails, TryWait, CheckDeadline, PollNothing,
                PollDisconnect, PollCancel, PollInput, Join, FinishExec, capVars
  <2>2. Count(to_host, s)' = Count(to_host, s)
    <3>1. CASE UNCHANGED to_host BY <3>1
    <3>2. CASE \/ to_host' = Append(to_host, <<"ack", "already_exited">>)
               \/ to_host' = Append(to_host, <<"ack", "cancelled">>)
               \/ to_host' = Append(to_host, <<"exit", TerminalStatus>>)
      <4>1. <<"exit", TerminalStatus>> \in HostFrames BY FramesKnown DEF TerminalStatus, Statuses
      <4> QED BY <3>2, <4>1, FramesKnown, CountOther DEF AllStreams
    <3>3. CASE to_host' = to_host \o <<<<"message", 0>>, <<"exit", "failed">>>>
      <4> DEFINE m == <<"message", 0>>
                 e == <<"exit", "failed">>
      <4>1. m \in HostFrames /\ e \in HostFrames /\ m[1] # s /\ e[1] # s
        BY FramesKnown DEF Statuses, AllStreams
      <4> HIDE DEF m, e
      <4>2. to_host \o <<m, e>> = Append(Append(to_host, m), e) BY <1>1, <4>1, PairIsAppend
      <4>3. to_host' = Append(Append(to_host, m), e) BY <3>3, <4>2 DEF m, e
      <4>4. Append(to_host, m) \in Seq(HostFrames) BY <1>1, <4>1, AppendType
      <4>5. Count(Append(to_host, m), s) = Count(to_host, s) BY <1>1, <4>1, CountAppend
      <4> QED BY <4>1, <4>3, <4>4, <4>5, CountAppend
    <3> QED BY <1>5, <3>1, <3>2, <3>3, HandlerSends
  <2> QED BY <2>1, <2>2 DEF InChan
<1> QED BY <1>3, <1>4, <1>5 DEF RecvFrame

\* What a listening host takes out of the connection it delivers.
LEMMA HostFlow ==
    ASSUME Types, FrameTypes, HostSide, host' = "recv", NEW s \in AllStreams
    PROVE  delivered'[s] + Count(to_host, s)' = delivered[s] + Count(to_host, s)
<1>1. to_host \in Seq(HostFrames) BY DEF FrameTypes
<1>2. Count(to_host, s) \in Nat /\ delivered[s] \in Nat BY <1>1, CountType DEF Types
<1>3. CASE UNCHANGED <<to_host, delivered>> BY <1>3
<1>4. CASE /\ to_host # <<>> /\ to_host' = Tail(to_host) /\ UNCHANGED delivered
           /\ to_host[1][1] \notin AllStreams
  BY <1>1, <1>4, CountTail
<1>5. ASSUME NEW t \in AllStreams, to_host # <<>>, to_host' = Tail(to_host), to_host[1][1] = t,
             delivered' = [delivered EXCEPT ![t] = @ + 1]
      PROVE  delivered'[s] + Count(to_host, s)' = delivered[s] + Count(to_host, s)
  <2>1. Tail(to_host) \in Seq(HostFrames) BY <1>1, <1>5, TailType
  <2>2. Count(Tail(to_host), s) \in Nat BY <2>1, CountType
  <2>3. Count(to_host, s) = IF t = s THEN Count(Tail(to_host), s) + 1 ELSE Count(Tail(to_host), s)
    BY <1>1, <1>5, CountTail
  <2>4. delivered'[s] = IF t = s THEN delivered[s] + 1 ELSE delivered[s] BY <1>5 DEF Types
  <2> QED BY <1>2, <1>5, <2>2, <2>3, <2>4
<1> QED BY <1>3, <1>4, <1>5, HostCases

\* Every step keeps the flow.
LEMMA FlowStep ==
    ASSUME Types, FrameTypes, FlowInv, [Next]_vars
    PROVE  FlowInv'
<1> SUFFICES ASSUME host' = "recv", NEW s \in AllStreams
             PROVE  Flow(s)' <= written'[s] /\ (rx' => Flow(s)' = written'[s])
    BY DEF FlowInv
<1>1. host = "recv" BY HostListens
<1>2. Flow(s) <= written[s] /\ (rx => Flow(s) = written[s]) BY <1>1 DEF FlowInv
<1>3. /\ delivered[s] \in Nat /\ pipe[s] \in Nat /\ written[s] \in Nat
      /\ Count(to_host, s) \in Nat /\ InChan(s) \in Nat /\ Sending(s) \in Nat
  BY FlowType
<1>4. /\ delivered'[s] \in Nat /\ pipe'[s] \in Nat /\ written'[s] \in Nat
      /\ Count(to_host, s)' \in Nat /\ InChan(s)' \in Nat /\ Sending(s)' \in Nat
  <2>1. Types' /\ FrameTypes' BY TypesStep, FrameTypesStep
  <2> QED BY <2>1, CountType DEF Types, FrameTypes, InChan, Sending
<1>5. CASE HostSide
  <2>1. UNCHANGED <<pipe, written, rx>> /\ InChan(s)' = InChan(s) /\ Sending(s)' = Sending(s)
    BY <1>5, HostLeavesGuest DEF outVars, capVars, InChan, Sending
  <2>2. delivered'[s] + Count(to_host, s)' = delivered[s] + Count(to_host, s)
    BY <1>5, HostFlow
  <2> QED BY <1>2, <1>3, <1>4, <2>1, <2>2 DEF Flow
<1>6. CASE Handler
  <2>1. UNCHANGED <<pipe, written, capture>>
    BY <1>6 DEF Handler, WriteInputFails, RecvFrame, TryWait, CheckDeadline, PollNothing,
                PollDisconnect, PollCancel, PollInput, Join, FinishExec, outVars, capVars
  <2>2. UNCHANGED delivered BY <1>6, GuestLeavesHost DEF hostVars
  <2>3. rx' => rx
    BY <1>6 DEF Handler, WriteInputFails, RecvFrame, TryWait, CheckDeadline, PollNothing,
                PollDisconnect, PollCancel, PollInput, Join, FinishExec, AbortExec, Leave
  <2>4. Count(to_host, s)' + InChan(s)' = Count(to_host, s) + InChan(s)
    BY <1>1, <1>6, HandlerFlow
  <2>5. Sending(s)' = Sending(s) BY <2>1 DEF Sending
  <2> QED BY <1>2, <1>3, <1>4, <2>1, <2>2, <2>3, <2>4, <2>5 DEF Flow
<1>7. CASE Capture \/ Workload
  <2>1. UNCHANGED <<to_host, delivered, rx>>
    BY <1>7, WorkLeavesWire, GuestLeavesHost, HandlerStays DEF wireVars, hostVars
  <2>2. CASE \E t \in AllStreams : ChildWrite(t)
    <3>1. PICK t \in AllStreams : ChildWrite(t) BY <2>2
    <3>2. InChan(s)' = InChan(s) /\ Sending(s)' = Sending(s)
      BY <3>1 DEF ChildWrite, capVars, InChan, Sending
    <3>3. /\ written'[s] = IF s = t THEN written[s] + 1 ELSE written[s]
          /\ pipe'[s] = IF s = t THEN pipe[s] + 1 ELSE pipe[s]
      BY <3>1 DEF ChildWrite, Types
    <3> QED BY <1>2, <1>3, <1>4, <2>1, <3>2, <3>3 DEF Flow
  <2>3. CASE \E t \in AllStreams : CaptureRead(t)
    <3>1. PICK t \in AllStreams : CaptureRead(t) BY <2>3
    <3>2. InChan(s)' = InChan(s) /\ UNCHANGED written BY <3>1 DEF CaptureRead, InChan
    <3>3. /\ pipe'[s] = IF s = t THEN pipe[s] - 1 ELSE pipe[s]
          /\ Sending(s)' = IF s = t THEN Sending(s) + 1 ELSE Sending(s)
      BY <3>1 DEF CaptureRead, Types, Sending
    <3> QED BY <1>2, <1>3, <1>4, <2>1, <3>2, <3>3 DEF Flow
  <2>4. CASE \E t \in AllStreams : CaptureEof(t)
    <3>1. PICK t \in AllStreams : CaptureEof(t) BY <2>4
    <3>2. InChan(s)' = InChan(s) /\ UNCHANGED <<written, pipe>> /\ Sending(s)' = Sending(s)
      BY <3>1 DEF CaptureEof, InChan, Sending, outVars, Types
    <3> QED BY <1>2, <1>3, <1>4, <2>1, <3>2 DEF Flow
  <2>5. CASE \E t \in AllStreams : CaptureSend(t)
    <3>1. PICK t \in AllStreams : CaptureSend(t) BY <2>5
    <3>2. UNCHANGED <<written, pipe>> BY <3>1 DEF CaptureSend, outVars
    <3>3. Sending(s)' = IF s = t THEN Sending(s) - 1 ELSE Sending(s)
      BY <3>1 DEF CaptureSend, Types, Sending
    <3>4. CASE rx
      <4>1. InChan(s) = 0 /\ InChan(s)' = IF s = t THEN 1 ELSE 0
        BY <3>1, <3>4 DEF CaptureSend, InChan
      <4> QED BY <1>2, <1>3, <1>4, <2>1, <3>2, <3>3, <4>1 DEF Flow
    <3>5. CASE ~rx
      <4>1. InChan(s)' = InChan(s) BY <3>1, <3>5 DEF CaptureSend, InChan
      <4> QED BY <1>2, <1>3, <1>4, <2>1, <3>2, <3>3, <3>5, <4>1 DEF Flow
    <3> QED BY <3>4, <3>5
  <2>6. CASE ChildReads \/ ChildForks \/ BackgroundExits \/ ChildExits
    <3>1. UNCHANGED <<written, pipe>> /\ InChan(s)' = InChan(s) /\ Sending(s)' = Sending(s)
      BY <2>6 DEF ChildReads, ChildForks, BackgroundExits, ChildExits, outVars, capVars, InChan, Sending
    <3> QED BY <1>2, <1>3, <1>4, <2>1, <3>1 DEF Flow
  <2> QED BY <1>7, <2>2, <2>3, <2>4, <2>5, <2>6 DEF Capture, Workload
<1> QED BY <1>5, <1>6, <1>7, Sides

-----------------------------------------------------------------------------
(* The daemon's message.                                                    *)

\* A message is on its way only when no output ever was.
LEMMA MessageStep ==
    ASSUME Types, FrameTypes, MessageInv, [Next]_vars
    PROVE  MessageInv'
<1>1. UNCHANGED kind BY Sides, HostLeavesGuest, GuestLeavesHost
<1>2. \A i \in 1..Len(to_guest') : to_guest'[i][1] = "input" => kind = "pty"
  <2>1. CASE UNCHANGED to_guest BY <2>1 DEF MessageInv
  <2>2. CASE to_guest # <<>> /\ to_guest' = Tail(to_guest)
    BY <2>2, TailType DEF MessageInv, FrameTypes
  <2>3. CASE ForwardSend
    <3>1. CASE fwd = "input" BY <3>1 DEF MessageInv
    <3>2. CASE to_guest' = Append(to_guest, <<"cancel">>)
      <4>1. ASSUME NEW i \in 1..Len(to_guest'), to_guest'[i][1] = "input"
            PROVE  i \in 1..Len(to_guest) /\ to_guest'[i] = to_guest[i]
        BY <3>2, <4>1, FramesKnown, AppendType DEF FrameTypes
      <4> QED BY <4>1 DEF MessageInv
    <3> QED BY <2>1, <2>3, <3>1, <3>2 DEF ForwardSend
  <2> QED BY <2>1, <2>2, <2>3, Sides, WorkLeavesWire
      DEF wireVars, HostSide, Call, RecvChunk, RecvMessage, RecvExit, RecvAck, RecvEof,
          RecvDeadline, DropForwarder, TakeEvent, ForwarderEnds, Tick, vars,
          Handler, WriteInputFails, RecvFrame, TryWait, CheckDeadline, PollNothing,
          PollDisconnect, PollCancel, PollInput, Join, FinishExec
<1>3. fwd' = "input" => kind = "pty"
  BY Sides, GuestLeavesHost
  DEF MessageInv, fwdVars, HostSide, Call, RecvChunk, RecvMessage, RecvExit, RecvAck, RecvEof,
      RecvDeadline, DropForwarder, TakeEvent, ForwardSend, ForwarderEnds, Tick, vars
<1>4. CASE HostSide
  <2>1. UNCHANGED <<g, after>> BY <1>4, HostLeavesGuest DEF loopVars
  <2>2. CASE UNCHANGED <<to_host, expected>>
    BY <1>1, <1>2, <1>3, <2>1, <2>2 DEF MessageInv, NoOutput, Left
  <2>3. CASE to_host # <<>> /\ to_host' = Tail(to_host)
    <3>1. 1 \in 1..Len(to_host) /\ Head(to_host) = to_host[1] BY <2>3, TailType DEF FrameTypes
    <3>2. NoOutput => NoOutput'
      <4>1. \A s \in AllStreams : Positions(to_host, s) = {} => Positions(to_host', s) = {}
        BY <2>3, TailType DEF Positions, FrameTypes
      <4>2. NoOutput => UNCHANGED expected
        BY <1>4, <2>3, <3>1
        DEF NoOutput, Positions, HostSide, Call, RecvChunk, RecvMessage, RecvExit, RecvAck, RecvEof,
            RecvDeadline, DropForwarder, TakeEvent, ForwardSend, ForwarderEnds, Tick, vars, hostVars
      <4> QED BY <4>1, <4>2 DEF NoOutput
    <3>3. \A i \in 1..Len(to_host') : \E j \in 1..Len(to_host) : to_host'[i] = to_host[j]
      BY <1>4, HostTakes DEF Kept
    <3> QED BY <1>1, <1>2, <1>3, <2>1, <2>3, <3>2, <3>3 DEF MessageInv, Left
  <2> QED BY <1>4, <2>2, <2>3
      DEF HostSide, Call, RecvChunk, RecvMessage, RecvExit, RecvAck, RecvEof, RecvDeadline,
          DropForwarder, TakeEvent, ForwardSend, ForwarderEnds, Tick, vars, hostVars, wireVars, Read
<1>5. CASE Capture \/ Workload
  <2>1. UNCHANGED <<to_host, expected, after>>
    BY <1>5, WorkLeavesWire, GuestLeavesHost, HandlerStays DEF wireVars, hostVars
  <2>2. g' = g \/ (g = "stdin" /\ g' = "recv") BY <1>5, HandlerStays DEF ChildReads
  <2> QED BY <1>1, <1>2, <1>3, <2>1, <2>2 DEF MessageInv, NoOutput, Left
<1>6. CASE Handler
  <2>1. UNCHANGED expected BY <1>6, GuestLeavesHost DEF hostVars
  <2>2. g' = "stdin" => kind = "pty"
    <3>1. CASE PollInput
      <4>1. to_guest # <<>> /\ to_guest[1][1] = "input" /\ 1 \in 1..Len(to_guest)
        BY <3>1, TailType DEF PollInput, FrameTypes
      <4> QED BY <4>1 DEF MessageInv
    <3> QED BY <1>6, <3>1 DEF Handler, WriteInputFails, RecvFrame, TryWait, CheckDeadline,
               PollNothing, PollDisconnect, PollCancel, Join, FinishExec, AbortExec, Leave
  <2>3. ASSUME NEW i \in 1..Len(to_host), to_host[i][1] = "message"
        PROVE  UNCHANGED to_host /\ g' = "return" /\ NoOutput
    <3>1. g = "join" /\ after = "return" /\ NoOutput BY <1>6, <2>3, HandlerRuns DEF MessageInv, Left
    <3> QED BY <1>6, <3>1 DEF Handler, WriteInputFails, RecvFrame, TryWait, CheckDeadline,
               PollNothing, PollDisconnect, PollCancel, PollInput, Join, FinishExec
  <2>4. ASSUME NEW i \in 1..Len(to_host'), to_host'[i][1] = "message"
        PROVE  NoOutput' /\ Left' /\ (g' = "join" => after' = "return")
    <3>1. CASE UNCHANGED to_host BY <2>1, <2>3, <2>4, <3>1 DEF NoOutput, Left
    <3>2. CASE WriteInputFails /\ kind = "exec"
               /\ to_host' = to_host \o <<<<"message", 0>>, <<"exit", "failed">>>>
      <4>1. NoOutput /\ to_host = <<>> BY <3>2 DEF MessageInv, WriteInputFails
      <4>2. g' = "join" /\ after' = "return" BY <3>2 DEF WriteInputFails, AbortExec, Leave
      <4>3. to_host' = <<<<"message", 0>>, <<"exit", "failed">>>> BY <3>2, <4>1
      <4>4. \A s \in AllStreams : Positions(to_host', s) = {}
        BY <4>3 DEF Positions, AllStreams
      <4> QED BY <2>1, <4>1, <4>2, <4>4 DEF NoOutput, Left
    <3>3. ASSUME NEW f \in HostFrames, f[1] # "message", to_host' = Append(to_host, f)
          PROVE  FALSE
      <4>1. i \in 1..Len(to_host) /\ to_host'[i] = to_host[i]
        BY <2>4, <3>3, AppendType DEF FrameTypes
      <4>2. to_host' = to_host BY <2>3, <2>4, <4>1
      <4>3. Len(to_host') = Len(to_host) + 1 /\ Len(to_host) \in Nat
        BY <3>3, AppendType DEF FrameTypes
      <4> QED BY <4>2, <4>3
    <3>4. CASE \/ to_host' = Append(to_host, <<"ack", "already_exited">>)
               \/ to_host' = Append(to_host, <<"ack", "cancelled">>)
               \/ to_host' = Append(to_host, <<"exit", TerminalStatus>>)
      <4>1. <<"exit", TerminalStatus>> \in HostFrames BY FramesKnown DEF TerminalStatus, Statuses
      <4> QED BY <3>3, <3>4, <4>1, FramesKnown
    <3>5. CASE chan # <<>> /\ to_host' = Append(to_host, Head(chan))
      <4>1. Head(chan) \in Chunks BY <3>5, TailType DEF FrameTypes
      <4>2. Head(chan)[1] # "message" BY <4>1 DEF Chunks, AllStreams
      <4> QED BY <3>3, <3>5, <4>1, <4>2, FramesKnown
    <3> QED BY <1>6, <3>1, <3>2, <3>4, <3>5, HandlerSends
  <2> QED BY <1>1, <1>2, <1>3, <2>2, <2>4 DEF MessageInv, Types
<1> QED BY <1>4, <1>5, <1>6, Sides

-----------------------------------------------------------------------------
(* The theorems.                                                            *)

\* The invariant holds when the request has been sent.
LEMMA InitInv ==
    ASSUME Init
    PROVE  Inv
<1> DEFINE refused == <<<<"message", 0>>, <<"exit", "failed">>>>
<1>1. Types BY BoundsAssumption DEF Init, Types, AllStreams
<1>2. to_host = <<>> \/ to_host = refused BY DEF Init
<1>3. FrameTypes
  <2>1. refused \in Seq(HostFrames) BY FramesKnown DEF Statuses
  <2>2. <<>> \in Seq(HostFrames) /\ <<>> \in Seq(GuestFrames) /\ <<>> \in Seq(Chunks) OBVIOUS
  <2>3. to_guest = <<>> /\ chan = <<>> BY DEF Init
  <2>4. Len(chan) <= 1 BY <2>3
  <2> HIDE DEF refused
  <2> QED BY <1>2, <2>1, <2>2, <2>3, <2>4 DEF FrameTypes
<1>4. \A s \in AllStreams : Positions(to_host, s) = {}
  BY <1>2 DEF Positions, AllStreams
<1>5. ChildInv BY DEF Init, ChildInv, Left
<1>6. StreamInv
  BY DEF Init, StreamInv, Drained, Captured, Streams, PipeOpen, Alive, AllStreams
<1>7. CancelInv BY <1>2 DEF Init, CancelInv
<1>8. ExitInv BY <1>2 DEF Init, ExitInv, C!Reported
<1>9. FlowInv
  <2>1. \A s \in AllStreams : Count(to_host, s) = 0 BY <1>4, FS_EmptySet DEF Count
  <2> QED BY <2>1 DEF Init, FlowInv, Flow, InChan, Sending
<1>10. SequenceInv BY <1>4 DEF Init, SequenceInv, Chained, Entering, InChan
<1>11. MessageInv
  <2>1. NoOutput BY <1>4 DEF Init, NoOutput
  <2> QED BY <2>1 DEF Init, MessageInv, Left
<1> QED BY <1>1, <1>3, <1>5, <1>6, <1>7, <1>8, <1>9, <1>10, <1>11 DEF Inv

\* Every step keeps it.
LEMMA InvStep ==
    ASSUME Inv, [Next]_vars
    PROVE  Inv'
BY TypesStep, FrameTypesStep, ChildStep, StreamStep, CancelStep, ExitStep, FlowStep, SequenceStep,
   MessageStep DEF Inv

\* The handler never goes back to accept with a child that runs or was not waited
\* for, whichever of its returns it takes.
THEOREM ChildReaped == Spec => []NoChildLeft
<1>1. Init => Inv BY InitInv
<1>2. Inv /\ [Next]_vars => Inv' BY InvStep
<1>3. Inv => NoChildLeft BY DEF Inv, ChildInv, Left, NoChildLeft
<1> QED BY <1>1, <1>2, <1>3, PTL DEF Spec

\* A call that returned cancelled has no process of its group left and no capture
\* thread running.
THEOREM CancelledIsDead == Spec => []CancelledMeansDead
<1>1. Init => Inv BY InitInv
<1>2. Inv /\ [Next]_vars => Inv' BY InvStep
<1>3. Inv => CancelledMeansDead BY DEF Inv, CancelInv, Dead, CancelledMeansDead
<1> QED BY <1>1, <1>2, <1>3, PTL DEF Spec

\* No call fails with a sequence mismatch, for every size of the sequence number:
\* the host refuses before the number wraps.
THEOREM SequencesAgree == Spec => []SequenceAgrees
<1>1. Init => Inv BY InitInv
<1>2. Inv /\ [Next]_vars => Inv' BY InvStep
<1>3. ASSUME Inv PROVE SequenceAgrees
  <2> SUFFICES ASSUME host = "recv", to_host # <<>>
               PROVE  /\ Head(to_host)[1] \in AllStreams
                           => Head(to_host)[2] = expected[Head(to_host)[1]]
                      /\ Head(to_host)[1] = "message" => expected["err"] = 0
      BY DEF SequenceAgrees
  <2>1. Head(to_host) = to_host[1] /\ 1 \in 1..Len(to_host)
    BY <1>3, TailType DEF Inv, FrameTypes
  <2>2. ASSUME NEW s \in AllStreams, to_host[1][1] = s PROVE to_host[1][2] = expected[s]
    <3>1. 1 \in Positions(to_host, s) /\ \A j \in Positions(to_host, s) : 1 <= j
      BY <2>1, <2>2 DEF Positions
    <3>2. Chained(to_host, s, expected[s], Entering(s)) BY <1>3 DEF Inv, SequenceInv
    <3> QED BY <3>1, <3>2 DEF Chained
  <2>3. to_host[1][1] = "message" => expected["err"] = 0
    BY <1>3, <2>1 DEF Inv, MessageInv, NoOutput, AllStreams
  <2> QED BY <2>1, <2>2, <2>3
<1> QED BY <1>1, <1>2, <1>3, PTL DEF Spec

\* A chunk that is delivered was written.
LEMMA DeliveredWasWritten ==
    ASSUME Inv, NEW s \in AllStreams, host = "recv", to_host # <<>>, to_host[1][1] = s
    PROVE  delivered[s] < written[s]
<1>1. to_host \in Seq(HostFrames) BY DEF Inv, FrameTypes
<1>2. Tail(to_host) \in Seq(HostFrames) BY <1>1, TailType
<1>3. Count(Tail(to_host), s) \in Nat BY <1>2, CountType
<1>4. Count(to_host, s) = Count(Tail(to_host), s) + 1 BY <1>1, CountTail
<1>5. Flow(s) <= written[s] BY DEF Inv, FlowInv
<1>6. /\ delivered[s] \in Nat /\ pipe[s] \in Nat /\ written[s] \in Nat
      /\ InChan(s) \in Nat /\ Sending(s) \in Nat
  BY FlowType DEF Inv
<1> QED BY <1>3, <1>4, <1>5, <1>6 DEF Flow

\* When the end of the process is reported everything it wrote is delivered.
LEMMA ReportedAfterOutput ==
    ASSUME Inv, host = "recv", to_host # <<>>, to_host[1][1] = "exit", to_host[1][2] \in C!Reported
    PROVE  delivered = written
<1>1. to_host \in Seq(HostFrames) /\ Len(to_host) \in Nat \ {0} BY TailType DEF Inv, FrameTypes
<1>2. Len(to_host) = 1 /\ Ended BY <1>1 DEF Inv, ExitInv
<1>3. ASSUME NEW s \in AllStreams PROVE delivered[s] = written[s]
  <2>1. Positions(to_host, s) = {} BY <1>1, <1>2 DEF Positions, AllStreams
  <2>2. Count(to_host, s) = 0 BY <2>1, FS_EmptySet DEF Count
  <2>3. InChan(s) = 0 /\ Sending(s) = 0 /\ pipe[s] = 0
    BY <1>2 DEF Ended, Captured, Drained, InChan, Sending
  <2>4. Flow(s) = written[s] BY <1>2 DEF Inv, FlowInv, Ended
  <2>5. delivered[s] \in Nat BY DEF Inv, Types
  <2> QED BY <2>2, <2>3, <2>4, <2>5 DEF Flow
<1> QED BY <1>3 DEF Inv, Types

\* The host call with the guest's handler implements the contract of the caller.
THEOREM ImplementsContract == Spec => Contract
<1>1. Init => Inv BY InitInv
<1>2. Inv /\ [Next]_vars => Inv' BY InvStep
<1>3. Init => C!Init BY DEF Init, C!Init
<1>4. ASSUME Inv, [Next]_vars PROVE [C!Next]_(C!vars)
  <2>1. CASE Handler \/ Capture \/ Workload
    <3>1. UNCHANGED <<delivered, asked, outcome>> BY <2>1, GuestLeavesHost DEF hostVars, fwdVars
    <3>2. CASE \E s \in AllStreams : ChildWrite(s)
      <4>1. \E s \in AllStreams : C!Write(s) BY <3>1, <3>2 DEF ChildWrite, C!Write
      <4> QED BY <4>1 DEF C!Next
    <3>3. CASE ~\E s \in AllStreams : ChildWrite(s)
      <4>1. UNCHANGED written
        BY <2>1, <3>3
        DEF Handler, WriteInputFails, RecvFrame, TryWait, CheckDeadline, PollNothing, PollDisconnect,
            PollCancel, PollInput, Join, FinishExec, Capture, CaptureRead, CaptureEof, CaptureSend,
            Workload, ChildReads, ChildForks, BackgroundExits, ChildExits, outVars
      <4> QED BY <3>1, <4>1 DEF C!vars
    <3> QED BY <3>2, <3>3
  <2>2. CASE HostSide
    <3>1. UNCHANGED written BY <2>2, HostLeavesGuest DEF outVars
    <3>2. to_host # <<>> => Head(to_host) = to_host[1] /\ to_host[1] \in HostFrames
                            /\ 1 \in 1..Len(to_host)
      BY <1>4, TailType DEF Inv, FrameTypes
    <3>3. host = "recv" => outcome = "none" BY <1>4 DEF Inv, Types
    <3>4. ASSUME NEW s \in AllStreams, RecvChunk(s) PROVE C!Next
      <4>1. CASE UNCHANGED <<expected, delivered>> /\ outcome' = "error"
        <5>1. C!Finish("error") BY <3>1, <3>3, <3>4, <4>1 DEF RecvChunk, C!Finish, C!Reported, fwdVars
        <5> QED BY <5>1 DEF C!Next, C!Outcomes
      <4>2. CASE delivered' = [delivered EXCEPT ![s] = @ + 1] /\ UNCHANGED <<host, outcome>>
        <5>1. delivered[s] < written[s] BY <1>4, <3>2, <3>4, DeliveredWasWritten DEF RecvChunk
        <5>2. C!Deliver(s) BY <3>1, <3>3, <3>4, <4>2, <5>1 DEF RecvChunk, C!Deliver, fwdVars
        <5> QED BY <5>2 DEF C!Next
      <4> QED BY <3>4, <4>1, <4>2 DEF RecvChunk, HostReturn
    <3>5. CASE RecvExit
      <4>1. to_host[1][2] \in Statuses /\ to_host[1][1] = "exit"
        BY <3>2, <3>5 DEF RecvExit, HostFrames, Chunks, AllStreams
      <4>2. outcome' = to_host[1][2] /\ UNCHANGED <<delivered, asked>> /\ outcome = "none"
        BY <3>2, <3>3, <3>5 DEF RecvExit, HostReturn, fwdVars
      <4>3. to_host[1][2] \in C!Reported => delivered = written
        BY <1>4, <3>5, <4>1, ReportedAfterOutput DEF RecvExit
      <4>4. C!Finish(to_host[1][2]) BY <3>1, <4>1, <4>2, <4>3 DEF C!Finish, Statuses
      <4> QED BY <4>1, <4>4 DEF C!Next, C!Outcomes, C!Reported, Statuses
    <3>6. CASE RecvAck
      <4>1. CASE UNCHANGED outcome BY <3>1, <3>6, <4>1 DEF RecvAck, C!vars, fwdVars
      <4>2. CASE Head(to_host)[2] = "cancelled" /\ outcome' = "cancelled"
        <5>1. to_host[1] = <<"ack", "cancelled">>
          BY <3>2, <3>6, <4>2 DEF RecvAck, HostFrames, Chunks, AllStreams, Statuses
        <5>2. asked BY <1>4, <3>2, <3>6, <5>1 DEF RecvAck, Inv, CancelInv
        <5>3. C!Finish("cancelled")
          BY <3>1, <3>3, <3>6, <4>2, <5>2 DEF RecvAck, C!Finish, C!Reported, fwdVars
        <5> QED BY <5>3 DEF C!Next, C!Outcomes
      <4> QED BY <3>6, <4>1, <4>2 DEF RecvAck, HostReturn
    <3>7. CASE RecvEof
      <4>1. C!Finish("error")
        BY <3>1, <3>3, <3>7 DEF RecvEof, HostReturn, C!Finish, C!Reported, fwdVars
      <4> QED BY <4>1 DEF C!Next, C!Outcomes
    <3>8. CASE RecvDeadline
      <4>1. C!Finish("timeout_host")
        BY <3>1, <3>3, <3>8 DEF RecvDeadline, HostReturn, C!Finish, C!Reported, fwdVars
      <4> QED BY <4>1 DEF C!Next, C!Outcomes
    <3>9. CASE TakeEvent
      <4>1. C!Ask \/ UNCHANGED C!vars
        BY <3>1, <3>9 DEF TakeEvent, hostVars, C!Ask, C!vars
      <4> QED BY <4>1 DEF C!Next
    <3>10. CASE \/ RecvMessage \/ DropForwarder \/ ForwardSend \/ ForwarderEnds
               \/ \E side \in {"host", "guest"} : Tick(side)
               \/ UNCHANGED vars
      BY <3>1, <3>10 DEF RecvMessage, DropForwarder, ForwardSend, ForwarderEnds, Tick, vars,
                         hostVars, fwdVars, C!vars
    <3> QED BY <2>2, <3>4, <3>5, <3>6, <3>7, <3>8, <3>9, <3>10 DEF HostSide, Call
  <2> QED BY <1>4, <2>1, <2>2, Sides
<1> QED BY <1>1, <1>2, <1>3, <1>4, PTL DEF Spec, Contract, C!Spec
=============================================================================
