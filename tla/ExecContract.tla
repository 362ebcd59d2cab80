---------------------------- MODULE ExecContract ----------------------------
(***************************************************************************)
(* What an exec or PTY call of RunningSandbox promises its caller, without *)
(* connections, frames, threads or processes: output reaches the caller in *)
(* the order it was written, nothing follows the outcome, an outcome that  *)
(* reports the end of the process comes after all of its output, and a     *)
(* cancelled outcome is given only to a caller that asked for it.          *)
(***************************************************************************)
EXTENDS Naturals

CONSTANTS
    Streams,    \* the output streams of the request
    MaxChunks   \* bound: chunks a process writes to one stream

VARIABLES
    written,    \* chunks the process wrote, per stream
    delivered,  \* chunks the caller was given, per stream
    asked,      \* the caller asked to cancel
    outcome     \* "none" or what the call returned

vars == <<written, delivered, asked, outcome>>

Reported == {"completed", "timed_out", "signal"}
Outcomes == Reported \cup {"cancelled", "failed", "error", "timeout_host"}

Init ==
    /\ written = [s \in Streams |-> 0]
    /\ delivered = [s \in Streams |-> 0]
    /\ asked = FALSE
    /\ outcome = "none"

Write(s) ==
    /\ written[s] < MaxChunks
    /\ written' = [written EXCEPT ![s] = @ + 1]
    /\ UNCHANGED <<delivered, asked, outcome>>

Deliver(s) ==
    /\ outcome = "none"
    /\ delivered[s] < written[s]
    /\ delivered' = [delivered EXCEPT ![s] = @ + 1]
    /\ UNCHANGED <<written, asked, outcome>>

Ask ==
    /\ asked' = TRUE
    /\ UNCHANGED <<written, delivered, outcome>>

Finish(o) ==
    /\ outcome = "none"
    /\ o \in Reported => delivered = written
    /\ o = "cancelled" => asked
    /\ outcome' = o
    /\ UNCHANGED <<written, delivered, asked>>

Next ==
    \/ \E s \in Streams : Write(s) \/ Deliver(s)
    \/ Ask
    \/ \E o \in Outcomes : Finish(o)

Spec == Init /\ [][Next]_vars
=============================================================================
