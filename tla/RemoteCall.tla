----------------------------- MODULE RemoteCall -----------------------------
(***************************************************************************)
(* What SocketClient and SocketServer of src/dev/common promise together   *)
(* to the application: calls that are made one at a time.  A call sends    *)
(* its request once, or twice when the connection was lost.  The handler   *)
(* runs at most once per sending, at any time after it, and a call that is *)
(* answered was executed.  A call that fails may have been executed, or    *)
(* be executed later.                                                      *)
(***************************************************************************)
EXTENDS Naturals

CONSTANT MaxOps     \* bound on the calls

VARIABLES
    op,         \* the number of the call made last
    phase,      \* "idle" between calls, "pending", or "answered"
    sends,      \* how often each call sent its request
    execs       \* how often the handler was started for each call

vars == <<op, phase, sends, execs>>

Ops == 0 .. MaxOps

Init ==
    /\ op = 0 /\ phase = "idle"
    /\ sends = [o \in Ops |-> 0] /\ execs = [o \in Ops |-> 0]

Begin ==
    /\ phase = "idle" /\ op < MaxOps
    /\ op' = op + 1 /\ phase' = "pending"
    /\ sends' = [sends EXCEPT ![op'] = 1]
    /\ UNCHANGED execs

Resend ==
    /\ phase = "pending" /\ sends[op] = 1
    /\ sends' = [sends EXCEPT ![op] = 2]
    /\ UNCHANGED <<op, phase, execs>>

\* The handler may run for an earlier call, too
Execute(o) ==
    /\ execs[o] < sends[o]
    /\ execs' = [execs EXCEPT ![o] = @ + 1]
    /\ UNCHANGED <<op, phase, sends>>

Answer ==
    /\ phase = "pending" /\ execs[op] > 0
    /\ phase' = "answered"
    /\ UNCHANGED <<op, sends, execs>>

Return ==
    /\ phase # "idle" /\ phase' = "idle"
    /\ UNCHANGED <<op, sends, execs>>

Next == Begin \/ Resend \/ (\E o \in Ops : Execute(o)) \/ Answer \/ Return

Spec == Init /\ [][Next]_vars

=============================================================================
