------------------------------ MODULE Service -------------------------------
(***************************************************************************)
(* What Start, Stop, the service thread and the shells of a SocketServer   *)
(* (SockServerClient.cpp) promise together: one service at a time.  It     *)
(* begins to listen, and its stop flag is lowered, only when every shell   *)
(* of the service before it is gone; shells begin while it listens; and a  *)
(* shell that is told to stop finishes the wait or the request it is in,   *)
(* and begins no other.                                                    *)
(*                                                                         *)
(* ServerLifecycle, where this takes a mutex, a join and a list of         *)
(* futures, implements it.  That is why SockTransaction may let Start wait *)
(* for every shell, and a shell begin no request once it is told to stop.  *)
(***************************************************************************)
CONSTANTS
    Shells,
    MayDie      \* the service may end without being told to

VARIABLES
    listening,  \* the service accepts connections
    m_stop,     \* it was told to stop
    shells      \* "none", "top" between two requests, "busy", or "leaving"

vars == <<listening, m_stop, shells>>

AllGone == \A s \in Shells : shells[s] = "none"

Init == listening = FALSE /\ m_stop = FALSE /\ shells = [s \in Shells |-> "none"]

Open ==
    /\ ~listening /\ AllGone
    /\ listening' = TRUE /\ m_stop' = FALSE
    /\ UNCHANGED shells

\* A service that has not begun to listen, or never does
Lower == ~listening /\ AllGone /\ m_stop' = FALSE /\ UNCHANGED <<listening, shells>>

Tell == m_stop' = TRUE /\ UNCHANGED <<listening, shells>>

Down ==
    /\ listening /\ (m_stop \/ MayDie)
    /\ listening' = FALSE
    /\ UNCHANGED <<m_stop, shells>>

Goto(s, pc) == shells' = [shells EXCEPT ![s] = pc] /\ UNCHANGED <<listening, m_stop>>

Accept(s) == listening /\ shells[s] = "none" /\ Goto(s, "top")
Take(s)   == shells[s] = "top" /\ ~m_stop /\ Goto(s, "busy")
Done(s)   == shells[s] = "busy" /\ Goto(s, "top")

\* A shell leaves a request that failed, or when it is told to
MayLeave(s) == shells[s] = "busy" \/ (shells[s] = "top" /\ m_stop)
Leave(s)    == MayLeave(s) /\ Goto(s, "leaving")
End(s)      == (MayLeave(s) \/ shells[s] = "leaving") /\ Goto(s, "none")

ShellStep(s) == Accept(s) \/ Take(s) \/ Done(s) \/ Leave(s) \/ End(s)

Next == Open \/ Lower \/ Tell \/ Down \/ \E s \in Shells : ShellStep(s)

Spec == Init /\ [][Next]_vars

=============================================================================
