--------------------------- MODULE ServerReentry ----------------------------
(***************************************************************************)
(* ServerLifecycle with handlers that call the server they serve.  Start,  *)
(* Stop and SetHandler take m_access_controller (HidTransportInt.cpp), and *)
(* StopMe waits, with the mutex held, for every shell                      *)
(* (SockServerClient.cpp): for the one whose handler calls, too.           *)
(***************************************************************************)
EXTENDS ServerLifecycle

CONSTANT HandlerCalls   \* what the application's handler may call

ASSUME HandlerCallsAssumption == HandlerCalls \subseteq {"SetHandler", "Start", "Stop"}

VARIABLE hpc            \* what the handler that each shell runs is doing

allVars == <<vars, hpc>>

\* "no": it has called nothing; a name of HandlerCalls: it waits for the mutex;
\* the others are inside the call
HandlerPCs == {"no", "SetHandler", "Start", "Stop", "setHandler", "starting", "stopping",
               "joining", "getting"}

Inside == [SetHandler |-> "setHandler", Start |-> "starting", Stop |-> "stopping"]

HandlerGoto(s, pc) == hpc' = [hpc EXCEPT ![s] = pc]

serverRest == <<apc, svc, err_cnt_start, server_sock, bindFailures, died, m_instance_active,
                shells, m_clients, g_sockets_cnt>>

\* ShellCmdExec has read m_ev_handler and runs it
HandlerAsks(s) ==
    /\ Alive /\ shells[s] = "reading" /\ hpc[s] = "no"
    /\ \E call \in HandlerCalls : HandlerGoto(s, call)
    /\ UNCHANGED vars

HandlerLocks(s) ==
    /\ Alive /\ hpc[s] \in HandlerCalls /\ lock = None
    /\ lock' = s
    /\ HandlerGoto(s, Inside[hpc[s]])
    /\ UNCHANGED <<serverRest, m_stop, thread, terminated>>

\* Seeded fault: SetHandler returns and keeps the mutex
HandlerKeepsLock(s) ==
    /\ Alive /\ hpc[s] = "setHandler"
    /\ HandlerGoto(s, "no")
    /\ UNCHANGED vars

HandlerSets(s) ==
    /\ Alive /\ hpc[s] = "setHandler"
    /\ lock' = None
    /\ HandlerGoto(s, "no")
    /\ UNCHANGED <<serverRest, m_stop, thread, terminated>>

\* StartMe in a shell: there is a thread object, running or not, and there may
\* be no thread for another
HandlerStarts(s) ==
    /\ Alive /\ hpc[s] = "starting"
    /\ \/ /\ m_instance_active
          /\ lock' = None
          /\ HandlerGoto(s, "no")
          /\ UNCHANGED <<m_stop, terminated>>
       \/ /\ ~m_instance_active /\ thread # "none"
          /\ m_stop' = FALSE
          /\ \/ terminated' = "assign" /\ UNCHANGED <<lock, hpc>>
             \/ /\ "THREAD" \in Faults
                /\ lock' = None /\ HandlerGoto(s, "no") /\ UNCHANGED terminated
    /\ UNCHANGED <<serverRest, thread>>

HandlerStopSignal(s) ==
    /\ Alive /\ hpc[s] = "stopping"
    /\ m_stop' = TRUE
    /\ HandlerGoto(s, "joining")
    /\ UNCHANGED <<serverRest, lock, thread, terminated>>

\* Seeded fault: the service thread is detached
HandlerStopDetaches(s) ==
    /\ Alive /\ hpc[s] = "joining"
    /\ thread' = "none"
    /\ HandlerGoto(s, "getting")
    /\ UNCHANGED <<serverRest, lock, m_stop, terminated>>

\* After the join client.get() waits for the shell that runs this handler, and
\* so there is no further step
HandlerStopJoin(s) ==
    /\ Alive /\ hpc[s] = "joining" /\ thread # "running"
    /\ thread' = "none"
    /\ HandlerGoto(s, "getting")
    /\ UNCHANGED <<serverRest, lock, m_stop, terminated>>

HandlerStep(s) ==
    \/ HandlerLocks(s) \/ HandlerSets(s) \/ HandlerStarts(s)
    \/ HandlerStopSignal(s) \/ HandlerStopJoin(s)

\* A shell goes on when its handler has returned
ShellGoesOn(s) == hpc[s] = "no" /\ ShellStep(s) /\ UNCHANGED hpc

Others == ServiceStep /\ UNCHANGED hpc
AppGoesOn(a) == AppStep(a) /\ UNCHANGED hpc

ReentryInit == Init /\ hpc = [s \in Shells |-> "no"]

ReentryNext ==
    \/ Others
    \/ \E a \in Apps : AppGoesOn(a) \/ (AppCall(a) /\ UNCHANGED hpc)
    \/ \E s \in Shells : ShellGoesOn(s) \/ HandlerAsks(s) \/ HandlerStep(s)

ReentrySpec == ReentryInit /\ [][ReentryNext]_allVars

\* Every thread runs; a handler owes no call, and a call that waits for the
\* mutex gets it when it is free often enough
ReentryFairSpec ==
    /\ ReentrySpec
    /\ WF_allVars(Others)
    /\ \A a \in Apps : WF_allVars(AppGoesOn(a))
    /\ \A s \in Shells : WF_allVars(ShellGoesOn(s)) /\ SF_allVars(HandlerStep(s))

-----------------------------------------------------------------------------
(* Properties *)

\* Somebody is in StopMe
StopInProgress ==
    \/ \E a \in Apps : apc[a] \in {"stopping", "joining", "getting", "stopped"}
    \/ \E s \in Shells : hpc[s] \in {"stopping", "joining", "getting"}

\* m_clients has no lock of its own: StopMe, of the application or of a handler
\* that the service itself has brought about, walks the list only when the
\* service thread, which appends to it, is gone.
ListNotShared ==
    (\E a \in Apps : apc[a] = "getting") \/ (\E s \in Shells : hpc[s] = "getting") => svc = "off"

\* A handler may call SetHandler and Start: the call returns, unless a Stop is
\* in progress, which may wait for this very handler, or the service died by
\* itself, and a Start of the application polls m_instance_active for ever.
HandlerCallReturns ==
    \A s \in Shells :
        hpc[s] \in {"SetHandler", "Start", "setHandler", "starting"}
            ~> hpc[s] = "no" \/ StopInProgress \/ died \/ ~Alive

\* A Stop returns, unless a handler stays in a call of its own for ever, or
\* the program has ended.
StopReturnsOrCrossed ==
    \A a \in Apps :
        [](apc[a] = "stopping" => <>(apc[a] = "idle" \/ ~Alive \/ [](\E s \in Shells : hpc[s] # "no")))

=============================================================================
