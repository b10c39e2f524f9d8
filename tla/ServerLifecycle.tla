-------------------------- MODULE ServerLifecycle --------------------------
(***************************************************************************)
(* The life of one SocketServer: Start, Stop and SetHandler called by the  *)
(* application's threads under m_access_controller (TransportServer in     *)
(* HidTransportInt.cpp), the service thread that StartMe creates and       *)
(* StopMe joins, and the shells that the service starts with std::async    *)
(* and StopMe waits for (SockServerClient.cpp).                            *)
(*                                                                         *)
(* What a shell does on its connection is the subject of SockTransaction;  *)
(* here a shell runs, reads the handler, and ends.                         *)
(***************************************************************************)
EXTENDS Integers, FiniteSets

CONSTANTS
    Apps,             \* threads of the application that manage the server
    None,             \* no thread
    Shells,           \* futures: bounds the connections between two Stops
    MaxErrors,        \* SOCK_MAX_ERRORS_CNT
    MaxBindFailures,  \* how often socket, bind or listen may fail, in all
    Faults            \* which other failures may happen

FaultKinds ==
    {"ACCEPT",  \* select() or accept() fails for good
     "THREAD"}  \* a thread cannot be created

ASSUME NoneAssumption == None \notin Apps \cup Shells /\ Apps \cap Shells = {}
ASSUME ShellsAssumption == IsFiniteSet(Shells)
ASSUME ErrorsAssumption == MaxErrors \in Nat /\ MaxBindFailures \in Nat
ASSUME FaultsAssumption == Faults \subseteq FaultKinds

VARIABLES
    apc,                \* where each application thread is
    lock,               \* owner of m_access_controller
    m_stop, m_instance_active,
    thread,             \* m_server_thread: "none" when not joinable
    svc,                \* where the service thread is
    err_cnt_start, server_sock,
    shells,             \* the shell behind each future
    m_clients,          \* the futures in the list
    g_sockets_cnt,
    bindFailures,       \* failures so far
    died,               \* the service thread ended without being told to
    terminated          \* why std::terminate was called, "no" if it was not

appVars == <<apc, lock>>
svcVars == <<thread, svc, err_cnt_start, server_sock, bindFailures, died>>
vars == <<appVars, svcVars, m_stop, m_instance_active, shells, m_clients,
          g_sockets_cnt, terminated>>

AppPCs == {"idle", "starting", "startWait", "stopping", "joining", "getting",
           "stopped", "setHandler"}
SvcPCs == {"off", "top", "open", "serve", "wait", "spawn", "down", "inactive", "exit"}
ShellPCs == {"none", "top", "serving", "reading", "done"}

Alive == terminated = "no"

Init ==
    /\ apc = [a \in Apps |-> "idle"] /\ lock = None
    /\ m_stop = FALSE /\ m_instance_active = FALSE
    /\ thread = "none" /\ svc = "off" /\ err_cnt_start = 0 /\ server_sock = FALSE
    /\ shells = [s \in Shells |-> "none"] /\ m_clients = {}
    /\ g_sockets_cnt = 0 /\ bindFailures = 0
    /\ died = FALSE /\ terminated = "no"

-----------------------------------------------------------------------------
(* The application: TransportServer::Start, Stop and SetHandler *)

Enter(a, pc) ==
    /\ Alive /\ apc[a] = "idle" /\ lock = None
    /\ lock' = a
    /\ apc' = [apc EXCEPT ![a] = pc]
    /\ UNCHANGED <<svcVars, m_stop, m_instance_active, shells, m_clients,
                   g_sockets_cnt, terminated>>

Leave(a) == lock' = None /\ apc' = [apc EXCEPT ![a] = "idle"]
Goto(a, pc) == apc' = [apc EXCEPT ![a] = pc] /\ UNCHANGED lock

\* Seeded fault: m_instance_active is not looked at
StartMeAnyway(a) ==
    /\ Alive /\ apc[a] = "starting"
    /\ m_stop' = FALSE
    /\ \/ /\ thread = "none"
          /\ thread' = "running" /\ svc' = "top"
          /\ err_cnt_start' = 0 /\ server_sock' = FALSE /\ died' = FALSE
          /\ Goto(a, "startWait")
          /\ UNCHANGED <<bindFailures, terminated>>
       \/ /\ thread # "none"
          /\ terminated' = "assign"
          /\ UNCHANGED <<appVars, svcVars>>
    /\ UNCHANGED <<m_instance_active, shells, m_clients, g_sockets_cnt>>

\* StartMe: a thread is created, or refused, and Start fails; assigning it to a
\* joinable std::thread calls std::terminate
StartMe(a) ==
    /\ Alive /\ apc[a] = "starting"
    /\ \/ /\ m_instance_active
          /\ Leave(a)
          /\ UNCHANGED <<m_stop, svcVars, terminated>>
       \/ /\ ~m_instance_active
          /\ m_stop' = FALSE
          /\ \/ /\ thread = "none"
                /\ thread' = "running" /\ svc' = "top"
                /\ err_cnt_start' = 0 /\ server_sock' = FALSE /\ died' = FALSE
                /\ Goto(a, "startWait")
                /\ UNCHANGED <<bindFailures, terminated>>
             \/ /\ thread # "none"
                /\ terminated' = "assign"
                /\ UNCHANGED <<appVars, svcVars>>
             \/ /\ "THREAD" \in Faults
                /\ Leave(a)
                /\ UNCHANGED <<svcVars, terminated>>
    /\ UNCHANGED <<m_instance_active, shells, m_clients, g_sockets_cnt>>

\* StartMe polls m_instance_active
StartWait(a) ==
    /\ Alive /\ apc[a] = "startWait" /\ m_instance_active
    /\ Leave(a)
    /\ UNCHANGED <<svcVars, m_stop, m_instance_active, shells, m_clients,
                   g_sockets_cnt, terminated>>

\* StopMe: raise the flag, join the service, get every future, drop the list
StopSignal(a) ==
    /\ Alive /\ apc[a] = "stopping"
    /\ m_stop' = TRUE
    /\ Goto(a, "joining")
    /\ UNCHANGED <<svcVars, m_instance_active, shells, m_clients, g_sockets_cnt, terminated>>

StopJoin(a) ==
    /\ Alive /\ apc[a] = "joining" /\ thread # "running"
    /\ thread' = "none"
    /\ Goto(a, "getting")
    /\ UNCHANGED <<svc, err_cnt_start, server_sock, bindFailures, died, m_stop,
                   m_instance_active, shells, m_clients, g_sockets_cnt, terminated>>

\* Seeded fault: the futures are dropped and nobody waits for the shells
StopForgets(a) ==
    /\ Alive /\ apc[a] = "getting"
    /\ m_clients' = {}
    /\ Goto(a, "stopped")
    /\ UNCHANGED <<svcVars, m_stop, m_instance_active, shells, g_sockets_cnt, terminated>>

StopGet(a) ==
    /\ Alive /\ apc[a] = "getting" /\ \A s \in m_clients : shells[s] = "done"
    /\ m_clients' = {}
    /\ shells' = [s \in Shells |-> IF s \in m_clients THEN "none" ELSE shells[s]]
    /\ Goto(a, "stopped")
    /\ UNCHANGED <<svcVars, m_stop, m_instance_active, g_sockets_cnt, terminated>>

\* Stop and SetHandler give the lock back
Return(a) ==
    /\ Alive /\ apc[a] \in {"stopped", "setHandler"}
    /\ Leave(a)
    /\ UNCHANGED <<svcVars, m_stop, m_instance_active, shells, m_clients,
                   g_sockets_cnt, terminated>>

-----------------------------------------------------------------------------
(* The service thread: SocketServer::Service *)

\* Seeded fault: one failure fewer is allowed
ServiceTopStrict ==
    /\ Alive /\ svc = "top"
    /\ svc' = IF m_stop \/ err_cnt_start >= MaxErrors THEN "down"
              ELSE IF server_sock THEN "serve" ELSE "open"
    /\ UNCHANGED <<appVars, thread, err_cnt_start, server_sock, bindFailures, died, m_stop,
                   m_instance_active, shells, m_clients, g_sockets_cnt, terminated>>

ServiceTop ==
    /\ Alive /\ svc = "top"
    /\ svc' = IF m_stop \/ err_cnt_start > MaxErrors THEN "down"
              ELSE IF server_sock THEN "serve" ELSE "open"
    /\ UNCHANGED <<appVars, thread, err_cnt_start, server_sock, bindFailures, died, m_stop,
                   m_instance_active, shells, m_clients, g_sockets_cnt, terminated>>

\* socket_open, socket_bind and socket_listen; on failure the socket is closed
ServiceOpen ==
    /\ Alive /\ svc = "open"
    /\ \/ /\ server_sock' = TRUE /\ g_sockets_cnt' = g_sockets_cnt + 1
          /\ svc' = "serve"
          /\ UNCHANGED <<err_cnt_start, bindFailures>>
       \/ /\ bindFailures < MaxBindFailures
          /\ bindFailures' = bindFailures + 1
          /\ err_cnt_start' = err_cnt_start + 1
          /\ svc' = "top"
          /\ UNCHANGED <<server_sock, g_sockets_cnt>>
    /\ UNCHANGED <<appVars, thread, died, m_stop, m_instance_active, shells, m_clients,
                   terminated>>

ServiceServe ==
    /\ Alive /\ svc = "serve"
    /\ err_cnt_start' = 0 /\ m_instance_active' = TRUE
    /\ svc' = "wait"
    /\ UNCHANGED <<appVars, thread, server_sock, bindFailures, died, m_stop, shells,
                   m_clients, g_sockets_cnt, terminated>>

\* socket_wait and socket_accept: nobody, a connection, or an error
ServiceWait ==
    /\ Alive /\ svc = "wait"
    /\ \/ svc' = "top" /\ UNCHANGED g_sockets_cnt
       \/ /\ \E s \in Shells : shells[s] = "none"
          /\ svc' = "spawn" /\ g_sockets_cnt' = g_sockets_cnt + 1
       \/ "ACCEPT" \in Faults /\ svc' = "down" /\ UNCHANGED g_sockets_cnt
    /\ UNCHANGED <<appVars, thread, err_cnt_start, server_sock, bindFailures, died, m_stop,
                   m_instance_active, shells, m_clients, terminated>>

\* StartClient: an exception of std::async leaves the thread function
StartClient ==
    /\ Alive /\ svc = "spawn"
    /\ \/ \E s \in Shells :
            /\ shells[s] = "none"
            /\ shells' = [shells EXCEPT ![s] = "top"]
            /\ m_clients' = m_clients \cup {s}
            /\ svc' = "top"
            /\ UNCHANGED terminated
       \/ /\ "THREAD" \in Faults
          /\ terminated' = "async"
          /\ UNCHANGED <<shells, m_clients, svc>>
    /\ UNCHANGED <<appVars, thread, err_cnt_start, server_sock, bindFailures, died, m_stop,
                   m_instance_active, g_sockets_cnt>>

\* Seeded fault: a socket that was never opened is counted as closed
ServiceDownUnchecked ==
    /\ Alive /\ svc = "down"
    /\ server_sock' = FALSE
    /\ g_sockets_cnt' = g_sockets_cnt - 1
    /\ svc' = "inactive"
    /\ UNCHANGED <<appVars, thread, err_cnt_start, bindFailures, died, m_stop,
                   m_instance_active, shells, m_clients, terminated>>

ServiceDown ==
    /\ Alive /\ svc = "down"
    /\ server_sock' = FALSE
    /\ g_sockets_cnt' = IF server_sock THEN g_sockets_cnt - 1 ELSE g_sockets_cnt
    /\ svc' = "inactive"
    /\ UNCHANGED <<appVars, thread, err_cnt_start, bindFailures, died, m_stop,
                   m_instance_active, shells, m_clients, terminated>>

\* Seeded fault: the flag survives the service
ServiceStaysActive ==
    /\ Alive /\ svc = "inactive"
    /\ died' = ~m_stop
    /\ svc' = "exit"
    /\ UNCHANGED <<appVars, thread, err_cnt_start, server_sock, bindFailures, m_stop, shells,
                   m_clients, m_instance_active, g_sockets_cnt, terminated>>

ServiceInactive ==
    /\ Alive /\ svc = "inactive"
    /\ m_instance_active' = FALSE
    /\ died' = ~m_stop
    /\ svc' = "exit"
    /\ UNCHANGED <<appVars, thread, err_cnt_start, server_sock, bindFailures, m_stop, shells,
                   m_clients, g_sockets_cnt, terminated>>

ServiceExit ==
    /\ Alive /\ svc = "exit"
    /\ svc' = "off" /\ thread' = "finished"
    /\ UNCHANGED <<appVars, err_cnt_start, server_sock, bindFailures, died, m_stop,
                   m_instance_active, shells, m_clients, g_sockets_cnt, terminated>>

-----------------------------------------------------------------------------
(* The shells: SocketServer::Shell *)

shellRest == <<appVars, svcVars, m_stop, m_instance_active, m_clients, terminated>>

ShellGoto(s, pc) ==
    /\ shells' = [shells EXCEPT ![s] = pc]
    /\ g_sockets_cnt' = IF pc = "done" THEN g_sockets_cnt - 1 ELSE g_sockets_cnt
    /\ UNCHANGED <<appVars, svcVars, m_stop, m_instance_active, m_clients, terminated>>

\* Seeded fault: a shell that does not look at m_stop
ShellNeverStops(s) ==
    /\ Alive /\ shells[s] = "top"
    /\ ShellGoto(s, "serving")

\* The flag is looked at before every wait for a request
ShellTop(s) ==
    /\ Alive /\ shells[s] = "top"
    /\ ShellGoto(s, IF m_stop THEN "done" ELSE "serving")

\* No request within a second, a request, or a client that is gone
ShellServe(s) ==
    /\ Alive /\ shells[s] = "serving"
    /\ \E pc \in {"top", "reading", "done"} : ShellGoto(s, pc)

\* ShellCmdExec reads m_ev_handler, and holds no lock
ShellHasRead(s) ==
    /\ Alive /\ shells[s] = "reading"
    /\ ShellGoto(s, "top")

-----------------------------------------------------------------------------
ServiceStep ==
    \/ ServiceTop \/ ServiceOpen \/ ServiceServe \/ ServiceWait \/ StartClient
    \/ ServiceDown \/ ServiceInactive \/ ServiceExit

\* A call that is under way
AppStep(a) ==
    \/ StartMe(a) \/ StartWait(a) \/ StopSignal(a) \/ StopJoin(a) \/ StopGet(a) \/ Return(a)

AppCall(a) == \E pc \in {"starting", "stopping", "setHandler"} : Enter(a, pc)

ShellStep(s) == ShellTop(s) \/ ShellServe(s) \/ ShellHasRead(s)

Next ==
    \/ ServiceStep
    \/ \E a \in Apps : AppCall(a) \/ AppStep(a)
    \/ \E s \in Shells : ShellStep(s)

Spec == Init /\ [][Next]_vars

-----------------------------------------------------------------------------
(* Properties *)

\* A shell owns the mutex when its handler calls the server (ServerReentry)
TypeOK ==
    /\ apc \in [Apps -> AppPCs] /\ lock \in Apps \cup Shells \cup {None}
    /\ m_stop \in BOOLEAN /\ m_instance_active \in BOOLEAN
    /\ thread \in {"none", "running", "finished"} /\ svc \in SvcPCs
    /\ err_cnt_start \in Nat /\ server_sock \in BOOLEAN
    /\ shells \in [Shells -> ShellPCs]
    /\ m_clients \subseteq Shells
    /\ g_sockets_cnt \in Nat /\ bindFailures \in 0 .. MaxBindFailures
    /\ died \in BOOLEAN /\ terminated \in {"no", "assign", "async"}

\* When StopMe is done nothing of the server is left: no service thread, no
\* future, no shell still running behind a lost future, no socket.
StopLeavesNothing ==
    \A a \in Apps : apc[a] = "stopped" =>
        /\ thread = "none" /\ svc = "off" /\ m_clients = {}
        /\ \A s \in Shells : shells[s] = "none"
        /\ g_sockets_cnt = 0

\* Only one active instance: a second Start never replaces a service thread
\* that runs.  It ends the program only after the service died by itself.
AssignOnlyAfterDeath == terminated = "assign" => died

\* m_instance_active, which StartMe believes without a look at the thread, is
\* never left behind by a service thread that ended.
ActiveIsServed == m_instance_active => thread = "running"

\* The shell of a future as Service sees it: gone when its thread is at its end
Seen == [s \in Shells |-> CASE shells[s] \in {"none", "done"} -> "none"
                            [] shells[s] \in {"serving", "reading"} -> "busy"
                            [] OTHER -> shells[s]]

Promise == INSTANCE Service WITH listening <- server_sock, shells <- Seen,
                                 MayDie <- "ACCEPT" \in Faults

\* One service at a time: it listens, and the stop flag is lowered, only when
\* no shell of an earlier one is left to read the flag.
OneServiceAtATime == Promise!Spec

\* Every Start returns, unless the service ended by itself: at a failing
\* accept, or after more than SOCK_MAX_ERRORS_CNT failures in a row to get the
\* port, and not at fewer.
StartReturns ==
    \A a \in Apps :
        apc[a] \in {"starting", "startWait"}
            ~> \/ apc[a] = "idle" \/ ~Alive
               \/ died /\ (err_cnt_start = 0 \/ err_cnt_start > MaxErrors)

\* What HidTransportInt.h says of m_access_controller, and the code does not
\* do: the handler is written while a shell reads it.
HandlerAccessExclusive ==
    ~ \E a \in Apps, s \in Shells : apc[a] = "setHandler" /\ shells[s] = "reading"

=============================================================================
